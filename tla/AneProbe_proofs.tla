-------------------------- MODULE AneProbe_proofs --------------------------
(***************************************************************************)
(* Proofs about AneProbe for any number of power domains and any sequence  *)
(* of probes and removes.  ProbeInv says, for every place in the code,     *)
(* which power domains the loops have reached, what else is held and how   *)
(* far runtime PM is.                                                      *)
(***************************************************************************)
EXTENDS AneProbe, TLAPS

PmOn == {"put", "register", "bound", "disable_pm"}
Attached == {"irq", "ioremap", "domain", "tm", "pm", "domain_free"} \cup PmOn

(* The attach loop has reached domain i, going up, or the detach loop has, *)
(* going down, from wherever the attach loop was.                          *)
DomainInv ==
  /\ link \subseteq dev
  /\ pc \in {"unbound", "release"} => dev = {}
  /\ pc = "attach" => i \in 0 .. (pds - 1) /\ dev = 0 .. (i - 1) /\ link = dev
  /\ pc = "link" => i \in 0 .. (pds - 1) /\ dev = 0 .. i /\ link = 0 .. (i - 1)
  /\ pc \in Attached => dev = Domains /\ link = Domains
  /\ pc \in {"detach", "detach_dev"} =>
       i \in 0 .. (pds - 1) /\ dev \subseteq 0 .. i
  /\ pc = "detach_dev" => i \notin link
  /\ pc \in {"attach", "link", "detach", "detach_dev"} => pds > 1

(* What probe has taken so far, and what the ways down have given back. *)
HeldInv ==
  /\ pc \in {"unbound", "attach", "link", "irq"} => held \subseteq {"dartOff"}
  /\ pc = "ioremap" => held = {"dartOff"}
  /\ pc = "domain" => held = {"dartOff", "engine"}
  /\ pc \in {"tm", "pm", "put", "register", "disable_pm", "domain_free"} =>
       held = {"dartOff", "engine", "mm"}
  /\ pc = "bound" => held = Resources
  /\ pc \in {"detach", "detach_dev", "release"} =>
       held \subseteq {"dartOff", "engine"}

(* Runtime PM is enabled exactly between PmEnable and PmDisable, callbacks *)
(* run only then, and an active device has been programmed.                *)
PowerInv ==
  /\ enabled <=> pc \in PmOn
  /\ usage = IF pc = "put" THEN 1 ELSE 0
  /\ rpm \in Callbacks => enabled
  /\ pc = "pm" \/ (enabled /\ rpm = "active") => tm

ProbeInv == TypeOK /\ DomainInv /\ HeldInv /\ PowerInv

-----------------------------------------------------------------------------
(* Every step of probe and remove, failing or not, and every callback      *)
(* beside them, keeps the invariant.                                       *)
LEMMA ProbeStepInv == ASSUME ProbeInv, [Next]_vars PROVE ProbeInv'
<1> USE MaxPdAssumption DEF ProbeInv, Goto, domains, power
<1>1. CASE Probe
  <2>1. TypeOK'
    BY <1>1 DEF TypeOK, DomainInv, Attached, PmOn, PowerInv, Resources,
       Callbacks, Probe
  <2>2. DomainInv'
    <3>1. dev' = {} /\ link' = {} /\ i' = 0 /\ 0 .. (i' - 1) = {}
      BY <1>1 DEF DomainInv, Probe
    <3>2. pc' = (IF pds <= 1 THEN "irq" ELSE "attach") /\ pds' = pds
      BY <1>1 DEF Probe
    <3>3. pds \in Nat
      BY DEF TypeOK
    <3>4. CASE pds <= 1
      <4>1. pc' = "irq" /\ Domains' = {} BY <3>2, <3>4 DEF Domains
      <4>2. QED BY <3>1, <4>1 DEF DomainInv, Attached, PmOn
    <3>5. CASE pds > 1
      <4>1. pc' = "attach" BY <3>2, <3>3, <3>5
      <4>2. pds' > 1 /\ 0 \in 0 .. (pds' - 1) BY <3>2, <3>3, <3>5
      <4>3. QED BY <3>1, <4>1, <4>2 DEF DomainInv, Attached, PmOn
    <3>6. QED BY <3>3, <3>4, <3>5
  <2>3. HeldInv' BY <1>1 DEF HeldInv, Resources, Probe
  <2>4. PowerInv' BY <1>1 DEF PowerInv, PmOn, Callbacks, Probe
  <2>5. QED BY <2>1, <2>2, <2>3, <2>4
<1>2. CASE AttachDev
  <2>1. TypeOK'
    BY <1>2 DEF TypeOK, DomainInv, Attached, PmOn, PowerInv, Resources,
       Callbacks, AttachDev
  <2>2. DomainInv'
    BY <1>2 DEF TypeOK, DomainInv, Attached, PmOn, Domains, AttachDev
  <2>3. HeldInv' BY <1>2 DEF HeldInv, Resources, AttachDev
  <2>4. PowerInv' BY <1>2 DEF PowerInv, PmOn, Callbacks, AttachDev
  <2>5. QED BY <2>1, <2>2, <2>3, <2>4
<1>3. CASE AttachLink
  <2>1. TypeOK'
    BY <1>3 DEF TypeOK, DomainInv, Attached, PmOn, PowerInv, Resources,
       Callbacks, AttachLink
  <2>2. DomainInv'
    BY <1>3 DEF TypeOK, DomainInv, Attached, PmOn, Domains, AttachLink
  <2>3. HeldInv' BY <1>3 DEF HeldInv, Resources, AttachLink
  <2>4. PowerInv' BY <1>3 DEF PowerInv, PmOn, Callbacks, AttachLink
  <2>5. QED BY <2>1, <2>2, <2>3, <2>4
<1>4. CASE GetIrqs
  <2>1. TypeOK'
    BY <1>4 DEF TypeOK, DomainInv, Attached, PmOn, PowerInv, Resources,
       Callbacks, GetIrqs, Take
  <2>2. DomainInv'
    BY <1>4 DEF TypeOK, DomainInv, Attached, PmOn, Domains, GetIrqs, Take
  <2>3. HeldInv' BY <1>4 DEF HeldInv, Resources, GetIrqs, Take
  <2>4. PowerInv' BY <1>4 DEF PowerInv, PmOn, Callbacks, GetIrqs, Take
  <2>5. QED BY <2>1, <2>2, <2>3, <2>4
<1>5. CASE Ioremap
  <2>1. TypeOK'
    BY <1>5 DEF TypeOK, DomainInv, Attached, PmOn, PowerInv, Resources,
       Callbacks, Ioremap, Take
  <2>2. DomainInv'
    BY <1>5 DEF TypeOK, DomainInv, Attached, PmOn, Domains, Ioremap, Take
  <2>3. HeldInv' BY <1>5 DEF HeldInv, Resources, Ioremap, Take
  <2>4. PowerInv' BY <1>5 DEF PowerInv, PmOn, Callbacks, Ioremap, Take
  <2>5. QED BY <2>1, <2>2, <2>3, <2>4
<1>6. CASE DomainInit
  <2>1. TypeOK'
    BY <1>6 DEF TypeOK, DomainInv, Attached, PmOn, PowerInv, Resources,
       Callbacks, DomainInit, Take
  <2>2. DomainInv'
    BY <1>6 DEF TypeOK, DomainInv, Attached, PmOn, Domains, DomainInit, Take
  <2>3. HeldInv' BY <1>6 DEF HeldInv, Resources, DomainInit, Take
  <2>4. PowerInv' BY <1>6 DEF PowerInv, PmOn, Callbacks, DomainInit, Take
  <2>5. QED BY <2>1, <2>2, <2>3, <2>4
<1>7. CASE TmEnable
  <2>1. TypeOK'
    BY <1>7 DEF TypeOK, DomainInv, Attached, PmOn, PowerInv, Resources,
       Callbacks, TmEnable
  <2>2. DomainInv'
    BY <1>7 DEF TypeOK, DomainInv, Attached, PmOn, Domains, TmEnable
  <2>3. HeldInv' BY <1>7 DEF HeldInv, Resources, TmEnable
  <2>4. PowerInv' BY <1>7 DEF PowerInv, PmOn, Callbacks, TmEnable
  <2>5. QED BY <2>1, <2>2, <2>3, <2>4
<1>8. CASE PmEnable
  <2>1. TypeOK'
    BY <1>8 DEF TypeOK, DomainInv, Attached, PmOn, PowerInv, Resources,
       Callbacks, PmEnable
  <2>2. DomainInv'
    BY <1>8 DEF TypeOK, DomainInv, Attached, PmOn, Domains, PmEnable
  <2>3. HeldInv' BY <1>8 DEF HeldInv, Resources, PmEnable
  <2>4. PowerInv' BY <1>8 DEF PowerInv, PmOn, Callbacks, PmEnable
  <2>5. QED BY <2>1, <2>2, <2>3, <2>4
<1>9. CASE PmPut
  <2>1. TypeOK'
    BY <1>9 DEF TypeOK, DomainInv, Attached, PmOn, PowerInv, Resources,
       Callbacks, PmPut
  <2>2. DomainInv' BY <1>9 DEF TypeOK, DomainInv, Attached, PmOn, Domains, PmPut
  <2>3. HeldInv' BY <1>9 DEF HeldInv, Resources, PmPut
  <2>4. PowerInv' BY <1>9 DEF PowerInv, PmOn, Callbacks, PmPut
  <2>5. QED BY <2>1, <2>2, <2>3, <2>4
<1>10. CASE Register
  <2>1. TypeOK'
    BY <1>10 DEF TypeOK, DomainInv, Attached, PmOn, PowerInv, Resources,
       Callbacks, Register, Take
  <2>2. DomainInv'
    BY <1>10 DEF TypeOK, DomainInv, Attached, PmOn, Domains, Register, Take
  <2>3. HeldInv' BY <1>10 DEF HeldInv, Resources, Register, Take
  <2>4. PowerInv' BY <1>10 DEF PowerInv, PmOn, Callbacks, Register, Take
  <2>5. QED BY <2>1, <2>2, <2>3, <2>4
<1>11. CASE Fail
  <2>1. TypeOK'
    BY <1>11 DEF TypeOK, DomainInv, Attached, PmOn, PowerInv, Resources,
       Callbacks, Fail, Detach
  <2>2. DomainInv'
    BY <1>11 DEF TypeOK, DomainInv, Attached, PmOn, Domains, Fail, Detach
  <2>3. HeldInv' BY <1>11 DEF HeldInv, Resources, Fail, Detach
  <2>4. PowerInv' BY <1>11 DEF PowerInv, PmOn, Callbacks, Fail, Detach
  <2>5. QED BY <2>1, <2>2, <2>3, <2>4
<1>12. CASE RegisterFail
  <2>1. TypeOK'
    BY <1>12 DEF TypeOK, DomainInv, Attached, PmOn, PowerInv, Resources,
       Callbacks, RegisterFail
  <2>2. DomainInv'
    BY <1>12 DEF TypeOK, DomainInv, Attached, PmOn, Domains, RegisterFail
  <2>3. HeldInv' BY <1>12 DEF HeldInv, Resources, RegisterFail
  <2>4. PowerInv' BY <1>12 DEF PowerInv, PmOn, Callbacks, RegisterFail
  <2>5. QED BY <2>1, <2>2, <2>3, <2>4
<1>13. CASE Remove
  <2>1. TypeOK'
    BY <1>13 DEF TypeOK, DomainInv, Attached, PmOn, PowerInv, Resources,
       Callbacks, Remove
  <2>2. DomainInv'
    BY <1>13 DEF TypeOK, DomainInv, Attached, PmOn, Domains, Remove
  <2>3. HeldInv' BY <1>13 DEF HeldInv, Resources, Remove
  <2>4. PowerInv' BY <1>13 DEF PowerInv, PmOn, Callbacks, Remove
  <2>5. QED BY <2>1, <2>2, <2>3, <2>4
<1>14. CASE PmDisable
  <2>1. TypeOK'
    BY <1>14 DEF TypeOK, DomainInv, Attached, PmOn, PowerInv, Resources,
       Callbacks, PmDisable
  <2>2. DomainInv'
    BY <1>14 DEF TypeOK, DomainInv, Attached, PmOn, Domains, PmDisable
  <2>3. HeldInv' BY <1>14 DEF HeldInv, Resources, PmDisable
  <2>4. PowerInv' BY <1>14 DEF PowerInv, PmOn, Callbacks, PmDisable
  <2>5. QED BY <2>1, <2>2, <2>3, <2>4
<1>15. CASE DomainFree
  <2>1. TypeOK'
    BY <1>15 DEF TypeOK, DomainInv, Attached, PmOn, PowerInv, Resources,
       Callbacks, DomainFree, Detach
  <2>2. DomainInv'
    BY <1>15 DEF TypeOK, DomainInv, Attached, PmOn, Domains, DomainFree,
       Detach
  <2>3. HeldInv' BY <1>15 DEF HeldInv, Resources, DomainFree, Detach
  <2>4. PowerInv' BY <1>15 DEF PowerInv, PmOn, Callbacks, DomainFree, Detach
  <2>5. QED BY <2>1, <2>2, <2>3, <2>4
<1>16. CASE DetachLink
  <2>1. TypeOK'
    BY <1>16 DEF TypeOK, DomainInv, Attached, PmOn, PowerInv, Resources,
       Callbacks, DetachLink
  <2>2. DomainInv'
    BY <1>16 DEF TypeOK, DomainInv, Attached, PmOn, Domains, DetachLink
  <2>3. HeldInv' BY <1>16 DEF HeldInv, Resources, DetachLink
  <2>4. PowerInv' BY <1>16 DEF PowerInv, PmOn, Callbacks, DetachLink
  <2>5. QED BY <2>1, <2>2, <2>3, <2>4
<1>17. CASE DetachDev
  <2>1. TypeOK'
    BY <1>17 DEF TypeOK, DomainInv, Attached, PmOn, PowerInv, Resources,
       Callbacks, DetachDev, DetachTurn
  <2>2. DomainInv'
    BY <1>17 DEF TypeOK, DomainInv, Attached, PmOn, Domains, DetachDev,
       DetachTurn
  <2>3. HeldInv' BY <1>17 DEF HeldInv, Resources, DetachDev, DetachTurn
  <2>4. PowerInv' BY <1>17 DEF PowerInv, PmOn, Callbacks, DetachDev, DetachTurn
  <2>5. QED BY <2>1, <2>2, <2>3, <2>4
<1>18. CASE Release
  <2>1. TypeOK'
    BY <1>18 DEF TypeOK, DomainInv, Attached, PmOn, PowerInv, Resources,
       Callbacks, Release
  <2>2. DomainInv'
    BY <1>18 DEF TypeOK, DomainInv, Attached, PmOn, Domains, Release
  <2>3. HeldInv' BY <1>18 DEF HeldInv, Resources, Release
  <2>4. PowerInv' BY <1>18 DEF PowerInv, PmOn, Callbacks, Release
  <2>5. QED BY <2>1, <2>2, <2>3, <2>4
<1>19. CASE SuspendBegin
  <2>1. TypeOK'
    BY <1>19 DEF TypeOK, DomainInv, Attached, PmOn, PowerInv, Resources,
       Callbacks, SuspendBegin, Rpm
  <2>2. DomainInv'
    BY <1>19 DEF TypeOK, DomainInv, Attached, PmOn, Domains, SuspendBegin,
       Rpm
  <2>3. HeldInv' BY <1>19 DEF HeldInv, Resources, SuspendBegin, Rpm
  <2>4. PowerInv' BY <1>19 DEF PowerInv, PmOn, Callbacks, SuspendBegin, Rpm
  <2>5. QED BY <2>1, <2>2, <2>3, <2>4
<1>20. CASE RuntimeSuspend
  <2>1. TypeOK'
    BY <1>20 DEF TypeOK, DomainInv, Attached, PmOn, PowerInv, Resources,
       Callbacks, RuntimeSuspend, Rpm
  <2>2. DomainInv'
    BY <1>20 DEF TypeOK, DomainInv, Attached, PmOn, Domains, RuntimeSuspend,
       Rpm
  <2>3. HeldInv' BY <1>20 DEF HeldInv, Resources, RuntimeSuspend, Rpm
  <2>4. PowerInv' BY <1>20 DEF PowerInv, PmOn, Callbacks, RuntimeSuspend, Rpm
  <2>5. QED BY <2>1, <2>2, <2>3, <2>4
<1>21. CASE ResumeBegin
  <2>1. TypeOK'
    BY <1>21 DEF TypeOK, DomainInv, Attached, PmOn, PowerInv, Resources,
       Callbacks, ResumeBegin, Rpm
  <2>2. DomainInv'
    BY <1>21 DEF TypeOK, DomainInv, Attached, PmOn, Domains, ResumeBegin, Rpm
  <2>3. HeldInv' BY <1>21 DEF HeldInv, Resources, ResumeBegin, Rpm
  <2>4. PowerInv' BY <1>21 DEF PowerInv, PmOn, Callbacks, ResumeBegin, Rpm
  <2>5. QED BY <2>1, <2>2, <2>3, <2>4
<1>22. CASE RuntimeResume
  <2>1. TypeOK'
    BY <1>22 DEF TypeOK, DomainInv, Attached, PmOn, PowerInv, Resources,
       Callbacks, RuntimeResume, Rpm
  <2>2. DomainInv'
    BY <1>22 DEF TypeOK, DomainInv, Attached, PmOn, Domains, RuntimeResume,
       Rpm
  <2>3. HeldInv' BY <1>22 DEF HeldInv, Resources, RuntimeResume, Rpm
  <2>4. PowerInv' BY <1>22 DEF PowerInv, PmOn, Callbacks, RuntimeResume, Rpm
  <2>5. QED BY <2>1, <2>2, <2>3, <2>4
<1>23. CASE UNCHANGED vars
  BY <1>23 DEF vars, TypeOK, DomainInv, HeldInv, PowerInv, Domains
<1>24. QED
  BY <1>1, <1>2, <1>3, <1>4, <1>5, <1>6, <1>7, <1>8, <1>9, <1>10, <1>11,
     <1>12, <1>13, <1>14, <1>15, <1>16, <1>17, <1>18, <1>19, <1>20, <1>21,
     <1>22, <1>23 DEF Next, Driver

LEMMA ProbeInitInv == Init => ProbeInv
<1> SUFFICES ASSUME Init PROVE ProbeInv
  OBVIOUS
<1>1. TypeOK
  <2>1. pds \in 0 .. MaxPd /\ i \in (-1) .. MaxPd /\ usage \in 0 .. 1
    BY MaxPdAssumption DEF Init
  <2>2. enabled \in BOOLEAN /\ tm \in BOOLEAN
    BY Zenon DEF Init
  <2>3. QED
    BY <2>1, <2>2 DEF Init, TypeOK, Callbacks
<1>2. DomainInv /\ HeldInv /\ PowerInv
  BY DEF Init, DomainInv, HeldInv, PowerInv, Attached, PmOn, Callbacks
<1>3. QED
  BY <1>1, <1>2 DEF ProbeInv

(* ProbeInv holds through any sequence of probes and removes. *)
THEOREM ProbeInvariance == Spec => []ProbeInv
<1>1. QED
  BY ProbeInitInv, ProbeStepInv, PTL DEF Spec

(* ane_platform_probe undoes, at whatever step it fails, exactly what it   *)
(* had done, and remove undoes all of it, but for the DART interrupt.      *)
THEOREM ProbeAllOrNothing == Spec => []AllOrNothing
<1>1. ProbeInv => AllOrNothing
  BY DEF ProbeInv, DomainInv, HeldInv, PowerInv, AllOrNothing, Attached, PmOn,
     Domains
<1>2. QED
  BY <1>1, ProbeInvariance, PTL

(* A runtime PM callback has its registers, its IOMMU domain and its power *)
(* domains, whenever it runs.                                              *)
THEOREM CallbacksSafe == Spec => []CallbackSafe
<1>1. ProbeInv => CallbackSafe
  BY DEF ProbeInv, DomainInv, HeldInv, PowerInv, CallbackSafe, Attached, PmOn,
     Resources
<1>2. QED
  BY <1>1, ProbeInvariance, PTL

(* ane_attach_genpd and ane_detach_genpd never leave a link without its    *)
(* device.                                                                 *)
THEOREM LinksHaveDevs == Spec => []LinkHasDev
<1>1. ProbeInv => LinkHasDev
  BY DEF ProbeInv, DomainInv, LinkHasDev
<1>2. QED
  BY <1>1, ProbeInvariance, PTL

(* A bound device that is active has its task manager programmed. *)
THEOREM ActiveProgrammed == Spec => []ActiveMeansProgrammed
<1>1. ProbeInv => ActiveMeansProgrammed
  BY DEF ProbeInv, PowerInv, ActiveMeansProgrammed, PmOn
<1>2. QED
  BY <1>1, ProbeInvariance, PTL
=============================================================================
