------------------------------ MODULE AneProbe ------------------------------
(***************************************************************************)
(* ane_platform_probe and ane_platform_remove of driver/src/ane_drv.c,     *)
(* with ane_attach_genpd and ane_detach_genpd, beside the runtime PM       *)
(* callbacks, which the PM core runs from its own threads as soon as probe *)
(* has enabled it and until pm_runtime_disable returns.                    *)
(*                                                                         *)
(* Any step of probe that can fail may fail, and the driver core may probe *)
(* and remove again and again.  External: the driver core, which releases  *)
(* the devm resources after a failed probe and after remove; the PM core,  *)
(* which runs one callback at a time and whose pm_runtime_disable waits    *)
(* for it; genpd, whose links keep the domains up while the device is not  *)
(* suspended.  Open files at the time of remove are not here.              *)
(***************************************************************************)
EXTENDS Integers

CONSTANT MaxPd    \* bound on the number of power domains

ASSUME MaxPdAssumption == MaxPd \in Nat

VARIABLES
  pc,       \* where probe or remove is
  pds,      \* ane->pd_count
  i,        \* the index of the loops over the power domains
  dev,      \* indices of the attached pd_dev[]
  link,     \* indices of the pd_link[]
  held,     \* what else probe has done and not undone
  enabled,  \* runtime PM is enabled
  usage,    \* runtime PM usage count
  rpm,      \* "active", "suspended", or the callback that is running
  tm        \* the task manager is programmed

domains == <<pds, i, dev, link>>
power == <<enabled, usage, rpm, tm>>
vars == <<pc, domains, held, power>>

-----------------------------------------------------------------------------
(* The DART interrupt is disabled, the registers are mapped, ane->mm is    *)
(* initialised, the drm device is registered.                              *)
Resources == {"dartOff", "engine", "mm", "drm"}

Init ==
  /\ pc = "unbound" /\ pds \in 0 .. MaxPd /\ i = 0 /\ dev = {} /\ link = {}
  /\ held = {}
  /\ enabled = FALSE /\ usage = 0 /\ rpm = "suspended" /\ tm = FALSE

Goto(from, to) == pc = from /\ pc' = to

(* With one power domain the platform bus attaches it. *)
Probe ==
  /\ Goto("unbound", IF pds <= 1 THEN "irq" ELSE "attach")
  /\ i' = 0
  /\ UNCHANGED <<pds, dev, link, held, power>>

(* ane_attach_genpd: one turn of its loop. *)
AttachDev ==
  /\ Goto("attach", "link")
  /\ dev' = dev \cup {i}
  /\ UNCHANGED <<pds, i, link, held, power>>

AttachLink ==
  /\ Goto("link", IF i + 1 = pds THEN "irq" ELSE "attach")
  /\ link' = link \cup {i}
  /\ i' = i + 1
  /\ UNCHANGED <<pds, dev, held, power>>

Take(from, to, what) ==
  /\ Goto(from, to)
  /\ held' = held \cup what
  /\ UNCHANGED <<domains, power>>

GetIrqs == Take("irq", "ioremap", {"dartOff"})
Ioremap == Take("ioremap", "domain", {"engine"})
DomainInit == Take("domain", "tm", {"mm"})

(* Mutant: the task manager is left to the first resume. *)
TmEnableNot == Goto("tm", "pm") /\ UNCHANGED <<domains, held, power>>

(* ane->hw->tm_enable *)
TmEnable ==
  /\ Goto("tm", "pm")
  /\ tm' = TRUE
  /\ UNCHANGED <<domains, held, enabled, usage, rpm>>

(* pm_runtime_get_noresume, set_active, enable *)
PmEnable ==
  /\ Goto("pm", "put")
  /\ usage' = usage + 1 /\ rpm' = "active" /\ enabled' = TRUE
  /\ UNCHANGED <<domains, held, tm>>

(* pm_runtime_put_autosuspend *)
PmPut ==
  /\ Goto("put", "register")
  /\ usage' = usage - 1
  /\ UNCHANGED <<domains, held, enabled, rpm, tm>>

(* drm_dev_register *)
Register == Take("register", "bound", {"drm"})

-----------------------------------------------------------------------------
(* ane_detach_genpd begins: with one domain or none it returns at once. *)
Detach ==
  /\ pc' = IF pds <= 1 THEN "release" ELSE "detach"
  /\ i' = pds - 1
  /\ UNCHANGED <<pds, dev, link>>

(* An attach or a link that fails, an interrupt that is not there,         *)
(* registers that cannot be mapped, no IOMMU domain so far (-EPROBE_DEFER). *)
Fail ==
  /\ pc \in {"attach", "link", "irq", "ioremap", "domain"}
  /\ Detach
  /\ UNCHANGED <<held, power>>

RegisterFail == Goto("register", "disable_pm") /\ UNCHANGED <<domains, held, power>>

(* ane_platform_remove: drm_dev_unregister.  Mutant: the address space is  *)
(* given up before runtime PM is disabled.                                 *)
RemoveFreesFirst ==
  /\ Goto("bound", "disable_pm")
  /\ held' = held \ {"drm", "mm"}
  /\ UNCHANGED <<domains, power>>

Remove ==
  /\ Goto("bound", "disable_pm")
  /\ held' = held \ {"drm"}
  /\ UNCHANGED <<domains, power>>

Callbacks == {"suspending", "resuming"}

(* pm_runtime_disable, pm_runtime_dont_use_autosuspend *)
PmDisable ==
  /\ rpm \notin Callbacks
  /\ Goto("disable_pm", "domain_free")
  /\ enabled' = FALSE
  /\ UNCHANGED <<domains, held, usage, rpm, tm>>

(* ane_iommu_domain_free.  Mutant: forgotten. *)
DomainFreeNot == pc = "domain_free" /\ Detach /\ UNCHANGED <<held, power>>
DomainFree ==
  /\ pc = "domain_free" /\ Detach
  /\ held' = held \ {"mm"}
  /\ UNCHANGED power

(* ane_detach_genpd, one turn: the link first.  Mutant: the device first. *)
DetachLinkLate ==
  /\ Goto("detach", "detach_dev")
  /\ dev' = dev \ {i}
  /\ UNCHANGED <<pds, i, link, held, power>>

DetachLink ==
  /\ Goto("detach", "detach_dev")
  /\ link' = link \ {i}
  /\ UNCHANGED <<pds, i, dev, held, power>>

(* Mutant: the loop does not advance. *)
DetachTurn(next) ==
  /\ Goto("detach_dev", IF i = 0 THEN "release" ELSE "detach")
  /\ dev' = dev \ {i}
  /\ i' = IF i = 0 THEN 0 ELSE next
  /\ UNCHANGED <<pds, link, held, power>>
DetachDevStuck == DetachTurn(i)
DetachDev == DetachTurn(i - 1)

(* The driver core releases what is managed by devm. *)
Release ==
  /\ Goto("release", "unbound")
  /\ held' = held \ {"engine"}
  /\ UNCHANGED <<domains, power>>

-----------------------------------------------------------------------------
(* The PM core calls ane_runtime_suspend and ane_runtime_resume.  The      *)
(* registers do not survive a suspend.  Mutant: the callback fails.        *)
Rpm(from, to) ==
  /\ rpm = from /\ rpm' = to
  /\ UNCHANGED <<pc, domains, held, enabled, usage>>

SuspendBegin == enabled /\ usage = 0 /\ Rpm("active", "suspending") /\ UNCHANGED tm
RuntimeSuspendBusy == Rpm("suspending", "active") /\ UNCHANGED tm
RuntimeSuspend == Rpm("suspending", "suspended") /\ tm' = FALSE
ResumeBegin == enabled /\ Rpm("suspended", "resuming") /\ UNCHANGED tm
RuntimeResume == Rpm("resuming", "active") /\ tm' = TRUE

Driver ==
  \/ AttachDev \/ AttachLink \/ Fail
  \/ GetIrqs \/ Ioremap \/ DomainInit \/ TmEnable
  \/ PmEnable \/ PmPut \/ Register \/ RegisterFail
  \/ PmDisable \/ DomainFree \/ DetachLink \/ DetachDev \/ Release

Next ==
  \/ Driver \/ Probe \/ Remove
  \/ SuspendBegin \/ RuntimeSuspend \/ ResumeBegin \/ RuntimeResume

(* Probe and remove run on; a callback that has begun ends; and a device   *)
(* that nobody uses is suspended in the end.  pm_runtime_disable finds a   *)
(* moment between two callbacks (strong fairness): the core cancels what   *)
(* is pending when it is called.                                           *)
Spec ==
  /\ Init /\ [][Next]_vars
  /\ WF_vars(Driver) /\ SF_vars(PmDisable)
  /\ WF_vars(RuntimeSuspend) /\ WF_vars(RuntimeResume) /\ WF_vars(SuspendBegin)

-----------------------------------------------------------------------------
(* The values that the variables take. *)
TypeOK ==
  /\ pc \in {"unbound", "attach", "link", "irq", "ioremap", "domain", "tm",
             "pm", "put", "register", "bound", "disable_pm", "domain_free",
             "detach", "detach_dev", "release"}
  /\ pds \in 0 .. MaxPd /\ i \in (-1) .. MaxPd
  /\ dev \subseteq 0 .. (pds - 1) /\ link \subseteq 0 .. (pds - 1)
  /\ held \subseteq Resources /\ enabled \in BOOLEAN /\ tm \in BOOLEAN
  /\ usage \in 0 .. 1
  /\ rpm \in {"active", "suspended"} \cup Callbacks

Domains == IF pds <= 1 THEN {} ELSE 0 .. (pds - 1)

(* A probe that fails, at whatever step, and a remove leave nothing behind *)
(* but the disabled interrupt of the DART; a probe that succeeds has       *)
(* everything.                                                             *)
AllOrNothing ==
  /\ pc = "unbound" => /\ dev = {} /\ link = {} /\ held \subseteq {"dartOff"}
                       /\ ~ enabled /\ usage = 0
  /\ pc = "bound" => /\ dev = Domains /\ link = Domains /\ held = Resources
                     /\ enabled

(* A runtime PM callback never runs without what it uses: it writes the    *)
(* registers or flushes the IOMMU domain, with every power domain linked,  *)
(* however it interleaves with the end of probe or with remove.            *)
CallbackSafe ==
  rpm \in Callbacks => {"engine", "mm"} \subseteq held /\ dev = Domains /\ link = Domains

(* A link never points to a power domain device that was detached. *)
LinkHasDev == link \subseteq dev

(* While the device is active and bound, its task manager is programmed,   *)
(* from the first moment on which a file can be opened.                    *)
ActiveMeansProgrammed == pc = "bound" /\ rpm = "active" => tm

(* Probe and remove return, though remove waits for a callback. *)
ProbeReturns == pc \notin {"unbound", "bound"} ~> pc \in {"unbound", "bound"}

(* Probe has dropped its own reference: again and again, a bound device    *)
(* that nobody uses is suspended, or it is removed.                        *)
ReferenceDropped == []<>(pc = "bound" => rpm = "suspended")
=============================================================================
