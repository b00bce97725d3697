# A TLA+ model of the ANE driver and library

The repository holds a Linux driver for the Apple Neural Engine
(`src/driver/src/`), a user-space library, libane (`src/src/libane/`), a Python
binding and a disassembler. This directory models everything in it that keeps
state or computes, checks it with TLC on small instances, and proves
every safety property that a passing run checks, with TLAPS, for every size of
the instance.

## 1. Inventory

| Part | State it keeps | Operations | Talks to |
|---|---|---|---|
| Buffer objects (`ane_drv.c`) | `struct ane_bo` (npages, pages, mm, iova), GEM handles and references, VMAs; `ane->mm` (drm_mm of device addresses), `ane->domain` (page table of the DART), `iommu_lock` | `BO_INIT`, `BO_FREE`, mmap, munmap, `GEM_CLOSE`, closing the file, TLB flush | DRM core, drm_mm, IOMMU layer |
| Runtime power (`ane_drv.c`) | usage count, runtime status, runtime error, autosuspend timer (all in the PM core); what `tm_enable` wrote | open, ioctl bracket, postclose, `ane_runtime_suspend`, `ane_runtime_resume`, system sleep | PM core, task manager |
| Submission (`ane_drv.c`, `ane_h13.c`, `ane_h14.c`) | `engine_lock`, registers of queue 4, jobs in the engine; `struct ane_request` on the stack | `SUBMIT`, `tm_enqueue`, `tm_execute` | buffer objects (addresses), power (bracket), engine |
| Probe and remove (`ane_drv.c`) | power domains and device links, interrupts, drm_mm, PM setup, registration | probe with its error paths, remove | all of the above |
| libane network (`ane.c`) | `struct ane_nn`: fd, model, a channel per tile, bootstrap channel | init, free, exec, send, read | the driver through ioctls, hwx reader |
| hwx reader (`hwx.c`) | open file, parsed segments, sections, thread states | open, close, lookups, bounded reads | file system |
| Tiling (`ane.c`) | none | `ane_tile`, `ane_untile` | network |
| Half precision (`ane_f16.h`) | none | f16 to f32 and back | network |
| Python binding | registry of open networks | register, free, cleanup at exit | libane |
| Task descriptors (`td_v*.h`, `bitfield.h`, `set_nid`) | one word at a time | read, assign, patch | network, disassembler |
| Disassembler, tests | none | print | hwx reader |

Several clients use the driver at the same time. They share three things: the
device address space (under `iommu_lock`), queue 4 of the task manager (under
`engine_lock`) and the power of the engine (runtime PM). The hard behaviours:

- a map fails half-way and must be undone without touching the pages of others;
- sizes and offsets in bytes are 32 bits wide in two places, so that a buffer
  object of 4 GiB or more wraps;
- addresses return to the allocator before the TLB is flushed;
- a file is closed with live buffer objects, and the GEM object has no `free`
  callback;
- `BO_FREE` frees an object that is still mapped, and the mapping later puts a
  reference of whatever lives in that memory by then;
- a resume fails and its caller puts one count too many;
- the autosuspend timer fires as an ioctl begins; registers are lost with power;
- the poll for the end of a job times out while the job stays in the engine;
- addresses are looked up before `engine_lock` is taken and used after it;
- probe fails at any of its steps, and runtime PM callbacks run beside the end of
  probe and beside remove;
- a file says anything about its own sizes, in 64-bit fields whose sums wrap, and
  may be rewritten while it is read;
- `__ane_init` fails at any system call, and a driver that frees nothing at close
  has to be given every handle back first, and may refuse to take it;
- rows, planes and padding of tensors, bit fields of shared words, and the ends
  of the half-precision range.

What makes each part correct: the page table and the allocator agree and no
address has two owners; a reference count covers what still uses an object; an
ioctl has power from start to end and an idle device loses it; the engine runs
exactly the request somebody waits for, and success means that it ran; a failed
probe, init or open leaves nothing behind; reads stay inside the file; tiling,
conversion and bit fields lose nothing; nobody waits for ever. `PROJECT.json` lists the hazards line by line.

## 2. Plan

The modules, in the order of their importance: `IovaSpace` (abstract), `AneBo`
and its proofs, `AnePm`, `AneSubmit` (which composes `AnePm` with the ioctl
bodies), `AneRegs` (its numbers), `AneProbe`, `LibAne`, `Hwx`, `Tile`, `TdWord`,
`HalfFloat`, `PyAne`. `MCData` brings together for TLC the four that are
computations on data, and `Data_proofs` has the theorems about them. A module
`X_proofs` has the theorems about `X`.

Every safety property that a passing run checks is proved (section 6). Liveness
stays with TLC.

## 3. Modules

### IovaSpace

What the buffer-object half promises: `grants[b]` is the set of device pages
that `b` occupies. `Grant` gives unused pages to a buffer object that has none,
`Revoke` takes all of them back. No allocator, page table or lock.

### AneBo

One thread per open file; `pc[c]` says where it is inside its ioctl. Atomic
steps are the pieces between two points where another thread can see a
difference: taking `iommu_lock`, the allocator call, every `iommu_map` and
`iommu_unmap`, the flush, the release.

| Code | Action |
|---|---|
| `ane_bo_init` up to `ane_iommu_map_pages` | `BoInit` |
| `ane_iommu_map_pages` | `MmAllocFail`, `MapLock`, `MapInsert`, `MapNoSpace`, `MapPage`, `MapPageFail`, `MapDone` |
| `drm_gem_handle_create` and the put | `HandleCreate`, `HandleFail` |
| `ane_bo_free` | `BoFree`, then the unmap path |
| `ane_iommu_unmap_pages` | `UnmapLock`, `UnmapPage`, `UnmapDone`, `Flush` |
| end of `ane_bo_free`, labels `put:` to `free:` | `Release` |
| lookups without a put | `BoLookupNoPut` |
| `ane_drm_mmap`, `drm_gem_vm_close` | `Mmap`, `Munmap`, `MunmapDangling` |
| `drm_ioctl` with `GEM_CLOSE`, `drm_release`, no `free` callback | `GemClose`, `Close` |
| `ane_runtime_suspend` | `RuntimeSuspend` |

Addresses and sizes are in pages. `WrapPages` is 2^32 bytes in pages:
`NodePages` (what the allocator is asked for) and `PageIova` (where page `i`
goes) wrap there, as `bo->npages << ane->shift` and `i << ane->shift` do.
`MmEnd` keeps the call `drm_mm_init(&ane->mm, min_iova, max_iova)` as it is: the
third argument is a size. `Fits` is drm_mm: any free place may be chosen, a node
of size 0 is refused. A new struct address may reuse that of a freed one
(`npages[b] = 0` is "not allocated"). `MapPageFail` is the unwinding loop as one
step, which nobody can observe half-way because the lock is held; it may also be
taken with the address free, for an `iommu_map` that has no memory for a table.

Choices a reader should know:

- `BoFree` asks for a handle only, as the driver does. A VMA that is still there
  when `Release` frees the object moves from `vmas` to `dangling`. Unmapping it
  later puts a reference at the same address: nothing happens in the model if no
  BO is there, and a BO that was allocated there since loses a reference it did
  not give (`MunmapDangling`, history variable `hit`). Memory that something else
  than a BO has taken over is outside the model.
- Reference counts saturate, as the kernel's do: a put or a get at zero leaves a
  count that stays as it is (`Saturated`). Only BOs in `hit` get there.
- A failing mmap after `drm_gem_mmap` loses the reference it took (second
  disjunct of `Mmap`).
- `stale` says that `iommu_flush_iotlb_all` has not run since a page of the BO
  was unmapped. `iommu_unmap` may synchronize the TLB by itself, depending on
  the IOMMU driver; the model takes the driver's own flushes only, as the
  comment in `ane_iommu_unmap_pages` does ("conservatively").
- `RuntimeSuspend` is possible whenever the lock is free. The usage count, which
  keeps it away from a running ioctl, is in `AnePm`; here it is left out, which
  only adds behaviours.
- `orphans` (a handle was closed, by `GEM_CLOSE` or with the file, and not freed)
  and `hit` are history variables and guard nothing.
- Bounds: `MaxRef` on references taken by lookups and mmaps, `MaxVmas` on VMAs, and
  one VMA of a client per address of a struct.
- An ioctl that fails before it changed anything is a stuttering step.

### AnePm

The three entry points are one bracket: `Get` (the count), `ResumeActive`,
`ResumeStart`/`ResumeDone`/`ResumeFail`, `ResumeRefused` (the outcomes of
`rpm_resume`), `PutNoidle` (a failing `pm_runtime_resume_and_get` drops its own
count), `IoctlEnd`, and `Put` (the driver's put, on the error path too).
`TimerFires` and `SuspendDone` are the autosuspend timer with
`ane_runtime_suspend`; `SystemSleep` is `pm_runtime_force_suspend` and
`pm_runtime_force_resume` with every thread frozen.

The PM core is external. The driver relies on these facts of it: the count is
never taken below zero; one callback runs at a time; a failed resume sets
`runtime_error`, and every later resume fails until somebody resets it;
`ane_drm_postclose` ignores the result of its resume. `tm` says that the task
manager is programmed (`ane_h13_tm_enable` or `ane_h14_tm_enable`).

### AneSubmit

Extends `AnePm`: the body of an ioctl is refined into `Info`, `BoInit`, `BoFree`,
`SubmitInval` and the path of a submission: `SubmitBegin` (checks and lookups,
no lock), `EngineLock`, `EnqueueBars`, `EnqueueTask` (H13), `PushH13` and
`PushH14`, `PollIdle` or `PollTimeout`, `EngineUnlock`, `Return`. Every step of
`AnePm` goes on below it (`Bracket`, `Power`). `BO_INIT` and `BO_FREE` are one
step each: theorem `Refinement` (`AneBo` implements `IovaSpace`) is what allows
it. A request holds buffer objects in place of their addresses. The engine is
external: it takes jobs in the order of the pushes, takes any time, finishes
only with power, and loses everything with it. `TM_STATUS` is idle when nothing
is left. `waited` marks the job whose `SUBMIT` still polls; `ran` is a history
variable.

### AneRegs

The same submission as numbers: `Submit` is the checks of `ane_submit` and the
address of the weights, `EnqueueH13` and `PushH13` (`EnqueueH14`, `PushH14`) the
registers. `Half` is 2^16 and a register `Half * Half` values wide, so
`npages << shift`, `lower_32_bits`, `TQ_SIZE1` and `TM_INFO` wrap where the code
wraps. `Buffers` are the addresses that a client can have: below 2^32 on H13
(`vm_base + vm_size`), anywhere on H14, and less than 2^32 bytes long (proved in
`AneBo_proofs`). `BitOr` is `|`, a constant so that the proofs do not reach
`Bitwise`, whose operator TLC has for it. How the engine takes `TM_INFO` apart is
not in the repository, and no property is about it. Calls that are refused are
stuttering steps.

### AneProbe

One step per call of `ane_platform_probe` that can fail or be seen from outside:
`AttachDev` and `AttachLink` (the loop of `ane_attach_genpd`), `GetIrqs`,
`Ioremap`, `DomainInit`, `TmEnable`, `PmEnable`, `PmPut`, `Register`; `Fail` and
`RegisterFail` are the error exits, `Remove` begins `ane_platform_remove`, and
both ways down share `PmDisable`, `DomainFree`, `DetachLink`, `DetachDev` and
`Release` (devm, external). `SuspendBegin`, `RuntimeSuspend`, `ResumeBegin` and
`RuntimeResume` run beside them from `PmEnable` to `PmDisable`. `held` has what
is not a power domain; `dartOff` stands for the DART interrupt that probe
disables and nobody enables again.

### LibAne

`__ane_init` and `__ane_free` of one network after another, one step per system
call. `ModelInit` or `ModelFail`; the scan of `device_open` (`ScanOpen`,
`ScanSkip`, `CheckFail`, `CheckNext`, `CheckTake`, `ScanEnd`); `BoInit`,
`BoInitFail`, `BoMmap`, `BoMmapFail`; then `Exec`, `Send` and `Read`; and the way
down, which the error exits of `__ane_init` join: `ChanMunmap` and `ChanFree`
(`ane_chan_free`), `DeviceClose`, `ModelFree`. `kind` says what each device node
is. `TdSize` keeps the 32 bits of `td_size`. `user` has how the last send, exec and
read went (`Outcome` is `INDEX_CHECK`). The error exit of `ane_chan_init` frees the
channel once more after `ane_bo_init` has, as in the code: `bo_free` of handle 0
does nothing. The `BO_FREE` ioctl may fail, as every ioctl does when the device
cannot be resumed (`AnePm`); `bo_free` ignores it and forgets the handle, and the
close then loses the BO in the driver (`orphans` of `AneBo`). The history variable
`refused` records such a failure. munmap of a whole mapping and close are taken
to succeed.

### Hwx

`hwx_open` as a cursor over load commands: `Header`, `CommandNext`, one of
`OtherCommand`, `SegmentCommand` and `ThreadCommand`, then `Segment`, `Section`
(once per section), `AppendSegment`, or `State` (once per thread state) and
`StatesDone`; `Finish` or `Incomplete`. All reads go through `Pread`,
`PreadSome` and `PreadFail`, which is `hwx_pread_exact` with its short reads.
The file has no contents: a field has some value when the code looks at it, so
that files that contradict themselves, and files rewritten between two reads,
are included. `Rewrite` truncates the file or restores it. `heap` has a token
for every allocation and for the descriptor, and `Reject` is every other error
exit, with the buffers it frees (`Locals`). `U64` is 2^64 and sums wrap there.
Sizes of structs are constants. EINTR is a stuttering step.

### Tile

`ane_tile`, then `ane_untile` of its result, one step per `memcpy`, on buffers
full of junk. The data are 1, 2, 3, ..., so a misplaced element shows.

### TdWord

A word is the set of its 1 bits. `Words` has every union of bit fields of
`td_v5.h`, `td_v7.h` and `td_v11.h`, each a set of (first bit, length), in the
order of the source; `Read` and `Write` are `Bitfield`'s conversion and
assignment, `NidWord` the masks of `set_nid`. `Samples` are the words that a
union starts from and that values of fields are cut from: any words in the
proofs, all zeros and all ones for TLC. Fields are set in any order. The fields of
`TDCoeffDMAConfig` of `td_v7.h` are in a struct, not a union, so they are words of their
own, and `KernelDMASrc` of `td_v7.h` is longer than `KernelDMASrc_V5`; the
assertions of that file are about the version 5 types.

### HalfFloat

The two conversions multiply, add and subtract floats whose bits they put
together. The module does this arithmetic in integers: `Normal` is the exact
subtraction, `Round` the rounding of the one inexact addition. All halves from
zero to the last NaN are converted, and for each finite one also the float
halfway to the next and the two floats beside that. The sign bit is only copied
and is left out.

### PyAne

Objects of class `model`, the table of handles of each one's `_Driver`, and the
callbacks at exit. libane is a set of live addresses. `Predict` is possible at any
time, also while callbacks run; `misused` records the objects whose network was no
longer there. Once the interpreter exits, no objects are made.

### MCAneBo, MCData

`MCAneBo` has the symmetry set for TLC. `MCData` extends `Tile`,
`AneRegs`, `TdWord` and `HalfFloat`, whose variables are distinct: a behaviour is
one of one of the four, which `what` names, while the variables of the others are
off, and the invariants are theirs. The other modules are checked as they are.

## 4. Runs

| Run | What it shows | Bounds | Distinct states |
|---|---|---|---|
| `bo_safety` | allocator, page table, references, leaks, flushes, refinement of `IovaSpace` | 2 clients, 2 BOs of 1 to 4 pages, wrap at 3 pages, address space of 3 pages, 2 references, 2 VMAs | 707 531 (up to symmetry) |
| `bo_liveness` | every BO ioctl returns | as `bo_safety`, with 2 pages of addresses and 1 VMA | 342 902 |
| `bo_top_of_range` | finding, see below | as `bo_safety`, with 4 pages of addresses and 3 references | stops at the violation |
| `bo_unwind_flush` | finding, see below | as `bo_top_of_range` | stops at the violation |
| `pm` | ioctl bodies have power; counts settle; an idle device is suspended | 3 clients | 5 218 |
| `submit` | the engine runs the request waited for; success means it ran; every submit ends, also on an engine that hangs | 2 clients, 2 BOs, H13 and H14, 2 jobs | 540 812 |
| `probe` | failures of probe, remove, callbacks beside both | 0 to 3 power domains | 310 |
| `libane` | failures of init and of `BO_FREE`, order of unmapping and freeing, choice of the device, size of the bootstrap channel, termination | 4 nodes of 3 kinds, dev_id -1 to 2, tile of 6, 32-bit wrap at 16 | 212 379 |
| `libane_usage` | finding, see below | 2 nodes | stops at the violation |
| `hwx` | bounds of reads, leaks, reads of what was accepted; open and reads end | 64-bit wrap at 10, files of 0 and 7 units, 2 commands, 2 sections | 258 313 |
| `data`: `AneRegs` | whole addresses, place of the weights | registers of 16 values in halves of 4, pages of 4 bytes, buffers of 1 to 3 pages, H13 and H14 | 78 527 |
| `data`: `TdWord` | bit fields are independent | every union, 32 bits | 26 594 |
| `data`: `HalfFloat` | conversion there and back, rounding | none: all halves | 384 000 |
| `data`: `Tile` | tiling and back | N, C up to 2, H, W up to 3, padding up to 2 | 3 564 |
| `python` | networks are freed once, and not before the cleanup of their own object | 3 objects, 3 addresses | 9 086 |

Why the bounds are enough for the cases of interest. In `bo_safety`, sizes of 1
to 4 pages with a wrap at 3 give an ordinary BO, one of exactly 2^32 bytes
(whose node has size 0) and one larger than that (whose fourth page falls on its
first); the address space is too small for two large BOs, so "out of ANE space"
happens with one and with two BOs present; two clients on two BOs put a map of
one against the unmap, the unwinding, the flush and the close of the other.
`MaxRef = 2` leaves room for the handle and a VMA or a lost reference, and two
VMAs for one that dangles and one of the BO that took its place. `bo_liveness`
has a smaller address space because it cannot use symmetry; a map still finds no
room and still meets its own first page. In `pm`, three clients let an extra put
meet one thread that holds a count and another that is about to. In `submit`,
two jobs are one waited for behind one that was given up; more are left to the
theorems, which hold for any number. In `data`, H14 has buffers below, above and
across 2^32, the command buffer is as short as one page and `tsk_size` runs up
to its last byte. In `probe`, 0 and 1 power domains take the early returns, 2
and 3 the loops, with a failure at the first, at a middle and at the last turn.
In `libane`, `td_size` wraps to a smaller size and to zero, is a multiple of a
tile and not, and is smaller and larger than the section; four nodes hold both
devices with other nodes before, between and after them. In `hwx`, the values 0,
2 and 9 of the 64-bit fields give parts that are empty, that fit, that end past
a file of 7 units and whose sums wrap at 10; a file of 7 holds a segment command
with both sections that libane needs, so that the open succeeds and reads
follow. In `data`, shapes have no padding, only rows, only columns and both.
Symmetry is used in `bo_safety`, `bo_top_of_range` and `bo_unwind_flush`, which
check no liveness, and no property or constant names a particular client
or BO.

Fairness, where a run needs it:

- `bo_liveness`: weak fairness of the steps of a running thread (the kernel
  schedules it; the loops are bounded), strong fairness of taking `iommu_lock`
  (a kernel mutex hands itself over to a waiter that was overtaken for long).
  `kzalloc` failing is possible, never relied on.
- `pm`: timer and workqueue run; a thread that waits for a resume or a suspend
  is woken (strong fairness, since the status may change again before it runs);
  an ioctl body ends, which is what `bo_liveness` and `submit` show.
- `submit`: weak fairness of a thread in the body and strong fairness
  of `engine_lock`. The poll ends because `readl_poll_timeout` gives up after a
  second. Nothing is assumed of the engine.
- `libane` and `hwx`: weak fairness of the steps of a call: its thread
  runs and system calls return. A pread may go on returning one byte; it is not
  interrupted for ever. Nothing is assumed of the file or of success.
- `probe`: weak fairness of probe and remove, of callbacks that have begun, and
  of the autosuspend of an unused device; strong fairness of
  `pm_runtime_disable`, which cancels what is pending and waits for what runs.

Deadlock is checked in every run but `data`, whose computations end.

Every property of a passing run has a mutant: a variant of a definition with a
plausible slip (an unlock dropped on an error path, a loop one short, a put too
many, an unwinding one page too far, an offset that does not wrap, a lock not
taken), under which TLC finds the property violated. They stand next to the
definitions they vary and are marked "Mutant".

## 5. Findings

- `bo_top_of_range`: `ane_iommu_domain_init` computes `max_iova` so as to stay a
  page below the limit ("Use a page before to not reach the real limit",
  `driver/src/ane_drv.c:427`), and passes it to `drm_mm_init` as a size. The
  allocator's range therefore ends `vm_base` higher than `max_iova`, and
  `IovaBelowMax` is violated by a BO at the top.
- `bo_unwind_flush`: the unwinding of a failing `ane_iommu_map_pages` unmaps
  pages that `ane_bo_init` then gives back without the
  `ane_iommu_invalidate_tlb` that follows the other unmap batch ("Conservatively
  invalidate after every unmap batch", `driver/src/ane_drv.c:120`).
  `StalePagesOwned` is violated. Whether a translation really survives depends on
  the IOMMU driver (see `stale` above).
- `libane_usage`: a program that follows the usage example of `ane.h`, "send 0th
  index input to device", "call exec after sending all inputs", "receive 0th
  index output from device" (lines 29, 32 and 36), gets no error and no result.
  No line sets `src_count` or `dst_count` (`ane_model_init` clears the model,
  `ane.c:373`), so `INDEX_CHECK` drops the input and the output, and `ane_exec`
  returns 0 with its ioctl commented out (`ane.c:492`). `UsageExample` is
  violated.

## 6. Proofs

Eight modules prove with TLAPS, for every value of the constants, what the runs
check on small instances. Each has the same shape: an inductive invariant as a
conjunction of named parts; a lemma that every step keeps it, with one case per
action; `Spec => []Inv`; and the properties as consequences. Every inductive
invariant was also model-checked, with the constants of its run. The only
assumptions are the named ones of the modules, which TLC evaluates on every run.

### AneBo_proofs

`AneBo_proofs` proves, for every set of clients and BOs, every base, size and
wrap of the address space and every bound on sizes and references:

| Theorem | Statement |
|---|---|
| `Invariance` | `Spec => []IInv` |
| `TypeCorrect` | `Spec => []TypeOK` |
| `PageTableCorrect` | `Spec => []IommuMatchesMm` |
| `NoOtherLeak` | `Spec => []LeakOnlyByClose` |
| `RefsCorrect` | `Spec => []RefCoversUse` |
| `FlushCorrect` | `Spec => []FlushedBeforeRelease` |
| `StableCorrect` | `Spec => TranslationStable` |
| `Refinement` | `Spec => ImplementsIovaSpace` |

Assumptions: `BoundsAssumption` (the numbers are naturals, sizes are not zero,
`MaxRef` is at least 1) and `NoneAssumption` (`None` is none of the values it
stands next to). Clients and BOs need not be finite.

None of the properties is inductive. `IInv` joins to the type invariant:

- `LockInv`: a thread holds `iommu_lock` exactly between taking and leaving it;
- `OwnerInv`: a BO has one user at a time, a handle or a running ioctl, an idle
  client works on none, and a VMA is on a BO that its client has, is freeing or has
  closed;
- `NodeInv`: nodes in the drm_mm do not overlap, lie in the range, have a size,
  and belong to BOs that are allocated and past `MapInsert`;
- `PteInv`: the page table has exactly the pages that the loops in progress have
  reached, and all pages of the other nodes;
- `UseInv`: references (one for a `BO_INIT` in progress, one for each handle and
  VMA, unless a dangling VMA has taken one), leaks and flushes.

The heart is the wrap. The loop of a BO with at least `WrapPages` pages reaches
index `WrapPages`, whose address is that of page 0, which the same loop has
mapped: `iommu_map` refuses, and the unwinding removes exactly the pages below
that index. So a BO that gets a handle has fewer than `WrapPages` pages,
its node is as long as its pages (`NodePages(n) = n`), and disjoint nodes mean
disjoint pages. `ModFacts` has the arithmetic of the remainder, `FullIff` says
when a BO is mapped in full, and `StepRefines` maps every action to a `Grant`, a
`Revoke` or a stuttering step of `IovaSpace`: the last `MapPage` grants, and the
first `UnmapPage` revokes.

### AnePm_proofs

| Theorem | Statement |
|---|---|
| `PmInvariance` | `PmSpec => []PmInv` |
| `PmTypeCorrect` | `PmSpec => []PmTypeOK` |
| `BodyHasPower` | `PmSpec => []BodyPowered` |
| `CountsSettle` | `PmSpec => []CountSettles` |

Assumption: the set of clients is finite (`ClientsAssumption`), as the count is a
cardinality. The count alone says nothing about who made it. `PmInv` ties it to
`Users`, the threads inside an entry point: equal to their number until a resume
fails, and at most their number afterwards, when the driver's extra puts take
more than was counted (`CountInv`). That an ioctl body still has power then
follows from `ErrorInv` (after an error the device stays suspended, so nobody is
in a body) and `ResumeInv` (one thread resumes at a time). `UsersMove` says how
the number of users follows one thread.

### AneSubmit_proofs

| Theorem | Statement |
|---|---|
| `SubInvariance` | `Spec => []SubInv` |
| `SubTypeCorrect` | `Spec => []TypeOK` |
| `OwnRequest` | `Spec => []EngineRunsOwnRequest` |
| `SuccessMeansRan` | `Spec => []OkMeansRan` |
| `ImplementsPm` | `Spec => PmSpec /\ []BodyPowered /\ []CountSettles` |

Assumptions: those of `AnePm` and `SubmitAssumption` (the two chips, a bound on
jobs, `None` and `Orphan` are not clients). `BracketRefined` maps every step to
one of `AnePm` or a stuttering step of it, so `PmInv` holds here too. `SubInv`
adds: `engine_lock` is held exactly in the critical section, inside the body of
an ioctl (`LockInv`); the buffers of a request stay the client's (`ReqInv`); the
registers hold as much of the request as was programmed (`RegInv`); and a job
that somebody waits for belongs to the one thread that polls, whose job is in the
engine or has run (`JobInv`). The last is why a success means that the job ran:
the engine is idle only if nothing is left, a job leaves it by running or with
the power, and the power stays on while a body runs.

### AneProbe_proofs

| Theorem | Statement |
|---|---|
| `ProbeInvariance` | `Spec => []ProbeInv` |
| `ProbeAllOrNothing` | `Spec => []AllOrNothing` |
| `CallbacksSafe` | `Spec => []CallbackSafe` |
| `LinksHaveDevs` | `Spec => []LinkHasDev` |
| `ActiveProgrammed` | `Spec => []ActiveMeansProgrammed` |

For any number of power domains (`MaxPdAssumption`). The properties speak of the
ends of probe and remove; `ProbeInv` speaks of every place between: which indices
the attach loop has reached going up and the detach loop going down
(`DomainInv`), what else is held (`HeldInv`), and that runtime PM is enabled
exactly from `PmEnable` to `PmDisable`, callbacks run only then, and an active
device was programmed (`PowerInv`).

### LibAne_proofs

| Theorem | Statement |
|---|---|
| `LibInvariance` | `Spec => []LibInv` |
| `LeavesNothing` | `Spec => []NothingKept` |
| `FreesUnmapped` | `Spec => UnmapFirst` |
| `ScanFindsDevice` | `Spec => []RightDevice` |
| `BootstrapFits` | `Spec => []BtspHolds` |

For any number of nodes, any tile size, word width and sizes in the file
(`LibAssumption`). `ScanInv` has the loop of `device_open`: unless a call failed,
`found` is the number of ane nodes before the one being looked at. `FdInv` says
which node is open at every place, `ModelInv` that `td_size` is not zero past
`ane_model_init`, `BtspInv` that driver and `btsp_chan`
agree about the BO until a `BO_FREE` is refused, and that a mapping lasts no longer
than to `ChanMunmap`.
`TileAlignUp` proves that `tile_align` rounds up, which the size of the bootstrap
channel rests on.

### Hwx_proofs

| Theorem | Statement |
|---|---|
| `HwxInvariance` | `Spec => []HwxInv` |
| `HwxTypeCorrect` | `Spec => []TypeOK` |
| `PreadsInFile` | `Spec => []ReadsInFile` |
| `NoLeak` | `Spec => []HeapExact` |
| `ReadsMatchSections` | `Spec => []ReadsAgree` |

For any file, any width of the fields and any sizes of the structs, of which
`SizesAssumption` says that they are not zero, that `sizeof` of the header fits
the fields and that a segment command is at least as long as a load command.
`CursorInv` says that the load commands that remain lie inside the file and the
one being parsed inside them, so that the differences the code computes do not
wrap. `Checked` is what was established of a segment and its sections when they
were accepted; with `ReadOKExact` it gives that later reads succeed exactly
inside them. `HeapInv` has, for each place in the code, exactly what is
allocated; `place` looks through a pread in progress to what follows it.

### Data_proofs

| Theorem | Module | Statement |
|---|---|---|
| `TileInvariance` | `Tile` | `Spec => []TileInv` |
| `TilePlaces` | | `Spec => []Placed` |
| `UntileUndoesTile` | | `Spec => []RoundTrip` |
| `RegsInvariance` | `AneRegs` | `RegsSpec => []RegsInv` |
| `AddressesWhole` | | `RegsSpec => []AddressWhole` |
| `WeightsInside` | | `RegsSpec => []KrnInside` |
| `FieldsIndependent` | `TdWord` | `TdSpec => []Independent` |
| `HalfInvariance` | `HalfFloat` | `HalfSpec => []HalfInv` |
| `HalvesSurvive` | | `HalfSpec => []HalfRoundTrip` |
| `HalvesNearest` | | `HalfSpec => []Nearest` |
| `ConversionMonotonic` | | `F32ToF16` never reverses two finite floats |
| `EveryFloatNearest` | | a float above the one halfway between `w` and `w + 1` becomes at least `w + 1`, one below it at most `w` |

`Tile`, for every shape and padding (`ShapeAssumption`: the bounds are naturals).
`TileInv` says that after `n` turns of the three loops exactly the rows of the
first `n` turns are in place (`PlacedUpTo`), and the same of the way back
(`UnplacedUpTo`). The rest is arithmetic: products are not linear, so quotients
and remainders are hidden behind `Quo` and `Rest` and known by `Euclid` and
`EuclidUnique`; `Coordinates` and `Decompose` turn a position into plane, row and
column and back, and `TurnRows` says which positions one `memcpy` touches.

`AneRegs`, for every width of a register, page size, granule and set of addresses
and numbers (`RegsAssumption`: none is zero, a page is a whole number of granules,
a buffer is shorter than 2^32 bytes). `RegsInv`
has what `ane_submit` established of a job (`JobOK`) and what the BARs hold
(`RegsWritten`). The weights are inside because a buffer ends at a multiple of
the granule, which `round_up` of an offset inside it cannot pass
(`RoundUpInside`), and its size, `npages << shift`, does not wrap (`BufferSize`).

`TdWord`, for every set of words (`TdAssumption`: samples have 32 bits, the
number that `set_nid` writes 8). `Layouts` goes through the tables: the fields of every
union lie inside the word and beside each other. `ReadsBack` and `ReadsOther` are
the two laws of an assignment that follow from this, and `TdInv` says that every
field reads as it was last set.

`HalfFloat`, for every half and every finite float; there are no constants.
`Converts` is the conversion without its detour through `base` and `bias`: a
quotient by a power of two, rounded (`Nearer`). Rounding is monotonic
(`NearerMono`), the floats of one exponent stay between the powers of two at
their ends (`Binade`), and so the whole conversion is (`ConvertMono`).
`NormalIs` and `Significand` have the leading bit and the mantissa of a denormal
half, `Halfway` what becomes of a tie and of the two floats beside it
(`DenormalHalfway`, `NormalHalfway`). The run converts only these; with
monotonicity they settle all others, which is `EveryFloatNearest`.

### PyAne_proofs

`PyInvariance` is `Spec => []PyInv`, and `EveryNetworkFreedOnce` is
`Spec => []FreedOnce`, for any number of objects and addresses (`NoneAssumption`:
`None` is no address). `TableInv` is the reason: a network is live iff it is in the
table of a `_Driver` whose callback has still to run, and those tables are
disjoint.

### Only model-checked

- Liveness (`IoctlReturns`, `IdleSuspends`, `SubmitReturns`, `ProbeReturns`,
  `ReferenceDropped`, `InitReturns`, `OpenReturns`): fairness and ENABLED are out
  of the prover's reach.

## 7. What is not modelled

- Two threads on one file descriptor (a handle looked up twice before it is
  deleted). libane gives every network its own descriptor.
- Files that are open when the device is unbound, and the -EACCES that their
  ioctls then get from the PM core. `drm_dev_unregister` does not wait for them
  and the driver promises nothing.
- The fault handler `ane_gem_vm_fault`, which reads `bo->pages` only, and what it
  reads of a BO that was freed under its VMA. `RefCoversUse` makes an exception for
  a BO whose memory such a VMA still points to; `UnmapFirst` shows that libane never
  makes one.
- The loops of `ane_tm_handle_irq`, whose registers' meaning is not in the
  repository; nothing else reads what they read. This keeps the component
  "submission and task manager" at "partly".
- The end of a job on H14: `ane_h14_tm_execute` does not wait, `abort_tq` and
  `wait_tq` have no caller. `OkMeansRan` is stated for H13.
- What a job that was given up does after its client has freed its buffers:
  nothing in the driver stops it, so nothing is promised.
- What the engine makes of `TM_INFO`: a `td_count` of more than 16 bits or a
  `td_size` below 4 passes `ane_submit` and changes the other half of the register,
  and nothing in the repository says what either half means.
- The size of a segment of 2^30 words or more, which `ane_model_init` cuts to the
  32 bits of `td_size` (`ane.c:402`): `BtspHolds` shows that the buffers agree with
  the size that was kept; that it is the segment's is not claimed.
- The DART interrupt, which probe disables and nothing enables again; nothing says
  that it should come back (`AllOrNothing` makes an exception for it).
- A malloc that fails in `is_ane_device`, whose result is not checked.
- What a load command shorter than its struct makes `hwx_open` read before it is
  refused; the getters of `hwx.c`; the names and versions of CPU types.
- Shapes whose plane is not a whole number of rows (`P` not a multiple of `R`).
- The channels `chans[]` of libane, which no model has, and `ane_request_h14`,
  which nobody uses.
- `set_nid` on version 11 descriptors, whose first word is unknown.
- Shapes and numpy arrays of the Python binding, and objects made while the
  interpreter exits. `FreedOnce` says nothing of a predict after the cleanup of its
  own object, which does use a freed network.
- Disassembler, tests, device tree: printing, examples and data without state.
