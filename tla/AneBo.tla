------------------------------- MODULE AneBo -------------------------------
(***************************************************************************)
(* The life of a buffer object (BO) in driver/src/ane_drv.c: ane_bo_init,  *)
(* ane_bo_free, ane_drm_mmap, the closing of a file, and below them        *)
(* ane_iommu_map_pages, ane_iommu_unmap_pages and                          *)
(* ane_iommu_invalidate_tlb, which keep two structures in agreement under  *)
(* ane->iommu_lock: the drm_mm allocator of device addresses and the page  *)
(* table of the DART (the IOMMU of the engine).                            *)
(*                                                                         *)
(* One thread per open file, as in libane, where an ane_nn owns its fd.    *)
(* Addresses and sizes are in pages; PAGE_SHIFT = ane->shift (both 16 KiB  *)
(* on this hardware).  An ioctl that fails before it has changed anything  *)
(* (a nonzero pad in BO_INIT, an unknown handle, no memory for the object, *)
(* its mmap offset or its pages) is a stuttering step.                     *)
(***************************************************************************)
EXTENDS Integers, FiniteSets

CONSTANTS
  Clients,    \* open files, each used by one thread
  Bos,        \* struct ane_bo allocations
  MaxPages,   \* bound on the size of a BO
  VmBase,     \* hw->dart.vm_base
  VmSize,     \* hw->dart.vm_size
  WrapPages,  \* 2^32 >> shift: u32 sizes and offsets wrap here
  MaxRef,     \* bound on GEM references, which some paths leak
  MaxVmas,    \* bound on VMAs, of allocated and of freed objects
  None

ASSUME BoundsAssumption ==
  /\ MaxPages \in Nat \ {0}
  /\ VmBase \in Nat
  /\ VmSize \in Nat \ {0}
  /\ WrapPages \in Nat \ {0}
  /\ MaxRef \in Nat
  /\ MaxRef >= 1
  /\ MaxVmas \in Nat

ASSUME NoneAssumption ==
  /\ None \notin Clients
  /\ None \notin Bos
  /\ None \notin Nat
  /\ None \notin [bo : Bos, idx : Nat]

VARIABLES
  pc,       \* where each client is inside an ioctl
  cur,      \* the BO its ioctl works on
  idx,      \* the loop counter of map_pages and unmap_pages
  npages,   \* bo->npages; 0 is a struct that is not allocated
  node,     \* bo->mm->start while the node is in the drm_mm, else None
  ref,      \* reference count of the GEM object
  iommu,    \* DART page table: address -> page number idx of a BO, or None
  lock,     \* holder of ane->iommu_lock
  handles,  \* GEM handles of each file
  vmas,     \* BOs that each client has mapped
  dangling, \* VMAs whose object BO_FREE has freed under them
  stale,    \* BOs with pages unmapped since iommu_flush_iotlb_all last ran
  orphans,  \* history: BOs whose handle was closed without BO_FREE
  hit       \* history: BOs that lost a reference to a dangling VMA

vars == <<pc, cur, idx, npages, node, ref, iommu, lock, handles, vmas,
          dangling, stale, orphans, hit>>

-----------------------------------------------------------------------------
(* ane_iommu_domain_init passes max_iova as the SIZE of the drm_mm range.  *)
MaxIova == VmBase + VmSize - 1
MmEnd   == VmBase + MaxIova

(* What iommu_map can be asked to map: i << shift adds less than 4 GiB. *)
Addrs == 0 .. (MmEnd + WrapPages)

(* bo->npages << ane->shift is a u32, and so is i << ane->shift. *)
NodePages(n) == n % WrapPages
PageIovaWide(b, i) == node[b] + i   \* mutant: the offset does not wrap
PageIova(b, i) == node[b] + (i % WrapPages)

(* drm_mm_insert_node_generic may choose s for a node of n pages; a node   *)
(* of size 0 is refused.                                                   *)
Fits(s, n) ==
  /\ n > 0
  /\ s >= VmBase /\ s + n <= MmEnd
  /\ \A o \in Bos : node[o] # None =>
       s + n <= node[o] \/ node[o] + NodePages(npages[o]) <= s

(* kref_get and kref_put: a count that is put or taken at zero saturates   *)
(* and stays there.                                                        *)
Saturated == -1
Get(n) == IF n <= 0 THEN Saturated ELSE n + 1
Put(n) == IF n <= 0 THEN Saturated ELSE n - 1

Pte == [bo : Bos, idx : 0 .. (MaxPages - 1)]

PCs == {"idle", "map_lock", "map_insert", "map_page", "handle_create",
        "unmap_lock", "unmap_page", "flush", "put_pages", "release"}

Critical == {"map_insert", "map_page", "unmap_page"}

TypeOK ==
  /\ pc \in [Clients -> PCs]
  /\ cur \in [Clients -> Bos \cup {None}]
  /\ idx \in [Clients -> 0 .. MaxPages]
  /\ npages \in [Bos -> 0 .. MaxPages]
  /\ node \in [Bos -> VmBase .. (MmEnd - 1) \cup {None}]
  /\ ref \in [Bos -> Saturated .. MaxRef]
  /\ iommu \in [Addrs -> Pte \cup {None}]
  /\ lock \in Clients \cup {None}
  /\ handles \in [Clients -> SUBSET Bos]
  /\ vmas \in [Clients -> SUBSET Bos]
  /\ dangling \in [Clients -> SUBSET Bos]
  /\ stale \subseteq Bos
  /\ orphans \subseteq Bos
  /\ hit \subseteq Bos

Init ==
  /\ pc = [c \in Clients |-> "idle"]
  /\ cur = [c \in Clients |-> None]
  /\ idx = [c \in Clients |-> 0]
  /\ npages = [b \in Bos |-> 0]
  /\ node = [b \in Bos |-> None]
  /\ ref = [b \in Bos |-> 0]
  /\ iommu = [a \in Addrs |-> None]
  /\ lock = None
  /\ handles = [c \in Clients |-> {}]
  /\ vmas = [c \in Clients |-> {}]
  /\ dangling = [c \in Clients |-> {}]
  /\ stale = {}
  /\ orphans = {}
  /\ hit = {}

Goto(c, from, to) == pc[c] = from /\ pc' = [pc EXCEPT ![c] = to]

-----------------------------------------------------------------------------
(* DRM_IOCTL_ANE_BO_INIT *)

(* Mutant: one page more than the size has. *)
BoInitOnePageMore(c, b, n) ==
  /\ Goto(c, "idle", "map_lock")
  /\ npages[b] = 0
  /\ cur' = [cur EXCEPT ![c] = b]
  /\ npages' = [npages EXCEPT ![b] = n + 1]
  /\ ref' = [ref EXCEPT ![b] = 1]
  /\ UNCHANGED <<idx, node, iommu, lock, handles, vmas, dangling, stale,
                 orphans, hit>>

(* Everything up to the call of ane_iommu_map_pages: the object with its   *)
(* first reference and its pages.                                          *)
BoInit(c, b, n) ==
  /\ Goto(c, "idle", "map_lock")
  /\ npages[b] = 0
  /\ cur' = [cur EXCEPT ![c] = b]
  /\ npages' = [npages EXCEPT ![b] = n]
  /\ ref' = [ref EXCEPT ![b] = 1]
  /\ UNCHANGED <<idx, node, iommu, lock, handles, vmas, dangling, stale,
                 orphans, hit>>

(* Mutant: the error path does not free the object. *)
MmAllocFailReturns(c) ==
  /\ Goto(c, "map_lock", "idle")
  /\ cur' = [cur EXCEPT ![c] = None]
  /\ UNCHANGED <<idx, npages, node, ref, iommu, lock, handles, vmas, dangling,
                 stale, orphans, hit>>

(* kzalloc of bo->mm fails, before the lock is taken. *)
MmAllocFail(c) ==
  /\ Goto(c, "map_lock", "put_pages")
  /\ UNCHANGED <<cur, idx, npages, node, ref, iommu, lock, handles, vmas,
                 dangling, stale, orphans, hit>>

MapLock(c) ==
  /\ Goto(c, "map_lock", "map_insert")
  /\ lock = None
  /\ lock' = c
  /\ UNCHANGED <<cur, idx, npages, node, ref, iommu, handles, vmas, dangling,
                 stale, orphans, hit>>

MapInsert(c) ==
  /\ Goto(c, "map_insert", "map_page")
  /\ \E s \in VmBase .. (MmEnd - 1) :
       /\ Fits(s, NodePages(npages[cur[c]]))
       /\ node' = [node EXCEPT ![cur[c]] = s]
  /\ UNCHANGED <<cur, idx, npages, ref, iommu, lock, handles, vmas, dangling,
                 stale, orphans, hit>>

(* Mutant: the error path does not unlock. *)
MapNoSpaceKeepsLock(c) ==
  /\ Goto(c, "map_insert", "put_pages")
  /\ ~ \E s \in VmBase .. (MmEnd - 1) : Fits(s, NodePages(npages[cur[c]]))
  /\ UNCHANGED <<cur, idx, npages, node, ref, iommu, lock, handles, vmas,
                 dangling, stale, orphans, hit>>

(* "out of ANE space" *)
MapNoSpace(c) ==
  /\ Goto(c, "map_insert", "put_pages")
  /\ ~ \E s \in VmBase .. (MmEnd - 1) : Fits(s, NodePages(npages[cur[c]]))
  /\ lock' = None
  /\ UNCHANGED <<cur, idx, npages, node, ref, iommu, handles, vmas, dangling,
                 stale, orphans, hit>>

(* iommu_map refuses an address that is already mapped. *)
MapPage(c) ==
  LET b == cur[c]
      a == PageIova(b, idx[c])
  IN /\ Goto(c, "map_page", "map_page")
     /\ idx[c] < npages[b]
     /\ iommu[a] = None
     /\ iommu' = [iommu EXCEPT ![a] = [bo |-> b, idx |-> idx[c]]]
     /\ idx' = [idx EXCEPT ![c] = @ + 1]
     /\ UNCHANGED <<cur, npages, node, ref, lock, handles, vmas, dangling,
                    stale, orphans, hit>>

(* The addresses "while (i-- > 0)" unmaps after iommu_map failed at i; the *)
(* mutant also unmaps the one at i, which may belong to another BO.        *)
UnwoundTooFar(b, i) == {PageIova(b, j) : j \in 0 .. i}
Unwound(b, i) == {PageIova(b, j) : j \in 0 .. (i - 1)}

(* iommu_map fails (that address is mapped, or no memory for a table): the *)
(* pages mapped so far are unmapped, the node leaves the drm_mm.           *)
MapPageFail(c) ==
  LET b == cur[c]
  IN /\ Goto(c, "map_page", "put_pages")
     /\ idx[c] < npages[b]
     /\ iommu' = [a \in Addrs |->
                    IF a \in Unwound(b, idx[c]) THEN None ELSE iommu[a]]
     /\ stale' = IF idx[c] = 0 THEN stale ELSE stale \cup {b}
     /\ node' = [node EXCEPT ![b] = None]
     /\ lock' = None
     /\ idx' = [idx EXCEPT ![c] = 0]
     /\ UNCHANGED <<cur, npages, ref, handles, vmas, dangling, orphans, hit>>

MapDone(c) ==
  /\ Goto(c, "map_page", "handle_create")
  /\ idx[c] = npages[cur[c]]
  /\ idx' = [idx EXCEPT ![c] = 0]
  /\ lock' = None
  /\ UNCHANGED <<cur, npages, node, ref, iommu, handles, vmas, dangling,
                 stale, orphans, hit>>

(* Mutant: put once more, as if BO_INIT had taken a reference of its own. *)
HandleCreatePutTwice(c) ==
  /\ Goto(c, "handle_create", "idle")
  /\ handles' = [handles EXCEPT ![c] = @ \cup {cur[c]}]
  /\ ref' = [ref EXCEPT ![cur[c]] = Put(@)]
  /\ cur' = [cur EXCEPT ![c] = None]
  /\ UNCHANGED <<idx, npages, node, iommu, lock, vmas, dangling, stale,
                 orphans, hit>>

(* The handle takes a reference and the put drops the first one. *)
HandleCreate(c) ==
  /\ Goto(c, "handle_create", "idle")
  /\ handles' = [handles EXCEPT ![c] = @ \cup {cur[c]}]
  /\ ref' = [ref EXCEPT ![cur[c]] = Put(Get(@))]
  /\ cur' = [cur EXCEPT ![c] = None]
  /\ UNCHANGED <<idx, npages, node, iommu, lock, vmas, dangling, stale,
                 orphans, hit>>

(* No handle, and the put still drops the first reference. *)
HandleFail(c) ==
  /\ Goto(c, "handle_create", "unmap_lock")
  /\ ref' = [ref EXCEPT ![cur[c]] = Put(@)]
  /\ UNCHANGED <<cur, idx, npages, node, iommu, lock, handles, vmas, dangling,
                 stale, orphans, hit>>

-----------------------------------------------------------------------------
(* DRM_IOCTL_ANE_BO_FREE.  The lookup takes a reference, the handle gives  *)
(* one up.  Nothing here asks whether the client still has the BO mapped.  *)
BoFree(c, b) ==
  /\ Goto(c, "idle", "unmap_lock")
  /\ b \in handles[c]
  /\ handles' = [handles EXCEPT ![c] = @ \ {b}]
  /\ ref' = [ref EXCEPT ![b] = Put(Get(@))]
  /\ cur' = [cur EXCEPT ![c] = b]
  /\ UNCHANGED <<idx, npages, node, iommu, lock, vmas, dangling, stale,
                 orphans, hit>>

(* bo_lookup without a put: BO_FREE with a nonzero pad, and every lookup   *)
(* of ane_submit.                                                          *)
BoLookupNoPut(c, b) ==
  /\ pc[c] = "idle"
  /\ b \in handles[c]
  /\ ref[b] < MaxRef
  /\ ref' = [ref EXCEPT ![b] = Get(@)]
  /\ UNCHANGED <<pc, cur, idx, npages, node, iommu, lock, handles, vmas,
                 dangling, stale, orphans, hit>>

(* ane_iommu_unmap_pages *)
UnmapLock(c) ==
  /\ Goto(c, "unmap_lock", "unmap_page")
  /\ lock = None
  /\ lock' = c
  /\ UNCHANGED <<cur, idx, npages, node, ref, iommu, handles, vmas, dangling,
                 stale, orphans, hit>>

UnmapPage(c) ==
  LET b == cur[c]
  IN /\ Goto(c, "unmap_page", "unmap_page")
     /\ idx[c] < npages[b]
     /\ iommu' = [iommu EXCEPT ![PageIova(b, idx[c])] = None]
     /\ stale' = stale \cup {b}
     /\ idx' = [idx EXCEPT ![c] = @ + 1]
     /\ UNCHANGED <<cur, npages, node, ref, lock, handles, vmas, dangling,
                    orphans, hit>>

(* Mutant: the loop stops one page early. *)
UnmapDoneEarly(c) ==
  /\ Goto(c, "unmap_page", "flush")
  /\ idx[c] = npages[cur[c]] - 1
  /\ idx' = [idx EXCEPT ![c] = 0]
  /\ node' = [node EXCEPT ![cur[c]] = None]
  /\ lock' = None
  /\ UNCHANGED <<cur, npages, ref, iommu, handles, vmas, dangling, stale,
                 orphans, hit>>

(* Mutant: no ane_iommu_invalidate_tlb after the batch. *)
UnmapDoneNoFlush(c) ==
  /\ Goto(c, "unmap_page", "release")
  /\ idx[c] = npages[cur[c]]
  /\ idx' = [idx EXCEPT ![c] = 0]
  /\ node' = [node EXCEPT ![cur[c]] = None]
  /\ lock' = None
  /\ UNCHANGED <<cur, npages, ref, iommu, handles, vmas, dangling, stale,
                 orphans, hit>>

UnmapDone(c) ==
  /\ Goto(c, "unmap_page", "flush")
  /\ idx[c] = npages[cur[c]]
  /\ idx' = [idx EXCEPT ![c] = 0]
  /\ node' = [node EXCEPT ![cur[c]] = None]
  /\ lock' = None
  /\ UNCHANGED <<cur, npages, ref, iommu, handles, vmas, dangling, stale,
                 orphans, hit>>

(* ane_iommu_invalidate_tlb, whose critical section is one call. *)
Flush(c) ==
  /\ Goto(c, "flush", "release")
  /\ lock = None
  /\ stale' = {}
  /\ UNCHANGED <<cur, idx, npages, node, ref, iommu, lock, handles, vmas,
                 dangling, orphans, hit>>

(* drm_gem_put_pages, drm_gem_object_release, kfree, whatever the count:   *)
(* the end of BO_FREE and of every failing BO_INIT.  A VMA of the object   *)
(* is left with a pointer to freed memory.                                 *)
Release(c) ==
  /\ \/ Goto(c, "release", "idle")
     \/ Goto(c, "put_pages", "idle")
  /\ npages' = [npages EXCEPT ![cur[c]] = 0]
  /\ ref' = [ref EXCEPT ![cur[c]] = 0]
  /\ vmas' = [d \in Clients |-> vmas[d] \ {cur[c]}]
  /\ dangling' = [d \in Clients |->
                    dangling[d] \cup (vmas[d] \cap {cur[c]})]
  /\ hit' = hit \ {cur[c]}
  /\ cur' = [cur EXCEPT ![c] = None]
  /\ UNCHANGED <<idx, node, iommu, lock, handles, stale, orphans>>

-----------------------------------------------------------------------------
(* mmap(2): drm_gem_mmap takes a reference for the VMA, which is lost when *)
(* the rest of ane_drm_mmap fails.  Bounds: a client has one VMA of a      *)
(* struct at a time, and all clients together MaxVmas.                     *)
Mmap(c, b) ==
  /\ pc[c] = "idle"
  /\ b \in handles[c] \ (vmas[c] \cup dangling[c])
  /\ ref[b] < MaxRef
  /\ Cardinality({p \in Clients \X Bos :
                    p[2] \in vmas[p[1]] \cup dangling[p[1]]}) < MaxVmas
  /\ ref' = [ref EXCEPT ![b] = Get(@)]
  /\ \/ vmas' = [vmas EXCEPT ![c] = @ \cup {b}]
     \/ vmas' = vmas
  /\ UNCHANGED <<pc, cur, idx, npages, node, iommu, lock, handles, dangling,
                 stale, orphans, hit>>

(* drm_gem_vm_close *)
Munmap(c, b) ==
  /\ pc[c] = "idle"
  /\ b \in vmas[c]
  /\ ref' = [ref EXCEPT ![b] = Put(@)]
  /\ vmas' = [vmas EXCEPT ![c] = @ \ {b}]
  /\ UNCHANGED <<pc, cur, idx, npages, node, iommu, lock, handles, dangling,
                 stale, orphans, hit>>

(* The same on freed memory: the put goes to whatever is there now, which  *)
(* may be a BO that was allocated since.                                   *)
MunmapDangling(c, b) ==
  /\ pc[c] = "idle"
  /\ b \in dangling[c]
  /\ \/ npages[b] = 0 /\ UNCHANGED <<ref, hit>>
     \/ /\ npages[b] # 0
        /\ ref' = [ref EXCEPT ![b] = Put(@)]
        /\ hit' = hit \cup {b}
  /\ dangling' = [dangling EXCEPT ![c] = @ \ {b}]
  /\ UNCHANGED <<pc, cur, idx, npages, node, iommu, lock, handles, vmas,
                 stale, orphans>>

(* DRM_IOCTL_GEM_CLOSE, which ane_drm_unlocked_ioctl passes on to the DRM  *)
(* core: the handle lets its reference go.  The object has no free         *)
(* callback (ane_gem_object_funcs), so nothing of the BO goes with the     *)
(* last of them.                                                           *)
GemClose(c, b) ==
  /\ pc[c] = "idle"
  /\ b \in handles[c]
  /\ ref' = [ref EXCEPT ![b] = Put(@)]
  /\ orphans' = orphans \cup {b}
  /\ handles' = [handles EXCEPT ![c] = @ \ {b}]
  /\ UNCHANGED <<pc, cur, idx, npages, node, iommu, lock, vmas, dangling,
                 stale, hit>>

(* drm_release does the same to every handle that is left.  A VMA holds    *)
(* its file, so there is none any more.                                    *)
Close(c) ==
  /\ pc[c] = "idle"
  /\ handles[c] # {}
  /\ vmas[c] = {} /\ dangling[c] = {}
  /\ ref' = [b \in Bos |-> IF b \in handles[c] THEN Put(ref[b]) ELSE ref[b]]
  /\ orphans' = orphans \cup handles[c]
  /\ handles' = [handles EXCEPT ![c] = {}]
  /\ UNCHANGED <<pc, cur, idx, npages, node, iommu, lock, vmas, dangling,
                 stale, hit>>

(* ane_runtime_suspend also flushes the TLB under the lock. *)
RuntimeSuspend ==
  /\ lock = None
  /\ stale' = {}
  /\ UNCHANGED <<pc, cur, idx, npages, node, ref, iommu, lock, handles, vmas,
                 dangling, orphans, hit>>

-----------------------------------------------------------------------------
(* A step inside an ioctl, which the kernel goes on with by itself; no     *)
(* thread counts on kzalloc to fail.                                       *)
LockFreeStep(c) ==
  \/ MapInsert(c) \/ MapNoSpace(c)
  \/ MapPage(c) \/ MapPageFail(c) \/ MapDone(c)
  \/ HandleCreate(c) \/ HandleFail(c)
  \/ UnmapPage(c) \/ UnmapDone(c) \/ Release(c)

LockStep(c) == MapLock(c) \/ UnmapLock(c) \/ Flush(c)

(* A system call that the client may make or not. *)
Call(c) ==
  \E b \in Bos :
    \/ \E n \in 1 .. MaxPages : BoInit(c, b, n)
    \/ BoFree(c, b)
    \/ BoLookupNoPut(c, b)
    \/ Mmap(c, b)
    \/ Munmap(c, b)
    \/ MunmapDangling(c, b)
    \/ GemClose(c, b)

Next ==
  \/ \E c \in Clients : \/ LockFreeStep(c) \/ LockStep(c) \/ MmAllocFail(c)
                        \/ Call(c) \/ Close(c)
  \/ RuntimeSuspend

Spec == Init /\ [][Next]_vars

(* The kernel runs every thread that can run, and a mutex is handed over   *)
(* to a thread that has waited for long.                                   *)
Fairness ==
  \A c \in Clients : WF_vars(LockFreeStep(c)) /\ SF_vars(LockStep(c))

FairSpec == Spec /\ Fairness

-----------------------------------------------------------------------------
(* The BO occupies its addresses: all its pages are in the page table. *)
FullyMapped(b) ==
  /\ npages[b] # 0
  /\ node[b] # None
  /\ \A i \in 0 .. (npages[b] - 1) :
       iommu[PageIova(b, i)] = [bo |-> b, idx |-> i]

IovasOf(b) ==
  IF FullyMapped(b) THEN node[b] .. (node[b] + npages[b] - 1) ELSE {}

(* The driver shares the device address space out as IovaSpace says: no    *)
(* two BOs ever occupy the same address, and the addresses of a BO come    *)
(* and go as a whole, whatever paths of map, unwind and unmap run.         *)
Shared == INSTANCE IovaSpace WITH
            Iovas <- VmBase .. (MmEnd - 1),
            grants <- [b \in Bos |-> IovasOf(b)]

ImplementsIovaSpace == Shared!Spec

(* Whenever nobody is inside ane_iommu_map_pages or ane_iommu_unmap_pages, *)
(* the page table holds exactly the pages of the nodes in the drm_mm, each *)
(* at its own place inside the node of its BO.  In particular a BO of      *)
(* 4 GiB or more, whose size and offsets wrap at 32 bits, has left nothing *)
(* behind.                                                                 *)
IommuMatchesMm ==
  lock = None =>
    \A a \in Addrs :
      \/ /\ iommu[a] = None
         /\ \A b \in Bos : node[b] # None =>
              a < node[b] \/ a >= node[b] + npages[b]
      \/ \E b \in Bos :
           /\ node[b] # None
           /\ a \in node[b] .. (node[b] + npages[b] - 1)
           /\ iommu[a] = [bo |-> b, idx |-> a - node[b]]

(* While a client has a handle of a BO, no step of any thread (another     *)
(* map, an unwind, an unmap) changes what the addresses of that BO         *)
(* translate to.                                                           *)
TranslationStable ==
  [][\A c \in Clients : \A b \in handles[c] \cap handles'[c] :
        /\ node'[b] = node[b]
        /\ \A i \in 0 .. (npages[b] - 1) :
             iommu'[node[b] + i] = [bo |-> b, idx |-> i]]_vars

(* The driver loses a BO in one way only, when its handle is closed (by    *)
(* GEM_CLOSE or with the file): every other allocated BO can still be      *)
(* freed through a handle or is being worked on by an ioctl.               *)
LeakOnlyByClose ==
  \A b \in Bos : npages[b] # 0 =>
    \/ b \in orphans
    \/ \E c \in Clients : b \in handles[c] \/ cur[c] = b

(* How often client c counts on b: its handle and its VMA. *)
Uses(c, b) ==
  (IF b \in handles[c] THEN 1 ELSE 0) + (IF b \in vmas[c] THEN 1 ELSE 0)

(* A handle always leads to an object that is allocated and mapped, and    *)
(* the reference count never falls below the handle and the VMA that are   *)
(* still there, whatever of BO_INIT, mmap, munmap, BO_FREE under a VMA and *)
(* the closing of handles came before.  The one exception is a BO in the   *)
(* memory of a BO that was freed under a VMA, once that VMA is unmapped.   *)
RefCoversUse ==
  \A c \in Clients : \A b \in Bos :
    /\ b \in handles[c] => FullyMapped(b)
    /\ b \notin hit => ref[b] >= Uses(c, b)

(* When ane_bo_free gives the pages back, no translation of them is left   *)
(* unflushed, whoever unmapped what in between.                            *)
FlushedBeforeRelease ==
  \A c \in Clients : pc[c] = "release" => cur[c] \notin stale

(* Every ioctl returns: nobody waits for iommu_lock for ever. *)
IoctlReturns == \A c \in Clients : pc[c] # "idle" ~> pc[c] = "idle"

-----------------------------------------------------------------------------
(* What comments of the source say, and the code does not do. *)

(* ane_iommu_domain_init: "Use a page before to not reach the real limit"; *)
(* max_iova is the first address after the last page meant to be used.     *)
IovaBelowMax ==
  \A b \in Bos : FullyMapped(b) => node[b] + npages[b] <= MaxIova

(* ane_iommu_unmap_pages: "Conservatively invalidate after every unmap     *)
(* batch"; so a translation left in the TLB never leads to pages that were *)
(* given back.                                                             *)
StalePagesOwned == \A b \in stale : npages[b] # 0
=============================================================================
