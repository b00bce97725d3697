--------------------------- MODULE AneBo_proofs ---------------------------
(***************************************************************************)
(* Proofs about AneBo for every number of clients and buffer objects and   *)
(* every size of the address space.  IInv is the inductive invariant: what *)
(* the lock protects (LockInv), who owns a BO (OwnerInv), which BO has a   *)
(* node and where (NodeInv), and what the page table holds, also in the    *)
(* middle of the map and unmap loops (PteInv).                             *)
(***************************************************************************)
EXTENDS AneBo, TLAPS

(* iommu_lock is held exactly inside the two critical sections. *)
LockInv == \A c \in Clients : lock = c <=> pc[c] \in Critical

(* BO_INIT before it has a handle to give. *)
Mapping == {"map_lock", "map_insert", "map_page", "handle_create"}

(* An ioctl works on a BO that is allocated and that nobody else can reach; *)
(* the loop counter is in use only inside the loops.  A VMA is on a BO that *)
(* its client has, is freeing or has closed.                                *)
OwnerInv ==
  /\ \A c \in Clients :
       /\ cur[c] = None <=> pc[c] = "idle"
       /\ pc[c] # "idle" => npages[cur[c]] # 0
       /\ pc[c] \notin {"map_page", "unmap_page"} => idx[c] = 0
       /\ pc[c] \in {"map_page", "unmap_page"} => idx[c] <= npages[cur[c]]
       /\ cur[c] \notin orphans
       /\ \A b \in handles[c] : npages[b] # 0 /\ b \notin orphans
       /\ \A b \in vmas[c] :
            /\ npages[b] # 0
            /\ b \in handles[c] \/ b = cur[c] \/ b \in orphans
       /\ pc[c] \in Mapping => cur[c] \notin vmas[c]
  /\ \A b \in orphans : npages[b] # 0
  /\ \A c, d \in Clients :
       /\ cur[c] \notin handles[d]
       /\ c # d => /\ cur[c] # None => cur[c] # cur[d]
                   /\ handles[c] \cap handles[d] = {}
                   /\ vmas[c] \cap vmas[d] = {}

HasNode == {"map_page", "handle_create", "unmap_lock", "unmap_page"}

(* Nodes are inside the drm_mm range and disjoint; a BO that can be used   *)
(* has one, and its size did not wrap.                                     *)
NodeInv ==
  /\ \A b \in Bos : node[b] # None =>
       /\ npages[b] # 0
       /\ NodePages(npages[b]) > 0
       /\ node[b] + NodePages(npages[b]) <= MmEnd
       /\ \/ npages[b] < WrapPages
          \/ \E c \in Clients : cur[c] = b /\ pc[c] = "map_page"
  /\ \A b, o \in Bos : b # o /\ node[b] # None /\ node[o] # None =>
       \/ node[b] + NodePages(npages[b]) <= node[o]
       \/ node[o] + NodePages(npages[o]) <= node[b]
  /\ \A c \in Clients :
       /\ pc[c] # "idle" => (node[cur[c]] # None <=> pc[c] \in HasNode)
       /\ \A b \in handles[c] : node[b] # None

(* Page i of b has been mapped by the map loop, if one runs on b, and not  *)
(* yet been unmapped by the unmap loop.                                    *)
Reached(b, i) ==
  \A c \in Clients : cur[c] = b =>
    /\ pc[c] = "map_page" => i < idx[c]
    /\ pc[c] = "unmap_page" => i >= idx[c]

(* An entry of the page table is a page of a BO, at its place. *)
PteOK(a) == iommu[a] # None =>
  /\ node[iommu[a].bo] # None
  /\ iommu[a].idx < npages[iommu[a].bo]
  /\ a = node[iommu[a].bo] + iommu[a].idx
  /\ Reached(iommu[a].bo, iommu[a].idx)

(* And the pages that should be there are. *)
PageOK(b, i) == node[b] # None /\ i < npages[b] /\ Reached(b, i) =>
  /\ i < WrapPages
  /\ iommu[node[b] + i] = [bo |-> b, idx |-> i]

PteInv ==
  /\ \A c \in Clients : pc[c] = "map_page" => idx[c] <= WrapPages
  /\ \A a \in Addrs : PteOK(a)
  /\ \A b \in Bos : \A i \in Nat : PageOK(b, i)

(* References: one for BO_INIT until it gives it to the handle, one for    *)
(* each handle and VMA, unless a dangling VMA has taken one.               *)
RefInv ==
  /\ \A c \in Clients : pc[c] \in Mapping /\ cur[c] \notin hit =>
       ref[cur[c]] >= 1
  /\ \A c \in Clients, b \in Bos : b \notin hit => ref[b] >= Uses(c, b)

UseInv == RefInv /\ LeakOnlyByClose /\ FlushedBeforeRelease

IInv == TypeOK /\ LockInv /\ OwnerInv /\ NodeInv /\ PteInv /\ UseInv

-----------------------------------------------------------------------------
(* What % does below and at the point where 32-bit offsets wrap. *)
LEMMA ModFacts ==
  /\ \A n \in Nat : n < WrapPages => n % WrapPages = n
  /\ WrapPages % WrapPages = 0
  BY BoundsAssumption

(* Counts move by one, and stay in their range. *)
LEMMA Counts ==
  \A n \in Saturated .. MaxRef :
    /\ Put(n) \in Saturated .. MaxRef
    /\ Put(Get(n)) \in Saturated .. MaxRef
    /\ n < MaxRef => Get(n) \in Saturated .. MaxRef
    /\ n >= 1 => Put(n) = n - 1 /\ Get(n) = n + 1 /\ Put(Get(n)) = n
  BY BoundsAssumption DEF Put, Get, Saturated

(* Every step of every thread, in ioctls that succeed, fail or unwind,     *)
(* keeps the invariant.                                                    *)
LEMMA StepInv == ASSUME IInv, Next PROVE IInv'
<1> USE BoundsAssumption, NoneAssumption
<1>1. ASSUME NEW c \in Clients, NEW b \in Bos, NEW n \in 1 .. MaxPages,
             BoInit(c, b, n)
      PROVE  IInv'
  <2>1. TypeOK' BY <1>1 DEF IInv, TypeOK, PCs, Saturated, BoInit, Goto
  <2>2. LockInv' BY <1>1 DEF IInv, LockInv, TypeOK, Critical, BoInit, Goto
  <2>3. OwnerInv' BY <1>1 DEF IInv, OwnerInv, TypeOK, Mapping, BoInit, Goto
  <2>4. NodeInv'
    BY <1>1 DEF IInv, NodeInv, OwnerInv, TypeOK, HasNode, BoInit, Goto
  <2>5. PteInv'
    <3>1. \A o \in Bos, i \in Nat : Reached(o, i)' <=> Reached(o, i)
      BY <1>1 DEF IInv, OwnerInv, TypeOK, Reached, BoInit, Goto
    <3>2. \A a \in Addrs : iommu[a] # None =>
            iommu[a].bo \in Bos /\ iommu[a].idx \in Nat
      BY DEF IInv, TypeOK, Pte
    <3>3. \A d \in Clients : pc'[d] = "map_page" => pc[d] = "map_page"
      BY <1>1 DEF IInv, TypeOK, BoInit, Goto
    <3>4. \A o \in Bos : node[o] # None => npages'[o] = npages[o]
      BY <1>1 DEF IInv, NodeInv, TypeOK, BoInit
    <3>5. QED
      BY <1>1, <3>1, <3>2, <3>3, <3>4 DEF IInv, PteInv, PteOK, PageOK, BoInit
  <2>6. UseInv'
    BY <1>1 DEF IInv, UseInv, RefInv, LeakOnlyByClose, FlushedBeforeRelease,
       OwnerInv, TypeOK, Mapping, Uses, BoInit, Goto
  <2>7. QED BY <2>1, <2>2, <2>3, <2>4, <2>5, <2>6 DEF IInv
<1>2. ASSUME NEW c \in Clients, MmAllocFail(c)
      PROVE  IInv'
  <2>1. TypeOK' BY <1>2 DEF IInv, TypeOK, PCs, MmAllocFail, Goto
  <2>2. LockInv' BY <1>2 DEF IInv, LockInv, TypeOK, Critical, MmAllocFail, Goto
  <2>3. OwnerInv' BY <1>2 DEF IInv, OwnerInv, TypeOK, Mapping, MmAllocFail, Goto
  <2>4. NodeInv'
    BY <1>2 DEF IInv, NodeInv, OwnerInv, TypeOK, HasNode, MmAllocFail, Goto
  <2>5. PteInv'
    BY <1>2 DEF IInv, PteInv, PteOK, PageOK, NodeInv, OwnerInv, TypeOK,
       Reached, HasNode, MmAllocFail, Goto
  <2>6. UseInv'
    BY <1>2 DEF IInv, UseInv, RefInv, LeakOnlyByClose, FlushedBeforeRelease,
       OwnerInv, TypeOK, Mapping, Uses, MmAllocFail, Goto
  <2>7. QED BY <2>1, <2>2, <2>3, <2>4, <2>5, <2>6 DEF IInv
<1>3. ASSUME NEW c \in Clients, MapLock(c)
      PROVE  IInv'
  <2>1. TypeOK' BY <1>3 DEF IInv, TypeOK, PCs, MapLock, Goto
  <2>2. LockInv' BY <1>3 DEF IInv, LockInv, TypeOK, Critical, MapLock, Goto
  <2>3. OwnerInv' BY <1>3 DEF IInv, OwnerInv, TypeOK, Mapping, MapLock, Goto
  <2>4. NodeInv'
    BY <1>3 DEF IInv, NodeInv, OwnerInv, TypeOK, HasNode, MapLock, Goto
  <2>5. PteInv'
    BY <1>3 DEF IInv, PteInv, PteOK, PageOK, NodeInv, OwnerInv, TypeOK,
       Reached, HasNode, MapLock, Goto
  <2>6. UseInv'
    BY <1>3 DEF IInv, UseInv, RefInv, LeakOnlyByClose, FlushedBeforeRelease,
       OwnerInv, TypeOK, Mapping, Uses, MapLock, Goto
  <2>7. QED BY <2>1, <2>2, <2>3, <2>4, <2>5, <2>6 DEF IInv
<1>4. ASSUME NEW c \in Clients, MapInsert(c)
      PROVE  IInv'
  <2>1. TypeOK' BY <1>4 DEF IInv, TypeOK, PCs, OwnerInv, MapInsert, Goto
  <2>2. LockInv' BY <1>4 DEF IInv, LockInv, TypeOK, Critical, MapInsert, Goto
  <2>3. OwnerInv' BY <1>4 DEF IInv, OwnerInv, TypeOK, Mapping, MapInsert, Goto
  <2>4. NodeInv'
    BY <1>4 DEF IInv, NodeInv, OwnerInv, TypeOK, HasNode, Fits, MapInsert, Goto
  <2>5. PteInv'
    <3>1. /\ cur[c] \in Bos /\ node[cur[c]] = None /\ idx[c] = 0
          /\ pc[c] = "map_insert" /\ pc'[c] = "map_page" /\ idx' = idx
          /\ cur' = cur /\ npages' = npages /\ iommu' = iommu
          /\ \A d \in Clients \ {c} : pc'[d] = pc[d]
          /\ \A o \in Bos \ {cur[c]} : node'[o] = node[o]
      BY <1>4 DEF IInv, NodeInv, OwnerInv, TypeOK, HasNode, MapInsert, Goto
    <3>2. \A o \in Bos \ {cur[c]}, i \in Nat : Reached(o, i)' <=> Reached(o, i)
      BY <3>1 DEF Reached
    <3>3. \A i \in Nat : ~ Reached(cur[c], i)'
      BY <3>1 DEF Reached
    <3>4. \A a \in Addrs : iommu[a] # None =>
            /\ iommu[a].bo \in Bos \ {cur[c]} /\ iommu[a].idx \in Nat
      BY <3>1 DEF IInv, TypeOK, Pte, PteInv, PteOK
    <3>5. \A a \in Addrs : PteOK(a)'
      BY <3>1, <3>2, <3>4 DEF IInv, PteInv, PteOK
    <3>6. \A o \in Bos, i \in Nat : PageOK(o, i)'
      BY <3>1, <3>2, <3>3 DEF IInv, PteInv, PageOK
    <3>7. \A d \in Clients : pc'[d] = "map_page" => idx'[d] <= WrapPages
      BY <3>1 DEF IInv, PteInv
    <3>8. QED BY <3>5, <3>6, <3>7 DEF PteInv
  <2>6. UseInv'
    BY <1>4 DEF IInv, UseInv, RefInv, LeakOnlyByClose, FlushedBeforeRelease,
       OwnerInv, TypeOK, Mapping, Uses, MapInsert, Goto
  <2>7. QED BY <2>1, <2>2, <2>3, <2>4, <2>5, <2>6 DEF IInv
<1>5. ASSUME NEW c \in Clients, MapNoSpace(c)
      PROVE  IInv'
  <2>1. TypeOK' BY <1>5 DEF IInv, TypeOK, PCs, MapNoSpace, Goto
  <2>2. LockInv' BY <1>5 DEF IInv, LockInv, TypeOK, Critical, MapNoSpace, Goto
  <2>3. OwnerInv' BY <1>5 DEF IInv, OwnerInv, TypeOK, Mapping, MapNoSpace, Goto
  <2>4. NodeInv'
    BY <1>5 DEF IInv, NodeInv, OwnerInv, TypeOK, HasNode, MapNoSpace, Goto
  <2>5. PteInv'
    <3>1. \A o \in Bos, i \in Nat : Reached(o, i)' <=> Reached(o, i)
      BY <1>5 DEF IInv, OwnerInv, TypeOK, Reached, MapNoSpace, Goto
    <3>2. \A a \in Addrs : iommu[a] # None =>
            iommu[a].bo \in Bos /\ iommu[a].idx \in Nat
      BY DEF IInv, TypeOK, Pte
    <3>3. \A d \in Clients : pc'[d] = "map_page" => pc[d] = "map_page"
      BY <1>5 DEF IInv, TypeOK, MapNoSpace, Goto
    <3>4. QED
      BY <1>5, <3>1, <3>2, <3>3 DEF IInv, PteInv, PteOK, PageOK, MapNoSpace
  <2>6. UseInv'
    BY <1>5 DEF IInv, UseInv, RefInv, LeakOnlyByClose, FlushedBeforeRelease,
       OwnerInv, TypeOK, Mapping, Uses, MapNoSpace, Goto
  <2>7. QED BY <2>1, <2>2, <2>3, <2>4, <2>5, <2>6 DEF IInv
<1>6. ASSUME NEW c \in Clients, MapPage(c)
      PROVE  IInv'
  <2>1. TypeOK'
    <3>1. cur[c] \in Bos /\ idx[c] \in 0 .. (MaxPages - 1)
      BY <1>6 DEF IInv, TypeOK, OwnerInv, MapPage, Goto
    <3>2. iommu' \in [Addrs -> Pte \cup {None}]
      BY <1>6, <3>1 DEF IInv, TypeOK, Pte, MapPage
    <3>3. idx' \in [Clients -> 0 .. MaxPages]
      BY <1>6, <3>1 DEF IInv, TypeOK, MapPage
    <3>4. QED BY <1>6, <3>2, <3>3 DEF IInv, TypeOK, PCs, MapPage, Goto
  <2>2. LockInv' BY <1>6 DEF IInv, LockInv, TypeOK, Critical, MapPage, Goto
  <2>3. OwnerInv' BY <1>6 DEF IInv, OwnerInv, TypeOK, Mapping, MapPage, Goto
  <2>4. NodeInv'
    BY <1>6 DEF IInv, NodeInv, OwnerInv, TypeOK, HasNode, MapPage, Goto
  <2>5. PteInv'
    <3> DEFINE o == cur[c]
               i == idx[c]
    <3>1. /\ o \in Bos /\ npages[o] \in Nat /\ i \in Nat /\ i < npages[o]
          /\ pc[c] = "map_page" /\ i <= WrapPages
          /\ node[o] # None /\ node[o] \in Nat /\ node[o] < MmEnd
          /\ \A d \in Clients : cur[d] = o => d = c
      BY <1>6 DEF IInv, TypeOK, OwnerInv, NodeInv, PteInv, HasNode, MapPage,
         Goto, MmEnd, MaxIova
    <3>2. i < WrapPages
      <4>1. SUFFICES ASSUME i = WrapPages PROVE FALSE
        BY <3>1
      <4>2. iommu[node[o] + 0] = [bo |-> o, idx |-> 0]
        BY <3>1, <4>1 DEF IInv, PteInv, PteOK, PageOK, Reached
      <4>3. PageIova(o, i) = node[o] + 0
        BY <3>1, <4>1, ModFacts DEF PageIova
      <4>4. QED
        BY <1>6, <3>1, <4>2, <4>3 DEF MapPage
    <3>a. PageIova(o, i) = node[o] + i
      BY <3>1, <3>2, ModFacts DEF PageIova
    <3>b. node[o] + i \in Addrs
      BY <3>1, <3>2 DEF Addrs, MmEnd, MaxIova
    <3>3. /\ node[o] + i \in Addrs
          /\ iommu[node[o] + i] = None
          /\ iommu' = [iommu EXCEPT ![node[o] + i] = [bo |-> o, idx |-> i]]
          /\ idx' = [idx EXCEPT ![c] = i + 1]
          /\ pc' = pc /\ node' = node /\ cur' = cur /\ npages' = npages
      BY <1>6, <3>a, <3>b DEF IInv, TypeOK, MapPage, Goto
    <3>4. \A d \in Clients : pc'[d] = "map_page" => idx'[d] <= WrapPages
      BY <3>1, <3>2, <3>3 DEF IInv, PteInv, TypeOK
    <3>5. ASSUME NEW x \in Addrs, iommu'[x] # None PROVE PteOK(x)'
      <4>1. CASE x = node[o] + i
        BY <3>1, <3>3, <4>1 DEF IInv, TypeOK, PteOK, Reached
      <4>2. CASE x # node[o] + i
        <5>1. iommu'[x] = iommu[x] /\ iommu[x] \in Pte
          BY <3>3, <3>5, <4>2 DEF IInv, TypeOK
        <5>2. QED
          BY <3>1, <3>3, <3>5, <5>1 DEF IInv, TypeOK, PteInv, PteOK, PageOK,
             Reached, Pte
      <4>3. QED BY <4>1, <4>2
    <3>6. ASSUME NEW p \in Bos, NEW j \in Nat, node'[p] # None,
                 j < npages'[p], Reached(p, j)'
          PROVE  j < WrapPages /\ iommu'[node'[p] + j] = [bo |-> p, idx |-> j]
      <4>1. CASE p = o /\ j = i
        BY <3>1, <3>2, <3>3, <4>1 DEF IInv, TypeOK
      <4>2. CASE ~ (p = o /\ j = i)
        <5>1. Reached(p, j)
          BY <3>1, <3>3, <3>6, <4>2 DEF IInv, TypeOK, Reached
        <5>2. j < WrapPages /\ iommu[node[p] + j] = [bo |-> p, idx |-> j]
          BY <3>3, <3>6, <5>1 DEF IInv, PteInv, PageOK
        <5>3. node[p] + j # node[o] + i
          BY <3>3, <5>2
        <5>4. QED BY <3>3, <5>2, <5>3 DEF IInv, TypeOK
      <4>3. QED BY <4>1, <4>2
    <3>7. QED BY <3>4, <3>5, <3>6 DEF PteInv, PteOK, PageOK
  <2>6. UseInv'
    BY <1>6 DEF IInv, UseInv, RefInv, LeakOnlyByClose, FlushedBeforeRelease,
       OwnerInv, TypeOK, Mapping, Uses, MapPage, Goto
  <2>7. QED BY <2>1, <2>2, <2>3, <2>4, <2>5, <2>6 DEF IInv
<1>7. ASSUME NEW c \in Clients, MapPageFail(c)
      PROVE  IInv'
  <2>1. TypeOK' BY <1>7 DEF IInv, TypeOK, PCs, OwnerInv, MapPageFail, Goto
  <2>2. LockInv' BY <1>7 DEF IInv, LockInv, TypeOK, Critical, MapPageFail, Goto
  <2>3. OwnerInv' BY <1>7 DEF IInv, OwnerInv, TypeOK, Mapping, MapPageFail, Goto
  <2>4. NodeInv'
    BY <1>7 DEF IInv, NodeInv, OwnerInv, TypeOK, HasNode, MapPageFail, Goto
  <2>5. PteInv'
    <3> DEFINE o == cur[c]
               i == idx[c]
    <3>1. /\ o \in Bos /\ npages[o] \in Nat /\ i \in Nat /\ i < npages[o]
          /\ pc[c] = "map_page" /\ i <= WrapPages
          /\ node[o] # None /\ node[o] \in Nat
          /\ \A d \in Clients : cur[d] = o => d = c
      BY <1>7 DEF IInv, TypeOK, OwnerInv, NodeInv, PteInv, HasNode,
         MapPageFail, Goto
    <3>2. Unwound(o, i) = {node[o] + j : j \in 0 .. (i - 1)}
      BY <3>1, ModFacts DEF Unwound, PageIova
    <3>3. /\ iommu' = [x \in Addrs |-> IF x \in Unwound(o, i) THEN None ELSE iommu[x]]
          /\ node' = [node EXCEPT ![o] = None] /\ cur' = cur /\ npages' = npages
          /\ pc' = [pc EXCEPT ![c] = "put_pages"]
          /\ idx' = [idx EXCEPT ![c] = 0]
      BY <1>7 DEF MapPageFail, Goto
    <3>4. \A d \in Clients : pc'[d] = "map_page" => idx'[d] <= WrapPages
      BY <3>3 DEF IInv, PteInv, TypeOK
    <3>5. ASSUME NEW x \in Addrs, iommu'[x] # None PROVE PteOK(x)'
      <4>1. iommu'[x] = iommu[x] /\ iommu[x] \in Pte /\ x \notin Unwound(o, i)
        BY <3>3, <3>5 DEF IInv, TypeOK
      <4>2. iommu[x].bo # o
        BY <3>1, <3>2, <3>5, <4>1 DEF IInv, PteInv, PteOK, PageOK, Reached, Pte
      <4>3. QED
        BY <3>1, <3>3, <3>5, <4>1, <4>2 DEF IInv, TypeOK, PteInv, PteOK,
           PageOK, Reached, Pte
    <3>6. ASSUME NEW p \in Bos, NEW j \in Nat, node'[p] # None,
                 j < npages'[p], Reached(p, j)'
          PROVE  j < WrapPages /\ iommu'[node'[p] + j] = [bo |-> p, idx |-> j]
      <4>1. p # o /\ node'[p] = node[p] /\ node[p] # None /\ node[p] \in Nat
            /\ node[p] < MmEnd
        BY <3>1, <3>3, <3>6 DEF IInv, TypeOK, MmEnd, MaxIova
      <4>2. Reached(p, j)
        BY <3>1, <3>3, <3>6, <4>1 DEF IInv, TypeOK, Reached
      <4>3. j < WrapPages /\ iommu[node[p] + j] = [bo |-> p, idx |-> j]
        BY <3>3, <3>6, <4>1, <4>2 DEF IInv, PteInv, PageOK
      <4>4. node[p] + j \in Addrs
        BY <4>1, <4>3 DEF Addrs, MmEnd, MaxIova
      <4>5. node[p] + j \notin Unwound(o, i)
        <5>1. \A k \in 0 .. (i - 1) : iommu[node[o] + k] = [bo |-> o, idx |-> k]
          BY <3>1 DEF IInv, PteInv, PteOK, PageOK, Reached
        <5>2. \A k \in 0 .. (i - 1) : node[p] + j # node[o] + k
          <6>1. ASSUME NEW k \in 0 .. (i - 1), node[p] + j = node[o] + k
                PROVE  FALSE
            <7>1. iommu[node[p] + j].bo = p BY <4>3
            <7>2. iommu[node[o] + k] = [bo |-> o, idx |-> k] BY <5>1, Zenon
            <7>3. QED BY <4>1, <6>1, <7>1, <7>2
          <6>2. QED BY <6>1
        <5>3. QED BY <3>2, <5>2
      <4>6. QED BY <3>3, <4>1, <4>3, <4>4, <4>5
    <3>7. QED BY <3>4, <3>5, <3>6 DEF PteInv, PteOK, PageOK
  <2>6. UseInv'
    BY <1>7 DEF IInv, UseInv, RefInv, LeakOnlyByClose, FlushedBeforeRelease,
       OwnerInv, TypeOK, Mapping, Uses, MapPageFail, Goto
  <2>7. QED BY <2>1, <2>2, <2>3, <2>4, <2>5, <2>6 DEF IInv
<1>8. ASSUME NEW c \in Clients, MapDone(c)
      PROVE  IInv'
  <2>1. TypeOK' BY <1>8 DEF IInv, TypeOK, PCs, MapDone, Goto
  <2>2. LockInv' BY <1>8 DEF IInv, LockInv, TypeOK, Critical, MapDone, Goto
  <2>3. OwnerInv' BY <1>8 DEF IInv, OwnerInv, TypeOK, Mapping, MapDone, Goto
  <2>4. NodeInv'
    <3>1. cur[c] \in Bos /\ npages[cur[c]] \in Nat /\ npages[cur[c]] <= WrapPages
      BY <1>8 DEF IInv, TypeOK, OwnerInv, PteInv, MapDone, Goto
    <3>2. npages[cur[c]] < WrapPages
      BY <1>8, <3>1, ModFacts DEF IInv, NodeInv, HasNode, NodePages, MapDone,
         Goto
    <3>3. QED
      BY <1>8, <3>1, <3>2 DEF IInv, NodeInv, OwnerInv, TypeOK, HasNode,
         MapDone, Goto
  <2>5. PteInv'
    BY <1>8 DEF IInv, PteInv, PteOK, PageOK, NodeInv, OwnerInv, TypeOK,
       Reached, HasNode, MapDone, Goto
  <2>6. UseInv'
    BY <1>8 DEF IInv, UseInv, RefInv, LeakOnlyByClose, FlushedBeforeRelease,
       OwnerInv, TypeOK, Mapping, Uses, MapDone, Goto
  <2>7. QED BY <2>1, <2>2, <2>3, <2>4, <2>5, <2>6 DEF IInv
<1>9. ASSUME NEW c \in Clients, HandleCreate(c)
      PROVE  IInv'
  <2>1. TypeOK' BY <1>9, Counts DEF IInv, TypeOK, PCs, OwnerInv, HandleCreate, Goto
  <2>2. LockInv'
    BY <1>9 DEF IInv, LockInv, TypeOK, Critical, HandleCreate, Goto
  <2>3. OwnerInv' BY <1>9 DEF IInv, OwnerInv, TypeOK, Mapping, HandleCreate, Goto
  <2>4. NodeInv'
    BY <1>9 DEF IInv, NodeInv, OwnerInv, TypeOK, HasNode, HandleCreate, Goto
  <2>5. PteInv'
    BY <1>9 DEF IInv, PteInv, PteOK, PageOK, NodeInv, OwnerInv, TypeOK,
       Reached, HasNode, HandleCreate, Goto
  <2>6. UseInv'
    BY <1>9, Counts DEF IInv, UseInv, RefInv, LeakOnlyByClose, FlushedBeforeRelease,
       OwnerInv, TypeOK, Mapping, Uses, HandleCreate, Goto
  <2>7. QED BY <2>1, <2>2, <2>3, <2>4, <2>5, <2>6 DEF IInv
<1>10. ASSUME NEW c \in Clients, HandleFail(c)
      PROVE  IInv'
  <2>1. TypeOK'
    BY <1>10, Counts DEF IInv, TypeOK, PCs, OwnerInv, UseInv, RefInv, HandleFail, Goto
  <2>2. LockInv' BY <1>10 DEF IInv, LockInv, TypeOK, Critical, HandleFail, Goto
  <2>3. OwnerInv' BY <1>10 DEF IInv, OwnerInv, TypeOK, Mapping, HandleFail, Goto
  <2>4. NodeInv'
    BY <1>10 DEF IInv, NodeInv, OwnerInv, TypeOK, HasNode, HandleFail, Goto
  <2>5. PteInv'
    BY <1>10 DEF IInv, PteInv, PteOK, PageOK, NodeInv, OwnerInv, TypeOK,
       Reached, HasNode, HandleFail, Goto
  <2>6. UseInv'
    BY <1>10, Counts DEF IInv, UseInv, RefInv, LeakOnlyByClose, FlushedBeforeRelease,
       OwnerInv, TypeOK, Mapping, Uses, HandleFail, Goto
  <2>7. QED BY <2>1, <2>2, <2>3, <2>4, <2>5, <2>6 DEF IInv
<1>11. ASSUME NEW c \in Clients, NEW b \in Bos, BoFree(c, b)
      PROVE  IInv'
  <2>1. TypeOK' BY <1>11, Counts DEF IInv, TypeOK, PCs, BoFree, Goto
  <2>2. LockInv' BY <1>11 DEF IInv, LockInv, TypeOK, Critical, BoFree, Goto
  <2>3. OwnerInv' BY <1>11 DEF IInv, OwnerInv, TypeOK, Mapping, BoFree, Goto
  <2>4. NodeInv'
    BY <1>11 DEF IInv, NodeInv, OwnerInv, TypeOK, HasNode, BoFree, Goto
  <2>5. PteInv'
    <3>1. \A o \in Bos, i \in Nat : Reached(o, i)' <=> Reached(o, i)
      BY <1>11 DEF IInv, OwnerInv, TypeOK, Reached, BoFree, Goto
    <3>2. \A a \in Addrs : iommu[a] # None =>
            iommu[a].bo \in Bos /\ iommu[a].idx \in Nat
      BY DEF IInv, TypeOK, Pte
    <3>3. \A d \in Clients : pc'[d] = "map_page" => pc[d] = "map_page"
      BY <1>11 DEF IInv, TypeOK, BoFree, Goto
    <3>4. QED BY <1>11, <3>1, <3>2, <3>3 DEF IInv, PteInv, PteOK, PageOK,
    BoFree
  <2>6. UseInv'
    BY <1>11, Counts DEF IInv, UseInv, RefInv, LeakOnlyByClose, FlushedBeforeRelease,
       OwnerInv, TypeOK, Mapping, Uses, BoFree, Goto
  <2>7. QED BY <2>1, <2>2, <2>3, <2>4, <2>5, <2>6 DEF IInv
<1>12. ASSUME NEW c \in Clients, NEW b \in Bos, BoLookupNoPut(c, b)
      PROVE  IInv'
  <2>1. TypeOK' BY <1>12, Counts DEF IInv, TypeOK, PCs, BoLookupNoPut, Goto
  <2>2. LockInv'
    BY <1>12 DEF IInv, LockInv, TypeOK, Critical, BoLookupNoPut, Goto
  <2>3. OwnerInv' BY <1>12 DEF IInv, OwnerInv, TypeOK, Mapping, BoLookupNoPut, Goto
  <2>4. NodeInv'
    BY <1>12 DEF IInv, NodeInv, OwnerInv, TypeOK, HasNode, BoLookupNoPut, Goto
  <2>5. PteInv'
    BY <1>12 DEF IInv, PteInv, PteOK, PageOK, NodeInv, OwnerInv, TypeOK,
       Reached, HasNode, BoLookupNoPut, Goto
  <2>6. UseInv'
    BY <1>12, Counts DEF IInv, UseInv, RefInv, LeakOnlyByClose, FlushedBeforeRelease,
       OwnerInv, TypeOK, Mapping, Uses, BoLookupNoPut, Goto
  <2>7. QED BY <2>1, <2>2, <2>3, <2>4, <2>5, <2>6 DEF IInv
<1>13. ASSUME NEW c \in Clients, UnmapLock(c)
      PROVE  IInv'
  <2>1. TypeOK' BY <1>13 DEF IInv, TypeOK, PCs, UnmapLock, Goto
  <2>2. LockInv' BY <1>13 DEF IInv, LockInv, TypeOK, Critical, UnmapLock, Goto
  <2>3. OwnerInv' BY <1>13 DEF IInv, OwnerInv, TypeOK, Mapping, UnmapLock, Goto
  <2>4. NodeInv'
    BY <1>13 DEF IInv, NodeInv, OwnerInv, TypeOK, HasNode, UnmapLock, Goto
  <2>5. PteInv'
    BY <1>13 DEF IInv, PteInv, PteOK, PageOK, NodeInv, OwnerInv, TypeOK,
       Reached, HasNode, Pte, UnmapLock, Goto
  <2>6. UseInv'
    BY <1>13 DEF IInv, UseInv, RefInv, LeakOnlyByClose, FlushedBeforeRelease,
       OwnerInv, TypeOK, Mapping, Uses, UnmapLock, Goto
  <2>7. QED BY <2>1, <2>2, <2>3, <2>4, <2>5, <2>6 DEF IInv
<1>14. ASSUME NEW c \in Clients, UnmapPage(c)
      PROVE  IInv'
  <2>1. TypeOK'
    <3>1. cur[c] \in Bos /\ idx[c] \in 0 .. (MaxPages - 1)
      BY <1>14 DEF IInv, TypeOK, OwnerInv, UnmapPage, Goto
    <3>2. iommu' \in [Addrs -> Pte \cup {None}]
      BY <1>14 DEF IInv, TypeOK, UnmapPage
    <3>3. idx' \in [Clients -> 0 .. MaxPages]
      BY <1>14, <3>1 DEF IInv, TypeOK, UnmapPage
    <3>4. QED BY <1>14, <3>1, <3>2, <3>3 DEF IInv, TypeOK, PCs, UnmapPage, Goto
  <2>2. LockInv' BY <1>14 DEF IInv, LockInv, TypeOK, Critical, UnmapPage, Goto
  <2>3. OwnerInv' BY <1>14 DEF IInv, OwnerInv, TypeOK, Mapping, UnmapPage, Goto
  <2>4. NodeInv'
    BY <1>14 DEF IInv, NodeInv, OwnerInv, TypeOK, HasNode, UnmapPage, Goto
  <2>5. PteInv'
    <3> DEFINE o == cur[c]
               i == idx[c]
    <3>1. /\ o \in Bos /\ npages[o] \in Nat /\ i \in Nat /\ i < npages[o]
          /\ pc[c] = "unmap_page" /\ npages[o] < WrapPages
          /\ node[o] # None /\ node[o] \in Nat
          /\ \A d \in Clients : cur[d] = o => d = c
      BY <1>14 DEF IInv, TypeOK, OwnerInv, NodeInv, HasNode, UnmapPage, Goto
    <3>2. PageIova(o, i) = node[o] + i
      BY <3>1, ModFacts DEF PageIova
    <3>3. /\ iommu' = [iommu EXCEPT ![node[o] + i] = None]
          /\ idx' = [idx EXCEPT ![c] = i + 1]
          /\ pc' = pc /\ node' = node /\ cur' = cur /\ npages' = npages
      BY <1>14, <3>2 DEF IInv, TypeOK, UnmapPage, Goto
    <3>4. \A d \in Clients : pc'[d] = "map_page" => idx'[d] <= WrapPages
      BY <3>1, <3>3 DEF IInv, PteInv, TypeOK
    <3>5. ASSUME NEW x \in Addrs, iommu'[x] # None PROVE PteOK(x)'
      <4>1. x # node[o] + i /\ iommu'[x] = iommu[x] /\ iommu[x] \in Pte
        BY <3>3, <3>5 DEF IInv, TypeOK
      <4>2. QED
        <5>1. PteOK(x) /\ iommu[x].idx \in Nat /\ iommu[x].bo \in Bos
          BY <3>5, <4>1 DEF IInv, PteInv, Pte
        <5>2. iommu[x].bo = o => iommu[x].idx >= i /\ iommu[x].idx # i
          BY <3>1, <3>5, <4>1, <5>1 DEF PteOK, Reached
        <5>3. Reached(iommu[x].bo, iommu[x].idx)'
          BY <3>1, <3>3, <3>5, <4>1, <5>1, <5>2 DEF IInv, TypeOK, PteOK,
             Reached
        <5>4. QED BY <3>3, <3>5, <4>1, <5>1, <5>3 DEF PteOK
    <3>6. ASSUME NEW p \in Bos, NEW j \in Nat, node'[p] # None,
                 j < npages'[p], Reached(p, j)'
          PROVE  j < WrapPages /\ iommu'[node'[p] + j] = [bo |-> p, idx |-> j]
      <4>1. Reached(p, j) /\ ~ (p = o /\ j = i)
        BY <3>1, <3>3, <3>6 DEF IInv, TypeOK, Reached
      <4>2. j < WrapPages /\ iommu[node[p] + j] = [bo |-> p, idx |-> j]
        BY <3>3, <3>6, <4>1 DEF IInv, PteInv, PageOK
      <4>3. iommu[node[o] + i] = [bo |-> o, idx |-> i]
        BY <3>1 DEF IInv, PteInv, PteOK, PageOK, Reached
      <4>4. node[p] + j # node[o] + i
        BY <4>1, <4>2, <4>3
      <4>5. QED BY <3>3, <4>2, <4>4 DEF IInv, TypeOK
    <3>7. QED BY <3>4, <3>5, <3>6 DEF PteInv, PteOK, PageOK
  <2>6. UseInv'
    BY <1>14 DEF IInv, UseInv, RefInv, LeakOnlyByClose, FlushedBeforeRelease,
       OwnerInv, TypeOK, Mapping, Uses, UnmapPage, Goto
  <2>7. QED BY <2>1, <2>2, <2>3, <2>4, <2>5, <2>6 DEF IInv
<1>15. ASSUME NEW c \in Clients, UnmapDone(c)
      PROVE  IInv'
  <2>1. TypeOK' BY <1>15 DEF IInv, TypeOK, PCs, OwnerInv, UnmapDone, Goto
  <2>2. LockInv' BY <1>15 DEF IInv, LockInv, TypeOK, Critical, UnmapDone, Goto
  <2>3. OwnerInv' BY <1>15 DEF IInv, OwnerInv, TypeOK, Mapping, UnmapDone, Goto
  <2>4. NodeInv'
    BY <1>15 DEF IInv, NodeInv, OwnerInv, TypeOK, HasNode, UnmapDone, Goto
  <2>5. PteInv'
    BY <1>15 DEF IInv, PteInv, PteOK, PageOK, NodeInv, OwnerInv, TypeOK,
       Reached, HasNode, Pte, UnmapDone, Goto
  <2>6. UseInv'
    BY <1>15 DEF IInv, UseInv, RefInv, LeakOnlyByClose, FlushedBeforeRelease,
       OwnerInv, TypeOK, Mapping, Uses, UnmapDone, Goto
  <2>7. QED BY <2>1, <2>2, <2>3, <2>4, <2>5, <2>6 DEF IInv
<1>16. ASSUME NEW c \in Clients, Flush(c)
      PROVE  IInv'
  <2>1. TypeOK' BY <1>16 DEF IInv, TypeOK, PCs, Flush, Goto
  <2>2. LockInv' BY <1>16 DEF IInv, LockInv, TypeOK, Critical, Flush, Goto
  <2>3. OwnerInv' BY <1>16 DEF IInv, OwnerInv, TypeOK, Mapping, Flush, Goto
  <2>4. NodeInv'
    BY <1>16 DEF IInv, NodeInv, OwnerInv, TypeOK, HasNode, Flush, Goto
  <2>5. PteInv'
    BY <1>16 DEF IInv, PteInv, PteOK, PageOK, NodeInv, OwnerInv, TypeOK,
       Reached, HasNode, Flush, Goto
  <2>6. UseInv'
    BY <1>16 DEF IInv, UseInv, RefInv, LeakOnlyByClose, FlushedBeforeRelease,
       OwnerInv, TypeOK, Mapping, Uses, Flush, Goto
  <2>7. QED BY <2>1, <2>2, <2>3, <2>4, <2>5, <2>6 DEF IInv
<1>17. ASSUME NEW c \in Clients, Release(c)
      PROVE  IInv'
  <2>a. /\ cur[c] \in Bos /\ pc[c] \in {"release", "put_pages"}
        /\ pc' = [pc EXCEPT ![c] = "idle"]
    BY <1>17 DEF IInv, OwnerInv, TypeOK, Release, Goto
  <2>b. node[cur[c]] = None
    BY <2>a DEF IInv, NodeInv, HasNode
  <2>1. TypeOK'
    BY <1>17, <2>a DEF IInv, TypeOK, PCs, Saturated, Release
  <2>2. LockInv' BY <1>17 DEF IInv, LockInv, TypeOK, Critical, Release, Goto
  <2>3. OwnerInv' BY <1>17 DEF IInv, OwnerInv, TypeOK, Mapping, Release, Goto
  <2>4. NodeInv'
    <3>1. cur[c] \in Bos /\ node[cur[c]] = None /\ node' = node /\ handles' = handles
      BY <1>17, <2>a, <2>b DEF Release
    <3>2. \A b \in Bos : node'[b] # None => npages'[b] = npages[b]
      BY <1>17, <3>1 DEF IInv, TypeOK, Release
    <3>3. \A d \in Clients : pc'[d] # "idle" =>
             d # c /\ pc'[d] = pc[d] /\ cur'[d] = cur[d]
      BY <1>17 DEF IInv, TypeOK, Release, Goto
    <3>4. \A d \in Clients : pc[d] = "map_page" => pc'[d] = pc[d] /\ cur'[d] = cur[d]
      BY <1>17 DEF IInv, TypeOK, Release, Goto
    <3>5. \A d \in Clients : \A b \in handles'[d] : node'[b] # None
      BY <3>1 DEF IInv, NodeInv
    <3>6. \A d \in Clients :
            pc'[d] # "idle" => (node'[cur'[d]] # None <=> pc'[d] \in HasNode)
      BY <3>1, <3>3 DEF IInv, NodeInv
    <3>7. \A b \in Bos : node'[b] # None =>
            /\ npages'[b] # 0 /\ NodePages(npages'[b]) > 0
            /\ node'[b] + NodePages(npages'[b]) <= MmEnd
            /\ \/ npages'[b] < WrapPages
               \/ \E d \in Clients : cur'[d] = b /\ pc'[d] = "map_page"
      BY <3>1, <3>2, <3>4 DEF IInv, NodeInv
    <3>8. \A b, o \in Bos : b # o /\ node'[b] # None /\ node'[o] # None =>
            \/ node'[b] + NodePages(npages'[b]) <= node'[o]
            \/ node'[o] + NodePages(npages'[o]) <= node'[b]
      BY <3>1, <3>2 DEF IInv, NodeInv
    <3>9. QED BY <3>5, <3>6, <3>7, <3>8 DEF NodeInv, NodePages
  <2>5. PteInv'
    <3>1. cur[c] \in Bos /\ node[cur[c]] = None /\ pc[c] \in {"release", "put_pages"}
      BY <2>a, <2>b
    <3>2. \A o \in Bos, i \in Nat : Reached(o, i)' <=> Reached(o, i)
      BY <1>17, <3>1 DEF IInv, TypeOK, Reached, Release, Goto
    <3>3. \A a \in Addrs : iommu[a] # None =>
            iommu[a].bo \in Bos /\ iommu[a].idx \in Nat
      BY DEF IInv, TypeOK, Pte
    <3>4. \A d \in Clients : pc'[d] = "map_page" => pc[d] = "map_page"
      BY <1>17 DEF IInv, TypeOK, Release, Goto
    <3>5. \A o \in Bos : node[o] # None => npages'[o] = npages[o]
      BY <1>17, <3>1 DEF IInv, TypeOK, Release
    <3>6. QED
      BY <1>17, <3>2, <3>3, <3>4, <3>5 DEF IInv, PteInv, PteOK, PageOK, Release
  <2>6. UseInv'
    BY <1>17 DEF IInv, UseInv, RefInv, LeakOnlyByClose, FlushedBeforeRelease,
       OwnerInv, TypeOK, Mapping, Uses, Release, Goto
  <2>7. QED BY <2>1, <2>2, <2>3, <2>4, <2>5, <2>6 DEF IInv
<1>18. ASSUME NEW c \in Clients, NEW b \in Bos, Mmap(c, b)
      PROVE  IInv'
  <2>1. TypeOK' BY <1>18, Counts DEF IInv, TypeOK, PCs, OwnerInv, Mmap, Goto
  <2>2. LockInv' BY <1>18 DEF IInv, LockInv, TypeOK, Critical, Mmap, Goto
  <2>3. OwnerInv' BY <1>18 DEF IInv, OwnerInv, TypeOK, Mapping, Mmap, Goto
  <2>4. NodeInv'
    BY <1>18 DEF IInv, NodeInv, OwnerInv, TypeOK, HasNode, Mmap, Goto
  <2>5. PteInv'
    BY <1>18 DEF IInv, PteInv, PteOK, PageOK, NodeInv, OwnerInv, TypeOK,
       Reached, HasNode, Mmap, Goto
  <2>6. UseInv'
    BY <1>18, Counts DEF IInv, UseInv, RefInv, LeakOnlyByClose, FlushedBeforeRelease,
       OwnerInv, TypeOK, Mapping, Uses, Mmap, Goto
  <2>7. QED BY <2>1, <2>2, <2>3, <2>4, <2>5, <2>6 DEF IInv
<1>19. ASSUME NEW c \in Clients, NEW b \in Bos, Munmap(c, b)
      PROVE  IInv'
  <2>1. TypeOK'
    BY <1>19, Counts DEF IInv, TypeOK, PCs, OwnerInv, UseInv, RefInv, Munmap, Goto
  <2>2. LockInv' BY <1>19 DEF IInv, LockInv, TypeOK, Critical, Munmap, Goto
  <2>3. OwnerInv' BY <1>19 DEF IInv, OwnerInv, TypeOK, Mapping, Munmap, Goto
  <2>4. NodeInv'
    BY <1>19 DEF IInv, NodeInv, OwnerInv, TypeOK, HasNode, Munmap, Goto
  <2>5. PteInv'
    BY <1>19 DEF IInv, PteInv, PteOK, PageOK, NodeInv, OwnerInv, TypeOK,
       Reached, HasNode, Munmap, Goto
  <2>6. UseInv'
    BY <1>19, Counts DEF IInv, UseInv, RefInv, LeakOnlyByClose, FlushedBeforeRelease,
       OwnerInv, TypeOK, Mapping, Uses, Munmap, Goto
  <2>7. QED BY <2>1, <2>2, <2>3, <2>4, <2>5, <2>6 DEF IInv
<1>20. ASSUME NEW c \in Clients, Close(c)
      PROVE  IInv'
  <2>1. TypeOK'
    BY <1>20, Counts DEF IInv, TypeOK, PCs, OwnerInv, UseInv, RefInv, Close, Goto
  <2>2. LockInv' BY <1>20 DEF IInv, LockInv, TypeOK, Critical, Close, Goto
  <2>3. OwnerInv' BY <1>20 DEF IInv, OwnerInv, TypeOK, Mapping, Close, Goto
  <2>4. NodeInv'
    BY <1>20 DEF IInv, NodeInv, OwnerInv, TypeOK, HasNode, Close, Goto
  <2>5. PteInv'
    BY <1>20 DEF IInv, PteInv, PteOK, PageOK, NodeInv, OwnerInv, TypeOK,
       Reached, HasNode, Close, Goto
  <2>6. UseInv'
    BY <1>20, Counts DEF IInv, UseInv, RefInv, LeakOnlyByClose, FlushedBeforeRelease,
       OwnerInv, TypeOK, Mapping, Uses, Close, Goto
  <2>7. QED BY <2>1, <2>2, <2>3, <2>4, <2>5, <2>6 DEF IInv
<1>21. ASSUME NEW c \in Clients, NEW b \in Bos, MunmapDangling(c, b)
      PROVE  IInv'
  <2>1. TypeOK' BY <1>21, Counts DEF IInv, TypeOK, MunmapDangling
  <2>2. LockInv' BY <1>21 DEF IInv, LockInv, TypeOK, Critical, MunmapDangling
  <2>3. OwnerInv' BY <1>21 DEF IInv, OwnerInv, TypeOK, Mapping, MunmapDangling
  <2>4. NodeInv'
    BY <1>21 DEF IInv, NodeInv, OwnerInv, TypeOK, HasNode, MunmapDangling
  <2>5. PteInv'
    BY <1>21 DEF IInv, PteInv, PteOK, PageOK, NodeInv, OwnerInv, TypeOK,
       Reached, HasNode, MunmapDangling
  <2>6. UseInv'
    BY <1>21, Counts DEF IInv, UseInv, RefInv, LeakOnlyByClose,
       FlushedBeforeRelease, OwnerInv, TypeOK, Mapping, Uses, MunmapDangling
  <2>7. QED BY <2>1, <2>2, <2>3, <2>4, <2>5, <2>6 DEF IInv
<1>22. ASSUME NEW c \in Clients, NEW b \in Bos, GemClose(c, b)
      PROVE  IInv'
  <2>1. TypeOK' BY <1>22, Counts DEF IInv, TypeOK, GemClose
  <2>2. LockInv' BY <1>22 DEF IInv, LockInv, TypeOK, Critical, GemClose
  <2>3. OwnerInv' BY <1>22 DEF IInv, OwnerInv, TypeOK, Mapping, GemClose
  <2>4. NodeInv'
    BY <1>22 DEF IInv, NodeInv, OwnerInv, TypeOK, HasNode, GemClose
  <2>5. PteInv'
    BY <1>22 DEF IInv, PteInv, PteOK, PageOK, NodeInv, OwnerInv, TypeOK,
       Reached, HasNode, GemClose
  <2>6. UseInv'
    <3>1. LeakOnlyByClose' /\ FlushedBeforeRelease'
      BY <1>22 DEF IInv, UseInv, LeakOnlyByClose, FlushedBeforeRelease,
         OwnerInv, TypeOK, GemClose
    <3>2. /\ b \notin hit => ref[b] >= 1 /\ ref'[b] = ref[b] - 1
          /\ \A d \in Clients \ {c} : Uses(d, b) = 0
          /\ ref[b] \in Saturated .. MaxRef
      BY <1>22, Counts DEF IInv, UseInv, RefInv, OwnerInv, TypeOK, Uses, GemClose
    <3>3. \A d \in Clients : cur[d] # b
      BY <1>22 DEF IInv, OwnerInv, GemClose
    <3>4. \A d \in Clients, o \in Bos : o # b => Uses(d, o)' = Uses(d, o)
      BY <1>22 DEF IInv, TypeOK, Uses, GemClose
    <3>5. Uses(c, b)' = Uses(c, b) - 1 /\ Uses(c, b) \in 1 .. 2
          /\ \A d \in Clients \ {c} : Uses(d, b)' = Uses(d, b)
      BY <1>22 DEF IInv, TypeOK, Uses, GemClose
    <3>6. pc' = pc /\ cur' = cur /\ hit' = hit
          /\ \A o \in Bos : o # b => ref'[o] = ref[o]
      BY <1>22 DEF IInv, TypeOK, GemClose
    <3>7. \A d \in Clients, o \in Bos : o \notin hit' => ref'[o] >= Uses(d, o)'
      BY <3>2, <3>4, <3>5, <3>6 DEF IInv, UseInv, RefInv, Saturated
    <3>8. \A d \in Clients : pc'[d] \in Mapping /\ cur'[d] \notin hit' =>
            ref'[cur'[d]] >= 1
      BY <3>3, <3>6 DEF IInv, UseInv, RefInv, TypeOK, OwnerInv, Mapping
    <3>9. QED BY <3>1, <3>7, <3>8 DEF UseInv, RefInv
  <2>7. QED BY <2>1, <2>2, <2>3, <2>4, <2>5, <2>6 DEF IInv
<1>23. ASSUME RuntimeSuspend
      PROVE  IInv'
  <2>1. TypeOK' BY <1>23 DEF IInv, TypeOK, PCs, RuntimeSuspend
  <2>2. LockInv' BY <1>23 DEF IInv, LockInv, TypeOK, Critical, RuntimeSuspend
  <2>3. OwnerInv' BY <1>23 DEF IInv, OwnerInv, TypeOK, Mapping, RuntimeSuspend
  <2>4. NodeInv'
    BY <1>23 DEF IInv, NodeInv, OwnerInv, TypeOK, HasNode, RuntimeSuspend
  <2>5. PteInv'
    BY <1>23 DEF IInv, PteInv, PteOK, PageOK, NodeInv, OwnerInv, TypeOK,
       Reached, HasNode, RuntimeSuspend
  <2>6. UseInv'
    BY <1>23 DEF IInv, UseInv, RefInv, LeakOnlyByClose, FlushedBeforeRelease,
       OwnerInv, TypeOK, Mapping, Uses, RuntimeSuspend
  <2>7. QED BY <2>1, <2>2, <2>3, <2>4, <2>5, <2>6 DEF IInv
<1>24. QED
  BY <1>1, <1>2, <1>3, <1>4, <1>5, <1>6, <1>7, <1>8, <1>9, <1>10, <1>11,
     <1>12, <1>13, <1>14, <1>15, <1>16, <1>17, <1>18, <1>19, <1>20, <1>21,
     <1>22, <1>23
  DEF Next, LockFreeStep, LockStep, Call

(* The initial state, with no BO and nothing mapped, satisfies IInv. *)
LEMMA InitInv == Init => IInv
  BY BoundsAssumption, NoneAssumption
  DEF Init, IInv, TypeOK, PCs, LockInv, Critical, OwnerInv, NodeInv, PteInv,
      PteOK, PageOK, UseInv, RefInv, Uses, Mapping,
      Saturated, LeakOnlyByClose, FlushedBeforeRelease

(* A step that changes nothing keeps it too. *)
LEMMA StutterInv == ASSUME IInv, UNCHANGED vars PROVE IInv'
  BY DEF vars, IInv, TypeOK, LockInv, OwnerInv, NodeInv, PteInv, PteOK, PageOK,
         Reached, UseInv, RefInv, Uses, LeakOnlyByClose, FlushedBeforeRelease

(* IInv holds in every state the driver reaches. *)
THEOREM Invariance == Spec => []IInv
<1>1. IInv /\ [Next]_vars => IInv'
  BY StepInv, StutterInv
<1>2. QED BY InitInv, <1>1, PTL DEF Spec

(* Whenever iommu_lock is free, drm_mm and the DART page table agree. *)
LEMMA IommuFromIInv == IInv => IommuMatchesMm
<1> SUFFICES ASSUME IInv, lock = None, NEW a \in Addrs
             PROVE  \/ /\ iommu[a] = None
                       /\ \A b \in Bos : node[b] # None =>
                            a < node[b] \/ a >= node[b] + npages[b]
                    \/ \E b \in Bos :
                         /\ node[b] # None
                         /\ a \in node[b] .. (node[b] + npages[b] - 1)
                         /\ iommu[a] = [bo |-> b, idx |-> a - node[b]]
  BY DEF IommuMatchesMm
<1> USE NoneAssumption
<1>1. \A c \in Clients : pc[c] # "map_page" /\ pc[c] # "unmap_page"
  BY DEF IInv, LockInv, Critical, TypeOK
<1>2. \A b \in Bos, i \in Nat : Reached(b, i)
  BY <1>1 DEF Reached
<1>3. \A b \in Bos : node[b] # None => node[b] \in Nat /\ npages[b] \in Nat
  BY BoundsAssumption DEF IInv, TypeOK
<1>4. CASE iommu[a] = None
  <2>1. ASSUME NEW b \in Bos, node[b] # None, a >= node[b],
               a < node[b] + npages[b]
        PROVE  FALSE
    <3>1. a - node[b] \in Nat /\ a - node[b] < npages[b]
          /\ a = node[b] + (a - node[b])
      BY <1>3, <2>1 DEF Addrs, MmEnd, MaxIova
    <3>2. iommu[node[b] + (a - node[b])] = [bo |-> b, idx |-> a - node[b]]
      BY <1>2, <2>1, <3>1 DEF IInv, PteInv, PageOK
    <3>3. QED BY <1>4, <3>1, <3>2
  <2>2. \A b \in Bos : node[b] # None =>
          a < node[b] \/ a >= node[b] + npages[b]
    BY <1>3, <2>1, BoundsAssumption DEF Addrs, MmEnd, MaxIova
  <2>3. QED BY <1>4, <2>2
<1>5. CASE iommu[a] # None
  <2>1. iommu[a] \in Pte /\ PteOK(a)
    BY <1>5 DEF IInv, TypeOK, PteInv
  <2>2. iommu[a] = [bo |-> iommu[a].bo, idx |-> iommu[a].idx]
        /\ iommu[a].bo \in Bos /\ iommu[a].idx \in Nat
    BY <2>1, BoundsAssumption DEF Pte
  <2>3. QED BY <1>3, <1>5, <2>1, <2>2 DEF PteOK
<1>6. QED BY <1>4, <1>5

(* A BO with a handle is mapped in full, at its place. *)
LEMMA HandleMapped ==
  ASSUME IInv, NEW c \in Clients, NEW b \in handles[c]
  PROVE  /\ b \in Bos /\ node[b] \in Nat /\ node[b] # None
         /\ npages[b] \in Nat \ {0} /\ npages[b] < WrapPages
         /\ \A i \in 0 .. (npages[b] - 1) :
              iommu[node[b] + i] = [bo |-> b, idx |-> i]
<1> USE NoneAssumption, BoundsAssumption
<1>1. b \in Bos /\ node[b] # None /\ node[b] \in Nat /\ npages[b] \in Nat \ {0}
  BY DEF IInv, TypeOK, NodeInv, OwnerInv
<1>2. \A d \in Clients : cur[d] # b
  BY DEF IInv, OwnerInv
<1>3. npages[b] < WrapPages
  BY <1>1, <1>2 DEF IInv, NodeInv
<1>4. \A i \in Nat : Reached(b, i)
  BY <1>2 DEF Reached
<1>5. QED BY <1>1, <1>3, <1>4 DEF IInv, PteInv, PageOK

(* A handle leads to a mapped BO, whose count covers handle and VMA. *)
LEMMA RefFromIInv == IInv => RefCoversUse
<1> SUFFICES ASSUME IInv PROVE RefCoversUse
  OBVIOUS
<1>1. ASSUME NEW c \in Clients, NEW b \in handles[c] PROVE FullyMapped(b)
  <2>1. \A i \in 0 .. (npages[b] - 1) : i % WrapPages = i
    BY HandleMapped, ModFacts, BoundsAssumption
  <2>2. QED BY <2>1, HandleMapped DEF FullyMapped, PageIova
<1>2. QED BY <1>1 DEF IInv, OwnerInv, UseInv, RefInv, RefCoversUse

(* BO_INIT, BO_FREE, mmap, close and every error path between them keep    *)
(* the types of the driver's state.                                        *)
THEOREM TypeCorrect == Spec => []TypeOK
<1>1. IInv => TypeOK BY DEF IInv
<1>2. QED BY Invariance, <1>1, PTL

(* Whenever iommu_lock is free, the DART page table holds exactly the      *)
(* pages of the nodes in the drm_mm.                                       *)
THEOREM PageTableCorrect == Spec => []IommuMatchesMm
  BY Invariance, IommuFromIInv, PTL

(* A BO is lost only by closing its file. *)
THEOREM NoOtherLeak == Spec => []LeakOnlyByClose
<1>1. IInv => LeakOnlyByClose BY DEF IInv, UseInv
<1>2. QED BY Invariance, <1>1, PTL

(* References cover handles and VMAs. *)
THEOREM RefsCorrect == Spec => []RefCoversUse
  BY Invariance, RefFromIInv, PTL

(* ane_bo_free gives pages back only after the TLB was flushed. *)
THEOREM FlushCorrect == Spec => []FlushedBeforeRelease
<1>1. IInv => FlushedBeforeRelease BY DEF IInv, UseInv
<1>2. QED BY Invariance, <1>1, PTL

(* No step changes what the addresses of a BO with a handle translate to. *)
THEOREM StableCorrect == Spec => TranslationStable
<1>1. ASSUME IInv, IInv', Next, NEW c \in Clients,
             NEW b \in handles[c] \cap handles'[c]
      PROVE  /\ node'[b] = node[b]
             /\ \A i \in 0 .. (npages[b] - 1) :
                  iommu'[node[b] + i] = [bo |-> b, idx |-> i]
  <2> USE NoneAssumption
  <2>1. \A d \in Clients : cur[d] # b
    BY <1>1 DEF IInv, OwnerInv
  <2>2. b \in Bos /\ npages[b] # 0
    BY <1>1 DEF IInv, OwnerInv, TypeOK
  <2>3. node'[b] = node[b] /\ npages'[b] = npages[b]
    <3>1. ASSUME NEW d \in Clients, LockFreeStep(d)
          PROVE  node'[b] = node[b] /\ npages'[b] = npages[b]
      BY <1>1, <2>1, <2>2, <3>1 DEF IInv, TypeOK, LockFreeStep, MapInsert,
         MapNoSpace, MapPage, MapPageFail, MapDone, HandleCreate, HandleFail,
         UnmapPage, UnmapDone, Release
    <3>2. ASSUME NEW d \in Clients, Call(d)
          PROVE  node'[b] = node[b] /\ npages'[b] = npages[b]
      BY <1>1, <2>2, <3>2 DEF IInv, TypeOK, Call, BoInit, BoFree,
         BoLookupNoPut, Mmap, Munmap, MunmapDangling, GemClose
    <3>3. ASSUME NEW d \in Clients, LockStep(d) \/ MmAllocFail(d) \/ Close(d)
          PROVE  node'[b] = node[b] /\ npages'[b] = npages[b]
      BY <3>3 DEF LockStep, MapLock, UnmapLock, Flush, MmAllocFail, Close
    <3>4. QED BY <1>1, <3>1, <3>2, <3>3 DEF Next, RuntimeSuspend
  <2>4. \A d \in Clients : cur'[d] # b
    BY <1>1 DEF IInv, OwnerInv
  <2>5. \A i \in Nat : Reached(b, i)'
    BY <2>4 DEF Reached
  <2>6. \A i \in Nat : i < npages'[b] =>
          iommu'[node'[b] + i] = [bo |-> b, idx |-> i]
    BY <1>1, <2>2, <2>5 DEF IInv, NodeInv, PteInv, PageOK
  <2>7. npages[b] \in Nat
    BY <1>1, <2>2 DEF IInv, TypeOK
  <2>8. QED BY <2>3, <2>6, <2>7
<1>2. ASSUME IInv, IInv', [Next]_vars
      PROVE [\A c \in Clients : \A b \in handles[c] \cap handles'[c] :
               /\ node'[b] = node[b]
               /\ \A i \in 0 .. (npages[b] - 1) :
                    iommu'[node[b] + i] = [bo |-> b, idx |-> i]]_vars
  BY <1>1, <1>2
<1>3. QED BY Invariance, <1>2, PTL DEF Spec, TranslationStable

-----------------------------------------------------------------------------
(* The loop on b, if there is one, has mapped all of it or unmapped none. *)
AllReached(b) ==
  \A c \in Clients : cur[c] = b =>
    /\ pc[c] = "map_page" => idx[c] = npages[b]
    /\ pc[c] = "unmap_page" => idx[c] = 0

(* A BO occupies its addresses exactly when it has a node and no loop is   *)
(* in the middle of it.                                                    *)
LEMMA FullIff ==
  IInv => \A b \in Bos : FullyMapped(b) <=> node[b] # None /\ AllReached(b)
<1> SUFFICES ASSUME IInv, NEW b \in Bos
             PROVE  FullyMapped(b) <=> node[b] # None /\ AllReached(b)
  OBVIOUS
<1> USE BoundsAssumption, NoneAssumption
<1>1. npages[b] \in Nat /\ (node[b] # None => node[b] \in Nat /\ node[b] < MmEnd)
  BY DEF IInv, TypeOK, MmEnd, MaxIova
<1>2. ASSUME FullyMapped(b) PROVE AllReached(b)
  <2>1. \A i \in 0 .. (npages[b] - 1) : PageIova(b, i) \in Addrs
    BY <1>1, <1>2 DEF FullyMapped, PageIova, Addrs, MmEnd, MaxIova
  <2>2. ASSUME NEW i \in 0 .. (npages[b] - 1) PROVE Reached(b, i)
    <3>1. iommu[PageIova(b, i)] = [bo |-> b, idx |-> i]
      BY <1>2, <2>2 DEF FullyMapped
    <3>2. [bo |-> b, idx |-> i] \in [bo : Bos, idx : Nat]
      BY <1>1
    <3>3. iommu[PageIova(b, i)] # None /\ iommu[PageIova(b, i)].bo = b
          /\ iommu[PageIova(b, i)].idx = i
      BY <3>1, <3>2
    <3>4. PteOK(PageIova(b, i))
      BY <2>1 DEF IInv, PteInv
    <3>5. QED BY <3>3, <3>4 DEF PteOK
  <2>3. 0 \in 0 .. (npages[b] - 1) /\ npages[b] - 1 \in 0 .. (npages[b] - 1)
    BY <1>1, <1>2 DEF FullyMapped
  <2>4. Reached(b, 0) /\ Reached(b, npages[b] - 1)
    BY <2>2, <2>3
  <2>5. \A c \in Clients : idx[c] \in Nat /\ (cur[c] = b =>
          (pc[c] = "map_page" => idx[c] <= npages[b]))
    BY DEF IInv, TypeOK, OwnerInv
  <2>6. QED BY <1>1, <2>4, <2>5 DEF Reached, AllReached
<1>3. ASSUME node[b] # None, AllReached(b) PROVE FullyMapped(b)
  <2>1. \A i \in 0 .. (npages[b] - 1) : Reached(b, i)
    BY <1>1, <1>3 DEF IInv, TypeOK, Reached, AllReached
  <2>2. \A i \in 0 .. (npages[b] - 1) : iommu[node[b] + i] = [bo |-> b, idx |-> i]
    BY <1>1, <1>3, <2>1 DEF IInv, PteInv, PageOK
  <2>3. npages[b] # 0
    BY <1>3 DEF IInv, NodeInv
  <2>4. \A i \in 0 .. (npages[b] - 1) : PageIova(b, i) = node[b] + i
    <3>1. ASSUME NEW i \in 0 .. (npages[b] - 1) PROVE PageIova(b, i) = node[b] + i
      <4>1. i \in Nat /\ i < npages[b]
        BY <1>1
      <4>2. PageOK(b, i) /\ Reached(b, i)
        BY <2>1, <4>1 DEF IInv, PteInv
      <4>3. i < WrapPages
        BY <1>3, <4>1, <4>2 DEF PageOK
      <4>4. QED BY <4>1, <4>3, ModFacts DEF PageIova
    <3>2. QED BY <3>1
  <2>5. QED BY <1>3, <2>2, <2>3, <2>4 DEF FullyMapped
<1>4. QED BY <1>2, <1>3 DEF FullyMapped

(* The same in the next state. *)
LEMMA FullIffNext ==
  IInv' => \A b \in Bos :
             FullyMapped(b)' <=> node'[b] # None /\ AllReached(b)'
<1>1. (IInv => \A b \in Bos :
                 FullyMapped(b) <=> node[b] # None /\ AllReached(b))'
  BY FullIff, PTL
<1>2. QED BY <1>1

(* Such a BO is inside the address space and apart from every other. *)
Apart(b) ==
  /\ IovasOf(b) # {}
  /\ IovasOf(b) \subseteq VmBase .. (MmEnd - 1)
  /\ \A o \in Bos \ {b} : IovasOf(o) \cap IovasOf(b) = {}

(* The invariant says so of every BO that occupies its addresses. *)
LEMMA FullApart == IInv => \A b \in Bos : FullyMapped(b) => Apart(b)
<1> SUFFICES ASSUME IInv, NEW b \in Bos, FullyMapped(b) PROVE Apart(b)
  OBVIOUS
<1> USE BoundsAssumption, NoneAssumption
<1>1. ASSUME NEW o \in Bos, FullyMapped(o)
      PROVE  /\ npages[o] \in Nat \ {0} /\ node[o] \in Nat /\ node[o] >= VmBase
             /\ node[o] # None
             /\ npages[o] < WrapPages /\ NodePages(npages[o]) = npages[o]
  <2>1. /\ npages[o] \in Nat \ {0} /\ node[o] \in Nat /\ node[o] >= VmBase
        /\ node[o] # None /\ AllReached(o)
    BY <1>1, FullIff DEF IInv, TypeOK, FullyMapped
  <2>2. npages[o] - 1 \in Nat /\ npages[o] - 1 < npages[o]
    BY <2>1
  <2>3. Reached(o, npages[o] - 1)
    BY <2>1 DEF Reached, AllReached, IInv, TypeOK
  <2>4. npages[o] <= WrapPages
    <3>1. PageOK(o, npages[o] - 1)
      BY <2>2 DEF IInv, PteInv
    <3>2. npages[o] - 1 < WrapPages
      BY <2>1, <2>2, <2>3, <3>1 DEF PageOK
    <3>3. QED BY <2>1, <3>2
  <2>5. npages[o] # WrapPages
    BY <2>1, ModFacts DEF IInv, NodeInv, NodePages
  <2>6. QED BY <2>1, <2>4, <2>5, ModFacts DEF NodePages
<1>2. IovasOf(b) = node[b] .. (node[b] + npages[b] - 1)
  BY DEF IovasOf
<1>3. IovasOf(b) # {} /\ IovasOf(b) \subseteq VmBase .. (MmEnd - 1)
  <2>1. node[b] + npages[b] <= MmEnd /\ MmEnd \in Nat
    BY <1>1 DEF IInv, NodeInv, MmEnd, MaxIova
  <2>2. QED BY <1>1, <1>2, <2>1
<1>4. ASSUME NEW o \in Bos \ {b} PROVE IovasOf(o) \cap IovasOf(b) = {}
  <2>1. CASE FullyMapped(o)
    BY <1>1, <1>2, <2>1 DEF IInv, NodeInv, IovasOf
  <2>2. CASE ~ FullyMapped(o)
    BY <2>2 DEF IovasOf
  <2>3. QED BY <2>1, <2>2
<1>5. QED BY <1>3, <1>4 DEF Apart

(* A BO whose node and pages do not change and whose loop stays on the     *)
(* same side keeps its addresses.                                          *)
LEMMA KeepsIovas ==
  ASSUME IInv, IInv', NEW b \in Bos,
         \/ /\ node'[b] = node[b] /\ npages'[b] = npages[b]
            /\ AllReached(b)' <=> AllReached(b)
         \/ /\ node[b] = None \/ ~ AllReached(b)
            /\ node'[b] = None \/ ~ AllReached(b)'
  PROVE  IovasOf(b)' = IovasOf(b)
<1>1. FullyMapped(b) <=> node[b] # None /\ AllReached(b)
  BY FullIff
<1>2. FullyMapped(b)' <=> node'[b] # None /\ AllReached(b)'
  BY FullIffNext
<1>3. QED BY <1>1, <1>2 DEF IovasOf

(* A step of the driver grants addresses to one BO, takes them back from   *)
(* one BO, or leaves all of them alone.                                    *)
LEMMA StepRefines ==
  ASSUME IInv, IInv', Next
  PROVE  \/ \A b \in Bos : IovasOf(b)' = IovasOf(b)
         \/ \E o \in Bos :
              /\ \A b \in Bos \ {o} : IovasOf(b)' = IovasOf(b)
              /\ \/ ~ FullyMapped(o) /\ FullyMapped(o)'
                 \/ FullyMapped(o) /\ ~ FullyMapped(o)'
<1> DEFINE Keeps(b) ==
      \/ /\ node'[b] = node[b] /\ npages'[b] = npages[b]
         /\ AllReached(b)' <=> AllReached(b)
      \/ /\ node[b] = None \/ ~ AllReached(b)
         /\ node'[b] = None \/ ~ AllReached(b)'
<1> USE BoundsAssumption, NoneAssumption
<1>1. ASSUME NEW o \in Bos, \A b \in Bos \ {o} : Keeps(b) PROVE
      \/ \A b \in Bos : IovasOf(b)' = IovasOf(b)
      \/ /\ \A b \in Bos \ {o} : IovasOf(b)' = IovasOf(b)
         /\ \/ ~ FullyMapped(o) /\ FullyMapped(o)'
            \/ FullyMapped(o) /\ ~ FullyMapped(o)'
      \/ FullyMapped(o) /\ FullyMapped(o)'
  <2>1. \A b \in Bos \ {o} : IovasOf(b)' = IovasOf(b)
    BY <1>1, KeepsIovas
  <2>2. ~ FullyMapped(o) /\ ~ FullyMapped(o)' => IovasOf(o)' = IovasOf(o)
    BY DEF IovasOf
  <2>3. QED BY <2>1, <2>2
<1>2. ASSUME \A b \in Bos : Keeps(b)
      PROVE  \A b \in Bos : IovasOf(b)' = IovasOf(b)
  BY <1>2, KeepsIovas
<1>3. ASSUME NEW c \in Clients, MapPage(c) \/ UnmapPage(c)
      PROVE  /\ cur[c] \in Bos
             /\ \A b \in Bos \ {cur[c]} : Keeps(b)
             /\ ~ (FullyMapped(cur[c]) /\ FullyMapped(cur[c])')
  <2>1. cur[c] \in Bos /\ idx[c] \in Nat /\ npages[cur[c]] \in Nat
    BY <1>3 DEF IInv, TypeOK, OwnerInv, MapPage, UnmapPage, Goto
  <2>2. \A b \in Bos \ {cur[c]} : Keeps(b)
    BY <1>3, <2>1 DEF IInv, TypeOK, MapPage, UnmapPage, Goto, AllReached
  <2>3. MapPage(c) => ~ AllReached(cur[c])
    BY <2>1 DEF MapPage, Goto, AllReached
  <2>4. UnmapPage(c) => ~ AllReached(cur[c])'
    BY <2>1 DEF IInv, TypeOK, UnmapPage, Goto, AllReached
  <2>5. UnmapPage(c) => cur' = cur
    BY DEF UnmapPage
  <2>6. ~ AllReached(cur[c]) => ~ FullyMapped(cur[c])
    BY <2>1, FullIff
  <2>7. UnmapPage(c) => ~ FullyMapped(cur[c])'
    BY <2>1, <2>4, <2>5, FullIffNext
  <2>8. QED BY <1>3, <2>1, <2>2, <2>3, <2>6, <2>7
<1>4. ASSUME NEW c \in Clients, MapInsert(c) \/ MapPageFail(c) \/ UnmapDone(c)
      PROVE  \A b \in Bos : Keeps(b)
  <2>1. /\ cur[c] \in Bos /\ npages[cur[c]] \in Nat \ {0} /\ idx[c] \in Nat
        /\ \A d \in Clients : cur[d] = cur[c] => d = c
    BY <1>4 DEF IInv, TypeOK, OwnerInv, MapInsert, MapPageFail, UnmapDone, Goto
  <2>2. \A b \in Bos \ {cur[c]} : Keeps(b)
    BY <1>4, <2>1
    DEF IInv, TypeOK, MapInsert, MapPageFail, UnmapDone, Goto, AllReached
  <2>3. MapInsert(c) => node[cur[c]] = None /\ ~ AllReached(cur[c])'
    BY <2>1 DEF IInv, TypeOK, OwnerInv, NodeInv, HasNode, MapInsert, Goto,
       AllReached
  <2>4. MapPageFail(c) => ~ AllReached(cur[c]) /\ node'[cur[c]] = None
    BY <2>1 DEF IInv, TypeOK, MapPageFail, Goto, AllReached
  <2>5. UnmapDone(c) => ~ AllReached(cur[c]) /\ node'[cur[c]] = None
    BY <2>1 DEF IInv, TypeOK, UnmapDone, Goto, AllReached
  <2>6. cur' = cur
    BY <1>4 DEF MapInsert, MapPageFail, UnmapDone
  <2>7. ASSUME NEW o \in Bos, o = cur[c] PROVE Keeps(o)
    BY <1>4, <2>3, <2>4, <2>5, <2>6, <2>7
  <2>8. QED BY <2>2, <2>7
<1>5. ASSUME NEW c \in Clients, NEW o \in Bos, NEW n \in 1 .. MaxPages,
             BoInit(c, o, n)
      PROVE  \A b \in Bos : Keeps(b)
  <2>1. node[o] = None /\ node' = node
    BY <1>5 DEF IInv, NodeInv, BoInit
  <2>2. \A b \in Bos \ {o} : npages'[b] = npages[b]
    BY <1>5 DEF IInv, TypeOK, BoInit
  <2>3. \A b \in Bos \ {o} : AllReached(b)' <=> AllReached(b)
    BY <1>5, <2>2 DEF IInv, TypeOK, OwnerInv, BoInit, Goto, AllReached
  <2>4. QED BY <2>1, <2>2, <2>3
<1>6. ASSUME NEW c \in Clients, Release(c)
      PROVE  \A b \in Bos : Keeps(b)
  <2>1. /\ cur[c] \in Bos /\ node[cur[c]] = None /\ node' = node
        /\ pc[c] \in {"release", "put_pages"}
    BY <1>6 DEF IInv, TypeOK, OwnerInv, NodeInv, HasNode, Release, Goto
  <2>2. \A b \in Bos \ {cur[c]} : npages'[b] = npages[b]
    BY <1>6 DEF IInv, TypeOK, Release
  <2>3. \A b \in Bos \ {cur[c]} : AllReached(b)' <=> AllReached(b)
    BY <1>6, <2>1, <2>2 DEF IInv, TypeOK, Release, Goto, AllReached
  <2>4. QED BY <2>1, <2>2, <2>3
<1>7. ASSUME NEW c \in Clients, MapDone(c) \/ UnmapLock(c)
      PROVE  \A b \in Bos : Keeps(b)
  <2>1. node' = node /\ npages' = npages /\ cur' = cur
    BY <1>7 DEF MapDone, UnmapLock
  <2>2. \A b \in Bos : AllReached(b)' <=> AllReached(b)
    BY <1>7, <2>1 DEF IInv, TypeOK, OwnerInv, MapDone, UnmapLock, Goto,
       AllReached
  <2>3. QED BY <2>1, <2>2
<1>8. ASSUME NEW c \in Clients, NEW o \in Bos,
             \/ MmAllocFail(c) \/ MapLock(c) \/ MapNoSpace(c) \/ Flush(c)
             \/ HandleCreate(c) \/ HandleFail(c) \/ BoFree(c, o)
      PROVE  \A b \in Bos : Keeps(b)
  <2>1. node' = node /\ npages' = npages /\ idx' = idx
    BY <1>8 DEF MmAllocFail, MapLock, MapNoSpace, Flush, HandleCreate,
                HandleFail, BoFree
  <2>2. /\ pc[c] \notin {"map_page", "unmap_page"}
        /\ pc'[c] \notin {"map_page", "unmap_page"}
        /\ \A d \in Clients \ {c} : pc'[d] = pc[d] /\ cur'[d] = cur[d]
    BY <1>8 DEF IInv, TypeOK, MmAllocFail, MapLock, MapNoSpace, Flush,
                HandleCreate, HandleFail, BoFree, Goto
  <2>3. \A b \in Bos : AllReached(b)' <=> AllReached(b)
    BY <2>1, <2>2 DEF AllReached
  <2>4. QED BY <2>1, <2>3
<1>9. ASSUME NEW c \in Clients, NEW o \in Bos,
             \/ BoLookupNoPut(c, o) \/ Mmap(c, o) \/ Munmap(c, o)
             \/ MunmapDangling(c, o) \/ GemClose(c, o)
             \/ Close(c) \/ RuntimeSuspend
      PROVE  \A b \in Bos : Keeps(b)
  BY <1>9 DEF BoLookupNoPut, Mmap, Munmap, MunmapDangling, GemClose, Close,
     RuntimeSuspend, AllReached
<1>10. CASE \E c \in Clients : MapPage(c) \/ UnmapPage(c)
  <2>1. PICK c \in Clients : MapPage(c) \/ UnmapPage(c)
    BY <1>10
  <2>2. /\ cur[c] \in Bos
        /\ \A b \in Bos \ {cur[c]} : Keeps(b)
        /\ ~ (FullyMapped(cur[c]) /\ FullyMapped(cur[c])')
        /\ cur' = cur
    BY <1>3, <2>1 DEF MapPage, UnmapPage
  <2>3. PICK o \in Bos : o = cur[c]
    BY <2>2
  <2>4. ~ (FullyMapped(o) /\ FullyMapped(o)')
    BY <2>2, <2>3
  <2>5. QED BY <1>1, <2>2, <2>3, <2>4
<1>11. CASE ~ \E c \in Clients : MapPage(c) \/ UnmapPage(c)
  <2>1. CASE Bos = {}
    BY <2>1
  <2>2. CASE Bos # {} /\ Clients # {}
    <3>1. \A b \in Bos : Keeps(b)
      BY <1>4, <1>5, <1>6, <1>7, <1>8, <1>9, <1>11, <2>2
      DEF Next, LockFreeStep, LockStep, Call
    <3>2. QED BY <1>2, <3>1
  <2>3. CASE Clients = {}
    BY <1>2, <2>3 DEF Next, RuntimeSuspend, AllReached
  <2>4. QED BY <2>1, <2>2, <2>3
<1>12. QED BY <1>10, <1>11

(* A BO that occupies its addresses is Apart in the next state too. *)
LEMMA FullApartNext ==
  IInv' => \A b \in Bos : FullyMapped(b)' => Apart(b)'
<1>1. (IInv => \A b \in Bos : FullyMapped(b) => Apart(b))'
  BY FullApart, PTL
<1>2. QED BY <1>1

(* The driver implements IovaSpace: addresses are granted to one BO at a   *)
(* time, disjoint from all others, and taken back as a whole, in every     *)
(* interleaving and on every error path of BO_INIT and BO_FREE.            *)
THEOREM Refinement == Spec => ImplementsIovaSpace
<1> DEFINE G == [b \in Bos |-> IovasOf(b)]
<1>1. Init => Shared!Init
  BY DEF Init, Shared!Init, IovasOf, FullyMapped
<1>2. ASSUME IInv, IInv', Next
      PROVE  Shared!Next \/ UNCHANGED G
  <2>1. CASE \A b \in Bos : IovasOf(b)' = IovasOf(b)
    BY <2>1
  <2>2. ASSUME NEW o \in Bos, \A b \in Bos \ {o} : IovasOf(b)' = IovasOf(b),
               ~ FullyMapped(o), FullyMapped(o)'
        PROVE  Shared!Next
    <3>1. IovasOf(o) = {} /\ Apart(o)'
      BY <1>2, <2>2, FullApartNext DEF IovasOf
    <3>2. IovasOf(o)' \in SUBSET (VmBase .. (MmEnd - 1))
      BY <3>1 DEF Apart
    <3>3. \A b \in Bos : IovasOf(b) \cap IovasOf(o)' = {}
      BY <2>2, <3>1 DEF Apart
    <3>4. G' = [G EXCEPT ![o] = IovasOf(o)']
      BY <2>2
    <3>5. Shared!Grant(o, IovasOf(o)')
      BY <3>1, <3>3, <3>4 DEF Shared!Grant, Apart
    <3>6. QED BY <3>2, <3>5 DEF Shared!Next
  <2>3. ASSUME NEW o \in Bos, \A b \in Bos \ {o} : IovasOf(b)' = IovasOf(b),
               FullyMapped(o), ~ FullyMapped(o)'
        PROVE  Shared!Next
    <3>1. IovasOf(o) # {} /\ IovasOf(o)' = {}
      BY <1>2, <2>3, FullApart DEF IovasOf, Apart
    <3>2. G' = [G EXCEPT ![o] = {}]
      BY <2>3, <3>1
    <3>3. Shared!Revoke(o)
      BY <3>1, <3>2 DEF Shared!Revoke
    <3>4. QED BY <3>3 DEF Shared!Next
  <2>4. QED BY <1>2, StepRefines, <2>1, <2>2, <2>3
<1>3. UNCHANGED vars => UNCHANGED G
  BY DEF vars, IovasOf, FullyMapped, PageIova
<1>4. IInv /\ IInv' /\ [Next]_vars => [Shared!Next]_G
  BY <1>2, <1>3
<1>5. QED
  BY Invariance, <1>1, <1>4, PTL DEF Spec, ImplementsIovaSpace, Shared!Spec
=============================================================================
