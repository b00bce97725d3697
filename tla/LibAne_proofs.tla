--------------------------- MODULE LibAne_proofs ---------------------------
(***************************************************************************)
(* Proofs about LibAne for any number of nodes and devices, any TILE_SIZE  *)
(* and word width, and any contents of the model file.  LibInv says, for   *)
(* every place in __ane_init and __ane_free, what is open, which device it *)
(* is, and who holds the bootstrap channel.                                *)
(***************************************************************************)
EXTENDS LibAne, FiniteSetTheorems, TLAPS

(* The ane nodes that device_open meets before node n. *)
AneNodes(n) == {i \in 0 .. (n - 1) : kind[i] = "ane"}

(* nn->fd is valid. *)
HasDevice == {"chan", "mmap", "ready", "chan_free", "bo_free",
              "device_close"}

(* device_open has counted the ane nodes before the one it looks at, if no *)
(* call failed.                                                            *)
ScanInv ==
  /\ found <= node
  /\ pc \in {"model", "scan", "check"} \cup HasDevice /\ ~ missed =>
       found = Cardinality(AneNodes(node))
  /\ pc \in {"check"} \cup HasDevice => node < Nodes

(* It closes each node that it does not keep, and keeps the one it wants. *)
FdInv ==
  /\ pc \notin {"check"} \cup HasDevice => fds = {}
  /\ pc \in {"check"} \cup HasDevice => fds = {node}
  /\ pc \notin HasDevice => fd = None
  /\ pc \in HasDevice => fd = node /\ dev = found /\ kind[node] = "ane"

(* Past ane_model_init the file is open and its td_size is not zero. *)
ModelInv ==
  /\ pc \in {"idle", "model"} => ~ model.hwx
  /\ pc \notin {"idle", "model"} => model.td > 0

(* The driver has the BO as long as btsp_chan has its handle, and longer   *)
(* only if it refused to free it.                                          *)
BtspInv ==
  /\ btsp.handle => bo
  /\ bo => btsp.handle \/ refused
  /\ bo => pc \in {"mmap", "ready", "chan_free", "bo_free", "device_close"}
  /\ btsp.handle => pc \in {"mmap", "ready", "chan_free", "bo_free"}
  /\ btsp.map => pc \in {"ready", "chan_free"}
  /\ pc \in {"mmap", "ready"} =>
       btsp.handle /\ btsp.size = TileAlign(model.td)
  /\ pc = "ready" =>
       btsp.map /\ btsp.copied <= model.td /\ btsp.copied <= model.text

LibInv == TypeOK /\ ScanInv /\ FdInv /\ ModelInv /\ BtspInv

-----------------------------------------------------------------------------
(* Min of two numbers is one of them and the smaller. *)
LEMMA MinPair ==
  ASSUME NEW a \in Int, NEW b \in Int
  PROVE  Min({a, b}) = IF a <= b THEN a ELSE b
<1>1. CASE a <= b
  <2>1. \A x \in {a, b} : (\A y \in {a, b} : x <= y) => x = a BY <1>1
  <2>2. \A y \in {a, b} : a <= y BY <1>1
  <2>3. QED BY <1>1, <2>1, <2>2 DEF Min
<1>2. CASE ~ a <= b
  <2>1. \A x \in {a, b} : (\A y \in {a, b} : x <= y) => x = b BY <1>2
  <2>2. \A y \in {a, b} : b <= y BY <1>2
  <2>3. QED BY <1>2, <2>1, <2>2 DEF Min
<1>3. QED BY <1>1, <1>2

(* tile_align rounds up. *)
LEMMA TileAlignUp ==
  ASSUME NEW x \in Nat
  PROVE  TileAlign(x) \in Nat /\ x <= TileAlign(x)
<1> DEFINE t == TileSize
           y == x + t - 1
<1>1. t \in Nat /\ t > 0 BY LibAssumption
<1>2. y \in Nat BY <1>1
<1> HIDE DEF t
<1>3. y \div t \in Nat BY <1>1, <1>2
<1>4. y < (y \div t) * t + t BY <1>1, <1>2, <1>3
<1>5. (y \div t) * t \in Nat BY <1>1, <1>3
<1>6. x <= (y \div t) * t
  BY <1>1, <1>3, <1>4
<1>7. TileAlign(x) = (y \div t) * t BY DEF TileAlign, t
<1>8. QED BY <1>5, <1>6, <1>7

(* Node n adds one to the count if it is an ane node. *)
LEMMA AneNodesStep ==
  ASSUME NEW n \in Nat
  PROVE  /\ IsFiniteSet(AneNodes(n))
         /\ Cardinality(AneNodes(n)) \in 0 .. n
         /\ Cardinality(AneNodes(n + 1)) =
              Cardinality(AneNodes(n)) + (IF kind[n] = "ane" THEN 1 ELSE 0)
<1>1. IsFiniteSet(0 .. (n - 1)) /\ Cardinality(0 .. (n - 1)) = n
  <2>1. CASE n = 0
    BY <2>1, FS_EmptySet, 0 .. (0 - 1) = {}
  <2>2. CASE n > 0
    BY <2>2, FS_Interval
  <2>3. QED BY <2>1, <2>2
<1>2. AneNodes(n) \subseteq 0 .. (n - 1) BY DEF AneNodes
<1>3. IsFiniteSet(AneNodes(n)) /\ Cardinality(AneNodes(n)) <= n
  BY <1>1, <1>2, FS_Subset
<1>4. Cardinality(AneNodes(n)) \in Nat BY <1>3, FS_CardinalityType
<1>5. n \notin AneNodes(n) BY DEF AneNodes
<1>6. CASE kind[n] = "ane"
  <2>1. AneNodes(n + 1) = AneNodes(n) \cup {n} BY <1>6 DEF AneNodes
  <2>2. QED BY <1>3, <1>4, <1>5, <1>6, <2>1, FS_AddElement
<1>7. CASE kind[n] # "ane"
  <2>1. AneNodes(n + 1) = AneNodes(n) BY <1>7 DEF AneNodes
  <2>2. QED BY <1>3, <1>4, <1>7, <2>1
<1>8. QED BY <1>6, <1>7

(* Every step, failing or not, and every call of the network keeps it.     *)
LEMMA LibStepInv == ASSUME LibInv, [Next]_vars PROVE LibInv'
<1> USE LibAssumption DEF LibInv, scan
<1>1. ASSUME NEW d \in None .. MaxDevices, AneInit(d) PROVE LibInv'
  <2>1. AneNodes(node)' = {} BY <1>1 DEF AneNodes, AneInit
  <2>2. Cardinality(AneNodes(node)') = 0 BY <2>1, FS_EmptySet
  <2>3. missed' \in BOOLEAN BY <1>1 DEF AneInit
  <2>4. TypeOK' BY <1>1, <2>3 DEF TypeOK, None, AneInit
  <2>5. ScanInv' BY <1>1, <2>2 DEF TypeOK, ScanInv, HasDevice, AneInit
  <2>6. FdInv' BY <1>1 DEF TypeOK, FdInv, HasDevice, AneInit
  <2>7. ModelInv' BY <1>1 DEF TypeOK, ModelInv, AneInit
  <2>8. BtspInv' BY <1>1 DEF TypeOK, BtspInv, TileAlign, AneInit
  <2>9. QED BY <2>4, <2>5, <2>6, <2>7, <2>8
<1>2. CASE ModelFail
  <2>1. TypeOK' BY <1>2 DEF TypeOK, None, ModelFail
  <2>2. ScanInv' BY <1>2 DEF TypeOK, ScanInv, HasDevice, AneNodes, ModelFail
  <2>3. FdInv' BY <1>2 DEF TypeOK, FdInv, HasDevice, ModelFail
  <2>4. ModelInv' BY <1>2 DEF TypeOK, ModelInv, ModelFail
  <2>5. BtspInv' BY <1>2 DEF TypeOK, BtspInv, TileAlign, ModelFail
  <2>6. QED BY <2>1, <2>2, <2>3, <2>4, <2>5
<1>3. ASSUME NEW w \in SegWords, NEW t \in TextSizes, ModelInit(w, t)
      PROVE  LibInv'
  <2>1. TdSize(w) \in 0 .. (U32 - 1)
    BY DEF TdSize
  <2>2. TypeOK' BY <1>3, <2>1 DEF TypeOK, None, ModelInit
  <2>3. ScanInv' BY <1>3 DEF TypeOK, ScanInv, HasDevice, AneNodes, ModelInit
  <2>4. FdInv' BY <1>3 DEF TypeOK, FdInv, HasDevice, ModelInit
  <2>5. ModelInv' BY <1>3, <2>1 DEF TypeOK, ModelInv, ModelInit
  <2>6. BtspInv' BY <1>3, <2>1 DEF TypeOK, BtspInv, TileAlign, ModelInit
  <2>7. QED BY <2>2, <2>3, <2>4, <2>5, <2>6
<1>4. CASE ScanOpen
  <2>1. TypeOK' BY <1>4 DEF TypeOK, None, ScanInv, FdInv, HasDevice, ScanOpen
  <2>2. ScanInv' BY <1>4 DEF TypeOK, ScanInv, HasDevice, AneNodes, ScanOpen
  <2>3. FdInv' BY <1>4 DEF TypeOK, FdInv, HasDevice, ScanOpen
  <2>4. ModelInv' BY <1>4 DEF TypeOK, ModelInv, ScanOpen
  <2>5. BtspInv' BY <1>4 DEF TypeOK, BtspInv, TileAlign, ScanOpen
  <2>6. QED BY <2>1, <2>2, <2>3, <2>4, <2>5
<1>5. CASE ScanSkip
  <2>1. node \in Nat /\ node < Nodes
    BY <1>5 DEF TypeOK, ScanInv, ScanSkip, NextNode
  <2>2. /\ Cardinality(AneNodes(node)) \in 0 .. node
        /\ Cardinality(AneNodes(node + 1)) =
             Cardinality(AneNodes(node)) + (IF kind[node] = "ane" THEN 1 ELSE 0)
    BY <2>1, AneNodesStep
  <2>3. AneNodes(node)' = AneNodes(node + 1)
    BY <1>5 DEF AneNodes, ScanSkip, NextNode
  <2>4. /\ missed' \in BOOLEAN
        /\ ~ missed' => ~ missed /\ kind[node] # "ane"
    BY <1>5, Zenon DEF TypeOK, ScanSkip, NextNode
  <2>5. /\ pc' = "scan" /\ node' = node + 1 /\ found' = found + 0
        /\ found \in Nat /\ pc \in {"scan", "check"}
    BY <1>5 DEF TypeOK, ScanSkip, NextNode
  <2>6. TypeOK'
    BY <1>5, <2>1, <2>4 DEF TypeOK, None, ScanInv, FdInv, HasDevice,
       ScanSkip, NextNode
  <2>7. ScanInv' BY <2>1, <2>2, <2>3, <2>4, <2>5 DEF ScanInv, HasDevice
  <2>8. FdInv' BY <1>5 DEF TypeOK, FdInv, HasDevice, ScanSkip, NextNode
  <2>9. ModelInv' BY <1>5 DEF TypeOK, ModelInv, ScanSkip, NextNode
  <2>10. BtspInv' BY <1>5 DEF TypeOK, BtspInv, TileAlign, ScanSkip, NextNode
  <2>11. QED BY <2>6, <2>7, <2>8, <2>9, <2>10
<1>6. CASE ScanEnd
  <2>1. TypeOK' BY <1>6 DEF TypeOK, None, ScanEnd
  <2>2. ScanInv' BY <1>6 DEF TypeOK, ScanInv, HasDevice, AneNodes, ScanEnd
  <2>3. FdInv' BY <1>6 DEF TypeOK, FdInv, HasDevice, ScanEnd
  <2>4. ModelInv' BY <1>6 DEF TypeOK, ModelInv, ScanEnd
  <2>5. BtspInv' BY <1>6 DEF TypeOK, BtspInv, TileAlign, ScanEnd
  <2>6. QED BY <2>1, <2>2, <2>3, <2>4, <2>5
<1>7. CASE CheckFail
  <2>1. node \in Nat /\ node < Nodes
    BY <1>7 DEF TypeOK, ScanInv, CheckFail, NextNode
  <2>2. /\ Cardinality(AneNodes(node)) \in 0 .. node
        /\ Cardinality(AneNodes(node + 1)) =
             Cardinality(AneNodes(node)) + (IF kind[node] = "ane" THEN 1 ELSE 0)
    BY <2>1, AneNodesStep
  <2>3. AneNodes(node)' = AneNodes(node + 1)
    BY <1>7 DEF AneNodes, CheckFail, NextNode
  <2>4. /\ missed' \in BOOLEAN
        /\ ~ missed' => ~ missed /\ kind[node] # "ane"
    BY <1>7, Zenon DEF TypeOK, CheckFail, NextNode
  <2>5. /\ pc' = "scan" /\ node' = node + 1 /\ found' = found + 0
        /\ found \in Nat /\ pc \in {"scan", "check"}
    BY <1>7 DEF TypeOK, CheckFail, NextNode
  <2>6. TypeOK'
    BY <1>7, <2>1, <2>4 DEF TypeOK, None, ScanInv, FdInv, HasDevice,
       CheckFail, NextNode
  <2>7. ScanInv' BY <2>1, <2>2, <2>3, <2>4, <2>5 DEF ScanInv, HasDevice
  <2>8. FdInv' BY <1>7 DEF TypeOK, FdInv, HasDevice, CheckFail, NextNode
  <2>9. ModelInv' BY <1>7 DEF TypeOK, ModelInv, CheckFail, NextNode
  <2>10. BtspInv' BY <1>7 DEF TypeOK, BtspInv, TileAlign, CheckFail, NextNode
  <2>11. QED BY <2>6, <2>7, <2>8, <2>9, <2>10
<1>8. CASE CheckNext
  <2>1. node \in Nat /\ node < Nodes
    BY <1>8 DEF TypeOK, ScanInv, CheckNext, NextNode, IsAneDevice
  <2>2. /\ Cardinality(AneNodes(node)) \in 0 .. node
        /\ Cardinality(AneNodes(node + 1)) =
             Cardinality(AneNodes(node)) + (IF kind[node] = "ane" THEN 1 ELSE 0)
    BY <2>1, AneNodesStep
  <2>3. AneNodes(node)' = AneNodes(node + 1)
    BY <1>8 DEF AneNodes, CheckNext, NextNode, IsAneDevice
  <2>4. /\ missed' \in BOOLEAN
        /\ ~ missed' => ~ missed
    BY <1>8, Zenon DEF TypeOK, CheckNext, NextNode, IsAneDevice
  <2>5. /\ pc' = "scan" /\ node' = node + 1 /\ found' = found + 1
        /\ found \in Nat /\ pc \in {"scan", "check"}
    BY <1>8 DEF TypeOK, CheckNext, NextNode, IsAneDevice
  <2>6. TypeOK'
    BY <1>8, <2>1, <2>4 DEF TypeOK, None, ScanInv, FdInv, HasDevice,
       CheckNext, NextNode, IsAneDevice
  <2>7. ScanInv'
    BY <2>1, <2>2, <2>3, <2>4, <2>5, <1>8 DEF ScanInv, HasDevice,
       IsAneDevice, CheckNext
  <2>8. FdInv'
    BY <1>8 DEF TypeOK, FdInv, HasDevice, CheckNext, NextNode, IsAneDevice
  <2>9. ModelInv' BY <1>8 DEF TypeOK, ModelInv, CheckNext, NextNode, IsAneDevice
  <2>10. BtspInv'
    BY <1>8 DEF TypeOK, BtspInv, TileAlign, CheckNext, NextNode, IsAneDevice
  <2>11. QED BY <2>6, <2>7, <2>8, <2>9, <2>10
<1>9. CASE CheckTake
  <2>1. TypeOK'
    BY <1>9 DEF TypeOK, None, ScanInv, FdInv, HasDevice, CheckTake,
       IsAneDevice
  <2>2. ScanInv'
    BY <1>9 DEF TypeOK, ScanInv, HasDevice, AneNodes, CheckTake, IsAneDevice
  <2>3. FdInv' BY <1>9 DEF TypeOK, FdInv, HasDevice, CheckTake, IsAneDevice
  <2>4. ModelInv' BY <1>9 DEF TypeOK, ModelInv, CheckTake, IsAneDevice
  <2>5. BtspInv' BY <1>9 DEF TypeOK, BtspInv, TileAlign, CheckTake, IsAneDevice
  <2>6. QED BY <2>1, <2>2, <2>3, <2>4, <2>5
<1>10. CASE BoInit
  <2>1. model.td \in Nat BY DEF TypeOK
  <2>2. TileAlign(model.td) \in Nat BY <2>1, TileAlignUp
  <2>3. TypeOK' BY <1>10, <2>2 DEF TypeOK, None, BoInit
  <2>4. ScanInv' BY <1>10 DEF TypeOK, ScanInv, HasDevice, AneNodes, BoInit
  <2>5. FdInv' BY <1>10 DEF TypeOK, FdInv, HasDevice, BoInit
  <2>6. ModelInv' BY <1>10 DEF TypeOK, ModelInv, BoInit
  <2>7. BtspInv' BY <1>10 DEF TypeOK, BtspInv, TileAlign, BoInit
  <2>8. QED BY <2>3, <2>4, <2>5, <2>6, <2>7
<1>11. CASE BoInitFail
  <2>1. model.td \in Nat BY DEF TypeOK
  <2>2. TileAlign(model.td) \in Nat BY <2>1, TileAlignUp
  <2>3. TypeOK' BY <1>11, <2>2 DEF TypeOK, None, BoInitFail
  <2>4. ScanInv' BY <1>11 DEF TypeOK, ScanInv, HasDevice, AneNodes, BoInitFail
  <2>5. FdInv' BY <1>11 DEF TypeOK, FdInv, HasDevice, BoInitFail
  <2>6. ModelInv' BY <1>11 DEF TypeOK, ModelInv, BoInitFail
  <2>7. BtspInv' BY <1>11 DEF TypeOK, BtspInv, TileAlign, BoInitFail
  <2>8. QED BY <2>3, <2>4, <2>5, <2>6, <2>7
<1>12. ASSUME NEW ok \in BOOLEAN, BoMmapFail(ok) PROVE LibInv'
  <2>1. /\ bo' \in BOOLEAN /\ refused' \in BOOLEAN
        /\ bo' => bo /\ (refused' \/ ~ btsp.handle)
        /\ refused => refused'
    BY <1>12, Zenon DEF TypeOK, BoMmapFail, BoFree
  <2>2. TypeOK' BY <1>12, <2>1 DEF TypeOK, None, BoMmapFail, BoFree
  <2>3. ScanInv'
    BY <1>12 DEF TypeOK, ScanInv, HasDevice, AneNodes, BoMmapFail, BoFree
  <2>4. FdInv' BY <1>12 DEF TypeOK, FdInv, HasDevice, BoMmapFail, BoFree
  <2>5. ModelInv' BY <1>12 DEF TypeOK, ModelInv, BoMmapFail, BoFree
  <2>6. BtspInv'
    <3>1. btsp' = [btsp EXCEPT !.handle = FALSE] /\ ~ btsp'.handle
      BY <1>12 DEF TypeOK, BoMmapFail, BoFree
    <3>2. QED BY <1>12, <2>1, <3>1 DEF TypeOK, BtspInv, BoMmapFail
  <2>7. QED BY <2>2, <2>3, <2>4, <2>5, <2>6
<1>13. ASSUME NEW ok \in BOOLEAN, BoMmap(ok) PROVE LibInv'
  <2>1. model.td \in Nat /\ model.td > 0
        /\ model.text \in Nat /\ btsp.size \in Nat
    BY <1>13 DEF TypeOK, ModelInv, BoMmap
  <2>2. LET c == CopySize(model.td, model.text, btsp.size)
        IN  c \in Nat /\ c <= model.td /\ c <= model.text
    BY <2>1, MinPair DEF CopySize
  <2>3. TypeOK' BY <1>13, <2>2 DEF TypeOK, None, BoMmap
  <2>4. ScanInv' BY <1>13 DEF TypeOK, ScanInv, HasDevice, AneNodes, BoMmap
  <2>5. FdInv' BY <1>13 DEF TypeOK, FdInv, HasDevice, BoMmap
  <2>6. ModelInv' BY <1>13 DEF TypeOK, ModelInv, BoMmap
  <2>7. BtspInv' BY <1>13, <2>1, <2>2 DEF TypeOK, BtspInv, TileAlign, BoMmap
  <2>8. QED BY <2>3, <2>4, <2>5, <2>6, <2>7
<1>14. ASSUME NEW ok \in BOOLEAN, ChanFree(ok) PROVE LibInv'
  <2>1. /\ bo' \in BOOLEAN /\ refused' \in BOOLEAN
        /\ bo' => bo /\ (refused' \/ ~ btsp.handle)
        /\ refused => refused'
    BY <1>14, Zenon DEF TypeOK, ChanFree, BoFree
  <2>2. TypeOK' BY <1>14, <2>1 DEF TypeOK, None, ChanFree, BoFree
  <2>3. ScanInv'
    BY <1>14 DEF TypeOK, ScanInv, HasDevice, AneNodes, ChanFree, BoFree
  <2>4. FdInv' BY <1>14 DEF TypeOK, FdInv, HasDevice, ChanFree, BoFree
  <2>5. ModelInv' BY <1>14 DEF TypeOK, ModelInv, ChanFree, BoFree
  <2>6. BtspInv'
    <3>1. btsp' = [btsp EXCEPT !.handle = FALSE] /\ ~ btsp'.handle
      BY <1>14 DEF TypeOK, ChanFree, BoFree
    <3>2. QED BY <1>14, <2>1, <3>1 DEF TypeOK, BtspInv, ChanFree
  <2>7. QED BY <2>2, <2>3, <2>4, <2>5, <2>6
<1>15. CASE DeviceClose
  <2>1. TypeOK'
    BY <1>15 DEF TypeOK, None, ScanInv, FdInv, HasDevice, DeviceClose
  <2>2. ScanInv' BY <1>15 DEF TypeOK, ScanInv, HasDevice, AneNodes, DeviceClose
  <2>3. FdInv' BY <1>15 DEF TypeOK, FdInv, HasDevice, DeviceClose
  <2>4. ModelInv' BY <1>15 DEF TypeOK, ModelInv, DeviceClose
  <2>5. BtspInv' BY <1>15 DEF TypeOK, BtspInv, TileAlign, DeviceClose
  <2>6. QED BY <2>1, <2>2, <2>3, <2>4, <2>5
<1>16. CASE ModelFree
  <2>1. FALSE \in BOOLEAN /\ 0 \in 0 .. (U32 - 1) OBVIOUS
  <2>2. model' \in [hwx : BOOLEAN, td : 0 .. (U32 - 1), src : Nat, dst : Nat,
                    text : Nat]
    BY <1>16, <2>1 DEF NoModel, ModelFree
  <2>3. btsp' \in [handle : BOOLEAN, map : BOOLEAN, size : Nat, copied : Nat]
    BY <1>16, <2>1 DEF TypeOK, NoBtsp, ModelFree
  <2>4. user' \in [{"send", "exec", "read"} -> {"no", "done", "dropped"}]
    BY <1>16 DEF NoCall, ModelFree
  <2>5. TypeOK' BY <1>16, <2>3, <2>2, <2>4 DEF TypeOK, None, ModelFree
  <2>6. ScanInv' BY <1>16 DEF TypeOK, ScanInv, HasDevice, ModelFree
  <2>7. FdInv' BY <1>16 DEF TypeOK, FdInv, HasDevice, ModelFree
  <2>8. ModelInv' BY <1>16 DEF TypeOK, ModelInv, NoModel, ModelFree
  <2>9. BtspInv' BY <1>16 DEF TypeOK, BtspInv, NoBtsp, TileAlign, ModelFree
  <2>10. QED BY <2>5, <2>6, <2>7, <2>8, <2>9
<1>17. CASE AneFree
  <2>1. TypeOK' BY <1>17 DEF TypeOK, None, AneFree
  <2>2. ScanInv' BY <1>17 DEF TypeOK, ScanInv, HasDevice, AneNodes, AneFree
  <2>3. FdInv' BY <1>17 DEF TypeOK, FdInv, HasDevice, AneFree
  <2>4. ModelInv' BY <1>17 DEF TypeOK, ModelInv, AneFree
  <2>5. BtspInv' BY <1>17 DEF TypeOK, BtspInv, TileAlign, AneFree
  <2>6. QED BY <2>1, <2>2, <2>3, <2>4, <2>5
<1>18. CASE Exec
  <2>1. TypeOK' BY <1>18 DEF TypeOK, None, Exec
  <2>2. ScanInv' BY <1>18 DEF TypeOK, ScanInv, HasDevice, AneNodes, Exec
  <2>3. FdInv' BY <1>18 DEF TypeOK, FdInv, HasDevice, Exec
  <2>4. ModelInv' BY <1>18 DEF TypeOK, ModelInv, Exec
  <2>5. BtspInv' BY <1>18 DEF TypeOK, BtspInv, TileAlign, Exec
  <2>6. QED BY <2>1, <2>2, <2>3, <2>4, <2>5
<1>19. CASE Send(0)
  <2>1. TypeOK' BY <1>19 DEF TypeOK, None, Outcome, Send
  <2>2. ScanInv' BY <1>19 DEF TypeOK, ScanInv, HasDevice, AneNodes, Send
  <2>3. FdInv' BY <1>19 DEF TypeOK, FdInv, HasDevice, Send
  <2>4. ModelInv' BY <1>19 DEF TypeOK, ModelInv, Send
  <2>5. BtspInv' BY <1>19 DEF TypeOK, BtspInv, TileAlign, Send
  <2>6. QED BY <2>1, <2>2, <2>3, <2>4, <2>5
<1>20. CASE Read(0)
  <2>1. TypeOK' BY <1>20 DEF TypeOK, None, Outcome, Read
  <2>2. ScanInv' BY <1>20 DEF TypeOK, ScanInv, HasDevice, AneNodes, Read
  <2>3. FdInv' BY <1>20 DEF TypeOK, FdInv, HasDevice, Read
  <2>4. ModelInv' BY <1>20 DEF TypeOK, ModelInv, Read
  <2>5. BtspInv' BY <1>20 DEF TypeOK, BtspInv, TileAlign, Read
  <2>6. QED BY <2>1, <2>2, <2>3, <2>4, <2>5
<1>21. CASE ChanMunmap
  <2>1. TypeOK' BY <1>21 DEF TypeOK, None, ChanMunmap
  <2>2. ScanInv' BY <1>21 DEF TypeOK, ScanInv, HasDevice, AneNodes, ChanMunmap
  <2>3. FdInv' BY <1>21 DEF TypeOK, FdInv, HasDevice, ChanMunmap
  <2>4. ModelInv' BY <1>21 DEF TypeOK, ModelInv, ChanMunmap
  <2>5. BtspInv' BY <1>21 DEF TypeOK, BtspInv, TileAlign, ChanMunmap
  <2>6. QED BY <2>1, <2>2, <2>3, <2>4, <2>5
<1>22. CASE UNCHANGED vars
  BY <1>22 DEF vars, TypeOK, ScanInv, AneNodes, FdInv, ModelInv, BtspInv,
     TileAlign
<1>23. QED
  BY <1>1, <1>2, <1>3, <1>4, <1>5, <1>6, <1>7, <1>8, <1>9, <1>10, <1>11,
     <1>12, <1>13, <1>14, <1>15, <1>16, <1>17, <1>18, <1>19, <1>20, <1>21,
     <1>22 DEF Next, Step, Call

(* The program starts without a network. *)
LEMMA LibInitInv == ASSUME Init PROVE LibInv
<1> USE LibAssumption
<1>1. FALSE \in BOOLEAN /\ 0 \in 0 .. (U32 - 1) OBVIOUS
<1>2. /\ model \in [hwx : BOOLEAN, td : 0 .. (U32 - 1), src : Nat, dst : Nat,
                    text : Nat]
      /\ btsp \in [handle : BOOLEAN, map : BOOLEAN, size : Nat, copied : Nat]
  BY <1>1 DEF Init, NoModel, NoBtsp
<1>3. user \in [{"send", "exec", "read"} -> {"no", "done", "dropped"}]
  BY DEF Init, NoCall
<1>4. missed \in BOOLEAN /\ bo \in BOOLEAN /\ refused \in BOOLEAN
  BY <1>1 DEF Init
<1>5. TypeOK BY <1>2, <1>3, <1>4 DEF Init, TypeOK, None
<1>6. ScanInv BY DEF Init, ScanInv, HasDevice
<1>7. FdInv /\ ModelInv BY DEF Init, FdInv, ModelInv, HasDevice, NoModel
<1>8. BtspInv BY DEF Init, BtspInv, NoBtsp
<1>9. QED BY <1>5, <1>6, <1>7, <1>8 DEF LibInv

(* What is open, which device it is and who holds the bootstrap channel,   *)
(* at every step of __ane_init and __ane_free.                             *)
THEOREM LibInvariance == Spec => []LibInv
<1>1. QED BY LibInitInv, LibStepInv, PTL DEF Spec

(* Wherever __ane_init fails, and after __ane_free, no descriptor, no open *)
(* model and no mapping is left, and every BO was given back before the    *)
(* file was closed, but for one that the driver refused to free.           *)
THEOREM LeavesNothing == Spec => []NothingKept
<1>1. ASSUME LibInv PROVE NothingKept
  BY <1>1 DEF LibInv, FdInv, HasDevice, ModelInv, BtspInv, NothingKept
<1>2. QED BY <1>1, LibInvariance, PTL

(* No BO_FREE is made while libane has the BO mapped, when __ane_init      *)
(* fails and when the network is freed.                                    *)
THEOREM FreesUnmapped == Spec => UnmapFirst
<1>1. ASSUME LibInv, [Next]_vars
      PROVE  [btsp.handle /\ ~ btsp'.handle => ~ btsp.map]_vars
  <2>1. ASSUME Next, btsp.handle, ~ btsp'.handle PROVE ~ btsp.map
    <3>1. CASE \E ok \in BOOLEAN : BoMmapFail(ok) \/ ChanFree(ok)
      BY <1>1, <3>1 DEF LibInv, BtspInv, BoMmapFail, ChanFree
    <3>2. CASE ModelFree
      BY <1>1, <2>1, <3>2 DEF LibInv, BtspInv, ModelFree
    <3>3. CASE \/ BoInit \/ BoInitFail \/ ChanMunmap
               \/ \E ok \in BOOLEAN : BoMmap(ok)
      BY <1>1, <2>1, <3>3
      DEF LibInv, TypeOK, BoInit, BoInitFail, ChanMunmap, BoMmap
    <3>4. CASE btsp' = btsp
      BY <2>1, <3>4
    <3>5. QED
      BY <2>1, <3>1, <3>2, <3>3, <3>4
      DEF Next, Step, Call, ModelFail, ModelInit, ScanOpen, ScanSkip, ScanEnd,
          CheckFail, CheckNext, CheckTake, DeviceClose, AneInit, AneFree, Exec,
          Send, Read
  <2>2. QED BY <1>1, <2>1
<1>2. QED BY <1>1, LibInvariance, PTL DEF Spec, UnmapFirst

(* A network keeps one node open, an ane node, and if no call failed       *)
(* during the scan it is number dev_id of them.                            *)
THEOREM ScanFindsDevice == Spec => []RightDevice
<1>1. ASSUME LibInv PROVE RightDevice
  <2>1. SUFFICES ASSUME pc \in {"chan", "mmap", "ready"} PROVE
                 /\ fds = {fd} /\ kind[fd] = "ane"
                 /\ ~ missed => Cardinality(AneNodes(fd)) = dev
    BY DEF RightDevice, Quantify, AneNodes
  <2>2. QED BY <1>1, <2>1 DEF LibInv, ScanInv, FdInv, HasDevice
<1>2. QED BY <1>1, LibInvariance, PTL

(* A ready network has its bootstrap channel mapped, tile_align made it    *)
(* long enough for td_size, and the read of __text was within both.        *)
THEOREM BootstrapFits == Spec => []BtspHolds
<1>1. ASSUME LibInv PROVE BtspHolds
  <2>1. /\ model.td \in Nat /\ model.text \in Nat
        /\ btsp.copied \in Nat
    BY <1>1 DEF LibInv, TypeOK
  <2>2. model.td <= TileAlign(model.td) BY <2>1, TileAlignUp
  <2>3. Min({model.td, model.text}) \in {model.td, model.text}
    BY <2>1, MinPair
  <2>4. QED
    BY <1>1, <2>1, <2>2, <2>3 DEF LibInv, BtspInv, BtspHolds
<1>2. QED BY <1>1, LibInvariance, PTL

=============================================================================
