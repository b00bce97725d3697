------------------------------- MODULE LibAne -------------------------------
(***************************************************************************)
(* The life of a network in libane/ane.c: __ane_init loads the model,      *)
(* looks for the device among the accel nodes and creates the bootstrap    *)
(* channel; ane_send, ane_exec and ane_read use the network; __ane_free    *)
(* undoes __ane_init.  Every system call may fail but munmap of a whole    *)
(* mapping and close.                                                      *)
(*                                                                         *)
(* The driver is seen through its ioctls: a BO belongs to the file it was  *)
(* made on, BO_FREE frees it unless the device cannot be resumed (module   *)
(* AnePm), and a BO whose file is closed is lost for good (orphans of      *)
(* module AneBo).  ane_model_init clears the model and never sets tiles,   *)
(* src_count or dst_count, so the loops over chans[] in ane_chan_init and  *)
(* ane_chan_free do nothing.                                               *)
(***************************************************************************)
EXTENDS Integers, FiniteSetsExt

CONSTANTS
  Nodes,       \* MAX_NODE_COUNT
  MaxDevices,  \* MAX_ANE_DEVICES
  TileSize,    \* TILE_SIZE
  U32,         \* 2^32
  SegWords,    \* values of seg_words in a file
  TextSizes    \* sizes of __TEXT,__text in a file

ASSUME LibAssumption ==
  /\ Nodes \in Nat /\ MaxDevices \in Nat
  /\ TileSize \in Nat \ {0} /\ U32 \in Nat \ {0}
  /\ SegWords \subseteq 0 .. (U32 - 1)
  /\ TextSizes \subseteq Nat

VARIABLES
  kind,     \* what each /dev/accel/accel<i> is
  pc,       \* where __ane_init or __ane_free is
  dev,      \* dev_id
  node, found,   \* i and found of device_open
  missed,   \* history: an ane node was skipped because a call failed
  fds,      \* nodes that are open
  fd,       \* nn->fd, or None
  model,    \* hwx (is the file open), td_size, src_count, dst_count, size of __text
  btsp,     \* nn->btsp_chan, and the bytes of __text that were copied
  bo,       \* the BO exists in the driver
  refused,  \* history: a BO_FREE of this network failed
  jobs,     \* SUBMIT ioctls of this network
  user      \* what became of the last send, exec and read of the network

scan == <<dev, node, found, missed>>
vars == <<kind, pc, scan, fds, fd, model, btsp, bo, refused, jobs, user>>

-----------------------------------------------------------------------------
None == -1
Kinds == {"ane", "other", "absent"}
NoModel == [hwx |-> FALSE, td |-> 0, src |-> 0, dst |-> 0, text |-> 0]
NoBtsp == [handle |-> FALSE, map |-> FALSE, size |-> 0, copied |-> 0]
NoCall == [send |-> "no", exec |-> "no", read |-> "no"]

Outcome(ok) == IF ok THEN "done" ELSE "dropped"

(* Mutant: rounds down. *)
TileAlignDown(x) == x - (x % TileSize)

(* tile_align *)
TileAlign(x) == ((x + TileSize - 1) \div TileSize) * TileSize

(* The number of bytes that set_btsp_and_command reads. *)
CopySize(td, text, size) ==
  Min({IF td = 0 \/ td > text THEN text ELSE td, size})

Init ==
  /\ kind \in [0 .. (Nodes - 1) -> Kinds]
  /\ pc = "idle" /\ dev = 0 /\ node = 0 /\ found = 0 /\ missed = FALSE
  /\ fds = {} /\ fd = None /\ model = NoModel /\ btsp = NoBtsp
  /\ bo = FALSE /\ refused = FALSE /\ jobs = 0 /\ user = NoCall

-----------------------------------------------------------------------------
(* __ane_init, up to ane_model_init.                                       *)
AneInit(d) ==
  /\ pc = "idle"
  /\ pc' = "model" /\ dev' = d
  /\ node' = 0 /\ found' = 0 /\ missed' = FALSE
  /\ UNCHANGED <<kind, fds, fd, model, btsp, bo, refused, jobs, user>>

(* The file cannot be opened, or has no SEG_STATE, or an empty segment.    *)
ModelFail ==
  /\ pc = "model"
  /\ pc' = "idle"
  /\ UNCHANGED <<kind, scan, fds, fd, model, btsp, bo, refused, jobs, user>>

(* td_size is a uint32_t. *)
TdSize(words) == (words * 4) % U32

ModelInit(words, text) ==
  /\ pc = "model"
  /\ TdSize(words) # 0
  /\ model' = [hwx |-> TRUE, td |-> TdSize(words), src |-> 0, dst |-> 0,
                text |-> text]
  /\ pc' = IF dev \in 0 .. (MaxDevices - 1) THEN "scan" ELSE "model_free"
  /\ UNCHANGED <<kind, scan, fds, fd, btsp, bo, refused, jobs, user>>

(* device_open goes on with the next node.  Mutant: it does not, if        *)
(* open_fd failed.                                                         *)
NextNodeUnlessFailed(count, failed) ==
  /\ pc' = "scan"
  /\ node' = IF failed THEN node ELSE node + 1
  /\ found' = found + count
  /\ missed' = (missed \/ (failed /\ kind[node] = "ane"))

NextNode(count, failed) ==
  /\ pc' = "scan"
  /\ node' = node + 1
  /\ found' = found + count
  /\ missed' = (missed \/ (failed /\ kind[node] = "ane"))

ScanOpen ==
  /\ pc = "scan" /\ node < Nodes
  /\ kind[node] # "absent"
  /\ pc' = "check"
  /\ fds' = fds \cup {node}
  /\ UNCHANGED <<kind, scan, fd, model, btsp, bo, refused, jobs, user>>

(* There is no such node, or open fails. *)
ScanSkip ==
  /\ pc = "scan" /\ node < Nodes
  /\ NextNode(0, TRUE)
  /\ UNCHANGED <<kind, dev, fds, fd, model, btsp, bo, refused, jobs, user>>

(* is_ane_device says no: the name is another one, or a VERSION ioctl      *)
(* fails.                                                                  *)
CheckFail ==
  /\ pc = "check"
  /\ NextNode(0, TRUE)
  /\ fds' = fds \ {node}
  /\ UNCHANGED <<kind, dev, fd, model, btsp, bo, refused, jobs, user>>

IsAneDevice == pc = "check" /\ kind[node] = "ane"

CheckNext ==
  /\ IsAneDevice /\ dev # found
  /\ NextNode(1, FALSE)
  /\ fds' = fds \ {node}
  /\ UNCHANGED <<kind, dev, fd, model, btsp, bo, refused, jobs, user>>

(* Mutant: the first device is taken, whatever dev_id is. *)
CheckTakeFirst ==
  /\ IsAneDevice
  /\ fd' = node
  /\ pc' = "chan"
  /\ UNCHANGED <<kind, scan, fds, model, btsp, bo, refused, jobs, user>>

CheckTake ==
  /\ IsAneDevice /\ dev = found
  /\ fd' = node
  /\ pc' = "chan"
  /\ UNCHANGED <<kind, scan, fds, model, btsp, bo, refused, jobs, user>>

ScanEnd ==
  /\ pc = "scan" /\ node = Nodes
  /\ pc' = "model_free"
  /\ UNCHANGED <<kind, scan, fds, fd, model, btsp, bo, refused, jobs, user>>

(* ane_chan_init: bo_init of the bootstrap channel. *)
BoInit ==
  /\ pc = "chan"
  /\ pc' = "mmap"
  /\ bo' = TRUE
  /\ btsp' = [btsp EXCEPT !.handle = TRUE, !.size = TileAlign(model.td)]
  /\ UNCHANGED <<kind, scan, fds, fd, model, refused, jobs, user>>

BoInitFail ==
  /\ pc = "chan"
  /\ pc' = "chan_free"
  /\ btsp' = [btsp EXCEPT !.size = TileAlign(model.td)]
  /\ UNCHANGED <<kind, scan, fds, fd, model, bo, refused, jobs, user>>

(* bo_mmap, then set_btsp_and_command, whose read of the section may fail: *)
(* the buffer then stays zero.                                             *)
BoMmap(ok) ==
  /\ pc = "mmap"
  /\ pc' = "ready"
  /\ btsp' = [btsp EXCEPT !.map = TRUE,
                !.copied = IF ok THEN CopySize(model.td, model.text, btsp.size)
                                 ELSE 0]
  /\ UNCHANGED <<kind, scan, fds, fd, model, bo, refused, jobs, user>>

(* bo_free: the result of the ioctl is ignored, and without a handle there *)
(* is no ioctl.                                                            *)
BoFree(ok) ==
  /\ bo' = (bo /\ ~ (btsp.handle /\ ok))
  /\ refused' = (refused \/ (btsp.handle /\ ~ ok))
  /\ btsp' = [btsp EXCEPT !.handle = FALSE]

BoMmapFail(ok) ==
  /\ pc = "mmap"
  /\ pc' = "chan_free"
  /\ BoFree(ok)
  /\ UNCHANGED <<kind, scan, fds, fd, model, jobs, user>>

-----------------------------------------------------------------------------
(* __ane_free, and the error exits of __ane_init, which join it.  Mutant:  *)
(* the device is closed and the channel is not freed.                      *)
AneFreeNoChan ==
  /\ pc = "ready"
  /\ pc' = "device_close"
  /\ UNCHANGED <<kind, scan, fds, fd, model, btsp, bo, refused, jobs, user>>

AneFree ==
  /\ pc = "ready"
  /\ pc' = "chan_free"
  /\ UNCHANGED <<kind, scan, fds, fd, model, btsp, bo, refused, jobs, user>>

(* ane_chan_free: bo_munmap, then bo_free, of the bootstrap channel.       *)
(* Mutant: the buffer is not unmapped.                                     *)
ChanMunmapForgets ==
  /\ pc = "chan_free"
  /\ pc' = "bo_free"
  /\ UNCHANGED <<kind, scan, fds, fd, model, btsp, bo, refused, jobs, user>>

ChanMunmap ==
  /\ pc = "chan_free"
  /\ pc' = "bo_free"
  /\ btsp' = [btsp EXCEPT !.map = FALSE]
  /\ UNCHANGED <<kind, scan, fds, fd, model, bo, refused, jobs, user>>

ChanFree(ok) ==
  /\ pc = "bo_free"
  /\ pc' = "device_close"
  /\ BoFree(ok)
  /\ UNCHANGED <<kind, scan, fds, fd, model, jobs, user>>

(* The driver keeps a BO that the file still has, out of everybody's reach. *)
DeviceClose ==
  /\ pc = "device_close"
  /\ pc' = "model_free"
  /\ fds' = fds \ {fd}
  /\ fd' = None
  /\ bo' = FALSE
  /\ UNCHANGED <<kind, scan, model, btsp, refused, jobs, user>>

(* ane_model_free and free(nn) *)
ModelFree ==
  /\ pc = "model_free"
  /\ pc' = "idle"
  /\ model' = NoModel /\ jobs' = 0 /\ user' = NoCall /\ refused' = FALSE
  /\ btsp' = [NoBtsp EXCEPT !.map = btsp.map]   \* a mapping outlives nn
  /\ UNCHANGED <<kind, scan, fds, fd, bo>>

-----------------------------------------------------------------------------
(* ane_exec: the SUBMIT ioctl is commented out. *)
Exec ==
  /\ pc = "ready"
  /\ user' = [user EXCEPT !.exec = "done"]
  /\ UNCHANGED <<kind, pc, scan, fds, fd, model, btsp, bo, refused, jobs>>

(* ane_send, ane_read and their tiled forms: INDEX_CHECK drops an index    *)
(* out of range.                                                           *)
Send(i) ==
  /\ pc = "ready"
  /\ user' = [user EXCEPT !.send = Outcome(i < model.src)]
  /\ UNCHANGED <<kind, pc, scan, fds, fd, model, btsp, bo, refused, jobs>>

Read(i) ==
  /\ pc = "ready"
  /\ user' = [user EXCEPT !.read = Outcome(i < model.dst)]
  /\ UNCHANGED <<kind, pc, scan, fds, fd, model, btsp, bo, refused, jobs>>

Step ==
  \/ ModelFail
  \/ \E w \in SegWords, t \in TextSizes : ModelInit(w, t)
  \/ ScanOpen \/ ScanSkip \/ ScanEnd \/ CheckFail \/ CheckNext \/ CheckTake
  \/ BoInit \/ BoInitFail
  \/ \E ok \in BOOLEAN : BoMmap(ok) \/ BoMmapFail(ok) \/ ChanFree(ok)
  \/ ChanMunmap \/ DeviceClose \/ ModelFree

Call ==
  \/ \E d \in None .. MaxDevices : AneInit(d)
  \/ AneFree
  \/ Exec
  \/ Send(0)
  \/ Read(0)

Next == Step \/ Call

Spec == Init /\ [][Next]_vars

(* The caller's thread runs, and system calls return. *)
FairSpec == Spec /\ WF_vars(Step)

-----------------------------------------------------------------------------
(* The values that the variables take. *)
TypeOK ==
  /\ kind \in [0 .. (Nodes - 1) -> Kinds]
  /\ pc \in {"idle", "model", "scan", "check", "chan", "mmap", "ready",
             "chan_free", "bo_free", "device_close", "model_free"}
  /\ dev \in None .. MaxDevices /\ node \in 0 .. Nodes /\ found \in 0 .. Nodes
  /\ missed \in BOOLEAN /\ fds \subseteq 0 .. (Nodes - 1)
  /\ fd \in fds \cup {None}
  /\ model \in [hwx : BOOLEAN, td : 0 .. (U32 - 1), src : Nat, dst : Nat,
              text : Nat]
  /\ btsp \in [handle : BOOLEAN, map : BOOLEAN, size : Nat, copied : Nat]
  /\ bo \in BOOLEAN /\ refused \in BOOLEAN /\ jobs \in Nat
  /\ user \in [{"send", "exec", "read"} -> {"no", "done", "dropped"}]

(* Whether __ane_init fails, wherever it fails, or __ane_free ends: no     *)
(* descriptor, no open model, no mapping is left, and when the file is     *)
(* closed the driver has been given every BO back, unless it refused to    *)
(* take it: that BO is lost.                                               *)
NothingKept ==
  /\ pc = "idle" => fds = {} /\ ~ model.hwx /\ ~ btsp.map
  /\ pc = "device_close" /\ bo => refused

(* libane never frees a BO that it has mapped, on any way down: the        *)
(* driver's ane_bo_free would leave the mapping on freed memory (dangling  *)
(* of module AneBo).                                                       *)
UnmapFirst == [][btsp.handle /\ ~ btsp'.handle => ~ btsp.map]_vars

(* The device of a network is an ane node and the only one kept open, and  *)
(* unless a call failed during the scan, exactly dev_id ane nodes come     *)
(* before it.                                                              *)
RightDevice ==
  pc \in {"chan", "mmap", "ready"} =>
    /\ fds = {fd}
    /\ kind[fd] = "ane"
    /\ ~ missed => Quantify(0 .. (fd - 1), LAMBDA i : kind[i] = "ane") = dev

(* A ready network has its bootstrap channel mapped, with room for the     *)
(* whole task descriptor, and what was read into it lies inside __text and *)
(* inside the descriptor: hwx_section_read would refuse a longer read.     *)
BtspHolds ==
  pc = "ready" =>
    /\ bo /\ btsp.handle /\ btsp.map
    /\ model.td <= btsp.size
    /\ btsp.copied <= Min({model.td, model.text})

(* __ane_init and __ane_free return. *)
InitReturns == pc \notin {"idle", "ready"} ~> pc \in {"idle", "ready"}

(* The usage example of ane.h: "send 0th index input to device", "call     *)
(* exec after sending all inputs", "receive 0th index output from device". *)
(* Once all three have been called and ane_exec has returned 0, the input  *)
(* was sent, a job was submitted and the output was received.              *)
UsageExample ==
  user.send # "no" /\ user.exec = "done" /\ user.read # "no" =>
    user.send = "done" /\ jobs > 0 /\ user.read = "done"
=============================================================================
