------------------------------ MODULE AneRegs ------------------------------
(***************************************************************************)
(* The numbers of a job: from the arguments of SUBMIT (ane_submit in       *)
(* driver/src/ane_drv.c) to the registers of the task manager that         *)
(* ane_h13.c and ane_h14.c write.  Module AneSubmit has the order of these *)
(* steps and who takes them; here are the widths.                          *)
(*                                                                         *)
(* A register is two halves of Half values each.  H13 packs td_size and    *)
(* td_count into TM_INFO; how the engine takes that register apart is not  *)
(* in the repository.                                                      *)
(***************************************************************************)
EXTENDS Integers

CONSTANTS
  Half,       \* 2^16
  PageSize,   \* 1 << ane->shift
  Gran,       \* ANE_CMD_GRAN
  MaxPages,   \* bound on the size of a buffer; less than 2^32 bytes (see AneBo)
  Iovas,      \* device addresses of buffers
  Numbers,    \* values of td_size and td_count
  BitOr(_, _) \* the operator | on registers

U32 == Half * Half

ASSUME RegsAssumption ==
  /\ {Half, PageSize, Gran, MaxPages} \subseteq Nat \ {0}
  /\ PageSize % Gran = 0 /\ MaxPages * PageSize < U32
  /\ Iovas \subseteq Nat \ {0} /\ Numbers \subseteq 0 .. (U32 - 1)

VARIABLES
  step,    \* "user", "enqueue", "push" or "pushed"
  args,    \* tsk_size, td_size, td_count and the two buffers
  h13,     \* ane->hw is that of H13
  krn,     \* req.bar[KRN_BUF_BDX]
  bars,    \* TQ_BAR1 of the command buffer and of the weights (H13)
  size1,   \* TQ_SIZE1
  addr,    \* TM_ADDR, low and high word
  info     \* TM_INFO on H13; TM_UNK_08 and TM_UNK_14 on H14

regs == <<step, args, h13, krn, bars, size1, addr, info>>

NoBo == [iova |-> 0, pages |-> 0]   \* handle 0
NoArgs == [tsk |-> 0, td |-> 0, count |-> 0, cmd |-> NoBo, btsp |-> NoBo]

-----------------------------------------------------------------------------
RoundUp(n, g) == ((n + g - 1) \div g) * g
Lower(n) == n % U32
Upper(n) == n \div U32

(* The buffers a client can have: ane_h13's vm_base + vm_size is below     *)
(* 2^32, that of ane_h14 is not.                                           *)
Buffers ==
  {b \in [iova : Iovas, pages : 1 .. MaxPages] :
     h13 => b.iova + b.pages * PageSize < U32}

RegsInit ==
  /\ step = "user" /\ args = NoArgs /\ h13 \in BOOLEAN
  /\ krn = 0 /\ bars = <<0, 0>> /\ size1 = 0 /\ addr = <<0, 0>> /\ info = <<0, 0>>

(* The early returns of ane_submit; npages << shift is 32 bits wide.       *)
(* Mutant: the size of the command buffer is not looked at.                *)
ValidAnySize(a) ==
  /\ a.tsk # 0 /\ a.td # 0 /\ a.count # 0 /\ a.cmd # NoBo /\ a.btsp # NoBo
  /\ h13 => Upper(a.cmd.iova) = 0 /\ Upper(a.btsp.iova) = 0

Valid(a) ==
  /\ a.tsk # 0 /\ a.td # 0 /\ a.count # 0 /\ a.cmd # NoBo /\ a.btsp # NoBo
  /\ a.tsk < Lower(a.cmd.pages * PageSize)
  /\ h13 => Upper(a.cmd.iova) = 0 /\ Upper(a.btsp.iova) = 0

Submit(a) ==
  /\ Valid(a)
  /\ step' = "enqueue"
  /\ args' = a
  /\ krn' = a.cmd.iova + RoundUp(a.tsk, Gran)
  /\ UNCHANGED <<h13, bars, size1, addr, info>>

(* TQ_SIZE1: ((td_size >> 2) - 1) << 16 *)
SizeReg(td) == (((td \div 4) - 1) * Half) % U32

EnqueueH13 ==
  /\ step = "enqueue" /\ h13
  /\ step' = "push"
  /\ bars' = <<Lower(args.cmd.iova), Lower(krn)>>
  /\ size1' = SizeReg(args.td)
  /\ UNCHANGED <<args, h13, krn, addr, info>>

(* There is nothing to enqueue. *)
EnqueueH14 ==
  /\ step = "enqueue" /\ ~ h13
  /\ step' = "push"
  /\ UNCHANGED <<args, h13, krn, bars, size1, addr, info>>

PushH13 ==
  /\ step = "push" /\ h13
  /\ step' = "pushed"
  /\ addr' = <<Lower(args.btsp.iova), 0>>
  /\ info' = <<BitOr(size1, args.count), 0>>
  /\ UNCHANGED <<args, h13, krn, bars, size1>>

(* tm_write64 writes the low and then the high word.  Mutant: 32 bits of   *)
(* the address are written, as on H13.                                     *)
PushH14Low ==
  /\ step = "push" /\ ~ h13
  /\ step' = "pushed"
  /\ addr' = <<Lower(args.btsp.iova), 0>>
  /\ info' = <<args.td, args.count>>
  /\ UNCHANGED <<args, h13, krn, bars, size1>>

PushH14 ==
  /\ step = "push" /\ ~ h13
  /\ step' = "pushed"
  /\ addr' = <<Lower(args.btsp.iova), Upper(args.btsp.iova)>>
  /\ info' = <<args.td, args.count>>
  /\ UNCHANGED <<args, h13, krn, bars, size1>>

(* The registers keep their values for the next SUBMIT; they are cleared   *)
(* here to keep the number of states down, and are written before use.     *)
Done ==
  /\ step = "pushed"
  /\ step' = "user"
  /\ args' = NoArgs /\ krn' = 0 /\ bars' = <<0, 0>> /\ size1' = 0
  /\ addr' = <<0, 0>> /\ info' = <<0, 0>>
  /\ UNCHANGED h13

RegsNext ==
  \/ /\ step = "user"
     /\ \E tsk \in 0 .. (MaxPages * PageSize), td, count \in Numbers,
           cmd, btsp \in Buffers \cup {NoBo} :
          Submit([tsk |-> tsk, td |-> td, count |-> count,
                  cmd |-> cmd, btsp |-> btsp])
  \/ EnqueueH13 \/ EnqueueH14 \/ PushH13 \/ PushH14 \/ Done

RegsSpec == RegsInit /\ [][RegsNext]_regs

-----------------------------------------------------------------------------
(* No job runs from half an address: the engine is given the bootstrap     *)
(* buffer that the driver means, and on H13, whose BARs have 32 bits, also *)
(* the weights, although only the start of the command buffer is checked.  *)
AddressWhole ==
  step = "pushed" =>
    /\ addr[1] + addr[2] * U32 = args.btsp.iova
    /\ h13 => bars = <<args.cmd.iova, krn>>

(* The weights, which the engine finds at tsk_size rounded up, begin after *)
(* the microcode and not after the end of the buffer.                      *)
KrnInside ==
  step \in {"enqueue", "push", "pushed"} =>
    krn \in (args.cmd.iova + args.tsk) .. (args.cmd.iova + args.cmd.pages * PageSize)
=============================================================================
