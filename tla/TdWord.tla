------------------------------- MODULE TdWord -------------------------------
(***************************************************************************)
(* The words of a task descriptor: libane/bitfield.h, whose Bitfield<T, N, *)
(* S> are overlaid in unions, the unions of td_v5.h, td_v7.h and td_v11.h, *)
(* and set_nid of ane.c, which patches the first word of a descriptor with *)
(* masks of its own.                                                       *)
(*                                                                         *)
(* A word is the set of its bits that are 1, a value likewise.  A field is *)
(* <<N, S>>, its first bit and its length; its name is in the source, in   *)
(* the same order.  Only unsigned fields are used.                         *)
(***************************************************************************)
EXTENDS Integers

CONSTANTS
  FifoNid,   \* ANE_FIFO_NID, as a set of bits
  Samples    \* the words that a file may hold and the values that are assigned

Bits == 0 .. 31

ASSUME TdAssumption == FifoNid \subseteq 0 .. 7 /\ Samples \subseteq SUBSET Bits

-----------------------------------------------------------------------------
HeaderWord == {<<0, 16>>, <<16, 8>>, <<24, 1>>, <<25, 1>>}   \* tid, nid, lnid, eon

TDHeader_V5 == {
  HeaderWord,
  {<<0, 16>>, <<16, 9>>},
  {<<0, 24>>},
  {<<8, 1>>, <<9, 1>>, <<10, 1>>, <<11, 1>>, <<12, 1>>, <<13, 1>>, <<14, 1>>,
   <<15, 1>>, <<16, 6>>, <<24, 1>>, <<28, 1>>, <<29, 1>>, <<31, 1>>},
  {<<0, 32>>},
  {<<0, 5>>, <<5, 1>>, <<6, 5>>, <<11, 1>>, <<12, 5>>, <<17, 1>>, <<18, 5>>,
   <<23, 1>>, <<24, 3>>},
  {<<0, 5>>, <<5, 1>>, <<6, 5>>, <<11, 1>>, <<12, 5>>, <<17, 1>>, <<18, 5>>,
   <<23, 1>>}}

CoeffDMAConfig_V5 == {<<0, 1>>, <<4, 2>>, <<6, 4>>, <<28, 1>>}

CommonHeader_V5 == {
  {<<0, 15>>, <<16, 15>>},
  {<<0, 2>>, <<4, 2>>},
  {<<0, 17>>},
  {<<0, 5>>, <<5, 5>>, <<10, 3>>, <<13, 2>>, <<15, 2>>, <<17, 5>>, <<22, 5>>,
   <<28, 2>>, <<30, 2>>},
  {<<0, 13>>, <<14, 1>>, <<15, 1>>, <<16, 16>>},
  {<<0, 15>>},
  {<<2, 1>>, <<8, 3>>, <<12, 3>>, <<16, 3>>, <<19, 3>>, <<22, 1>>, <<24, 1>>,
   <<26, 1>>},
  {<<0, 16>>, <<16, 4>>, <<20, 8>>},
  {<<0, 4>>}}

DMASrcConfig_V5 == {<<0, 1>>, <<4, 2>>, <<6, 4>>, <<10, 4>>, <<14, 4>>, <<18, 2>>}

DMASrcFormat_V5 ==
  {<<0, 2>>, <<4, 2>>, <<8, 1>>, <<12, 2>>, <<16, 3>>, <<24, 4>>, <<28, 4>>}

L2Cfg(first) ==
  first \cup {<<4, 1>>, <<5, 1>>, <<6, 2>>, <<8, 4>>, <<12, 4>>, <<16, 3>>, <<20, 1>>,
              <<22, 1>>}

L2Config_V5 == {
  {<<0, 1>>, <<2, 2>>},
  L2Cfg({<<0, 2>>, <<2, 2>>}),
  {<<4, 17>>},
  L2Cfg({<<0, 2>>, <<3, 1>>})}

KernelCfg == {<<0, 2>>, <<2, 1>>, <<4, 4>>, <<8, 1>>, <<10, 1>>}
MACCfg == {<<0, 3>>, <<3, 1>>, <<4, 1>>, <<6, 1>>, <<8, 5>>, <<14, 1>>, <<16, 2>>}
PostScale == {<<0, 16>>, <<16, 5>>}

NEConfig_V5 == {KernelCfg, MACCfg, {<<0, 16>>}, {<<0, 16>>, <<16, 5>>}, PostScale}

DMADstConfig_V5 == {<<0, 1>>, <<4, 2>>, <<6, 4>>, <<26, 1>>, <<27, 1>>}

DMADstFormat_V5 ==
  {<<0, 2>>, <<4, 2>>, <<8, 1>>, <<12, 2>>, <<16, 3>>, <<20, 1>>, <<21, 1>>,
   <<22, 1>>, <<24, 4>>, <<28, 4>>}

(* TDHeader_V7 differs from TDHeader_V5 in its last word. *)
TDHeader_V7 == TDHeader_V5 \cup {{<<0, 16>>}}

TDHeader_V11 == {{<<0, 24>>}}
TDCoeffDMAConfig_V11 == {<<0, 1>>, <<4, 4>>, <<8, 8>>}
CommonHeader_V11 == {{<<0, 15>>, <<16, 15>>}, {<<0, 17>>}}
L2Config_V11 == {L2Cfg({<<0, 2>>, <<2, 2>>}), {<<4, 17>>}, L2Cfg({<<0, 2>>, <<3, 1>>})}
NEConfig_V11 == {KernelCfg, MACCfg, PostScale}

Words ==
  TDHeader_V5 \cup CommonHeader_V5 \cup L2Config_V5 \cup NEConfig_V5
    \cup TDHeader_V7 \cup TDHeader_V11 \cup CommonHeader_V11 \cup L2Config_V11
    \cup NEConfig_V11
    \cup {CoeffDMAConfig_V5, DMASrcConfig_V5, DMASrcFormat_V5, DMADstConfig_V5,
          DMADstFormat_V5, TDCoeffDMAConfig_V11}

-----------------------------------------------------------------------------
VARIABLES
  fields,  \* the union: a set of fields
  word,    \* the word under it
  want     \* what each field was given last

td == <<fields, word, want>>

Mask(f) == {b \in Bits : b >= f[1] /\ b < f[1] + f[2]}
Shl(v, k) == {b + k : b \in v}

(* Bitfield::operator T *)
Read(f, w) == {b - f[1] : b \in w \cap Mask(f)}

(* Bitfield::operator=.  Mutant: the old value is not cleared. *)
WriteOr(f, w, v) == w \cup (Shl(v, f[1]) \cap Mask(f))
Write(f, w, v) == (w \ Mask(f)) \cup (Shl(v, f[1]) \cap Mask(f))

TdInit ==
  /\ fields \in Words
  /\ word \in Samples
  /\ want = [f \in fields |-> Read(f, word)]

(* The assertions of operator= admit no value beyond min and max. *)
Values(f) == {v \cap 0 .. (f[2] - 1) : v \in Samples}

Assign(f, v) ==
  /\ word' = Write(f, word, v)
  /\ want' = [want EXCEPT ![f] = v]
  /\ UNCHANGED fields

(* set_nid: hdr0 & 0xf00ffff | (nid & 0xff) << 16.  Mutant: & 0xf0fffff.   *)
NidWordLow(w, nid) == (w \cap (0 .. 19 \cup 24 .. 27)) \cup Shl(nid \cap 0 .. 7, 16)
NidWord(w, nid) == (w \cap (0 .. 15 \cup 24 .. 27)) \cup Shl(nid \cap 0 .. 7, 16)

SetNid ==
  /\ fields = HeaderWord
  /\ word' = NidWord(word, FifoNid)
  /\ want' = [want EXCEPT ![<<16, 8>>] = FifoNid]
  /\ UNCHANGED fields

TdNext == SetNid \/ \E f \in fields : \E v \in Values(f) : Assign(f, v)

TdSpec == TdInit /\ [][TdNext]_td

-----------------------------------------------------------------------------
(* The fields of a union are independent variables: whatever was assigned  *)
(* in which order, each field reads as what it was given last, so no two   *)
(* overlap and none is cut off; and set_nid is an assignment to the nid    *)
(* that spares the tid, lnid and eon beside it.                            *)
Independent == \A f \in fields : Read(f, word) = want[f]
=============================================================================
