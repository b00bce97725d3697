------------------------------- MODULE MCData -------------------------------
(***************************************************************************)
(* Four computations of the project on small instances: tiling (Tile), the *)
(* registers of a submission (AneRegs), the words of a task descriptor     *)
(* (TdWord) and half precision (HalfFloat).  They share no state; what     *)
(* chooses the one that a behaviour runs, and the others stay off.         *)
(***************************************************************************)
EXTENDS Tile, AneRegs, TdWord, HalfFloat, Bitwise

VARIABLE what

dataVars == <<what, vars, regs, td, halfVars>>

(* Words of all zeros and all ones, and | as it is. *)
MCSamples == {{}, Bits}
MCBitOr(a, b) == a | b

Off == "off"
NoTile == s = Off /\ pc = Off /\ r = Off /\ tile = Off /\ out = Off
NoRegs == step = Off /\ args = Off /\ h13 = Off /\ krn = Off /\ bars = Off
            /\ size1 = Off /\ addr = Off /\ info = Off
NoTd == fields = {} /\ word = {} /\ want = Off
NoHalf == at = Off /\ half = Off /\ place = Off /\ float = Off /\ back = Off

DataInit ==
  \/ what = "tile" /\ Init /\ NoRegs /\ NoTd /\ NoHalf
  \/ what = "regs" /\ RegsInit /\ NoTile /\ NoTd /\ NoHalf
  \/ what = "td" /\ TdInit /\ NoTile /\ NoRegs /\ NoHalf
  \/ what = "half" /\ HalfInit /\ NoTile /\ NoRegs /\ NoTd

DataNext ==
  \/ what = "tile" /\ Next /\ UNCHANGED <<what, regs, td, halfVars>>
  \/ what = "regs" /\ RegsNext /\ UNCHANGED <<what, vars, td, halfVars>>
  \/ what = "td" /\ TdNext /\ UNCHANGED <<what, vars, regs, halfVars>>
  \/ what = "half" /\ HalfNext /\ UNCHANGED <<what, vars, regs, td>>

DataSpec == DataInit /\ [][DataNext]_dataVars
=============================================================================
