-------------------------------- MODULE Tile --------------------------------
(***************************************************************************)
(* ane_tile and ane_untile of libane/ane.c: the copy of a dense tensor of  *)
(* N x C planes of H rows of W half floats into the tiled layout of the    *)
(* engine, where a plane is P bytes and a row R bytes, and the way back.   *)
(* One step is one memcpy of the loops.  Memory is in half floats; data    *)
(* holds the numbers 1, 2, 3 ..., so that every misplaced element shows,   *)
(* and the destination buffers hold Junk at first.                         *)
(*                                                                         *)
(* A shape has R even and at least one row of data long, P a multiple of R *)
(* and at least one plane long; ane_tile_send takes it from the model.     *)
(***************************************************************************)
EXTENDS Integers

CONSTANTS MaxN, MaxC, MaxH, MaxW,   \* bounds on the shape
          MaxPad                    \* bound on the padding rows and columns

ASSUME ShapeAssumption == {MaxN, MaxC, MaxH, MaxW, MaxPad} \subseteq Nat

VARIABLES
  s,      \* the shape
  pc,     \* "tile", "rows", "untile", "unrows" or "done"
  r,      \* the turn of the three loops: (n * C + c) * H + h
  tile, out   \* the buffers that ane_tile and ane_untile fill

vars == <<s, pc, r, tile, out>>

-----------------------------------------------------------------------------
Junk == -1
Filled(len, v) == [k \in 0 .. (len - 1) |-> v]

new_H == s.P \div s.R
new_W == s.R \div 2
Dense == new_H = s.H /\ new_W = s.W

DataLen(x) == x.N * x.C * x.H * x.W
TileLen(x) == x.N * x.C * (x.P \div 2)
Data == [k \in 0 .. (DataLen(s) - 1) |-> k + 1]

Shape(N, C, H, W, ph, pw) ==
  [N |-> N, C |-> C, H |-> H, W |-> W,
   P |-> 2 * (W + pw) * (H + ph), R |-> 2 * (W + pw)]

(* Where row h of plane (n, c) begins in the dense buffer and in the tile, *)
(* at turn i of the loops.                                                 *)
Turn(i) == [n |-> i \div (s.C * s.H), c |-> (i \div s.H) % s.C, h |-> i % s.H]

DataRow(i) ==
  LET t == Turn(i) IN t.n * s.C * s.H * s.W + t.c * s.H * s.W + t.h * s.W

(* Mutant: the rows are packed. *)
TileRowPacked(i) ==
  LET t == Turn(i) IN t.n * s.C * new_H * new_W + t.c * new_H * new_W + t.h * s.W

TileRow(i) ==
  LET t == Turn(i)
  IN t.n * s.C * new_H * new_W + t.c * new_H * new_W + t.h * new_W

(* memcpy of len elements *)
Memcpy(dst, do, src, so, len) ==
  [k \in DOMAIN dst |-> IF k - do \in 0 .. (len - 1) THEN src[so + k - do] ELSE dst[k]]

Init ==
  /\ \E N \in 1 .. MaxN, C \in 1 .. MaxC, H \in 1 .. MaxH, W \in 1 .. MaxW :
       \E ph, pw \in 0 .. MaxPad : s = Shape(N, C, H, W, ph, pw)
  /\ pc = "tile" /\ r = 0
  /\ tile = Filled(TileLen(s), Junk)
  /\ out = Filled(DataLen(s), Junk)

(* ane_tile: one memcpy if there is no padding, else a memset and the      *)
(* loops.  Mutant: no memset.                                              *)
AneTileNoMemset ==
  /\ pc = "tile"
  /\ pc' = IF Dense THEN "untile" ELSE "rows"
  /\ tile' = IF Dense THEN Memcpy(tile, 0, Data, 0, TileLen(s)) ELSE tile
  /\ UNCHANGED <<s, r, out>>

AneTile ==
  /\ pc = "tile"
  /\ pc' = IF Dense THEN "untile" ELSE "rows"
  /\ tile' = IF Dense THEN Memcpy(tile, 0, Data, 0, TileLen(s))
                      ELSE Filled(TileLen(s), 0)
  /\ UNCHANGED <<s, r, out>>

NextTurn(here, there) ==
  IF r + 1 = s.N * s.C * s.H THEN pc' = there /\ r' = 0 ELSE pc' = here /\ r' = r + 1

TileTurn ==
  /\ pc = "rows"
  /\ tile' = Memcpy(tile, TileRow(r), Data, DataRow(r), s.W)
  /\ NextTurn("rows", "untile")
  /\ UNCHANGED <<s, out>>

AneUntile ==
  /\ pc = "untile"
  /\ pc' = IF Dense THEN "done" ELSE "unrows"
  /\ out' = IF Dense THEN Memcpy(out, 0, tile, 0, DataLen(s))
                     ELSE Filled(DataLen(s), 0)
  /\ UNCHANGED <<s, r, tile>>

(* Mutant: a row of the tile is as long as a row of data. *)
UntileTurnPacked ==
  /\ pc = "unrows"
  /\ out' = Memcpy(out, DataRow(r), tile, TileRowPacked(r), s.W)
  /\ NextTurn("unrows", "done")
  /\ UNCHANGED <<s, tile>>

UntileTurn ==
  /\ pc = "unrows"
  /\ out' = Memcpy(out, DataRow(r), tile, TileRow(r), s.W)
  /\ NextTurn("unrows", "done")
  /\ UNCHANGED <<s, tile>>

Next == AneTile \/ TileTurn \/ AneUntile \/ UntileTurn

Spec == Init /\ [][Next]_vars

-----------------------------------------------------------------------------
(* The engine's view of the tile after ane_tile: element w of row h of     *)
(* plane (n, c) is w elements after h rows of R bytes after (n * C + c)    *)
(* planes of P bytes, and all the padding is zero, not old memory.  A row  *)
(* copied outside its plane would be missing there.                        *)
Placed ==
  pc = "untile" =>
    \A k \in DOMAIN tile :
      LET plane == k \div (s.P \div 2)
          row == (k % (s.P \div 2)) \div new_W
          w == k % new_W
      IN tile[k] = IF row < s.H /\ w < s.W
                     THEN Data[(plane * s.H + row) * s.W + w] ELSE 0

(* ane_untile undoes ane_tile: no element is lost, moved or left Junk. *)
RoundTrip == pc = "done" => out = Data
=============================================================================
