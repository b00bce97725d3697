----------------------------- MODULE Data_proofs -----------------------------
(***************************************************************************)
(* Proofs about the computations on data.  Tile, for tensors of every      *)
(* shape and any padding: after every turn of the loops exactly the rows   *)
(* so far are in place.  AneRegs, for every width of registers, pages and  *)
(* addresses.  TdWord, for every word and every value of every field.      *)
(* HalfFloat, for every half and, through monotonicity, every float.  The  *)
(* arithmetic of quotients and remainders is done once, in the lemmas that *)
(* come first.                                                             *)
(***************************************************************************)
EXTENDS Tile, AneRegs, TdWord, HalfFloat, TLAPS

-----------------------------------------------------------------------------
(* Products are monotonic, and strictly so. *)
LEMMA MulMono ==
  ASSUME NEW x \in Nat, NEW y \in Nat, NEW b \in Nat, x <= y
  PROVE  x * b <= y * b
<1>1. y = x + (y - x) /\ y - x \in Nat OBVIOUS
<1>2. (y - x) * b \in Nat BY <1>1
<1>3. y * b = x * b + (y - x) * b BY <1>1
<1>4. QED BY <1>2, <1>3

LEMMA MulNat ==
  ASSUME NEW x \in Nat, NEW y \in Nat
  PROVE  /\ x * y \in Nat /\ x * y = y * x
         /\ (x + 1) * y = x * y + y
         /\ x > 0 /\ y > 0 => x * y > 0
OBVIOUS

(* Quotient and remainder have names, and so has what they are, so that    *)
(* the provers see no more of them than the lemmas say.                    *)
Quo(a, b) == a \div b
Rest(a, b) == a % b
Splits(a, b, q, t) == a = q * b + t /\ q \in Nat /\ t \in 0 .. (b - 1)

(* Euclid: there is one quotient and one remainder. *)
LEMMA Euclid ==
  ASSUME NEW a \in Nat, NEW b \in Nat, b > 0
  PROVE  Splits(a, b, Quo(a, b), Rest(a, b))
<1> DEFINE d == Quo(a, b)
           m == Rest(a, b)
<1>1. d \in Nat BY DEF Quo
<1>2. m \in 0 .. (b - 1) BY DEF Rest
<1>3. m = a - b * d BY DEF Quo, Rest
<1> HIDE DEF d, m
<1>4. b * d = d * b /\ d * b \in Nat BY <1>1, MulNat
<1>5. a = d * b + m BY <1>2, <1>3, <1>4
<1>6. QED BY <1>1, <1>2, <1>5 DEF d, m, Splits

LEMMA EuclidUnique ==
  ASSUME NEW a, NEW b \in Nat, NEW q, NEW t, Splits(a, b, q, t)
  PROVE  a \in Nat /\ Quo(a, b) = q /\ Rest(a, b) = t
<1> DEFINE d == Quo(a, b)
           m == Rest(a, b)
<1>1. b > 0 /\ q \in Nat /\ t \in 0 .. (b - 1) /\ a = q * b + t
  BY DEF Splits
<1>2. q * b \in Nat /\ a \in Nat BY <1>1, MulNat
<1>3. d \in Nat /\ m \in 0 .. (b - 1) /\ a = d * b + m
  BY <1>1, <1>2, Euclid DEF Splits
<1> HIDE DEF d, m
<1>4. d * b \in Nat BY <1>3, MulNat
<1>5. ~ d < q
  <2>1. SUFFICES ASSUME d + 1 <= q PROVE FALSE BY <1>1, <1>3
  <2>2. (d + 1) * b <= q * b BY <1>1, <1>3, <2>1, MulMono
  <2>3. (d + 1) * b = d * b + b BY <1>3, MulNat
  <2>4. QED BY <1>1, <1>2, <1>3, <1>4, <2>2, <2>3
<1>6. ~ q < d
  <2>1. SUFFICES ASSUME q + 1 <= d PROVE FALSE BY <1>1, <1>3
  <2>2. (q + 1) * b <= d * b BY <1>1, <1>3, <2>1, MulMono
  <2>3. (q + 1) * b = q * b + b BY <1>1, MulNat
  <2>4. QED BY <1>1, <1>2, <1>3, <1>4, <2>2, <2>3
<1>7. d = q BY <1>1, <1>3, <1>5, <1>6
<1>8. m = t BY <1>1, <1>2, <1>3, <1>7
<1>9. QED BY <1>2, <1>7, <1>8 DEF d, m

(* A position below x * b has a quotient below x. *)
LEMMA Below ==
  ASSUME NEW x \in Nat, NEW b \in Nat, NEW q \in Nat, NEW t \in 0 .. (b - 1)
  PROVE  q * b + t < x * b <=> q < x
<1>1. /\ q * b \in Nat /\ x * b \in Nat /\ (q + 1) * b = q * b + b
      /\ (x + 1) * b = x * b + b
  BY MulNat
<1>2. ASSUME q < x PROVE q * b + t < x * b
  <2>1. (q + 1) * b <= x * b BY <1>2, MulMono
  <2>2. QED BY <1>1, <2>1
<1>3. ASSUME x <= q PROVE x * b <= q * b + t
  <2>1. x * b <= q * b BY <1>3, MulMono
  <2>2. QED BY <1>1, <2>1
<1>4. QED BY <1>1, <1>2, <1>3

(* k is the position of element w of row g of plane p, where a plane has G *)
(* rows of V elements.                                                     *)
At(k, G, V, p, g, w) ==
  /\ k = (p * G + g) * V + w
  /\ p \in Nat /\ g \in 0 .. (G - 1) /\ w \in 0 .. (V - 1)

(* The position gives the three back, ... *)
LEMMA Coordinates ==
  ASSUME NEW G \in Nat, NEW V \in Nat, NEW p, NEW g, NEW w, NEW k,
         At(k, G, V, p, g, w)
  PROVE  /\ k \in Nat
         /\ Splits(k, G * V, p, g * V + w)
         /\ Quo(k, G * V) = p
         /\ Quo(Rest(k, G * V), V) = g
         /\ Rest(k, V) = w
<1>1. /\ k = (p * G + g) * V + w
      /\ p \in Nat /\ g \in 0 .. (G - 1) /\ w \in 0 .. (V - 1)
  BY DEF At
<1>2. p * G \in Nat /\ p * G + g \in Nat BY <1>1, MulNat
<1>3. (p * G + g) * V \in Nat /\ g * V \in Nat /\ G * V \in Nat
  BY <1>1, <1>2, MulNat
<1>4. Splits(k, V, p * G + g, w) BY <1>1, <1>2 DEF Splits
<1>5. Rest(k, V) = w /\ k \in Nat BY <1>4, EuclidUnique
<1>6. (p * G + g) * V = p * (G * V) + g * V BY <1>1
<1>7. g * V + w \in 0 .. (G * V - 1) BY <1>1, <1>3, Below
<1>8. p * (G * V) \in Nat BY <1>1, <1>3, MulNat
<1>9. k = p * (G * V) + (g * V + w) BY <1>1, <1>3, <1>6, <1>8
<1>10. Splits(k, G * V, p, g * V + w) BY <1>1, <1>7, <1>9 DEF Splits
<1>11. Quo(k, G * V) = p /\ Rest(k, G * V) = g * V + w
  BY <1>3, <1>10, EuclidUnique
<1>12. Splits(g * V + w, V, g, w) BY <1>1 DEF Splits
<1>13. Quo(g * V + w, V) = g BY <1>12, EuclidUnique
<1>14. QED BY <1>5, <1>10, <1>11, <1>13

(* ... and every position is that of some element. *)
LEMMA Decompose ==
  ASSUME NEW G \in Nat, NEW V \in Nat, G > 0, V > 0, NEW k \in Nat
  PROVE  \E p, g, w : At(k, G, V, p, g, w)
<1> DEFINE q == Quo(k, V)
           w == Rest(k, V)
<1>1. q \in Nat /\ w \in 0 .. (V - 1) /\ k = q * V + w
  BY Euclid DEF Splits
<1> HIDE DEF q, w
<1>2. /\ Quo(q, G) \in Nat /\ Rest(q, G) \in 0 .. (G - 1)
      /\ q = Quo(q, G) * G + Rest(q, G)
  BY <1>1, Euclid DEF Splits
<1>3. At(k, G, V, Quo(q, G), Rest(q, G), w) BY <1>1, <1>2 DEF At
<1>4. QED BY <1>3

-----------------------------------------------------------------------------
(* What the loops and the engine know of a shape: V elements to a row of   *)
(* the tile, G rows to a plane, no fewer than the data has.                *)
ShapeOK ==
  /\ s.N \in Nat \ {0} /\ s.C \in Nat \ {0} /\ s.H \in Nat \ {0}
  /\ s.W \in Nat \ {0}
  /\ new_W \in Nat /\ new_W >= s.W
  /\ new_H \in Nat /\ new_H >= s.H
  /\ s.P \div 2 = new_H * new_W

Planes == s.N * s.C
Turns == Planes * s.H

(* The plane, the row and the column that position k of the tile belongs   *)
(* to, and the turn that copies that row.                                  *)
Plane(k) == Quo(k, s.P \div 2)
Row(k) == Quo(Rest(k, s.P \div 2), new_W)
Col(k) == Rest(k, new_W)
TurnOf(k) == Plane(k) * s.H + Row(k)

TileDom == 0 .. (TileLen(s) - 1)
DataDom == 0 .. (DataLen(s) - 1)

(* The rows of the first n turns are in the tile, and nothing else is. *)
PlacedUpTo(n) ==
  \A k \in TileDom :
    tile[k] = IF Row(k) < s.H /\ Col(k) < s.W /\ TurnOf(k) < n
                THEN TurnOf(k) * s.W + Col(k) + 1 ELSE 0

(* The same of ane_untile: the dense buffer fills from its start. *)
UnplacedUpTo(n) ==
  \A k \in DataDom : out[k] = IF k < n * s.W THEN k + 1 ELSE 0

TileInv ==
  /\ ShapeOK
  /\ pc \in {"tile", "rows", "untile", "unrows", "done"}
  /\ tile \in [TileDom -> Int] /\ out \in [DataDom -> Int]
  /\ r \in 0 .. (Turns - 1)
  /\ pc \in {"tile", "untile"} => r = 0
  /\ pc = "rows" => PlacedUpTo(r)
  /\ pc \in {"untile", "unrows", "done"} => PlacedUpTo(Turns)
  /\ pc = "unrows" => UnplacedUpTo(r)
  /\ pc = "done" => UnplacedUpTo(Turns)

-----------------------------------------------------------------------------
(* The lengths of the buffers in rows. *)
LEMMA Lengths ==
  ASSUME ShapeOK
  PROVE  /\ Planes \in Nat \ {0} /\ Turns \in Nat \ {0}
         /\ TileLen(s) = Planes * (new_H * new_W) /\ TileLen(s) \in Nat
         /\ DataLen(s) = Turns * s.W /\ DataLen(s) \in Nat
         /\ new_H * new_W \in Nat \ {0}
<1>1. Planes \in Nat \ {0} BY MulNat DEF ShapeOK, Planes
<1>2. Turns \in Nat \ {0} BY <1>1, MulNat DEF ShapeOK, Turns
<1>3. new_H * new_W \in Nat \ {0} BY MulNat DEF ShapeOK
<1>4. TileLen(s) = Planes * (new_H * new_W)
  BY DEF ShapeOK, TileLen, Planes
<1>5. DataLen(s) = Turns * s.W BY DEF DataLen, Planes, Turns
<1>6. TileLen(s) \in Nat BY <1>1, <1>3, <1>4, MulNat
<1>7. DataLen(s) \in Nat BY <1>2, <1>5, MulNat DEF ShapeOK
<1>8. QED BY <1>1, <1>2, <1>3, <1>4, <1>5, <1>6, <1>7

(* Element w of row g of plane p is in the tile, at this position. *)
LEMMA TilePosition ==
  ASSUME ShapeOK, NEW p, NEW g, NEW w, NEW k, At(k, new_H, new_W, p, g, w)
  PROVE  /\ Plane(k) = p /\ Row(k) = g /\ Col(k) = w
         /\ k \in TileDom <=> p < Planes
<1>1. new_H \in Nat /\ new_W \in Nat /\ s.P \div 2 = new_H * new_W
  BY DEF ShapeOK
<1>2. /\ k \in Nat /\ Quo(k, new_H * new_W) = p
      /\ Quo(Rest(k, new_H * new_W), new_W) = g /\ Rest(k, new_W) = w
      /\ Splits(k, new_H * new_W, p, g * new_W + w)
  BY <1>1, Coordinates
<1>3. Plane(k) = p /\ Row(k) = g /\ Col(k) = w
  BY <1>1, <1>2 DEF Plane, Row, Col
<1>4. k < Planes * (new_H * new_W) <=> p < Planes
  BY <1>2, Lengths, Below DEF Splits
<1>5. QED BY <1>2, <1>3, <1>4, Lengths DEF TileDom

(* Every position of the tile is that of one element. *)
LEMMA TileElement ==
  ASSUME ShapeOK, NEW k \in TileDom
  PROVE  /\ Plane(k) \in 0 .. (Planes - 1)
         /\ Row(k) \in 0 .. (new_H - 1) /\ Col(k) \in 0 .. (new_W - 1)
         /\ k = (Plane(k) * new_H + Row(k)) * new_W + Col(k)
         /\ TurnOf(k) \in Nat
         /\ Row(k) < s.H => TurnOf(k) < Turns
<1>1. new_H \in Nat /\ new_W \in Nat /\ new_H > 0 /\ new_W > 0 /\ k \in Nat
  BY Lengths DEF ShapeOK, TileDom
<1>2. PICK p, g, w : At(k, new_H, new_W, p, g, w)
  BY <1>1, Decompose
<1>3. Plane(k) = p /\ Row(k) = g /\ Col(k) = w /\ p < Planes
  BY <1>2, TilePosition
<1>4. /\ p \in Nat /\ g \in 0 .. (new_H - 1) /\ w \in 0 .. (new_W - 1)
      /\ k = (p * new_H + g) * new_W + w
  BY <1>2 DEF At
<1>5. TurnOf(k) = p * s.H + g BY <1>3 DEF TurnOf
<1>6. TurnOf(k) \in Nat BY <1>4, <1>5, MulNat DEF ShapeOK
<1>7. ASSUME g < s.H PROVE TurnOf(k) < Turns
  BY <1>3, <1>4, <1>5, <1>7, Below, Lengths DEF ShapeOK, Turns
<1>8. QED BY <1>3, <1>4, <1>6, <1>7, Lengths

(* Where turn i of the three loops reads and where it writes. *)
LEMMA TurnRows ==
  ASSUME ShapeOK, NEW i \in 0 .. (Turns - 1)
  PROVE  \E p \in 0 .. (Planes - 1), g \in 0 .. (s.H - 1) :
           /\ i = p * s.H + g
           /\ DataRow(i) = i * s.W
           /\ TileRow(i) = (p * new_H + g) * new_W
<1> DEFINE p == Quo(i, s.H)
           g == Rest(i, s.H)
           n == Quo(p, s.C)
           c == Rest(p, s.C)
<1> USE DEF ShapeOK
<1>1. p \in Nat /\ g \in 0 .. (s.H - 1) /\ i = p * s.H + g
  <2>1. i \in Nat /\ s.H \in Nat /\ s.H > 0 BY Lengths
  <2>2. QED BY <2>1, Euclid DEF Splits
<1>2. p < Planes
  <2> HIDE DEF p, g
  <2>1. p * s.H + g < Planes * s.H BY <1>1, Lengths DEF Turns
  <2>2. QED BY <1>1, <2>1, Below, Lengths
<1> HIDE DEF p, g
<1>3. n \in Nat /\ c \in 0 .. (s.C - 1) /\ p = n * s.C + c
  <2>1. s.C \in Nat /\ s.C > 0 OBVIOUS
  <2>2. QED BY <1>1, <2>1, Euclid DEF Splits
<1> HIDE DEF n, c
<1>4. Quo(i, s.C * s.H) = n
  <2>1. At(i, s.C, s.H, n, c, g) BY <1>1, <1>3 DEF At
  <2>2. QED BY <2>1, Coordinates
<1>5. Turn(i) = [n |-> n, c |-> c, h |-> g]
  BY <1>4 DEF Turn, Quo, Rest, n, c, p, g
<1>6. DataRow(i) = n * s.C * s.H * s.W + c * s.H * s.W + g * s.W
  BY <1>5 DEF DataRow
<1>7. DataRow(i) = ((n * s.C + c) * s.H + g) * s.W
  BY <1>1, <1>3, <1>6
<1>8. TileRow(i) = n * s.C * new_H * new_W + c * new_H * new_W + g * new_W
  BY <1>5 DEF TileRow
<1>9. TileRow(i) = ((n * s.C + c) * new_H + g) * new_W
  BY <1>1, <1>3, <1>8
<1>10. DataRow(i) = i * s.W /\ TileRow(i) = (p * new_H + g) * new_W
  BY <1>1, <1>3, <1>7, <1>9
<1>11. QED BY <1>1, <1>2, <1>10, Lengths

(* Turn i copies into position k iff k is in the row that is its turn. *)
LEMMA TurnCopies ==
  ASSUME ShapeOK, NEW i \in 0 .. (Turns - 1), NEW k \in TileDom
  PROVE  /\ TileRow(i) \in Nat /\ DataRow(i) = i * s.W
         /\ k - TileRow(i) \in 0 .. (s.W - 1) <=>
              Row(k) < s.H /\ Col(k) < s.W /\ TurnOf(k) = i
         /\ TurnOf(k) = i /\ Row(k) < s.H => k - TileRow(i) = Col(k)
<1>1. PICK p \in 0 .. (Planes - 1), g \in 0 .. (s.H - 1) :
        /\ i = p * s.H + g
        /\ DataRow(i) = i * s.W
        /\ TileRow(i) = (p * new_H + g) * new_W
  BY TurnRows
<1>2. /\ p \in Nat /\ new_H \in Nat /\ new_W \in Nat
      /\ s.H \in Nat /\ s.W \in Nat
      /\ g \in 0 .. (new_H - 1) /\ s.H <= new_H /\ s.W <= new_W /\ k \in Nat
  BY Lengths DEF ShapeOK, TileDom
<1>3. TileRow(i) \in Nat BY <1>1, <1>2, MulNat
<1>4. ASSUME k - TileRow(i) \in 0 .. (s.W - 1)
      PROVE  Row(k) < s.H /\ Col(k) < s.W /\ TurnOf(k) = i
  <2>1. PICK w \in 0 .. (s.W - 1) : k = TileRow(i) + w BY <1>2, <1>3, <1>4
  <2>2. k = (p * new_H + g) * new_W + w /\ w \in 0 .. (new_W - 1)
    BY <1>1, <1>2, <2>1
  <2>3. Plane(k) = p /\ Row(k) = g /\ Col(k) = w
    <3>1. At(k, new_H, new_W, p, g, w) BY <1>2, <2>2 DEF At
    <3>2. QED BY <3>1, TilePosition
  <2>4. TurnOf(k) = i BY <1>1, <2>3 DEF TurnOf
  <2>5. g < s.H /\ w < s.W BY <1>2
  <2>6. QED BY <2>3, <2>4, <2>5
<1>5. ASSUME TurnOf(k) = i, Row(k) < s.H PROVE k - TileRow(i) = Col(k)
  <2>1. /\ Plane(k) \in Nat /\ Row(k) \in 0 .. (s.H - 1)
        /\ i = Plane(k) * s.H + Row(k)
    BY <1>2, <1>5, TileElement, Lengths DEF TurnOf
  <2>2. Splits(i, s.H, Plane(k), Row(k)) /\ Splits(i, s.H, p, g)
    BY <1>1, <1>2, <2>1 DEF Splits
  <2>3. Plane(k) = p /\ Row(k) = g
    BY <1>2, <2>2, EuclidUnique
  <2>4. k = TileRow(i) + Col(k) BY <1>1, <2>3, TileElement
  <2>5. QED BY <1>2, <1>3, <2>4, TileElement
<1>6. QED BY <1>1, <1>2, <1>3, <1>4, <1>5, TileElement

(* Without padding, position and index are the same. *)
LEMMA DenseCopies ==
  ASSUME ShapeOK, Dense, NEW k \in TileDom
  PROVE  /\ Row(k) < s.H /\ Col(k) < s.W /\ TurnOf(k) < Turns
         /\ TurnOf(k) * s.W + Col(k) = k
<1>1. new_H = s.H /\ new_W = s.W BY DEF Dense
<1>2. QED BY <1>1, TileElement DEF TurnOf, ShapeOK

-----------------------------------------------------------------------------
LEMMA TileInitInv == ASSUME Init PROVE TileInv
<1>1. PICK N \in 1 .. MaxN, C \in 1 .. MaxC, H \in 1 .. MaxH, W \in 1 .. MaxW,
           ph \in 0 .. MaxPad, pw \in 0 .. MaxPad :
        s = Shape(N, C, H, W, ph, pw)
  BY DEF Init
<1> DEFINE V == W + pw
           G == H + ph
<1>2. /\ s.N = N /\ s.C = C /\ s.H = H /\ s.W = W
      /\ s.R = 2 * V /\ s.P = 2 * V * G
  BY <1>1 DEF Shape
<1>3. /\ N \in Nat \ {0} /\ C \in Nat \ {0}
      /\ H \in Nat \ {0} /\ W \in Nat \ {0}
      /\ V \in Nat /\ V >= W /\ G \in Nat /\ G >= H
  BY ShapeAssumption
<1> HIDE DEF V, G
<1>4. G * V \in Nat /\ 2 * V * G = G * (2 * V) /\ 2 * V * G = (G * V) * 2
  BY <1>3, MulNat
<1>5. s.R \div 2 = V BY <1>2, <1>3
<1>6. s.P \div 2 = G * V BY <1>2, <1>4
<1>7. s.P \div s.R = G
  <2>1. 2 * V \in Nat /\ Splits(s.P, 2 * V, G, 0)
    BY <1>2, <1>3, <1>4 DEF Splits
  <2>2. QED BY <1>2, <2>1, EuclidUnique DEF Quo
<1>8. ShapeOK BY <1>2, <1>3, <1>5, <1>6, <1>7 DEF ShapeOK, new_W, new_H
<1>9. tile \in [TileDom -> Int] /\ out \in [DataDom -> Int]
  BY DEF Init, Filled, Junk, TileDom, DataDom
<1>10. 0 \in 0 .. (Turns - 1) BY <1>8, Lengths
<1>11. QED BY <1>8, <1>9, <1>10 DEF Init, TileInv

(* One memcpy without padding, or zeros; one row after the other; and the  *)
(* way back.                                                               *)
LEMMA TileStepInv == ASSUME TileInv, [Next]_vars PROVE TileInv'
<1> USE DEF TileInv
<1>1. s' = s /\ ShapeOK
  BY DEF Next, AneTile, TileTurn, AneUntile, UntileTurn, vars
<1>2. /\ ShapeOK' /\ Turns' = Turns /\ TileDom' = TileDom /\ DataDom' = DataDom
      /\ \A k : Row(k)' = Row(k) /\ Col(k)' = Col(k) /\ TurnOf(k)' = TurnOf(k)
  BY <1>1 DEF ShapeOK, Turns, Planes, TileDom, DataDom, TileLen, DataLen, Row,
     Col, TurnOf, Plane, new_W, new_H
<1>3. /\ Data \in [DataDom -> Int]
      /\ \A k \in DataDom : Data[k] = k + 1
  BY Lengths DEF Data, DataDom
<1>4. CASE AneTile
  <2>1. r' = r /\ out' = out /\ r = 0 BY <1>4 DEF AneTile
  <2>2. CASE Dense
    <3>1. pc' = "untile" /\ tile' = Memcpy(tile, 0, Data, 0, TileLen(s))
      BY <1>4, <2>2 DEF AneTile
    <3>2. \A k \in TileDom : k \in DataDom
      <4>1. Turns * s.W = Planes * (new_H * new_W)
        BY <2>2 DEF Dense, Turns, Planes, ShapeOK
      <4>2. QED BY <4>1, Lengths DEF TileDom, DataDom
    <3>3. \A k \in TileDom : k - 0 \in 0 .. (TileLen(s) - 1) /\ 0 + k - 0 = k
      BY Lengths DEF TileDom
    <3>4. tile' = [k \in TileDom |-> k + 1]
      BY <1>3, <3>1, <3>2, <3>3 DEF Memcpy
    <3>5. PlacedUpTo(Turns)'
      BY <1>2, <2>2, <3>4, DenseCopies, <1>1 DEF PlacedUpTo
    <3>6. tile' \in [TileDom -> Int] BY <3>4, Lengths DEF TileDom
    <3>7. QED BY <1>2, <2>1, <3>1, <3>5, <3>6
  <2>3. CASE ~ Dense
    <3>1. pc' = "rows" /\ tile' = [k \in TileDom |-> 0]
      BY <1>4, <2>3 DEF AneTile, Filled, TileDom
    <3>2. \A k \in TileDom : ~ TurnOf(k) < 0 BY TileElement
    <3>3. PlacedUpTo(r)' BY <1>2, <2>1, <3>1, <3>2, <1>1 DEF PlacedUpTo
    <3>4. tile' \in [TileDom -> Int] BY <3>1
    <3>5. QED BY <1>2, <2>1, <3>1, <3>3, <3>4
  <2>4. QED BY <2>2, <2>3
<1>5. CASE TileTurn
  <2>1. /\ pc = "rows" /\ out' = out
        /\ tile' = Memcpy(tile, TileRow(r), Data, DataRow(r), s.W)
    BY <1>5 DEF TileTurn
  <2>2. \A k \in TileDom :
          tile'[k] = IF Row(k) < s.H /\ Col(k) < s.W /\ TurnOf(k) < r + 1
                       THEN TurnOf(k) * s.W + Col(k) + 1 ELSE 0
    <3>1. SUFFICES ASSUME NEW k \in TileDom
                   PROVE  tile'[k] =
                            IF Row(k) < s.H /\ Col(k) < s.W /\ TurnOf(k) < r + 1
                              THEN TurnOf(k) * s.W + Col(k) + 1 ELSE 0
      OBVIOUS
    <3>2. /\ TurnOf(k) \in Nat /\ r \in Nat /\ Turns \in Nat
          /\ Col(k) \in Nat /\ s.W \in Nat /\ k \in Nat
      <4>1. TurnOf(k) \in Nat /\ Col(k) \in 0 .. (new_W - 1) BY TileElement
      <4>2. Turns \in Nat /\ s.W \in Nat /\ k \in Nat
        BY Lengths DEF ShapeOK, TileDom
      <4>3. QED BY <4>1, <4>2
    <3>3. CASE k - TileRow(r) \in 0 .. (s.W - 1)
      <4>1. /\ Row(k) < s.H /\ Col(k) < s.W /\ TurnOf(k) = r
            /\ k - TileRow(r) = Col(k) /\ DataRow(r) = r * s.W
            /\ TileRow(r) \in Nat
        BY <3>3, TurnCopies
      <4>2. tile'[k] = Data[DataRow(r) + k - TileRow(r)]
        BY <2>1, <3>3 DEF Memcpy
      <4>3. DataRow(r) + k - TileRow(r) = r * s.W + Col(k)
        BY <3>2, <4>1, MulNat
      <4>4. r * s.W + Col(k) \in DataDom
        <5>1. r * s.W + Col(k) < Turns * s.W BY <3>2, <4>1, Below
        <5>2. r * s.W \in Nat BY <3>2, MulNat
        <5>3. r * s.W + Col(k) \in Nat BY <3>2, <5>2
        <5>4. QED BY <5>1, <5>3, Lengths DEF DataDom
      <4>5. QED BY <1>3, <3>2, <4>1, <4>2, <4>3, <4>4
    <3>4. CASE ~ k - TileRow(r) \in 0 .. (s.W - 1)
      <4>1. tile'[k] = tile[k] BY <2>1, <3>4 DEF Memcpy
      <4>2. ~ (Row(k) < s.H /\ Col(k) < s.W /\ TurnOf(k) = r)
        BY <3>4, TurnCopies
      <4>3. tile[k] = IF Row(k) < s.H /\ Col(k) < s.W /\ TurnOf(k) < r
                        THEN TurnOf(k) * s.W + Col(k) + 1 ELSE 0
        BY <2>1 DEF PlacedUpTo
      <4>4. QED BY <3>2, <4>1, <4>2, <4>3
    <3>5. QED BY <3>3, <3>4
  <2>3. tile' \in [TileDom -> Int]
    <3>1. \A k \in TileDom : tile'[k] \in Int
      BY <2>2, TileElement DEF ShapeOK
    <3>2. DOMAIN tile = TileDom OBVIOUS
    <3>3. QED BY <2>1, <3>1, <3>2 DEF Memcpy
  <2>4. CASE r + 1 = Turns
    <3>1. pc' = "untile" /\ r' = 0
      BY <1>5, <2>4 DEF TileTurn, NextTurn, Turns, Planes
    <3>2. PlacedUpTo(Turns)' BY <1>1, <1>2, <2>2, <2>4 DEF PlacedUpTo
    <3>3. 0 \in 0 .. (Turns - 1) BY Lengths
    <3>4. QED BY <1>2, <2>1, <2>3, <3>1, <3>2, <3>3
  <2>5. CASE r + 1 # Turns
    <3>1. pc' = "rows" /\ r' = r + 1
      BY <1>5, <2>5 DEF TileTurn, NextTurn, Turns, Planes
    <3>2. PlacedUpTo(r)' BY <1>1, <1>2, <2>2, <3>1 DEF PlacedUpTo
    <3>3. r + 1 \in 0 .. (Turns - 1) BY <2>5, Lengths
    <3>4. QED BY <1>2, <2>1, <2>3, <3>1, <3>2, <3>3
  <2>6. QED BY <2>4, <2>5
<1>6. CASE AneUntile
  <2>1. r' = r /\ tile' = tile /\ r = 0 /\ pc = "untile" BY <1>6 DEF AneUntile
  <2>2. PlacedUpTo(Turns)' BY <1>1, <1>2, <2>1 DEF PlacedUpTo
  <2>3. CASE Dense
    <3>1. pc' = "done" /\ out' = Memcpy(out, 0, tile, 0, DataLen(s))
      BY <1>6, <2>3 DEF AneUntile
    <3>2. \A k \in DataDom : k \in TileDom
      <4>1. Turns * s.W = Planes * (new_H * new_W)
        BY <2>3 DEF Dense, Turns, Planes, ShapeOK
      <4>2. QED BY <4>1, Lengths DEF TileDom, DataDom
    <3>3. \A k \in DataDom : k - 0 \in 0 .. (DataLen(s) - 1) /\ 0 + k - 0 = k
      BY Lengths DEF DataDom
    <3>4. \A k \in DataDom : tile[k] = k + 1
      BY <2>1, <2>3, <3>2, DenseCopies DEF PlacedUpTo
    <3>5. out' = [k \in DataDom |-> k + 1]
      BY <3>1, <3>3, <3>4 DEF Memcpy
    <3>6. \A k \in DataDom : k < Turns * s.W BY Lengths DEF DataDom
    <3>7. UnplacedUpTo(Turns)' BY <1>1, <1>2, <3>5, <3>6 DEF UnplacedUpTo
    <3>8. out' \in [DataDom -> Int] BY <3>5, Lengths DEF DataDom
    <3>9. QED BY <1>2, <2>1, <2>2, <3>1, <3>7, <3>8
  <2>4. CASE ~ Dense
    <3>1. pc' = "unrows" /\ out' = [k \in DataDom |-> 0]
      BY <1>6, <2>4 DEF AneUntile, Filled, DataDom
    <3>2. \A k \in DataDom : ~ k < 0 * s.W BY Lengths DEF DataDom, ShapeOK
    <3>3. UnplacedUpTo(r)' BY <1>1, <1>2, <2>1, <3>1, <3>2 DEF UnplacedUpTo
    <3>4. out' \in [DataDom -> Int] BY <3>1
    <3>5. QED BY <1>2, <2>1, <2>2, <3>1, <3>3, <3>4
  <2>5. QED BY <2>3, <2>4
<1>7. CASE UntileTurn
  <2>1. /\ pc = "unrows" /\ tile' = tile
        /\ out' = Memcpy(out, DataRow(r), tile, TileRow(r), s.W)
    BY <1>7 DEF UntileTurn
  <2>2. PlacedUpTo(Turns)' BY <1>1, <1>2, <2>1 DEF PlacedUpTo
  <2>3. PICK p \in 0 .. (Planes - 1), g \in 0 .. (s.H - 1) :
          /\ r = p * s.H + g
          /\ DataRow(r) = r * s.W
          /\ TileRow(r) = (p * new_H + g) * new_W
    BY TurnRows
  <2>4. /\ r \in Nat /\ Turns \in Nat /\ s.W \in Nat /\ s.H \in Nat
        /\ p \in Nat /\ p < Planes /\ g \in 0 .. (new_H - 1) /\ g < s.H
        /\ s.W <= new_W /\ new_W \in Nat /\ r * s.W \in Nat
        /\ (r + 1) * s.W = r * s.W + s.W
    BY Lengths, MulNat DEF ShapeOK
  <2>5. \A k \in DataDom : out'[k] = IF k < (r + 1) * s.W THEN k + 1 ELSE 0
    <3>1. SUFFICES ASSUME NEW k \in DataDom
                   PROVE  out'[k] = IF k < (r + 1) * s.W THEN k + 1 ELSE 0
      OBVIOUS
    <3>2. k \in Nat BY Lengths DEF DataDom
    <3>3. CASE k - r * s.W \in 0 .. (s.W - 1)
      <4> DEFINE w == k - r * s.W
                 t == TileRow(r) + w
      <4>1. w \in 0 .. (s.W - 1) /\ w \in 0 .. (new_W - 1) /\ k = r * s.W + w
        <5>1. w \in 0 .. (s.W - 1) BY <3>3
        <5>2. k = r * s.W + w BY <2>4, <3>2
        <5> HIDE DEF w
        <5>3. w \in 0 .. (new_W - 1) BY <2>4, <5>1
        <5>4. QED BY <5>1, <5>2, <5>3
      <4>2. TileRow(r) + k - DataRow(r) = t
        BY <2>3, <2>4, <3>2, MulNat DEF ShapeOK
      <4>3. out'[k] = tile[TileRow(r) + k - DataRow(r)]
        BY <2>1, <2>3, <3>3 DEF Memcpy
      <4> HIDE DEF w
      <4>4. At(t, new_H, new_W, p, g, w) BY <2>3, <2>4, <4>1 DEF At
      <4> HIDE DEF t
      <4>5. t \in TileDom /\ Plane(t) = p /\ Row(t) = g /\ Col(t) = w
        BY <2>4, <4>4, TilePosition
      <4>6. TurnOf(t) = r BY <2>3, <4>5 DEF TurnOf
      <4>7. tile[t] = r * s.W + w + 1
        BY <2>1, <2>4, <4>1, <4>5, <4>6 DEF PlacedUpTo
      <4>8. QED BY <2>4, <3>2, <4>1, <4>2, <4>3, <4>7
    <3>4. CASE ~ k - r * s.W \in 0 .. (s.W - 1)
      <4>1. out'[k] = out[k] BY <2>1, <2>3, <3>4 DEF Memcpy
      <4>2. out[k] = IF k < r * s.W THEN k + 1 ELSE 0
        BY <2>1 DEF UnplacedUpTo
      <4>3. k < r * s.W <=> k < (r + 1) * s.W BY <2>4, <3>2, <3>4
      <4>4. QED BY <4>1, <4>2, <4>3
    <3>5. QED BY <3>3, <3>4
  <2>6. out' \in [DataDom -> Int]
    <3>1. \A k \in DataDom : out'[k] \in Int
      BY <2>5, Lengths DEF DataDom
    <3>2. DOMAIN out = DataDom OBVIOUS
    <3>3. QED BY <2>1, <3>1, <3>2 DEF Memcpy
  <2>7. CASE r + 1 = Turns
    <3>1. pc' = "done" /\ r' = 0
      BY <1>7, <2>7 DEF UntileTurn, NextTurn, Turns, Planes
    <3>2. UnplacedUpTo(Turns)' BY <1>1, <1>2, <2>5, <2>7 DEF UnplacedUpTo
    <3>3. 0 \in 0 .. (Turns - 1) BY Lengths
    <3>4. QED BY <1>2, <2>1, <2>2, <2>6, <3>1, <3>2, <3>3
  <2>8. CASE r + 1 # Turns
    <3>1. pc' = "unrows" /\ r' = r + 1
      BY <1>7, <2>8 DEF UntileTurn, NextTurn, Turns, Planes
    <3>2. UnplacedUpTo(r)' BY <1>1, <1>2, <2>5, <3>1 DEF UnplacedUpTo
    <3>3. r + 1 \in 0 .. (Turns - 1) BY <2>4, <2>8
    <3>4. QED BY <1>2, <2>1, <2>2, <2>6, <3>1, <3>2, <3>3
  <2>9. QED BY <2>7, <2>8
<1>8. CASE UNCHANGED vars
  BY <1>2, <1>8 DEF vars, PlacedUpTo, UnplacedUpTo
<1>9. QED BY <1>4, <1>5, <1>6, <1>7, <1>8 DEF Next

(* After each turn of the loops exactly the rows so far are in place. *)
THEOREM TileInvariance == Spec => []TileInv
<1>1. QED BY TileInitInv, TileStepInv, PTL DEF Spec

(* For every shape, ane_tile puts each element where the engine looks for  *)
(* it, n * C + c planes of P bytes and h rows of R bytes from the start,   *)
(* and zeros everywhere else.                                              *)
THEOREM TilePlaces == Spec => []Placed
<1>1. ASSUME TileInv PROVE Placed
  <2>1. SUFFICES ASSUME pc = "untile", NEW k \in TileDom
                 PROVE  tile[k] = IF Row(k) < s.H /\ Col(k) < s.W
                                    THEN Data[TurnOf(k) * s.W + Col(k)] ELSE 0
    BY <1>1, Zenon DEF TileInv, Placed, TurnOf, Plane, Row, Col, Quo, Rest
  <2>2. /\ ShapeOK
        /\ tile[k] = IF Row(k) < s.H /\ Col(k) < s.W /\ TurnOf(k) < Turns
                       THEN TurnOf(k) * s.W + Col(k) + 1 ELSE 0
    BY <1>1, <2>1 DEF TileInv, PlacedUpTo
  <2>3. CASE Row(k) < s.H /\ Col(k) < s.W
    <3>1. /\ TurnOf(k) \in Nat /\ TurnOf(k) < Turns /\ Turns \in Nat
          /\ Col(k) \in 0 .. (s.W - 1) /\ s.W \in Nat
      BY <2>2, <2>3, TileElement, Lengths DEF ShapeOK
    <3>2. TurnOf(k) * s.W + Col(k) < Turns * s.W BY <3>1, Below
    <3>3. TurnOf(k) * s.W + Col(k) \in DataDom
      BY <2>2, <3>1, <3>2, MulNat, Lengths DEF DataDom
    <3>4. QED BY <2>2, <2>3, <3>1, <3>3 DEF Data, DataDom
  <2>4. CASE ~ (Row(k) < s.H /\ Col(k) < s.W)
    BY <2>2, <2>4
  <2>5. QED BY <2>3, <2>4
<1>2. QED BY <1>1, TileInvariance, PTL

(* For every shape, ane_untile after ane_tile gives the data back. *)
THEOREM UntileUndoesTile == Spec => []RoundTrip
<1>1. ASSUME TileInv PROVE RoundTrip
  <2>1. SUFFICES ASSUME pc = "done" PROVE out = Data BY DEF RoundTrip
  <2>2. out \in [DataDom -> Int] /\ \A k \in DataDom : out[k] = k + 1
    BY <1>1, <2>1, Lengths DEF TileInv, UnplacedUpTo, DataDom
  <2>3. QED BY <2>2 DEF Data, DataDom
<1>2. QED BY <1>1, TileInvariance, PTL


-----------------------------------------------------------------------------
(* AneRegs.  A register holds U32 values. *)
LEMMA Widths ==
  /\ Half \in Nat \ {0} /\ PageSize \in Nat \ {0} /\ Gran \in Nat \ {0}
  /\ MaxPages \in Nat \ {0} /\ PageSize % Gran = 0
  /\ MaxPages * PageSize < U32
  /\ U32 \in Nat \ {0} /\ U32 = Half * Half
  /\ Iovas \subseteq Nat \ {0} /\ Numbers \subseteq Nat
<1>1. Half \in Nat \ {0} BY RegsAssumption
<1>2. U32 = Half * Half BY DEF U32
<1>3. U32 \in Nat \ {0} BY <1>1, <1>2, MulNat
<1>4. QED BY <1>1, <1>2, <1>3, RegsAssumption

(* lower_32_bits and upper_32_bits take a number apart, and what fits into *)
(* a register is its own lower part.                                       *)
LEMMA Words32 ==
  ASSUME NEW n \in Nat
  PROVE  /\ Lower(n) + Upper(n) * U32 = n
         /\ n < U32 => Lower(n) = n
<1>1. Splits(n, U32, Quo(n, U32), Rest(n, U32)) BY Widths, Euclid
<1>2. Lower(n) = Rest(n, U32) /\ Upper(n) = Quo(n, U32)
  BY DEF Lower, Upper, Quo, Rest
<1>3. Quo(n, U32) * U32 \in Nat BY <1>1, Widths, MulNat DEF Splits
<1>4. Lower(n) + Upper(n) * U32 = n
  BY <1>1, <1>2, <1>3, Widths DEF Splits
<1>5. ASSUME n < U32 PROVE Lower(n) = n
  <2>1. 0 * U32 = 0 BY Widths
  <2>2. Splits(n, U32, 0, n) BY <1>5, <2>1, Widths DEF Splits
  <2>3. QED BY <1>2, <2>2, Widths, EuclidUnique
<1>6. QED BY <1>4, <1>5

(* round_up stays below every multiple that is not below its argument. *)
LEMMA RoundUpInside ==
  ASSUME NEW n \in Nat, NEW e \in Nat, NEW g \in Nat \ {0}, n <= e * g
  PROVE  RoundUp(n, g) \in n .. (e * g)
<1> DEFINE y == n + g - 1
           q == Quo(y, g)
           t == Rest(y, g)
<1>1. y \in Nat OBVIOUS
<1>2. q \in Nat /\ t \in 0 .. (g - 1) /\ y = q * g + t
  BY <1>1, Euclid DEF Splits
<1>3. RoundUp(n, g) = q * g BY DEF RoundUp, Quo
<1> HIDE DEF q, t
<1>4. q * g \in Nat /\ e * g \in Nat /\ (e + 1) * g = e * g + g
  BY <1>2, MulNat
<1>5. n <= q * g BY <1>2, <1>4
<1>6. ~ e < q
  <2>1. SUFFICES ASSUME e + 1 <= q PROVE FALSE BY <1>2
  <2>2. (e + 1) * g <= q * g BY <1>2, <2>1, MulMono
  <2>3. QED BY <1>2, <1>4, <2>2
<1>7. q * g <= e * g BY <1>2, <1>6, MulMono
<1>8. QED BY <1>3, <1>4, <1>5, <1>7

(* A buffer is a whole number of granules, and its size fits a register. *)
LEMMA BufferSize ==
  ASSUME NEW n \in 1 .. MaxPages
  PROVE  /\ n * PageSize \in Nat /\ n * PageSize < U32
         /\ \E e \in Nat : n * PageSize = e * Gran
<1>1. n \in Nat /\ n * PageSize \in Nat BY Widths, MulNat
<1>2. n * PageSize <= MaxPages * PageSize BY Widths, MulMono
<1>3. MaxPages * PageSize \in Nat BY Widths, MulNat
<1> DEFINE d == Quo(PageSize, Gran)
<1>4. d \in Nat /\ PageSize = d * Gran
  <2>1. Rest(PageSize, Gran) = 0 BY Widths DEF Rest
  <2>2. QED BY <2>1, Widths, Euclid DEF Splits
<1> HIDE DEF d
<1>5. n * d \in Nat BY <1>1, <1>4, MulNat
<1>6. n * (d * Gran) = (n * d) * Gran BY <1>1, <1>4, Widths
<1>7. QED BY <1>1, <1>2, <1>3, <1>4, <1>5, <1>6, Widths

(* What ane_submit has accepted, and where the weights are. *)
JobOK ==
  /\ args.tsk \in Nat /\ args.td \in Nat /\ args.count \in Nat
  /\ args.cmd \in Buffers /\ args.btsp \in Buffers
  /\ KrnInside

(* The BARs that tm_enqueue has written on H13. *)
RegsWritten == bars = <<args.cmd.iova, krn>>

RegsInv ==
  /\ step \in {"user", "enqueue", "push", "pushed"} /\ h13 \in BOOLEAN
  /\ step # "user" => JobOK
  /\ step \in {"push", "pushed"} /\ h13 => RegsWritten
  /\ AddressWhole

(* The buffers of a client have addresses, and on H13 end below 2^32. *)
LEMMA BufferType ==
  ASSUME NEW b \in Buffers
  PROVE  /\ b.iova \in Nat /\ b.pages \in 1 .. MaxPages
         /\ b.pages * PageSize \in Nat
         /\ h13 => b.iova + b.pages * PageSize < U32
<1>1. b.iova \in Iovas /\ b.pages \in 1 .. MaxPages BY DEF Buffers
<1>2. h13 => b.iova + b.pages * PageSize < U32 BY DEF Buffers
<1>3. QED BY <1>1, <1>2, Widths, BufferSize

(* ane_submit, tm_enqueue and tm_execute keep the invariant. *)
LEMMA RegsStepInv == ASSUME RegsInv, [RegsNext]_regs PROVE RegsInv'
<1>1. ASSUME step = "user",
             NEW tsk \in 0 .. (MaxPages * PageSize),
             NEW td_size \in Numbers, NEW count \in Numbers,
             NEW cmd \in Buffers \cup {NoBo}, NEW btsp \in Buffers \cup {NoBo},
             Submit([tsk |-> tsk, td |-> td_size, count |-> count,
                     cmd |-> cmd, btsp |-> btsp])
      PROVE  RegsInv'
  <2> DEFINE a == [tsk |-> tsk, td |-> td_size, count |-> count,
                   cmd |-> cmd, btsp |-> btsp]
  <2>1. /\ step' = "enqueue" /\ h13' = h13
        /\ args'.tsk = tsk /\ args'.td = td_size /\ args'.count = count
        /\ args'.cmd = cmd /\ args'.btsp = btsp
        /\ krn' = cmd.iova + RoundUp(tsk, Gran)
    BY <1>1 DEF Submit
  <2>2. cmd \in Buffers /\ btsp \in Buffers
    BY <1>1 DEF Submit, Valid
  <2>3. tsk < Lower(cmd.pages * PageSize)
    BY <1>1 DEF Submit, Valid
  <2>4. /\ cmd.iova \in Nat /\ cmd.pages \in 1 .. MaxPages
        /\ cmd.pages * PageSize \in Nat
    BY <2>2, BufferType
  <2>5. cmd.pages * PageSize < U32 BY <2>4, BufferSize
  <2>6. tsk < cmd.pages * PageSize BY <2>3, <2>4, <2>5, Words32
  <2>7. PICK e \in Nat : cmd.pages * PageSize = e * Gran
    BY <2>4, BufferSize
  <2>8. tsk \in Nat /\ td_size \in Nat /\ count \in Nat
    BY <1>1, Widths
  <2>9. RoundUp(tsk, Gran) \in tsk .. (cmd.pages * PageSize)
    BY <2>4, <2>6, <2>7, <2>8, Widths, RoundUpInside
  <2>10. KrnInside' BY <2>1, <2>4, <2>8, <2>9 DEF KrnInside
  <2>11. Buffers' = Buffers BY <2>1 DEF Buffers
  <2>12. JobOK' BY <2>1, <2>2, <2>8, <2>10, <2>11 DEF JobOK
  <2>13. QED BY <2>1, <2>12 DEF RegsInv, AddressWhole
<1>2. CASE EnqueueH13
  <2>1. /\ step = "enqueue" /\ h13 /\ JobOK
        /\ step' = "push" /\ args' = args /\ h13' = h13 /\ krn' = krn
        /\ bars' = <<Lower(args.cmd.iova), Lower(krn)>>
    BY <1>2 DEF EnqueueH13, RegsInv
  <2>2. /\ args.cmd.iova \in Nat /\ args.cmd.pages * PageSize \in Nat
        /\ args.cmd.iova + args.cmd.pages * PageSize < U32
    BY <2>1, BufferType DEF JobOK
  <2>3. /\ krn \in (args.cmd.iova + args.tsk) ..
                      (args.cmd.iova + args.cmd.pages * PageSize)
        /\ args.tsk \in Nat
    BY <2>1 DEF JobOK, KrnInside
  <2>4. krn \in Nat /\ krn < U32 /\ args.cmd.iova < U32
    BY <2>2, <2>3, Widths
  <2>5. bars' = <<args.cmd.iova, krn>> BY <2>1, <2>2, <2>4, Words32
  <2>6. RegsWritten' BY <2>1, <2>5 DEF RegsWritten
  <2>7. JobOK' BY <2>1 DEF JobOK, KrnInside, Buffers
  <2>8. QED BY <2>1, <2>6, <2>7 DEF RegsInv, AddressWhole
<1>3. CASE EnqueueH14
  <2>1. JobOK' BY <1>3 DEF EnqueueH14, RegsInv, JobOK, KrnInside, Buffers
  <2>2. QED
    BY <1>3, <2>1 DEF EnqueueH14, RegsInv, AddressWhole
<1>4. CASE PushH13
  <2>1. /\ step = "push" /\ h13 /\ JobOK /\ RegsWritten
        /\ step' = "pushed" /\ args' = args /\ h13' = h13 /\ krn' = krn
        /\ bars' = bars
        /\ addr' = <<Lower(args.btsp.iova), 0>>
    BY <1>4 DEF PushH13, RegsInv
  <2>2. /\ args.btsp.iova \in Nat /\ args.btsp.pages * PageSize \in Nat
        /\ args.btsp.iova + args.btsp.pages * PageSize < U32
    BY <2>1, BufferType DEF JobOK
  <2>3. Lower(args.btsp.iova) = args.btsp.iova
    BY <2>2, Widths, Words32
  <2>4. 0 * U32 = 0 BY Widths
  <2>5. AddressWhole'
    BY <2>1, <2>2, <2>3, <2>4 DEF AddressWhole, RegsWritten, U32
  <2>6. JobOK' BY <2>1 DEF JobOK, KrnInside, Buffers
  <2>7. RegsWritten' BY <2>1 DEF RegsWritten
  <2>8. QED BY <2>1, <2>5, <2>6, <2>7 DEF RegsInv
<1>5. CASE PushH14
  <2>1. /\ step = "push" /\ ~ h13 /\ JobOK
        /\ step' = "pushed" /\ args' = args /\ h13' = h13 /\ krn' = krn
        /\ addr' = <<Lower(args.btsp.iova), Upper(args.btsp.iova)>>
    BY <1>5 DEF PushH14, RegsInv
  <2>2. args.btsp.iova \in Nat BY <2>1, BufferType DEF JobOK
  <2>3. AddressWhole' BY <2>1, <2>2, Words32 DEF AddressWhole
  <2>4. JobOK' BY <2>1 DEF JobOK, KrnInside, Buffers
  <2>5. QED BY <2>1, <2>3, <2>4 DEF RegsInv
<1>6. CASE Done
  BY <1>6 DEF Done, RegsInv, AddressWhole
<1>7. CASE UNCHANGED regs
  BY <1>7 DEF regs, RegsInv, JobOK, KrnInside, Buffers, RegsWritten,
     AddressWhole
<1>8. QED
  BY <1>1, <1>2, <1>3, <1>4, <1>5, <1>6, <1>7 DEF RegsNext

(* The invariant holds for every width and every buffer a client can have. *)
THEOREM RegsInvariance == RegsSpec => []RegsInv
<1>1. RegsInit => RegsInv
  BY DEF RegsInit, RegsInv, AddressWhole
<1>2. QED BY <1>1, RegsStepInv, PTL DEF RegsSpec

(* No job is started from part of an address, whatever the sizes and       *)
(* places of its buffers: ane_submit checks only that they begin below     *)
(* 2^32 on H13, and the weights still do.                                  *)
THEOREM AddressesWhole == RegsSpec => []AddressWhole
<1>1. RegsInv => AddressWhole BY DEF RegsInv
<1>2. QED BY <1>1, RegsInvariance, PTL

(* tsk_size rounded up stays inside the command buffer, since a page is a  *)
(* whole number of granules and 2^32 bytes never wrap.                     *)
THEOREM WeightsInside == RegsSpec => []KrnInside
<1>1. RegsInv => KrnInside BY DEF RegsInv, JobOK, KrnInside
<1>2. QED BY <1>1, RegsInvariance, PTL

-----------------------------------------------------------------------------
(* TdWord.  The fields of a word lie inside it and beside each other. *)
FieldOK(f) == f[1] \in Nat /\ f[2] \in Nat /\ f[1] + f[2] <= 32
Beside(f, g) == f[1] + f[2] <= g[1] \/ g[1] + g[2] <= f[1]
Layout(F) ==
  /\ \A f \in F : FieldOK(f)
  /\ \A f, g \in F : f # g => Beside(f, g)

(* That the tables of td_v5.h, td_v7.h and td_v11.h are such. *)
LEMMA Layouts == \A F \in Words : Layout(F)
<1>1. \A F \in TDHeader_V5 : Layout(F)
  BY DEF TDHeader_V5, HeaderWord, Layout, FieldOK, Beside
<1>2. \A F \in CommonHeader_V5 : Layout(F)
  BY DEF CommonHeader_V5, Layout, FieldOK, Beside
<1>3. \A F \in L2Config_V5 : Layout(F)
  BY DEF L2Config_V5, L2Cfg, Layout, FieldOK, Beside
<1>4. \A F \in NEConfig_V5 : Layout(F)
  BY DEF NEConfig_V5, KernelCfg, MACCfg, PostScale, Layout, FieldOK, Beside
<1>5. \A F \in TDHeader_V7 : Layout(F)
  BY <1>1 DEF TDHeader_V7, Layout, FieldOK, Beside
<1>6. \A F \in TDHeader_V11 \cup CommonHeader_V11 : Layout(F)
  BY DEF TDHeader_V11, CommonHeader_V11, Layout, FieldOK, Beside
<1>7. \A F \in L2Config_V11 : Layout(F)
  BY <1>3 DEF L2Config_V5, L2Config_V11
<1>8. \A F \in NEConfig_V11 : Layout(F)
  BY <1>4 DEF NEConfig_V5, NEConfig_V11
<1>9. Layout(CoeffDMAConfig_V5) /\ Layout(DMASrcConfig_V5)
  BY DEF CoeffDMAConfig_V5, DMASrcConfig_V5, Layout, FieldOK, Beside
<1>10. Layout(DMASrcFormat_V5)
  BY DEF DMASrcFormat_V5, Layout, FieldOK, Beside
<1>11. Layout(DMADstConfig_V5) /\ Layout(TDCoeffDMAConfig_V11)
  BY DEF DMADstConfig_V5, TDCoeffDMAConfig_V11, Layout, FieldOK, Beside
<1>12. Layout(DMADstFormat_V5)
  BY DEF DMADstFormat_V5, Layout, FieldOK, Beside
<1>13. QED
  BY <1>1, <1>2, <1>3, <1>4, <1>5, <1>6, <1>7, <1>8, <1>9, <1>10, <1>11, <1>12
     DEF Words

(* Bitfield::operator= and then operator T of the same field ... *)
LEMMA ReadsBack ==
  ASSUME NEW f, FieldOK(f), NEW w \in SUBSET Bits,
         NEW v \in SUBSET (0 .. (f[2] - 1))
  PROVE  Write(f, w, v) \in SUBSET Bits /\ Read(f, Write(f, w, v)) = v
<1>1. f[1] \in Nat /\ f[2] \in Nat /\ f[1] + f[2] <= 32 BY DEF FieldOK
<1>2. Mask(f) \subseteq Bits BY DEF Mask
<1>3. Write(f, w, v) \in SUBSET Bits BY <1>2 DEF Write
<1>4. Write(f, w, v) \cap Mask(f) = Shl(v, f[1]) \cap Mask(f) BY DEF Write
<1>5. ASSUME NEW b \in v
      PROVE  b + f[1] \in Shl(v, f[1]) \cap Mask(f) /\ (b + f[1]) - f[1] = b
  BY <1>1 DEF Shl, Mask, Bits
<1>6. ASSUME NEW b \in Shl(v, f[1]) \cap Mask(f) PROVE b - f[1] \in v
  BY <1>1 DEF Shl
<1>7. {b - f[1] : b \in Shl(v, f[1]) \cap Mask(f)} = v BY <1>5, <1>6
<1>8. QED BY <1>3, <1>4, <1>7 DEF Read

(* ... and of any other field of the word. *)
LEMMA ReadsOther ==
  ASSUME NEW f, NEW g, FieldOK(f), FieldOK(g), Beside(f, g), NEW w, NEW v
  PROVE  Read(g, Write(f, w, v)) = Read(g, w)
<1>1. Mask(f) \cap Mask(g) = {} BY DEF FieldOK, Beside, Mask, Bits
<1>2. Write(f, w, v) \cap Mask(g) = w \cap Mask(g) BY <1>1 DEF Write
<1>3. QED BY <1>2 DEF Read

(* The masks of set_nid: it assigns the nid, and the rest of what the      *)
(* header names stays.                                                     *)
LEMMA NidAssigns ==
  ASSUME NEW w \in SUBSET Bits, NEW nid \in SUBSET (0 .. 7)
  PROVE  /\ NidWord(w, nid) \in SUBSET Bits
         /\ \A g \in HeaderWord :
              Read(g, NidWord(w, nid)) = Read(g, Write(<<16, 8>>, w, nid))
<1>1. nid \cap 0 .. 7 = nid OBVIOUS
<1>2. Shl(nid, 16) \subseteq 16 .. 23 BY DEF Shl
<1>3. NidWord(w, nid) \in SUBSET Bits BY <1>1, <1>2 DEF NidWord, Bits
<1>4. Mask(<<16, 8>>) = 16 .. 23 BY DEF Mask, Bits
<1>5. Write(<<16, 8>>, w, nid) = (w \ (16 .. 23)) \cup Shl(nid, 16)
  BY <1>2, <1>4 DEF Write
<1>6. ASSUME NEW g \in HeaderWord
      PROVE  Mask(g) \subseteq 0 .. 25
  BY DEF HeaderWord, Mask, Bits
<1>7. ASSUME NEW b \in 0 .. 25
      PROVE  b \in NidWord(w, nid) <=> b \in Write(<<16, 8>>, w, nid)
  BY <1>1, <1>2, <1>5 DEF NidWord
<1>8. ASSUME NEW g \in HeaderWord
      PROVE  NidWord(w, nid) \cap Mask(g) =
               Write(<<16, 8>>, w, nid) \cap Mask(g)
  BY <1>6, <1>7
<1>9. QED BY <1>3, <1>8 DEF Read

TdInv ==
  /\ fields \in Words /\ word \in SUBSET Bits
  /\ want \in [fields -> SUBSET Bits]
  /\ Independent

(* An assignment to one field, by operator= or set_nid, changes how that   *)
(* field reads and no other.                                               *)
LEMMA OneField ==
  ASSUME TdInv, NEW f \in fields, NEW v \in SUBSET (0 .. (f[2] - 1)),
         fields' = fields, want' = [want EXCEPT ![f] = v],
         word' \in SUBSET Bits,
         \A g \in fields : Read(g, word') = Read(g, Write(f, word, v))
  PROVE  TdInv'
<1>1. Layout(fields) BY Layouts DEF TdInv
<1>2. FieldOK(f) BY <1>1 DEF Layout
<1>3. Read(f, Write(f, word, v)) = v BY <1>2, ReadsBack DEF TdInv
<1>4. ASSUME NEW g \in fields, g # f
      PROVE  Read(g, Write(f, word, v)) = Read(g, word)
  BY <1>1, <1>4, ReadsOther DEF Layout
<1>5. v \in SUBSET Bits BY <1>2 DEF FieldOK, Bits
<1>6. want' \in [fields -> SUBSET Bits] BY <1>5 DEF TdInv
<1>7. ASSUME NEW g \in fields PROVE Read(g, word') = want'[g]
  BY <1>3, <1>4 DEF TdInv, Independent
<1>8. Independent' BY <1>7 DEF Independent
<1>9. QED BY <1>6, <1>8 DEF TdInv

LEMMA TdStepInv == ASSUME TdInv, [TdNext]_td PROVE TdInv'
<1>1. CASE SetNid
  <2>1. /\ fields = HeaderWord /\ word' = NidWord(word, FifoNid)
        /\ want' = [want EXCEPT ![<<16, 8>>] = FifoNid] /\ fields' = fields
    BY <1>1 DEF SetNid
  <2>2. <<16, 8>> \in fields BY <2>1 DEF HeaderWord
  <2>3. FifoNid \in SUBSET (0 .. 7) /\ <<16, 8>>[2] - 1 = 7 BY TdAssumption
  <2>4. word \in SUBSET Bits BY DEF TdInv
  <2>5. /\ word' \in SUBSET Bits
        /\ \A g \in fields : Read(g, word') =
                               Read(g, Write(<<16, 8>>, word, FifoNid))
    BY <2>1, <2>3, <2>4, NidAssigns
  <2>6. QED BY <2>1, <2>2, <2>3, <2>5, OneField
<1>2. ASSUME NEW f \in fields, NEW v \in Values(f), Assign(f, v)
      PROVE  TdInv'
  <2>1. v \in SUBSET (0 .. (f[2] - 1)) BY DEF Values
  <2>2. /\ fields' = fields /\ want' = [want EXCEPT ![f] = v]
        /\ word' = Write(f, word, v)
    BY <1>2 DEF Assign
  <2>3. FieldOK(f) BY Layouts DEF Layout, TdInv
  <2>4. word' \in SUBSET Bits BY <2>1, <2>2, <2>3, ReadsBack DEF TdInv
  <2>5. QED BY <2>1, <2>2, <2>4, OneField
<1>3. CASE UNCHANGED td
  BY <1>3 DEF td, TdInv, Independent
<1>4. QED BY <1>1, <1>2, <1>3 DEF TdNext

LEMMA TdInitInv == TdInit => TdInv
<1> SUFFICES ASSUME TdInit PROVE TdInv OBVIOUS
<1>1. /\ fields \in Words /\ word \in SUBSET Bits
      /\ want = [f \in fields |-> Read(f, word)]
  BY TdAssumption DEF TdInit
<1>2. ASSUME NEW f \in fields PROVE Read(f, word) \in SUBSET Bits
  <2>1. f[1] \in Nat /\ f[2] \in Nat /\ f[1] + f[2] <= 32
    BY <1>1, Layouts DEF Layout, FieldOK
  <2>2. QED BY <2>1 DEF Read, Mask, Bits
<1>3. QED BY <1>1, <1>2 DEF TdInv, Independent

(* The fields of every union of the three layouts are independent          *)
(* variables, for all words that a file can hold and all values that       *)
(* operator= admits, and set_nid is an assignment to the nid: no order of  *)
(* assignments makes a field read other than it was last given.            *)
THEOREM FieldsIndependent == TdSpec => []Independent
<1>1. TdInv => Independent BY DEF TdInv
<1>2. QED BY <1>1, TdInitInv, TdStepInv, PTL DEF TdSpec

-----------------------------------------------------------------------------
(* HalfFloat.  The powers of two that a conversion meets. *)
LEMMA Powers ==
  /\ 2^0 = 1 /\ 2^1 = 2 /\ 2^2 = 4 /\ 2^3 = 8 /\ 2^4 = 16 /\ 2^5 = 32
  /\ 2^6 = 64 /\ 2^7 = 128 /\ 2^8 = 256 /\ 2^9 = 512 /\ 2^10 = 1024
  /\ 2^11 = 2048 /\ 2^12 = 4096 /\ 2^13 = 8192 /\ 2^14 = 16384
  /\ 2^15 = 32768 /\ 2^16 = 65536 /\ 2^17 = 131072 /\ 2^18 = 262144
  /\ 2^19 = 524288 /\ 2^20 = 1048576 /\ 2^21 = 2097152 /\ 2^22 = 4194304
  /\ 2^23 = 8388608 /\ 2^24 = 16777216 /\ 2^25 = 33554432
BY SMT

(* The quotient n / p rounded to the nearest integer, ties to even. *)
Nearer(n, p) ==
  LET q == Quo(n, p)
      rest == 2 * Rest(n, p)
  IN IF rest > p \/ (rest = p /\ q % 2 = 1) THEN q + 1 ELSE q

LEMMA RoundNearer ==
  ASSUME NEW n, NEW k \in Int, k <= 25
  PROVE  Round(n, k) = Nearer(n, 2^k)
<1>1. ~ k > 25 BY SMT
<1>2. QED BY SMT, <1>1 DEF Round, Nearer, Quo, Rest

(* Rounding is monotonic, and exact numbers stay. *)
LEMMA NearerMono ==
  ASSUME NEW p \in Nat \ {0}, NEW n \in Nat, NEW m \in Nat, n <= m
  PROVE  Nearer(n, p) \in Nat /\ Nearer(n, p) <= Nearer(m, p)
<1> DEFINE q == Quo(n, p)
           t == Rest(n, p)
           u == Quo(m, p)
           w == Rest(m, p)
<1>1. q \in Nat /\ t \in 0 .. (p - 1) /\ n = q * p + t
  BY SMT, Euclid DEF Splits
<1>2. u \in Nat /\ w \in 0 .. (p - 1) /\ m = u * p + w
  BY SMT, Euclid DEF Splits
<1>3. /\ Nearer(n, p) = IF 2 * t > p \/ (2 * t = p /\ q % 2 = 1) THEN q + 1 ELSE q
      /\ Nearer(m, p) = IF 2 * w > p \/ (2 * w = p /\ u % 2 = 1) THEN u + 1 ELSE u
  BY SMT DEF Nearer
<1> HIDE DEF q, t, u, w
<1>4. q * p \in Nat /\ u * p \in Nat /\ (u + 1) * p = u * p + p
  BY SMT, <1>1, <1>2, MulNat
<1>5. ~ u < q
  <2>1. SUFFICES ASSUME u + 1 <= q PROVE FALSE BY SMT, <1>1, <1>2
  <2>2. (u + 1) * p <= q * p BY SMT, <1>1, <1>2, <2>1, MulMono
  <2>3. QED BY SMT, <1>1, <1>2, <1>4, <2>2
<1>6. CASE q < u BY SMT, <1>1, <1>2, <1>3, <1>6
<1>7. CASE q = u
  <2>1. t <= w BY SMT, <1>1, <1>2, <1>4, <1>7
  <2>2. QED BY SMT, <1>1, <1>2, <1>3, <1>7, <2>1
<1>8. QED BY SMT, <1>1, <1>2, <1>5, <1>6, <1>7

LEMMA NearerExact ==
  ASSUME NEW p \in Nat \ {0}, NEW q \in Nat
  PROVE  Nearer(q * p, p) = q
<1>1. q * p \in Nat BY SMT, MulNat
<1>2. Splits(q * p, p, q, 0) BY SMT, <1>1 DEF Splits
<1>3. Quo(q * p, p) = q /\ Rest(q * p, p) = 0 BY SMT, <1>2, EuclidUnique
<1>4. QED BY SMT, <1>3 DEF Nearer

LEMMA NearerBetween ==
  ASSUME NEW p \in Nat \ {0}, NEW a \in Nat, NEW b \in Nat, NEW n \in Nat,
         a * p <= n, n <= b * p
  PROVE  Nearer(n, p) \in a .. b
<1>1. a * p \in Nat /\ b * p \in Nat BY SMT, MulNat
<1>2. /\ Nearer(a * p, p) <= Nearer(n, p) /\ Nearer(n, p) \in Nat
      /\ Nearer(n, p) <= Nearer(b * p, p)
  BY SMT, <1>1, NearerMono
<1>3. QED BY SMT, <1>2, NearerExact

(* The mantissa fields of floats, and exponent and mantissa side by side,  *)
(* as the 31 low bits of a float have them.                                *)
Mantissas == {m \in Nat : m < 8388608}
Pattern(e, m) == e * 8388608 + m

(* The conversion of the finite float with exponent field e and mantissa   *)
(* field m, and the half that the first float with exponent field E, a     *)
(* power of two, is converted to.                                          *)
Convert(e, m) == F32ToF16([E |-> e, M |-> m])
First(E) ==
  IF E <= 102 THEN 0
  ELSE IF E <= 112 THEN 2^(E - 103)
  ELSE IF E <= 142 THEN (E - 112) * 1024 ELSE Inf16

LEMMA FirstTable ==
  /\ First(102) = 0 /\ First(103) = 1 /\ First(104) = 2 /\ First(105) = 4
  /\ First(106) = 8 /\ First(107) = 16 /\ First(108) = 32 /\ First(109) = 64
  /\ First(110) = 128 /\ First(111) = 256 /\ First(112) = 512
  /\ First(113) = 1024
<1>1. First(103) = 2^0 /\ First(104) = 2^1 /\ First(105) = 2^2
  BY SMT DEF First
<1>2. First(106) = 2^3 /\ First(107) = 2^4 /\ First(108) = 2^5
  BY SMT DEF First
<1>3. First(109) = 2^6 /\ First(110) = 2^7 /\ First(111) = 2^8
  BY SMT DEF First
<1>4. First(112) = 2^9 /\ First(113) = 1024 /\ First(102) = 0
  BY SMT DEF First
<1>5. QED BY SMT, <1>1, <1>2, <1>3, <1>4, Powers

LEMMA FirstIs ==
  ASSUME NEW e \in 0 .. 255
  PROVE  /\ e <= 102 => First(e) = 0
         /\ e >= 113 /\ e <= 142 => First(e) = (e - 112) * 1024
         /\ e >= 143 => First(e) = 31744
BY SMT DEF First, Inf16

LEMMA FirstMono ==
  /\ \A i \in 0 .. 255 : First(i) \in Nat
  /\ \A i \in 0 .. 255, j \in 0 .. 255 : i <= j => First(i) <= First(j)
<1>1. ASSUME NEW e \in 0 .. 255
      PROVE  /\ e <= 102 => First(e) = 0
             /\ e >= 113 /\ e <= 142 => First(e) = (e - 112) * 1024
             /\ e >= 143 => First(e) = 31744
  BY SMT, FirstIs
<1>2. ASSUME NEW e \in 103 .. 112
      PROVE  \/ e = 103 \/ e = 104 \/ e = 105 \/ e = 106 \/ e = 107
             \/ e = 108 \/ e = 109 \/ e = 110 \/ e = 111 \/ e = 112
  BY SMT
<1>3. ASSUME NEW e \in 103 .. 112
      PROVE  First(e) \in 1 .. 512
  BY SMT, <1>2, FirstTable
<1>4. ASSUME NEW i \in 0 .. 255, NEW j \in 0 .. 255, i <= j
      PROVE  First(i) \in Nat /\ First(i) <= First(j)
  <2>1. CASE i \in 103 .. 112 /\ j \in 103 .. 112
    BY SMT, <1>2, <1>4, <2>1, FirstTable
  <2>2. CASE i \in 103 .. 112 /\ j > 112
    <3>1. First(i) \in 1 .. 512 BY SMT, <1>3, <2>2
    <3>2. First(j) \in Nat /\ First(j) >= 1024 BY SMT, <1>1, <2>2
    <3>3. QED BY SMT, <3>1, <3>2
  <2>3. CASE i \notin 103 .. 112 /\ j \in 103 .. 112
    <3>1. First(i) = 0 BY SMT, <1>1, <1>4, <2>3
    <3>2. First(j) \in 1 .. 512 BY SMT, <1>3, <2>3
    <3>3. QED BY SMT, <3>1, <3>2
  <2>4. CASE i \notin 103 .. 112 /\ j \notin 103 .. 112
    BY SMT, <1>1, <1>4, <2>4
  <2>5. QED BY SMT, <1>4, <2>1, <2>2, <2>3, <2>4
<1>5. \A i \in 0 .. 255 : i <= i OBVIOUS
<1>6. QED BY Zenon, <1>4, <1>5

(* The shifts below the normal halves. *)
Shift(e) == 2^(126 - e)
LEMMA Shifts ==
  ASSUME NEW e \in 101 .. 112
  PROVE  /\ Shift(e) \in Nat \ {0}
         /\ e >= 103 => /\ First(e) * Shift(e) = 8388608
                        /\ First(e + 1) * Shift(e) = 16777216
         /\ e = 102 => Shift(e) = 16777216
         /\ e = 101 => Shift(e) = 33554432
<1>. USE Powers, FirstTable DEF Shift
<1>1. CASE e = 101 BY SMT, <1>1
<1>2. CASE e = 102 BY SMT, <1>2
<1>3. CASE e = 103 BY SMT, <1>3
<1>4. CASE e = 104 BY SMT, <1>4
<1>5. CASE e = 105 BY SMT, <1>5
<1>6. CASE e = 106 BY SMT, <1>6
<1>7. CASE e = 107 BY SMT, <1>7
<1>8. CASE e = 108 BY SMT, <1>8
<1>9. CASE e = 109 BY SMT, <1>9
<1>10. CASE e = 110 BY SMT, <1>10
<1>11. CASE e = 111 BY SMT, <1>11
<1>12. CASE e = 112 BY SMT, <1>12
<1>13. QED
  BY SMT, <1>1, <1>2, <1>3, <1>4, <1>5, <1>6, <1>7, <1>8, <1>9, <1>10, <1>11, <1>12

(* ane_compute_f32_to_f16 without its detour through base and bias. *)
LEMMA Converts ==
  ASSUME NEW e \in 0 .. 254, NEW m \in Mantissas
  PROVE  /\ e >= 143 => Convert(e, m) = 31744
         /\ e \in 113 .. 142 =>
              Convert(e, m) = (e - 113) * 1024 + Nearer(8388608 + m, 8192)
         /\ e \in 101 .. 112 =>
              Convert(e, m) = Nearer(8388608 + m, Shift(e))
         /\ e <= 100 => Convert(e, m) = 0
<1> DEFINE bias == Max2(e, 113)
           n == IF e = 0 THEN m ELSE 8388608 + m
           k == 13 + bias - Max2(e, 1)
<1>1. m \in Nat /\ m < 8388608 /\ 8388608 + m \in Nat BY SMT DEF Mantissas
<1>2. Convert(e, m) = IF e >= 143 THEN Inf16
                      ELSE F16((bias + 15) % 32, Round(n, k))
  BY SMT, <1>1, Powers DEF Convert, F32ToF16
<1>3. CASE e >= 143 BY SMT, <1>2, <1>3 DEF Inf16
<1>4. CASE e \in 113 .. 142
  <2>1. bias = e /\ k = 13 /\ n = 8388608 + m BY SMT, <1>1, <1>4 DEF Max2
  <2>2. (e + 15) % 32 = e - 113 BY SMT, <1>4
  <2>3. Round(8388608 + m, 13) = Nearer(8388608 + m, 8192)
    BY SMT, <1>1, Powers DEF Round, Nearer, Quo, Rest
  <2>4. Convert(e, m) = F16(e - 113, Nearer(8388608 + m, 8192))
    BY SMT, <1>2, <1>4, <2>1, <2>2, <2>3
  <2>5. QED BY SMT, <1>4, <2>4 DEF F16
<1>5. CASE e \in 101 .. 112
  <2>1. bias = 113 /\ k = 126 - e /\ n = 8388608 + m BY SMT, <1>1, <1>5 DEF Max2
  <2>2. Round(8388608 + m, 126 - e) = Nearer(8388608 + m, Shift(e))
    BY SMT, <1>1, <1>5, RoundNearer DEF Shift
  <2>3. Convert(e, m) = F16(0, Nearer(8388608 + m, Shift(e)))
    BY SMT, <1>2, <1>5, <2>1, <2>2
  <2>4. Shift(e) \in Nat \ {0} BY SMT, <1>5, Shifts
  <2>5. Nearer(8388608 + m, Shift(e)) \in Nat
    BY SMT, <1>1, <2>4, NearerMono
  <2>6. QED BY SMT, <1>5, <2>3, <2>5 DEF F16
<1>6. CASE e \in 0 .. 100
  <2>1. bias = 113 /\ k > 25 BY SMT, <1>6 DEF Max2
  <2>2. Round(n, k) = 0 BY SMT, <2>1 DEF Round
  <2>3. QED BY SMT, <1>2, <1>6, <2>1, <2>2 DEF F16
<1>7. QED BY SMT, <1>3, <1>4, <1>5, <1>6

(* All floats with one exponent are converted to halves between those of   *)
(* the power of two they begin with and the next one.                      *)
LEMMA Binade ==
  ASSUME NEW e \in 0 .. 254, NEW m \in Mantissas
  PROVE  Convert(e, m) \in First(e) .. First(e + 1)
<1> DEFINE n == 8388608 + m
<1>0. n \in Nat BY SMT DEF Mantissas
<1>1. 8388608 <= n /\ n < 16777216 BY SMT DEF Mantissas
<1> HIDE DEF n
<1>2. First(e) \in Nat /\ First(e + 1) \in Nat
  <2>1. e \in 0 .. 255 /\ e + 1 \in 0 .. 255 BY SMT
  <2>2. QED BY Zenon, <2>1, FirstMono
<1>3. CASE e >= 143
  BY SMT, <1>3, Converts DEF First, Inf16
<1>4. CASE e \in 113 .. 142
  <2>1. Nearer(n, 8192) \in 1024 .. 2048
    BY SMT, <1>0, <1>1 DEF Nearer, Quo, Rest
  <2>2. Convert(e, m) = (e - 113) * 1024 + Nearer(n, 8192)
    BY SMT, <1>4, Converts DEF n
  <2>3. First(e) = (e - 112) * 1024
    <3>1. e \in 0 .. 255 BY SMT
    <3>2. QED BY SMT, <1>4, <3>1, FirstIs
  <2>4. First(e + 1) = (e - 111) * 1024 BY SMT, <1>4 DEF First, Inf16
  <2>5. QED BY SMT, <1>4, <2>1, <2>2, <2>3, <2>4
<1>5. CASE e \in 103 .. 112
  <2>1. Convert(e, m) = Nearer(n, Shift(e)) BY SMT, <1>5, Converts DEF n
  <2>2. Shift(e) \in Nat \ {0} BY SMT, <1>5, Shifts
  <2>3. First(e) * Shift(e) <= n /\ n <= First(e + 1) * Shift(e)
    BY SMT, <1>0, <1>1, <1>5, Shifts
  <2>4. Nearer(n, Shift(e)) \in First(e) .. First(e + 1)
    BY Zenon, <1>0, <1>2, <2>2, <2>3, NearerBetween
  <2>5. QED BY SMT, <2>1, <2>4
<1>6. CASE e = 102
  <2>1. Convert(e, m) = Nearer(n, 16777216)
    BY SMT, <1>6, Converts, Shifts DEF n
  <2>2. Nearer(n, 16777216) \in 0 .. 1 BY SMT, <1>0, <1>1 DEF Nearer, Quo, Rest
  <2>3. QED BY SMT, <1>6, <2>1, <2>2, FirstTable
<1>7. CASE e = 101
  <2>1. Convert(e, m) = Nearer(n, 33554432)
    BY SMT, <1>7, Converts, Shifts DEF n
  <2>2. Nearer(n, 33554432) = 0 BY SMT, <1>0, <1>1 DEF Nearer, Quo, Rest
  <2>3. First(101) = 0 /\ First(102) = 0 BY SMT DEF First
  <2>4. QED BY SMT, <1>7, <2>1, <2>2, <2>3
<1>8. CASE e \in 0 .. 100
  BY SMT, <1>8, Converts DEF First
<1>9. QED BY SMT, <1>3, <1>4, <1>5, <1>6, <1>7, <1>8

(* ane_f32_to_f16 never reverses two floats.  Exponent and mantissa side   *)
(* by side order the floats as their values do.                            *)
LEMMA ConvertMono ==
  ASSUME NEW e \in 0 .. 254, NEW m \in Mantissas,
         NEW g \in 0 .. 254, NEW l \in Mantissas,
         Pattern(e, m) <= Pattern(g, l)
  PROVE  Convert(e, m) \in Nat /\ Convert(e, m) <= Convert(g, l)
<1>0. m \in Nat /\ m < 8388608 /\ l \in Nat /\ l < 8388608 BY SMT DEF Mantissas
<1>1. e < g \/ (e = g /\ m <= l) BY SMT, <1>0 DEF Pattern
<1>2. First(e) \in Nat /\ First(e + 1) \in Nat
  <2>1. e \in 0 .. 255 /\ e + 1 \in 0 .. 255 BY SMT
  <2>2. QED BY Zenon, <2>1, FirstMono
<1>3. Convert(e, m) \in First(e) .. First(e + 1) BY Zenon, Binade
<1>4. Convert(e, m) \in Nat BY SMT, <1>2, <1>3
<1>5. CASE e < g
  <2>1. First(e + 1) <= First(g) /\ First(g) \in Nat /\ First(g + 1) \in Nat
    <3>1. e + 1 \in 0 .. 255 /\ g \in 0 .. 255 /\ g + 1 \in 0 .. 255 /\ e + 1 <= g
      BY SMT, <1>5
    <3>2. QED BY Zenon, <3>1, FirstMono
  <2>3. Convert(g, l) \in First(g) .. First(g + 1) BY Zenon, Binade
  <2>4. QED BY SMT, <1>2, <1>3, <2>1, <2>3
<1>6. CASE e = g /\ m <= l
  <2> DEFINE n == 8388608 + m
             u == 8388608 + l
  <2>1. n \in Nat /\ u \in Nat /\ n <= u BY SMT, <1>0, <1>6
  <2>2. CASE e >= 143 BY SMT, <1>6, <2>2, Converts
  <2>3. CASE e \in 113 .. 142
    <3>1. /\ Convert(e, m) = (e - 113) * 1024 + Nearer(n, 8192)
          /\ Convert(g, l) = (e - 113) * 1024 + Nearer(u, 8192)
      BY SMT, <1>6, <2>3, Converts
    <3>2. Nearer(n, 8192) \in Nat /\ Nearer(n, 8192) <= Nearer(u, 8192)
      BY SMT, <2>1, NearerMono
    <3>3. Nearer(u, 8192) \in Nat BY SMT, <2>1, NearerMono
    <3> HIDE DEF n, u
    <3>4. QED BY SMT, <1>4, <2>3, <3>1, <3>2, <3>3
  <2>4. CASE e \in 101 .. 112
    <3>1. /\ Convert(e, m) = Nearer(n, Shift(e))
          /\ Convert(g, l) = Nearer(u, Shift(e))
      BY SMT, <1>6, <2>4, Converts
    <3>2. Shift(e) \in Nat \ {0} BY SMT, <2>4, Shifts
    <3> HIDE DEF n, u
    <3>3. QED BY SMT, <1>4, <2>1, <3>1, <3>2, NearerMono
  <2>5. CASE e \in 0 .. 100 BY SMT, <1>6, <2>5, Converts
  <2>6. QED BY SMT, <2>2, <2>3, <2>4, <2>5
<1>7. QED BY SMT, <1>1, <1>5, <1>6

(* The position of the leading bit of a number. *)
Lead(k) == 2^k
Small == 1 .. 2047
LEMMA LeadTable ==
  /\ Lead(0) = 1 /\ Lead(1) = 2 /\ Lead(2) = 4 /\ Lead(3) = 8 /\ Lead(4) = 16
  /\ Lead(5) = 32 /\ Lead(6) = 64 /\ Lead(7) = 128 /\ Lead(8) = 256
  /\ Lead(9) = 512 /\ Lead(10) = 1024 /\ Lead(11) = 2048
BY SMT, Powers DEF Lead

LEMMA LeadAbove ==
  ASSUME NEW j \in 11 .. 23
  PROVE  Lead(j) \in Nat /\ Lead(j) >= 2048
<1>1. \/ j = 11 \/ j = 12 \/ j = 13 \/ j = 14 \/ j = 15 \/ j = 16 \/ j = 17
      \/ j = 18 \/ j = 19 \/ j = 20 \/ j = 21 \/ j = 22 \/ j = 23
  BY SMT
<1>2. Lead(11) = 2^11 /\ Lead(12) = 2^12 /\ Lead(13) = 2^13 /\ Lead(14) = 2^14
  BY SMT DEF Lead
<1>3. Lead(15) = 2^15 /\ Lead(16) = 2^16 /\ Lead(17) = 2^17 /\ Lead(18) = 2^18
  BY SMT DEF Lead
<1>4. Lead(19) = 2^19 /\ Lead(20) = 2^20 /\ Lead(21) = 2^21 /\ Lead(22) = 2^22
  BY SMT DEF Lead
<1>5. Lead(23) = 2^23 BY SMT DEF Lead
<1>6. QED BY SMT, <1>1, <1>2, <1>3, <1>4, <1>5, Powers

LEMMA Leads ==
  ASSUME NEW k \in 0 .. 10
  PROVE  /\ Lead(k) \in Nat \ {0} /\ Lead(k + 1) = 2 * Lead(k) /\ Lead(k) <= 1024
         /\ k > 0 => Lead(k) % 2 = 0
         /\ Shift(103 + k) \in Nat /\ Shift(103 + k) >= 8192
         /\ Shift(102 + k) = 2 * Shift(103 + k)
         /\ Lead(k) * Shift(103 + k) = 8388608
<1>. USE Powers DEF Shift, Lead
<1>1. CASE k = 0 BY SMT, <1>1
<1>2. CASE k = 1 BY SMT, <1>2
<1>3. CASE k = 2 BY SMT, <1>3
<1>4. CASE k = 3 BY SMT, <1>4
<1>5. CASE k = 4 BY SMT, <1>5
<1>6. CASE k = 5 BY SMT, <1>6
<1>7. CASE k = 6 BY SMT, <1>7
<1>8. CASE k = 7 BY SMT, <1>8
<1>9. CASE k = 8 BY SMT, <1>9
<1>10. CASE k = 9 BY SMT, <1>10
<1>11. CASE k = 10 BY SMT, <1>11
<1>12. QED
  BY SMT, <1>1, <1>2, <1>3, <1>4, <1>5, <1>6, <1>7, <1>8, <1>9, <1>10, <1>11

LEMMA Leading ==
  ASSUME NEW n \in Small
  PROVE  \E k \in 0 .. 10 : Lead(k) <= n /\ n < Lead(k + 1)
<1>1. CASE n \in 1 .. 1
  <2>1. 0 \in 0 .. 10 /\ Lead(0) <= n /\ n < Lead(0 + 1)
    BY SMT, <1>1, LeadTable
  <2>2. QED BY Zenon, <2>1
<1>2. CASE n \in 2 .. 3
  <2>1. 1 \in 0 .. 10 /\ Lead(1) <= n /\ n < Lead(1 + 1)
    BY SMT, <1>2, LeadTable
  <2>2. QED BY Zenon, <2>1
<1>3. CASE n \in 4 .. 7
  <2>1. 2 \in 0 .. 10 /\ Lead(2) <= n /\ n < Lead(2 + 1)
    BY SMT, <1>3, LeadTable
  <2>2. QED BY Zenon, <2>1
<1>4. CASE n \in 8 .. 15
  <2>1. 3 \in 0 .. 10 /\ Lead(3) <= n /\ n < Lead(3 + 1)
    BY SMT, <1>4, LeadTable
  <2>2. QED BY Zenon, <2>1
<1>5. CASE n \in 16 .. 31
  <2>1. 4 \in 0 .. 10 /\ Lead(4) <= n /\ n < Lead(4 + 1)
    BY SMT, <1>5, LeadTable
  <2>2. QED BY Zenon, <2>1
<1>6. CASE n \in 32 .. 63
  <2>1. 5 \in 0 .. 10 /\ Lead(5) <= n /\ n < Lead(5 + 1)
    BY SMT, <1>6, LeadTable
  <2>2. QED BY Zenon, <2>1
<1>7. CASE n \in 64 .. 127
  <2>1. 6 \in 0 .. 10 /\ Lead(6) <= n /\ n < Lead(6 + 1)
    BY SMT, <1>7, LeadTable
  <2>2. QED BY Zenon, <2>1
<1>8. CASE n \in 128 .. 255
  <2>1. 7 \in 0 .. 10 /\ Lead(7) <= n /\ n < Lead(7 + 1)
    BY SMT, <1>8, LeadTable
  <2>2. QED BY Zenon, <2>1
<1>9. CASE n \in 256 .. 511
  <2>1. 8 \in 0 .. 10 /\ Lead(8) <= n /\ n < Lead(8 + 1)
    BY SMT, <1>9, LeadTable
  <2>2. QED BY Zenon, <2>1
<1>10. CASE n \in 512 .. 1023
  <2>1. 9 \in 0 .. 10 /\ Lead(9) <= n /\ n < Lead(9 + 1)
    BY SMT, <1>10, LeadTable
  <2>2. QED BY Zenon, <2>1
<1>11. CASE n \in 1024 .. 2047
  <2>1. 10 \in 0 .. 10 /\ Lead(10) <= n /\ n < Lead(10 + 1)
    BY SMT, <1>11, LeadTable
  <2>2. QED BY Zenon, <2>1
<1>12. QED
  BY SMT, <1>1, <1>2, <1>3, <1>4, <1>5, <1>6, <1>7, <1>8, <1>9, <1>10, <1>11
  DEF Small

LEMMA OnlyLead ==
  ASSUME NEW n \in Small, NEW k \in 0 .. 10, Lead(k) <= n, n < Lead(k + 1),
         NEW j \in 0 .. 23, Lead(j) <= n, n < Lead(j + 1)
  PROVE  j = k
<1>1. \/ j = 0 \/ j = 1 \/ j = 2 \/ j = 3 \/ j = 4 \/ j = 5 \/ j = 6 \/ j = 7
      \/ j = 8 \/ j = 9 \/ j = 10 \/ j \in 11 .. 23
  BY SMT
<1>2. \/ k = 0 \/ k = 1 \/ k = 2 \/ k = 3 \/ k = 4 \/ k = 5 \/ k = 6 \/ k = 7
      \/ k = 8 \/ k = 9 \/ k = 10
  BY SMT
<1>3. n \in Nat /\ n < 2048
  BY SMT DEF Small
<1>4. ~ j \in 11 .. 23 BY SMT, <1>3, LeadAbove
<1>5. QED BY SMT, <1>1, <1>2, <1>3, <1>4, LeadTable

LEMMA NormalIs ==
  ASSUME NEW n \in Small, NEW E0 \in Int, NEW k \in 0 .. 10,
         Lead(k) <= n, n < Lead(k + 1)
  PROVE  Normal(n, E0) = [E |-> E0 - 23 + k, M |-> (n - Lead(k)) * Shift(103 + k)]
<1>1. \A j \in 0 .. 23 : 2^j <= n /\ n < 2^(j + 1) => j = k
  BY Zenon, OnlyLead DEF Lead
<1>2. k \in 0 .. 23 BY SMT
<1>3. 2^k <= n /\ n < 2^(k + 1) BY Zenon DEF Lead
<1>4. (CHOOSE j \in 0 .. 23 : 2^j <= n /\ n < 2^(j + 1)) = k
  BY Zenon, <1>1, <1>2, <1>3
<1>5. 126 - (103 + k) = 23 - k BY SMT
<1>6. Shift(103 + k) = 2^(23 - k) BY Zenon, <1>5 DEF Shift
<1>7. QED BY Zenon, <1>4, <1>6 DEF Normal, Lead

(* Halfway, and just beside it. *)
Off == {-1, 0, 1}
LEMMA Offs == -1 \in Off /\ 0 \in Off /\ 1 \in Off
BY SMT DEF Off

LEMMA NearerHalf ==
  ASSUME NEW w \in Nat, NEW p \in Nat, p > 1, NEW x \in Off,
         NEW u, u = 2 * w + 1
  PROVE  Nearer(u * p + x, 2 * p) =
           IF x = 1 \/ (x = 0 /\ w % 2 = 1) THEN w + 1 ELSE w
<1> DEFINE n == u * p + x
<1>1. 2 * p \in Nat \ {0} /\ w * (2 * p) \in Nat BY SMT, MulNat
<1>2. n = w * (2 * p) + (p + x) BY SMT DEF Off
<1>3. p + x \in 0 .. (2 * p - 1) BY SMT DEF Off
<1>4. n \in Nat BY SMT, <1>1, <1>2, <1>3
<1>5. Splits(n, 2 * p, w, p + x) BY SMT, <1>1, <1>2, <1>3 DEF Splits
<1>6. Quo(n, 2 * p) = w /\ Rest(n, 2 * p) = p + x
  BY SMT, <1>1, <1>3, <1>4, <1>5, EuclidUnique
<1> HIDE DEF n
<1>7. Nearer(n, 2 * p) = IF 2 * (p + x) > 2 * p \/ (2 * (p + x) = 2 * p /\ w % 2 = 1)
                         THEN w + 1 ELSE w
  BY Zenon, <1>6 DEF Nearer
<1>8. QED BY SMT, <1>7 DEF n, Off

(* The mantissa field of Normal, and the integer it stands for. *)
LEMMA Significand ==
  ASSUME NEW n \in Small, NEW k \in 0 .. 10, Lead(k) <= n, n < Lead(k + 1),
         NEW m, m = (n - Lead(k)) * Shift(103 + k)
  PROVE  /\ m \in Nat /\ m + 8192 <= 8388608
         /\ 8388608 + m = n * Shift(103 + k)
         /\ m = 0 \/ m >= 8192
         /\ m = 0 => n = Lead(k)
<1> DEFINE S == Shift(103 + k)
           L == Lead(k)
           d == n - L
<1>1. n \in Nat BY SMT DEF Small
<1>2. L \in Nat /\ S \in Nat /\ S >= 8192 /\ L * S = 8388608 BY SMT, Leads
<1>3. n < 2 * L BY SMT, Leads
<1>4. d \in Nat /\ n = d + L /\ d + 1 <= L BY SMT, <1>1, <1>2, <1>3
<1>5. m = d * S OBVIOUS
<1> HIDE DEF S, L, d
<1>6. d * S \in Nat /\ (d + 1) * S = d * S + S BY SMT, <1>2, <1>4, MulNat
<1>7. (d + 1) * S <= L * S BY SMT, <1>2, <1>4, MulMono
<1>8. n * S = d * S + L * S BY SMT, <1>2, <1>4
<1>9. d > 0 => d * S >= 8192
  <2>1. SUFFICES ASSUME 1 <= d PROVE d * S >= 8192 BY SMT, <1>4
  <2>2. 1 * S <= d * S BY SMT, <1>2, <1>4, <2>1, MulMono
  <2>3. QED BY SMT, <1>2, <1>6, <2>2
<1>10. d = 0 => d * S = 0 BY SMT, <1>2
<1>11. m \in Nat /\ m + 8192 <= 8388608 BY SMT, <1>2, <1>5, <1>6, <1>7
<1>12. 8388608 + m = n * S BY SMT, <1>2, <1>5, <1>6, <1>8
<1>13. m = 0 \/ m >= 8192 BY SMT, <1>4, <1>5, <1>9, <1>10
<1>14. m = 0 => n = L BY SMT, <1>2, <1>4, <1>5, <1>9
<1>15. QED BY SMT, <1>11, <1>12, <1>13, <1>14 DEF S, L

(* A denormal half becomes a normal float, and comes back. *)
Denormals == 0 .. 1023

LEMMA DenormalBack ==
  ASSUME NEW w \in Denormals, w # 0
  PROVE  F32ToF16(Normal(w, 126)) = w
<1>1. w \in Small /\ w \in Nat /\ w < 1024 BY SMT DEF Small, Denormals
<1>2. PICK k \in 0 .. 10 : Lead(k) <= w /\ w < Lead(k + 1) BY SMT, <1>1, Leading
<1> DEFINE S == Shift(103 + k)
           m == (w - Lead(k)) * S
<1>3. Lead(10) = 1024 BY SMT, LeadTable
<1>4. k \in 0 .. 9 BY SMT, <1>1, <1>2, <1>3
<1>5. 126 - 23 + k = 103 + k BY SMT
<1>6. Normal(w, 126) = [E |-> 103 + k, M |-> m]
  BY SMT, <1>1, <1>2, <1>5, NormalIs
<1>7. m \in Nat /\ m + 8192 <= 8388608 /\ 8388608 + m = w * S
  BY SMT, <1>1, <1>2, Significand
<1> HIDE DEF m
<1>8. m \in Mantissas BY SMT, <1>7 DEF Mantissas
<1>9. 103 + k \in 101 .. 112 /\ 103 + k \in 0 .. 254 BY SMT, <1>4
<1>10. S \in Nat \ {0} BY SMT, Leads
<1>11. Convert(103 + k, m) = Nearer(8388608 + m, S) BY SMT, <1>8, <1>9, Converts
<1> HIDE DEF S
<1>12. Nearer(w * S, S) = w BY SMT, <1>1, <1>10, NearerExact
<1>13. Convert(103 + k, m) = w BY SMT, <1>7, <1>11, <1>12
<1>14. QED BY Zenon, <1>6, <1>13 DEF Convert

(* The float halfway between two halves has exponent field e and mantissa  *)
(* field m: it is converted to the even one, and the floats beside it to   *)
(* the nearer one.                                                         *)
Halfway(w, e, m) ==
  /\ e \in 102 .. 142 /\ m \in Nat /\ m + 1 < 8388608
  /\ m = 0 => e = 102 /\ w = 0
  /\ Convert(e, m) = IF w % 2 = 0 THEN w ELSE w + 1
  /\ Convert(e, m + 1) = w + 1
  /\ m > 0 => Convert(e, m - 1) = w

LEMMA DenormalHalfway ==
  ASSUME NEW w \in Denormals
  PROVE  \E e, m : Midpoint(w) = [E |-> e, M |-> m] /\ Halfway(w, e, m)
<1> DEFINE n == 2 * w + 1
<1>0. n = 2 * w + 1 OBVIOUS
<1>1. n \in Small /\ n \in Nat /\ w \in Nat BY SMT DEF Small, Denormals
<1>2. PICK k \in 0 .. 10 : Lead(k) <= n /\ n < Lead(k + 1) BY Zenon, <1>1, Leading
<1> DEFINE S == Shift(103 + k)
           m == (n - Lead(k)) * S
           e == 102 + k
<1>3. 125 - 23 + k = e BY SMT
<1>4. Midpoint(w) = Normal(n, 125) BY SMT DEF Midpoint, Denormals
<1>5. Normal(n, 125) = [E |-> e, M |-> m]
  BY SMT, <1>1, <1>2, <1>3, NormalIs
<1>6. m \in Nat /\ m + 8192 <= 8388608 /\ 8388608 + m = n * S
  BY SMT, <1>1, <1>2, Significand
<1>7. (m = 0 \/ m >= 8192) /\ (m = 0 => n = Lead(k))
  BY SMT, <1>1, <1>2, Significand
<1>8. S \in Nat /\ S > 1 /\ Shift(e) = 2 * S /\ (k > 0 => Lead(k) % 2 = 0)
  BY SMT, Leads
<1>9. k = 0 => Lead(k) = 1 BY SMT, LeadTable
<1>10. e \in 102 .. 112 /\ e \in 101 .. 112 /\ e \in 0 .. 254 /\ (k = 0 => e = 102) BY SMT
<1>11. m = 0 => e = 102 /\ w = 0
  <2>1. SUFFICES ASSUME n = Lead(k) PROVE e = 102 /\ w = 0 BY Zenon, <1>7
  <2>2. n % 2 = 1 BY SMT, <1>1
  <2>3. k = 0 BY SMT, <1>1, <1>8, <2>1, <2>2
  <2>4. QED BY SMT, <1>1, <1>9, <1>10, <2>1, <2>3
<1> HIDE DEF m, e, S
<1>12. ASSUME NEW x \in Off, m + x \in Mantissas
       PROVE  Convert(e, m + x) = IF x = 1 \/ (x = 0 /\ w % 2 = 1) THEN w + 1 ELSE w
  <2>1. Convert(e, m + x) = Nearer(8388608 + (m + x), Shift(e))
    BY SMT, <1>10, <1>12, Converts
  <2>2. 8388608 + (m + x) = n * S + x BY SMT, <1>6 DEF Off
  <2> HIDE DEF n
  <2>0. S \in Nat /\ S > 1 BY Zenon, <1>8
  <2>3. Nearer(n * S + x, 2 * S) = IF x = 1 \/ (x = 0 /\ w % 2 = 1) THEN w + 1 ELSE w
    BY Zenon, <1>0, <1>1, <2>0, NearerHalf
  <2>4. Convert(e, m + x) = Nearer(n * S + x, 2 * S) BY SMT, <1>8, <2>1, <2>2
  <2>5. QED BY Zenon, <2>3, <2>4
<1>13. Convert(e, m) = IF w % 2 = 0 THEN w ELSE w + 1
  <2>1. m + 0 = m /\ m + 0 \in Mantissas BY SMT, <1>6 DEF Mantissas
  <2>2. Convert(e, m + 0) = IF 0 = 1 \/ (0 = 0 /\ w % 2 = 1) THEN w + 1 ELSE w
    BY SMT, <1>12, Offs, <2>1
  <2>3. QED BY SMT, <1>1, <2>1, <2>2
<1>14. Convert(e, m + 1) = w + 1
  <2>1. m + 1 \in Mantissas BY SMT, <1>6 DEF Mantissas
  <2>2. QED BY SMT, <1>12, Offs, <2>1
<1>15. m > 0 => Convert(e, m - 1) = w
  <2>1. SUFFICES ASSUME m > 0 PROVE Convert(e, m - 1) = w OBVIOUS
  <2>2. m - 1 = m + (-1) /\ m + (-1) \in Mantissas BY SMT, <1>6, <2>1 DEF Mantissas
  <2>3. QED BY SMT, <1>12, Offs, <2>2
<1>16. e \in 102 .. 142 /\ m \in Nat /\ m + 1 < 8388608 BY SMT, <1>6, <1>10
<1>17. Halfway(w, e, m) BY SMT, <1>11, <1>13, <1>14, <1>15, <1>16 DEF Halfway
<1>18. QED BY Zenon, <1>4, <1>5, <1>17

(* A normal half keeps its mantissa, and only its exponent is moved. *)
Normals == {w \in Nat : 1024 <= w /\ w < 31744}
NormalIn(w, h, low) ==
  /\ h \in 1 .. 30 /\ low \in Nat /\ low < 1024 /\ w = h * 1024 + low
  /\ F16ToF32(w) = [E |-> h + 112, M |-> low * 8192]
  /\ Midpoint(w) = [E |-> h + 112, M |-> low * 8192 + 4096]
LEMMA NormalFloat ==
  ASSUME NEW w \in Normals
  PROVE  \E h, low : NormalIn(w, h, low)
<1>0. w \in Nat /\ 1024 <= w /\ w < 31744 BY SMT DEF Normals
<1> DEFINE h == w \div 1024
           low == w % 1024
<1>1. h \in 1 .. 30 BY SMT, <1>0
<1>2. low \in Nat /\ low < 1024 /\ w = h * 1024 + low BY SMT, <1>0
<1>3. F16ToF32(w) = [E |-> h + 112, M |-> low * 8192]
  BY SMT, <1>0, <1>1, Powers DEF F16ToF32
<1>4. ~ w < 1024 BY SMT, <1>0
<1> HIDE DEF h, low
<1>5. Midpoint(w) = [E |-> h + 112, M |-> low * 8192 + 4096]
  BY SMT, <1>3, <1>4, Powers DEF Midpoint
<1>6. NormalIn(w, h, low) BY SMT, <1>1, <1>2, <1>3, <1>5 DEF NormalIn
<1>7. QED BY Zenon, <1>6

LEMMA NormalConvert ==
  ASSUME NEW h \in 1 .. 30, NEW v \in Nat, v < 8388608
  PROVE  Convert(h + 112, v) = (h - 1) * 1024 + Nearer(8388608 + v, 8192)
<1>1. h + 112 \in 0 .. 254 /\ h + 112 \in 113 .. 142 /\ v \in Mantissas
  BY SMT DEF Mantissas
<1>2. h + 112 - 113 = h - 1 BY SMT
<1>3. QED BY SMT, <1>1, <1>2, Converts

LEMMA NormalBack ==
  ASSUME NEW w \in Normals
  PROVE  F32ToF16(F16ToF32(w)) = w
<1>0. PICK h, low : NormalIn(w, h, low) BY Zenon, NormalFloat
<1>1. /\ h \in 1 .. 30 /\ low \in Nat /\ low < 1024 /\ w = h * 1024 + low
      /\ F16ToF32(w) = [E |-> h + 112, M |-> low * 8192]
  BY SMT, <1>0 DEF NormalIn
<1>2. low * 8192 \in Nat /\ low * 8192 < 8388608 BY SMT, <1>1
<1>3. Convert(h + 112, low * 8192) = (h - 1) * 1024 + Nearer(8388608 + low * 8192, 8192)
  BY SMT, <1>1, <1>2, NormalConvert
<1>4. Nearer(8388608 + low * 8192, 8192) = 1024 + low
  BY SMT, <1>1 DEF Nearer, Quo, Rest
<1>5. Convert(h + 112, low * 8192) = w BY SMT, <1>1, <1>3, <1>4
<1>6. QED BY SMT, <1>1, <1>5 DEF Convert

LEMMA NormalHalfway ==
  ASSUME NEW w \in Normals
  PROVE  \E e, m : Midpoint(w) = [E |-> e, M |-> m] /\ Halfway(w, e, m)
<1>0. PICK h, low : NormalIn(w, h, low) BY Zenon, NormalFloat
<1>1. /\ h \in 1 .. 30 /\ low \in Nat /\ low < 1024 /\ w = h * 1024 + low
      /\ Midpoint(w) = [E |-> h + 112, M |-> low * 8192 + 4096]
  BY SMT, <1>0 DEF NormalIn
<1> DEFINE e == h + 112
           m == low * 8192 + 4096
<1>2. /\ m \in Nat /\ m > 0 /\ m + 1 < 8388608
      /\ m - 1 \in Nat /\ m - 1 < 8388608 /\ m < 8388608
  BY SMT, <1>1
<1>3. /\ Convert(e, m) = (h - 1) * 1024 + Nearer(8388608 + m, 8192)
      /\ Convert(e, m + 1) = (h - 1) * 1024 + Nearer(8388608 + (m + 1), 8192)
      /\ Convert(e, m - 1) = (h - 1) * 1024 + Nearer(8388608 + (m - 1), 8192)
  <2> HIDE DEF m
  <2>1. m + 1 \in Nat BY SMT, <1>2
  <2>2. QED BY SMT, <1>1, <1>2, <2>1, NormalConvert
<1>4. Nearer(8388608 + m, 8192) = IF (1024 + low) % 2 = 1 THEN 1025 + low ELSE 1024 + low
  BY SMT, <1>1 DEF Nearer, Quo, Rest
<1>5. Nearer(8388608 + (m + 1), 8192) = 1025 + low BY SMT, <1>1 DEF Nearer, Quo, Rest
<1>6. Nearer(8388608 + (m - 1), 8192) = 1024 + low BY SMT, <1>1 DEF Nearer, Quo, Rest
<1>7. w \in Nat /\ w = (h - 1) * 1024 + 1024 + low BY SMT, <1>1
<1>8. w % 2 = (1024 + low) % 2 BY SMT, <1>1
<1>12. e \in 102 .. 142 BY SMT, <1>1
<1> HIDE DEF m, e
<1>9. Convert(e, m + 1) = w + 1 /\ Convert(e, m - 1) = w
  BY SMT, <1>1, <1>3, <1>5, <1>6
<1>10. Convert(e, m) = IF w % 2 = 0 THEN w ELSE w + 1
  <2>1. Convert(e, m) = (h - 1) * 1024 + Nearer(8388608 + m, 8192) BY SMT, <1>3
  <2>2. CASE (1024 + low) % 2 = 1
    <3>1. w % 2 # 0 /\ Convert(e, m) = w + 1 BY SMT, <1>1, <1>4, <1>8, <2>1, <2>2
    <3>2. QED BY SMT, <3>1
  <2>3. CASE (1024 + low) % 2 = 0
    <3>1. w % 2 = 0 /\ Convert(e, m) = w BY SMT, <1>1, <1>4, <1>8, <2>1, <2>3
    <3>2. QED BY SMT, <3>1
  <2>4. QED BY SMT, <1>1, <2>2, <2>3
<1>11. Halfway(w, e, m) BY SMT, <1>2, <1>9, <1>10, <1>12 DEF Halfway
<1>13. QED BY SMT, <1>1, <1>11 DEF e, m

(* Between every two halves there is the float halfway, denormals and the  *)
(* step to infinity included.                                              *)
Finite == {w \in Nat : w < 31744}
LEMMA Midpoints ==
  ASSUME NEW w \in Finite
  PROVE  \E e, m : Midpoint(w) = [E |-> e, M |-> m] /\ Halfway(w, e, m)
<1>1. w \in Denormals \/ w \in Normals BY SMT DEF Finite, Denormals, Normals
<1>2. QED BY Zenon, <1>1, DenormalHalfway, NormalHalfway

(* The last float below 2^-25 becomes zero. *)
LEMMA LastToZero == Convert(101, 8388607) = 0
<1>1. 8388607 \in Mantissas /\ 101 \in 0 .. 254 /\ 101 \in 101 .. 112
  BY SMT DEF Mantissas
<1>2. Convert(101, 8388607) = Nearer(8388608 + 8388607, Shift(101))
  BY SMT, <1>1, Converts
<1>3. Shift(101) = 33554432 BY SMT, <1>1, Shifts
<1>4. Nearer(16777215, 33554432) = 0 BY SMT DEF Nearer, Quo, Rest
<1>5. QED BY SMT, <1>2, <1>3, <1>4

(* A tie goes to the even half, its neighbours to the nearer one. *)
LEMMA Ties ==
  ASSUME NEW w \in Finite
  PROVE  /\ F32ToF16(Midpoint(w)) = IF w % 2 = 0 THEN w ELSE w + 1
         /\ F32ToF16(Succ(Midpoint(w))) = w + 1
         /\ F32ToF16(Pred(Midpoint(w))) = w
<1>1. PICK e, m : Midpoint(w) = [E |-> e, M |-> m] /\ Halfway(w, e, m)
  BY Zenon, Midpoints
<1>2. e \in Nat /\ m \in Nat /\ m + 1 < 8388608 BY SMT, <1>1 DEF Halfway
<1>3. F32ToF16(Midpoint(w)) = IF w % 2 = 0 THEN w ELSE w + 1
  BY SMT, <1>1 DEF Halfway, Convert
<1>4. F32ToF16(Succ(Midpoint(w))) = w + 1
  <2>1. Succ([E |-> e, M |-> m]) = [E |-> e, M |-> m + 1]
    BY SMT, <1>2, Powers DEF Succ
  <2>2. Convert(e, m + 1) = w + 1 BY SMT, <1>1 DEF Halfway
  <2>3. QED BY SMT, <1>1, <2>1, <2>2 DEF Convert
<1>5. CASE m > 0
  <2>1. Pred([E |-> e, M |-> m]) = [E |-> e, M |-> m - 1]
    BY SMT, <1>2, <1>5, Powers DEF Pred
  <2>2. Convert(e, m - 1) = w BY SMT, <1>1, <1>5 DEF Halfway
  <2>3. F32ToF16(Pred(Midpoint(w))) = w BY SMT, <1>1, <2>1, <2>2 DEF Convert
  <2>4. QED BY SMT, <1>3, <1>4, <2>3
<1>6. CASE m = 0
  <2>1. e = 102 /\ w = 0 BY SMT, <1>1, <1>6 DEF Halfway
  <2>2. Pred([E |-> e, M |-> m]) = [E |-> 101, M |-> 8388607]
    BY SMT, <1>2, <1>6, <2>1, Powers DEF Pred
  <2>3. Convert(101, 8388607) = 0 BY SMT, LastToZero
  <2>4. F32ToF16(Pred(Midpoint(w))) = w BY SMT, <1>1, <2>1, <2>2, <2>3 DEF Convert
  <2>5. QED BY SMT, <1>3, <1>4, <2>4
<1>7. QED BY SMT, <1>2, <1>5, <1>6

(* Every half comes back. *)
Halves == {w \in Nat : w < 32768}
LEMMA Back ==
  ASSUME NEW w \in Halves
  PROVE  F32ToF16(F16ToF32(w)) = IF w > Inf16 THEN NaN16 ELSE w
<1>0. w \in Nat /\ w < 32768 BY SMT DEF Halves
<1>1. CASE w = 0
  <2>1. F16ToF32(0) = [E |-> 0, M |-> 0] BY SMT DEF F16ToF32
  <2>2. Max2(0, 113) = 113 /\ Max2(0, 1) = 1 /\ (113 + 15) % 32 = 0 BY SMT DEF Max2
  <2>3. Round(0, 13 + 113 - 1) = 0 BY SMT DEF Round
  <2>4. F32ToF16([E |-> 0, M |-> 0]) = 0 BY SMT, <2>2, <2>3 DEF F32ToF16, F16
  <2>5. QED BY SMT, <1>1, <2>1, <2>4 DEF Inf16
<1>2. CASE w \in Denormals /\ w # 0
  <2>1. F16ToF32(w) = Normal(w, 126) BY SMT, <1>2 DEF F16ToF32, Denormals
  <2>2. F32ToF16(F16ToF32(w)) = w BY Zenon, <1>2, <2>1, DenormalBack
  <2>3. QED BY SMT, <1>2, <2>2 DEF Inf16, Denormals
<1>3. CASE w \in Normals
  <2>1. F32ToF16(F16ToF32(w)) = w BY SMT, <1>3, NormalBack
  <2>2. QED BY SMT, <1>3, <2>1 DEF Inf16, Normals
<1>4. CASE w \notin Finite
  <2>0. w >= 31744 BY SMT, <1>0, <1>4 DEF Finite
  <2>1. F16ToF32(w) = [E |-> 255, M |-> (w - 31744) * 8192]
    <3>1. w \div 1024 = 31 /\ w % 1024 = w - 31744 BY SMT, <1>0, <2>0
    <3>2. QED BY SMT, <1>0, <3>1, Powers DEF F16ToF32
  <2>2. (w - 31744) * 8192 > 0 <=> w > 31744 BY SMT, <1>0, <2>0
  <2>3. F32ToF16([E |-> 255, M |-> (w - 31744) * 8192]) =
          IF (w - 31744) * 8192 > 0 THEN NaN16 ELSE Inf16
    BY SMT DEF F32ToF16
  <2>4. QED BY SMT, <1>0, <2>0, <2>1, <2>2, <2>3 DEF Inf16
<1>5. w = 0 \/ (w \in Denormals /\ w # 0) \/ w \in Normals \/ w \notin Finite
  BY SMT, <1>0 DEF Denormals, Normals, Finite
<1>6. QED BY Zenon, <1>1, <1>2, <1>3, <1>4, <1>5

(* The float that ToF32 makes. *)
FloatAt(w, p) ==
  CASE p = "at" -> F16ToF32(w)
    [] p = "below" -> Pred(Midpoint(w))
    [] p = "tie" -> Midpoint(w)
    [] p = "above" -> Succ(Midpoint(w))

HalfInv ==
  /\ half \in 0 .. F16(31, 1023)
  /\ place \in IF half < Inf16 THEN Places ELSE {"at"}
  /\ at \in {"half", "float", "done"}
  /\ at # "half" => float = FloatAt(half, place)
  /\ at = "done" => back = F32ToF16(float)

LEMMA HalfStepInv == ASSUME HalfInv, [HalfNext]_halfVars PROVE HalfInv'
<1>1. CASE ToF32 BY Zenon, <1>1 DEF HalfInv, ToF32, FloatAt
<1>2. CASE ToF16 BY Zenon, <1>2 DEF HalfInv, ToF16
<1>3. CASE UNCHANGED halfVars BY Zenon, <1>3 DEF HalfInv, halfVars
<1>4. QED BY Zenon, <1>1, <1>2, <1>3 DEF HalfNext

(* What is converted is the float that the half and the place stand for. *)
THEOREM HalfInvariance == HalfSpec => []HalfInv
<1>1. HalfInit => HalfInv BY Zenon DEF HalfInit, HalfInv
<1>2. QED BY <1>1, HalfStepInv, PTL DEF HalfSpec

(* ane_f32_to_f16 undoes ane_f16_to_f32, for every half. *)
THEOREM HalvesSurvive == HalfSpec => []HalfRoundTrip
<1>1. HalfInv => HalfRoundTrip
  <2>1. SUFFICES ASSUME HalfInv, at = "done", place = "at"
                 PROVE  back = IF half > Inf16 THEN NaN16 ELSE half
    BY Zenon DEF HalfRoundTrip
  <2>2. half \in Halves BY SMT, <2>1 DEF HalfInv, F16, Halves
  <2>3. back = F32ToF16(F16ToF32(half)) BY Zenon, <2>1 DEF HalfInv, FloatAt
  <2>4. QED BY Zenon, <2>2, <2>3, Back
<1>2. QED BY <1>1, HalfInvariance, PTL

(* ane_f32_to_f16 rounds to the nearest half and a tie to the even one, at *)
(* and beside every float halfway between two halves.                      *)
THEOREM HalvesNearest == HalfSpec => []Nearest
<1>1. HalfInv => Nearest
  <2>1. SUFFICES ASSUME HalfInv, at = "done", place # "at" PROVE Nearest
    BY Zenon DEF Nearest
  <2>2. half \in Nat /\ half < Inf16 BY SMT, <2>1 DEF HalfInv, F16
  <2>3. half \in Finite
    <3>1. Inf16 = 31744 BY SMT DEF Inf16
    <3>2. half < 31744 BY SMT, <2>2, <3>1
    <3>3. QED BY SMT, <2>2, <3>2 DEF Finite
  <2>4. back = F32ToF16(FloatAt(half, place)) BY Zenon, <2>1 DEF HalfInv
  <2>5. QED BY Zenon, <2>1, <2>3, <2>4, Ties DEF Nearest, FloatAt
<1>2. QED BY <1>1, HalfInvariance, PTL

(* ane_f32_to_f16 never reverses the order of two floats.  Exponent and    *)
(* mantissa side by side are ordered as the values of the floats are.      *)
THEOREM ConversionMonotonic ==
  ASSUME NEW e \in 0 .. 254, NEW m \in Mantissas,
         NEW g \in 0 .. 254, NEW l \in Mantissas,
         Pattern(e, m) <= Pattern(g, l)
  PROVE  F32ToF16([E |-> e, M |-> m]) <= F32ToF16([E |-> g, M |-> l])
<1>1. Convert(e, m) <= Convert(g, l) BY Zenon, ConvertMono
<1>2. QED BY Zenon, <1>1 DEF Convert

(* So it rounds EVERY finite float to the nearest half, not only those     *)
(* beside a tie: a float above the one halfway between w and w + 1 becomes *)
(* w + 1 or more, and a float below it becomes w or less.                  *)
THEOREM EveryFloatNearest ==
  ASSUME NEW w \in Finite, NEW e \in 0 .. 254, NEW m \in Mantissas
  PROVE  LET f == Midpoint(w)
             back1 == F32ToF16([E |-> e, M |-> m])
         IN /\ Pattern(f.E, f.M) < Pattern(e, m) => back1 >= w + 1
            /\ Pattern(e, m) < Pattern(f.E, f.M) => back1 <= w
<1>1. PICK g, l : Midpoint(w) = [E |-> g, M |-> l] /\ Halfway(w, g, l)
  BY Zenon, Midpoints
<1>2. Midpoint(w).E = g /\ Midpoint(w).M = l BY SMT, <1>1
<1>3. g \in 102 .. 142 /\ l \in Nat /\ l + 1 < 8388608 BY SMT, <1>1 DEF Halfway
<1>4. m \in Nat /\ m < 8388608 BY SMT DEF Mantissas
<1>5. ASSUME Pattern(g, l) < Pattern(e, m) PROVE w + 1 <= Convert(e, m)
  <2>1. Pattern(g, l + 1) <= Pattern(e, m) BY SMT, <1>3, <1>4, <1>5 DEF Pattern
  <2>2. g \in 0 .. 254 /\ l + 1 \in Mantissas BY SMT, <1>3 DEF Mantissas
  <2>3. Convert(g, l + 1) <= Convert(e, m) BY Zenon, <2>1, <2>2, ConvertMono
  <2>4. Convert(g, l + 1) = w + 1 BY SMT, <1>1 DEF Halfway
  <2>5. QED BY Zenon, <2>3, <2>4
<1>6. ASSUME Pattern(e, m) < Pattern(g, l) PROVE Convert(e, m) <= w
  <2>1. CASE l > 0
    <3>1. Pattern(e, m) <= Pattern(g, l - 1) BY SMT, <1>3, <1>4, <1>6, <2>1 DEF Pattern
    <3>2. g \in 0 .. 254 /\ l - 1 \in Mantissas BY SMT, <1>3, <2>1 DEF Mantissas
    <3>3. Convert(e, m) <= Convert(g, l - 1) BY Zenon, <3>1, <3>2, ConvertMono
    <3>4. Convert(g, l - 1) = w BY SMT, <1>1, <2>1 DEF Halfway
    <3>5. QED BY Zenon, <3>3, <3>4
  <2>2. CASE l = 0
    <3> DEFINE last == 8388607
    <3>1. g = 102 /\ w = 0 BY SMT, <1>1, <2>2 DEF Halfway
    <3>2. Pattern(e, m) <= Pattern(101, last)
      BY SMT, <1>4, <1>6, <2>2, <3>1 DEF Pattern
    <3>3. 101 \in 0 .. 254 /\ last \in Mantissas BY SMT DEF Mantissas
    <3>4. Convert(101, last) = 0 BY SMT, LastToZero
    <3> HIDE DEF last
    <3>5. Convert(e, m) <= Convert(101, last) BY Zenon, <3>2, <3>3, ConvertMono
    <3>6. QED BY Zenon, <3>1, <3>4, <3>5
  <2>3. QED BY SMT, <1>3, <2>1, <2>2
<1>7. w + 1 <= Convert(e, m) => Convert(e, m) >= w + 1
  <2>2. Pattern(e, m) <= Pattern(e, m) BY SMT, <1>4 DEF Pattern
  <2>3. Convert(e, m) \in Nat BY Zenon, <2>2, ConvertMono
  <2>4. w \in Nat BY SMT DEF Finite
  <2>5. QED BY SMT, <2>3, <2>4
<1>8. QED BY Zenon, <1>2, <1>5, <1>6, <1>7 DEF Convert
=============================================================================
