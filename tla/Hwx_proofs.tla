----------------------------- MODULE Hwx_proofs -----------------------------
(***************************************************************************)
(* Proofs about Hwx for files of any size and contents, any sizes of the   *)
(* structs and any width of the 64-bit fields.  HwxInv says, for every     *)
(* place in hwx_open, how far the cursor may still go, what was checked of *)
(* the segments, and exactly what is allocated.                            *)
(***************************************************************************)
EXTENDS Hwx, SequenceTheorems, TLAPS

(* Where the code is, or where it will be when the pread succeeds. *)
place == IF pc = "pread" THEN io.then ELSE pc

IoType == [off : Range64, len : Range64, done : Range64,
           then : Inside \cup {"closed", "header"}]

(* TypeOK without its last part, which HeapInv implies. *)
HeldTypeOK ==
  /\ pc \in Inside \cup {"closed", "pread", "header", "error"}
  /\ fsize \in Range64 /\ cut \in BOOLEAN
  /\ io \in IoType
  /\ offset \in Range64 /\ rbytes \in Range64 /\ rcmds \in Nat
  /\ lc \in Range64 /\ rem \in Range64
  /\ seg \in SegmentType /\ segs \in Seq(SegmentType)
  /\ states \in Seq(Range64)

InCommand == {"segment", "section", "append", "state"}

(* The load commands that remain lie inside the file, and the one being    *)
(* parsed inside them.                                                     *)
CursorInv ==
  /\ place \in {"command", "lc"} \cup InCommand => offset + rbytes <= fsize
  /\ place \in InCommand => lc <= rbytes

(* A pread ends inside the file and is followed by one of these. *)
IoInv ==
  pc = "pread" => /\ io.then \in {"header", "lc", "segment", "state", "opened"}
                  /\ io.then # "header" => io.off + io.len <= fsize

(* What hwx_open has checked of a segment and of its sections so far. *)
Checked(s) ==
  /\ WithinFile(s.off, s.len)
  /\ \A j \in DOMAIN s.sections :
       s.sections[j].len # 0 => WithinFile(s.sections[j].off, s.sections[j].len)

SegsInv ==
  /\ \A i \in DOMAIN segs : Checked(segs[i])
  /\ place \in {"section", "append"} => Checked(seg)
  /\ place = "append" => Len(seg.sections) = seg.n
  /\ place = "section" => seg.n > 0
  /\ place \in {"closed", "header"} => segs = <<>> /\ states = <<>>
  /\ place = "opened" => segs # <<>>

(* What hwx_free_segments and hwx_free_thread_states will free. *)
Arrays ==
  If(segs # <<>>, {Segments}) \cup If(states # <<>>, {States})
    \cup {SectionsOf(i) : i \in {k \in DOMAIN segs : segs[k].sections # <<>>}}
    \cup {DataOf(i) : i \in {k \in DOMAIN states : states[k] > 0}}

(* At every place exactly this is allocated; at the label error nothing    *)
(* that it would not free.                                                 *)
HeapInv ==
  /\ place = "closed" => heap = {}
  /\ place = "header" => heap = {Fd}
  /\ place \in {"command", "lc", "opened"} => heap = {Fd, File} \cup Arrays
  /\ place \in {"segment", "state"} => heap = {Fd, File, Buffer} \cup Arrays
  /\ place \in {"section", "append"} =>
       heap = {Fd, File, Buffer} \cup If(seg.n > 0, {Sections}) \cup Arrays
  /\ place = "error" => heap \subseteq {Fd, File} \cup Arrays

HwxInv == HeldTypeOK /\ CursorInv /\ IoInv /\ SegsInv /\ HeapInv

-----------------------------------------------------------------------------
(* The tokens are different from each other. *)
LEMMA TokensApart ==
  /\ Buffer \notin {Fd, File, Segments, States}
  /\ Sections \notin {Fd, File, Segments, States, Buffer}
  /\ \A i \in Nat \ {0} :
       {Buffer, Sections} \cap {SectionsOf(i), DataOf(i)} = {}
BY DEF Fd, File, Buffer, Sections, Segments, States, SectionsOf, DataOf

(* A sequence starts at 1. *)
LEMMA DomainPos ==
  ASSUME NEW S, NEW q \in Seq(S), NEW i \in DOMAIN q PROVE i \in Nat \ {0}
BY LenProperties

(* The arrays are neither the load command nor the sections being filled. *)
LEMMA ArraysApart ==
  ASSUME HeldTypeOK PROVE Buffer \notin Arrays /\ Sections \notin Arrays
<1>1. \A i \in DOMAIN segs \cup DOMAIN states : i \in Nat \ {0}
  BY DomainPos DEF HeldTypeOK
<1>2. QED BY <1>1, TokensApart, Zenon DEF Arrays, If

(* What each token is. *)
LEMMA TokenTypes ==
  ASSUME HeldTypeOK, NEW t \in {Fd, File, Buffer, Sections} \cup Arrays
  PROVE  /\ t[1] \in {"fd", "file", "buffer", "sections", "segments", "states",
                      "data"}
         /\ t[2] \in Nat
<1>1. \A i \in DOMAIN segs \cup DOMAIN states : i \in Nat
  BY DomainPos DEF HeldTypeOK
<1>2. QED
  BY <1>1 DEF Arrays, If, Fd, File, Buffer, Sections, Segments, States,
     SectionsOf, DataOf

(* hwx_close and the label error free all of them. *)
LEMMA ArraysReleased == {Fd, File} \cup Arrays \subseteq Released
BY DEF Arrays, If, Released

LEMMA ArraysSame == ASSUME UNCHANGED <<segs, states>> PROVE Arrays' = Arrays
BY DEF Arrays

LEMMA ArraysEmpty == ASSUME segs = <<>>, states = <<>> PROVE Arrays = {}
BY DEF Arrays, If

(* One more segment: its sections, and the array itself. *)
LEMMA ArraysSegment ==
  ASSUME HeldTypeOK, segs' = Append(segs, seg), states' = states
  PROVE  Arrays' = Arrays \cup {Segments}
                     \cup If(seg.sections # <<>>, {SectionsOf(Len(segs'))})
<1>1. /\ Len(segs') = Len(segs) + 1 /\ Len(segs) \in Nat
      /\ DOMAIN segs = 1 .. Len(segs) /\ DOMAIN segs' = 1 .. Len(segs')
      /\ \A k \in DOMAIN segs : segs'[k] = segs[k]
      /\ segs'[Len(segs')] = seg
      /\ segs' # <<>>
  BY AppendProperties, LenProperties DEF HeldTypeOK
<1>2. DOMAIN segs' = DOMAIN segs \cup {Len(segs')} BY <1>1
<1>3. {k \in DOMAIN segs' : segs'[k].sections # <<>>} =
        {k \in DOMAIN segs : segs[k].sections # <<>>}
          \cup If(seg.sections # <<>>, {Len(segs')})
  BY <1>1, <1>2 DEF If
<1>4. QED BY <1>1, <1>3 DEF Arrays, If

(* One more thread state: its payload, and the array itself. *)
LEMMA ArraysState ==
  ASSUME HeldTypeOK, NEW size \in Range64,
         states' = Append(states, size), segs' = segs
  PROVE  Arrays' = Arrays \cup {States}
                     \cup If(size > 0, {DataOf(Len(states'))})
<1>1. /\ Len(states') = Len(states) + 1 /\ Len(states) \in Nat
      /\ DOMAIN states = 1 .. Len(states) /\ DOMAIN states' = 1 .. Len(states')
      /\ \A k \in DOMAIN states : states'[k] = states[k]
      /\ states'[Len(states')] = size
      /\ states' # <<>>
  BY AppendProperties, LenProperties DEF HeldTypeOK
<1>2. DOMAIN states' = DOMAIN states \cup {Len(states')} BY <1>1
<1>3. {k \in DOMAIN states' : states'[k] > 0} =
        {k \in DOMAIN states : states[k] > 0} \cup If(size > 0, {Len(states')})
  BY <1>1, <1>2 DEF If
<1>4. QED BY <1>1, <1>3 DEF Arrays, If

-----------------------------------------------------------------------------
(* The sizes, one by one. *)
LEMMA Sizes ==
  /\ HdrSize \in Nat /\ LcSize \in Nat /\ StateSize \in Nat /\ U64 \in Nat
  /\ HdrSize > 0 /\ LcSize > 0 /\ StateSize > 0 /\ U64 > 0 /\ HdrSize < U64
  /\ 0 \in Range64
BY SizesAssumption DEF Range64

LEMMA MinPair ==
  ASSUME NEW a \in Int, NEW b \in Int
  PROVE  Min({a, b}) = IF a <= b THEN a ELSE b
<1>1. CASE a <= b
  <2>1. \A x \in {a, b} : (\A y \in {a, b} : x <= y) => x = a BY <1>1
  <2>2. \A y \in {a, b} : a <= y BY <1>1
  <2>3. QED BY <1>1, <2>1, <2>2 DEF Min
<1>2. CASE ~ a <= b
  <2>1. \A x \in {a, b} : (\A y \in {a, b} : x <= y) => x = b BY <1>2
  <2>2. \A y \in {a, b} : b <= y BY <1>2
  <2>3. QED BY <1>2, <2>1, <2>2 DEF Min
<1>3. QED BY <1>1, <1>2

LEMMA NoneTypes == NoIo \in IoType /\ NoSeg \in SegmentType
<1>1. NoIo \in IoType BY Sizes DEF NoIo, IoType, Inside
<1>2. <<>> \in Seq(SectionType) BY EmptySeq
<1>3. NoSeg \in SegmentType
  BY <1>2, Sizes DEF NoSeg, SegmentType, SegNames
<1>4. QED BY <1>1, <1>3

(* What a pread is asked for. *)
LEMMA PreadType ==
  ASSUME NEW off \in Range64, NEW len \in Range64,
         NEW then \in {"header", "lc", "segment", "state", "opened"},
         Pread(off, len, then)
  PROVE  /\ io' \in IoType /\ pc' = "pread" /\ place' = then
         /\ io'.off = off /\ io'.len = len /\ io'.then = then
BY Sizes DEF Pread, IoType, Inside, place

(* A step that stays where it is with what it has. *)
LEMMA Frame ==
  ASSUME SegsInv, HeapInv, place' = place,
         UNCHANGED <<fsize, seg, segs, states, heap>>
  PROVE  SegsInv' /\ HeapInv'
<1>1. SegsInv' BY DEF SegsInv, Checked, WithinFile
<1>2. Arrays' = Arrays BY ArraysSame
<1>3. HeapInv' BY <1>2 DEF HeapInv
<1>4. QED BY <1>1, <1>3

(* Every step of hwx_open, hwx_close and the reads keeps the invariant,    *)
(* whatever the file contains and whatever another process does to it.     *)
LEMMA HwxStepInv == ASSUME HwxInv, [Next]_vars PROVE HwxInv'
<1> USE Sizes DEF HwxInv, cursor
<1>1. ASSUME NEW k \in 1 .. (U64 - 1), PreadSome(k) PROVE HwxInv'
  <2>1. /\ pc = "pread" /\ io \in IoType /\ io.then # "pread"
        /\ k <= io.len - io.done
    BY <1>1 DEF HeldTypeOK, IoInv, PreadSome
  <2>2. \/ pc' = io.then /\ io' = NoIo
        \/ pc' = pc /\ io' = [io EXCEPT !.done = @ + k] /\ io.done + k <= io.len
    BY <1>1, <2>1 DEF IoType, Range64, PreadSome
  <2>3. place' = place
    BY <2>1, <2>2 DEF place, IoType
  <2>4. pc' \in Inside \cup {"pread", "header"} /\ io' \in IoType
    BY <2>1, <2>2, NoneTypes DEF IoType, IoInv, Inside, Range64
  <2>5. HeldTypeOK' BY <1>1, <2>4 DEF HeldTypeOK, PreadSome
  <2>6. CursorInv' BY <1>1, <2>3 DEF CursorInv, PreadSome
  <2>7. IoInv' BY <1>1, <2>1, <2>2 DEF IoInv, IoType, PreadSome
  <2>8. SegsInv' /\ HeapInv' BY <1>1, <2>3, Frame DEF PreadSome
  <2>9. QED BY <2>5, <2>6, <2>7, <2>8
<1>2. CASE PreadFail
  <2>1. /\ pc = "pread" /\ place = io.then
        /\ pc' \in {"opened", "error"} /\ place' = pc'
        /\ pc' = "opened" => place = "opened"
    BY <1>2 DEF place, PreadFail
  <2>2. Arrays' = Arrays BY <1>2, ArraysSame DEF PreadFail
  <2>3. HeldTypeOK' BY <1>2, NoneTypes DEF HeldTypeOK, Inside, PreadFail
  <2>4. CursorInv' /\ IoInv' BY <2>1 DEF CursorInv, InCommand, IoInv
  <2>5. SegsInv' BY <1>2, <2>1 DEF SegsInv, Checked, WithinFile, PreadFail
  <2>6. HeapInv'
    BY <1>2, <2>1, <2>2, TokensApart, ArraysApart DEF HeapInv, IoInv, PreadFail
  <2>7. QED BY <2>3, <2>4, <2>5, <2>6
<1>3. CASE Rewrite
  <2>1. place' = place BY <1>3 DEF place, Rewrite
  <2>2. cut' \in BOOLEAN BY <1>3 DEF Rewrite
  <2>3. HeldTypeOK' BY <1>3, <2>2 DEF HeldTypeOK, Rewrite
  <2>4. CursorInv' /\ IoInv' BY <1>3, <2>1 DEF CursorInv, IoInv, Rewrite
  <2>5. SegsInv' /\ HeapInv' BY <1>3, <2>1, Frame DEF Rewrite
  <2>6. QED BY <2>3, <2>4, <2>5
<1>4. ASSUME NEW n \in FileSizes, HwxOpen(n) PROVE HwxInv'
  <2>1. n \in Range64 /\ HdrSize \in Range64
    BY SizesAssumption DEF Range64
  <2>2. /\ io' \in IoType /\ pc' = "pread" /\ place' = "header"
        /\ io'.then = "header"
    BY <1>4, <2>1, PreadType DEF HwxOpen
  <2>3. place = "closed" BY <1>4 DEF place, HwxOpen
  <2>4. segs' = <<>> /\ states' = <<>> BY <1>4, <2>3 DEF SegsInv, HwxOpen
  <2>5. HeldTypeOK' BY <1>4, <2>1, <2>2 DEF HeldTypeOK, HwxOpen
  <2>6. CursorInv' /\ IoInv' BY <2>2 DEF CursorInv, InCommand, IoInv
  <2>7. SegsInv' BY <2>2, <2>4 DEF SegsInv
  <2>8. HeapInv' BY <1>4, <2>2 DEF HeapInv, HwxOpen
  <2>9. QED BY <2>5, <2>6, <2>7, <2>8
<1>5. ASSUME NEW n \in 0 .. MaxCmds, NEW s \in 0 .. (U64 - 1), Header(n, s)
      PROVE  HwxInv'
  <2>1. place = "header" /\ place' = "command" /\ pc' = "command"
    BY <1>5 DEF place, Header
  <2>2. HdrSize + s <= fsize /\ fsize \in Range64 /\ HdrSize \in Range64
    BY <1>5 DEF HeldTypeOK, Range64, Header, WithinFile
  <2>3. n \in Nat BY SizesAssumption
  <2>4. Arrays' = {}
    BY <1>5, <2>1, ArraysSame, ArraysEmpty DEF SegsInv, Header
  <2>5. HeldTypeOK' BY <1>5, <2>2, <2>3 DEF HeldTypeOK, Inside, Range64, Header
  <2>6. CursorInv' BY <1>5, <2>1, <2>2 DEF CursorInv, InCommand, Header
  <2>7. IoInv' BY <2>1 DEF IoInv
  <2>8. SegsInv'
    BY <1>5, <2>1 DEF SegsInv, Checked, WithinFile, Header
  <2>9. HeapInv' BY <1>5, <2>1, <2>4 DEF HeapInv, Header
  <2>10. QED BY <2>5, <2>6, <2>7, <2>8, <2>9
<1>6. CASE CommandNext
  <2>1. /\ place = "command" /\ rbytes >= LcSize /\ LcSize \in Range64
        /\ offset \in Range64 /\ rbytes \in Range64 /\ fsize \in Range64
    BY <1>6 DEF place, HeldTypeOK, Range64, CommandNext
  <2>2. /\ io' \in IoType /\ pc' = "pread" /\ place' = "lc"
        /\ io'.off = offset /\ io'.len = LcSize /\ io'.then = "lc"
    BY <1>6, <2>1, PreadType DEF CommandNext
  <2>3. offset + rbytes <= fsize BY <2>1 DEF CursorInv
  <2>4. Arrays' = Arrays BY <1>6, ArraysSame DEF CommandNext
  <2>5. HeldTypeOK' BY <1>6, <2>2 DEF HeldTypeOK, CommandNext
  <2>6. CursorInv' BY <1>6, <2>2, <2>3 DEF CursorInv, InCommand, CommandNext
  <2>7. IoInv' BY <1>6, <2>1, <2>2, <2>3 DEF IoInv, Range64, CommandNext
  <2>8. SegsInv'
    BY <1>6, <2>1, <2>2 DEF SegsInv, Checked, WithinFile, CommandNext
  <2>9. HeapInv' BY <1>6, <2>1, <2>2, <2>4 DEF HeapInv, CommandNext
  <2>10. QED BY <2>5, <2>6, <2>7, <2>8, <2>9
<1>7. ASSUME NEW s \in 0 .. (U64 - 1), OtherCommand(s) PROVE HwxInv'
  <2>1. place = "lc" /\ place' = "command" /\ pc' = "command"
    BY <1>7 DEF place, OtherCommand, CmdSizeOK, Advance
  <2>2. /\ s <= rbytes /\ offset + rbytes <= fsize
        /\ offset \in Range64 /\ rbytes \in Range64 /\ fsize \in Range64
    BY <1>7, <2>1 DEF HeldTypeOK, CursorInv, OtherCommand, CmdSizeOK
  <2>3. Arrays' = Arrays BY <1>7, ArraysSame DEF OtherCommand, Advance
  <2>4. offset' \in Range64 /\ rbytes' \in Range64 /\ offset' + rbytes' <= fsize
    BY <1>7, <2>2 DEF OtherCommand, Advance, Range64
  <2>5. HeldTypeOK'
    BY <1>7, <2>4 DEF HeldTypeOK, Inside, OtherCommand, Advance
  <2>6. CursorInv'
    BY <1>7, <2>1, <2>4 DEF CursorInv, InCommand, OtherCommand, Advance
  <2>7. IoInv' BY <2>1 DEF IoInv
  <2>8. SegsInv'
    BY <1>7, <2>1 DEF SegsInv, Checked, WithinFile, OtherCommand, Advance
  <2>9. HeapInv' BY <1>7, <2>1, <2>3 DEF HeapInv, OtherCommand, Advance
  <2>10. QED BY <2>5, <2>6, <2>7, <2>8, <2>9
<1>8. ASSUME NEW s \in 0 .. (U64 - 1), SegmentCommand(s) PROVE HwxInv'
  <2>1. place = "lc" BY <1>8 DEF place, SegmentCommand, CmdSizeOK
  <2>2. /\ s <= rbytes /\ offset + rbytes <= fsize /\ s \in Range64
        /\ offset \in Range64 /\ rbytes \in Range64 /\ fsize \in Range64
    BY <1>8, <2>1 DEF HeldTypeOK, CursorInv, Range64, SegmentCommand, CmdSizeOK
  <2>3. /\ io' \in IoType /\ pc' = "pread" /\ place' = "segment"
        /\ io'.off = offset /\ io'.len = s /\ io'.then = "segment"
    BY <1>8, <2>2, PreadType DEF SegmentCommand
  <2>4. Arrays' = Arrays BY <1>8, ArraysSame DEF SegmentCommand
  <2>5. rem' \in Range64 BY <1>8 DEF SegmentCommand, HeldTypeOK
  <2>6. HeldTypeOK' BY <1>8, <2>2, <2>3, <2>5 DEF HeldTypeOK, SegmentCommand
  <2>7. CursorInv' BY <1>8, <2>2 DEF CursorInv, SegmentCommand
  <2>8. IoInv' BY <1>8, <2>2, <2>3 DEF IoInv, Range64, SegmentCommand
  <2>9. SegsInv'
    BY <1>8, <2>1, <2>3 DEF SegsInv, Checked, WithinFile, SegmentCommand
  <2>10. HeapInv' BY <1>8, <2>1, <2>3, <2>4 DEF HeapInv, SegmentCommand
  <2>11. QED BY <2>6, <2>7, <2>8, <2>9, <2>10
<1>9. ASSUME NEW s \in 0 .. (U64 - 1), ThreadCommand(s) PROVE HwxInv'
  <2>1. place = "lc" BY <1>9 DEF place, ThreadCommand, CmdSizeOK
  <2>2. /\ s <= rbytes /\ offset + rbytes <= fsize /\ s \in Range64
        /\ offset \in Range64 /\ rbytes \in Range64 /\ fsize \in Range64
    BY <1>9, <2>1 DEF HeldTypeOK, CursorInv, Range64, ThreadCommand, CmdSizeOK
  <2>3. /\ io' \in IoType /\ pc' = "pread" /\ place' = "state"
        /\ io'.off = offset /\ io'.len = s /\ io'.then = "state"
    BY <1>9, <2>2, PreadType DEF ThreadCommand
  <2>4. Arrays' = Arrays BY <1>9, ArraysSame DEF ThreadCommand
  <2>5. rem' \in Range64 BY <1>9 DEF ThreadCommand, Range64
  <2>6. HeldTypeOK' BY <1>9, <2>2, <2>3, <2>5 DEF HeldTypeOK, ThreadCommand
  <2>7. CursorInv' BY <1>9, <2>2 DEF CursorInv, ThreadCommand
  <2>8. IoInv' BY <1>9, <2>2, <2>3 DEF IoInv, Range64, ThreadCommand
  <2>9. SegsInv'
    BY <1>9, <2>1, <2>3 DEF SegsInv, Checked, WithinFile, ThreadCommand
  <2>10. HeapInv' BY <1>9, <2>1, <2>3, <2>4 DEF HeapInv, ThreadCommand
  <2>11. QED BY <2>6, <2>7, <2>8, <2>9, <2>10
<1>10. ASSUME NEW name \in SegNames, NEW off \in Values, NEW len \in Values,
              NEW n \in 0 .. MaxSects, Segment(name, off, len, n)
       PROVE  HwxInv'
  <2>1. /\ place = "segment" /\ place' \in {"section", "append"} /\ pc' = place'
        /\ place' = "section" => n > 0
        /\ place' = "append" => n = 0
    BY <1>10, SizesAssumption DEF place, Segment
  <2>2. <<>> \in Seq(SectionType) /\ Len(<<>>) = 0 BY EmptySeq
  <2>3. n \in Nat /\ off \in Range64 /\ len \in Range64
    BY SizesAssumption DEF Range64
  <2>4. seg' \in SegmentType BY <1>10, <2>2, <2>3 DEF SegmentType, Segment
  <2>5. Arrays' = Arrays BY <1>10, ArraysSame DEF Segment
  <2>6. HeldTypeOK' BY <1>10, <2>1, <2>4 DEF HeldTypeOK, Inside, Segment
  <2>7. CursorInv' BY <1>10, <2>1 DEF CursorInv, InCommand, Segment
  <2>8. IoInv' BY <2>1 DEF IoInv
  <2>9. SegsInv'
    BY <1>10, <2>1, <2>2 DEF SegsInv, Checked, WithinFile, Segment
  <2>10. HeapInv' BY <1>10, <2>1, <2>5 DEF HeapInv, If, Segment
  <2>11. QED BY <2>6, <2>7, <2>8, <2>9, <2>10
<1>11. ASSUME NEW name \in SectNames, NEW off \in Values, NEW len \in Values,
              Section(name, off, len)
       PROVE  HwxInv'
  <2> DEFINE sec == [name |-> name, off |-> off, len |-> len]
  <2>1. /\ place = "section" /\ place' \in {"section", "append"} /\ pc' = place'
    BY <1>11 DEF place, Section
  <2>2. seg \in SegmentType /\ seg.sections \in Seq(SectionType)
    BY DEF HeldTypeOK, SegmentType
  <2>3. sec \in SectionType
    BY SizesAssumption DEF SectionType, Range64
  <2>4. seg' = [seg EXCEPT !.sections = Append(seg.sections, sec)]
    BY <1>11 DEF Section
  <2> HIDE DEF sec
  <2>5. /\ Append(seg.sections, sec) \in Seq(SectionType)
        /\ DOMAIN Append(seg.sections, sec) =
             DOMAIN seg.sections \cup {Len(seg.sections) + 1}
        /\ \A j \in DOMAIN seg.sections :
             Append(seg.sections, sec)[j] = seg.sections[j]
        /\ Append(seg.sections, sec)[Len(seg.sections) + 1] = sec
    BY <2>2, <2>3, AppendProperties, LenProperties
  <2>6. /\ seg' \in SegmentType
        /\ seg'.sections = Append(seg.sections, sec)
        /\ seg'.off = seg.off /\ seg'.len = seg.len /\ seg'.n = seg.n
    BY <2>2, <2>4, <2>5 DEF SegmentType
  <2>7. place' = "append" => Len(seg'.sections) = seg'.n
    BY <1>11, <2>1, <2>6 DEF Section
  <2>8. Arrays' = Arrays BY <1>11, ArraysSame DEF Section
  <2>9. HeldTypeOK' BY <1>11, <2>1, <2>6 DEF HeldTypeOK, Inside, Section
  <2>10. CursorInv' BY <1>11, <2>1 DEF CursorInv, InCommand, Section
  <2>11. IoInv' BY <2>1 DEF IoInv
  <2>12. Checked(seg)'
    <3>1. sec.len # 0 => WithinFile(sec.off, sec.len)
      BY <1>11 DEF Section, sec
    <3>2. Checked(seg) BY <2>1 DEF SegsInv
    <3>3. fsize' = fsize BY <1>11 DEF Section
    <3>4. QED BY <2>5, <2>6, <3>1, <3>2, <3>3 DEF Checked, WithinFile
  <2>13. SegsInv'
    <3>1. \A i \in DOMAIN segs' : Checked(segs[i])'
      BY <1>11 DEF SegsInv, Checked, WithinFile, Section
    <3>2. seg.n > 0 BY <2>1 DEF SegsInv
    <3>3. QED BY <2>1, <2>6, <2>7, <2>12, <3>1, <3>2 DEF SegsInv
  <2>14. HeapInv' BY <1>11, <2>1, <2>6, <2>8 DEF HeapInv, Section
  <2>15. QED BY <2>9, <2>10, <2>11, <2>13, <2>14
<1>12. CASE AppendSegment
  <2>1. place = "append" /\ place' = "command" /\ pc' = "command"
    BY <1>12 DEF place, AppendSegment, Advance
  <2>2. /\ lc <= rbytes /\ offset + rbytes <= fsize /\ lc \in Range64
        /\ offset \in Range64 /\ rbytes \in Range64 /\ fsize \in Range64
    BY <2>1 DEF HeldTypeOK, CursorInv, InCommand
  <2>3. offset' \in Range64 /\ rbytes' \in Range64 /\ offset' + rbytes' <= fsize
    BY <1>12, <2>2 DEF AppendSegment, Advance, Range64
  <2>4. seg \in SegmentType /\ segs \in Seq(SegmentType) BY DEF HeldTypeOK
  <2>5. /\ segs' = Append(segs, seg) /\ segs' \in Seq(SegmentType)
        /\ DOMAIN segs' = DOMAIN segs \cup {Len(segs) + 1}
        /\ \A j \in DOMAIN segs : segs'[j] = segs[j]
        /\ segs'[Len(segs) + 1] = seg
    BY <1>12, <2>4, AppendProperties, LenProperties DEF AppendSegment
  <2>6. seg.n > 0 <=> seg.sections # <<>>
    <3>1. Len(seg.sections) = seg.n /\ seg.sections \in Seq(SectionType)
      BY <2>1, <2>4 DEF SegsInv, SegmentType
    <3>2. QED BY <3>1, EmptySeq, LenProperties
  <2>7. Arrays' = Arrays \cup {Segments}
                    \cup If(seg.n > 0, {SectionsOf(Len(segs'))})
    BY <1>12, <2>6, ArraysSegment DEF AppendSegment, If
  <2>8. HeldTypeOK'
    BY <1>12, <2>3, <2>5, NoneTypes DEF HeldTypeOK, Inside, AppendSegment,
       Advance
  <2>9. CursorInv'
    BY <1>12, <2>1, <2>3 DEF CursorInv, InCommand, AppendSegment, Advance
  <2>10. IoInv' BY <2>1 DEF IoInv
  <2>11. SegsInv'
    <3>1. fsize' = fsize BY <1>12 DEF AppendSegment, Advance
    <3>2. \A j \in DOMAIN segs' : Checked(segs'[j])
      BY <2>1, <2>5 DEF SegsInv
    <3>3. \A j \in DOMAIN segs' : Checked(segs[j])'
      BY <3>1, <3>2 DEF Checked, WithinFile
    <3>4. QED BY <2>1, <3>3 DEF SegsInv
  <2>12. HeapInv'
    BY <1>12, <2>1, <2>7, TokensApart, ArraysApart DEF HeapInv, If,
       AppendSegment
  <2>13. QED BY <2>8, <2>9, <2>10, <2>11, <2>12
<1>13. ASSUME NEW count \in 0 .. MaxWords, State(count) PROVE HwxInv'
  <2> DEFINE size == Min({count, rem - StateSize})
  <2>1. place = "state" /\ place' = "state" /\ pc' = "state"
    BY <1>13 DEF place, State
  <2>2. /\ rem \in Range64 /\ rem >= StateSize /\ count \in Nat
    BY <1>13, SizesAssumption DEF HeldTypeOK, State
  <2>3. size \in Range64 /\ size <= rem - StateSize
    BY <2>2, MinPair DEF Range64
  <2>4. /\ states' = Append(states, size) /\ segs' = segs
        /\ rem' = rem - StateSize - size
        /\ heap' = heap \cup {States} \cup If(size > 0, {DataOf(Len(states'))})
    BY <1>13 DEF State
  <2> HIDE DEF size
  <2>5. rem' \in Range64 BY <2>2, <2>3, <2>4 DEF Range64
  <2>6. states' \in Seq(Range64)
    BY <2>3, <2>4, AppendProperties DEF HeldTypeOK
  <2>7. Arrays' = Arrays \cup {States} \cup If(size > 0, {DataOf(Len(states'))})
    BY <2>3, <2>4, ArraysState
  <2>8. HeldTypeOK' BY <1>13, <2>5, <2>6 DEF HeldTypeOK, State
  <2>9. CursorInv' BY <1>13, <2>1 DEF CursorInv, State
  <2>10. IoInv' BY <2>1 DEF IoInv
  <2>11. SegsInv' BY <1>13, <2>1 DEF SegsInv, Checked, WithinFile, State
  <2>12. HeapInv' BY <2>1, <2>4, <2>7 DEF HeapInv
  <2>13. QED BY <2>8, <2>9, <2>10, <2>11, <2>12
<1>14. CASE StatesDone
  <2>1. place = "state" /\ place' = "command" /\ pc' = "command"
    BY <1>14 DEF place, StatesDone, Advance
  <2>2. /\ lc <= rbytes /\ offset + rbytes <= fsize /\ lc \in Range64
        /\ offset \in Range64 /\ rbytes \in Range64 /\ fsize \in Range64
    BY <2>1 DEF HeldTypeOK, CursorInv, InCommand
  <2>3. offset' \in Range64 /\ rbytes' \in Range64 /\ offset' + rbytes' <= fsize
    BY <1>14, <2>2 DEF StatesDone, Advance, Range64
  <2>4. Arrays' = Arrays BY <1>14, ArraysSame DEF StatesDone
  <2>5. HeldTypeOK' BY <1>14, <2>3 DEF HeldTypeOK, Inside, StatesDone, Advance
  <2>6. CursorInv'
    BY <1>14, <2>1, <2>3 DEF CursorInv, InCommand, StatesDone, Advance
  <2>7. IoInv' BY <2>1 DEF IoInv
  <2>8. SegsInv'
    BY <1>14, <2>1 DEF SegsInv, Checked, WithinFile, StatesDone, Advance
  <2>9. HeapInv'
    BY <1>14, <2>1, <2>4, TokensApart, ArraysApart DEF HeapInv, StatesDone
  <2>10. QED BY <2>5, <2>6, <2>7, <2>8, <2>9
<1>15. CASE Reject
  <2>1. /\ place \in {"header", "lc"} \cup InCommand
        /\ place' = "error" /\ pc' = "error"
    BY <1>15 DEF place, InCommand, Reject
  <2>2. Arrays' = Arrays BY <1>15, ArraysSame DEF Reject
  <2>3. HeldTypeOK' BY <1>15 DEF HeldTypeOK, Reject
  <2>4. CursorInv' /\ IoInv' BY <2>1 DEF CursorInv, InCommand, IoInv
  <2>5. SegsInv' BY <1>15, <2>1 DEF SegsInv, Checked, WithinFile, Reject
  <2>6. heap \subseteq {Fd, File, Buffer, Sections} \cup Arrays
    BY <2>1 DEF HeapInv, InCommand, If
  <2>7. HeapInv'
    BY <1>15, <2>1, <2>2, <2>6 DEF HeapInv, Locals, Reject
  <2>8. QED BY <2>3, <2>4, <2>5, <2>7
<1>16. CASE Incomplete
  <2>1. place = "command" /\ place' = "error" /\ pc' = "error"
    BY <1>16 DEF place, Incomplete
  <2>2. Arrays' = Arrays BY <1>16, ArraysSame DEF Incomplete
  <2>3. HeldTypeOK' BY <1>16 DEF HeldTypeOK, Incomplete
  <2>4. CursorInv' /\ IoInv' BY <2>1 DEF CursorInv, InCommand, IoInv
  <2>5. SegsInv' BY <1>16, <2>1 DEF SegsInv, Checked, WithinFile, Incomplete
  <2>6. HeapInv' BY <1>16, <2>1, <2>2 DEF HeapInv, Incomplete
  <2>7. QED BY <2>3, <2>4, <2>5, <2>6
<1>17. CASE Finish
  <2>1. place = "command" /\ place' = "opened" /\ pc' = "opened"
    BY <1>17 DEF place, Finish
  <2>2. Arrays' = Arrays BY <1>17, ArraysSame DEF Finish
  <2>3. segs # <<>>
    <3>1. PICK i \in DOMAIN segs : segs[i].name = "__TEXT"
      BY <1>17, Zenon DEF Finish, Complete, HasSection
    <3>2. QED BY <3>1, EmptySeq
  <2>4. HeldTypeOK' BY <1>17 DEF HeldTypeOK, Inside, Finish
  <2>5. CursorInv' /\ IoInv' BY <2>1 DEF CursorInv, InCommand, IoInv
  <2>6. \A i \in DOMAIN segs' : Checked(segs[i])'
    BY <1>17 DEF SegsInv, Checked, WithinFile, Finish
  <2>7. SegsInv' BY <1>17, <2>1, <2>3, <2>6 DEF SegsInv, Finish
  <2>8. HeapInv' BY <1>17, <2>1, <2>2 DEF HeapInv, Finish
  <2>9. QED BY <2>4, <2>5, <2>7, <2>8
<1>18. CASE HwxClose
  <2>1. place \in {"error", "opened"} /\ place' = "closed" /\ pc' = "closed"
    BY <1>18 DEF place, HwxClose
  <2>2. <<>> \in Seq(SegmentType) /\ <<>> \in Seq(Range64) BY EmptySeq
  <2>3. cut' \in BOOLEAN BY <1>18 DEF HwxClose
  <2>4. HeldTypeOK' BY <1>18, <2>2, <2>3, NoneTypes DEF HeldTypeOK, HwxClose
  <2>5. CursorInv' /\ IoInv' BY <2>1 DEF CursorInv, InCommand, IoInv
  <2>6. segs' = <<>> /\ states' = <<>> BY <1>18 DEF HwxClose
  <2>7. SegsInv' BY <2>1, <2>6 DEF SegsInv
  <2>8. heap \subseteq Released BY <2>1, ArraysReleased DEF HeapInv
  <2>9. HeapInv' BY <1>18, <2>1, <2>8 DEF HeapInv, HwxClose
  <2>10. QED BY <2>4, <2>5, <2>7, <2>9
<1>19. ASSUME NEW r, r.off \in Range64, NEW o \in Range64, NEW n \in Range64,
              Read(r, o, n)
       PROVE  HwxInv'
  <2>1. (r.off + o) % U64 \in Range64 BY <1>19 DEF Range64
  <2>2. /\ io' \in IoType /\ pc' = "pread" /\ place' = "opened"
        /\ io'.off = (r.off + o) % U64 /\ io'.len = n /\ io'.then = "opened"
    BY <1>19, <2>1, PreadType DEF Read
  <2>3. place = "opened" BY <1>19 DEF place, Read
  <2>4. ((r.off + o) % U64) + n <= fsize
    BY <1>19, <2>1 DEF HeldTypeOK, Range64, Read, ReadOK, WithinFile
  <2>5. HeldTypeOK' BY <1>19, <2>2 DEF HeldTypeOK, Read
  <2>6. CursorInv' BY <2>2 DEF CursorInv, InCommand
  <2>7. IoInv' BY <1>19, <2>2, <2>4 DEF IoInv, Read
  <2>8. SegsInv' /\ HeapInv' BY <1>19, <2>2, <2>3, Frame DEF Read
  <2>9. QED BY <2>5, <2>6, <2>7, <2>8
<1>20. ASSUME NEW i \in DOMAIN segs, NEW o \in 0 .. (U64 - 1),
              NEW n \in 0 .. (U64 - 1),
              \/ SegmentRead(i, o, n)
              \/ \E j \in DOMAIN segs[i].sections : SectionRead(i, j, o, n)
       PROVE  HwxInv'
  <2>1. segs[i] \in SegmentType BY ElementOfSeq, LenProperties DEF HeldTypeOK
  <2>2. segs[i].off \in Range64 /\ segs[i].sections \in Seq(SectionType)
    BY <2>1 DEF SegmentType
  <2>3. \A j \in DOMAIN segs[i].sections : segs[i].sections[j] \in SectionType
    BY <2>2, ElementOfSeq, LenProperties
  <2>4. \A j \in DOMAIN segs[i].sections : segs[i].sections[j].off \in Range64
    BY <2>3 DEF SectionType
  <2>5. QED
    BY <1>19, <1>20, <2>2, <2>4 DEF SegmentRead, SectionRead, Range64
<1>21. CASE UNCHANGED vars
  <2>1. place' = place BY <1>21 DEF vars, place
  <2>2. HeldTypeOK' BY <1>21 DEF vars, HeldTypeOK
  <2>3. CursorInv' /\ IoInv' BY <1>21, <2>1 DEF vars, CursorInv, IoInv
  <2>4. SegsInv' /\ HeapInv' BY <1>21, <2>1, Frame DEF vars
  <2>5. QED BY <2>2, <2>3, <2>4
<1>22. CASE Step
  BY <1>1, <1>2, <1>5, <1>6, <1>7, <1>8, <1>9, <1>10, <1>11, <1>12, <1>13,
     <1>14, <1>15, <1>16, <1>17, <1>18, <1>22 DEF Step
<1>23. CASE Call
  BY <1>4, <1>18, <1>20, <1>23 DEF Call
<1>24. QED
  BY <1>3, <1>21, <1>22, <1>23 DEF Next

(* No file is open. *)
LEMMA HwxInitInv == ASSUME Init PROVE HwxInv
<1>1. place = "closed" /\ pc = "closed" BY DEF Init, place
<1>2. <<>> \in Seq(SegmentType) /\ <<>> \in Seq(Range64) BY EmptySeq
<1>3. cut \in BOOLEAN BY DEF Init
<1>4. HeldTypeOK
  BY <1>2, <1>3, Sizes, NoneTypes DEF Init, HeldTypeOK
<1>5. CursorInv /\ IoInv BY <1>1 DEF CursorInv, InCommand, IoInv
<1>6. SegsInv BY <1>1 DEF Init, SegsInv
<1>7. HeapInv BY <1>1 DEF Init, HeapInv
<1>8. QED BY <1>4, <1>5, <1>6, <1>7 DEF HwxInv

(* How far the cursor may go, what was checked and exactly what is         *)
(* allocated, at every step of hwx_open, hwx_close and the reads.          *)
THEOREM HwxInvariance == Spec => []HwxInv
<1>1. QED BY HwxInitInv, HwxStepInv, PTL DEF Spec

(* The cursor, the cmdsize, the rest of a thread command and what a pread  *)
(* is asked for stay 64-bit values: no sum in hwx_open wraps.              *)
THEOREM HwxTypeCorrect == Spec => []TypeOK
<1>1. ASSUME HwxInv PROVE TypeOK
  <2>1. HeldTypeOK /\ HeapInv BY <1>1 DEF HwxInv
  <2>2. heap \subseteq {Fd, File, Buffer, Sections} \cup Arrays
    <3>1. place \in Inside \cup {"closed", "header", "error"}
      BY <2>1, <1>1 DEF HwxInv, HeldTypeOK, IoType, place, IoInv, Inside
    <3>2. QED BY <2>1, <3>1 DEF HeapInv, Inside, If
  <2>3. QED BY <2>1, <2>2, TokenTypes DEF HeldTypeOK, IoType, TypeOK
<1>2. QED BY <1>1, HwxInvariance, PTL

(* After the header every pread lies inside the file that fstat saw,       *)
(* whatever the fields of the file and the arguments of the reads are.     *)
THEOREM PreadsInFile == Spec => []ReadsInFile
<1>1. ASSUME HwxInv PROVE ReadsInFile
  BY <1>1 DEF HwxInv, IoInv, ReadsInFile
<1>2. QED BY <1>1, HwxInvariance, PTL

(* hwx_open that fails and hwx_close leave nothing allocated; an open file *)
(* owns exactly what hwx_close will free.                                  *)
THEOREM NoLeak == Spec => []HeapExact
<1>1. ASSUME HwxInv PROVE HeapExact
  <2>1. SegsInv /\ HeapInv BY <1>1 DEF HwxInv
  <2>2. CASE pc = "closed"
    BY <2>1, <2>2 DEF HeapInv, place, HeapExact
  <2>3. CASE pc = "opened"
    <3>1. segs # <<>> /\ heap = {Fd, File} \cup Arrays
      BY <2>1, <2>3 DEF SegsInv, HeapInv, place
    <3>2. QED BY <2>3, <3>1 DEF Arrays, If, HeapExact
  <2>4. QED BY <2>2, <2>3 DEF HeapExact
<1>2. QED BY <1>1, HwxInvariance, PTL

(* A range of a section or segment that hwx_open has checked: the sum of   *)
(* its offset and an offset inside it does not wrap.                       *)
LEMMA ReadOKExact ==
  ASSUME fsize \in Range64, NEW start \in Range64, NEW len \in Range64,
         len # 0 => WithinFile(start, len),
         NEW o \in Range64, NEW n \in Range64
  PROVE  ReadOK(start, len, o, n) <=> n > 0 /\ o + n <= len
<1> USE Sizes DEF Range64
<1>1. ASSUME ReadOK(start, len, o, n) PROVE n > 0 /\ o + n <= len
  BY <1>1 DEF ReadOK
<1>2. ASSUME n > 0, o + n <= len PROVE ReadOK(start, len, o, n)
  <2>1. start + len <= fsize BY <1>2 DEF WithinFile
  <2>2. start + o \in 0 .. (U64 - 1) BY <1>2, <2>1
  <2>3. (start + o) % U64 = start + o BY <2>2
  <2>4. QED BY <1>2, <2>1, <2>3 DEF ReadOK, WithinFile
<1>3. QED BY <1>1, <1>2

(* In an open file every part of every section and segment can be read,    *)
(* and nothing beyond one can.                                             *)
THEOREM ReadsMatchSections == Spec => []ReadsAgree
<1>1. ASSUME HwxInv PROVE ReadsAgree
  <2>1. SUFFICES ASSUME pc = "opened", NEW i \in DOMAIN segs,
                        NEW r \in {segs[i]} \cup Range(segs[i].sections),
                        NEW o \in Range64, NEW n \in Range64
                 PROVE  ReadOK(r.off, r.len, o, n) <=> n > 0 /\ o + n <= r.len
    BY DEF ReadsAgree
  <2>2. fsize \in Range64 /\ segs[i] \in SegmentType /\ Checked(segs[i])
    BY <1>1, ElementOfSeq, LenProperties DEF HwxInv, HeldTypeOK, SegsInv
  <2>3. CASE r = segs[i]
    BY <2>2, <2>3, ReadOKExact DEF Checked, SegmentType
  <2>4. CASE r \in Range(segs[i].sections)
    <3>1. PICK j \in DOMAIN segs[i].sections : r = segs[i].sections[j]
      BY <2>4 DEF Range
    <3>2. segs[i].sections \in Seq(SectionType) BY <2>2 DEF SegmentType
    <3>3. r \in SectionType BY <3>1, <3>2, ElementOfSeq, LenProperties
    <3>4. r.len # 0 => WithinFile(r.off, r.len)
      BY <2>2, <3>1 DEF Checked
    <3>5. QED BY <2>2, <3>3, <3>4, ReadOKExact DEF SectionType
  <2>5. QED BY <2>3, <2>4
<1>2. QED BY <1>1, HwxInvariance, PTL

=============================================================================
