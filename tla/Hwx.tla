-------------------------------- MODULE Hwx --------------------------------
(***************************************************************************)
(* The reader of model files, libane/hwx.c: hwx_open with its loops over   *)
(* load commands, sections and thread states, hwx_close, and the bounded   *)
(* reads hwx_segment_read and hwx_section_read, all through                *)
(* hwx_pread_exact.                                                        *)
(*                                                                         *)
(* Nothing is assumed of the contents: what a pread delivers is chosen     *)
(* when the code first looks at it, so that a file which is rewritten      *)
(* between two reads is included.  Memory and the descriptor are tokens in *)
(* heap.  Sizes are the constants below; names matter only to the lookups. *)
(* A call that returns an error without having changed anything (open or   *)
(* fstat fails, a read with bad arguments) is a stuttering step.           *)
(***************************************************************************)
EXTENDS Integers, Sequences, FiniteSetsExt

CONSTANTS
  FileSizes,  \* what fstat may say
  HdrSize, LcSize, SegSize, SecSize,   \* sizeof the structs in the file
  StateSize,  \* flavor and count of a thread state
  U64,        \* 2^64
  Values,     \* values of the 64-bit fields of a file
  MaxCmds,    \* bound on ncmds
  MaxSects,   \* bound on nsects
  MaxWords    \* bound on the count of a thread state, in units of size

ASSUME SizesAssumption ==
  /\ \A n \in {HdrSize, LcSize, SegSize, SecSize, StateSize, U64} : n \in Nat \ {0}
  /\ \A n \in {MaxCmds, MaxSects, MaxWords} : n \in Nat
  /\ HdrSize < U64 /\ LcSize <= SegSize
  /\ FileSizes \subseteq 0 .. (U64 - 1)
  /\ Values \subseteq 0 .. (U64 - 1)

VARIABLES
  pc,
  fsize,    \* file_size, as fstat said
  cut,      \* somebody truncated the file: pread finds nothing
  io,       \* the hwx_pread_exact in progress and what follows it
  offset, rbytes, rcmds,   \* cursor of the load commands
  lc,       \* cmdsize of the load command
  seg,      \* the segment being built
  rem,      \* what is left of a thread command
  segs, states,   \* file->segments, file->thread_states
  heap      \* live allocations and the descriptor

cursor == <<offset, rbytes, rcmds>>
vars == <<pc, fsize, cut, io, cursor, lc, seg, rem, segs, states, heap>>

-----------------------------------------------------------------------------
Fd == <<"fd", 0>>
File == <<"file", 0>>
Buffer == <<"buffer", 0>>        \* the load command being parsed
Sections == <<"sections", 0>>    \* the sections being filled
Segments == <<"segments", 0>>
States == <<"states", 0>>
SectionsOf(i) == <<"sections", i>>
DataOf(i) == <<"data", i>>

If(c, S) == IF c THEN S ELSE {}

SegNames == {"__TEXT", "other"}
SectNames == {"__text", "__const"}

NoIo == [off |-> 0, len |-> 0, done |-> 0, then |-> "closed"]
NoSeg == [name |-> "other", off |-> 0, len |-> 0, n |-> 0, sections |-> <<>>]

(* Mutant: the sum of offset and length, which wraps. *)
WithinFileSum(off, len) == (off + len) % U64 <= fsize

(* hwx_within_file *)
WithinFile(off, len) == off <= fsize /\ len <= fsize - off

(* hwx_section_by_name(file, "__TEXT", name) finds something. *)
HasSection(name) ==
  \E i \in DOMAIN segs : /\ segs[i].name = "__TEXT"
                         /\ \E s \in Range(segs[i].sections) : s.name = name

Init ==
  /\ pc = "closed" /\ fsize = 0 /\ cut = FALSE /\ io = NoIo
  /\ offset = 0 /\ rbytes = 0 /\ rcmds = 0
  /\ lc = 0 /\ seg = NoSeg /\ rem = 0
  /\ segs = <<>> /\ states = <<>> /\ heap = {}

-----------------------------------------------------------------------------
(* hwx_pread_exact *)
Pread(off, len, then) ==
  /\ pc' = "pread"
  /\ io' = [off |-> off, len |-> len, done |-> 0, then |-> then]

(* pread delivers k bytes, perhaps fewer than asked; EINTR is a stutter. *)
PreadSome(k) ==
  /\ pc = "pread" /\ ~ cut
  /\ k \in 1 .. (io.len - io.done)
  /\ IF io.done + k = io.len THEN pc' = io.then /\ io' = NoIo
                             ELSE pc' = pc /\ io' = [io EXCEPT !.done = @ + k]
  /\ UNCHANGED <<fsize, cut, cursor, lc, seg, rem, segs, states, heap>>

(* Mutant: a pread that delivers nothing is tried again. *)
PreadFailNotEof ==
  /\ pc = "pread" /\ ~ cut
  /\ pc' = IF io.then = "opened" THEN "opened" ELSE "error"
  /\ io' = NoIo
  /\ heap' = heap \ {Buffer}
  /\ UNCHANGED <<fsize, cut, cursor, lc, seg, rem, segs, states>>

(* An error of pread, or the end of the file: hwx_open frees the load      *)
(* command, if it has one, and gives up; a read returns -1.                *)
PreadFail ==
  /\ pc = "pread"
  /\ pc' = IF io.then = "opened" THEN "opened" ELSE "error"
  /\ io' = NoIo
  /\ heap' = heap \ {Buffer}
  /\ UNCHANGED <<fsize, cut, cursor, lc, seg, rem, segs, states>>

(* Another process truncates the file or writes it again; only a pread     *)
(* can tell.                                                               *)
Rewrite ==
  /\ pc = "pread"
  /\ cut' = ~ cut
  /\ UNCHANGED <<pc, fsize, io, cursor, lc, seg, rem, segs, states, heap>>

-----------------------------------------------------------------------------
(* hwx_open *)
HwxOpen(n) ==
  /\ pc = "closed"
  /\ fsize' = n
  /\ heap' = {Fd}
  /\ Pread(0, HdrSize, "header")
  /\ UNCHANGED <<cut, cursor, lc, seg, rem, segs, states>>

Header(ncmds, sizeofcmds) ==
  /\ pc = "header"
  /\ WithinFile(HdrSize, sizeofcmds)
  /\ pc' = "command"
  /\ offset' = HdrSize /\ rbytes' = sizeofcmds /\ rcmds' = ncmds
  /\ heap' = heap \cup {File}
  /\ UNCHANGED <<fsize, cut, io, lc, seg, rem, segs, states>>

CommandNext ==
  /\ pc = "command" /\ rcmds > 0 /\ rbytes >= LcSize
  /\ rcmds' = rcmds - 1
  /\ Pread(offset, LcSize, "lc")
  /\ UNCHANGED <<fsize, cut, offset, rbytes, lc, seg, rem, segs, states, heap>>

(* The end of the loop body. *)
Advance(size) ==
  /\ pc' = "command"
  /\ offset' = offset + size
  /\ rbytes' = rbytes - size
  /\ lc' = 0
  /\ UNCHANGED <<fsize, cut, io, rcmds>>

(* Mutant: a command may be longer than what is left. *)
CmdSizeAny(size) == pc = "lc" /\ size >= LcSize

CmdSizeOK(size) == pc = "lc" /\ size >= LcSize /\ size <= rbytes

OtherCommand(size) ==
  /\ CmdSizeOK(size)
  /\ Advance(size)
  /\ UNCHANGED <<seg, rem, segs, states, heap>>

SegmentCommand(size) ==
  /\ CmdSizeOK(size)
  /\ lc' = size
  /\ heap' = heap \cup {Buffer}
  /\ Pread(offset, size, "segment")
  /\ UNCHANGED <<fsize, cut, cursor, seg, rem, segs, states>>

ThreadCommand(size) ==
  /\ CmdSizeOK(size)
  /\ size >= LcSize + StateSize
  /\ lc' = size
  /\ rem' = size - LcSize
  /\ heap' = heap \cup {Buffer}
  /\ Pread(offset, size, "state")
  /\ UNCHANGED <<fsize, cut, cursor, seg, segs, states>>

(* A command that is too short for the struct is refused whatever nsects   *)
(* reads as, because SegSize alone exceeds it.                             *)
Segment(name, off, len, n) ==
  /\ pc = "segment"
  /\ lc >= SegSize + n * SecSize
  /\ WithinFile(off, len)
  /\ pc' = IF n > 0 THEN "section" ELSE "append"
  /\ seg' = [name |-> name, off |-> off, len |-> len, n |-> n, sections |-> <<>>]
  /\ heap' = heap \cup If(n > 0, {Sections})
  /\ UNCHANGED <<fsize, cut, io, cursor, lc, rem, segs, states>>

(* Mutant: a section is taken wherever it lies. *)
SectionUnchecked(name, off, len) ==
  /\ pc = "section"
  /\ seg' = [seg EXCEPT !.sections =
               Append(@, [name |-> name, off |-> off, len |-> len])]
  /\ pc' = IF Len(seg'.sections) = seg.n THEN "append" ELSE pc
  /\ UNCHANGED <<fsize, cut, io, cursor, lc, rem, segs, states, heap>>

Section(name, off, len) ==
  /\ pc = "section"
  /\ len # 0 => WithinFile(off, len)
  /\ seg' = [seg EXCEPT !.sections =
               Append(@, [name |-> name, off |-> off, len |-> len])]
  /\ pc' = IF Len(seg'.sections) = seg.n THEN "append" ELSE pc
  /\ UNCHANGED <<fsize, cut, io, cursor, lc, rem, segs, states, heap>>

AppendSegment ==
  /\ pc = "append"
  /\ Advance(lc)
  /\ segs' = Append(segs, seg)
  /\ seg' = NoSeg
  /\ heap' = (heap \ {Buffer, Sections})
               \cup {Segments} \cup If(seg.n > 0, {SectionsOf(Len(segs'))})
  /\ UNCHANGED <<rem, states>>

(* The payload is cut to what the command still has. *)
State(count) ==
  LET size == Min({count, rem - StateSize})
  IN /\ pc = "state" /\ rem >= StateSize
     /\ states' = Append(states, size)
     /\ rem' = rem - StateSize - size
     /\ heap' = heap \cup {States} \cup If(size > 0, {DataOf(Len(states'))})
     /\ UNCHANGED <<pc, fsize, cut, io, cursor, lc, seg, segs>>

StatesDone ==
  /\ pc = "state" /\ rem < StateSize
  /\ Advance(lc)
  /\ rem' = 0
  /\ heap' = heap \ {Buffer}
  /\ UNCHANGED <<seg, segs, states>>

(* What an error exit frees before "goto error".  Mutant: the sections     *)
(* that are not in a segment yet are forgotten.                            *)
LocalsNoSections == {Buffer}
Locals == {Buffer, Sections}

(* Something in the file is not as it should be, or memory ran out. *)
Reject ==
  /\ \/ pc \in {"header", "lc", "segment", "section", "append"}
     \/ pc = "state" /\ rem >= StateSize
  /\ pc' = "error"
  /\ heap' = heap \ Locals
  /\ UNCHANGED <<fsize, cut, io, cursor, lc, seg, rem, segs, states>>

Complete == rcmds = 0 /\ rbytes = 0 /\ HasSection("__text") /\ HasSection("__const")

(* The loop ends too early, or leaves bytes, or a section is missing. *)
Incomplete ==
  /\ pc = "command"
  /\ IF rcmds = 0 THEN ~ Complete ELSE rbytes < LcSize
  /\ pc' = "error"
  /\ UNCHANGED <<fsize, cut, io, cursor, lc, seg, rem, segs, states, heap>>

Finish ==
  /\ pc = "command" /\ Complete
  /\ pc' = "opened"
  /\ UNCHANGED <<fsize, cut, io, cursor, lc, seg, rem, segs, states, heap>>

-----------------------------------------------------------------------------
(* hwx_free_segments, hwx_free_thread_states, close, free *)
Released ==
  {Fd, File, Segments, States} \cup {SectionsOf(i) : i \in DOMAIN segs}
                               \cup {DataOf(i) : i \in DOMAIN states}

(* The label error: of hwx_open, and hwx_close. *)
HwxClose ==
  /\ pc \in {"error", "opened"}
  /\ pc' = "closed"
  /\ heap' = heap \ Released
  /\ fsize' = 0 /\ io' = NoIo /\ cut' = FALSE
  /\ offset' = 0 /\ rbytes' = 0 /\ rcmds' = 0
  /\ lc' = 0 /\ seg' = NoSeg /\ rem' = 0
  /\ segs' = <<>> /\ states' = <<>>

(* The checks that hwx_segment_read and hwx_section_read share. *)
ReadOK(start, len, o, n) ==
  /\ n > 0 /\ o <= len /\ n <= len - o
  /\ WithinFile((start + o) % U64, n)

Read(r, o, n) ==
  /\ pc = "opened"
  /\ ReadOK(r.off, r.len, o, n)
  /\ Pread((r.off + o) % U64, n, "opened")
  /\ UNCHANGED <<fsize, cut, cursor, lc, seg, rem, segs, states, heap>>

SegmentRead(i, o, n) == Read(segs[i], o, n)
SectionRead(i, j, o, n) == Read(segs[i].sections[j], o, n)

-----------------------------------------------------------------------------
(* A step that a call goes on with by itself. *)
Step ==
  \/ \E k \in 1 .. (U64 - 1) : PreadSome(k)
  \/ PreadFail
  \/ \E n \in 0 .. MaxCmds, s \in 0 .. (U64 - 1) : Header(n, s)
  \/ CommandNext \/ Incomplete \/ Finish \/ AppendSegment \/ StatesDone \/ Reject
  \/ \E s \in 0 .. (U64 - 1) :
       OtherCommand(s) \/ SegmentCommand(s) \/ ThreadCommand(s)
  \/ \E name \in SegNames, off, len \in Values, n \in 0 .. MaxSects :
       Segment(name, off, len, n)
  \/ \E name \in SectNames, off, len \in Values : Section(name, off, len)
  \/ \E count \in 0 .. MaxWords : State(count)
  \/ pc = "error" /\ HwxClose

Call ==
  \/ \E n \in FileSizes : HwxOpen(n)
  \/ pc = "opened" /\ HwxClose
  \/ \E i \in DOMAIN segs, o, n \in 0 .. (U64 - 1) :
       \/ SegmentRead(i, o, n)
       \/ \E j \in DOMAIN segs[i].sections : SectionRead(i, j, o, n)

Next == Step \/ Call \/ Rewrite

Spec == Init /\ [][Next]_vars

(* The thread runs; a pread returns, with data, an error or the end. *)
FairSpec == Spec /\ WF_vars(Step)

-----------------------------------------------------------------------------
Inside == {"command", "lc", "segment", "section", "append", "state", "opened"}

Range64 == 0 .. (U64 - 1)
SectionType == [name : SectNames, off : Range64, len : Range64]
SegmentType == [name : SegNames, off : Range64, len : Range64, n : Nat,
                sections : Seq(SectionType)]

TypeOK ==
  /\ pc \in Inside \cup {"closed", "pread", "header", "error"}
  /\ fsize \in Range64 /\ cut \in BOOLEAN
  /\ io \in [off : Range64, len : Range64, done : Range64,
             then : Inside \cup {"closed", "header"}]
  /\ offset \in Range64 /\ rbytes \in Range64 /\ rcmds \in Nat
  /\ lc \in Range64 /\ rem \in Range64
  /\ seg \in SegmentType /\ segs \in Seq(SegmentType)
  /\ states \in Seq(Range64)
  /\ \A t \in heap :
       /\ t[1] \in {"fd", "file", "buffer", "sections", "segments", "states", "data"}
       /\ t[2] \in Nat

(* After the header, every pread lies inside the file that fstat saw,      *)
(* whatever the 64-bit fields of the file and the arguments of a caller    *)
(* are: no sum of them wraps.                                              *)
ReadsInFile ==
  pc = "pread" /\ io.then # "header" => io.off + io.len <= fsize

(* An open file owns its descriptor and every array that it points to, and *)
(* nothing else is alive; after a failed hwx_open and after hwx_close      *)
(* nothing is.                                                             *)
HeapExact ==
  /\ pc = "closed" => heap = {}
  /\ pc = "opened" =>
       heap = {Fd, File, Segments} \cup If(states # <<>>, {States})
         \cup {SectionsOf(i) : i \in {k \in DOMAIN segs : segs[k].sections # <<>>}}
         \cup {DataOf(i) : i \in {k \in DOMAIN states : states[k] > 0}}

(* hwx_open has checked enough for the reads: in an open file every part   *)
(* of every section and of every segment can be read, and nothing else     *)
(* can.                                                                    *)
ReadsAgree ==
  pc = "opened" =>
    \A i \in DOMAIN segs : \A r \in {segs[i]} \cup Range(segs[i].sections) :
      \A o, n \in Range64 :
        ReadOK(r.off, r.len, o, n) <=> n > 0 /\ o + n <= r.len

(* hwx_open and the reads return, whatever happens to the file meanwhile:  *)
(* the loops over commands, states and short reads all come to an end.     *)
OpenReturns == pc \notin {"closed", "opened"} ~> pc \in {"closed", "opened"}
=============================================================================
