------------------------------ MODULE BufferedFile ------------------------------
(***************************************************************************)
(* nall::file: a file behind one page of buffer, which is read when the    *)
(* offset enters a page, and is given back to the C library when it leaves *)
(* a dirty one, on a seek, flush() and close(), and only then.  The stream *)
(* is the file as the C library has it, which fread() reads.  What of it is*)
(* on the disk is that library's: all after flush() and close().           *)
(***************************************************************************)
EXTENDS Naturals, Integers, Sequences, SequencesExt

CONSTANTS
  Bytes, Zero, NoByte,
  Page,          \* buffer_size: 4096 in the code
  MaxLength, Seeks

PageAssumption == Page \in Nat \ {0} /\ MaxLength \in Nat /\ Seeks \subseteq Int

VARIABLES
  stream,        \* the file behind fp: what fwrite() was given
  mode,          \* file_mode, or "closed"
  file_offset, file_size,
  buffer, buffer_offset, buffer_dirty,
  value          \* what read() returned last

vars == <<stream, mode, file_offset, file_size, buffer, buffer_offset, buffer_dirty, value>>

Modes   == {"read", "write", "modify", "append"}
Invalid == -1

(* The file as a record, for the loops of seek().                          *)
Here == [stream |-> stream, offset |-> file_offset, size |-> file_size,
         buffer |-> buffer, base |-> buffer_offset, dirty |-> buffer_dirty]
There(f) ==
  /\ stream' = f.stream /\ file_offset' = f.offset /\ file_size' = f.size
  /\ buffer' = f.buffer /\ buffer_offset' = f.base /\ buffer_dirty' = f.dirty

Init ==
  /\ stream = <<>> /\ mode = "closed" /\ file_offset = 0 /\ file_size = 0
  /\ buffer = [i \in 1 .. Page |-> Zero] /\ buffer_offset = Invalid /\ buffer_dirty = FALSE
  /\ value = NoByte

-------------------------------------------------------------------------------
PageOf(offset) == offset - (offset % Page)
Length(f)      == IF f.base + Page <= f.size THEN Page ELSE f.size % Page

(* d, with the first n bytes of b over what is at an offset of it.         *)
Over(d, at, b, n) ==
  [i \in 1 .. (IF at + n > Len(d) THEN at + n ELSE Len(d)) |->
     IF i - at \in 1 .. n THEN b[i - at] ELSE d[i]]

buffer_flush(f) ==
  IF mode = "read" \/ f.base < 0 \/ ~f.dirty THEN f
  ELSE [f EXCEPT !.stream = Over(@, f.base, f.buffer, Length(f)), !.base = Invalid, !.dirty = FALSE]

buffer_sync(f) ==
  IF f.base = PageOf(f.offset) THEN f
  ELSE LET g == [buffer_flush(f) EXCEPT !.base = PageOf(f.offset)]
       IN  [g EXCEPT !.buffer = [i \in 1 .. Page |->
              IF i <= Length(g) /\ g.base + i <= Len(g.stream) THEN g.stream[g.base + i] ELSE @[i]]]

MutPut(f, b) ==                         \* mutant: elsewhere, around the buffer
  IF f.base # PageOf(f.offset) /\ f.offset < Len(f.stream)
  THEN [f EXCEPT !.stream[f.offset + 1] = b, !.offset = @ + 1]
  ELSE LET g == buffer_sync(f)
       IN  [g EXCEPT !.buffer[(g.offset % Page) + 1] = b, !.dirty = TRUE, !.offset = @ + 1,
                     !.size = IF g.offset + 1 > @ THEN g.offset + 1 ELSE @]
Put(f, b) ==
  LET g == buffer_sync(f)
  IN  [g EXCEPT !.buffer[(g.offset % Page) + 1] = b, !.dirty = TRUE, !.offset = @ + 1,
                !.size = IF g.offset + 1 > @ THEN g.offset + 1 ELSE @]

-------------------------------------------------------------------------------
Open(m) ==
  /\ mode = "closed"
  /\ mode' = m
  /\ stream' = IF m \in {"write", "append"} THEN <<>> ELSE stream
  /\ file_offset' = 0 /\ file_size' = Len(stream')
  /\ buffer_offset' = Invalid
  /\ UNCHANGED <<buffer, buffer_dirty, value>>

Read ==
  /\ mode # "closed"
  /\ IF mode = "write" \/ file_offset >= file_size
     THEN value' = NoByte /\ There(Here)
     ELSE LET g == buffer_sync(Here)
          IN  value' = g.buffer[(g.offset % Page) + 1] /\ There([g EXCEPT !.offset = @ + 1])
  /\ UNCHANGED mode

Write(b) ==
  /\ mode \notin {"closed", "read"} /\ file_offset < MaxLength
  /\ There(Put(Here, b))
  /\ UNCHANGED <<mode, value>>

Target(by, relative) == LET t == IF relative THEN file_offset + by ELSE by
                        IN  IF t < 0 THEN 0 ELSE t
MutPadded(f, to) ==                     \* mutant: only the size
  IF to <= f.size THEN f ELSE [f EXCEPT !.size = to]
Padded(f, to) ==
  LET padded[n \in 0 .. to - f.size] ==
        IF n = 0 THEN [f EXCEPT !.offset = f.size] ELSE Put(padded[n - 1], Zero)
  IN  IF to <= f.size THEN f ELSE padded[to - f.size]
Seek(by, relative) ==
  /\ mode # "closed" /\ Target(by, relative) <= MaxLength
  /\ LET f  == buffer_flush(Here)
         to == Target(by, relative)
     IN  There(IF mode = "read"
               THEN [f EXCEPT !.offset = IF to > f.size THEN f.size ELSE to]
               ELSE [Padded(f, to) EXCEPT !.offset = to])
  /\ UNCHANGED <<mode, value>>

Flush == mode # "closed" /\ There(buffer_flush(Here)) /\ UNCHANGED <<mode, value>>

Close ==
  /\ mode # "closed"
  /\ There(buffer_flush(Here))
  /\ mode' = "closed"
  /\ UNCHANGED value

Next ==
  \/ \E m \in Modes : Open(m)
  \/ Read
  \/ \E b \in Bytes : Write(b)
  \/ \E by \in Seeks, relative \in BOOLEAN : Seek(by, relative)
  \/ Flush
  \/ Close

Spec == Init /\ [][Next]_vars

-------------------------------------------------------------------------------
(* What the user of the file has made of it: the stream under a dirty page.*)
Content == IF buffer_dirty /\ mode # "closed"
           THEN Over(stream, buffer_offset, buffer, Length(Here)) ELSE stream

(* However reads, writes, seeks and flushes cross the pages, the buffered  *)
(* file reads and ends as the plain one, and close() leaves all of it.     *)
Plain == INSTANCE PlainFile WITH content <- Content, offset <- file_offset
IsPlainFile == Plain!Spec

(* What fwrite() has been given is all that was written up to some moment, *)
(* and never a later page without an earlier: a file that is not closed    *)
(* lacks the end of what was written, and nothing before it.               *)
WrittenInOrder ==
  [][stream' # stream =>
       \/ stream' = Content'
       \/ IsPrefix(Content, stream') /\ IsPrefix(stream', Content')
       \/ stream' = Content]_vars
===============================================================================
