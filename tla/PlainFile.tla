-------------------------------- MODULE PlainFile --------------------------------
(***************************************************************************)
(* What nall::file promises who uses one: a sequence of bytes and an       *)
(* offset; a read or write moves the offset, a seek past the end of a file *)
(* that may be written pads it with zeros, and one that may not stops.     *)
(***************************************************************************)
EXTENDS Naturals, Integers, Sequences, SequencesExt

CONSTANTS
  Bytes, Zero, NoByte,   \* NoByte: 0xff, what a read of nothing returns
  MaxLength, Seeks       \* bound the content and the distances that are sought

VARIABLES content, offset, mode, value

vars == <<content, offset, mode, value>>

Modes    == {"read", "write", "modify", "append"}
Zeros(n) == [i \in 1 .. n |-> Zero]

Init == content = <<>> /\ offset = 0 /\ mode = "closed" /\ value = NoByte

Open(m) ==
  /\ mode = "closed"
  /\ mode' = m
  /\ content' = IF m \in {"write", "append"} THEN <<>> ELSE content
  /\ offset' = 0
  /\ UNCHANGED value

Read ==
  /\ mode # "closed"
  /\ IF mode # "write" /\ offset < Len(content)
     THEN value' = content[offset + 1] /\ offset' = offset + 1
     ELSE value' = NoByte /\ UNCHANGED offset
  /\ UNCHANGED <<content, mode>>

Write(b) ==
  /\ mode \notin {"closed", "read"} /\ offset < MaxLength /\ offset <= Len(content)
  /\ content' = [i \in 1 .. (IF offset = Len(content) THEN offset + 1 ELSE Len(content)) |->
                   IF i = offset + 1 THEN b ELSE content[i]]
  /\ offset' = offset + 1
  /\ UNCHANGED <<mode, value>>

SeekTo(target) ==
  LET to == IF target < 0 THEN 0 ELSE target
  IN  /\ mode # "closed" /\ to <= MaxLength
      /\ IF mode = "read"
         THEN offset' = (IF to > Len(content) THEN Len(content) ELSE to) /\ UNCHANGED content
         ELSE offset' = to /\ content' = content \o Zeros(to - Len(content))
      /\ UNCHANGED <<mode, value>>

Close == mode # "closed" /\ mode' = "closed" /\ UNCHANGED <<content, offset, value>>

Next ==
  \/ \E m \in Modes : Open(m)
  \/ Read
  \/ \E b \in Bytes : Write(b)
  \/ \E to \in -1 .. MaxLength : SeekTo(to)
  \/ Close

Spec == Init /\ [][Next]_vars
===============================================================================
