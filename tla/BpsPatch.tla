------------------------------- MODULE BpsPatch -------------------------------
(***************************************************************************)
(* BPS patches: the two programs of nall that make one from a source and a *)
(* target (bpslinear, bpsdelta), and the two that apply one to an image    *)
(* (bpspatch, which insists on the source, and ramus'                      *)
(* bpspatch_ignore_size, which does not).                                  *)
(*                                                                         *)
(* The body of a patch is the sequence of its bytes; sizes and checksums   *)
(* around it are fields, and a checksum is what it was taken of.  Offsets  *)
(* begin with 0, as in the code.                                           *)
(***************************************************************************)
EXTENDS Integers, SequencesExt

CONSTANTS
  Base,       \* values of a byte of a number: 128
  Patches,    \* [source, target]: what patches are made of
  Uses,       \* of each of them, [image, applier]: what it is applied to, by whom
  Creators    \* among "linear" and "delta"

Byte == 0..(2 * Base - 1)
Pair == [source : Seq(Byte), target : Seq(Byte)]
Use  == [image : Seq(Byte), applier : {"strict", "ignore size"}]

ASSUME PatchAssumption ==
  /\ Base \in Nat \ {0, 1}
  /\ Patches \subseteq Pair /\ \A p \in Patches : Uses[p] \subseteq Use
  /\ Creators \subseteq {"linear", "delta"}

VARIABLES
  job,        \* [source, target, creator, image, applier]
  phase,      \* "create", "apply", or the result of apply()
  body,       \* of the patch
  offsets,    \* the read and write positions of who is at work
  nodes,      \* bpsdelta's target tree: the offsets in it
  pending,    \* targetReadLength
  output      \* targetData, up to outputOffset

patchVars == <<job, phase, body, offsets, nodes, pending, output>>

At(s, i) == s[i + 1]
Slice(s, from, length) == SubSeq(s, from + 1, from + length)

-------------------------------------------------------------------------------
(* Numbers: seven bits a byte, the last byte marked, no two encodings of a *)
(* number.                                                                 *)
encode[n \in Nat] ==
  IF n < Base THEN <<Base + n>>
              ELSE <<n % Base>> \o encode[n \div Base - 1]

decode(bytes, i) ==
  LET last == CHOOSE k \in (i + 1)..Len(bytes) :
                bytes[k] >= Base /\ \A j \in (i + 1)..(k - 1) : bytes[j] < Base
      value[k \in (i + 1)..last] ==
        IF k = last THEN bytes[k] - Base ELSE bytes[k] + Base * (value[k + 1] + 1)
  IN  [value |-> value[i + 1], next |-> last]

SourceRead == 0
TargetRead == 1
SourceCopy == 2
TargetCopy == 3
Command(mode, length) == encode[4 * (length - 1) + mode]

MutSigned(n) == encode[IF n < 0 THEN 2 * (-n) ELSE 2 * n]  \* mutant: no sign
Signed(n) == encode[IF n < 0 THEN 2 * (-n) + 1 ELSE 2 * n]

(* How long s from i on and t from j on agree, i or j being inside; with   *)
(* t = s and i < j what is compared may itself be a copy.                  *)
Agreement(s, i, t, j) ==
  LET most == LET a == Len(s) - i  b == Len(t) - j IN IF a < b THEN a ELSE b
      Agree(n) == \A k \in 0..(n - 1) : At(s, i + k) = At(t, j + k)
  IN  Max({n \in 0..most : Agree(n)} \cup {0})

-------------------------------------------------------------------------------
Start == [output |-> 0, source |-> 0, target |-> 0, modify |-> 0]

PatchInit ==
  /\ \E p \in Patches, c \in Creators :
       job = [source |-> p.source, target |-> p.target, creator |-> c,
              image |-> <<>>, applier |-> "none"]
  /\ phase = "create" /\ body = <<>>
  /\ offsets = Start /\ nodes = {} /\ pending = 0 /\ output = <<>>

Source == job.source
Target == job.target
Creating(c) == phase = "create" /\ job.creator = c /\ offsets.output < Len(Target)

(* targetReadFlush, when outputOffset is at o and length bytes wait.       *)
MutFlushed(o, length) ==                \* mutant: the bytes from outputOffset on
  IF length = 0 THEN body
  ELSE body \o Command(TargetRead, length) \o Slice(Target, o - 1, length)
Flushed(o, length) ==
  IF length = 0 THEN body
  ELSE body \o Command(TargetRead, length) \o Slice(Target, o - length, length)

Emit(bytes) == /\ body' = bytes /\ UNCHANGED <<job, phase, output>>
Delay == pending' = pending + 1 /\ Emit(body)

(* One turn of the loop of bpslinear::create.                              *)
Linear ==
  /\ Creating("linear")
  /\ LET o == offsets.output
         sourceLength == Agreement(Source, o, Target, o)
         rleLength == LET run == {n \in 0..(Len(Target) - o - 1) :
                                    \A k \in 0..n : At(Target, o + k) = At(Target, o)}
                      IN  Max(run)
     IN  \/ /\ rleLength >= 4
            /\ Emit(Flushed(o + 1, pending + 1) \o Command(TargetCopy, rleLength)
                      \o encode[2 * (o - offsets.target)])
            /\ offsets' = [offsets EXCEPT !.output = o + 1 + rleLength,
                                          !.target = o + rleLength]
            /\ pending' = 0
         \/ /\ rleLength < 4 /\ sourceLength >= 4
            /\ Emit(Flushed(o, pending) \o Command(SourceRead, sourceLength))
            /\ offsets' = [offsets EXCEPT !.output = o + sourceLength]
            /\ pending' = 0
         \/ /\ rleLength < 4 /\ sourceLength < 4
            /\ Delay
            /\ offsets' = [offsets EXCEPT !.output = o + 1]
  /\ UNCHANGED nodes

(* The two bytes by which bpsdelta looks offsets up.                       *)
Symbol(s, i) == <<At(s, i), IF i < Len(s) - 1 THEN At(s, i + 1) ELSE 0>>

(* The longest agreement from a list of nodes, the newest node of those.   *)
NoMatch == [length |-> 0, offset |-> 0]
Longest(s, found) ==
  LET length(n) == Agreement(s, n, Target, offsets.output)
      best == {n \in found : \A m \in found : length(m) <= length(n)}
  IN  IF found = {} THEN NoMatch ELSE [length |-> length(Max(best)), offset |-> Max(best)]

(* One turn of the loop of bpsdelta::create.                               *)
Delta ==
  /\ Creating("delta")
  /\ LET o == offsets.output
         Alike(s, i) == Symbol(s, i) = Symbol(Target, o)
         read   == Agreement(Source, o, Target, o)
         source == Longest(Source, {i \in 0..(Len(Source) - 1) : Alike(Source, i)})
         target == Longest(Target, {i \in nodes : Alike(Target, i)})
         length == Max({read, source.length, target.length})
         Copy(mode, from, at) ==
           /\ Emit(Flushed(o, pending) \o Command(mode, length) \o Signed(from.offset - at))
           /\ pending' = 0
     IN  /\ nodes' = nodes \cup {o}
         /\ \/ /\ length >= 4 /\ length = read
               /\ Emit(Flushed(o, pending) \o Command(SourceRead, length))
               /\ pending' = 0
               /\ offsets' = [offsets EXCEPT !.output = o + length]
            \/ /\ length >= 4 /\ read < length /\ length = source.length
               /\ Copy(SourceCopy, source, offsets.source)
               /\ offsets' = [offsets EXCEPT !.output = o + length,
                                             !.source = source.offset + length]
            \/ /\ length >= 4 /\ read < length /\ source.length < length
               /\ Copy(TargetCopy, target, offsets.target)
               /\ offsets' = [offsets EXCEPT !.output = o + length,
                                             !.target = target.offset + length]
            \/ /\ length < 4
               /\ Delay
               /\ offsets' = [offsets EXCEPT !.output = o + 1]

(* The rest of the patch; and somebody applies it to an image.  modify()   *)
(* and source() of bpspatch_ignore_size stretch the target to the image.   *)
Finish(image, applier) ==
  /\ phase = "create" /\ offsets.output = Len(Target)
  /\ body' = Flushed(offsets.output, pending)
  /\ phase' = "apply"
  /\ job' = [job EXCEPT !.image = image, !.applier = applier]
  /\ offsets' = Start /\ pending' = 0 /\ nodes' = {} /\ output' = <<>>

-------------------------------------------------------------------------------
(* apply().                                                                *)
Applying == phase = "apply" /\ Len(job.image) >= Len(Source)
Size == IF job.applier = "strict" THEN Len(Target)
        ELSE Max({Len(Target), Len(job.image)})

TooSmall ==
  /\ phase = "apply" /\ Len(job.image) < Len(Source)
  /\ phase' = "source_too_small"
  /\ UNCHANGED <<job, body, offsets, nodes, pending, output>>

(* Bytes that a copy appends, which may be among those that it copies; a   *)
(* read outside (ReadsAreInBounds: none) is given a 0.                     *)
Copied(data, from, length, growing) ==
  LET made[n \in 0..length] ==
        IF n = 0 THEN <<>>
        ELSE Append(made[n - 1], LET all == IF growing THEN data \o made[n - 1] ELSE data
                                     i   == from + n - 1
                                 IN  IF i \in 0..(Len(all) - 1) THEN At(all, i) ELSE 0)
  IN  made[length]

ApplyCommand ==
  /\ Applying /\ offsets.modify < Len(body)
  /\ LET command == decode(body, offsets.modify)
         mode    == command.value % 4
         length  == command.value \div 4 + 1
         second  == decode(body, command.next)
         offset  == IF second.value % 2 = 1 THEN -(second.value \div 2) ELSE second.value \div 2
         source  == offsets.source + offset
         target  == offsets.target + offset
     IN  \/ /\ mode = SourceRead
            /\ output' = output \o Slice(job.image, offsets.output, length)
            /\ offsets' = [offsets EXCEPT !.output = @ + length, !.modify = command.next]
         \/ /\ mode = TargetRead
            /\ output' = output \o Slice(body, command.next, length)
            /\ offsets' = [offsets EXCEPT !.output = @ + length,
                                          !.modify = command.next + length]
         \/ /\ mode = SourceCopy
            /\ output' = output \o Copied(job.image, source, length, FALSE)
            /\ offsets' = [offsets EXCEPT !.output = @ + length, !.modify = second.next,
                                          !.source = source + length]
         \/ /\ mode = TargetCopy
            /\ output' = output \o Copied(output, target, length, TRUE)
            /\ offsets' = [offsets EXCEPT !.output = @ + length, !.modify = second.next,
                                          !.target = target + length]
  /\ UNCHANGED <<job, phase, body, nodes, pending>>

(* The checksums of the image, as far as the source's size, and the target.*)
MutCheckStrict ==                       \* mutant: of the whole image
  /\ Applying /\ offsets.modify = Len(body) /\ job.applier = "strict"
  /\ phase' = IF job.image # Source THEN "source_checksum_invalid"
              ELSE IF output # Target THEN "target_checksum_invalid" ELSE "success"
  /\ UNCHANGED <<job, body, offsets, nodes, pending, output>>
CheckStrict ==
  /\ Applying /\ offsets.modify = Len(body) /\ job.applier = "strict"
  /\ phase' = IF Slice(job.image, 0, Len(Source)) # Source THEN "source_checksum_invalid"
              ELSE IF output # Target THEN "target_checksum_invalid" ELSE "success"
  /\ UNCHANGED <<job, body, offsets, nodes, pending, output>>

(* What an image has beyond the target is kept.                            *)
MutCheckIgnoring ==                     \* mutant: from its beginning
  /\ Applying /\ offsets.modify = Len(body) /\ job.applier = "ignore size"
  /\ phase' = "success"
  /\ output' = output \o Slice(job.image, 0, Size - Len(output))
  /\ UNCHANGED <<job, body, offsets, nodes, pending>>
CheckIgnoring ==
  /\ Applying /\ offsets.modify = Len(body) /\ job.applier = "ignore size"
  /\ phase' = "success"
  /\ output' = output \o Slice(job.image, Len(output), Size - Len(output))
  /\ UNCHANGED <<job, body, offsets, nodes, pending>>

PatchNext ==
  \/ Linear \/ Delta
  \/ \E use \in Uses[[source |-> Source, target |-> Target]] : Finish(use.image, use.applier)
  \/ TooSmall \/ ApplyCommand \/ CheckStrict \/ CheckIgnoring

PatchSpec == PatchInit /\ [][PatchNext]_patchVars

-------------------------------------------------------------------------------
Done == phase \notin {"create", "apply"}

(* A patch made by either program, applied to the image it was made of, or *)
(* to one that begins with it, gives the target, byte for byte.            *)
PatchRoundTrip ==
  Done /\ Len(job.image) >= Len(Source) /\ Slice(job.image, 0, Len(Source)) = Source =>
    /\ phase = "success"
    /\ Slice(output, 0, Len(Target)) = Target
    /\ job.applier = "strict" => output = Target

(* bpspatch calls nothing a success but the target; and with the rules of  *)
(* the BPS format violated an image of the right size still comes out      *)
(* whole: nothing that it had beyond the target is lost.                   *)
SuccessMeansTarget ==
  phase = "success" =>
    IF job.applier = "strict" THEN output = Target
    ELSE /\ Len(output) = Size
         /\ \A i \in Len(Target)..(Size - 1) : At(output, i) = At(job.image, i)

(* No command of a patch that was made reads outside what there is: the    *)
(* image as far as the source, and what was written.                       *)
ReadsAreInBounds ==
  phase = "apply" => /\ Len(output) = offsets.output
                     /\ offsets.output <= Len(Target)
                     /\ offsets.source \in 0..Len(Source)
                     /\ offsets.target \in 0..offsets.output
AppliesRightly == SuccessMeansTarget /\ ReadsAreInBounds
===============================================================================
