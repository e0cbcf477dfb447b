-------------------------------- MODULE MCNall --------------------------------
(***************************************************************************)
(* Nall.tla for TLC: files of up to five bytes behind a page of two, and   *)
(* programs of up to five writes to pipes of two bytes; and one more       *)
(* scenario, patches between images of two different bytes, long enough    *)
(* for every kind of copy, and with a base so small that lengths and       *)
(* offsets take several bytes.                                             *)
(***************************************************************************)
EXTENDS Nall, BpsPatch

allVars == <<vars, patchVars>>

(* A patch that rests is one of nothing for nothing.                       *)
MCInit ==
  /\ Init /\ PatchInit
  /\ scenario # "patch" =>
       job.source = <<>> /\ job.target = <<>> /\ job.creator = "linear"

MCNext == \/ Next /\ UNCHANGED patchVars
          \/ scenario = "patch" /\ PatchNext /\ UNCHANGED vars

(* The fairness of Execute.tla.                                            *)
MCSpec == /\ MCInit /\ [][MCNext]_allVars
          /\ WF_allVars(OnWhich(OnPosix!Parent, OnWindows!Parent) /\ UNCHANGED patchVars)
          /\ WF_allVars(OnWhich(OnPosix!Child, OnWindows!Child) /\ UNCHANGED patchVars)

-------------------------------------------------------------------------------
(* Patches of all kinds, applied to what they were made of, and a few that *)
(* both appliers apply to other images as well.                            *)
Bits(lengths)  == UNION {[1..n -> {0, 1}] : n \in lengths}
Pairs(ss, ts)  == [source : ss, target : ts]

MCSources    == Bits({0, 1, 5}) \cup {<<0, 0, 0, 1, 0, 1, 1, 1>>, <<1, 0, 1, 0, 0, 1, 1, 0>>}
MCFewSources == {<<>>, <<0, 0, 1, 0, 1, 1>>, <<1, 1, 1, 1, 1, 1>>}
FewPatches   == Pairs(MCFewSources, Bits({3, 5, 6}))

Flip(s)   == [s EXCEPT ![Len(s)] = 1 - @]
Others(s) == {s, s \o <<0>>, s \o <<1, 0, 1, 0, 1>>} \cup
               (IF s = <<>> THEN {} ELSE {Flip(s), Flip(s) \o <<1, 1>>, Front(s)})

MCPatches == Pairs(MCSources, Bits({0, 2, 8})) \cup FewPatches
MCUses    == [p \in MCPatches |->
  IF p \in FewPatches THEN [image : Others(p.source), applier : {"strict", "ignore size"}]
                      ELSE {[image |-> p.source, applier |-> "strict"]}]

MCSeeks == {-2, -1, 0, 3, 5}

(* In the programs of POSIX what is read last, and in those of Windows     *)
(* anything, fits its pipe.                                                *)
Writes(n)   == UNION {[1..k -> {"out", "err"}] : k \in 0..n}
Count(p, s) == Cardinality({i \in DOMAIN p : p[i] = s})

MCPrograms ==
  ("posix"   :> {p \in Writes(5) : Count(p, "err") <= 2}) @@
  ("windows" :> {p \in Writes(5) : \A s \in {"out", "err"} : Count(p, s) <= 2}) @@
  ("posix, any program" :> Writes(5)) @@
  ("none" :> {<<>>})
===============================================================================
