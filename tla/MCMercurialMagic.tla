--------------------------- MODULE MCMercurialMagic ---------------------------
(***************************************************************************)
(* Small archives for MercurialMagic.tla.                                  *)
(***************************************************************************)
EXTENDS MercurialMagicProperties

E(stem, ext, digits) == [stem |-> stem, ext |-> ext, digits |-> digits]
Patch   == E("patch", ".bps", 0)
Data    == E("msu1", ".rom", 1)
Program == E("program", ".rom", 0)

(* The names of the files, without their suffix.                           *)
MCPrefix ==
  [p \in PackPaths |-> CASE p = NoPath -> "" [] p \in OutputNames -> p [] OTHER -> "Game"]

(* The two structures of README.txt, and packs that keep to neither.       *)
MCArchive ==
  [p \in Packs |->
     CASE p = "Game"  -> <<Patch, Data, E("track-1", ".pcm", 1)>>
       [] p = "Other" -> <<Data, Patch, E("track-2", ".pcm", 2)>>
       [] p = "Home"  -> <<Program, E("dsp1.program", ".rom", 1), Data,
                           E("track-1", ".wav", 1)>>
       [] p = "Song"  -> <<Program, Data, E("track-1", ".wav", 1)>>
       [] p = "Mini"  -> <<Program, Data>>
       [] p = "Lossy" -> <<Program, Data, E("track-2", ".ogg", 2)>>
       [] p = "Both"  -> <<Patch, Program, Data>>
       [] p = "Slots" -> <<Program, E("slot-a", ".rom", 0),
                           E("slot-b", ".rom", 0), Data>>
       [] p = "NoData" -> <<Patch, E("track-1", ".pcm", 1)>>
       [] p = "NotZip" -> <<>>]

(* "padded" begins with "good"; "Other" is a patch for another game.       *)
MCPatchSource  == [p \in Packs |-> IF p = "Other" THEN "other" ELSE "good"]
MCSourcePrefix ==
  [p \in Packs |-> (IF p = "Other" THEN {"other"} ELSE {"good", "padded"}) \cap Images]
MCLongEnough   == [p \in Packs |-> {"good", "padded", "other"} \cap Images]

MCStems == {"patch", "msu1", "program", "dsp1.program", "slot-a", "slot-b",
            "track-1", "track-2"}

(* The archives have no names of these stems but the ones shown.      *)
MCSlotStems    == {"slot-a", "slot-b"}
MCBootStems    == {"sgb.boot"}
MCProgramStems == {"dsp1.program"}
MCDataStems    == {"dsp1.data"}

(* A header that says the board has no chip, and one with a DSP1.          *)
MCBoards == {{}, {"dsp1.program"}}

(* An archive with its own ROM leaves the BPS rules without effect.        *)
MCWithinRules == ~app.violateBPS

MCWorkerSymmetry == Permutations(Workers)
===============================================================================
