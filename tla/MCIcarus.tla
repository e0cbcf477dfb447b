------------------------------- MODULE MCIcarus -------------------------------
(***************************************************************************)
(* Icarus.tla for TLC: imports of every board, of images that share a      *)
(* folder, of every system and by daedalus; two directories; and two       *)
(* programs that share a settings file.                                    *)
(***************************************************************************)
EXTENDS Icarus

Blank ==
  [title |-> "plain", mapper |-> \h20, romType |-> 0, romSize |-> 9, ramSize |-> 0,
   region |-> 1, company |-> \h33, checksum |-> TRUE, reset |-> "likely",
   extended |-> "none"]
Noise ==
  [title |-> "plain", mapper |-> \hff, romType |-> \hff, romSize |-> \hff, ramSize |-> \hff,
   region |-> \hff, company |-> \hff, checksum |-> FALSE, reset |-> "other",
   extended |-> "none"]

Image1(place, h, size) ==
  [size |-> size, start |-> "other", ines |-> FALSE, prg |-> 0, chr |-> 0,
   headers |-> [p \in Places |-> IF p = place THEN h ELSE Noise]]
Cart(type, name, image) ==
  [type |-> type, name |-> name, state |-> "readable", save |-> FALSE, image |-> image]

(* Every mapper and chip that the heuristics tell apart, in images with    *)
(* and without firmware and copier header, too short ones among them.      *)
ChipSizes == {\h4000, \h8000, \h1d200, \h18c00, \h2a000, \h68000, \h108000, \h410000}
Sizes == {\h8000, \h8200, \h8100, \h8300, \h1c0000, \h1c2000, \h242000, \h401200}
Chips ==
  {Cart(".sfc", "game",
        Image1("lo", [Blank EXCEPT !.mapper = m, !.romType = t, !.romSize = r,
                                    !.company = c], size)) :
     m \in {\h20, \h21, \h23, \h30, \h31, \h3a},
     t \in {\h03, \h05, \h13, \h32, \hf3, \hf5, \hf6, \hf9},
     r \in {9, 10}, c \in {\h33, \hb2}, size \in ChipSizes}
Specials ==
  {Cart(".smc", "game",
        [Image1(place, [Blank EXCEPT !.title = t, !.extended = x], size)
           EXCEPT !.start = start]) :
     place \in Places, t \in Titles, x \in {"none", "marked", "zero"}, size \in Sizes,
     start \in {"other", "SufamiTurboBIOS"}}
MCAllBoards == Chips \cup Specials

(* A few images that share a folder: with a chip, with a chip but no       *)
(* firmware, without a chip; a file that cannot be read; a slotted one.    *)
Dsp(size)   == Image1("lo", [Blank EXCEPT !.romType = \h03], size)
Spc(size)   == Image1("hi", [Blank EXCEPT !.mapper = \h3a, !.romType = \hf5], size)
Saved(s)    == [s EXCEPT !.save = TRUE]
Plain       == Image1("lo", Blank, \h80200)
MCLibrary ==
  {Saved(Cart(".sfc", "game", Dsp(\h82000))), Cart(".smc", "game", Dsp(\h80000)),
   Cart(".sfc", "game", Spc(\h180000)), Saved(Cart(".sfc", "other", Spc(\hc0000))),
   Saved(Cart(".smc", "game", Plain)), Cart(".txt", "game", Plain),
   [Cart(".sfc", "other", Plain) EXCEPT !.state = "empty"]}

(* One image of every system, and Famicom images whose header is right or  *)
(* asks for more or less than there is.                                    *)
Other(type, image) == Saved(Cart(type, "game", image))
Ines(prg, chr, size) ==
  [Image1("lo", Noise, size) EXCEPT !.ines = TRUE, !.prg = prg, !.chr = chr]
FileTypes == {".fc", ".nes", ".sfc", ".smc", ".ms", ".sms", ".md", ".smd", ".gen", ".pce", ".sg",
             ".sgx", ".gb", ".gbc", ".gba", ".gg", ".ws", ".wsc", ".bs", ".st"}
MCSystems ==
  {Other(type, [Image1("lo", Noise, size) EXCEPT !.start = start]) :
     type \in FileTypes, size \in {\h100, \h20000, \h20200},
     start \in {"other", "SufamiTurbo"}}
  \cup {Other(type, Ines(prg, chr, size)) :
          type \in {".nes", ".fc"}, prg \in 1..2, chr \in 0..2,
          size \in {16 + \h4000, 16 + \h6000, 16 + \hc000}}

MCImportSources ==
  [boards |-> MCAllBoards, library |-> MCLibrary, systems |-> MCSystems, daedalus |-> MCLibrary]
MCImportBound == [boards |-> 1, library |-> 3, systems |-> 1, daedalus |-> 1]

-------------------------------------------------------------------------------
(* A home directory with one image, and a directory below it with two.     *)
MCDirs    == {"home", "roms"}
MCParent  == [d \in MCDirs |-> "home"]
MCFiles   == [d \in MCDirs |-> IF d = "home" THEN {"a"} ELSE {"a", "b"}]
MCFolders == [d \in MCDirs |-> IF d = "home" THEN {"roms"} ELSE {}]

(* Both programs have a path of their own and share the library.           *)
MCPrograms == {"icarus", "daedalus"}
MCKeys     == {"Library/Location", "icarus/Path", "daedalus/Path"}
MCOwn      == [g \in MCPrograms |-> {"Library/Location", g \o "/Path"}]
===============================================================================
