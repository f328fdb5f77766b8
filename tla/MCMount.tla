------------------------------ MODULE MCMount ------------------------------
(* Real sizes in bytes, with the limits of the FAT types at 3 and 6 clusters   *)
(* and words of 16 bits for 32.  The images: formatted volumes of three        *)
(* types, plain, also of more than 65536 bytes, and in a dump of 12 flash      *)
(* sectors, whose file begins with an erased page; dumps of many shapes with   *)
(* no volume to speak of; and boot sectors of any numbers, zero, small and     *)
(* large; and a file with nothing in it.                                       *)
EXTENDS Mount

MCLayouts ==
  {l \in [bps : {512, 1024}, spc : {1, 2}, reserved : {1, 2}, fats : {1, 2}, fatsize : {1, 2},
          entries : {0, 24, 32}, clusters : {1, 2, 3, 5, 6, 7}, slack : {0, 1}, root : {3},
          large : BOOLEAN] :
     /\ l.slack < l.spc
     /\ l.entries = 0 <=> l.clusters >= 6}

Config(flash, n, page, record) ==
  [full |-> n * flash, page |-> page, sector |-> flash, record |-> record, place |-> flash]

Image(boot, layout, config, state, max_pos) ==
  [boot |-> boot, raw |-> IF config = NoConfig THEN boot ELSE NoBoot, layout |-> layout,
   config |-> config, state |-> state, max_pos |-> max_pos,
   size |-> IF config = NoConfig THEN 65536 ELSE config.full]

MCPlain == {Image(Format(l), l, NoConfig, TRUE, 0) : l \in MCLayouts}

\* Of more bytes than a word can number.
MCLarge ==
  {[Image(Format(l), l, NoConfig, TRUE, 0) EXCEPT !.size = Length(l) * l.bps] :
     l \in {[k EXCEPT !.spc = 32] : k \in {h \in MCLayouts : h.clusters = 7 /\ h.spc = 1}}}

MCDumps == {Image(Format(l), l, Config(4096, 12, 4096, 16), s, 9) :
              l \in {k \in MCLayouts : k.reserved = 1 /\ k.fats = 2}, s \in BOOLEAN}

MCBoot == [bps |-> 512, spc |-> 1, reserved |-> 1, fats |-> 1, entries |-> 16, total16 |-> 9,
           fatsize16 |-> 1, total32 |-> 0, fatsize32 |-> 1, root |-> 2]

MCShapes == {Image(MCBoot, NoLayout, Config(f, n, p, r), TRUE, m) :
               f \in {512, 4096}, n \in 3 .. 12, p \in {512, 1024, 4096}, r \in {16, 512},
               m \in 1 .. 9}

MCBoots == {Image(b, NoLayout, NoConfig, TRUE, 0) :
              b \in [bps : {0, 512}, spc : {0, 1, 3}, reserved : {0, 1, 65535}, fats : {0, 2, 255},
                     entries : {0, 17}, total16 : {0, 7, 65535}, fatsize16 : {0, 1, 257},
                     total32 : {0, 40}, fatsize32 : {1, 32768}, root : {2}]}

MCEmpty == {[Image(MCBoot, NoLayout, NoConfig, TRUE, 0) EXCEPT !.size = 0]}

MCImages == MCPlain \cup MCLarge \cup MCDumps \cup MCShapes \cup MCBoots \cup MCEmpty
=============================================================================
