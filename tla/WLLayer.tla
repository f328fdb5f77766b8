------------------------------ MODULE WLLayer ------------------------------
(***************************************************************************)
(* The wear-levelling layer of the HAL (wl_layer.c, hal.c): how the state   *)
(* of an ESP-IDF partition dump is loaded, how the position of the dummy    *)
(* page is recovered, and how logical sectors are read and written through  *)
(* the translation.                                                        *)
(*                                                                         *)
(* The partition is written by a device (WL_Flash of ESP-IDF, outside this *)
(* repository, modelled as wl_layer.h and wl_layer.c describe it): it       *)
(* moves the dummy page step by step, and power can be cut after any step.  *)
(* What is on the flash then is the image this program opens.               *)
(*                                                                         *)
(* The unit of an address is one FAT sector; a page is PageSize of them.    *)
(***************************************************************************)
EXTENDS Integers

CONSTANTS
  Pages,      \* pages of the volume: flash_size / page_size
  PageSize,   \* sectors in a page
  Data,       \* what a sector can hold
  Erased,     \* what an erased sector holds
  Faults      \* what may fail: reading a state "header", "memory" or reading a
              \* "record" in wl_recover_pos, reading or writing a "sector" of the
              \* volume, and "image", a state copy that the dump has damaged

ASSUME SizeAssumption == Pages \in Nat \ {0} /\ PageSize \in Nat \ {0}
ASSUME ErasedAssumption == Erased \notin Data
ASSUME WLFaultsAssumption ==
  Faults \subseteq {"header", "memory", "record", "sector", "image"}

FlashSize == Pages * PageSize              \* flash_size
MaxPos == Pages + 1                        \* max_pos
Logical == 0 .. FlashSize - 1              \* the sectors of the volume
Physical == 0 .. FlashSize + PageSize - 1  \* the sectors of the data pages
PageAt(a) == a .. a + PageSize - 1
Cell == Data \cup {Erased}

\* One copy of wl_state: whether its header is valid (CRC, version, block_size),
\* its move_count, and which position records are not all 0xFF.
StateCopy == [valid : BOOLEAN, moves : 0 .. Pages - 1, recs : SUBSET (0 .. Pages)]
Blank == [valid |-> FALSE, moves |-> 0, recs |-> {}]
Fresh(m) == [valid |-> TRUE, moves |-> m, recs |-> {}]

VARIABLES
  flash,    \* the data pages of the partition
  copies,   \* copies[1] at addr_state1, copies[2] at addr_state2
  pos,      \* the device's position of the dummy page, in RAM
  moves,    \* the device's rotations of the volume, in RAM
  content,  \* ghost: what the device, or a HAL write, last stored in each sector
  step,     \* the device's next step, then the program's
  wl,       \* wl->state.pos and wl->state.move_count
  source,   \* which copy wl_load_state took, 0 if none
  harm,     \* ghost: which faults the opening of the image has met
  answer    \* the last hal_read_sector: the sector, what it returned, and (ghost)
            \* whether the file could not be read there

device == <<flash, copies, pos, moves, content>>
program == <<wl, source, harm, answer>>
vars == <<device, program, step>>

DeviceSteps == {"idle", "copy", "record1", "record2", "erase1", "write1", "erase2", "write2"}
ProgramSteps == {"load", "recover", "open", "refused"}
Failed == "failed"        \* -1 of hal_read_sector, or fewer bytes than a sector
NoAnswer == [sector |-> -1, data |-> Failed, broken |-> FALSE]

TypeOK ==
  /\ flash \in [Physical -> Cell]
  /\ copies \in [{1, 2} -> StateCopy]
  /\ pos \in 0 .. Pages
  /\ moves \in 0 .. Pages - 1
  /\ content \in [Logical -> Cell]
  /\ step \in DeviceSteps \cup ProgramSteps
  /\ wl \in [pos : 0 .. Pages, moves : 0 .. Pages - 1]
  /\ source \in {0, 1, 2}
  /\ harm \subseteq Faults
  /\ answer \in [sector : Int, data : Cell \cup {Failed}, broken : BOOLEAN]

-----------------------------------------------------------------------------
(* The device.  The volume is the pages of the partition but the dummy page, *)
(* rotated by m pages.                                                      *)

\* Where the device keeps sector a: the rotated address, one page further from
\* the dummy page on.
Place(m, p, a) ==
  LET start == m * PageSize
      rotated == IF a >= start THEN a - start ELSE a - start + FlashSize
  IN  IF rotated < p * PageSize THEN rotated ELSE rotated + PageSize

\* A formatted partition: the dummy page is page 0.
Init ==
  /\ flash = [a \in Physical |-> Erased]
  /\ copies = [i \in {1, 2} |-> Fresh(0)]
  /\ pos = 0 /\ moves = 0
  /\ content = [a \in Logical |-> Erased]
  /\ step = "idle"
  /\ wl = [pos |-> 0, moves |-> 0]
  /\ source = 0 /\ harm = {} /\ answer = NoAnswer

\* The file system of the device erases a logical page and programs its sectors.
Erase(l) ==
  /\ step = "idle"
  /\ content' = [a \in Logical |-> IF a \in PageAt(l * PageSize) THEN Erased ELSE content[a]]
  /\ flash' = [x \in Physical |->
                 IF \E a \in PageAt(l * PageSize) : x = Place(moves, pos, a)
                 THEN Erased ELSE flash[x]]
  /\ UNCHANGED <<copies, pos, moves, program, step>>

Program(a, v) ==
  /\ step = "idle" /\ content[a] = Erased
  /\ content' = [content EXCEPT ![a] = v]
  /\ flash' = [flash EXCEPT ![Place(moves, pos, a)] = v]
  /\ UNCHANGED <<copies, pos, moves, program, step>>

\* Moving the dummy page: erase it, copy the page after it (the first, after
\* the last) into it, and record the move in both copies ...
MoveErase ==
  /\ step = "idle"
  /\ flash' = [x \in Physical |-> IF x \in PageAt(pos * PageSize) THEN Erased ELSE flash[x]]
  /\ step' = "copy"
  /\ UNCHANGED <<copies, pos, moves, content, program>>

NextPage == IF pos = Pages THEN 0 ELSE (pos + 1) * PageSize

MoveCopy ==
  /\ step = "copy"
  /\ flash' = [x \in Physical |-> IF x \in PageAt(pos * PageSize)
                                  THEN flash[NextPage + x - pos * PageSize] ELSE flash[x]]
  /\ step' = "record1"
  /\ UNCHANGED <<copies, pos, moves, content, program>>

Record(c, p) == [valid |-> c.valid, moves |-> c.moves, recs |-> c.recs \cup {p}]

MoveRecord1 ==
  /\ step = "record1"
  /\ copies' = [copies EXCEPT ![1] = Record(@, pos)]
  /\ step' = "record2"
  /\ UNCHANGED <<flash, pos, moves, content, program>>

NextMoves(m) == IF m + 1 = Pages THEN 0 ELSE m + 1

MoveRecord2 ==
  /\ step = "record2"
  /\ copies' = [copies EXCEPT ![2] = Record(@, pos)]
  /\ IF pos < Pages
     THEN pos' = pos + 1 /\ moves' = moves /\ step' = "idle"
     ELSE pos' = 0 /\ moves' = NextMoves(moves) /\ step' = "erase1"
  /\ UNCHANGED <<flash, content, program>>

\* ... and after a full rotation write both copies afresh.
EraseState(i) ==
  /\ step = IF i = 1 THEN "erase1" ELSE "erase2"
  /\ copies' = [copies EXCEPT ![i] = Blank]
  /\ step' = IF i = 1 THEN "write1" ELSE "write2"
  /\ UNCHANGED <<flash, pos, moves, content, program>>

WriteState(i) ==
  /\ step = IF i = 1 THEN "write1" ELSE "write2"
  /\ copies' = [copies EXCEPT ![i] = Fresh(moves)]
  /\ step' = IF i = 1 THEN "erase2" ELSE "idle"
  /\ UNCHANGED <<flash, pos, moves, content, program>>

\* Power is cut, at any step, and the partition is dumped to a file.
PowerOff ==
  /\ step \in DeviceSteps
  /\ step' = "load"
  /\ UNCHANGED <<device, program>>

Damage(i) ==
  /\ step = "load" /\ "image" \in Faults
  /\ copies' = [copies EXCEPT ![i] = Blank]
  /\ harm' = harm \cup {"image"}
  /\ UNCHANGED <<flash, pos, moves, content, wl, source, answer, step>>

-----------------------------------------------------------------------------
(* The program: wl_load_state and wl_recover_pos *)

\* The headers that cannot be read, and what the harm is then.
Unreadable == SUBSET IF "header" \in Faults THEN {1, 2} ELSE {}
Unread(unread) == harm \cup IF unread = {} THEN {} ELSE {"header"}

\* The first copy whose header can be read and is valid is taken.
LoadState ==
  /\ step = "load"
  /\ \E i \in {1, 2}, unread \in Unreadable :
       /\ copies[i].valid
       /\ unread \subseteq 1 .. i - 1
       /\ \A j \in 1 .. i - 1 : j \in unread \/ ~ copies[j].valid
       /\ source' = i
       /\ wl' = [pos |-> 0, moves |-> copies[i].moves]
       /\ harm' = Unread(unread)
  /\ step' = "recover"
  /\ UNCHANGED <<device, answer>>

\* Mutant: without copy 1 the image is refused.
RefuseStateFirst ==
  /\ step = "load"
  /\ \E unread \in Unreadable :
       /\ 1 \in unread \/ ~ copies[1].valid
       /\ harm' = Unread(unread)
  /\ step' = "refused"
  /\ UNCHANGED <<device, wl, source, answer>>

\* Neither header can be read and is valid: "refusing to translate".
RefuseState ==
  /\ step = "load"
  /\ \E unread \in Unreadable :
       /\ \A i \in {1, 2} : i \in unread \/ ~ copies[i].valid
       /\ harm' = Unread(unread)
  /\ step' = "refused"
  /\ UNCHANGED <<device, wl, source, answer>>

\* Mutant: the number of records that are set, one too many when all are.
StopsAfter(recs) == {i \in 0 .. MaxPos : /\ \A j \in 0 .. i - 1 : j \in recs
                                         /\ i \notin recs}

\* Mutant: the position is the last record that is set, not the one after it.
StopsAtSet(recs) == {i \in 0 .. MaxPos - 1 : /\ i = 0 \/ \A j \in 0 .. i : j \in recs
                                             /\ i + 1 \notin recs}

\* The records i of copy 1 (also when the header came from copy 2) at which the
\* scan can stop: the first that is not set, or the last of all.
Stops(recs) == {i \in 0 .. MaxPos - 1 : /\ \A j \in 0 .. i - 1 : j \in recs
                                        /\ i \notin recs \/ i = MaxPos - 1}

\* The records passed before the scan meets one that cannot be read.
Passed(recs) == {i \in 0 .. MaxPos - 1 : \A j \in 0 .. i - 1 : j \in recs}

\* The scan ends where it should, or at a record that cannot be read; without a
\* buffer the stored position, which the device writes as 0, stays.  A position at
\* or past max_pos would be taken for 0.
RecoverPos ==
  /\ step = "recover"
  /\ \E p \in 0 .. Pages :
       /\ \/ p \in Stops(copies[1].recs) /\ harm' = harm
          \/ p \in Passed(copies[1].recs) /\ "record" \in Faults /\ harm' = harm \cup {"record"}
          \/ p = wl.pos /\ "memory" \in Faults /\ harm' = harm \cup {"memory"}
       /\ wl' = [wl EXCEPT !.pos = IF p >= MaxPos THEN 0 ELSE p]
  /\ step' = "open"
  /\ UNCHANGED <<device, source, answer>>

-----------------------------------------------------------------------------
(* The program: wl_layer_translate, hal_read_sector, hal_write_sector *)

\* Mutant: the dummy page itself is not skipped.
TranslateAtDummy(w, addr) ==
  LET result == (FlashSize - ((w.moves * PageSize) % FlashSize) + addr) % FlashSize
  IN  IF result > w.pos * PageSize THEN result + PageSize ELSE result

Translate(w, addr) ==
  LET result == (FlashSize - ((w.moves * PageSize) % FlashSize) + addr) % FlashSize
  IN  IF result >= w.pos * PageSize THEN result + PageSize ELSE result

\* Mutant: the first sector after the volume is let through.
BeyondVolumeLate(s) == s > FlashSize

BeyondVolume(s) == s + 1 > FlashSize

HalRead(s) ==
  /\ step = "open"
  /\ \/ answer' = [sector |-> s,
                   data |-> IF BeyondVolume(s) THEN Failed ELSE flash[Translate(wl, s)],
                   broken |-> FALSE]
     \/ /\ "sector" \in Faults /\ ~ BeyondVolume(s)
        /\ answer' = [sector |-> s, data |-> Failed, broken |-> TRUE]
  /\ UNCHANGED <<device, wl, source, harm, step>>

\* A write that fails may leave anything in its sector, and in no other.
Stored(v) == IF "sector" \in Faults THEN Cell ELSE {v}

HalWrite(s, v) ==
  /\ step = "open"
  /\ IF BeyondVolume(s)
     THEN UNCHANGED <<flash, content>>
     ELSE \E c \in Stored(v) : /\ flash' = [flash EXCEPT ![Translate(wl, s)] = c]
                               /\ content' = [content EXCEPT ![s] = c]
  /\ answer' = NoAnswer
  /\ UNCHANGED <<copies, pos, moves, wl, source, harm, step>>

\* The sectors a file system may ask for, on the volume and past its end.
Sectors == 0 .. FlashSize + 1

Next ==
  \/ \E l \in 0 .. Pages - 1 : Erase(l)
  \/ \E a \in Logical, v \in Data : Program(a, v)
  \/ MoveErase
  \/ MoveCopy
  \/ MoveRecord1
  \/ MoveRecord2
  \/ \E i \in {1, 2} : EraseState(i)
  \/ \E i \in {1, 2} : WriteState(i)
  \/ PowerOff
  \/ \E i \in {1, 2} : Damage(i)
  \/ LoadState
  \/ RefuseState
  \/ RecoverPos
  \/ \E s \in Sectors : HalRead(s)
  \/ \E s \in Sectors, v \in Data : HalWrite(s, v)

Spec == Init /\ [][Next]_vars

-----------------------------------------------------------------------------
(* Properties *)

\* Whenever power is cut, one of the two state headers is intact, so the program
\* refuses the dump of a partition that a device has written only when the dump
\* has damaged a copy or a header cannot be read (with the other copy half
\* written, one unreadable header is enough).
NeverRefused == step = "refused" => harm \cap {"image", "header"} # {}

\* The records could be read.
Recovered == harm \cap {"memory", "record"} = {}

\* Opened from copy 1, at whatever step the device was stopped: every sector of
\* the volume reads as the device last left it, and as the HAL wrote it since.
FirstCopyReadsVolume ==
  step = "open" /\ source = 1 /\ Recovered =>
    \A a \in Logical : flash[Translate(wl, a)] = content[a]

\* hal_read_sector answers with the sector it was asked for, and fails for every
\* sector past the volume and for no other, but where the file cannot be read.
ReadAnswers ==
  answer # NoAnswer /\ ~ answer.broken /\ source = 1 /\ Recovered =>
    answer.data = IF answer.sector \in Logical THEN content[answer.sector] ELSE Failed

\* However the position was recovered, no two sectors of the volume share a
\* sector of the partition, and none lies in the dummy page or outside the data
\* pages (a HAL write through a wrong position still destroys no other sector).
OneToOne ==
  step = "open" =>
    \A a \in Logical :
      /\ Translate(wl, a) \in Physical \ PageAt(wl.pos * PageSize)
      /\ \A b \in Logical : Translate(wl, a) = Translate(wl, b) => a = b

\* The volume as it lies on the flash under m rotations and dummy page p.
View(m, p) == \A a \in Logical : flash[Place(m, p, a)] = content[a]

\* Loading this copy would give the volume.
Restores(c) == c.valid => \A p \in Stops(c.recs) : View(c.moves, p)

Written(m, recs) == [valid |-> TRUE, moves |-> m, recs |-> recs]

\* How far the two state copies are behind the device, at each of its steps.
CopiesFollow ==
  /\ step \in {"idle", "copy", "record1"} =>
       copies[1] = Written(moves, 0 .. pos - 1) /\ copies[2] = Written(moves, 0 .. pos - 1)
  /\ step = "record2" =>
       copies[1] = Written(moves, 0 .. pos) /\ copies[2] = Written(moves, 0 .. pos - 1)
  /\ step \in {"erase1", "write1", "erase2", "write2"} => pos = 0
  /\ step = "erase1" =>
       \E m \in 0 .. Pages - 1 :
         copies[1] = Written(m, 0 .. Pages) /\ copies[2].valid /\ View(m, Pages)
  /\ step = "write1" => copies[1] = Blank /\ copies[2].valid
  /\ step = "erase2" => copies[1] = Fresh(moves)
  /\ step = "write2" => copies[1] = Fresh(moves)

\* The volume survives every step: the device can read it, a page is in two
\* places from before the move is recorded, and copy 1, if valid, restores it.
VolumeHeld ==
  /\ step \in DeviceSteps => View(moves, pos)
  /\ step \in {"record1", "record2"} =>
       \A x \in PageAt(pos * PageSize) : flash[x] = flash[NextPage + x - pos * PageSize]
  /\ step = "load" => Restores(copies[1])
  /\ step = "load" /\ "image" \notin harm => copies[1].valid \/ copies[2].valid
  /\ step = "recover" /\ source = 1 => \A p \in Stops(copies[1].recs) : View(wl.moves, p)
  /\ step = "open" /\ source = 1 /\ Recovered => View(wl.moves, wl.pos)
  /\ step # "open" => answer = NoAnswer

\* The inductive invariant.
IInv == TypeOK /\ CopiesFollow /\ VolumeHeld /\ NeverRefused /\ ReadAnswers

\* wl_layer.c, line 80: the state is loaded from copy 1, "falling back to copy
\* 2", an "identical mirror" (wl_layer.h, line 16): either serves.
EitherCopyReadsVolume ==
  step = "open" => \A a \in Logical : flash[Translate(wl, a)] = content[a]
=============================================================================
