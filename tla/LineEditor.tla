----------------------------- MODULE LineEditor -----------------------------
(***************************************************************************)
(* The line the user types (cli_helper.c, cli_get_input): the buffer and   *)
(* its cursor, the ring of earlier lines, and what the terminal shows of   *)
(* it, which the code keeps up by hand with backspaces and reprints.       *)
(*                                                                         *)
(* The terminal's row is as wide as the line needs; its first column is    *)
(* the one after the prompt.                                               *)
(***************************************************************************)
EXTENDS Integers, Sequences

CONSTANTS
  Chars,      \* the characters 32 to 126
  Space,      \* one of them, and an empty cell of the terminal
  Size,       \* size of the buffer, MAX_BUFFER_SIZE
  MaxHistory, \* MAX_HISTORY
  Suffixes,   \* what TAB can complete a word by
  Slash,      \* '/', one of Chars
  MaxLines    \* bound: lines kept in a session

ASSUME EditorAssumption ==
  /\ Space \in Chars /\ Slash \in Chars
  /\ Size \in Nat \ {0} /\ MaxHistory \in Nat \ {0} /\ MaxLines \in Nat
  /\ Suffixes \subseteq Seq(Chars)

VARIABLES
  reading,          \* in cli_get_input
  buffer,           \* buffer up to its NUL; pos is its length
  cursor_pos,
  s_history,        \* the ring
  s_history_count,  \* lines ever added
  s_history_index,
  s_backup,         \* s_current_buffer_backup
  screen,           \* the cells after the prompt and the terminal's cursor
  lost,             \* the terminal's cursor is not where cursor_pos is
  log,              \* ghost: the lines added to the history
  own,              \* ghost: the line is the user's, not one of the history
  draft,            \* ghost: the user's line when it last gave way to the history
  strayed           \* ghost: ESC has cleared a line of the history

line == <<buffer, cursor_pos>>
history == <<s_history, s_history_count, log>>
browsing == <<s_history_index, s_backup, own, draft, strayed>>
vars == <<reading, line, history, browsing, screen, lost>>

Lines == UNION {[1 .. n -> Chars] : n \in 0 .. Size - 1}
Slots == 0 .. MaxHistory - 1
Columns == 0 .. Size

TypeOK ==
  /\ reading \in BOOLEAN /\ lost \in BOOLEAN /\ own \in BOOLEAN /\ strayed \in BOOLEAN
  /\ buffer \in Lines
  /\ cursor_pos \in 0 .. Len(buffer)
  /\ s_history \in [Slots -> Lines]
  /\ s_history_count \in Nat
  /\ s_history_index \in 0 .. s_history_count
  /\ s_backup \in Lines /\ draft \in Lines
  /\ screen \in [text : [Columns -> Chars], col : Columns]
  /\ log \in Seq(Lines)

-----------------------------------------------------------------------------
(* The terminal *)

Clear == [text |-> [i \in Columns |-> Space], col |-> 0]

\* printf of s.
Put(scr, s) ==
  [text |-> [i \in Columns |-> IF scr.col <= i /\ i < scr.col + Len(s)
                               THEN s[i - scr.col + 1] ELSE scr.text[i]],
   col |-> scr.col + Len(s)]

\* n times "\b", or n times "\033[C" if n is negative.
Back(scr, n) == [scr EXCEPT !.col = @ - n]

\* n times "\b \b".
RubOut(scr, n) == Back(Put(Back(scr, n), [i \in 1 .. n |-> Space]), n)

\* Every key moves the two cursors by as much, but TAB, which prints where the
\* terminal's is and sets cursor_pos to the end: once they are apart they stay so
\* until the line is printed anew, and what the terminal shows is left open.
Draw(scr, cursor) ==
  IF lost \/ scr.col # cursor THEN lost' = TRUE /\ screen' = Clear
                              ELSE lost' = FALSE /\ screen' = scr

\* A new row, with s after the prompt.
DrawAnew(s) == lost' = FALSE /\ screen' = Put(Clear, s)

-----------------------------------------------------------------------------
(* A line is begun and ended *)

Init ==
  /\ reading = FALSE
  /\ buffer = <<>> /\ cursor_pos = 0
  /\ s_history = [i \in Slots |-> <<>>] /\ s_history_count = 0 /\ log = <<>>
  /\ s_history_index = 0 /\ s_backup = <<>>
  /\ own = TRUE /\ draft = <<>> /\ strayed = FALSE
  /\ screen = Clear /\ lost = FALSE

Begin ==
  /\ ~ reading
  /\ reading' = TRUE
  /\ buffer' = <<>> /\ cursor_pos' = 0
  /\ s_history_index' = s_history_count
  /\ own' = TRUE /\ draft' = <<>> /\ strayed' = FALSE
  /\ DrawAnew(<<>>)
  /\ UNCHANGED <<history, s_backup>>

\* Mutant: a line is compared with the slot it is about to take.
RepeatedNext == s_history_count > 0 /\ s_history[s_history_count % MaxHistory] = buffer

Repeated == s_history_count > 0 /\ s_history[(s_history_count - 1) % MaxHistory] = buffer

\* add_to_history
AddToHistory ==
  IF buffer = <<>> \/ Repeated THEN UNCHANGED history
  ELSE /\ s_history_count < MaxLines
       /\ s_history' = [s_history EXCEPT ![s_history_count % MaxHistory] = buffer]
       /\ s_history_count' = s_history_count + 1
       /\ log' = Append(log, buffer)

Enter ==
  /\ reading
  /\ reading' = FALSE
  /\ AddToHistory
  /\ DrawAnew(<<>>)
  /\ UNCHANGED <<line, browsing>>

\* The line is dropped; s_history_index stays.
Esc ==
  /\ reading
  /\ buffer' = <<>> /\ cursor_pos' = 0
  /\ own' = TRUE /\ draft' = <<>>
  /\ strayed' = (strayed \/ s_history_index < s_history_count)
  /\ DrawAnew(<<>>)
  /\ UNCHANGED <<reading, history, s_history_index, s_backup>>

-----------------------------------------------------------------------------
(* Editing *)

Before == SubSeq(buffer, 1, cursor_pos)
After == SubSeq(buffer, cursor_pos + 1, Len(buffer))

Backspace ==
  /\ reading /\ cursor_pos > 0
  /\ buffer' = SubSeq(buffer, 1, cursor_pos - 1) \o After
  /\ cursor_pos' = cursor_pos - 1
  /\ Draw(Back(Put(Back(screen, 1), Append(After, Space)), Len(After) + 1), cursor_pos')
  /\ UNCHANGED <<reading, history, browsing>>

Left ==
  /\ reading /\ cursor_pos > 0
  /\ cursor_pos' = cursor_pos - 1
  /\ Draw(Back(screen, 1), cursor_pos')
  /\ UNCHANGED <<reading, buffer, history, browsing>>

Right ==
  /\ reading /\ cursor_pos < Len(buffer)
  /\ cursor_pos' = cursor_pos + 1
  /\ Draw(Back(screen, -1), cursor_pos')
  /\ UNCHANGED <<reading, buffer, history, browsing>>

Room == Len(buffer) < Size - 1

\* Mutant: the tail of the line is not printed again after an insertion.
TypeNoTail(c) ==
  /\ reading /\ Room
  /\ buffer' = Append(Before, c) \o After
  /\ cursor_pos' = cursor_pos + 1
  /\ Draw(Put(screen, <<c>>), cursor_pos')
  /\ UNCHANGED <<reading, history, browsing>>

Type(c) ==
  /\ reading /\ Room
  /\ buffer' = Append(Before, c) \o After
  /\ cursor_pos' = cursor_pos + 1
  /\ Draw(Back(Put(screen, <<c>> \o After), Len(After)), cursor_pos')
  /\ UNCHANGED <<reading, history, browsing>>

-----------------------------------------------------------------------------
(* TAB; what is completed is up to the driver's tree (Navigator) *)

\* No match, or one that does not fit: cursor_pos moves all the same.
TabNone ==
  /\ reading
  /\ cursor_pos' = Len(buffer)
  /\ Draw(screen, cursor_pos')
  /\ UNCHANGED <<reading, buffer, history, browsing>>

\* One match, completed by s, a directory's by '/' too.
TabOne(s, directory) ==
  /\ reading
  /\ Len(buffer) + Len(s) < Size - 1
  /\ LET added == IF directory THEN Append(s, Slash) ELSE s
     IN  /\ buffer' = buffer \o added
         /\ Draw(Put(screen, added), Len(buffer'))
  /\ cursor_pos' = Len(buffer')
  /\ UNCHANGED <<reading, history, browsing>>

\* Several: they are listed, and the prompt and the line printed again.
TabMany ==
  /\ reading
  /\ cursor_pos' = Len(buffer)
  /\ DrawAnew(buffer)
  /\ UNCHANGED <<reading, buffer, history, browsing>>

-----------------------------------------------------------------------------
(* Walking through the history *)

\* Mutant: the old line is rubbed out from where the cursor is.
RecallFromCursor(text) ==
  /\ buffer' = text
  /\ cursor_pos' = Len(text)
  /\ Draw(Put(RubOut(screen, Len(buffer)), text), Len(text))

Recall(text) ==
  /\ buffer' = text
  /\ cursor_pos' = Len(text)
  /\ LET end == Back(screen, cursor_pos - Len(buffer))
     IN  Draw(Put(RubOut(end, Len(buffer)), text), Len(text))

\* Mutant: the walk goes one line past the oldest.
MayGoUpTooFar == s_history_index >= s_history_count - MaxHistory /\ s_history_index > 0

MayGoUp == s_history_index > s_history_count - MaxHistory /\ s_history_index > 0

\* Mutant: the line is saved again at every step.
UpSavesAgain ==
  /\ reading
  /\ s_history_count > 0 /\ MayGoUp
  /\ s_backup' = buffer
  /\ s_history_index' = s_history_index - 1
  /\ Recall(s_history[s_history_index' % MaxHistory])
  /\ draft' = IF own THEN buffer ELSE draft
  /\ own' = FALSE
  /\ UNCHANGED <<reading, history, strayed>>

Up ==
  /\ reading
  /\ s_history_count > 0 /\ MayGoUp
  /\ s_backup' = IF s_history_index = s_history_count THEN buffer ELSE s_backup
  /\ s_history_index' = s_history_index - 1
  /\ Recall(s_history[s_history_index' % MaxHistory])
  /\ draft' = IF own THEN buffer ELSE draft
  /\ own' = FALSE
  /\ UNCHANGED <<reading, history, strayed>>

\* Mutant: the line shown is the one before the step.
DownLate ==
  /\ reading
  /\ s_history_index < s_history_count
  /\ s_history_index' = s_history_index + 1
  /\ IF s_history_index' = s_history_count
     THEN Recall(s_backup) /\ own' = TRUE /\ draft' = <<>>
     ELSE /\ Recall(s_history[s_history_index % MaxHistory])
          /\ own' = FALSE
          /\ draft' = IF own THEN buffer ELSE draft
  /\ UNCHANGED <<reading, history, s_backup, strayed>>

Down ==
  /\ reading
  /\ s_history_index < s_history_count
  /\ s_history_index' = s_history_index + 1
  /\ IF s_history_index' = s_history_count
     THEN Recall(s_backup) /\ own' = TRUE /\ draft' = <<>>
     ELSE /\ Recall(s_history[s_history_index' % MaxHistory])
          /\ own' = FALSE
          /\ draft' = IF own THEN buffer ELSE draft
  /\ UNCHANGED <<reading, history, s_backup, strayed>>

Next ==
  \/ Begin
  \/ Enter
  \/ Esc
  \/ Backspace
  \/ Left
  \/ Right
  \/ \E c \in Chars : Type(c)
  \/ TabNone
  \/ \E s \in Suffixes, d \in BOOLEAN : TabOne(s, d)
  \/ TabMany
  \/ Up
  \/ Down

Spec == Init /\ [][Next]_vars

-----------------------------------------------------------------------------
(* Properties *)

Oldest == IF s_history_count > MaxHistory THEN s_history_count - MaxHistory ELSE 0

\* The ring holds the last MaxHistory lines that were added, and the walk through
\* it stays among them.
RingIsTail ==
  /\ Len(log) = s_history_count
  /\ \A i \in Oldest .. s_history_count - 1 : s_history[i % MaxHistory] = log[i + 1]
  /\ reading => s_history_index >= Oldest

\* A key that moves the walk shows the line of the history it has moved to, the
\* oldest, too, when the ring is full and was written over many times.
WalkShowsLog ==
  [][ (reading /\ s_history_index' # s_history_index /\ s_history_index' < s_history_count) =>
        buffer' = log[s_history_index' + 1] ]_vars

\* No line is kept twice in a row, and none that is empty (CLI_Helper.md, line 16).
NoRepeats ==
  \A i \in DOMAIN log : log[i] # <<>> /\ (i > 1 => log[i] # log[i - 1])

\* As long as no TAB was pressed inside the line, the terminal shows the buffer,
\* and its cursor is where the next key takes effect.
Matches ==
  /\ screen.col = cursor_pos
  /\ \A i \in Columns : screen.text[i] = IF i < Len(buffer) THEN buffer[i + 1] ELSE Space
EchoExact == (reading /\ ~ lost) => Matches

\* Only a TAB inside the line puts the two cursors apart; no editing key does, and
\* no step through the history, wherever in the line the cursor is.
LostInside ==
  [][ (~ lost /\ lost') => /\ cursor_pos < Len(buffer) /\ cursor_pos' = Len(buffer')
                          /\ SubSeq(buffer', 1, Len(buffer)) = buffer
                          /\ s_history_index' = s_history_index ]_vars

\* CLI_Helper.md, line 17: the line the user was typing comes back when the walk
\* returns to its end, whatever was edited, completed and walked through in between.
\* Once ESC has cleared a line of the history this no longer holds: it leaves
\* s_history_index where it was, so what is typed then is not saved by the next UP.
DraftRestored ==
  [][ (reading /\ ~ own /\ ~ strayed /\ s_history_index' # s_history_index
        /\ s_history_index' = s_history_count) => buffer' = draft ]_vars
=============================================================================
