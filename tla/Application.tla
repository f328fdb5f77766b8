---------------------------- MODULE Application ----------------------------
(***************************************************************************)
(* The program from main to its exit code (application.c): what starting   *)
(* up allocates and every path that gives it back (middleware_init,        *)
(* fat_driver_init, hal_init, fat_driver_mount and their counterparts),    *)
(* and the command loop in between, with its chains of commands joined by  *)
(* "&&".                                                                   *)
(*                                                                         *)
(* A line is a sequence of lexemes: words, blanks and "&&".  Words that    *)
(* stand side by side without a blank are one word to strtok.              *)
(***************************************************************************)
EXTENDS Integers, SequencesExt, FiniteSetsExt

CONSTANTS
  Lexemes,   \* words, the blank and "&&"
  Lines,     \* the lines a user may type, the empty one among them
  Blank,     \* the lexeme ' '
  AndAnd,    \* the lexeme "&&"
  Listings,  \* commands that succeed or fail, their path left open: ls, evidence
  Operands,  \* commands that want a path: cd, cat
  Notices,   \* commands that always succeed: help, cls, clear
  Leaves     \* exit, quit

ASSUME LineAssumption == Lines \subseteq Seq(Lexemes) /\ <<>> \in Lines

VARIABLES
  pc,        \* where in the program control is
  status,    \* exit code of main, "none" before
  live,      \* what is allocated, or open
  pointers,  \* the fields of Middleware, FATDriver and HAL that are not NULL
  faulted,   \* ghost: something was freed that is not allocated
  failed,    \* ghost: the part of start-up that failed
  running,   \* app->running
  command,   \* the line in work, empty at the prompt
  command_copy, \* the line, cut at its "&&"
  saveptr,   \* where custom_strtok_r goes on: a part of the line, 0 for NULL
  ran,       \* ghost: the commands run for the line, and how they ended
  eof        \* the input has ended

copy == <<command_copy, saveptr>>
memory == <<live, pointers, faulted>>
loop == <<running, command, copy, ran, eof>>
vars == <<pc, status, failed, memory, loop>>

Objects == {"fat_driver", "hal", "img_file", "cache", "fat_cache", "root_directory"}

-----------------------------------------------------------------------------
(* Starting up *)

Init ==
  /\ pc = "main" /\ status = "none" /\ failed = "none"
  /\ live = {} /\ pointers = {} /\ faulted = FALSE
  /\ running = FALSE /\ eof = FALSE
  /\ command = <<>> /\ command_copy = <<>> /\ saveptr = 0 /\ ran = <<>>

Return(code) == pc' = "returned" /\ status' = code

\* middleware_init gives back the driver and no more, and keeps its pointer.
InitFails(part, allocated, set) ==
  /\ live' = (live \cup allocated) \ {"fat_driver"}
  /\ pointers' = pointers \cup set
  /\ failed' = part
  /\ Return("1")
  /\ UNCHANGED <<faulted, loop>>

Goes(next, allocated) ==
  /\ live' = live \cup allocated
  /\ pointers' = pointers \cup allocated
  /\ pc' = next
  /\ UNCHANGED <<status, failed, faulted>>

\* No image, or a mode that there is not.
Usage ==
  /\ pc = "main"
  /\ Return("1")
  /\ failed' = "usage"
  /\ UNCHANGED <<memory, loop>>

\* The name of the image is looked at after the driver has been allocated.
MiddlewareInit ==
  /\ pc = "main"
  /\ \/ Goes("hal", {"fat_driver"}) /\ UNCHANGED loop
     \/ /\ live' \in {{}, {"fat_driver"}}
        /\ failed' = "middleware"
        /\ Return("1")
        /\ UNCHANGED <<pointers, faulted, loop>>

\* hal_init has closed the file when it fails.
HalInit ==
  /\ pc = "hal"
  /\ \/ Goes("driver", {"hal", "img_file"}) /\ UNCHANGED loop
     \/ \E allocated \in {{}, {"hal"}} : InitFails("hal", allocated, {})

\* What is freed for a field: all that unmount, deinit and free reach.
Teardown ==
  /\ live' = live \ pointers
  /\ faulted' = (faulted \/ ~ (pointers \subseteq live))

\* Mutant: a driver half built is taken down like one that was mounted.
DriverInitTorn ==
  /\ pc = "driver"
  /\ \/ Goes("mount", {"cache", "fat_cache"}) /\ UNCHANGED loop
     \/ InitFails("driver", {}, {})
     \/ /\ live' = live \ pointers
        /\ faulted' = ~ (pointers \cup {"cache"} \subseteq live)
        /\ pointers' = {"fat_driver"}
        /\ failed' = "driver"
        /\ Return("1")
        /\ UNCHANGED loop

\* The cache is freed if there is no memory for the sector of the table, and
\* its field is left as it is.
DriverInit ==
  /\ pc = "driver"
  /\ \/ Goes("mount", {"cache", "fat_cache"}) /\ UNCHANGED loop
     \/ \E set \in {{}, {"cache"}} : InitFails("driver", {}, set)

\* fat_driver_mount; the boot sector's buffer is freed on every path.
Mount ==
  /\ pc = "mount"
  /\ \/ /\ Goes("loop", {"root_directory"})
        /\ running' = TRUE
        /\ UNCHANGED <<command, copy, ran, eof>>
     \/ /\ Teardown
        /\ pointers' = {"fat_driver"}
        /\ failed' = "mount"
        /\ Return("1")
        /\ UNCHANGED loop

StartUp == MiddlewareInit \/ HalInit \/ DriverInit \/ Mount

-----------------------------------------------------------------------------
(* The words of a line *)

\* custom_strtok_r and strtok: what is between the delimiters a.
Split(text, a) ==
  LET ends == {i \in 1 .. Len(text) + 1 : i > Len(text) \/ text[i] = a}
      end(k) == CHOOSE i \in ends : Cardinality({j \in ends : j < i}) = k - 1
  IN  [k \in 1 .. Cardinality(ends) |->
         SubSeq(text, IF k = 1 THEN 1 ELSE end(k - 1) + 1, end(k) - 1)]

\* The first two words are all that is looked at; a blank text has no verb.
Parse(text) ==
  LET words == SelectSeq(Split(text, Blank), LAMBDA w : w # <<>>)
      word(n) == IF n <= Len(words) THEN words[n] ELSE <<>>
  IN  [verb |-> word(1), arg |-> word(2)]

Parts(line) == Split(line, AndAnd)
IsChain(line) == AndAnd \in Range(line)

IsOneOf(c, verbs) == \E v \in verbs : c.verb = <<v>>

\* Whether command c may end well (ok), or in -1.
MayEnd(c, ok) ==
  \/ IsOneOf(c, Listings)
  \/ IsOneOf(c, Operands) /\ (c.arg = <<>> => ~ ok)
  \/ IsOneOf(c, Notices \cup Leaves) /\ ok
  \/ ~ IsOneOf(c, Listings \cup Operands \cup Notices \cup Leaves) /\ ~ ok

-----------------------------------------------------------------------------
(* The command loop *)

DisplayPrompt ==
  /\ pc = "loop" /\ running
  /\ pc' = "input"
  /\ command' = <<>> /\ ran' = <<>>
  /\ UNCHANGED <<status, failed, memory, running, copy, eof>>

GetInput(line) ==
  /\ pc = "input" /\ ~ eof
  /\ command' = line
  /\ IF IsChain(line) THEN pc' = "chain" /\ command_copy' = Parts(line) /\ saveptr' = 1
                      ELSE pc' = "whole" /\ UNCHANGED copy
  /\ UNCHANGED <<status, failed, memory, running, ran, eof>>

\* getchar answers EOF for ever, which no key of cli_get_input is.
EndOfInput ==
  /\ pc = "input" /\ ~ eof
  /\ eof' = TRUE
  /\ UNCHANGED <<pc, status, failed, memory, running, command, copy, ran>>

\* Mutant: exit says so, and does not stop the loop.
ProcessCommandNoStop(part, text, ok) ==
  LET c == Parse(text)
  IN  /\ IF c.verb = <<>> THEN ok /\ ran' = ran
         ELSE MayEnd(c, ok) /\ ran' = Append(ran, [part |-> part, text |-> text, ok |-> ok])
      /\ running' = running

\* application_process_command of a part of the line, or of all of it (0); a blank
\* text is no command.
ProcessCommand(part, text, ok) ==
  LET c == Parse(text)
  IN  /\ IF c.verb = <<>> THEN ok /\ ran' = ran
         ELSE MayEnd(c, ok) /\ ran' = Append(ran, [part |-> part, text |-> text, ok |-> ok])
      /\ running' = (running /\ ~ IsOneOf(c, Leaves))

\* Mutant: the end of the line is not marked.
NextPartStays == IF saveptr < Len(command_copy) THEN saveptr + 1 ELSE saveptr

NextPart == IF saveptr < Len(command_copy) THEN saveptr + 1 ELSE 0

\* Mutant: the chain goes on after a command that failed.
ChainPartAnyhow ==
  /\ pc = "chain" /\ saveptr # 0
  /\ saveptr' = NextPart
  /\ \E ok \in BOOLEAN : ProcessCommand(saveptr, command_copy[saveptr], ok)
  /\ UNCHANGED <<pc, status, failed, memory, command, command_copy, eof>>

\* process_command_with_and, once around: the part up to the next "&&".
ChainPart ==
  /\ pc = "chain" /\ saveptr # 0
  /\ \E ok \in BOOLEAN :
       /\ ProcessCommand(saveptr, command_copy[saveptr], ok)
       /\ IF ok THEN pc' = "chain" /\ saveptr' = NextPart /\ command_copy' = command_copy
                ELSE pc' = "whole" /\ saveptr' = 0 /\ command_copy' = <<>>
  /\ UNCHANGED <<status, failed, memory, command, eof>>

ChainDone ==
  /\ pc = "chain" /\ saveptr = 0
  /\ pc' = "loop"
  /\ command_copy' = <<>>
  /\ UNCHANGED <<status, failed, memory, running, command, saveptr, ran, eof>>

\* A line without "&&"; and one whose chain has failed, as if it were one command.
WholeLine ==
  /\ pc = "whole"
  /\ \E ok \in BOOLEAN : ProcessCommand(0, command, ok)
  /\ pc' = "loop"
  /\ UNCHANGED <<status, failed, memory, command, copy, eof>>

LoopEnds ==
  /\ pc = "loop" /\ ~ running
  /\ pc' = "deinit"
  /\ UNCHANGED <<status, failed, memory, loop>>

\* Mutant: unmounting forgets the tree.
DenitKeepsTree ==
  /\ pc = "deinit"
  /\ live' = live \ (pointers \ {"root_directory"})
  /\ faulted' = faulted
  /\ pointers' = {}
  /\ running' = FALSE
  /\ Return("0")
  /\ UNCHANGED <<failed, command, copy, ran, eof>>

\* middleware_denit and application_denit
Denit ==
  /\ pc = "deinit"
  /\ Teardown
  /\ pointers' = {}
  /\ running' = FALSE
  /\ Return("0")
  /\ UNCHANGED <<failed, command, copy, ran, eof>>

Step ==
  \/ StartUp
  \/ DisplayPrompt
  \/ ChainPart
  \/ ChainDone
  \/ WholeLine
  \/ LoopEnds
  \/ Denit

Next ==
  \/ Step
  \/ Usage
  \/ \E line \in Lines : GetInput(line)
  \/ EndOfInput

\* One thread, which never waits but for a key: its steps are taken; the user
\* need not type.
Spec == Init /\ [][Next]_vars /\ WF_vars(Step)

-----------------------------------------------------------------------------
(* Properties *)

Texts == UNION {Range(Parts(line)) \cup {line} : line \in Lines}

TypeOK ==
  /\ pc \in {"main", "hal", "driver", "mount", "loop", "input", "chain", "whole",
             "deinit", "returned"}
  /\ status \in {"none", "0", "1"}
  /\ failed \in {"none", "usage", "middleware", "hal", "driver", "mount"}
  /\ live \subseteq Objects /\ pointers \subseteq Objects
  /\ faulted \in BOOLEAN /\ running \in BOOLEAN /\ eof \in BOOLEAN
  /\ command \in Lines
  /\ command_copy = IF pc = "chain" THEN Parts(command) ELSE <<>>
  /\ saveptr \in 0 .. Len(command_copy)
  /\ ran \in Seq([part : Nat, text : Texts, ok : BOOLEAN])

\* Nothing is freed twice on any path through start-up, the loop and shut-down,
\* although a failed middleware_init leaves its pointer, and fat_driver_init its
\* cache's, to memory that is gone.
FreedOnce == ~ faulted /\ (status = "none" => pointers \subseteq live)

\* Main returns with nothing allocated and the image closed, if the file system
\* was mounted or its mount was tried; what an earlier failure leaves is bounded:
\* the driver for a bad file name, the HAL for an image that does not open, the
\* HAL and the open image for want of a cache.
Released ==
  status # "none" =>
    live \subseteq CASE failed = "middleware" -> {"fat_driver"}
                     [] failed = "hal"        -> {"hal"}
                     [] failed = "driver"     -> {"hal", "img_file"}
                     [] OTHER                 -> {}

\* A command of the chain runs after all that stand before it in the line, and each
\* of those has succeeded.
InTurn(j) ==
  ran[j].part # 0 =>
    /\ ran[j].text = Parts(command)[ran[j].part]
    /\ \A i \in 1 .. j - 1 : ran[i].part \in 1 .. ran[j].part - 1 /\ ran[i].ok
    /\ \A p \in 1 .. ran[j].part - 1 :
         Parse(Parts(command)[p]).verb # <<>> => \E i \in 1 .. j - 1 : ran[i].part = p

\* The line as one command is the last to run, and of a chain only when one of its
\* commands has failed.
AsOne(j) ==
  ran[j].part = 0 =>
    /\ ran[j].text = command
    /\ j = Len(ran)
    /\ IsChain(command) => j > 1 /\ ~ ran[j - 1].ok

\* What runs for a line: its commands in order, all of them unless one fails; and
\* after a failure in a chain, once more, the line's first two words as a command,
\* since application_run takes the -1 for "no && in it".
ChainInOrder ==
  /\ \A j \in DOMAIN ran : InTurn(j) /\ AsOne(j)
  /\ pc = "loop" /\ command # <<>> =>
       \/ \E j \in DOMAIN ran : ran[j].part = 0
       \/ Parse(command).verb = <<>>
       \/ \A p \in DOMAIN Parts(command) :
            Parse(Parts(command)[p]).verb # <<>> => \E j \in DOMAIN ran : ran[j].part = p

Left == \E j \in DOMAIN ran : IsOneOf(Parse(ran[j].text), Leaves)

\* Every line read is done with: the prompt comes back, or the program ends.
Answered == (pc \in {"chain", "whole"}) ~> (pc \in {"input", "returned"})

\* Once exit or quit has run, wherever in a chain and whatever follows it there,
\* the program ends, with everything given back.
ExitEnds ==
  Left ~> (status = "0" /\ live = {})
=============================================================================
