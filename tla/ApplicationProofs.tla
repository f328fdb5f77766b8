------------------------- MODULE ApplicationProofs -------------------------
(***************************************************************************)
(* For every set of lines and every set of command names: what start-up    *)
(* allocates is freed once, and given back as far as each path of the code *)
(* does so; and the commands of a line run in order, each after the        *)
(* success of those before it, and the line as one command at most once.   *)
(***************************************************************************)
EXTENDS Application, FiniteSetTheorems, SequenceTheorems, TLAPS

-----------------------------------------------------------------------------
(* The lines *)

\* A line has one part at least; Parts numbers them from 1.
LEMMA PartsSequence ==
  ASSUME NEW line \in Lines
  PROVE  /\ Len(Parts(line)) \in Nat \ {0}
         /\ DOMAIN Parts(line) = 1 .. Len(Parts(line))
         /\ \A k \in 1 .. Len(Parts(line)) : Parts(line)[k] \in Texts
         /\ line \in Texts
<1> DEFINE ends == {i \in 1 .. Len(line) + 1 : i > Len(line) \/ line[i] = AndAnd}
<1> DEFINE n == Cardinality(ends)
<1>1. Len(line) \in Nat
  BY LineAssumption
<1>2. IsFiniteSet(1 .. Len(line) + 1) /\ ends \subseteq 1 .. Len(line) + 1
  BY <1>1, FS_Interval
<1>3. IsFiniteSet(ends) /\ Len(line) + 1 \in ends
  BY <1>1, <1>2, FS_Subset
<1>4. n \in Nat \ {0}
  BY <1>3, FS_CardinalityType, FS_EmptySet
<1> DEFINE end(k) == CHOOSE i \in ends : Cardinality({j \in ends : j < i}) = k - 1
<1> DEFINE piece(k) == SubSeq(line, IF k = 1 THEN 1 ELSE end(k - 1) + 1, end(k) - 1)
<1>0. Parts(line) = [k \in 1 .. n |-> piece(k)]
  BY Zenon DEF Parts, Split
<1> HIDE DEF n, piece
<1>5. DOMAIN Parts(line) = 1 .. n /\ Parts(line) = [k \in 1 .. n |-> Parts(line)[k]]
  BY <1>0
<1>6. Len(Parts(line)) = n
  BY <1>4, <1>5
<1>7. Range(Parts(line)) \subseteq Texts /\ line \in Texts
  BY DEF Texts
<1>8. \A k \in 1 .. n : Parts(line)[k] \in Range(Parts(line))
  BY <1>5 DEF Range
<1> QED BY <1>4, <1>5, <1>6, <1>7, <1>8

-----------------------------------------------------------------------------
(* Type correctness *)

\* A command that is run leaves the log a sequence.
LEMMA LogTyped ==
  ASSUME TypeOK, NEW part \in Nat, NEW text \in Texts, NEW ok \in BOOLEAN,
         ProcessCommand(part, text, ok)
  PROVE  ran' \in Seq([part : Nat, text : Texts, ok : BOOLEAN]) /\ running' \in BOOLEAN
<1> DEFINE Entries == [part : Nat, text : Texts, ok : BOOLEAN]
<1>1. ran \in Seq(Entries) /\ running \in BOOLEAN
  BY DEF TypeOK
<1>2. [part |-> part, text |-> text, ok |-> ok] \in Entries
  OBVIOUS
<1>3. ran' = ran \/ ran' = Append(ran, [part |-> part, text |-> text, ok |-> ok])
  BY DEF ProcessCommand
<1>4. running' \in BOOLEAN
  BY DEF ProcessCommand
<1> HIDE DEF Entries
<1>5. ran' \in Seq(Entries)
  BY <1>1, <1>2, <1>3
<1> QED BY <1>4, <1>5 DEF Entries

\* saveptr numbers a part of the line.
LEMMA SaveptrInLine ==
  ASSUME TypeOK, saveptr # 0
  PROVE  /\ saveptr \in 1 .. Len(Parts(command)) /\ command_copy = Parts(command)
         /\ command_copy[saveptr] \in Texts /\ Len(command_copy) \in Nat
         /\ NextPart \in 0 .. Len(command_copy)
<1>1. command \in Lines /\ command_copy \in {<<>>, Parts(command)} /\ saveptr \in 0 .. Len(command_copy)
  BY DEF TypeOK
<1>2. command_copy = Parts(command)
  BY <1>1
<1>3. Len(Parts(command)) \in Nat /\ \A k \in 1 .. Len(Parts(command)) : Parts(command)[k] \in Texts
  BY <1>1, PartsSequence
<1>4. saveptr \in 1 .. Len(Parts(command))
  BY <1>1, <1>2, <1>3
<1> QED BY <1>2, <1>3, <1>4 DEF NextPart

\* Every action keeps the types.
LEMMA TypeStep == TypeOK /\ [Next]_vars => TypeOK'
<1> SUFFICES ASSUME TypeOK, [Next]_vars PROVE TypeOK'
  OBVIOUS
<1> USE DEF TypeOK, memory, loop, copy, Objects, Return
<1>1. CASE Usage
  BY <1>1 DEF Usage
<1>2. CASE StartUp
  <2>1. CASE MiddlewareInit
    BY <2>1 DEF MiddlewareInit, Goes
  <2>2. CASE HalInit
    BY <2>2 DEF HalInit, Goes, InitFails
  <2>3. CASE DriverInit
    BY <2>3 DEF DriverInit, Goes, InitFails
  <2>4. CASE Mount
    BY <2>4 DEF Mount, Goes, Teardown
  <2> QED BY <1>2, <2>1, <2>2, <2>3, <2>4 DEF StartUp
<1>3. CASE DisplayPrompt
  BY <1>3, LineAssumption DEF DisplayPrompt
<1>4. CASE \E line \in Lines : GetInput(line)
  <2>1. PICK line \in Lines : GetInput(line)
    BY <1>4
  <2>2. Len(Parts(line)) \in Nat \ {0}
    BY PartsSequence
  <2>3. command' = line /\ pc = "input" /\ command_copy = <<>> /\ saveptr = 0
    BY <2>1 DEF GetInput
  <2>4. CASE IsChain(line)
    BY <2>1, <2>2, <2>3, <2>4 DEF GetInput
  <2>5. CASE ~ IsChain(line)
    BY <2>1, <2>3, <2>5 DEF GetInput
  <2> QED BY <2>4, <2>5
<1>5. CASE EndOfInput
  BY <1>5 DEF EndOfInput
<1>6. CASE ChainPart
  <2>1. PICK ok \in BOOLEAN : ProcessCommand(saveptr, command_copy[saveptr], ok)
    BY <1>6 DEF ChainPart
  <2>2. saveptr # 0 /\ saveptr \in Nat /\ command_copy[saveptr] \in Texts
        /\ Len(command_copy) \in Nat /\ NextPart \in 0 .. Len(command_copy)
    BY <1>6, SaveptrInLine DEF ChainPart
  <2>3. ran' \in Seq([part : Nat, text : Texts, ok : BOOLEAN]) /\ running' \in BOOLEAN
    BY <2>1, <2>2, LogTyped
  <2> QED BY <1>6, <2>2, <2>3 DEF ChainPart
<1>7. CASE ChainDone
  BY <1>7 DEF ChainDone
<1>8. CASE WholeLine
  <2>1. PICK ok \in BOOLEAN : ProcessCommand(0, command, ok)
    BY <1>8 DEF WholeLine
  <2>2. command \in Texts
    BY PartsSequence
  <2>3. ran' \in Seq([part : Nat, text : Texts, ok : BOOLEAN]) /\ running' \in BOOLEAN
    BY <2>1, <2>2, LogTyped
  <2> QED BY <1>8, <2>3 DEF WholeLine
<1>9. CASE LoopEnds
  BY <1>9 DEF LoopEnds
<1>10. CASE Denit
  BY <1>10 DEF Denit, Teardown
<1>11. CASE UNCHANGED vars
  BY <1>11 DEF vars
<1> QED BY <1>1, <1>2, <1>3, <1>4, <1>5, <1>6, <1>7, <1>8, <1>9, <1>10, <1>11 DEF Next, Step

\* Type correctness, for every set of lines and of commands.
THEOREM TypeCorrect == Spec => []TypeOK
<1>1. Init => TypeOK
  <2> SUFFICES ASSUME Init PROVE TypeOK
    OBVIOUS
  <2>1. command \in Lines
    BY LineAssumption DEF Init
  <2>2. ran \in Seq([part : Nat, text : Texts, ok : BOOLEAN])
    BY DEF Init
  <2>3. saveptr \in 0 .. Len(command_copy) /\ command_copy = <<>> /\ pc = "main"
    BY DEF Init
  <2> QED BY <2>1, <2>2, <2>3 DEF Init, TypeOK
<1> QED BY <1>1, TypeStep, PTL DEF Spec

-----------------------------------------------------------------------------
(* Memory: what is held at each point of the program *)

Held(at) ==
  CASE at = "main"   -> {}
    [] at = "hal"    -> {"fat_driver"}
    [] at = "driver" -> {"fat_driver", "hal", "img_file"}
    [] at = "mount"  -> Objects \ {"root_directory"}
    [] OTHER         -> Objects

\* While the program runs, what is allocated is what its fields name; and neither
\* Released nor FreedOnce is given up when it returns.
Lifecycle ==
  /\ ~ faulted
  /\ pc # "returned" => /\ status = "none" /\ failed = "none"
                        /\ live = Held(pc) /\ pointers = Held(pc)
  /\ pc = "returned" => status # "none" /\ Released

LEMMA LifecycleStep == TypeOK /\ Lifecycle /\ [Next]_vars => Lifecycle'
<1> SUFFICES ASSUME TypeOK, Lifecycle, [Next]_vars PROVE Lifecycle'
  OBVIOUS
<1> USE DEF Lifecycle, Held, Objects, memory, Return
<1>1. CASE Usage
  BY <1>1 DEF Usage, Released
<1>2. CASE StartUp
  <2>1. CASE MiddlewareInit
    BY <2>1 DEF MiddlewareInit, Goes, Released
  <2>2. CASE HalInit
    BY <2>2 DEF HalInit, Goes, InitFails, Released
  <2>3. CASE DriverInit
    BY <2>3 DEF DriverInit, Goes, InitFails, Released
  <2>4. CASE Mount
    <3>1. live = Objects \ {"root_directory"} /\ pointers = live /\ ~ faulted
      BY <2>4 DEF Mount
    <3>2. CASE Goes("loop", {"root_directory"})
      <4>1. live' = Objects /\ pointers' = Objects /\ faulted' = FALSE
        BY <3>1, <3>2 DEF Goes
      <4>2. pc' = "loop" /\ status' = "none" /\ failed' = "none"
        BY <2>4, <3>2 DEF Goes, Mount
      <4> QED BY <4>1, <4>2
    <3>3. CASE Teardown /\ failed' = "mount" /\ pc' = "returned" /\ status' = "1"
      <4>1. live' = {} /\ ~ faulted'
        BY <3>1, <3>3 DEF Teardown
      <4> QED BY <3>3, <4>1 DEF Released
    <3> QED BY <2>4, <3>2, <3>3 DEF Mount
  <2> QED BY <1>2, <2>1, <2>2, <2>3, <2>4 DEF StartUp
<1>3. CASE DisplayPrompt
  BY <1>3 DEF DisplayPrompt
<1>4. CASE \E line \in Lines : GetInput(line)
  BY <1>4 DEF GetInput
<1>5. CASE EndOfInput
  BY <1>5 DEF EndOfInput
<1>6. CASE ChainPart
  BY <1>6 DEF ChainPart
<1>7. CASE ChainDone
  BY <1>7 DEF ChainDone
<1>8. CASE WholeLine
  BY <1>8 DEF WholeLine
<1>9. CASE LoopEnds
  BY <1>9 DEF LoopEnds
<1>10. CASE Denit
  BY <1>10 DEF Denit, Teardown, Released
<1>11. CASE UNCHANGED vars
  BY <1>11 DEF vars, Released
<1> QED BY <1>1, <1>2, <1>3, <1>4, <1>5, <1>6, <1>7, <1>8, <1>9, <1>10, <1>11 DEF Next, Step

LEMMA LifecycleInvariant == Spec => []Lifecycle
<1>1. Init => Lifecycle
  BY DEF Init, Lifecycle, Held
<1> QED BY <1>1, LifecycleStep, TypeCorrect, PTL DEF Spec

\* No object is freed twice, on any path, and no field dangles while the program runs.
THEOREM NeverFreedTwice == Spec => []FreedOnce
<1>1. Lifecycle => FreedOnce
  BY DEF Lifecycle, FreedOnce
<1> QED BY <1>1, LifecycleInvariant, PTL

\* Main returns with everything given back but what an early failure leaves.
THEOREM AllReleased == Spec => []Released
<1>1. Lifecycle => Released
  BY DEF Lifecycle, Released
<1> QED BY <1>1, LifecycleInvariant, PTL

-----------------------------------------------------------------------------
(* The commands of a line *)

Blanks(p) == Parse(Parts(command)[p]).verb = <<>>

\* Every command of the line up to part n has been run.
RunUpTo(n) ==
  \A p \in DOMAIN Parts(command) :
    p <= n /\ ~ Blanks(p) => \E j \in DOMAIN ran : ran[j].part = p

\* The log of a chain that is being run or has failed: parts of the line, in order.
ChainLog ==
  \A j \in DOMAIN ran : ran[j].part \in DOMAIN Parts(command) /\ InTurn(j)

LineInv ==
  /\ pc \notin {"chain", "whole", "loop", "deinit", "returned"} => ran = <<>> /\ command = <<>>
  /\ pc = "chain" =>
       /\ IsChain(command) /\ ChainLog
       /\ \A j \in DOMAIN ran : ran[j].ok
       /\ saveptr = 0 => RunUpTo(Len(Parts(command)))
       /\ saveptr # 0 => /\ RunUpTo(saveptr - 1)
                         /\ \A j \in DOMAIN ran : ran[j].part < saveptr
  /\ pc = "whole" =>
       /\ ChainLog
       /\ IF IsChain(command) THEN ran # <<>> /\ ~ ran[Len(ran)].ok ELSE ran = <<>>
  /\ pc \in {"loop", "deinit", "returned"} => ChainInOrder

\* What a command adds to the log.
LEMMA LogGrows ==
  ASSUME TypeOK, NEW part, NEW text, NEW ok, ProcessCommand(part, text, ok)
  PROVE  /\ Len(ran) \in Nat /\ DOMAIN ran = 1 .. Len(ran)
         /\ \/ Parse(text).verb = <<>> /\ ok /\ ran' = ran
            \/ /\ Parse(text).verb # <<>>
               /\ DOMAIN ran' = 1 .. Len(ran) + 1 /\ Len(ran') = Len(ran) + 1
               /\ \A j \in 1 .. Len(ran) : ran'[j] = ran[j]
               /\ ran'[Len(ran) + 1] = [part |-> part, text |-> text, ok |-> ok]
<1> DEFINE Entries == [part : Nat, text : Texts, ok : BOOLEAN]
<1>1. ran \in Seq(Entries)
  BY DEF TypeOK
<1> HIDE DEF Entries
<1>2. Len(ran) \in Nat /\ DOMAIN ran = 1 .. Len(ran)
  BY <1>1
<1>3. CASE Parse(text).verb = <<>>
  BY <1>2, <1>3 DEF ProcessCommand
<1>4. CASE Parse(text).verb # <<>>
  <2> DEFINE e == [part |-> part, text |-> text, ok |-> ok]
  <2>1. ran' = Append(ran, e)
    BY <1>4 DEF ProcessCommand
  <2> HIDE DEF e
  <2>2. /\ Len(ran') = Len(ran) + 1 /\ DOMAIN ran' = 1 .. Len(ran) + 1
        /\ \A j \in 1 .. Len(ran) : ran'[j] = ran[j]
        /\ ran'[Len(ran) + 1] = e
    BY <1>1, <1>2, <2>1
  <2> QED BY <1>2, <1>4, <2>2 DEF e
<1> QED BY <1>3, <1>4

LEMMA LineStep == TypeOK /\ LineInv /\ [Next]_vars => LineInv'
<1> SUFFICES ASSUME TypeOK, LineInv, [Next]_vars PROVE LineInv'
  OBVIOUS
<1>0. command \in Lines
  BY DEF TypeOK
<1> USE DEF Return
<1>1. CASE Usage
  BY <1>1 DEF Usage, LineInv, loop, ChainInOrder, InTurn, AsOne
<1>2. CASE StartUp
  <2>1. ran = <<>> /\ command = <<>>
    BY <1>2 DEF StartUp, MiddlewareInit, HalInit, DriverInit, Mount, LineInv
  <2>2. ran' = ran /\ command' = command /\ pc' \notin {"chain", "whole"}
    BY <1>2 DEF StartUp, MiddlewareInit, HalInit, DriverInit, Mount, Goes, InitFails, loop
  <2> QED BY <2>1, <2>2 DEF LineInv, ChainInOrder
<1>3. CASE DisplayPrompt
  BY <1>3 DEF DisplayPrompt, LineInv
<1>4. CASE \E line \in Lines : GetInput(line)
  <2>1. PICK line \in Lines : GetInput(line)
    BY <1>4
  <2>2. ran' = <<>> /\ command' = line
    BY <2>1 DEF GetInput, LineInv
  <2>3. CASE IsChain(line)
    <3>1. pc' = "chain" /\ saveptr' = 1
      BY <2>1, <2>3 DEF GetInput
    <3>2. RunUpTo(0)'
      BY <2>2, PartsSequence DEF RunUpTo
    <3> QED BY <2>2, <2>3, <3>1, <3>2 DEF LineInv, ChainLog
  <2>4. CASE ~ IsChain(line)
    <3>1. pc' = "whole"
      BY <2>1, <2>4 DEF GetInput
    <3> QED BY <2>2, <2>4, <3>1 DEF LineInv, ChainLog
  <2> QED BY <2>3, <2>4
<1>5. CASE EndOfInput
  <2>1. pc' = pc /\ pc = "input" /\ ran' = ran /\ command' = command
    BY <1>5 DEF EndOfInput
  <2> QED BY <2>1 DEF LineInv
<1>6. CASE ChainPart
  <2>1. PICK ok \in BOOLEAN :
          /\ ProcessCommand(saveptr, command_copy[saveptr], ok)
          /\ IF ok THEN pc' = "chain" /\ saveptr' = NextPart
                   ELSE pc' = "whole" /\ saveptr' = 0
    BY <1>6 DEF ChainPart
  <2>2. saveptr # 0 /\ pc = "chain" /\ command' = command
    BY <1>6 DEF ChainPart
  <2> DEFINE n == Len(Parts(command))
  <2> DEFINE text == Parts(command)[saveptr]
  <2>3. saveptr \in 1 .. n /\ command_copy = Parts(command) /\ n \in Nat
    BY <2>2, SaveptrInLine
  <2>4. DOMAIN Parts(command) = 1 .. n
    BY <1>0, PartsSequence
  <2>5. /\ IsChain(command) /\ ChainLog
        /\ \A j \in DOMAIN ran : ran[j].ok /\ ran[j].part < saveptr
        /\ RunUpTo(saveptr - 1)
    BY <2>2 DEF LineInv
  <2>6. NextPart = IF saveptr < n THEN saveptr + 1 ELSE 0
    BY <2>3 DEF NextPart
  <2>7. ProcessCommand(saveptr, text, ok)
    BY <2>1, <2>3
  <2>m. PICK m : m = Len(ran)
    OBVIOUS
  <2>s. PICK s : s = saveptr
    OBVIOUS
  <2>8. /\ m \in Nat /\ DOMAIN ran = 1 .. m
        /\ \/ Blanks(saveptr) /\ ok /\ ran' = ran
           \/ /\ ~ Blanks(saveptr)
              /\ DOMAIN ran' = 1 .. m + 1 /\ Len(ran') = m + 1
              /\ \A j \in 1 .. m : ran'[j] = ran[j]
              /\ ran'[m + 1] = [part |-> saveptr, text |-> text, ok |-> ok]
    BY <2>m, <2>7, LogGrows DEF Blanks
  <2> HIDE DEF n, text
  <2>9. RunUpTo(s)'
    <3> SUFFICES ASSUME NEW p \in DOMAIN Parts(command), p <= s, ~ Blanks(p)
                 PROVE  \E j \in DOMAIN ran' : ran'[j].part = p
      BY <2>2 DEF RunUpTo, Blanks
    <3>1. CASE p = saveptr
      BY <2>8, <2>s, <3>1
    <3>2. CASE p # saveptr
      <4>1. p <= saveptr - 1
        BY <2>s, <2>3, <2>4, <3>2
      <4>2. PICK j \in DOMAIN ran : ran[j].part = p
        BY <2>5, <4>1 DEF RunUpTo
      <4> QED BY <2>8, <4>2
    <3> QED BY <3>1, <3>2
  <2>10. ChainLog'
    <3>1. ASSUME NEW j \in 1 .. m
          PROVE  ran'[j] = ran[j] /\ ran[j].part \in DOMAIN Parts(command) /\ InTurn(j)'
      <4>1. InTurn(j) /\ ran[j].part \in DOMAIN Parts(command)
        BY <2>5, <2>8 DEF ChainLog
      <4>2. \A i \in 1 .. j : ran'[i] = ran[i] /\ i \in DOMAIN ran'
        BY <2>8, <3>1
      <4> QED BY <2>2, <2>8, <3>1, <4>1, <4>2 DEF InTurn
    <3>2. ASSUME ~ Blanks(saveptr)
          PROVE  ran'[m + 1].part \in DOMAIN Parts(command) /\ InTurn(m + 1)'
      <4>1. ran'[m + 1].part = saveptr /\ ran'[m + 1].text = text
            /\ \A i \in 1 .. m : ran'[i] = ran[i]
        BY <2>8, <3>2
      <4>2. \A i \in 1 .. m : ran[i].part \in 1 .. saveptr - 1 /\ ran[i].ok
        BY <2>3, <2>4, <2>5, <2>8 DEF ChainLog
      <4>3. \A p \in 1 .. saveptr - 1 : ~ Blanks(p) => \E i \in 1 .. m : ran[i].part = p
        BY <2>3, <2>4, <2>5, <2>8 DEF RunUpTo
      <4>4. (m + 1) - 1 = m
        BY <2>8
      <4> QED BY <2>2, <2>3, <2>4, <4>1, <4>2, <4>3, <4>4 DEF InTurn, Blanks, text
    <3>3. ASSUME NEW j \in DOMAIN ran'
          PROVE  ran'[j].part \in DOMAIN Parts(command) /\ InTurn(j)'
      <4>1. j \in 1 .. m \/ (~ Blanks(saveptr) /\ j = m + 1)
        BY <2>8, <3>3
      <4> QED BY <3>1, <3>2, <4>1
    <3> QED BY <2>2, <3>3 DEF ChainLog
  <2>11. CASE ok
    <3>1. pc' = "chain" /\ saveptr' = NextPart
      BY <2>1, <2>11
    <3>2. \A j \in DOMAIN ran' : ran'[j].ok /\ ran'[j].part < saveptr + 1
      <4>1. \A j \in 1 .. m : ran[j].ok /\ ran[j].part < saveptr + 1
        BY <2>3, <2>4, <2>5, <2>8 DEF ChainLog
      <4> QED BY <2>3, <2>8, <2>11, <4>1
    <3>3. CASE saveptr < n
      <4>1. saveptr' = saveptr + 1 /\ saveptr' # 0 /\ saveptr' - 1 = saveptr
        BY <2>3, <2>6, <3>1, <3>3
      <4>2. RunUpTo(s)' /\ s = saveptr' - 1
        BY <2>s, <2>9, <4>1
      <4>3. \A j \in DOMAIN ran' : ran'[j].ok /\ ran'[j].part < saveptr'
        BY <3>2, <4>1
      <4>4. RunUpTo(saveptr - 1)'
        BY <4>2 DEF RunUpTo
      <4>5. IsChain(command)' /\ pc' = "chain" /\ saveptr' # 0
        BY <2>2, <2>5, <3>1, <4>1
      <4> QED BY <2>10, <4>3, <4>4, <4>5 DEF LineInv
    <3>4. CASE ~ (saveptr < n)
      <4>1. saveptr' = 0 /\ saveptr = n
        BY <2>3, <2>6, <3>1, <3>4
      <4>2. RunUpTo(Len(Parts(command)))'
        <5>1. s = Len(Parts(command'))
          BY <2>s, <2>2, <4>1 DEF n
        <5> QED BY <2>9, <5>1 DEF RunUpTo
      <4>3. IsChain(command)' /\ pc' = "chain" /\ saveptr' = 0
        BY <2>2, <2>5, <3>1, <4>1
      <4> QED BY <2>10, <3>2, <4>2, <4>3 DEF LineInv
    <3> QED BY <3>3, <3>4
  <2>12. CASE ~ ok
    <3>1. pc' = "whole"
      BY <2>1, <2>12
    <3>2. Len(ran') = m + 1 /\ ~ ran'[m + 1].ok /\ ran' # <<>>
      BY <2>8, <2>12
    <3> QED BY <2>2, <2>5, <2>10, <3>1, <3>2 DEF LineInv
  <2> QED BY <2>11, <2>12
<1>7. CASE ChainDone
  <2>1. pc = "chain" /\ saveptr = 0 /\ pc' = "loop" /\ ran' = ran /\ command' = command
    BY <1>7 DEF ChainDone
  <2>2. ChainLog /\ RunUpTo(Len(Parts(command)))
    BY <2>1 DEF LineInv
  <2>3. \A j \in DOMAIN ran : InTurn(j) /\ ran[j].part # 0
    BY <1>0, <2>2, PartsSequence DEF ChainLog
  <2>4. \A p \in DOMAIN Parts(command) : ~ Blanks(p) => \E j \in DOMAIN ran : ran[j].part = p
    BY <1>0, <2>2, PartsSequence DEF RunUpTo
  <2>5. \A j \in DOMAIN ran' : InTurn(j)' /\ AsOne(j)'
    BY <2>1, <2>3 DEF InTurn, AsOne
  <2> QED BY <2>1, <2>4, <2>5 DEF LineInv, ChainInOrder, Blanks
<1>8. CASE WholeLine
  <2>1. PICK ok \in BOOLEAN : ProcessCommand(0, command, ok)
    BY <1>8 DEF WholeLine
  <2>2. pc = "whole" /\ pc' = "loop" /\ command' = command
    BY <1>8 DEF WholeLine
  <2>m. PICK m : m = Len(ran)
    OBVIOUS
  <2>3. /\ m \in Nat /\ DOMAIN ran = 1 .. m
        /\ \/ Parse(command).verb = <<>> /\ ran' = ran
           \/ /\ DOMAIN ran' = 1 .. m + 1 /\ Len(ran') = m + 1
              /\ \A j \in 1 .. m : ran'[j] = ran[j]
              /\ ran'[m + 1] = [part |-> 0, text |-> command, ok |-> ok]
    BY <2>m, <2>1, LogGrows
  <2>4. /\ ChainLog
        /\ IF IsChain(command) THEN ran # <<>> /\ ~ ran[m].ok ELSE ran = <<>>
    BY <2>m, <2>2 DEF LineInv
  <2>5. ran = <<>> <=> m = 0
    <3>1. ran \in Seq([part : Nat, text : Texts, ok : BOOLEAN])
      BY DEF TypeOK
    <3> QED BY <2>m, <3>1, EmptySeq
  <2>6. ASSUME NEW j \in 1 .. m
        PROVE  ran'[j] = ran[j] /\ ran[j].part # 0 /\ InTurn(j)'
    <3>1. InTurn(j) /\ ran[j].part \in DOMAIN Parts(command)
      BY <2>3, <2>4, <2>6 DEF ChainLog
    <3>2. \A i \in 1 .. j : ran'[i] = ran[i]
      BY <2>3, <2>6
    <3>3. ran[j].part # 0
      BY <1>0, <3>1, PartsSequence
    <3> QED BY <2>2, <2>3, <2>6, <3>1, <3>2, <3>3 DEF InTurn
  <2>7. CASE ran' = ran /\ Parse(command).verb = <<>>
    <3>1. \A j \in DOMAIN ran' : InTurn(j)' /\ AsOne(j)'
      BY <2>3, <2>6, <2>7 DEF AsOne
    <3> QED BY <2>2, <2>7, <3>1 DEF LineInv, ChainInOrder
  <2>8. CASE /\ DOMAIN ran' = 1 .. m + 1 /\ Len(ran') = m + 1
             /\ \A j \in 1 .. m : ran'[j] = ran[j]
             /\ ran'[m + 1] = [part |-> 0, text |-> command, ok |-> ok]
    <3>1. InTurn(m + 1)'
      BY <2>8 DEF InTurn
    <3>2. IsChain(command) => m > 0 /\ ~ ran'[m].ok
      BY <2>3, <2>4, <2>5, <2>8
    <3>3. AsOne(m + 1)'
      BY <2>2, <2>3, <2>8, <3>2 DEF AsOne
    <3>4. \A j \in 1 .. m : InTurn(j)' /\ AsOne(j)'
      BY <2>6 DEF AsOne
    <3>5. \A j \in DOMAIN ran' : InTurn(j)' /\ AsOne(j)'
      BY <2>3, <2>8, <3>1, <3>3, <3>4
    <3>6. m + 1 \in DOMAIN ran' /\ ran'[m + 1].part = 0
      BY <2>3, <2>8
    <3> QED BY <2>2, <3>5, <3>6 DEF LineInv, ChainInOrder
  <2> QED BY <2>3, <2>7, <2>8
<1>9. CASE LoopEnds
  <2>1. pc = "loop" /\ pc' = "deinit" /\ ran' = ran /\ command' = command
    BY <1>9 DEF LoopEnds, loop
  <2> QED BY <2>1 DEF LineInv, ChainInOrder, InTurn, AsOne
<1>10. CASE Denit
  <2>1. pc = "deinit" /\ pc' = "returned" /\ ran' = ran /\ command' = command
    BY <1>10 DEF Denit
  <2> QED BY <2>1 DEF LineInv, ChainInOrder, InTurn, AsOne
<1>11. CASE UNCHANGED vars
  <2>1. pc' = pc /\ saveptr' = saveptr /\ ran' = ran /\ command' = command
    BY <1>11 DEF vars, loop, copy
  <2> QED BY <2>1 DEF LineInv, ChainInOrder, InTurn, AsOne, ChainLog, RunUpTo, Blanks
<1> QED BY <1>1, <1>2, <1>3, <1>4, <1>5, <1>6, <1>7, <1>8, <1>9, <1>10, <1>11 DEF Next, Step

LEMMA LineInvariant == Spec => []LineInv
<1>1. Init => LineInv
  BY DEF Init, LineInv
<1> QED BY <1>1, LineStep, TypeCorrect, PTL DEF Spec

\* For every line: its commands run in order, each after the success of those before
\* it, all of them unless one fails; and then the line once more as one command.
THEOREM CommandsInOrder == Spec => []ChainInOrder
<1>1. TypeOK /\ LineInv => ChainInOrder
  <2> SUFFICES ASSUME TypeOK, LineInv PROVE ChainInOrder
    OBVIOUS
  <2>1. CASE pc \in {"loop", "deinit", "returned"}
    BY <2>1 DEF LineInv
  <2>2. CASE pc \in {"chain", "whole"}
    <3>1. ChainLog
      BY <2>2 DEF LineInv
    <3>2. pc # "loop" /\ command \in Lines
      BY <2>2 DEF TypeOK
    <3>3. \A j \in DOMAIN ran : ran[j].part # 0
      BY <3>1, <3>2, PartsSequence DEF ChainLog
    <3> QED BY <3>1, <3>2, <3>3 DEF ChainInOrder, ChainLog, AsOne
  <2>3. CASE pc \notin {"chain", "whole", "loop", "deinit", "returned"}
    BY <2>3 DEF LineInv, ChainInOrder
  <2> QED BY <2>1, <2>2, <2>3
<1> QED BY <1>1, LineInvariant, TypeCorrect, PTL

=============================================================================
