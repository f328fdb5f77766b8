----------------------------- MODULE Navigator -----------------------------
(***************************************************************************)
(* The shell's place in the image (middleware.c): its current directory,   *)
(* a node of the driver's tree, and its current path, the text of the      *)
(* prompt; and the commands that move it or read through it: ls, cd, cat,  *)
(* TAB (cli_helper.c, handle_tab_completion) and exit.  The driver below   *)
(* is NodeTree: a command starts a driver call, the call runs step by step *)
(* and the command goes on when it returns.                                *)
(*                                                                         *)
(* A command that follows a pointer to freed memory ends the behaviour:    *)
(* cmd = "undefined".  When malloc has handed the memory out again, the    *)
(* command goes on with whatever node lives there now.                     *)
(***************************************************************************)
EXTENDS NodeTree

CONSTANTS
  UserPaths,  \* the paths a user types
  TabDirs     \* the directory parts a user completes under, none of them "/"

\* PATH_MAX: a command that would have the driver walk a path outside Paths is
\* outside the model.
ASSUME UserAssumption == UserPaths \subseteq Paths /\ TabDirs \subseteq UserPaths

VARIABLES
  cwd,     \* middleware->current_directory
  path,    \* middleware->current_path, as the names from the root
  cmd,     \* the command in progress, or where in it the driver was called
  arg,     \* its path argument, Null if none
  norm,    \* normalized_path of cd
  target,  \* target_dir of ls, search_dir of TAB
  match,   \* the node whose name TAB completed
  astray   \* ghost: the root was listed while the shell stood elsewhere

locals == <<arg, norm, target, match>>
nav == <<cwd, path, cmd, locals, astray>>
navvars == <<vars, nav>>

Cmds == {"prompt", "lsfind", "ls", "cd", "cat", "tabfind", "tab", "matched",
         "slashfind", "slashed", "exit", "undefined"}

RootPath == [abs |-> TRUE, comps |-> <<>>]
AbsPath(comps) == [abs |-> TRUE, comps |-> comps]
HerePath == [abs |-> FALSE, comps |-> <<".">>]
UpPath == [abs |-> FALSE, comps |-> <<"..">>]

NavTypeOK ==
  /\ cwd \in Addr
  /\ path \in Seq(Name)
  /\ cmd \in Cmds
  /\ arg \in UserPaths \cup {Null, RootPath}
  /\ norm \in Seq(Component)
  /\ target \in Addr \cup {Null}
  /\ match \in Addr \cup {Null}
  /\ astray \in BOOLEAN

NavInit ==
  /\ Init
  /\ cwd = root /\ path = <<>>
  /\ cmd = "prompt"
  /\ arg = Null /\ norm = <<>> /\ target = Null /\ match = Null
  /\ astray = FALSE

-----------------------------------------------------------------------------
(* Calling the driver *)

AtPrompt == cmd = "prompt"
Returned(c) == cmd = c /\ op = "idle"
IsDir(n) == n # Null /\ ent[n] \in Dirs

Find(c, p) ==
  /\ p \in Paths
  /\ StartFind(p)
  /\ cmd' = c

\* List node n; listing the root frees every node but the root.
List(c, n) ==
  /\ n \in live
  /\ StartList(n)
  /\ cmd' = c
  /\ target' = n
  /\ astray' = (astray \/ (n = root /\ cwd # root))

Prompt ==
  /\ cmd' = "prompt"
  /\ arg' = Null /\ norm' = <<>> /\ target' = Null /\ match' = Null
  /\ UNCHANGED vars

-----------------------------------------------------------------------------
(* ls *)

LsHere ==
  /\ AtPrompt
  /\ List("ls", cwd)
  /\ UNCHANGED <<cwd, path, arg, norm, match>>

LsPath(p) ==
  /\ AtPrompt
  /\ arg' = p
  /\ Find("lsfind", p)
  /\ UNCHANGED <<cwd, path, norm, target, match, astray>>

\* A file is printed, a missing object is an error: no directory is listed.
LsFound ==
  /\ Returned("lsfind")
  /\ \/ IsDir(found) /\ List("ls", found) /\ UNCHANGED <<arg, norm, match>>
     \/ ~ IsDir(found) /\ Prompt /\ UNCHANGED astray
  /\ UNCHANGED <<cwd, path>>

LsDone ==
  /\ Returned("ls")
  /\ Prompt
  /\ UNCHANGED <<cwd, path, astray>>

-----------------------------------------------------------------------------
(* cd *)

CdRoot ==
  /\ AtPrompt
  /\ cwd' = root /\ path' = <<>>
  /\ astray' = FALSE
  /\ UNCHANGED <<vars, cmd, locals>>

\* Mutant: the path is cut although the directory stays.
CdUpPathOnly ==
  /\ AtPrompt
  /\ cwd \in live /\ parent[cwd] # Null
  /\ path' = IF path = <<>> THEN <<>> ELSE Front(path)
  /\ UNCHANGED <<vars, cwd, cmd, locals, astray>>

CdUp ==
  /\ AtPrompt
  /\ cwd \in live /\ parent[cwd] # Null
  /\ cwd' = parent[cwd]
  /\ path' = IF path = <<>> THEN <<>> ELSE Front(path)
  /\ UNCHANGED <<vars, cmd, locals, astray>>

\* Mutant: ".." takes nothing back.
NormalizeForward(comps) ==
  LET step(w, c) == IF c \in {"..", ".", ""} THEN w ELSE Append(w, c)
  IN  FoldLeft(step, <<>>, comps)

\* A token of strtok after the tokens of w: ".." takes one back, "." is left out.
Token ==
  [w \in Seq(Name) |-> [c \in Component |->
     CASE c = ".."        -> IF w = <<>> THEN w ELSE Front(w)
       [] c \in {".", ""} -> w
       [] OTHER           -> Append(w, c)]]

Normalize(comps) == FoldLeft(LAMBDA w, c : Token[w][c], <<>>, comps)

\* Any path but "/", "." and "..", an absolute one too, is taken from the
\* current path, and the driver walks the result from the root.
CdPath(p) ==
  /\ AtPrompt
  /\ p \notin {RootPath, HerePath, UpPath}
  /\ arg' = p
  /\ norm' = Normalize(path \o p.comps)
  /\ Find("cd", AbsPath(norm'))
  /\ UNCHANGED <<cwd, path, target, match, astray>>

\* Mutant: the driver's current directory follows the shell's.
CdFoundFollow ==
  /\ Returned("cd")
  /\ IF IsDir(found)
     THEN cwd' = found /\ path' = norm /\ astray' = FALSE /\ dcwd' = found
     ELSE UNCHANGED <<cwd, path, astray, dcwd>>
  /\ cmd' = "prompt"
  /\ UNCHANGED <<heap, root, call, results, locals>>

CdFound ==
  /\ Returned("cd")
  /\ IF IsDir(found)
     THEN cwd' = found /\ path' = norm /\ astray' = FALSE
     ELSE UNCHANGED <<cwd, path, astray>>
  /\ Prompt

-----------------------------------------------------------------------------
(* cat *)

\* Mutant: the argument alone is looked up.
CatPathAlone(p) ==
  /\ AtPrompt
  /\ arg' = p
  /\ Find("cat", p)
  /\ UNCHANGED <<cwd, path, norm, target, match, astray>>

\* The argument is appended to the current path; an absolute one leaves an
\* empty component there, unless the path is "/".
CatPath(p) ==
  /\ AtPrompt
  /\ arg' = p
  /\ LET gap == IF p.abs /\ path # <<>> THEN <<"">> ELSE <<>>
     IN  Find("cat", AbsPath(path \o gap \o p.comps))
  /\ UNCHANGED <<cwd, path, norm, target, match, astray>>

CatDone ==
  /\ Returned("cat")
  /\ Prompt
  /\ UNCHANGED <<cwd, path, astray>>

-----------------------------------------------------------------------------
(* TAB, after a command name: the directory part of the word is listed, a  *)
(* unique match is completed, and then looked up again to see whether it   *)
(* is a directory, which adds a '/'.                                       *)

TabHere ==
  /\ AtPrompt
  /\ List("tab", cwd)
  /\ UNCHANGED <<cwd, path, arg, norm, match>>

TabRoot ==
  /\ AtPrompt
  /\ arg' = RootPath
  /\ List("tab", root)
  /\ UNCHANGED <<cwd, path, norm, match>>

TabPath(p) ==
  /\ AtPrompt
  /\ arg' = p
  /\ Find("tabfind", p)
  /\ UNCHANGED <<cwd, path, norm, target, match, astray>>

TabFound ==
  /\ Returned("tabfind")
  /\ \/ IsDir(found) /\ List("tab", found) /\ UNCHANGED <<arg, norm, match>>
     \/ ~ IsDir(found) /\ Prompt /\ UNCHANGED astray
  /\ UNCHANGED <<cwd, path>>

\* No match, or several: nothing is completed.
TabNone ==
  /\ Returned("tab")
  /\ Prompt
  /\ UNCHANGED <<cwd, path, astray>>

\* One match, the child m.
TabMatch(m) ==
  /\ Returned("tab")
  /\ m \in kids[target]
  /\ match' = m
  /\ cmd' = "matched"
  /\ UNCHANGED <<vars, cwd, path, arg, norm, target, astray>>

\* The children of d hold a directory with the name of the match.
MatchIsDirIn(d) ==
  d # Null /\ \E k \in kids[d] : Last(where[k]) = Last(where[match]) /\ ent[k] \in Dirs

AddSlash(d) ==
  /\ cmd' = IF MatchIsDirIn(d) THEN "slashed" ELSE "prompt"
  /\ arg' = Null /\ norm' = <<>> /\ target' = Null /\ match' = Null
  /\ UNCHANGED <<vars, cwd, path, astray>>

\* Without a directory part, or with "/", the list is still there ...
SlashHere ==
  /\ Returned("matched") /\ arg \in {Null, RootPath}
  /\ AddSlash(target)

\* Mutant: the directory part is listed again instead of looked up.
SlashFindList ==
  /\ Returned("matched") /\ arg \notin {Null, RootPath}
  /\ List("slashfind", target)
  /\ UNCHANGED <<cwd, path, arg, norm, match>>

\* ... otherwise the directory part is walked again, to a fresh node.
SlashFind ==
  /\ Returned("matched") /\ arg \notin {Null, RootPath}
  /\ Find("slashfind", arg)
  /\ UNCHANGED <<cwd, path, locals, astray>>

SlashFound ==
  /\ Returned("slashfind")
  /\ AddSlash(found)

Slashed ==
  /\ Returned("slashed")
  /\ Prompt
  /\ UNCHANGED <<cwd, path, astray>>

-----------------------------------------------------------------------------
(* exit, and the use of freed memory *)

Exit ==
  /\ AtPrompt
  /\ Unmount
  /\ cmd' = "exit"
  /\ UNCHANGED <<cwd, path, locals, astray>>

\* ls, cd .. and TAB read through the current directory.
UseFreed ==
  /\ AtPrompt
  /\ cwd \notin live
  /\ cmd' = "undefined"
  /\ UNCHANGED <<vars, cwd, path, locals, astray>>

Command ==
  \/ LsHere
  \/ \E p \in UserPaths : LsPath(p) \/ CdPath(p) \/ CatPath(p)
  \/ \E p \in TabDirs : TabPath(p)
  \/ CdRoot
  \/ CdUp
  \/ TabHere
  \/ TabRoot
  \/ Exit
  \/ UseFreed

Continue ==
  \/ LsFound
  \/ LsDone
  \/ CdFound
  \/ CatDone
  \/ TabFound
  \/ TabNone
  \/ \E m \in Addr : TabMatch(m)
  \/ SlashHere
  \/ SlashFind
  \/ SlashFound
  \/ Slashed

NavNext ==
  \/ Command
  \/ Continue
  \/ DriverStep /\ UNCHANGED nav

NavSpec == NavInit /\ [][NavNext]_navvars

-----------------------------------------------------------------------------
(* Properties *)

\* The shell stands where its prompt says: between commands its directory is a
\* live directory node with the path of the prompt, unless the root was listed
\* while it stood elsewhere (then fat_driver_list_directory freed the node).
CwdIsPrompt ==
  AtPrompt /\ ~ astray => /\ cwd \in live
                          /\ ent[cwd] \in Dirs
                          /\ where[cwd] = path

\* The shell keeps the driver's contract: it passes live nodes only and never
\* has the driver's own current directory freed, so all that NodeTree promises
\* holds below the shell.
DriverContract == Spec

\* A cd that looks for its argument goes to the directory that this names from the
\* prompt's on, although the shell works on text and the driver on nodes; it fails only
\* if a sector cannot be read.  An argument that begins with '/', but for "/" itself,
\* is taken from the prompt's directory too: the code makes no difference, and the
\* documents do not say where such a cd should go.
CdGoesThere ==
  [][ (cmd = "cd" /\ AtPrompt') =>
        LET end == Walk(path, arg.comps)
        IN  end # Null /\ ObjectAt(end) \in Dirs =>
              path' = end \/ (failed # {} /\ path' = path) ]_navvars

\* A relative cat reads the object its argument names from the prompt's path,
\* or nothing.
CatReadsNamed ==
  [][ (cmd = "cat" /\ AtPrompt' /\ ~ arg.abs) =>
        LET end == Walk(path, arg.comps)
        IN  IF found = Null THEN failed # {} \/ end = Null
            ELSE end # Null /\ ent[found] = ObjectAt(end) ]_navvars

\* What a command goes on with after a driver call is still there: the node that
\* find_path returned, and the node whose name TAB is completing with.
ResultsLive ==
  /\ op = "idle" /\ cmd \in {"lsfind", "cd", "cat", "tabfind", "slashfind"} =>
       found = Null \/ found \in live
  /\ cmd \in {"matched", "slashfind"} => match \in live

\* HighlevelReq.txt, line 59: with the path at /abc/def, ls shows what is in
\* /abc/def.  The shell's directory is the one the prompt names.
CwdNeverDangles == AtPrompt => cwd \in live /\ where[cwd] = path
=============================================================================
