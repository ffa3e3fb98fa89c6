--------------------------- MODULE DirectoryTree ---------------------------
(***************************************************************************)
(* The directories of the file system, src/FileSystem: a document per      *)
(* directory and per file, each with its name and the identity of its      *)
(* parent.  The root has no document.  The console creates, moves, renames *)
(* and removes them; the thread that listens to MaRTA adds files.  One     *)
(* step is one operation that changes the database or a whole path         *)
(* resolved by the console, whose directories no other thread changes.     *)
(*                                                                         *)
(* Identities are handed out in order, as mongo_generateId never repeats   *)
(* one.  Of the prompt the model keeps how many characters it has.         *)
(***************************************************************************)
EXTENDS Integers, Sequences, SequencesExt

CONSTANTS
    Name,       \* the names of directories and files
    NameLength, \* the number of characters of each name
    Path,       \* the paths given to commands: absolute or not, and the steps
    ResultPath, \* the paths at which MaRTA wants results, all absolute
    MaxPrompt,  \* bound on the length of the prompt (its buffer has 1024)
    MaxDirs,    \* bound on the directories ever made
    MaxFiles    \* bound on the files ever made

Up == ".."

ASSUME TreeAssumption ==
    /\ Name # {} /\ Up \notin Name /\ NameLength \in [Name -> Nat \ {0}]
    /\ Path \subseteq [abs : BOOLEAN, steps : Seq(Name \cup {Up})]
    /\ ResultPath \subseteq Seq(Name) \ {<<>>}
    /\ MaxPrompt \in Nat /\ MaxDirs \in Nat /\ MaxFiles \in Nat

VARIABLES
    dirs, files,           \* the two collections: the document of each identity
    dborn, fborn,          \* identities handed out
    cwd, prompt,           \* currentDirId, the length of currentDirPrompt
    cpc, cnew,             \* where the console is, what it is creating
    stack,                 \* the calls of filesystem_deleteDir under way
    mpc, mdir, mpath,      \* where MaRTA's thread is, what is left of its path
    crashed,
    \* history: what the removal under way was asked to remove; the last file
    \* there was when it began; whether a directory above the current one was
    \* moved or renamed since the prompt was last written from the root
    doomed, mark, stale

dirVars  == <<dirs, dborn>>
fileVars == <<files, fborn>>
cwdVars  == <<cwd, prompt, stale>>
martaVars == <<mpc, mdir, mpath>>
rmVars   == <<stack, doomed, mark>>
vars == <<dirVars, fileVars, cwdVars, cpc, cnew, rmVars, martaVars, crashed>>

Root == 0
Dir  == 1 .. MaxDirs
File == 1 .. MaxFiles
Place == {Root} \cup Dir
Nowhere == -1

Doc == [name : Name, parent : Place]
NoDoc == [name |-> CHOOSE n \in Name : TRUE, parent |-> Root]
Frame == [dir : Place, stage : {"files", "dirs"}, files : SUBSET File, dirs : SUBSET Dir]

\* Every variable has its type; documents refer to identities that were handed out.
TypeOK ==
    /\ dborn \in 0 .. MaxDirs /\ fborn \in 0 .. MaxFiles
    /\ dirs \in [DOMAIN dirs -> Doc] /\ DOMAIN dirs \subseteq 1 .. dborn
    /\ files \in [DOMAIN files -> Doc] /\ DOMAIN files \subseteq 1 .. fborn
    /\ cwd \in Place /\ prompt \in Nat
    /\ cpc \in {"idle", "mkdir", "store", "format"} /\ cnew \in Doc
    /\ stack \in Seq(Frame)
    /\ mpc \in {"idle", "walk", "save"} /\ mdir \in Place /\ mpath \in Seq(Name)
    /\ crashed \in BOOLEAN /\ stale \in BOOLEAN
    /\ doomed \subseteq Place /\ mark \in 0 .. MaxFiles

----------------------------------------------------------------------------
(* Reading the collections. *)

Exists(q) == q \in DOMAIN dirs \cup {Root}
SubDirs(q) == {d \in DOMAIN dirs : dirs[d].parent = q}
FilesIn(q) == {f \in DOMAIN files : files[f].parent = q}
DirNamed(n, q)  == {d \in SubDirs(q) : dirs[d].name = n}
FileNamed(n, q) == {f \in FilesIn(q) : files[f].name = n}

\* Both collections are looked at: no directory and no file has the name.
canCreateResource(n, q) == DirNamed(n, q) = {} /\ FileNamed(n, q) = {}

\* What is under a place, itself included: what every set of places with it
\* and with the subdirectories of its members has.
Under(q) ==
    {d \in Place : \A S \in SUBSET Place :
        (q \in S /\ \A e \in DOMAIN dirs : dirs[e].parent \in S => e \in S) => d \in S}

----------------------------------------------------------------------------
(* Paths.  While one is resolved: the place reached, the length of the     *)
(* prompt so far and what may happen to the process: nothing, a byte       *)
(* written before the buffer of the prompt, a document read that is not    *)
(* there.                                                                  *)

Start(abs) ==
    [at |-> IF abs THEN Root ELSE IF Exists(cwd) THEN cwd ELSE Nowhere,
     length |-> IF abs THEN 1 ELSE prompt, risk |-> "no"]

Slash(q) == IF q = Root THEN 1 ELSE 0

\* A mutant of GoUp: the slash of the root is not put back.
GoUpUnrooted(s) ==
    LET d == dirs[s.at] IN
    [s EXCEPT !.at = d.parent, !.length = @ - NameLength[d.name] - 1]

\* "..": the prompt loses as many characters as the name has now, and a slash; when
\* it has fewer the zero is written before the buffer.  The document of the parent
\* is read, and looked at although it may not be there.
GoUp(s) ==
    LET d    == dirs[s.at]
        left == s.length - NameLength[d.name] - 1
    IN  [at     |-> IF Exists(d.parent) THEN d.parent ELSE Nowhere,
         length |-> Slash(d.parent) + IF left < 0 THEN s.length ELSE left,
         risk   |-> IF ~Exists(d.parent) THEN "sure" ELSE IF left < 0 THEN "may" ELSE s.risk]

\* A mutant of GoDown: the prompt is not changed.
GoDownSilently(s, n) ==
    [s EXCEPT !.at = IF DirNamed(n, @) = {} THEN Nowhere
                     ELSE CHOOSE d \in DirNamed(n, s.at) : TRUE]

GoDown(s, n) ==
    LET found == DirNamed(n, s.at)
    IN  IF found = {} THEN [s EXCEPT !.at = Nowhere]
        ELSE [s EXCEPT !.at = CHOOSE d \in found : TRUE,
                       !.length = @ + NameLength[n] + 1 - Slash(s.at)]

Walk(s, step) ==
    IF s.at = Nowhere \/ (step = Up /\ s.at = Root) THEN s
    ELSE IF step = Up THEN GoUp(s) ELSE GoDown(s, step)

\* A step of the path at a time.
resolveDirPath(p) ==
    LET walk[k \in 0 .. Len(p.steps)] ==
          IF k = 0 THEN Start(p.abs) ELSE Walk(walk[k - 1], p.steps[k])
    IN  walk[Len(p.steps)]

\* The directory part of a path, and the files with the name that is left.
DirPart(p) == IF p.steps = <<>> THEN p ELSE [p EXCEPT !.steps = Front(@)]
resolveFilePath(p) ==
    IF p.steps = <<>> THEN {}
    ELSE FileNamed(Last(p.steps), resolveDirPath(DirPart(p)).at)

\* The console is at its prompt; the paths of a command are resolved and the
\* process goes on.
Resolves(S) ==
    /\ cpc = "idle" /\ stack = <<>>
    /\ \A p \in S : resolveDirPath(p).risk # "sure"

----------------------------------------------------------------------------
Init ==
    /\ dirs = <<>> /\ files = <<>> /\ dborn = 0 /\ fborn = 0
    /\ cwd = Root /\ prompt = 1
    /\ cpc = "idle" /\ cnew = NoDoc
    /\ stack = <<>> /\ doomed = {} /\ mark = 0
    /\ mpc = "idle" /\ mdir = Root /\ mpath = <<>>
    /\ crashed = FALSE /\ stale = FALSE

----------------------------------------------------------------------------
(* The operations of the database.  An index refuses a second document     *)
(* with the name and the parent of another of the same collection.         *)

With(docs, i, doc) == [j \in DOMAIN docs \cup {i} |-> IF j = i THEN doc ELSE docs[j]]
Without(docs, i) == [j \in DOMAIN docs \ {i} |-> docs[j]]

mongo_dir_save(n, q) ==
    IF DirNamed(n, q) # {} THEN UNCHANGED dirVars
    ELSE LET d == dborn + 1
         IN  d \in Dir /\ dborn' = d /\ dirs' = With(dirs, d, [name |-> n, parent |-> q])

mongo_file_save(n, q) ==
    IF FileNamed(n, q) # {} THEN UNCHANGED fileVars
    ELSE LET f == fborn + 1
         IN  f \in File /\ fborn' = f /\ files' = With(files, f, [name |-> n, parent |-> q])

\* The name and the parent of a document that exists and does not clash are set;
\* the error of one that does is not looked at.
SetDir(d, n, q) ==
    /\ IF DirNamed(n, q) # {} THEN UNCHANGED <<dirs, stale>>
       ELSE /\ dirs' = With(dirs, d, [name |-> n, parent |-> q])
            /\ stale' = (stale \/ cwd \in Under(d))
    /\ UNCHANGED <<dborn, fileVars>>
SetFile(f, n, q) ==
    /\ IF FileNamed(n, q) # {} THEN UNCHANGED files
       ELSE files' = With(files, f, [name |-> n, parent |-> q])
    /\ UNCHANGED <<fborn, dirVars, stale>>

----------------------------------------------------------------------------
(* The commands of the console that take one step. *)

\* A path is resolved in a way that may, or must, end the process.
CrashOnPath(p) ==
    /\ cpc = "idle" /\ stack = <<>> /\ resolveDirPath(p).risk # "no"
    /\ crashed' = TRUE
    /\ UNCHANGED <<dirVars, fileVars, cwdVars, cpc, cnew, rmVars, martaVars>>

changeDir(p) ==
    /\ Resolves({p})
    /\ LET s == resolveDirPath(p)
       IN  /\ s.at # Nowhere /\ s.length <= MaxPrompt
           /\ cwd' = s.at /\ prompt' = s.length
    /\ stale' = (stale /\ ~p.abs)
    /\ UNCHANGED <<dirVars, fileVars, cpc, cnew, rmVars, martaVars, crashed>>

\* A mutant of moveResource: the destination may not be there.
moveAnyway(p, dest) ==
    /\ Resolves({p, dest})
    /\ \E f \in resolveFilePath(p) : SetFile(f, files[f].name, resolveDirPath(dest).at)
    /\ UNCHANGED <<cwd, prompt, cpc, cnew, rmVars, martaVars, crashed>>

\* The destination may be anywhere, inside the directory that moves included.
moveResource(p, dest) ==
    /\ Resolves({p, dest})
    /\ LET q == resolveDirPath(dest).at
           d == resolveDirPath(p).at
       IN  /\ q # Nowhere
           /\ IF d = Root THEN UNCHANGED <<dirVars, fileVars, stale>>
              ELSE IF d # Nowhere THEN SetDir(d, dirs[d].name, q)
              ELSE \E f \in resolveFilePath(p) : SetFile(f, files[f].name, q)
    /\ UNCHANGED <<cwd, prompt, cpc, cnew, rmVars, martaVars, crashed>>

renameResource(p, n) ==
    /\ Resolves({p})
    /\ LET d == resolveDirPath(p).at
       IN  IF d = Root THEN UNCHANGED <<dirVars, fileVars, stale>>
           ELSE IF d # Nowhere THEN SetDir(d, n, dirs[d].parent)
           ELSE \E f \in resolveFilePath(p) : SetFile(f, n, files[f].parent)
    /\ UNCHANGED <<cwd, prompt, cpc, cnew, rmVars, martaVars, crashed>>

\* rm of a file; its blocks are those of BlockStore.
deleteFile(p) ==
    /\ Resolves({DirPart(p)})
    /\ \E f \in resolveFilePath(p) : files' = Without(files, f)
    /\ UNCHANGED <<fborn, dirVars, cwdVars, cpc, cnew, rmVars,
                   martaVars, crashed>>

----------------------------------------------------------------------------
(* The commands that look first and write later. *)

makeDir(n) ==
    /\ cpc = "idle" /\ stack = <<>> /\ canCreateResource(n, cwd)
    /\ cpc' = "mkdir" /\ cnew' = [name |-> n, parent |-> cwd]
    /\ UNCHANGED <<dirVars, fileVars, cwdVars, rmVars, martaVars, crashed>>

SaveNewDir ==
    /\ cpc = "mkdir" /\ mongo_dir_save(cnew.name, cnew.parent)
    /\ cpc' = "idle" /\ cnew' = NoDoc
    /\ UNCHANGED <<fileVars, cwdVars, rmVars, martaVars, crashed>>

\* cp -fromfs: into the directory that is named, with the name of the local file;
\* or at the path, its last step being the name; or in the current directory.
copyFile(n, dest) ==
    /\ Resolves({dest})
    /\ LET q == resolveDirPath(dest).at
           folder == resolveDirPath(DirPart(dest)).at
           here == ~dest.abs /\ Len(dest.steps) = 1
       IN  \/ q # Nowhere /\ cnew' = [name |-> n, parent |-> q]
           \/ /\ q = Nowhere /\ dest.steps # <<>> /\ Last(dest.steps) \in Name /\ (here \/ folder # Nowhere)
              /\ cnew' = [name |-> Last(dest.steps), parent |-> IF here THEN cwd ELSE folder]
    /\ canCreateResource(cnew'.name, cnew'.parent)
    /\ cpc' = "store"
    /\ UNCHANGED <<dirVars, fileVars, cwdVars, rmVars, martaVars, crashed>>

\* The blocks could be stored, or not.
SaveNewFile ==
    /\ cpc = "store"
    /\ mongo_file_save(cnew.name, cnew.parent) \/ UNCHANGED fileVars
    /\ cpc' = "idle" /\ cnew' = NoDoc
    /\ UNCHANGED <<dirVars, cwdVars, rmVars, martaVars, crashed>>

\* format: the directories, then the files.
format ==
    /\ cpc = "idle" /\ stack = <<>> /\ cpc' = "format" /\ dirs' = <<>>
    /\ UNCHANGED <<dborn, fileVars, cwdVars, cnew, rmVars, martaVars, crashed>>

FormatFiles ==
    /\ cpc = "format" /\ cpc' = "idle" /\ files' = <<>>
    /\ cwd' = Root /\ prompt' = 1 /\ stale' = FALSE
    /\ UNCHANGED <<fborn, dirVars, cnew, rmVars, martaVars, crashed>>

----------------------------------------------------------------------------
(* rm -r: filesystem_deleteDir lists the files of the directory and deletes *)
(* them, lists its directories and calls itself for each, then deletes it.  *)

Call(d) == [dir |-> d, stage |-> "files", files |-> FilesIn(d), dirs |-> {}]
Frame1 == stack[Len(stack)]
SetFrame(c) == stack' = [stack EXCEPT ![Len(stack)] = c]
Removing == stack # <<>> /\ UNCHANGED <<cwdVars, cpc, cnew, martaVars>>

deleteDir(p) ==
    /\ Resolves({p})
    /\ LET d == resolveDirPath(p).at
       IN  d # Nowhere /\ stack' = <<Call(d)>> /\ doomed' = Under(d)
    /\ mark' = fborn
    /\ UNCHANGED <<dirVars, fileVars, cwdVars, cpc, cnew, martaVars, crashed>>

\* A mutant of DeleteChildFile: the list is not advanced.
DeleteListed ==
    /\ Removing /\ Frame1.stage = "files"
    /\ \E f \in Frame1.files : files' = Without(files, f)
    /\ UNCHANGED <<fborn, dirVars, rmVars, crashed>>

DeleteChildFile ==
    /\ Removing /\ Frame1.stage = "files"
    /\ \E f \in Frame1.files :
         /\ files' = Without(files, f)
         /\ SetFrame([Frame1 EXCEPT !.files = @ \ {f}])
    /\ UNCHANGED <<fborn, dirVars, doomed, mark, crashed>>

\* A mutant of ListChildDirs: the directories inside are forgotten.
ListNoDirs ==
    /\ Removing /\ Frame1.stage = "files" /\ Frame1.files = {}
    /\ SetFrame([Frame1 EXCEPT !.stage = "dirs"])
    /\ UNCHANGED <<dirVars, fileVars, doomed, mark, crashed>>

ListChildDirs ==
    /\ Removing /\ Frame1.stage = "files" /\ Frame1.files = {}
    /\ SetFrame([Frame1 EXCEPT !.stage = "dirs", !.dirs = SubDirs(Frame1.dir)])
    /\ UNCHANGED <<dirVars, fileVars, doomed, mark, crashed>>

\* The call for a directory that is being removed already never comes back: the
\* process runs out of stack.
DeleteChildDir ==
    /\ Removing
    /\ \E d \in Frame1.dirs :
         IF \E i \in DOMAIN stack : stack[i].dir = d
         THEN crashed' = TRUE /\ UNCHANGED stack
         ELSE /\ stack' = Append([stack EXCEPT ![Len(stack)].dirs = @ \ {d}], Call(d))
              /\ UNCHANGED crashed
    /\ UNCHANGED <<dirVars, fileVars, doomed, mark>>

\* A mutant of DeleteItself: as soon as its files are gone, with its directories.
DeleteItselfFirst ==
    /\ Removing /\ Frame1.stage = "dirs" /\ dirs' = Without(dirs, Frame1.dir)
    /\ UNCHANGED <<stack, doomed, mark, dborn, fileVars, crashed>>

DeleteItself ==
    /\ Removing /\ Frame1.stage = "dirs" /\ Frame1.dirs = {}
    /\ dirs' = Without(dirs, Frame1.dir)
    /\ stack' = Front(stack)
    /\ IF Len(stack) = 1 THEN doomed' = {} /\ mark' = 0 ELSE UNCHANGED <<doomed, mark>>
    /\ UNCHANGED <<dborn, fileVars, crashed>>

----------------------------------------------------------------------------
(* MaRTA's thread, filesystem_copyTmpFileToMDFS: a directory at a time.    *)

Marta == UNCHANGED <<dirVars, cwdVars, cpc, cnew, rmVars, crashed>>
EndCopy == mpc' = "idle" /\ mdir' = Root /\ mpath' = <<>>

StartCopy(r) ==
    /\ Marta /\ mpc = "idle"
    /\ mpc' = "walk" /\ mpath' = r
    /\ UNCHANGED <<mdir, fileVars>>

NextDir ==
    /\ Marta /\ mpc = "walk" /\ Len(mpath) > 1
    /\ LET found == DirNamed(Head(mpath), mdir)
       IN  IF found = {} THEN EndCopy
           ELSE mdir' \in found /\ mpath' = Tail(mpath) /\ UNCHANGED mpc
    /\ UNCHANGED fileVars

CheckName ==
    /\ Marta /\ mpc = "walk" /\ Len(mpath) = 1
    /\ IF canCreateResource(Head(mpath), mdir)
       THEN mpc' = "save" /\ UNCHANGED <<mdir, mpath>> ELSE EndCopy
    /\ UNCHANGED fileVars

\* The content of the result is fetched and its blocks are stored, or not.
SaveResult ==
    /\ Marta /\ mpc = "save" /\ EndCopy
    /\ mongo_file_save(Head(mpath), mdir) \/ UNCHANGED fileVars

----------------------------------------------------------------------------
Console ==
    \/ \E p \in Path : CrashOnPath(p) \/ changeDir(p) \/ deleteFile(p) \/ deleteDir(p)
    \/ \E p, dest \in Path : moveResource(p, dest)
    \/ \E p \in Path, n \in Name : renameResource(p, n) \/ copyFile(n, p)
    \/ \E n \in Name : makeDir(n)
    \/ SaveNewDir \/ SaveNewFile \/ format \/ FormatFiles

RemoveTree == DeleteChildFile \/ ListChildDirs \/ DeleteChildDir \/ DeleteItself

Results ==
    \/ \E r \in ResultPath : StartCopy(r)
    \/ NextDir \/ CheckName \/ SaveResult

\* The process has ended.
Crashed == crashed /\ UNCHANGED vars

Next == (~crashed /\ (Console \/ RemoveTree \/ Results)) \/ Crashed

\* The console's thread goes on with a removal.
Spec == Init /\ [][Next]_vars /\ WF_vars(~crashed /\ RemoveTree)

----------------------------------------------------------------------------
(* Properties. *)

\* The length of the path of a directory; the depth is bounded for those in a loop.
PathLength(d) ==
    LET length[k \in 0 .. MaxDirs] ==
          [e \in Place |-> IF k = 0 \/ e \notin DOMAIN dirs THEN 0
                           ELSE length[k - 1][dirs[e].parent] + 1 + NameLength[dirs[e].name]]
    IN  IF d = Root THEN 1 ELSE length[MaxDirs][d]

\* The prompt is edited by every cd, never read again from the directories: while
\* nothing above the current directory was moved or renamed it has its path's length.
PromptTellsWhere ==
    ~stale /\ Exists(cwd) => prompt = PathLength(cwd)

\* The process ends only by what mv and rename do without a check: the prompt no
\* longer fits the directory and loses more than it has, or a directory inside
\* itself is removed.  A parent that is looked at is always there.
CrashesNeedMoves ==
    crashed => stale \/ \E d \in DOMAIN dirs : dirs[d].parent \in Under(d)

\* rm -r removes nothing but what was under its directory, whatever results
\* arrive; and when it ends none of that is left, except files that came later.
RemovesExactly ==
    stack # <<>> =>
      /\ DOMAIN dirs \ DOMAIN dirs' \subseteq doomed
      /\ \A f \in DOMAIN files \ DOMAIN files' : files[f].parent \in doomed
      /\ stack' = <<>> =>
           /\ doomed \cap DOMAIN dirs' = {}
           /\ \A f \in DOMAIN files' : files'[f].parent \in doomed => f > mark
RemovalIsExact == [][RemovesExactly]_vars

\* What can be reached from the root is never lost: only mv puts something out of
\* reach, when it goes inside itself or to a place out of reach; and only a removal
\* under way a file that was stored after it began.  format deletes the files next.
MovesAway == \E d \in DOMAIN dirs \cap DOMAIN dirs' :
    /\ dirs'[d].parent # dirs[d].parent
    /\ dirs'[d].parent \notin Under(Root) \ Under(d)
LosesNothing ==
    MovesAway \/ cpc' = "format" \/
      /\ DOMAIN dirs \cap DOMAIN dirs' \cap Under(Root) \subseteq Under(Root)'
      /\ \A f \in DOMAIN files \cap DOMAIN files' :
           /\ {files[f].parent, files'[f].parent} \subseteq Under(Root)
           /\ files'[f].parent \notin Under(Root)'
           => stack # <<>> /\ f > mark
NothingGetsLost == [][LosesNothing]_vars

\* A removal ends, though MaRTA may add files to what is removed.
EveryRemovalEnds == stack # <<>> ~> stack = <<>> \/ crashed
=============================================================================
