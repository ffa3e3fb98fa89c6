------------------------- MODULE DirectoryTree_proofs -------------------------
(***************************************************************************)
(* Theorems about DirectoryTree, for any names, paths and results: its     *)
(* types, that a removal removes its directory and nothing else, that      *)
(* nothing else that can be reached from the root is lost, that the prompt *)
(* tells where the console is, and what the process may end by.            *)
(***************************************************************************)
EXTENDS DirectoryTree, FiniteSetTheorems, SequenceTheorems, WellFoundedInduction,
        TLAPS

\* MaRTA's thread has a name to look at while it copies a result.
OnPath == mpc # "idle" => mpath # <<>>

\* A command other than a removal is under way only when no removal is.
Quiet == stack # <<>> => cpc = "idle"

OnStack(d) == \E i \in DOMAIN stack : stack[i].dir = d

\* The calls under way: of a directory and then of one inside it, each with what it has
\* still to remove.
FrameOK(i) ==
    LET c == stack[i]
    IN  /\ c.dir \in doomed /\ Exists(c.dir)
        /\ i < Len(stack) => c.stage = "dirs"
        /\ IF c.stage = "dirs" THEN c.files = {} ELSE c.dirs = {}
        /\ \A f \in c.files : f \in DOMAIN files /\ files[f].parent = c.dir
        /\ \A d \in c.dirs : d \in DOMAIN dirs /\ dirs[d].parent = c.dir
        /\ i > 1 => /\ c.dir \in DOMAIN dirs /\ dirs[c.dir].parent = stack[i - 1].dir
                    /\ c.dir \notin stack[i - 1].dirs
Frames ==
    /\ \A i \in DOMAIN stack : FrameOK(i)
    /\ \A i, j \in DOMAIN stack : stack[i].dir = stack[j].dir => i = j

\* What is to be removed is the first directory and what is under it, and nothing in a
\* loop that does not pass by it.
Tree ==
    /\ \A d \in DOMAIN dirs : dirs[d].parent \in doomed => d \in doomed
    /\ \A d \in DOMAIN dirs \cap doomed : d # stack[1].dir => dirs[d].parent \in doomed
    /\ \A S \in SUBSET (DOMAIN dirs \cap doomed) :
         S # {} /\ stack[1].dir \notin S => \E d \in S : dirs[d].parent \notin S

\* A directory that no call has come to yet.
Ahead(d) == d \in DOMAIN dirs /\ ~OnStack(d)

\* Every directory and every file that was there is on its way to be removed.
DirAwaits(d) ==
    \/ \E i \in DOMAIN stack : i > 1 /\ stack[i].dir = d
    \/ \E i \in DOMAIN stack : /\ stack[i].dir = dirs[d].parent
                               /\ stack[i].stage = "files" \/ d \in stack[i].dirs
    \/ Ahead(dirs[d].parent)
FileAwaits(f) == (\E i \in DOMAIN stack : f \in stack[i].files) \/ Ahead(files[f].parent)
Await ==
    /\ \A d \in DOMAIN dirs : dirs[d].parent \in doomed => DirAwaits(d)
    /\ \A f \in DOMAIN files : f <= mark /\ files[f].parent \in doomed => FileAwaits(f)

Removal == stack # <<>> => Frames /\ Tree /\ Await /\ mark <= fborn
IInv == TypeOK /\ OnPath /\ Quiet /\ Removal

----------------------------------------------------------------------------
\* A set of naturals that is not empty has a least one.
LEMMA LeastNatural ==
    ASSUME NEW S \in SUBSET Nat, S # {}
    PROVE  \E n \in S : \A m \in S : n <= m
  <1>1. \E n \in S : \A m \in S : <<m, n>> \notin OpToRel(<, Nat)
    BY NatLessThanWellFounded, WFMin
  <1>2. PICK n \in S : \A m \in S : ~(m < n)
    <2>1. \A m, n \in S : m < n => <<m, n>> \in OpToRel(<, Nat)
      BY DEF OpToRel
    <2> QED BY <1>1, <2>1
  <1>3. \A m \in S : n <= m
    BY <1>2
  <1> QED BY <1>3

\* Where a path may lead.
Walked == [at : Place \cup {Nowhere}, length : Nat, risk : {"no", "may", "sure"}]
Good(s) == s \in Walked /\ (Exists(s.at) \/ s.at = Nowhere)
Given == [abs : BOOLEAN, steps : Seq(Name \cup {Up})]

\* The root, and the places there are.
LEMMA Places ==
    ASSUME TypeOK
    PROVE  /\ Root \in Place /\ Root \notin DOMAIN dirs /\ Nowhere \notin Place
           /\ DOMAIN dirs \subseteq Dir /\ DOMAIN dirs \subseteq Place /\ DOMAIN files \subseteq File
           /\ \A q : Exists(q) => q \in Place
           /\ \A d \in DOMAIN dirs : dirs[d].name \in Name /\ dirs[d].parent \in Place
           /\ \A f \in DOMAIN files : files[f].name \in Name /\ files[f].parent \in Place
           /\ dborn \in Nat /\ fborn \in Nat /\ MaxDirs \in Nat /\ MaxFiles \in Nat
  <1>1. MaxDirs \in Nat /\ MaxFiles \in Nat
    BY TreeAssumption DEF TreeAssumption
  <1>2. /\ dborn \in 0 .. MaxDirs /\ fborn \in 0 .. MaxFiles
        /\ dirs \in [DOMAIN dirs -> Doc] /\ DOMAIN dirs \subseteq 1 .. dborn
        /\ files \in [DOMAIN files -> Doc] /\ DOMAIN files \subseteq 1 .. fborn
    BY DEF TypeOK
  <1>3. DOMAIN dirs \subseteq Dir /\ DOMAIN files \subseteq File
    BY <1>1, <1>2 DEF Dir, File
  <1>4. Root \in Place /\ Nowhere \notin Place /\ Dir \subseteq Place /\ Root \notin Dir
    BY <1>1 DEF Place, Dir, Root, Nowhere
  <1>5. \A d \in DOMAIN dirs : dirs[d].name \in Name /\ dirs[d].parent \in Place
    BY <1>2 DEF Doc
  <1>6. \A f \in DOMAIN files : files[f].name \in Name /\ files[f].parent \in Place
    BY <1>2 DEF Doc
  <1>7. dborn \in Nat /\ fborn \in Nat
    BY <1>1, <1>2
  <1> QED BY <1>1, <1>3, <1>4, <1>5, <1>6, <1>7 DEF Exists

\* A step of a path.
LEMMA WalkStep ==
    ASSUME TypeOK, NEW s, Good(s), NEW n \in Name \cup {Up}
    PROVE  Good(Walk(s, n))
  <1>1. /\ s \in Walked /\ s.at \in Place \cup {Nowhere} /\ s.length \in Nat
        /\ s.risk \in {"no", "may", "sure"}
        /\ Exists(s.at) \/ s.at = Nowhere
    BY DEF Good, Walked
  <1>2. NameLength \in [Name -> Nat \ {0}]
    BY TreeAssumption DEF TreeAssumption
  <1>3. \A q : Slash(q) \in {0, 1}
    BY DEF Slash
  <1>4. CASE s.at = Nowhere \/ (n = Up /\ s.at = Root)
    BY <1>4 DEF Walk
  <1>5. CASE n = Up /\ s.at # Root /\ s.at # Nowhere
    <2>1. s.at \in DOMAIN dirs
      BY <1>1, <1>5 DEF Exists
    <2> DEFINE d == dirs[s.at]
               left == s.length - NameLength[d.name] - 1
    <2>2. d.name \in Name /\ d.parent \in Place
      BY <2>1, Places
    <2>3. left \in Int
      BY <1>1, <1>2, <2>2
    <2> HIDE DEF d, left
    <2>4. Walk(s, n) = [at     |-> IF Exists(d.parent) THEN d.parent ELSE Nowhere,
                        length |-> Slash(d.parent) + IF left < 0 THEN s.length ELSE left,
                        risk   |-> IF ~Exists(d.parent) THEN "sure"
                                   ELSE IF left < 0 THEN "may" ELSE s.risk]
      BY <1>5 DEF Walk, GoUp, d, left
    <2>5. Slash(d.parent) + (IF left < 0 THEN s.length ELSE left) \in Nat
      BY <1>1, <1>3, <2>3
    <2> QED BY <1>1, <2>2, <2>4, <2>5 DEF Good, Walked
  <1>6. CASE n # Up /\ s.at # Nowhere
    <2>1. n \in Name
      BY <1>6
    <2>2. Walk(s, n) = GoDown(s, n)
      BY <1>6 DEF Walk
    <2>3. CASE DirNamed(n, s.at) = {}
      <3>1. Walk(s, n) = [s EXCEPT !.at = Nowhere]
        BY <2>2, <2>3 DEF GoDown
      <3> QED BY <1>1, <3>1 DEF Good, Walked
    <2>4. CASE DirNamed(n, s.at) # {}
      <3> DEFINE d == CHOOSE x \in DirNamed(n, s.at) : TRUE
                 l == s.length + NameLength[n] + 1 - Slash(s.at)
      <3>1. d \in DirNamed(n, s.at)
        BY <2>4
      <3>2. d \in DOMAIN dirs
        BY <3>1 DEF DirNamed, SubDirs
      <3>3. d \in Place
        BY <3>2, Places
      <3>4. l \in Nat
        BY <1>1, <1>2, <1>3, <2>1
      <3>5. Walk(s, n) = [s EXCEPT !.at = d, !.length = l]
        BY <2>2, <2>4 DEF GoDown
      <3> HIDE DEF d, l
      <3>6. Walk(s, n) \in Walked /\ Walk(s, n).at = d
        BY <1>1, <3>3, <3>4, <3>5 DEF Walked
      <3> QED BY <3>2, <3>6 DEF Good, Exists
    <2> QED BY <2>3, <2>4
  <1> QED BY <1>4, <1>5, <1>6

\* A path is resolved a step at a time.
LEMMA Resolving ==
    ASSUME NEW p \in Given
    PROVE  \E walk : /\ resolveDirPath(p) = walk[Len(p.steps)] /\ walk[0] = Start(p.abs)
                     /\ \A k \in 1 .. Len(p.steps) : /\ p.steps[k] \in Name \cup {Up}
                                                     /\ walk[k] = Walk(walk[k - 1], p.steps[k])
  <1> DEFINE n == Len(p.steps)
             Turn(g) == [k \in 0 .. n |-> IF k = 0 THEN Start(p.abs) ELSE Walk(g[k - 1], p.steps[k])]
             walk == CHOOSE g : g = Turn(g)
  <1>1. n \in Nat /\ \A k \in 1 .. n : p.steps[k] \in Name \cup {Up}
    <2>1. p.steps \in Seq(Name \cup {Up})
      BY DEF Given
    <2> QED BY <2>1, LenProperties, ElementOfSeq
  <1>2. resolveDirPath(p) = walk[n]
    BY DEF resolveDirPath
  <1> DEFINE Part(m, g) ==
               g = [k \in 0 .. m |-> IF k = 0 THEN Start(p.abs) ELSE Walk(g[k - 1], p.steps[k])]
             bad == {m \in 0 .. n : ~ \E g : Part(m, g)}
  <1>3. ASSUME bad # {} PROVE FALSE
    <2>1. PICK m \in bad : \A k \in bad : m <= k
      <3>1. bad \in SUBSET Nat
        BY <1>1
      <3> QED BY <1>3, <3>1, LeastNatural
    <2>2. m \in 0 .. n /\ m \in Nat
      BY <1>1
    <2>3. CASE m = 0
      <3> DEFINE h == [k \in 0 .. 0 |-> Start(p.abs)]
      <3>1. Part(0, h)
        OBVIOUS
      <3> QED BY <2>1, <2>3, <3>1
    <2>4. CASE m # 0
      <3>1. m - 1 \in 0 .. n /\ ~(m <= m - 1) /\ m - 1 \in Nat
        BY <1>1, <2>2, <2>4
      <3>2. m - 1 \notin bad
        BY <2>1, <3>1
      <3>3. PICK g : Part(m - 1, g)
        BY <3>1, <3>2
      <3> DEFINE h == [k \in 0 .. m |-> IF k = m THEN Walk(g[m - 1], p.steps[m]) ELSE g[k]]
      <3>4. \A k \in 0 .. m - 1 : k \in 0 .. m /\ k # m /\ h[k] = g[k]
        BY <2>2
      <3>5. \A k \in 0 .. m - 1 :
              g[k] = IF k = 0 THEN Start(p.abs) ELSE Walk(g[k - 1], p.steps[k])
        BY <3>3
      <3>6. ASSUME NEW k \in 0 .. m
            PROVE  h[k] = IF k = 0 THEN Start(p.abs) ELSE Walk(h[k - 1], p.steps[k])
        <4>1. CASE k = m
          <5>1. k - 1 \in 0 .. m - 1
            BY <2>2, <3>1, <4>1
          <5>2. h[k - 1] = g[m - 1]
            BY <3>4, <4>1, <5>1
          <5>3. h[k] = Walk(g[m - 1], p.steps[m])
            BY <4>1
          <5> QED BY <2>4, <4>1, <5>2, <5>3
        <4>2. CASE k # m
          <5>1. k \in 0 .. m - 1 /\ (k # 0 => k - 1 \in 0 .. m - 1)
            BY <2>2, <4>2
          <5> HIDE DEF h
          <5> QED BY <3>4, <3>5, <5>1
        <4> QED BY <4>1, <4>2
      <3>7. h = [k \in 0 .. m |-> h[k]]
        OBVIOUS
      <3> HIDE DEF h
      <3>8. Part(m, h)
        BY <3>6, <3>7
      <3> QED BY <2>1, <3>8
    <2> QED BY <2>3, <2>4
  <1>4. \E g : Part(n, g)
    <2>1. n \in 0 .. n
      BY <1>1
    <2> QED BY <1>3, <2>1
  <1>5. walk = Turn(walk)
    BY <1>4
  <1> HIDE DEF walk
  <1>6. \A k \in 0 .. n :
          walk[k] = IF k = 0 THEN Start(p.abs) ELSE Walk(walk[k - 1], p.steps[k])
    BY <1>5
  <1>7. walk[0] = Start(p.abs)
    <2>1. 0 \in 0 .. n
      BY <1>1
    <2> QED BY <1>6, <2>1
  <1>8. \A k \in 1 .. n : walk[k] = Walk(walk[k - 1], p.steps[k])
    <2>1. \A k \in 1 .. n : k \in 0 .. n /\ k # 0
      BY <1>1
    <2> QED BY <1>6, <2>1
  <1> QED BY <1>1, <1>2, <1>7, <1>8

\* A path leads to a place there is, or nowhere.
LEMMA Resolved ==
    ASSUME TypeOK, NEW p \in Given
    PROVE  Good(resolveDirPath(p))
  <1> DEFINE n == Len(p.steps)
  <1>1. n \in Nat
    BY LenProperties DEF Given
  <1>2. PICK walk : /\ resolveDirPath(p) = walk[n] /\ walk[0] = Start(p.abs)
                    /\ \A k \in 1 .. n : /\ p.steps[k] \in Name \cup {Up}
                                         /\ walk[k] = Walk(walk[k - 1], p.steps[k])
    BY Resolving
  <1>3. Good(Start(p.abs))
    <2>1. cwd \in Place /\ prompt \in Nat /\ Root \in Place
      BY Places DEF TypeOK
    <2> QED BY <2>1 DEF Start, Good, Walked, Exists
  <1> HIDE DEF n
  <1> DEFINE worse == {k \in 0 .. n : ~Good(walk[k])}
  <1>4. ASSUME worse # {} PROVE FALSE
    <2>1. PICK m \in worse : \A k \in worse : m <= k
      <3>1. worse \in SUBSET Nat
        BY <1>1
      <3> QED BY <1>4, <3>1, LeastNatural
    <2>2. m \in 0 .. n /\ m \in Nat /\ ~Good(walk[m])
      BY <1>1
    <2>3. m # 0
      BY <1>2, <1>3, <2>2
    <2>4. m - 1 \in 0 .. n /\ ~(m <= m - 1) /\ m \in 1 .. n
      BY <1>1, <2>2, <2>3
    <2>5. Good(walk[m - 1])
      BY <2>1, <2>4
    <2>6. walk[m] = Walk(walk[m - 1], p.steps[m]) /\ p.steps[m] \in Name \cup {Up}
      BY <1>2, <2>4
    <2>7. Good(Walk(walk[m - 1], p.steps[m]))
      BY <2>5, <2>6, WalkStep
    <2> QED BY <2>2, <2>6, <2>7
  <1>5. n \in 0 .. n
    BY <1>1
  <1> QED BY <1>2, <1>4, <1>5

\* The same of the directory part of a path; the file at a path is there.
LEMMA PathsGiven ==
    ASSUME TypeOK, NEW p \in Path
    PROVE  /\ p \in Given /\ DirPart(p) \in Given
           /\ Good(resolveDirPath(p)) /\ Good(resolveDirPath(DirPart(p)))
           /\ resolveFilePath(p) \subseteq DOMAIN files
  <1>1. p \in Given
    BY TreeAssumption DEF TreeAssumption, Given
  <1>2. DirPart(p) \in Given
    <2>1. CASE p.steps = <<>>
      BY <1>1, <2>1 DEF DirPart
    <2>2. CASE p.steps # <<>>
      <3> DEFINE t == p.steps
      <3>1. t \in Seq(Name \cup {Up}) /\ t # <<>>
        BY <1>1, <2>2 DEF Given
      <3>2. Front(t) \in Seq(Name \cup {Up})
        <4>1. Len(t) \in Nat /\ \A k \in 1 .. Len(t) : t[k] \in Name \cup {Up}
          BY <3>1, LenProperties, ElementOfSeq
        <4>2. Len(t) - 1 \in Int /\ 1 \in Int /\ \A k \in 1 .. Len(t) - 1 : t[k] \in Name \cup {Up}
          BY <4>1
        <4> QED BY <4>2, SubSeqProperties DEF Front
      <3> HIDE DEF t
      <3>3. DirPart(p) = [p EXCEPT !.steps = Front(t)]
        BY <2>2 DEF DirPart, t
      <3> QED BY <1>1, <3>2, <3>3 DEF Given
    <2> QED BY <2>1, <2>2
  <1>3. resolveFilePath(p) \subseteq DOMAIN files
    BY DEF resolveFilePath, FileNamed, FilesIn
  <1> QED BY <1>1, <1>2, <1>3, Resolved

----------------------------------------------------------------------------
\* A collection whose documents have identities up to b.
Docs(docs, b) == docs \in [DOMAIN docs -> Doc] /\ DOMAIN docs \subseteq 1 .. b

\* A document is written, or removed.
LEMMA Written ==
    ASSUME NEW b \in Nat, NEW c \in Nat, b <= c, NEW docs, Docs(docs, b),
           NEW i \in 1 .. c, NEW doc \in Doc
    PROVE  Docs(With(docs, i, doc), c)
  <1>1. docs \in [DOMAIN docs -> Doc] /\ DOMAIN docs \subseteq 1 .. b /\ 1 .. b \subseteq 1 .. c
    BY DEF Docs
  <1> QED BY <1>1 DEF Docs, With
LEMMA Erased ==
    ASSUME NEW b, NEW docs, Docs(docs, b), NEW i
    PROVE  /\ Docs(Without(docs, i), b) /\ DOMAIN Without(docs, i) = DOMAIN docs \ {i}
           /\ \A j \in DOMAIN docs \ {i} : Without(docs, i)[j] = docs[j]
  BY DEF Docs, Without

\* The types in groups: of the collections, of the console, of a removal, of MaRTA.
DocTypes ==
    /\ dborn \in 0 .. MaxDirs /\ fborn \in 0 .. MaxFiles
    /\ Docs(dirs, dborn) /\ Docs(files, fborn)
ConsoleTypes ==
    /\ cwd \in Place /\ prompt \in Nat
    /\ cpc \in {"idle", "mkdir", "store", "format"} /\ cnew \in Doc
    /\ crashed \in BOOLEAN /\ stale \in BOOLEAN
RmTypes == stack \in Seq(Frame) /\ doomed \subseteq Place /\ mark \in 0 .. MaxFiles
MartaTypes == mpc \in {"idle", "walk", "save"} /\ mdir \in Place /\ mpath \in Seq(Name)
LEMMA Types == TypeOK <=> DocTypes /\ ConsoleTypes /\ RmTypes /\ MartaTypes
  BY DEF TypeOK, DocTypes, ConsoleTypes, RmTypes, MartaTypes, Docs

\* No document, and none yet.
LEMMA NoDocIsDoc == NoDoc \in Doc
  <1>1. Root \in Place
    BY DEF Place
  <1>2. (CHOOSE n \in Name : TRUE) \in Name
    BY TreeAssumption DEF TreeAssumption
  <1> QED BY <1>1, <1>2 DEF NoDoc, Doc

\* A directory or a file is saved.
LEMMA DirSaved ==
    ASSUME DocTypes, NEW n \in Name, NEW q \in Place, mongo_dir_save(n, q)
    PROVE  /\ dborn' \in 0 .. MaxDirs /\ Docs(dirs', dborn')
           /\ dirs' = dirs \/ (/\ DOMAIN dirs' = DOMAIN dirs \cup {dborn + 1} /\ dborn + 1 \notin DOMAIN dirs
                               /\ \A d \in DOMAIN dirs : dirs'[d] = dirs[d])
  <1>1. dborn \in 0 .. MaxDirs /\ Docs(dirs, dborn) /\ MaxDirs \in Nat
    BY TreeAssumption DEF TreeAssumption, DocTypes
  <1>2. dborn \in Nat
    BY <1>1
  <1>3. CASE DirNamed(n, q) # {}
    BY <1>1, <1>3 DEF mongo_dir_save, dirVars
  <1>4. CASE DirNamed(n, q) = {}
    <2> DEFINE d == dborn + 1
               doc == [name |-> n, parent |-> q]
    <2>1. d \in Dir /\ dborn' = d /\ dirs' = With(dirs, d, doc)
      BY <1>4 DEF mongo_dir_save
    <2>2. doc \in Doc
      BY DEF Doc
    <2>3. d \in 1 .. d /\ dborn <= d /\ d \in Nat /\ d \in 0 .. MaxDirs /\ d \notin 1 .. dborn
      BY <1>1, <1>2, <2>1 DEF Dir
    <2> HIDE DEF d, doc
    <2>4. Docs(With(dirs, d, doc), d)
      BY <1>1, <1>2, <2>2, <2>3, Written
    <2>5. DOMAIN With(dirs, d, doc) = DOMAIN dirs \cup {d}
          /\ \A e \in DOMAIN dirs \ {d} : With(dirs, d, doc)[e] = dirs[e]
      BY DEF With
    <2>6. d \notin DOMAIN dirs
      BY <1>1, <2>3 DEF Docs
    <2> QED BY <2>1, <2>3, <2>4, <2>5, <2>6 DEF d
  <1> QED BY <1>3, <1>4
LEMMA FileSaved ==
    ASSUME DocTypes, NEW n \in Name, NEW q \in Place, mongo_file_save(n, q) \/ UNCHANGED fileVars
    PROVE  /\ fborn' \in 0 .. MaxFiles /\ fborn <= fborn' /\ Docs(files', fborn')
           /\ files' = files \/ (/\ DOMAIN files' = DOMAIN files \cup {fborn + 1}
                                 /\ fborn + 1 \notin DOMAIN files
                                 /\ \A f \in DOMAIN files : files'[f] = files[f])
  <1>1. fborn \in 0 .. MaxFiles /\ Docs(files, fborn) /\ MaxFiles \in Nat
    BY TreeAssumption DEF TreeAssumption, DocTypes
  <1>2. fborn \in Nat
    BY <1>1
  <1>3. CASE FileNamed(n, q) # {} \/ UNCHANGED fileVars
    BY <1>1, <1>2, <1>3 DEF mongo_file_save, fileVars
  <1>4. CASE FileNamed(n, q) = {} /\ mongo_file_save(n, q)
    <2> DEFINE f == fborn + 1
               doc == [name |-> n, parent |-> q]
    <2>1. f \in File /\ fborn' = f /\ files' = With(files, f, doc)
      BY <1>4 DEF mongo_file_save
    <2>2. doc \in Doc
      BY DEF Doc
    <2>3. f \in 1 .. f /\ fborn <= f /\ f \in Nat /\ f \in 0 .. MaxFiles /\ f \notin 1 .. fborn
      BY <1>1, <1>2, <2>1 DEF File
    <2> HIDE DEF f, doc
    <2>4. Docs(With(files, f, doc), f)
      BY <1>1, <1>2, <2>2, <2>3, Written
    <2>5. DOMAIN With(files, f, doc) = DOMAIN files \cup {f}
          /\ \A e \in DOMAIN files \ {f} : With(files, f, doc)[e] = files[e]
      BY DEF With
    <2>6. f \notin DOMAIN files
      BY <1>1, <2>3 DEF Docs
    <2> QED BY <2>1, <2>3, <2>4, <2>5, <2>6 DEF f
  <1> QED BY <1>3, <1>4

\* mv and rename write one document, or none.
OneWritten(docs, new) ==
    \E i \in DOMAIN docs, doc \in Doc : new = With(docs, i, doc)
LEMMA Renamed ==
    ASSUME TypeOK,
           \/ \E p, dest \in Path : moveResource(p, dest)
           \/ \E p \in Path, n \in Name : renameResource(p, n)
    PROVE  /\ cpc = "idle" /\ stack = <<>>
           /\ UNCHANGED <<dborn, fborn, cwd, prompt, cpc, cnew, rmVars, martaVars, crashed>>
           /\ stale' \in BOOLEAN
           /\ \/ UNCHANGED <<dirs, files>>
              \/ UNCHANGED files /\ OneWritten(dirs, dirs')
              \/ UNCHANGED dirs /\ OneWritten(files, files')
  <1>1. stale \in BOOLEAN
    BY DEF TypeOK
  <1>2. ASSUME NEW d \in DOMAIN dirs, NEW n \in Name, NEW q \in Place, SetDir(d, n, q)
        PROVE  /\ stale' \in BOOLEAN /\ UNCHANGED <<dborn, files, fborn>>
               /\ UNCHANGED dirs \/ OneWritten(dirs, dirs')
    <2>1. [name |-> n, parent |-> q] \in Doc
      BY DEF Doc
    <2> QED BY <1>1, <1>2, <2>1 DEF SetDir, OneWritten, fileVars
  <1>3. ASSUME NEW f \in DOMAIN files, NEW n \in Name, NEW q \in Place, SetFile(f, n, q)
        PROVE  /\ stale' \in BOOLEAN /\ UNCHANGED <<fborn, dirs, dborn>>
               /\ UNCHANGED files \/ OneWritten(files, files')
    <2>1. [name |-> n, parent |-> q] \in Doc
      BY DEF Doc
    <2> QED BY <1>1, <1>3, <2>1 DEF SetFile, OneWritten, dirVars
  <1>4. ASSUME NEW p \in Path, NEW dest \in Path, moveResource(p, dest)
        PROVE  /\ stale' \in BOOLEAN /\ UNCHANGED <<dborn, fborn>>
               /\ \/ UNCHANGED <<dirs, files>>
                  \/ UNCHANGED files /\ OneWritten(dirs, dirs')
                  \/ UNCHANGED dirs /\ OneWritten(files, files')
    <2> DEFINE q == resolveDirPath(dest).at
               d == resolveDirPath(p).at
    <2>1. /\ q # Nowhere
          /\ IF d = Root THEN UNCHANGED <<dirVars, fileVars, stale>>
             ELSE IF d # Nowhere THEN SetDir(d, dirs[d].name, q)
             ELSE \E f \in resolveFilePath(p) : SetFile(f, files[f].name, q)
      BY <1>4 DEF moveResource
    <2>2. /\ Exists(q) \/ q = Nowhere
          /\ Exists(d) \/ d = Nowhere
          /\ resolveFilePath(p) \subseteq DOMAIN files
      BY PathsGiven DEF Good
    <2> HIDE DEF q, d
    <2>3. q \in Place
      BY <2>1, <2>2, Places
    <2>4. CASE d = Root
      BY <1>1, <2>1, <2>4 DEF dirVars, fileVars
    <2>5. CASE d # Root /\ d # Nowhere
      <3>1. d \in DOMAIN dirs /\ dirs[d].name \in Name
        BY <2>2, <2>5, Places DEF Exists
      <3> QED BY <1>2, <2>1, <2>3, <2>5, <3>1
    <2>6. CASE d = Nowhere
      <3>1. PICK f \in DOMAIN files : SetFile(f, files[f].name, q)
        BY <2>1, <2>2, <2>6 DEF Root, Nowhere
      <3>2. files[f].name \in Name
        BY Places
      <3> QED BY <1>3, <2>3, <3>1, <3>2
    <2> QED BY <2>4, <2>5, <2>6
  <1>5. ASSUME NEW p \in Path, NEW n \in Name, renameResource(p, n)
        PROVE  /\ stale' \in BOOLEAN /\ UNCHANGED <<dborn, fborn>>
               /\ \/ UNCHANGED <<dirs, files>>
                  \/ UNCHANGED files /\ OneWritten(dirs, dirs')
                  \/ UNCHANGED dirs /\ OneWritten(files, files')
    <2> DEFINE d == resolveDirPath(p).at
    <2>1. IF d = Root THEN UNCHANGED <<dirVars, fileVars, stale>>
          ELSE IF d # Nowhere THEN SetDir(d, n, dirs[d].parent)
          ELSE \E f \in resolveFilePath(p) : SetFile(f, n, files[f].parent)
      BY <1>5 DEF renameResource
    <2>2. /\ Exists(d) \/ d = Nowhere
          /\ resolveFilePath(p) \subseteq DOMAIN files
      BY PathsGiven DEF Good
    <2> HIDE DEF d
    <2>4. CASE d = Root
      BY <1>1, <2>1, <2>4 DEF dirVars, fileVars
    <2>5. CASE d # Root /\ d # Nowhere
      <3>1. d \in DOMAIN dirs /\ dirs[d].parent \in Place
        BY <2>2, <2>5, Places DEF Exists
      <3> QED BY <1>2, <2>1, <2>5, <3>1
    <2>6. CASE d = Nowhere
      <3>1. PICK f \in DOMAIN files : SetFile(f, n, files[f].parent)
        BY <2>1, <2>2, <2>6 DEF Root, Nowhere
      <3>2. files[f].parent \in Place
        BY Places
      <3> QED BY <1>3, <3>1, <3>2
    <2> QED BY <2>4, <2>5, <2>6
  <1>6. /\ cpc = "idle" /\ stack = <<>>
        /\ UNCHANGED <<cwd, prompt, cpc, cnew, rmVars, martaVars, crashed>>
    BY DEF moveResource, renameResource, Resolves
  <1> QED BY <1>4, <1>5, <1>6

----------------------------------------------------------------------------
\* The frames of a removal.
LEMMA FrameTypes ==
    ASSUME TypeOK
    PROVE  /\ Len(stack) \in Nat /\ DOMAIN stack = 1 .. Len(stack)
           /\ \A i \in 1 .. Len(stack) :
                /\ stack[i] \in Frame /\ stack[i].dir \in Place /\ stack[i].stage \in {"files", "dirs"}
                /\ stack[i].files \subseteq File /\ stack[i].dirs \subseteq Dir
           /\ stack # <<>> => Len(stack) \in 1 .. Len(stack) /\ 1 \in 1 .. Len(stack)
  <1>1. stack \in Seq(Frame)
    BY DEF TypeOK
  <1>2. Len(stack) \in Nat /\ DOMAIN stack = 1 .. Len(stack)
    BY <1>1, LenProperties
  <1>3. \A i \in 1 .. Len(stack) : stack[i] \in Frame
    BY <1>1, ElementOfSeq
  <1>4. stack # <<>> => Len(stack) # 0
    BY <1>1, EmptySeq
  <1>5. stack # <<>> => Len(stack) \in 1 .. Len(stack) /\ 1 \in 1 .. Len(stack)
    BY <1>2, <1>4
  <1> QED BY <1>2, <1>3, <1>5 DEF Frame

\* The last frame changes, one is added, the last is taken away.
LEMMA StackChanges ==
    ASSUME stack \in Seq(Frame), stack # <<>>
    PROVE  /\ \A c \in Frame : SetFrame(c) =>
                /\ stack' \in Seq(Frame) /\ Len(stack') = Len(stack)
                /\ stack'[Len(stack)] = c
                /\ \A i \in 1 .. Len(stack) : i # Len(stack) => stack'[i] = stack[i]
           /\ \A b, c \in Frame :
                LET s == Append([stack EXCEPT ![Len(stack)] = b], c)
                IN  /\ s \in Seq(Frame) /\ Len(s) = Len(stack) + 1
                    /\ s[Len(stack) + 1] = c /\ s[Len(stack)] = b
                    /\ \A i \in 1 .. Len(stack) : i # Len(stack) => s[i] = stack[i]
           /\ Front(stack) \in Seq(Frame) /\ Len(Front(stack)) = Len(stack) - 1
           /\ \A i \in 1 .. Len(stack) - 1 : Front(stack)[i] = stack[i]
  <1> DEFINE n == Len(stack)
  <1>1. n \in Nat /\ n \in 1 .. n
    BY EmptySeq
  <1>2. ASSUME NEW b \in Frame
        PROVE  LET s == [stack EXCEPT ![n] = b]
               IN  /\ s \in Seq(Frame) /\ Len(s) = n /\ s[n] = b
                   /\ \A i \in 1 .. n : i # n => s[i] = stack[i]
    <2>1. /\ [stack EXCEPT ![n] = b] \in Seq(Frame) /\ Len([stack EXCEPT ![n] = b]) = n
          /\ \A j \in 1 .. n : [stack EXCEPT ![n] = b][j] = IF j = n THEN b ELSE stack[j]
      BY <1>1, ExceptSeq
    <2> QED BY <1>1, <2>1
  <1>3. ASSUME NEW b \in Frame, NEW c \in Frame
        PROVE  LET s == Append([stack EXCEPT ![n] = b], c)
               IN  /\ s \in Seq(Frame) /\ Len(s) = n + 1 /\ s[n + 1] = c /\ s[n] = b
                   /\ \A i \in 1 .. n : i # n => s[i] = stack[i]
    <2> DEFINE r == [stack EXCEPT ![n] = b]
    <2>1. r \in Seq(Frame) /\ Len(r) = n /\ r[n] = b /\ \A i \in 1 .. n : i # n => r[i] = stack[i]
      BY <1>2
    <2> HIDE DEF r
    <2>2. /\ Append(r, c) \in Seq(Frame) /\ Len(Append(r, c)) = n + 1
          /\ \A i \in 1 .. n : Append(r, c)[i] = r[i]
          /\ Append(r, c)[n + 1] = c
      BY <2>1, AppendProperties
    <2> QED BY <1>1, <2>1, <2>2 DEF r
  <1>4. /\ Front(stack) \in Seq(Frame) /\ Len(Front(stack)) = n - 1
        /\ \A i \in 1 .. n - 1 : Front(stack)[i] = stack[i]
    <2>1. 1 \in Int /\ n - 1 \in Int /\ \A i \in 1 .. n - 1 : stack[i] \in Frame
      <3>1. \A i \in 1 .. n : stack[i] \in Frame
        BY ElementOfSeq
      <3> QED BY <1>1, <3>1
    <2>2. /\ Front(stack) \in Seq(Frame)
          /\ Len(Front(stack)) = IF 1 <= n - 1 THEN n - 1 - 1 + 1 ELSE 0
          /\ \A i \in 1 .. n - 1 - 1 + 1 : Front(stack)[i] = stack[1 + i - 1]
      <3> DEFINE r == SubSeq(stack, 1, n - 1)
      <3>1. /\ r \in Seq(Frame)
            /\ Len(r) = IF 1 <= n - 1 THEN n - 1 - 1 + 1 ELSE 0
            /\ \A i \in 1 .. n - 1 - 1 + 1 : r[i] = stack[1 + i - 1]
        BY <2>1, SubSeqProperties
      <3>2. Front(stack) = r
        BY DEF Front
      <3> HIDE DEF r
      <3> QED BY <3>1, <3>2
    <2>3. Len(Front(stack)) = n - 1
      <3>1. (IF 1 <= n - 1 THEN n - 1 - 1 + 1 ELSE 0) = n - 1
        <4> HIDE DEF n
        <4> QED BY <1>1
      <3> QED BY <2>2, <3>1
    <2>4. \A i \in 1 .. n - 1 : i \in 1 .. n - 1 - 1 + 1 /\ 1 + i - 1 = i
      BY <1>1
    <2> QED BY <2>2, <2>3, <2>4
  <1> QED BY <1>2, <1>3, <1>4 DEF SetFrame

----------------------------------------------------------------------------
LEMMA TypesAfter == DocTypes' /\ ConsoleTypes' /\ RmTypes' /\ MartaTypes' => TypeOK'
  BY DEF TypeOK, DocTypes, ConsoleTypes, RmTypes, MartaTypes, Docs

\* What is not changed keeps its type.
LEMMA TypesKept ==
    ASSUME DocTypes, ConsoleTypes, RmTypes, MartaTypes
    PROVE  /\ UNCHANGED <<dirVars, fileVars>> => DocTypes'
           /\ UNCHANGED <<cwdVars, cpc, cnew, crashed>> => ConsoleTypes'
           /\ UNCHANGED rmVars => RmTypes'
           /\ UNCHANGED martaVars => MartaTypes'
  <1>1. UNCHANGED <<dirVars, fileVars>> => DocTypes'
    BY DEF DocTypes, dirVars, fileVars, Docs
  <1>2. UNCHANGED <<cwdVars, cpc, cnew, crashed>> => ConsoleTypes'
    BY DEF ConsoleTypes, cwdVars
  <1>3. UNCHANGED rmVars => RmTypes'
    BY DEF RmTypes, rmVars
  <1>4. UNCHANGED martaVars => MartaTypes'
    BY DEF MartaTypes, martaVars
  <1> QED BY <1>1, <1>2, <1>3, <1>4

LEMMA ConsoleStepTypes ==
    ASSUME TypeOK, Console
    PROVE  TypeOK'
  <1>1. DocTypes /\ ConsoleTypes /\ RmTypes /\ MartaTypes
    BY Types
  <1>2. NoDoc \in Doc /\ Root \in Place
    BY NoDocIsDoc DEF Place
  <1>3. ASSUME NEW p \in Path, CrashOnPath(p) PROVE TypeOK'
    <2>1. ConsoleTypes'
      BY <1>1, <1>3 DEF CrashOnPath, ConsoleTypes, cwdVars
    <2>2. UNCHANGED <<dirVars, fileVars, rmVars, martaVars>>
      BY <1>3 DEF CrashOnPath
    <2> QED BY <1>1, <2>1, <2>2, TypesKept, TypesAfter
  <1>4. ASSUME NEW p \in Path, changeDir(p) PROVE TypeOK'
    <2>1. Good(resolveDirPath(p))
      BY PathsGiven
    <2>2. cwd' \in Place /\ prompt' \in Nat
      <3>1. /\ resolveDirPath(p).at # Nowhere
            /\ cwd' = resolveDirPath(p).at /\ prompt' = resolveDirPath(p).length
        BY <1>4 DEF changeDir
      <3> QED BY <2>1, <3>1 DEF Good, Walked
    <2>3. UNCHANGED <<dirVars, fileVars, cpc, cnew, rmVars, martaVars, crashed>> /\ stale' \in BOOLEAN
      BY <1>4 DEF changeDir
    <2>4. ConsoleTypes'
      BY <1>1, <2>2, <2>3 DEF ConsoleTypes
    <2> QED BY <1>1, <2>3, <2>4, TypesKept, TypesAfter
  <1>5. ASSUME \/ \E p, dest \in Path : moveResource(p, dest)
               \/ \E p \in Path, n \in Name : renameResource(p, n)
        PROVE  TypeOK'
    <2>1. /\ UNCHANGED <<dborn, fborn, cwd, prompt, cpc, cnew, rmVars, martaVars, crashed>>
          /\ stale' \in BOOLEAN
          /\ UNCHANGED dirs \/ OneWritten(dirs, dirs')
          /\ UNCHANGED files \/ OneWritten(files, files')
      BY <1>5, Renamed
    <2>2. ConsoleTypes'
      BY <1>1, <2>1 DEF ConsoleTypes
    <2>3. dborn \in Nat /\ fborn \in Nat
      BY Places
    <2>4. ASSUME NEW docs, NEW new, NEW b \in Nat, Docs(docs, b), new = docs \/ OneWritten(docs, new)
          PROVE  Docs(new, b)
      <3>1. SUFFICES ASSUME NEW i \in DOMAIN docs, NEW doc \in Doc, new = With(docs, i, doc)
                     PROVE  Docs(new, b)
        BY <2>4 DEF OneWritten
      <3>2. i \in 1 .. b /\ b <= b
        BY <2>4 DEF Docs
      <3> QED BY <2>4, <3>1, <3>2, Written
    <2>5. Docs(dirs', dborn) /\ Docs(files', fborn)
      BY <1>1, <2>1, <2>3, <2>4 DEF DocTypes
    <2>6. DocTypes'
      BY <1>1, <2>1, <2>5 DEF DocTypes
    <2> QED BY <1>1, <2>1, <2>2, <2>6, TypesKept, TypesAfter
  <1>6. ASSUME NEW p \in Path, deleteFile(p) PROVE TypeOK'
    <2>1. /\ \E f \in resolveFilePath(p) : files' = Without(files, f)
          /\ UNCHANGED <<fborn, dirVars, cwdVars, cpc, cnew, rmVars, martaVars, crashed>>
      BY <1>6 DEF deleteFile
    <2>2. PICK f : files' = Without(files, f)
      BY <2>1
    <2>4. Docs(files, fborn)
      BY <1>1 DEF DocTypes
    <2>5. Docs(files', fborn)
      BY <2>2, <2>4, Erased
    <2>3. DocTypes'
      BY <1>1, <2>1, <2>5 DEF DocTypes, dirVars
    <2> QED BY <1>1, <2>1, <2>3, TypesKept, TypesAfter
  <1>7. ASSUME NEW p \in Path, deleteDir(p) PROVE TypeOK'
    <2> DEFINE d == resolveDirPath(p).at
    <2>1. /\ d # Nowhere /\ stack' = <<Call(d)>> /\ doomed' = Under(d) /\ mark' = fborn
          /\ UNCHANGED <<dirVars, fileVars, cwdVars, cpc, cnew, martaVars, crashed>>
      BY <1>7 DEF deleteDir
    <2>2. d \in Place
      BY <2>1, PathsGiven DEF Good, Walked
    <2> HIDE DEF d
    <2>3. Call(d) \in Frame
      <3>1. FilesIn(d) \subseteq File
        BY Places DEF FilesIn
      <3> QED BY <2>2, <3>1 DEF Call, Frame
    <2>4. <<Call(d)>> \in Seq(Frame)
      BY <2>3
    <2>5. Under(d) \subseteq Place
      BY DEF Under
    <2>6. RmTypes'
      BY <1>1, <2>1, <2>4, <2>5 DEF RmTypes, DocTypes
    <2> QED BY <1>1, <2>1, <2>6, TypesKept, TypesAfter
  <1>8. ASSUME NEW p \in Path, NEW n \in Name, copyFile(n, p) PROVE TypeOK'
    <2> DEFINE q == resolveDirPath(p).at
               folder == resolveDirPath(DirPart(p)).at
    <2>1. /\ \/ q # Nowhere /\ cnew' = [name |-> n, parent |-> q]
             \/ /\ Last(p.steps) \in Name
                /\ \/ cnew' = [name |-> Last(p.steps), parent |-> cwd]
                   \/ folder # Nowhere /\ cnew' = [name |-> Last(p.steps), parent |-> folder]
          /\ cpc' = "store"
          /\ UNCHANGED <<dirVars, fileVars, cwdVars, rmVars, martaVars, crashed>>
      BY <1>8 DEF copyFile
    <2>2. q \in Place \cup {Nowhere} /\ folder \in Place \cup {Nowhere} /\ cwd \in Place
      BY <1>1, PathsGiven DEF Good, Walked, ConsoleTypes
    <2> HIDE DEF q, folder
    <2>3. cnew' \in Doc
      BY <2>1, <2>2 DEF Doc
    <2>4. ConsoleTypes'
      BY <1>1, <2>1, <2>3 DEF ConsoleTypes, cwdVars
    <2> QED BY <1>1, <2>1, <2>4, TypesKept, TypesAfter
  <1>9. ASSUME NEW n \in Name, makeDir(n) PROVE TypeOK'
    <2>1. /\ cpc' = "mkdir" /\ cnew' = [name |-> n, parent |-> cwd]
          /\ UNCHANGED <<dirVars, fileVars, cwdVars, rmVars, martaVars, crashed>>
      BY <1>9 DEF makeDir
    <2>2. ConsoleTypes'
      BY <1>1, <2>1 DEF ConsoleTypes, cwdVars, Doc
    <2> QED BY <1>1, <2>1, <2>2, TypesKept, TypesAfter
  <1>10. CASE SaveNewDir
    <2>1. /\ mongo_dir_save(cnew.name, cnew.parent) /\ cpc' = "idle" /\ cnew' = NoDoc
          /\ UNCHANGED <<fileVars, cwdVars, rmVars, martaVars, crashed>>
      BY <1>10 DEF SaveNewDir
    <2>2. cnew.name \in Name /\ cnew.parent \in Place
      BY <1>1 DEF ConsoleTypes, Doc
    <2>3. dborn' \in 0 .. MaxDirs /\ Docs(dirs', dborn')
      BY <1>1, <2>1, <2>2, DirSaved
    <2>4. DocTypes'
      BY <1>1, <2>1, <2>3 DEF DocTypes, fileVars
    <2>5. ConsoleTypes'
      BY <1>1, <1>2, <2>1 DEF ConsoleTypes, cwdVars
    <2> QED BY <1>1, <2>1, <2>4, <2>5, TypesKept, TypesAfter
  <1>11. CASE SaveNewFile
    <2>1. /\ mongo_file_save(cnew.name, cnew.parent) \/ UNCHANGED fileVars
          /\ cpc' = "idle" /\ cnew' = NoDoc
          /\ UNCHANGED <<dirVars, cwdVars, rmVars, martaVars, crashed>>
      BY <1>11 DEF SaveNewFile
    <2>2. cnew.name \in Name /\ cnew.parent \in Place
      BY <1>1 DEF ConsoleTypes, Doc
    <2>3. fborn' \in 0 .. MaxFiles /\ Docs(files', fborn')
      BY <1>1, <2>1, <2>2, FileSaved
    <2>4. DocTypes'
      BY <1>1, <2>1, <2>3 DEF DocTypes, dirVars
    <2>5. ConsoleTypes'
      BY <1>1, <1>2, <2>1 DEF ConsoleTypes, cwdVars
    <2> QED BY <1>1, <2>1, <2>4, <2>5, TypesKept, TypesAfter
  <1>12. CASE format
    <2>1. /\ cpc' = "format" /\ dirs' = <<>>
          /\ UNCHANGED <<dborn, fileVars, cwdVars, cnew, rmVars, martaVars, crashed>>
      BY <1>12 DEF format
    <2>2. Docs(<<>>, dborn)
      BY DEF Docs
    <2>3. DocTypes'
      BY <1>1, <2>1, <2>2 DEF DocTypes, fileVars
    <2>4. ConsoleTypes'
      BY <1>1, <2>1 DEF ConsoleTypes, cwdVars
    <2> QED BY <1>1, <2>1, <2>3, <2>4, TypesKept, TypesAfter
  <1>13. CASE FormatFiles
    <2>1. /\ cpc' = "idle" /\ files' = <<>> /\ cwd' = Root /\ prompt' = 1 /\ stale' = FALSE
          /\ UNCHANGED <<fborn, dirVars, cnew, rmVars, martaVars, crashed>>
      BY <1>13 DEF FormatFiles
    <2>2. Docs(<<>>, fborn)
      BY DEF Docs
    <2>3. DocTypes'
      BY <1>1, <2>1, <2>2 DEF DocTypes, dirVars
    <2>4. ConsoleTypes'
      BY <1>1, <1>2, <2>1 DEF ConsoleTypes
    <2> QED BY <1>1, <2>1, <2>3, <2>4, TypesKept, TypesAfter
  <1> QED BY <1>3, <1>4, <1>5, <1>6, <1>7, <1>8, <1>9, <1>10, <1>11, <1>12, <1>13 DEF Console

\* The calls of a removal.
LEMMA FramesMade ==
    ASSUME TypeOK, stack # <<>>
    PROVE  /\ Frame1 \in Frame /\ Len(stack) \in DOMAIN stack
           /\ \A f : [Frame1 EXCEPT !.files = @ \ {f}] \in Frame
           /\ \A f : [Frame1 EXCEPT !.dirs = @ \ {f}] \in Frame
           /\ [Frame1 EXCEPT !.stage = "dirs", !.dirs = SubDirs(Frame1.dir)] \in Frame
           /\ \A d \in Dir : Call(d) \in Frame
  <1>1. Frame1 \in Frame /\ Len(stack) \in DOMAIN stack
    BY FrameTypes DEF Frame1
  <1>2. \A q : FilesIn(q) \subseteq File /\ SubDirs(q) \subseteq Dir
    BY Places DEF FilesIn, SubDirs
  <1>3. Dir \subseteq Place
    BY DEF Place
  <1>4. [Frame1 EXCEPT !.stage = "dirs", !.dirs = SubDirs(Frame1.dir)] \in Frame
    BY <1>1, <1>2 DEF Frame
  <1>5. \A d \in Dir : Call(d) \in Frame
    BY <1>2, <1>3 DEF Call, Frame
  <1>6. /\ \A f : [Frame1 EXCEPT !.files = @ \ {f}] \in Frame
        /\ \A f : [Frame1 EXCEPT !.dirs = @ \ {f}] \in Frame
    BY <1>1 DEF Frame
  <1> QED BY <1>1, <1>4, <1>5, <1>6

LEMMA RemovalStepTypes ==
    ASSUME TypeOK, RemoveTree
    PROVE  TypeOK'
  <1>1. DocTypes /\ ConsoleTypes /\ RmTypes /\ MartaTypes
    BY Types
  <1>2. stack # <<>> /\ stack \in Seq(Frame)
    BY <1>1 DEF RemoveTree, DeleteChildFile, ListChildDirs, DeleteChildDir, DeleteItself, Removing, RmTypes
  <1>3. \A c \in Frame : SetFrame(c) => stack' \in Seq(Frame)
    BY <1>2, StackChanges
  <1>4. CASE DeleteChildFile
    <2>1. PICK f : /\ files' = Without(files, f) /\ SetFrame([Frame1 EXCEPT !.files = @ \ {f}])
                   /\ UNCHANGED <<fborn, dirVars, doomed, mark, crashed, cwdVars, cpc, cnew, martaVars>>
      BY <1>4 DEF DeleteChildFile, Removing
    <2>2. Docs(files, fborn)
      BY <1>1 DEF DocTypes
    <2>3. Docs(files', fborn)
      BY <2>1, <2>2, Erased
    <2>4. DocTypes'
      BY <1>1, <2>1, <2>3 DEF DocTypes, dirVars
    <2>5. stack' \in Seq(Frame)
      BY <1>2, <1>3, <2>1, FramesMade
    <2>6. RmTypes'
      BY <1>1, <2>1, <2>5 DEF RmTypes
    <2> QED BY <1>1, <2>1, <2>4, <2>6, TypesKept, TypesAfter
  <1>5. CASE ListChildDirs
    <2>1. /\ SetFrame([Frame1 EXCEPT !.stage = "dirs", !.dirs = SubDirs(Frame1.dir)])
          /\ UNCHANGED <<dirVars, fileVars, doomed, mark, crashed, cwdVars, cpc, cnew, martaVars>>
      BY <1>5 DEF ListChildDirs, Removing
    <2>2. stack' \in Seq(Frame)
      BY <1>2, <1>3, <2>1, FramesMade
    <2>3. RmTypes'
      BY <1>1, <2>1, <2>2 DEF RmTypes
    <2> QED BY <1>1, <2>1, <2>3, TypesKept, TypesAfter
  <1>6. CASE DeleteChildDir
    <2>1. PICK d \in Frame1.dirs :
            \/ crashed' = TRUE /\ UNCHANGED stack
            \/ /\ stack' = Append([stack EXCEPT ![Len(stack)].dirs = @ \ {d}], Call(d))
               /\ UNCHANGED crashed
      BY <1>6 DEF DeleteChildDir
    <2>2. UNCHANGED <<dirVars, fileVars, doomed, mark, cwdVars, cpc, cnew, martaVars>>
      BY <1>6 DEF DeleteChildDir, Removing
    <2>3. d \in Dir
      BY <1>2, FramesMade DEF Frame
    <2> DEFINE b == [Frame1 EXCEPT !.dirs = @ \ {d}]
    <2>4. b \in Frame /\ Call(d) \in Frame
      BY <1>2, <2>3, FramesMade
    <2>5. [stack EXCEPT ![Len(stack)].dirs = @ \ {d}] = [stack EXCEPT ![Len(stack)] = b]
      BY DEF Frame1
    <2> HIDE DEF b
    <2>6. Append([stack EXCEPT ![Len(stack)] = b], Call(d)) \in Seq(Frame)
      BY <1>2, <2>4, StackChanges
    <2>7. stack' \in Seq(Frame)
      BY <1>2, <2>1, <2>5, <2>6
    <2>8. RmTypes'
      BY <1>1, <2>2, <2>7 DEF RmTypes
    <2>9. crashed' \in BOOLEAN
      BY <1>1, <2>1 DEF ConsoleTypes
    <2>10. ConsoleTypes'
      BY <1>1, <2>2, <2>9 DEF ConsoleTypes, cwdVars
    <2> QED BY <1>1, <2>2, <2>8, <2>10, TypesKept, TypesAfter
  <1>7. CASE DeleteItself
    <2>1. /\ dirs' = Without(dirs, Frame1.dir) /\ stack' = Front(stack)
          /\ (doomed' = {} /\ mark' = 0) \/ UNCHANGED <<doomed, mark>>
          /\ UNCHANGED <<dborn, fileVars, crashed, cwdVars, cpc, cnew, martaVars>>
      BY <1>7 DEF DeleteItself, Removing
    <2>2. Docs(dirs, dborn)
      BY <1>1 DEF DocTypes
    <2>3. Docs(dirs', dborn)
      BY <2>1, <2>2, Erased
    <2>4. DocTypes'
      BY <1>1, <2>1, <2>3 DEF DocTypes, fileVars
    <2>5. stack' \in Seq(Frame)
      BY <1>2, <2>1, StackChanges
    <2>6. 0 \in 0 .. MaxFiles
      BY Places
    <2>7. RmTypes'
      BY <1>1, <2>1, <2>5, <2>6 DEF RmTypes
    <2> QED BY <1>1, <2>1, <2>4, <2>7, TypesKept, TypesAfter
  <1> QED BY <1>4, <1>5, <1>6, <1>7 DEF RemoveTree

LEMMA ResultStepTypes ==
    ASSUME TypeOK, OnPath, Results
    PROVE  TypeOK' /\ OnPath' /\ Marta
  <1>1. DocTypes /\ ConsoleTypes /\ RmTypes /\ MartaTypes
    BY Types
  <1>2. Marta
    BY DEF Results, StartCopy, NextDir, CheckName, SaveResult
  <1>3. UNCHANGED <<dirVars, cwdVars, cpc, cnew, rmVars, crashed>>
    BY <1>2 DEF Marta
  <1>4. ConsoleTypes' /\ RmTypes'
    BY <1>1, <1>3, TypesKept
  <1>5. mpc \in {"idle", "walk", "save"} /\ mdir \in Place /\ mpath \in Seq(Name) /\ Root \in Place
    BY <1>1 DEF MartaTypes, Place
  <1>6. EndCopy => MartaTypes' /\ OnPath'
    BY <1>5 DEF EndCopy, MartaTypes, OnPath
  <1>7. ASSUME NEW r \in ResultPath, StartCopy(r) PROVE TypeOK' /\ OnPath'
    <2>1. mpc' = "walk" /\ mpath' = r /\ UNCHANGED <<mdir, fileVars>>
      BY <1>7 DEF StartCopy
    <2>2. r \in Seq(Name) /\ r # <<>>
      BY TreeAssumption DEF TreeAssumption
    <2>3. MartaTypes' /\ OnPath'
      BY <1>5, <2>1, <2>2 DEF MartaTypes, OnPath
    <2> QED BY <1>1, <1>3, <1>4, <2>1, <2>3, TypesKept, TypesAfter
  <1>8. CASE NextDir
    <2>1. /\ Len(mpath) > 1 /\ UNCHANGED fileVars
          /\ \/ EndCopy
             \/ /\ mdir' \in DirNamed(Head(mpath), mdir) /\ mpath' = Tail(mpath) /\ UNCHANGED mpc
      BY <1>8 DEF NextDir
    <2>2. \A d \in DirNamed(Head(mpath), mdir) : d \in Place
      BY Places DEF DirNamed, SubDirs
    <2>3. Tail(mpath) \in Seq(Name) /\ Tail(mpath) # <<>>
      <3>1. mpath # <<>> /\ Len(mpath) \in Nat
        BY <1>5, <2>1, LenProperties
      <3>2. Tail(mpath) \in Seq(Name) /\ Len(Tail(mpath)) = Len(mpath) - 1
        BY <1>5, <3>1, HeadTailProperties
      <3>3. Len(Tail(mpath)) # 0
        BY <2>1, <3>1, <3>2
      <3>4. Len(<<>>) = 0
        OBVIOUS
      <3> QED BY <3>2, <3>3, <3>4
    <2>4. MartaTypes' /\ OnPath'
      <3>1. CASE EndCopy
        BY <1>6, <3>1
      <3>2. CASE mdir' \in DirNamed(Head(mpath), mdir) /\ mpath' = Tail(mpath) /\ UNCHANGED mpc
        BY <1>5, <2>2, <2>3, <3>2 DEF MartaTypes, OnPath
      <3> QED BY <2>1, <3>1, <3>2
    <2> QED BY <1>1, <1>2, <1>3, <1>4, <2>1, <2>4, TypesKept, TypesAfter
  <1>9. CASE CheckName
    <2>1. /\ UNCHANGED fileVars
          /\ EndCopy \/ (mpc' = "save" /\ UNCHANGED <<mdir, mpath>>)
      BY <1>9 DEF CheckName
    <2>2. MartaTypes' /\ OnPath'
      <3>1. mpath # <<>>
        <4>1. mpc = "walk"
          BY <1>9 DEF CheckName
        <4> QED BY <4>1 DEF OnPath
      <3> QED BY <1>5, <1>6, <2>1, <3>1 DEF MartaTypes, OnPath
    <2> QED BY <1>1, <1>2, <1>3, <1>4, <2>1, <2>2, TypesKept, TypesAfter
  <1>10. CASE SaveResult
    <2>1. MartaTypes' /\ OnPath'
      BY <1>6, <1>10 DEF SaveResult
    <2>2. fborn' \in 0 .. MaxFiles /\ Docs(files', fborn')
      <3>1. mongo_file_save(Head(mpath), mdir) \/ UNCHANGED fileVars
        BY <1>10 DEF SaveResult
      <3>2. mpath # <<>>
        <4>1. mpc = "save"
          BY <1>10 DEF SaveResult
        <4> QED BY <4>1 DEF OnPath
      <3>3. Head(mpath) \in Name
        BY <1>5, <3>2, HeadTailProperties
      <3> QED BY <1>1, <1>5, <3>1, <3>3, FileSaved
    <2>3. DocTypes'
      BY <1>1, <1>3, <2>2 DEF DocTypes, dirVars
    <2> QED BY <1>2, <1>4, <2>1, <2>3, TypesAfter
  <1> QED BY <1>2, <1>7, <1>8, <1>9, <1>10 DEF Results

\* The types, with the name MaRTA's thread has still to look at.
TypeInv == TypeOK /\ OnPath

LEMMA StepTypes ==
    ASSUME TypeInv, [Next]_vars
    PROVE  TypeInv'
  <1>1. TypeOK /\ OnPath
    BY DEF TypeInv
  <1>2. CASE Console
    <2>1. UNCHANGED martaVars
      BY <1>2 DEF Console, CrashOnPath, changeDir, deleteFile, deleteDir, moveResource, renameResource,
                  copyFile, makeDir, SaveNewDir, SaveNewFile, format, FormatFiles
    <2>2. OnPath'
      BY <1>1, <2>1 DEF OnPath, martaVars
    <2> QED BY <1>1, <1>2, <2>2, ConsoleStepTypes DEF TypeInv
  <1>3. CASE RemoveTree
    <2>1. UNCHANGED martaVars
      BY <1>3 DEF RemoveTree, DeleteChildFile, ListChildDirs, DeleteChildDir, DeleteItself, Removing
    <2>2. OnPath'
      BY <1>1, <2>1 DEF OnPath, martaVars
    <2> QED BY <1>1, <1>3, <2>2, RemovalStepTypes DEF TypeInv
  <1>4. CASE Results
    BY <1>1, <1>4, ResultStepTypes DEF TypeInv
  <1>5. CASE UNCHANGED vars
    <2>1. UNCHANGED <<dirVars, fileVars, cwdVars, cpc, cnew, rmVars, martaVars, crashed>>
      BY <1>5 DEF vars
    <2>2. OnPath'
      BY <1>1, <2>1 DEF OnPath, martaVars
    <2> QED BY <1>1, <2>1, <2>2, Types, TypesKept, TypesAfter DEF TypeInv
  <1> QED BY <1>2, <1>3, <1>4, <1>5 DEF Next, Crashed

LEMMA InitTypes ==
    ASSUME Init
    PROVE  TypeInv
  <1>1. /\ dirs = <<>> /\ files = <<>> /\ dborn = 0 /\ fborn = 0
        /\ stack = <<>> /\ doomed = {} /\ mark = 0 /\ mpath = <<>>
    BY DEF Init
  <1>2. Root \in Place /\ NoDoc \in Doc /\ MaxDirs \in Nat /\ MaxFiles \in Nat
    BY NoDocIsDoc, TreeAssumption DEF Place, TreeAssumption
  <1>3. DocTypes
    BY <1>1, <1>2 DEF DocTypes, Docs
  <1>4. ConsoleTypes
    BY <1>2 DEF Init, ConsoleTypes
  <1>5. RmTypes
    BY <1>1, <1>2 DEF RmTypes
  <1>6. MartaTypes /\ OnPath
    BY <1>1, <1>2 DEF Init, MartaTypes, OnPath
  <1> QED BY <1>3, <1>4, <1>5, <1>6, Types DEF TypeInv

\* Every variable has its type in every state: no document refers to an identity that
\* was not handed out, no call removes what is not a place, and MaRTA's thread never
\* asks for the name of an empty path.
THEOREM TypeCorrect == Spec => []TypeOK
  <1>1. Init => TypeInv
    BY InitTypes
  <1>2. TypeInv /\ [Next]_vars => TypeInv'
    BY StepTypes
  <1>3. TypeInv => TypeOK
    BY DEF TypeInv
  <1> QED BY <1>1, <1>2, <1>3, PTL DEF Spec

----------------------------------------------------------------------------
\* What is under a place, in a collection of directories; and such a collection.
Inside(D, q) ==
    {d \in Place : \A S \in SUBSET Place :
        (q \in S /\ \A e \in DOMAIN D : D[e].parent \in S => e \in S) => d \in S}
Folders(D) == DOMAIN D \subseteq Place /\ \A d \in DOMAIN D : D[d].parent \in Place
Closed(D, S) == \A e \in DOMAIN D : D[e].parent \in S => e \in S

\* The least set that has the place and is closed.
LEMMA Least ==
    ASSUME NEW D, Folders(D), NEW q \in Place
    PROVE  /\ q \in Inside(D, q) /\ Inside(D, q) \subseteq Place /\ Closed(D, Inside(D, q))
           /\ \A S \in SUBSET Place : q \in S /\ Closed(D, S) => Inside(D, q) \subseteq S
  <1>1. /\ q \in Inside(D, q) /\ Inside(D, q) \subseteq Place
        /\ \A S \in SUBSET Place : q \in S /\ Closed(D, S) => Inside(D, q) \subseteq S
    BY DEF Inside, Closed
  <1>2. ASSUME NEW e \in DOMAIN D, D[e].parent \in Inside(D, q)
        PROVE  e \in Inside(D, q)
    <2>1. e \in Place
      BY DEF Folders
    <2>2. ASSUME NEW S \in SUBSET Place, q \in S, Closed(D, S)
          PROVE  e \in S
      <3>1. D[e].parent \in S
        BY <1>1, <1>2, <2>2
      <3> QED BY <2>2, <3>1 DEF Closed
    <2> QED BY <2>1, <2>2 DEF Inside, Closed
  <1> QED BY <1>1, <1>2 DEF Closed

\* What is under a place and is not the place has its parent there, and no set without
\* the place holds all the parents of its own.
LEMMA Rooted ==
    ASSUME NEW D, Folders(D), NEW q \in Place
    PROVE  /\ Inside(D, q) \subseteq {q} \cup DOMAIN D
           /\ \A d \in Inside(D, q) : d # q => D[d].parent \in Inside(D, q)
           /\ \A S \in SUBSET (DOMAIN D \cap Inside(D, q)) :
                S # {} /\ q \notin S => \E d \in S : D[d].parent \notin S
  <1> DEFINE U == Inside(D, q)
  <1>1. /\ q \in U /\ U \subseteq Place /\ Closed(D, U)
        /\ \A S \in SUBSET Place : q \in S /\ Closed(D, S) => U \subseteq S
    BY Least
  <1> HIDE DEF U
  <1>2. U \subseteq {q} \cup DOMAIN D
    <2> DEFINE T == {q} \cup DOMAIN D
    <2>1. T \in SUBSET Place /\ q \in T /\ Closed(D, T)
      BY DEF Folders, Closed
    <2> HIDE DEF T
    <2>2. U \subseteq T
      BY <1>1, <2>1
    <2> QED BY <2>2 DEF T
  <1>3. ASSUME NEW d \in U, d # q PROVE D[d].parent \in U
    <2> DEFINE T == U \ {d}
    <2>1. SUFFICES ASSUME D[d].parent \notin U PROVE FALSE
      OBVIOUS
    <2>2. T \in SUBSET Place /\ q \in T
      BY <1>1, <1>3
    <2>3. Closed(D, T)
      BY <1>1, <2>1 DEF Closed
    <2> HIDE DEF T
    <2>4. U \subseteq T
      BY <1>1, <2>2, <2>3
    <2> QED BY <2>4 DEF T
  <1>4. ASSUME NEW S \in SUBSET (DOMAIN D \cap U), S # {}, q \notin S
        PROVE  \E d \in S : D[d].parent \notin S
    <2> DEFINE T == U \ S
    <2>1. SUFFICES ASSUME \A d \in S : D[d].parent \in S PROVE FALSE
      OBVIOUS
    <2>2. T \in SUBSET Place /\ q \in T
      BY <1>1, <1>4
    <2>3. Closed(D, T)
      <3>1. ASSUME NEW e \in DOMAIN D, D[e].parent \in T PROVE e \in T
        BY <1>1, <2>1, <3>1 DEF Closed
      <3> QED BY <3>1 DEF Closed
    <2> HIDE DEF T
    <2>4. U \subseteq T
      BY <1>1, <2>2, <2>3
    <2> QED BY <1>4, <2>4 DEF T
  <1> QED BY <1>2, <1>3, <1>4 DEF U

\* A directory is added: what was inside still is.
LEMMA InsideGrows ==
    ASSUME NEW D, NEW E, Folders(D), Folders(E), NEW q \in Place,
           \A e \in DOMAIN D : e \in DOMAIN E /\ E[e] = D[e]
    PROVE  Inside(D, q) \subseteq Inside(E, q)
  <1>1. \A S : Closed(E, S) => Closed(D, S)
    BY DEF Closed
  <1>2. /\ q \in Inside(E, q) /\ Inside(E, q) \in SUBSET Place /\ Closed(E, Inside(E, q))
    BY Least
  <1> QED BY <1>1, <1>2, Least

\* The document of a directory is written with the parent it had, or with one that can
\* be reached and is not inside it: what could be reached still can.
LEMMA InsideKept ==
    ASSUME NEW D, NEW E, Folders(D), Folders(E), NEW d \in DOMAIN D, NEW r \in Place,
           DOMAIN E = DOMAIN D, \A e \in DOMAIN D \ {d} : E[e] = D[e],
           E[d].parent = D[d].parent \/ E[d].parent \in Inside(D, r) \ Inside(D, d)
    PROVE  Inside(D, r) \subseteq Inside(E, r)
  <1> DEFINE V == Inside(D, d)
             S == Inside(E, r)
  <1>1. d \in Place
    BY DEF Folders
  <1>2. /\ d \in V /\ V \subseteq Place /\ Closed(D, V)
        /\ \A T \in SUBSET Place : d \in T /\ Closed(D, T) => V \subseteq T
    BY <1>1, Least
  <1>3. r \in S /\ S \subseteq Place /\ Closed(E, S)
    BY Least
  <1>4. \A T \in SUBSET Place : r \in T /\ Closed(D, T) => Inside(D, r) \subseteq T
    BY Least
  <1> HIDE DEF V, S
  <1>5. CASE E[d].parent = D[d].parent
    <2>1. Closed(D, S)
      BY <1>3, <1>5 DEF Closed
    <2> QED BY <1>3, <1>4, <2>1 DEF S
  <1>6. CASE E[d].parent \in Inside(D, r) \ V
    <2> DEFINE T == S \cup V
    <2>1. T \in SUBSET Place /\ r \in T /\ Closed(D, T)
      BY <1>2, <1>3 DEF Closed
    <2>2. Inside(D, r) \subseteq T
      <3> HIDE DEF T
      <3> QED BY <1>4, <2>1
    <2>3. d \in S
      BY <1>3, <1>6, <2>2 DEF Closed
    <2>4. Closed(D, S)
      BY <1>3, <2>3 DEF Closed
    <2>5. V \subseteq S
      BY <1>2, <1>3, <2>3, <2>4
    <2> QED BY <2>2, <2>5 DEF S
  <1> QED BY <1>5, <1>6 DEF V

\* A directory with none in it is removed: nothing else is lost.
LEMMA InsideWithout ==
    ASSUME NEW D, NEW E, Folders(D), Folders(E), NEW x, NEW r \in Place,
           DOMAIN E = DOMAIN D \ {x}, \A e \in DOMAIN E : E[e] = D[e],
           \A e \in DOMAIN D : D[e].parent # x \/ x \notin DOMAIN D
    PROVE  Inside(D, r) \subseteq Inside(E, r) \cup (DOMAIN D \cap {x})
  <1> DEFINE S == Inside(E, r)
             T == S \cup (DOMAIN D \cap {x})
  <1>1. r \in S /\ S \subseteq Place /\ Closed(E, S)
    BY Least
  <1> HIDE DEF S
  <1>2. T \in SUBSET Place /\ r \in T
    BY <1>1 DEF Folders
  <1>3. ASSUME NEW e \in DOMAIN D, D[e].parent \in T PROVE e \in T
    <2>1. CASE e = x
      BY <2>1
    <2>2. CASE e # x
      <3>1. e \in DOMAIN E /\ E[e] = D[e]
        BY <2>2
      <3>2. D[e].parent \in S
        BY <1>3
      <3> QED BY <1>1, <3>1, <3>2 DEF Closed
    <2> QED BY <2>1, <2>2
  <1>4. Closed(D, T)
    BY <1>3 DEF Closed
  <1> HIDE DEF T
  <1>5. Inside(D, r) \subseteq T
    BY <1>2, <1>4, Least
  <1> QED BY <1>5 DEF S, T

LEMMA UnderIsInside ==
    /\ \A q : Under(q) = Inside(dirs, q)
    /\ Under(Root)' = Inside(dirs', Root)
    /\ TypeOK => Folders(dirs)
    /\ TypeOK' => Folders(dirs')
  <1>1. \A q : Under(q) = Inside(dirs, q)
    BY DEF Under, Inside
  <1>2. Under(Root)' = Inside(dirs', Root)
    BY DEF Under, Inside
  <1>3. TypeOK => Folders(dirs)
    BY Places DEF Folders
  <1>4. ASSUME TypeOK' PROVE Folders(dirs')
    <2>1. /\ dborn' \in 0 .. MaxDirs /\ dirs' \in [DOMAIN dirs' -> Doc]
          /\ DOMAIN dirs' \subseteq 1 .. dborn' /\ MaxDirs \in Nat
      BY <1>4, TreeAssumption DEF TypeOK, TreeAssumption
    <2>2. DOMAIN dirs' \subseteq Place
      BY <2>1 DEF Place, Dir
    <2>3. \A d \in DOMAIN dirs' : dirs'[d].parent \in Place
      BY <2>1 DEF Doc
    <2> QED BY <2>2, <2>3 DEF Folders
  <1> QED BY <1>1, <1>2, <1>3, <1>4

----------------------------------------------------------------------------
(* Every step keeps what is known of a removal. *)

\* What is known of a removal, in words of its own: the calls and what they have
\* still to do.
LEMMA Facts ==
    ASSUME IInv, stack # <<>>
    PROVE  /\ TypeOK /\ cpc = "idle" /\ mark <= fborn
           /\ \A i \in 1 .. Len(stack) : FrameOK(i)
           /\ \A i, j \in 1 .. Len(stack) : stack[i].dir = stack[j].dir => i = j
           /\ Tree /\ Await
  <1>1. TypeOK /\ Quiet /\ Frames /\ Tree /\ Await /\ mark <= fborn
    BY DEF IInv, Removal
  <1>2. DOMAIN stack = 1 .. Len(stack)
    BY <1>1, FrameTypes
  <1> QED BY <1>1, <1>2 DEF Quiet, Frames

\* A removal begins.
LEMMA deleteDirKeeps ==
    ASSUME IInv, TypeInv', NEW p \in Path, deleteDir(p)
    PROVE  Removal'
  <1> DEFINE d == resolveDirPath(p).at
  <1>1. /\ d # Nowhere /\ stack' = <<Call(d)>> /\ doomed' = Under(d) /\ mark' = fborn
        /\ UNCHANGED <<dirs, files, fborn>>
    BY DEF deleteDir, dirVars, fileVars
  <1>2. TypeOK
    BY DEF IInv
  <1>3. Exists(d) /\ d \in Place
    BY <1>1, <1>2, PathsGiven, Places DEF Good
  <1> HIDE DEF d
  <1>4. Folders(dirs) /\ doomed' = Inside(dirs, d)
    BY <1>1, <1>2, UnderIsInside
  <1>5. /\ d \in doomed' /\ doomed' \subseteq {d} \cup DOMAIN dirs
        /\ \A e \in DOMAIN dirs : dirs[e].parent \in doomed' => e \in doomed'
        /\ \A e \in doomed' : e # d => dirs[e].parent \in doomed'
        /\ \A S \in SUBSET (DOMAIN dirs \cap doomed') :
             S # {} /\ d \notin S => \E e \in S : dirs[e].parent \notin S
    BY <1>3, <1>4, Least, Rooted DEF Closed
  <1>6. /\ stack' # <<>> /\ Len(stack') = 1 /\ DOMAIN stack' = {1}
        /\ stack'[1] = Call(d)
    BY <1>1
  <1>7. /\ stack'[1].dir = d /\ stack'[1].stage = "files"
        /\ stack'[1].files = FilesIn(d) /\ stack'[1].dirs = {}
    BY <1>6 DEF Call
  <1>8. Frames'
    <2>1. \A f \in FilesIn(d) : f \in DOMAIN files /\ files[f].parent = d
      BY DEF FilesIn
    <2>2. FrameOK(1)'
      BY <1>1, <1>3, <1>5, <1>6, <1>7, <2>1 DEF FrameOK, Exists
    <2> QED BY <1>6, <2>2 DEF Frames
  <1>9. Tree'
    BY <1>1, <1>5, <1>7 DEF Tree
  <1>10. Await'
    <2>1. \A e \in doomed' : e # d => Ahead(e)'
      BY <1>1, <1>5, <1>6, <1>7 DEF Ahead, OnStack
    <2>2. ASSUME NEW e \in DOMAIN dirs, dirs[e].parent \in doomed' PROVE DirAwaits(e)'
      BY <1>1, <1>6, <1>7, <2>1, <2>2 DEF DirAwaits
    <2>3. ASSUME NEW f \in DOMAIN files, files[f].parent \in doomed' PROVE FileAwaits(f)'
      BY <1>1, <1>6, <1>7, <2>1, <2>3 DEF FileAwaits, FilesIn
    <2> QED BY <1>1, <2>2, <2>3 DEF Await
  <1>11. mark' <= fborn'
    BY <1>1, <1>2, Places
  <1> QED BY <1>8, <1>9, <1>10, <1>11 DEF Removal

\* A file of the directory is removed.
LEMMA DeleteChildFileKeeps ==
    ASSUME IInv, DeleteChildFile
    PROVE  /\ Removal' /\ stack' # <<>> /\ UNCHANGED dirs
           /\ \A f \in DOMAIN files \ DOMAIN files' : files[f].parent \in doomed
           /\ \A f \in DOMAIN files' : f \in DOMAIN files /\ files'[f] = files[f]
  <1> DEFINE n == Len(stack)
             c == stack[n]
  <1>1. stack # <<>> /\ UNCHANGED <<dirs, fborn, doomed, mark>>
    BY DEF DeleteChildFile, Removing, dirVars
  <1>2. PICK f \in c.files : /\ files' = Without(files, f)
                             /\ SetFrame([c EXCEPT !.files = @ \ {f}])
    BY DEF DeleteChildFile, Frame1
  <1>3. /\ TypeOK /\ mark <= fborn /\ Tree /\ Await
        /\ \A i \in 1 .. n : FrameOK(i)
        /\ \A i, j \in 1 .. n : stack[i].dir = stack[j].dir => i = j
    BY <1>1, Facts
  <1>4. n \in Nat /\ n \in 1 .. n /\ DOMAIN stack = 1 .. n /\ c \in Frame /\ stack \in Seq(Frame)
    BY <1>1, <1>3, FrameTypes DEF TypeOK
  <1>5. /\ stack' \in Seq(Frame) /\ Len(stack') = n /\ stack'[n] = [c EXCEPT !.files = @ \ {f}]
        /\ \A i \in 1 .. n : i # n => stack'[i] = stack[i]
    <2>1. [c EXCEPT !.files = @ \ {f}] \in Frame
      BY <1>1, <1>3, FramesMade DEF Frame1
    <2> HIDE DEF c
    <2> QED BY <1>1, <1>2, <1>4, <2>1, StackChanges
  <1>6. DOMAIN stack' = 1 .. n /\ stack' # <<>>
    <2>1. DOMAIN stack' = 1 .. Len(stack')
      BY <1>5, LenProperties
    <2>2. Len(<<>>) = 0 /\ n # 0
      BY <1>4
    <2> HIDE DEF n
    <2> QED BY <1>5, <2>1, <2>2
  <1>7. \A i \in 1 .. n : /\ stack'[i].dir = stack[i].dir /\ stack'[i].stage = stack[i].stage
                          /\ stack'[i].dirs = stack[i].dirs
                          /\ stack'[i].files = stack[i].files \ (IF i = n THEN {f} ELSE {})
    BY <1>4, <1>5 DEF Frame
  <1>8. FrameOK(n)
    BY <1>3, <1>4
  <1>9. c.stage # "dirs" /\ c.dir \in doomed /\ f \in DOMAIN files /\ files[f].parent = c.dir
    BY <1>2, <1>8 DEF FrameOK
  <1>10. /\ DOMAIN files' = DOMAIN files \ {f}
         /\ \A g \in DOMAIN files' : g \in DOMAIN files /\ files'[g] = files[g]
    BY <1>2 DEF Without
  <1> HIDE DEF n, c
  <1>11. Frames'
    <2>1. ASSUME NEW i \in 1 .. n PROVE FrameOK(i)'
      <3>1. FrameOK(i)
        BY <1>3
      <3>2. i # n => stack[i].files = {}
        BY <1>4, <3>1 DEF FrameOK, n
      <3>3. i # n => f \notin stack'[i].files
        BY <1>7, <3>2
      <3>4. f \notin stack'[n].files /\ f \notin stack'[i].files
        BY <1>4, <1>7, <3>3
      <3>5. i > 1 => i - 1 \in 1 .. n
        BY <1>4
      <3>6. \A g \in stack'[i].files : g \in DOMAIN files' /\ files'[g].parent = stack'[i].dir
        BY <1>7, <1>10, <3>1, <3>4 DEF FrameOK
      <3> QED BY <1>1, <1>4, <1>5, <1>7, <3>1, <3>5, <3>6 DEF FrameOK, Exists, n
    <2> QED BY <1>3, <1>6, <1>7, <2>1 DEF Frames
  <1>12. Tree'
    <2>1. stack'[1].dir = stack[1].dir
      <3>1. 1 \in 1 .. n
        BY <1>4
      <3> QED BY <1>7, <3>1
    <2> QED BY <1>1, <1>3, <2>1 DEF Tree
  <1>13. \A q : Ahead(q) => Ahead(q)'
    BY <1>1, <1>4, <1>6, <1>7 DEF Ahead, OnStack
  <1>14. Await'
    <2>1. ASSUME NEW e \in DOMAIN dirs, DirAwaits(e) PROVE DirAwaits(e)'
      BY <1>1, <1>4, <1>6, <1>7, <1>13, <2>1 DEF DirAwaits
    <2>2. ASSUME NEW g \in DOMAIN files', FileAwaits(g) PROVE FileAwaits(g)'
      BY <1>4, <1>6, <1>7, <1>10, <1>13, <2>2 DEF FileAwaits
    <2> QED BY <1>1, <1>3, <1>10, <2>1, <2>2 DEF Await
  <1>15. Removal'
    BY <1>1, <1>3, <1>11, <1>12, <1>14 DEF Removal
  <1> QED BY <1>1, <1>6, <1>9, <1>10, <1>15

\* The directories inside are listed.
LEMMA ListChildDirsKeeps ==
    ASSUME IInv, ListChildDirs
    PROVE  Removal' /\ stack' # <<>> /\ UNCHANGED <<dirs, files>>
  <1> DEFINE n == Len(stack)
             c == stack[n]
             b == [c EXCEPT !.stage = "dirs", !.dirs = SubDirs(c.dir)]
  <1>1. stack # <<>> /\ UNCHANGED <<dirs, files, fborn, doomed, mark>>
    BY DEF ListChildDirs, Removing, dirVars, fileVars
  <1>2. c.stage = "files" /\ c.files = {} /\ SetFrame(b)
    BY DEF ListChildDirs, Frame1
  <1>3. /\ TypeOK /\ mark <= fborn /\ Tree /\ Await
        /\ \A i \in 1 .. n : FrameOK(i)
        /\ \A i, j \in 1 .. n : stack[i].dir = stack[j].dir => i = j
    BY <1>1, Facts
  <1>4. n \in Nat /\ n \in 1 .. n /\ DOMAIN stack = 1 .. n /\ c \in Frame /\ stack \in Seq(Frame)
    BY <1>1, <1>3, FrameTypes DEF TypeOK
  <1>5. b \in Frame
    BY <1>1, <1>3, FramesMade DEF Frame1
  <1>6. /\ b.dir = c.dir /\ b.stage = "dirs" /\ b.files = c.files /\ b.dirs = SubDirs(c.dir)
    BY <1>4 DEF Frame
  <1> HIDE DEF b, c
  <1>7. /\ stack' \in Seq(Frame) /\ Len(stack') = n /\ stack'[n] = b
        /\ \A i \in 1 .. n : i # n => stack'[i] = stack[i]
    BY <1>1, <1>2, <1>4, <1>5, StackChanges
  <1>8. DOMAIN stack' = 1 .. n /\ stack' # <<>>
    <2>1. DOMAIN stack' = 1 .. Len(stack')
      BY <1>7, LenProperties
    <2>2. Len(<<>>) = 0 /\ n # 0
      BY <1>4
    <2> HIDE DEF n
    <2> QED BY <1>7, <2>1, <2>2
  <1>9. \A i \in 1 .. n : stack'[i].dir = stack[i].dir /\ stack'[i].files = stack[i].files
    BY <1>6, <1>7 DEF c
  <1>10. SubDirs(c.dir) = {d \in DOMAIN dirs : dirs[d].parent = c.dir}
    BY DEF SubDirs
  <1> HIDE DEF n
  <1>11. Frames'
    <2>1. ASSUME NEW i \in 1 .. n PROVE FrameOK(i)'
      <3>1. FrameOK(i)
        BY <1>3
      <3>2. i > 1 => i - 1 \in 1 .. n /\ i - 1 # n
        BY <1>4
      <3>3. i > 1 => stack'[i - 1] = stack[i - 1]
        BY <1>7, <3>2
      <3>4. CASE i = n
        <4>1. stack'[i] = b
          BY <1>7, <3>4
        <4> QED BY <1>1, <1>2, <1>6, <1>7, <1>10, <3>1, <3>3, <3>4, <4>1 DEF FrameOK, Exists, c
      <3>5. CASE i # n
        <4>1. stack'[i] = stack[i]
          BY <1>7, <3>5
        <4> QED BY <1>1, <1>7, <3>1, <3>3, <4>1 DEF FrameOK, Exists, n
      <3> QED BY <3>4, <3>5
    <2> QED BY <1>3, <1>8, <1>9, <2>1 DEF Frames
  <1>12. Tree'
    <2>1. stack'[1].dir = stack[1].dir
      <3>1. 1 \in 1 .. n
        BY <1>4
      <3> QED BY <1>9, <3>1
    <2> QED BY <1>1, <1>3, <2>1 DEF Tree
  <1>13. \A q : Ahead(q) => Ahead(q)'
    BY <1>1, <1>4, <1>8, <1>9 DEF Ahead, OnStack
  <1>14. Await'
    <2>1. ASSUME NEW e \in DOMAIN dirs, DirAwaits(e) PROVE DirAwaits(e)'
      <3>1. CASE \E i \in 1 .. n : i > 1 /\ stack[i].dir = e
        BY <1>8, <1>9, <3>1 DEF DirAwaits
      <3>2. CASE \E i \in 1 .. n : /\ stack[i].dir = dirs[e].parent
                                   /\ stack[i].stage = "files" \/ e \in stack[i].dirs
        <4>1. PICK i \in 1 .. n : /\ stack[i].dir = dirs[e].parent
                                  /\ stack[i].stage = "files" \/ e \in stack[i].dirs
          BY <3>2
        <4>2. CASE i = n
          <5>1. e \in stack'[i].dirs
            BY <1>6, <1>7, <1>10, <4>1, <4>2 DEF c
          <5> QED BY <1>1, <1>8, <1>9, <4>1, <5>1 DEF DirAwaits
        <4>3. CASE i # n
          <5>1. stack'[i] = stack[i]
            BY <1>7, <4>3
          <5> QED BY <1>1, <1>8, <4>1, <5>1 DEF DirAwaits
        <4> QED BY <4>2, <4>3
      <3>3. CASE Ahead(dirs[e].parent)
        BY <1>1, <1>13, <3>3 DEF DirAwaits
      <3> QED BY <1>4, <2>1, <3>1, <3>2, <3>3 DEF DirAwaits
    <2>2. ASSUME NEW g \in DOMAIN files, FileAwaits(g) PROVE FileAwaits(g)'
      BY <1>1, <1>4, <1>8, <1>9, <1>13, <2>2 DEF FileAwaits
    <2> QED BY <1>1, <1>3, <2>1, <2>2 DEF Await
  <1>15. Removal'
    BY <1>1, <1>3, <1>11, <1>12, <1>14 DEF Removal
  <1> QED BY <1>1, <1>8, <1>15

\* The next of them is called, or the process ends.
LEMMA DeleteChildDirKeeps ==
    ASSUME IInv, DeleteChildDir
    PROVE  Removal' /\ stack' # <<>> /\ UNCHANGED <<dirs, files>>
  <1> DEFINE n == Len(stack)
             c == stack[n]
  <1>1. stack # <<>> /\ UNCHANGED <<dirs, files, fborn, doomed, mark>>
    BY DEF DeleteChildDir, Removing, dirVars, fileVars
  <1>2. PICK d \in c.dirs :
          IF \E i \in DOMAIN stack : stack[i].dir = d THEN UNCHANGED stack
          ELSE stack' = Append([stack EXCEPT ![n].dirs = @ \ {d}], Call(d))
    BY DEF DeleteChildDir, Frame1
  <1>3. /\ TypeOK /\ mark <= fborn /\ Tree /\ Await
        /\ \A i \in 1 .. n : FrameOK(i)
        /\ \A i, j \in 1 .. n : stack[i].dir = stack[j].dir => i = j
    BY <1>1, Facts
  <1>4. n \in Nat /\ n \in 1 .. n /\ DOMAIN stack = 1 .. n /\ c \in Frame /\ stack \in Seq(Frame)
    BY <1>1, <1>3, FrameTypes DEF TypeOK
  <1>5. CASE UNCHANGED stack
    <2>1. Frames /\ Tree /\ Await /\ mark <= fborn
      BY <1>1, <1>3, Facts DEF IInv, Removal
    <2>2. Frames' /\ Tree' /\ Await' /\ mark' <= fborn'
      BY <1>1, <1>5, <2>1 DEF Frames, FrameOK, Exists, Tree, Await, DirAwaits, FileAwaits, Ahead, OnStack
    <2> QED BY <1>1, <1>5, <2>2 DEF Removal
  <1>6. CASE /\ ~ \E i \in DOMAIN stack : stack[i].dir = d
             /\ stack' = Append([stack EXCEPT ![n].dirs = @ \ {d}], Call(d))
    <2> DEFINE b == [c EXCEPT !.dirs = @ \ {d}]
    <2>1. b \in Frame /\ d \in Dir
      BY <1>1, <1>3, <1>4, FramesMade DEF Frame1, Frame
    <2>2. Call(d) \in Frame
      BY <1>1, <1>3, <2>1, FramesMade
    <2>3. /\ b.dir = c.dir /\ b.stage = c.stage /\ b.files = c.files /\ b.dirs = c.dirs \ {d}
      BY <1>4 DEF Frame
    <2>4. [stack EXCEPT ![n].dirs = @ \ {d}] = [stack EXCEPT ![n] = b]
      OBVIOUS
    <2> HIDE DEF b, c
    <2>5. /\ stack' \in Seq(Frame) /\ Len(stack') = n + 1
          /\ stack'[n + 1] = Call(d) /\ stack'[n] = b
          /\ \A i \in 1 .. n : i # n => stack'[i] = stack[i]
      <3> DEFINE s == Append([stack EXCEPT ![n] = b], Call(d))
      <3>1. /\ s \in Seq(Frame) /\ Len(s) = n + 1 /\ s[n + 1] = Call(d) /\ s[n] = b
            /\ \A i \in 1 .. n : i # n => s[i] = stack[i]
        BY <1>1, <1>4, <2>1, <2>2, StackChanges
      <3>2. stack' = s
        BY <1>6, <2>4
      <3> HIDE DEF s, n
      <3> QED BY <3>1, <3>2
    <2>6. DOMAIN stack' = 1 .. n + 1 /\ stack' # <<>>
      <3>1. DOMAIN stack' = 1 .. Len(stack')
        BY <2>5, LenProperties
      <3>2. Len(<<>>) = 0 /\ n + 1 # 0
        BY <1>4
      <3> HIDE DEF n
      <3> QED BY <2>5, <3>1, <3>2
    <2>7. \A i \in 1 .. n : /\ stack'[i].dir = stack[i].dir /\ stack'[i].files = stack[i].files
                            /\ stack'[i].stage = stack[i].stage
                            /\ stack'[i].dirs = stack[i].dirs \ (IF i = n THEN {d} ELSE {})
      BY <2>3, <2>5 DEF c
    <2>8. /\ stack'[n + 1].dir = d /\ stack'[n + 1].stage = "files"
          /\ stack'[n + 1].files = FilesIn(d) /\ stack'[n + 1].dirs = {}
      BY <2>5 DEF Call
    <2>9. FrameOK(n)
      BY <1>3, <1>4
    <2>10. /\ c.stage = "dirs" /\ d \in DOMAIN dirs /\ dirs[d].parent = c.dir
           /\ c.dir \in doomed /\ d \in doomed
      <3>1. /\ IF c.stage = "dirs" THEN c.files = {} ELSE c.dirs = {}
            /\ d \in DOMAIN dirs /\ dirs[d].parent = c.dir /\ c.dir \in doomed
        BY <1>2, <2>9 DEF FrameOK, c
      <3>2. c.stage = "dirs"
        BY <1>2, <3>1
      <3> QED BY <1>3, <3>1, <3>2 DEF Tree
    <2> HIDE DEF n
    <2>11. \A i \in 1 .. n : stack[i].dir # d
      BY <1>4, <1>6
    <2>12. n + 1 \in 1 .. n + 1 /\ n \in 1 .. n + 1 /\ \A i \in 1 .. n + 1 : i \in 1 .. n \/ i = n + 1
      BY <1>4
    <2>13. Frames'
      <3>1. ASSUME NEW i \in 1 .. n PROVE FrameOK(i)'
        <4>1. FrameOK(i)
          BY <1>3
        <4>2. i > 1 => i - 1 \in 1 .. n
          BY <1>4
        <4>3. i > 1 => /\ stack'[i - 1].dir = stack[i - 1].dir
                       /\ stack'[i - 1].dirs \subseteq stack[i - 1].dirs
          BY <2>7, <4>2
        <4>4. stack[i].stage = "dirs"
          <5>1. CASE i = n
            BY <2>10, <5>1 DEF c
          <5>2. CASE i # n
            <6>1. i < n
              BY <1>4, <5>2
            <6>2. i < Len(stack)
              BY <6>1 DEF n
            <6> QED BY <4>1, <6>2 DEF FrameOK
          <5> QED BY <5>1, <5>2
        <4> QED BY <1>1, <2>7, <4>1, <4>3, <4>4 DEF FrameOK, Exists
      <3>2. ASSUME NEW i, i = n + 1 PROVE FrameOK(i)'
        <4>1. d \notin stack'[n].dirs /\ stack'[n].dir = c.dir
          BY <2>3, <2>5
        <4>2. i - 1 = n /\ ~(i < Len(stack'))
          BY <1>4, <2>5, <3>2
        <4>4. /\ stack'[i].dir = d /\ stack'[i].stage = "files"
              /\ stack'[i].files = FilesIn(d) /\ stack'[i].dirs = {}
          BY <2>8, <3>2
        <4>3. \A f \in FilesIn(d) : f \in DOMAIN files /\ files[f].parent = d
          BY DEF FilesIn
        <4> QED BY <1>1, <2>10, <4>1, <4>2, <4>3, <4>4 DEF FrameOK, Exists
      <3>3. ASSUME NEW i \in 1 .. n + 1, NEW j \in 1 .. n + 1, stack'[i].dir = stack'[j].dir
            PROVE  i = j
        <4>1. CASE i \in 1 .. n /\ j \in 1 .. n
          BY <1>3, <2>7, <3>3, <4>1
        <4>2. CASE i = n + 1 \/ j = n + 1
          BY <2>7, <2>8, <2>11, <2>12, <3>3, <4>2
        <4> QED BY <2>12, <4>1, <4>2
      <3> QED BY <2>6, <2>12, <3>1, <3>2, <3>3 DEF Frames
    <2>14. Tree'
      <3>1. stack'[1].dir = stack[1].dir
        <4>1. 1 \in 1 .. n
          BY <1>4
        <4> QED BY <2>7, <4>1
      <3> QED BY <1>1, <1>3, <3>1 DEF Tree
    <2>15. \A q : q # d /\ Ahead(q) => Ahead(q)'
      BY <1>1, <1>4, <2>6, <2>7, <2>8, <2>12 DEF Ahead, OnStack
    <2>16. \A i \in 1 .. n : i \in DOMAIN stack'
      BY <2>6, <1>4
    <2>17. n + 1 \in DOMAIN stack' /\ n + 1 > 1
      BY <2>6, <2>12, <1>4
    <2>18. ASSUME NEW e \in DOMAIN dirs, DirAwaits(e) PROVE DirAwaits(e)'
      <3>1. CASE \E i \in 1 .. n : i > 1 /\ stack[i].dir = e
        BY <2>7, <2>16, <3>1 DEF DirAwaits
      <3>2. CASE \E i \in 1 .. n : /\ stack[i].dir = dirs[e].parent
                                   /\ stack[i].stage = "files" \/ e \in stack[i].dirs
        <4>1. PICK i \in 1 .. n : /\ stack[i].dir = dirs[e].parent
                                  /\ stack[i].stage = "files" \/ e \in stack[i].dirs
          BY <3>2
        <4>2. CASE e = d
          BY <2>8, <2>17, <4>2 DEF DirAwaits
        <4>3. CASE e # d
          BY <1>1, <2>7, <2>16, <4>1, <4>3 DEF DirAwaits
        <4> QED BY <4>2, <4>3
      <3>3. CASE Ahead(dirs[e].parent)
        <4>1. CASE dirs[e].parent = d
          BY <1>1, <2>8, <2>17, <4>1 DEF DirAwaits
        <4>2. CASE dirs[e].parent # d
          BY <1>1, <2>15, <3>3, <4>2 DEF DirAwaits
        <4> QED BY <4>1, <4>2
      <3> QED BY <1>4, <2>18, <3>1, <3>2, <3>3 DEF DirAwaits
    <2>19. ASSUME NEW g \in DOMAIN files, FileAwaits(g) PROVE FileAwaits(g)'
      <3>1. CASE \E i \in 1 .. n : g \in stack[i].files
        BY <2>7, <2>16, <3>1 DEF FileAwaits
      <3>2. CASE Ahead(files[g].parent)
        <4>1. CASE files[g].parent = d
          <5>1. g \in stack'[n + 1].files
            BY <2>8, <4>1 DEF FilesIn
          <5> QED BY <2>17, <5>1 DEF FileAwaits
        <4>2. CASE files[g].parent # d
          BY <1>1, <2>15, <3>2, <4>2 DEF FileAwaits
        <4> QED BY <4>1, <4>2
      <3> QED BY <1>4, <2>19, <3>1, <3>2 DEF FileAwaits
    <2>20. Await'
      BY <1>1, <1>3, <2>18, <2>19 DEF Await
    <2>21. Removal'
      BY <1>1, <1>3, <2>13, <2>14, <2>20 DEF Removal
    <2> QED BY <1>1, <2>6, <2>21
  <1> QED BY <1>2, <1>5, <1>6

\* The directory itself is removed, when nothing that was there before is left in it.
LEMMA NothingLeft ==
    ASSUME IInv, DeleteItself
    PROVE  /\ \A e \in DOMAIN dirs : dirs[e].parent # Frame1.dir
           /\ \A f \in DOMAIN files : files[f].parent = Frame1.dir => f > mark
           /\ Frame1.dir \in doomed
  <1> DEFINE n == Len(stack)
             x == Frame1.dir
  <1>1. stack # <<>> /\ Frame1.stage = "dirs" /\ Frame1.dirs = {}
    BY DEF DeleteItself, Removing
  <1>2. /\ TypeOK /\ Await /\ \A i \in 1 .. n : FrameOK(i)
        /\ \A i, j \in 1 .. n : stack[i].dir = stack[j].dir => i = j
    BY <1>1, Facts
  <1>3. n \in Nat /\ n \in 1 .. n /\ DOMAIN stack = 1 .. n /\ Frame1 = stack[n] /\ x = stack[n].dir
    BY <1>1, <1>2, FrameTypes DEF Frame1
  <1>4. x \in doomed /\ OnStack(x)
    <2>1. FrameOK(n)
      BY <1>2, <1>3
    <2> HIDE DEF n
    <2> QED BY <1>3, <2>1 DEF FrameOK, OnStack
  <1>5. \A i \in 1 .. n : stack[i].stage = "dirs" /\ stack[i].files = {}
    <2>1. ASSUME NEW i \in 1 .. n PROVE stack[i].stage = "dirs" /\ stack[i].files = {}
      <3>1. FrameOK(i)
        BY <1>2
      <3>2. stack[i].stage = "dirs"
        <4>1. CASE i = n
          BY <1>1, <1>3, <4>1
        <4>2. CASE i # n
          <5>1. n \in Nat
            BY <1>3
          <5>2. i < n
            <6> HIDE DEF n
            <6> QED BY <4>2, <5>1
          <5> QED BY <3>1, <5>2 DEF FrameOK
        <4> QED BY <4>1, <4>2
      <3> QED BY <3>1, <3>2 DEF FrameOK
    <2> QED BY <2>1
  <1> HIDE DEF n, x
  <1>6. ~Ahead(x)
    BY <1>4 DEF Ahead
  <1>7. ASSUME NEW e \in DOMAIN dirs, dirs[e].parent = x PROVE FALSE
    <2>1. DirAwaits(e)
      BY <1>2, <1>4, <1>7 DEF Await
    <2>2. CASE \E i \in 1 .. n : i > 1 /\ stack[i].dir = e
      <3>1. PICK i \in 1 .. n : i > 1 /\ stack[i].dir = e
        BY <2>2
      <3>2. FrameOK(i)
        BY <1>2
      <3>3. stack[i - 1].dir = x
        BY <1>7, <3>1, <3>2 DEF FrameOK
      <3>4. i - 1 \in 1 .. n /\ i - 1 # n
        BY <1>3, <3>1
      <3> QED BY <1>2, <1>3, <3>3, <3>4
    <2>3. CASE \E i \in 1 .. n : /\ stack[i].dir = x
                                 /\ stack[i].stage = "files" \/ e \in stack[i].dirs
      <3>1. PICK i \in 1 .. n : /\ stack[i].dir = x
                                /\ stack[i].stage = "files" \/ e \in stack[i].dirs
        BY <2>3
      <3>2. i = n
        BY <1>2, <1>3, <3>1
      <3> QED BY <1>1, <1>3, <3>1, <3>2
    <2> QED BY <1>3, <1>6, <1>7, <2>1, <2>2, <2>3 DEF DirAwaits
  <1>8. ASSUME NEW f \in DOMAIN files, files[f].parent = x PROVE f > mark
    <2>1. ~FileAwaits(f)
      BY <1>3, <1>5, <1>6, <1>8 DEF FileAwaits
    <2>2. ~(f <= mark)
      BY <1>2, <1>4, <1>8, <2>1 DEF Await
    <2>3. f \in Nat /\ mark \in Nat
      BY <1>2, Places DEF TypeOK, File
    <2> QED BY <2>2, <2>3
  <1> QED BY <1>4, <1>7, <1>8 DEF x

\* The next directory up goes on, or the removal ends and nothing is left of it.
LEMMA DeleteItselfKeeps ==
    ASSUME IInv, DeleteItself
    PROVE  /\ Removal' /\ UNCHANGED files
           /\ DOMAIN dirs' = DOMAIN dirs \ {Frame1.dir} /\ \A e \in DOMAIN dirs' : dirs'[e] = dirs[e]
           /\ stack' = <<>> =>
                /\ doomed \cap DOMAIN dirs' = {}
                /\ \A f \in DOMAIN files' : files'[f].parent \in doomed => f > mark
  <1> DEFINE n == Len(stack)
             x == Frame1.dir
  <1>1. /\ stack # <<>> /\ Frame1.stage = "dirs" /\ Frame1.dirs = {}
        /\ dirs' = Without(dirs, x) /\ stack' = Front(stack)
        /\ n = 1 \/ UNCHANGED <<doomed, mark>>
        /\ UNCHANGED <<files, fborn>>
    BY DEF DeleteItself, Removing, fileVars
  <1>2. /\ TypeOK /\ Tree /\ Await /\ mark <= fborn /\ \A i \in 1 .. n : FrameOK(i)
        /\ \A i, j \in 1 .. n : stack[i].dir = stack[j].dir => i = j
    BY <1>1, Facts
  <1>3. /\ n \in Nat /\ n \in 1 .. n /\ DOMAIN stack = 1 .. n /\ Frame1 = stack[n] /\ x = stack[n].dir
        /\ stack \in Seq(Frame)
    BY <1>1, <1>2, FrameTypes DEF Frame1, TypeOK
  <1>4. DOMAIN dirs' = DOMAIN dirs \ {x} /\ \A e \in DOMAIN dirs' : e \in DOMAIN dirs /\ dirs'[e] = dirs[e]
    BY <1>1 DEF Without
  <1>5. /\ stack' \in Seq(Frame) /\ Len(stack') = n - 1
        /\ \A i \in 1 .. n - 1 : stack'[i] = stack[i]
    BY <1>1, <1>3, StackChanges
  <1>6. DOMAIN stack' = 1 .. n - 1
    <2>1. DOMAIN stack' = 1 .. Len(stack')
      BY <1>5, LenProperties
    <2> QED BY <1>5, <2>1
  <1>7. /\ \A e \in DOMAIN dirs : dirs[e].parent # x
        /\ \A f \in DOMAIN files : files[f].parent = x => f > mark
    BY NothingLeft
  <1>8. stack[n].stage = "dirs" /\ stack[n].dirs = {} /\ stack[n].files = {}
    <2>1. FrameOK(n)
      BY <1>2, <1>3
    <2> QED BY <1>1, <1>3, <2>1 DEF FrameOK
  <1> HIDE DEF n, x
  <1>9. \A q : Ahead(q) => q # x
    BY <1>3 DEF Ahead, OnStack
  <1>10. CASE n = 1
    <2> DEFINE S == DOMAIN dirs' \cap doomed
    <2>1. \A q \in doomed : Ahead(q) => q \in S
      BY <1>4, <1>9 DEF Ahead
    <2>2. ASSUME NEW e \in S, dirs[e].parent \in doomed PROVE dirs[e].parent \in S
      <3>1. DirAwaits(e) /\ dirs[e].parent # x
        BY <1>2, <1>4, <1>7, <2>2 DEF Await
      <3>2. Ahead(dirs[e].parent)
        BY <1>3, <1>10, <3>1 DEF DirAwaits
      <3> QED BY <2>1, <2>2, <3>2
    <2>3. \A e \in S : e \in DOMAIN dirs \cap doomed /\ e # x
      BY <1>4
    <2>4. stack[1].dir = x
      BY <1>3, <1>10
    <2>5. \A e \in S : dirs[e].parent \in S
      BY <1>2, <2>2, <2>3, <2>4 DEF Tree
    <2>6. S \in SUBSET (DOMAIN dirs \cap doomed) /\ x \notin S
      BY <2>3
    <2> HIDE DEF S
    <2>7. S = {}
      BY <1>2, <2>4, <2>5, <2>6 DEF Tree
    <2>8. ASSUME NEW f \in DOMAIN files, files[f].parent \in doomed PROVE f > mark
      <3>1. ~Ahead(files[f].parent)
        BY <2>1, <2>7, <2>8
      <3>2. ~FileAwaits(f)
        BY <1>3, <1>8, <1>10, <3>1 DEF FileAwaits
      <3>3. ~(f <= mark)
        BY <1>2, <2>8, <3>2 DEF Await
      <3>4. f \in Nat /\ mark \in Nat
        BY <1>2, Places DEF TypeOK, File
      <3> QED BY <3>3, <3>4
    <2>9. stack' = <<>>
      BY <1>5, <1>10, EmptySeq
    <2>10. Removal'
      BY <2>9 DEF Removal
    <2> QED BY <1>1, <1>4, <2>7, <2>8, <2>10 DEF S, x
  <1>11. CASE n # 1
    <2>1. /\ 1 \in 1 .. n - 1 /\ n - 1 \in 1 .. n - 1
          /\ \A i \in 1 .. n : i \in 1 .. n - 1 \/ i = n
          /\ \A i \in 1 .. n - 1 : i \in 1 .. n /\ i < n
      BY <1>3, <1>11
    <2>2. stack' # <<>>
      <3>1. Len(stack') # 0 /\ Len(<<>>) = 0
        BY <1>3, <1>5, <1>11
      <3> QED BY <3>1
    <2>3. UNCHANGED <<doomed, mark>>
      BY <1>1, <1>11
    <2>4. \A i \in 1 .. n - 1 : stack[i].dir # x /\ x \notin stack[i].dirs
      <3>1. ASSUME NEW i \in 1 .. n - 1 PROVE stack[i].dir # x
        BY <1>2, <1>3, <2>1, <3>1
      <3>2. FrameOK(n)
        BY <1>2, <1>3
      <3>3. dirs[x].parent = stack[n - 1].dir /\ x \notin stack[n - 1].dirs
        BY <1>3, <1>11, <3>2 DEF FrameOK
      <3>4. ASSUME NEW i \in 1 .. n - 1 PROVE x \notin stack[i].dirs
        <4>1. FrameOK(i)
          BY <1>2, <2>1
        <4>2. SUFFICES ASSUME x \in stack[i].dirs PROVE FALSE
          OBVIOUS
        <4>3. stack[i].dir = stack[n - 1].dir
          BY <3>3, <4>1, <4>2 DEF FrameOK
        <4>4. i = n - 1
          BY <1>2, <2>1, <4>3
        <4> QED BY <3>3, <4>2, <4>4
      <3> QED BY <3>1, <3>4
    <2>5. Frames'
      <3>1. ASSUME NEW i \in 1 .. n - 1 PROVE FrameOK(i)'
        <4>1. FrameOK(i) /\ stack[i].stage = "dirs"
          <5>1. FrameOK(i) /\ i < Len(stack)
            BY <1>2, <2>1 DEF n
          <5> QED BY <5>1 DEF FrameOK
        <4>2. stack'[i] = stack[i]
          BY <1>5
        <4>3. i > 1 => stack'[i - 1] = stack[i - 1]
          <5>1. i > 1 => i - 1 \in 1 .. n - 1
            BY <1>3
          <5> QED BY <1>5, <5>1
        <4>4. stack[i].dir # x /\ x \notin stack[i].dirs
          BY <2>4
        <4>5. Exists(stack[i].dir)'
          BY <1>4, <4>1, <4>2, <4>4 DEF FrameOK, Exists
        <4>6. \A d \in stack[i].dirs : d \in DOMAIN dirs' /\ dirs'[d].parent = stack[i].dir
          BY <1>4, <4>1, <4>4 DEF FrameOK
        <4>7. i > 1 => /\ stack[i].dir \in DOMAIN dirs' /\ dirs'[stack[i].dir].parent = stack[i - 1].dir
                       /\ stack[i].dir \notin stack[i - 1].dirs
          BY <1>4, <4>1, <4>4 DEF FrameOK
        <4>8. \A f \in stack[i].files : f \in DOMAIN files /\ files[f].parent = stack[i].dir
          BY <4>1 DEF FrameOK
        <4>9. stack[i].dir \in doomed /\ stack[i].files = {}
          BY <4>1 DEF FrameOK
        <4> QED BY <1>1, <2>3, <4>1, <4>2, <4>3, <4>5, <4>6, <4>7, <4>8, <4>9 DEF FrameOK, Exists
      <3>2. \A i, j \in 1 .. n - 1 : stack'[i].dir = stack'[j].dir => i = j
        BY <1>2, <1>5, <2>1
      <3> QED BY <1>6, <3>1, <3>2 DEF Frames
    <2>6. Tree'
      <3>1. stack'[1] = stack[1] /\ doomed' = doomed /\ DOMAIN dirs' \subseteq DOMAIN dirs
        BY <1>4, <1>5, <2>1, <2>3
      <3>2. /\ \A d \in DOMAIN dirs' : dirs'[d].parent \in doomed => d \in doomed
            /\ \A d \in DOMAIN dirs' \cap doomed : d # stack[1].dir => dirs'[d].parent \in doomed
        BY <1>2, <1>4 DEF Tree
      <3>3. ASSUME NEW S \in SUBSET (DOMAIN dirs' \cap doomed), S # {}, stack[1].dir \notin S
            PROVE  \E d \in S : dirs'[d].parent \notin S
        <4>1. S \in SUBSET (DOMAIN dirs \cap doomed)
          BY <3>1
        <4>2. \E d \in S : dirs[d].parent \notin S
          BY <1>2, <3>3, <4>1 DEF Tree
        <4> QED BY <1>4, <4>2
      <3> QED BY <3>1, <3>2, <3>3 DEF Tree
    <2>7. \A q : Ahead(q) => Ahead(q)'
      BY <1>3, <1>4, <1>5, <1>6, <1>9, <2>1 DEF Ahead, OnStack
    <2>8. \A i \in 1 .. n - 1 : i \in DOMAIN stack'
      BY <1>6
    <2>9. ASSUME NEW e \in DOMAIN dirs', DirAwaits(e) PROVE DirAwaits(e)'
      <3>1. e \in DOMAIN dirs /\ e # x /\ dirs'[e].parent = dirs[e].parent /\ dirs[e].parent # x
        BY <1>4, <1>7
      <3>2. CASE \E i \in 1 .. n : i > 1 /\ stack[i].dir = e
        <4>1. PICK i \in 1 .. n : i > 1 /\ stack[i].dir = e
          BY <3>2
        <4>2. i \in 1 .. n - 1
          BY <1>3, <2>1, <3>1, <4>1
        <4> QED BY <1>5, <2>8, <4>1, <4>2 DEF DirAwaits
      <3>3. CASE \E i \in 1 .. n : /\ stack[i].dir = dirs[e].parent
                                   /\ stack[i].stage = "files" \/ e \in stack[i].dirs
        <4>1. PICK i \in 1 .. n : /\ stack[i].dir = dirs[e].parent
                                  /\ stack[i].stage = "files" \/ e \in stack[i].dirs
          BY <3>3
        <4>2. i \in 1 .. n - 1
          BY <1>3, <2>1, <3>1, <4>1
        <4> QED BY <1>5, <2>8, <3>1, <4>1, <4>2 DEF DirAwaits
      <3>4. CASE Ahead(dirs[e].parent)
        BY <2>7, <3>1, <3>4 DEF DirAwaits
      <3> QED BY <1>3, <2>9, <3>2, <3>3, <3>4 DEF DirAwaits
    <2>10. ASSUME NEW g \in DOMAIN files, FileAwaits(g) PROVE FileAwaits(g)'
      <3>1. CASE \E i \in 1 .. n : g \in stack[i].files
        <4>1. PICK i \in 1 .. n : g \in stack[i].files
          BY <3>1
        <4>2. i \in 1 .. n - 1
          BY <1>8, <2>1, <4>1
        <4> QED BY <1>5, <2>8, <4>1, <4>2 DEF FileAwaits
      <3>2. CASE Ahead(files[g].parent)
        BY <1>1, <2>7, <3>2 DEF FileAwaits
      <3> QED BY <1>3, <2>10, <3>1, <3>2 DEF FileAwaits
    <2>11. Await'
      BY <1>1, <1>2, <1>4, <2>3, <2>9, <2>10 DEF Await
    <2>12. Removal'
      BY <1>1, <1>2, <2>3, <2>5, <2>6, <2>11 DEF Removal
    <2> QED BY <1>1, <1>4, <2>2, <2>12 DEF x
  <1> QED BY <1>10, <1>11

\* Results come while a removal is under way.
LEMMA ResultsKeep ==
    ASSUME IInv, Results
    PROVE  /\ Removal' /\ UNCHANGED <<dirs, stack, doomed, mark, cpc>>
           /\ \A f \in DOMAIN files : f \in DOMAIN files' /\ files'[f] = files[f]
  <1>1. TypeOK /\ OnPath
    BY DEF IInv
  <1>2. UNCHANGED <<dirs, stack, doomed, mark, cpc>>
    <2>1. Marta
      BY <1>1, ResultStepTypes
    <2> QED BY <2>1 DEF Marta, dirVars, rmVars
  <1>3. /\ fborn <= fborn'
        /\ files' = files \/ (/\ DOMAIN files' = DOMAIN files \cup {fborn + 1}
                              /\ fborn + 1 \notin DOMAIN files
                              /\ \A f \in DOMAIN files : files'[f] = files[f])
    <2>1. UNCHANGED fileVars \/ SaveResult
      BY DEF Results, StartCopy, NextDir, CheckName
    <2>2. CASE UNCHANGED fileVars
      <3>1. fborn \in Nat
        BY <1>1, Places
      <3> QED BY <2>2, <3>1 DEF fileVars
    <2>3. CASE SaveResult
      <3>1. mpc = "save" /\ (mongo_file_save(Head(mpath), mdir) \/ UNCHANGED fileVars)
        BY <2>3 DEF SaveResult
      <3>2. mpath # <<>> /\ mpath \in Seq(Name) /\ mdir \in Place
        BY <1>1, <3>1 DEF OnPath, TypeOK
      <3>3. Head(mpath) \in Name
        BY <3>2, HeadTailProperties
      <3>4. DocTypes
        BY <1>1, Types
      <3> QED BY <3>1, <3>2, <3>3, <3>4, FileSaved
    <2> QED BY <2>1, <2>2, <2>3
  <1>4. \A f \in DOMAIN files : f \in DOMAIN files' /\ files'[f] = files[f]
    BY <1>3
  <1>5. ASSUME stack # <<>> PROVE Frames' /\ Tree' /\ Await' /\ mark' <= fborn'
    <2>1. /\ Tree /\ Await /\ mark <= fborn /\ Frames
      BY <1>5, Facts DEF IInv, Removal
    <2>2. mark \in Nat /\ fborn \in Nat /\ fborn' \in Nat /\ \A f \in DOMAIN files : f \in Nat
      <3>1. TypeOK'
        BY <1>1, ResultStepTypes
      <3>2. fborn' \in Nat
        BY <3>1 DEF TypeOK
      <3>3. mark \in Nat
        BY <1>1, Places DEF TypeOK
      <3>4. \A f \in DOMAIN files : f \in Nat
        BY <1>1, Places DEF File
      <3> QED BY <1>1, <3>2, <3>3, <3>4, Places
    <2>3. Frames'
      <3>1. ASSUME NEW i \in DOMAIN stack PROVE FrameOK(i)'
        <4>1. FrameOK(i)
          BY <2>1 DEF Frames
        <4>2. \A f \in stack[i].files : f \in DOMAIN files' /\ files'[f].parent = stack[i].dir
          BY <1>4, <4>1 DEF FrameOK
        <4> QED BY <1>2, <4>1, <4>2 DEF FrameOK, Exists
      <3> QED BY <1>2, <2>1, <3>1 DEF Frames
    <2>4. Tree'
      BY <1>2, <2>1 DEF Tree
    <2>5. mark' <= fborn'
      BY <1>2, <1>3, <2>1, <2>2
    <2>6. Await'
      <3>1. \A d : DirAwaits(d) => DirAwaits(d)'
        BY <1>2 DEF DirAwaits, Ahead, OnStack
      <3>2. \A f \in DOMAIN files : FileAwaits(f) => FileAwaits(f)'
        BY <1>2, <1>4 DEF FileAwaits, Ahead, OnStack
      <3>3. \A f \in DOMAIN files' : f <= mark => f \in DOMAIN files
        BY <1>3, <2>1, <2>2
      <3> QED BY <1>2, <1>4, <2>1, <3>1, <3>2, <3>3 DEF Await
    <2> QED BY <2>3, <2>4, <2>5, <2>6
  <1>6. Removal'
    BY <1>2, <1>5 DEF Removal
  <1> QED BY <1>2, <1>4, <1>6

\* No command of the console but the removal itself changes what is removed, and none
\* is carried out while a removal is.
LEMMA ConsoleWaits ==
    ASSUME IInv, Console
    PROVE  /\ stack = <<>>
           /\ Quiet'
           /\ (\E p \in Path : deleteDir(p)) \/ UNCHANGED rmVars
  <1>1. Quiet
    BY DEF IInv
  <1>2. CASE \E p \in Path : deleteDir(p)
    <2>1. stack = <<>> /\ cpc = "idle" /\ cpc' = cpc
      BY <1>2 DEF deleteDir, Resolves
    <2> QED BY <1>2, <2>1 DEF Quiet
  <1>3. CASE \/ \E p \in Path : CrashOnPath(p) \/ changeDir(p) \/ deleteFile(p)
             \/ \E p, dest \in Path : moveResource(p, dest)
             \/ \E p \in Path, n \in Name : renameResource(p, n) \/ copyFile(n, p)
             \/ \E n \in Name : makeDir(n)
             \/ SaveNewDir \/ SaveNewFile \/ format \/ FormatFiles
    <2>1. UNCHANGED rmVars
      BY <1>3 DEF CrashOnPath, changeDir, deleteFile, moveResource, renameResource, copyFile, makeDir,
                  SaveNewDir, SaveNewFile, format, FormatFiles
    <2>2. stack = <<>> \/ cpc # "idle"
      BY <1>3 DEF CrashOnPath, changeDir, deleteFile, moveResource, renameResource, copyFile, makeDir,
                  SaveNewDir, SaveNewFile, format, FormatFiles, Resolves
    <2>3. stack = <<>>
      BY <1>1, <2>2 DEF Quiet
    <2> QED BY <2>1, <2>3 DEF Quiet, rmVars
  <1> QED BY <1>2, <1>3 DEF Console

LEMMA StepIInv ==
    ASSUME IInv, [Next]_vars
    PROVE  IInv'
  <1>1. TypeInv' /\ TypeInv
    BY StepTypes DEF IInv, TypeInv
  <1>2. CASE Console
    <2>1. stack = <<>> /\ Quiet' /\ ((\E p \in Path : deleteDir(p)) \/ UNCHANGED rmVars)
      BY <1>2, ConsoleWaits
    <2>2. Removal'
      <3>1. CASE UNCHANGED rmVars
        BY <2>1, <3>1 DEF Removal, rmVars
      <3>2. CASE \E p \in Path : deleteDir(p)
        BY <1>1, <3>2, deleteDirKeeps
      <3> QED BY <2>1, <3>1, <3>2
    <2> QED BY <1>1, <2>1, <2>2 DEF IInv, TypeInv
  <1>3. CASE RemoveTree
    <2>1. Removal'
      BY <1>3, DeleteChildFileKeeps, ListChildDirsKeeps, DeleteChildDirKeeps, DeleteItselfKeeps DEF RemoveTree
    <2>2. stack # <<>> /\ cpc' = cpc
      BY <1>3 DEF RemoveTree, DeleteChildFile, ListChildDirs, DeleteChildDir, DeleteItself, Removing
    <2>3. Quiet'
      BY <2>2 DEF IInv, Quiet
    <2> QED BY <1>1, <2>1, <2>3 DEF IInv, TypeInv
  <1>4. CASE Results
    <2>1. Removal' /\ UNCHANGED <<stack, cpc>>
      BY <1>4, ResultsKeep
    <2>2. Quiet'
      BY <2>1 DEF IInv, Quiet
    <2> QED BY <1>1, <2>1, <2>2 DEF IInv, TypeInv
  <1>5. CASE UNCHANGED vars
    <2>1. UNCHANGED <<dirs, files, fborn, stack, doomed, mark, cpc>>
      BY <1>5 DEF vars, dirVars, fileVars, rmVars
    <2>2. Quiet'
      BY <2>1 DEF IInv, Quiet
    <2>3. ASSUME stack # <<>> PROVE Frames' /\ Tree' /\ Await' /\ mark' <= fborn'
      <3>1. Frames /\ Tree /\ Await /\ mark <= fborn
        BY <2>3 DEF IInv, Removal
      <3>2. Frames' /\ Tree' /\ mark' <= fborn'
        BY <2>1, <3>1 DEF Frames, FrameOK, Exists, Tree
      <3>3. Await'
        BY <2>1, <3>1 DEF Await, DirAwaits, FileAwaits, Ahead, OnStack
      <3> QED BY <3>2, <3>3
    <2>4. Removal'
      BY <2>1, <2>3 DEF Removal
    <2> QED BY <1>1, <2>2, <2>4 DEF IInv, TypeInv
  <1> QED BY <1>2, <1>3, <1>4, <1>5 DEF Next, Crashed

LEMMA InitIInv == Init => IInv
  <1>1. SUFFICES ASSUME Init PROVE IInv
    OBVIOUS
  <1>2. TypeInv /\ stack = <<>>
    BY <1>1, InitTypes DEF Init
  <1> QED BY <1>2 DEF IInv, TypeInv, Quiet, Removal

----------------------------------------------------------------------------
(* What a step may not do. *)

LEMMA StepExact ==
    ASSUME IInv, [Next]_vars
    PROVE  RemovesExactly
  <1>1. SUFFICES ASSUME stack # <<>>
                 PROVE  /\ DOMAIN dirs \ DOMAIN dirs' \subseteq doomed
                        /\ \A f \in DOMAIN files \ DOMAIN files' : files[f].parent \in doomed
                        /\ stack' = <<>> =>
                             /\ doomed \cap DOMAIN dirs' = {}
                             /\ \A f \in DOMAIN files' : files'[f].parent \in doomed => f > mark
    BY DEF RemovesExactly
  <1>2. CASE Console
    BY <1>1, <1>2, ConsoleWaits
  <1>3. CASE DeleteChildFile
    BY <1>3, DeleteChildFileKeeps
  <1>4. CASE ListChildDirs
    BY <1>4, ListChildDirsKeeps
  <1>5. CASE DeleteChildDir
    BY <1>5, DeleteChildDirKeeps
  <1>6. CASE DeleteItself
    BY <1>6, DeleteItselfKeeps, NothingLeft
  <1>7. CASE Results
    <2>1. /\ UNCHANGED <<dirs, stack>>
          /\ \A f \in DOMAIN files : f \in DOMAIN files'
      BY <1>7, ResultsKeep
    <2> QED BY <1>1, <2>1
  <1>8. CASE UNCHANGED vars
    BY <1>1, <1>8 DEF vars, dirVars, fileVars, rmVars
  <1> QED BY <1>2, <1>3, <1>4, <1>5, <1>6, <1>7, <1>8 DEF Next, Crashed, RemoveTree

\* mv and rename of a directory that stays within reach lose nothing.
LEMMA MoveLoses ==
    ASSUME IInv, IInv', ~MovesAway, OneWritten(dirs, dirs')
    PROVE  Under(Root) \subseteq Under(Root)'
  <1>1. TypeOK /\ TypeOK'
    BY DEF IInv
  <1>2. /\ Folders(dirs) /\ Folders(dirs') /\ Root \in Place
        /\ \A q : Under(q) = Inside(dirs, q)
        /\ Under(Root)' = Inside(dirs', Root)
    BY <1>1, UnderIsInside, Places
  <1>3. PICK d \in DOMAIN dirs, doc \in Doc : dirs' = With(dirs, d, doc)
    BY DEF OneWritten
  <1>4. DOMAIN dirs' = DOMAIN dirs /\ \A e \in DOMAIN dirs \ {d} : dirs'[e] = dirs[e]
    BY <1>3 DEF With
  <1>5. dirs'[d].parent = dirs[d].parent \/ dirs'[d].parent \in Under(Root) \ Under(d)
    BY <1>4 DEF MovesAway
  <1> QED BY <1>2, <1>4, <1>5, InsideKept

LEMMA StepLosesNothing ==
    ASSUME IInv, IInv', [Next]_vars
    PROVE  LosesNothing
  <1>1. TypeOK /\ TypeOK'
    BY DEF IInv
  <1>2. /\ Folders(dirs) /\ Folders(dirs') /\ Root \in Place
        /\ \A q : Under(q) = Inside(dirs, q)
        /\ Under(Root)' = Inside(dirs', Root)
    BY <1>1, UnderIsInside, Places
  <1>3. ASSUME Under(Root) \subseteq Under(Root)' PROVE LosesNothing
    BY <1>3 DEF LosesNothing
  <1>4. ASSUME UNCHANGED dirs PROVE LosesNothing
    BY <1>2, <1>3, <1>4
  <1>5. CASE \/ \E p, dest \in Path : moveResource(p, dest)
             \/ \E p \in Path, n \in Name : renameResource(p, n)
    <2>1. UNCHANGED dirs \/ OneWritten(dirs, dirs')
      BY <1>1, <1>5, Renamed
    <2>2. MovesAway => LosesNothing
      BY DEF LosesNothing
    <2> QED BY <1>3, <1>4, <2>1, <2>2, MoveLoses
  <1>6. CASE SaveNewDir
    <2>1. DocTypes /\ ConsoleTypes /\ mongo_dir_save(cnew.name, cnew.parent)
      BY <1>1, <1>6, Types DEF SaveNewDir
    <2>2. cnew.name \in Name /\ cnew.parent \in Place
      BY <2>1 DEF ConsoleTypes, Doc
    <2>3. \A e \in DOMAIN dirs : e \in DOMAIN dirs' /\ dirs'[e] = dirs[e]
      BY <2>1, <2>2, DirSaved
    <2> QED BY <1>2, <1>3, <2>3, InsideGrows
  <1>7. CASE format
    BY <1>7 DEF format, LosesNothing
  <1>8. CASE DeleteItself
    <2> DEFINE x == Frame1.dir
    <2>1. /\ \A e \in DOMAIN dirs : dirs[e].parent # x
          /\ \A f \in DOMAIN files : files[f].parent = x => f > mark
      BY <1>8, NothingLeft
    <2>2. /\ UNCHANGED files /\ DOMAIN dirs' = DOMAIN dirs \ {x}
          /\ \A e \in DOMAIN dirs' : dirs'[e] = dirs[e]
      BY <1>8, DeleteItselfKeeps
    <2> HIDE DEF x
    <2>3. Under(Root) \subseteq Under(Root)' \cup {x}
      BY <1>2, <2>1, <2>2, InsideWithout
    <2>4. stack # <<>>
      BY <1>8 DEF DeleteItself, Removing
    <2> QED BY <2>1, <2>2, <2>3, <2>4 DEF LosesNothing
  <1>9. CASE \/ \E p \in Path : CrashOnPath(p) \/ changeDir(p) \/ deleteFile(p) \/ deleteDir(p)
             \/ \E p \in Path, n \in Name : copyFile(n, p)
             \/ \E n \in Name : makeDir(n)
             \/ SaveNewFile \/ FormatFiles
    <2>1. UNCHANGED dirVars
      BY <1>9 DEF CrashOnPath, changeDir, deleteFile, deleteDir, copyFile, makeDir, SaveNewFile, FormatFiles
    <2> QED BY <1>4, <2>1 DEF dirVars
  <1>10. CASE DeleteChildFile \/ ListChildDirs \/ DeleteChildDir
    BY <1>4, <1>10, DeleteChildFileKeeps, ListChildDirsKeeps, DeleteChildDirKeeps
  <1>11. CASE Results
    BY <1>4, <1>11, ResultsKeep
  <1>12. CASE UNCHANGED vars
    BY <1>4, <1>12 DEF vars, dirVars
  <1>13. CASE Console
    BY <1>5, <1>6, <1>7, <1>9, <1>13 DEF Console
  <1> QED BY <1>8, <1>10, <1>11, <1>12, <1>13 DEF Next, Crashed, RemoveTree

\* What is known of a removal holds always.
LEMMA AlwaysIInv == Spec => []IInv
  <1>1. Init => IInv
    BY InitIInv
  <1>2. IInv /\ [Next]_vars => IInv'
    BY StepIInv
  <1> QED BY <1>1, <1>2, PTL DEF Spec

\* rm -r (filesystem_deleteDir, which calls itself) removes nothing but what was under its
\* directory when it began, in a tree of any depth and while results of any number arrive;
\* and when it ends nothing of it is left but files that came later.
THEOREM RemovalExact == Spec => RemovalIsExact
  <1>1. IInv /\ [Next]_vars => RemovesExactly
    BY StepExact
  <1> QED BY AlwaysIInv, <1>1, PTL DEF Spec, RemovalIsExact

\* No step takes out of reach of the root what was there and stays, unless mv puts it
\* inside itself or out of reach, or a removal leaves behind a file that came after it
\* began (filesystem_moveDir checks neither, filesystem_deleteDir lists once).
THEOREM ReachIsKept == Spec => NothingGetsLost
  <1>1. IInv /\ IInv' /\ [Next]_vars => LosesNothing
    BY StepLosesNothing
  <1> QED BY AlwaysIInv, <1>1, PTL DEF Spec, NothingGetsLost

----------------------------------------------------------------------------
(* The length of a path.  What can be reached from the root is at the end of *)
(* a chain of directories, none of them twice, so no longer than MaxDirs.    *)

\* The lengths of the paths of at most k steps up, for each k.
Lengths(D) ==
    LET length[k \in 0 .. MaxDirs] ==
          [e \in Place |-> IF k = 0 \/ e \notin DOMAIN D THEN 0
                           ELSE length[k - 1][D[e].parent] + 1 + NameLength[D[e].name]]
    IN  length
PathIn(D, d) == IF d = Root THEN 1 ELSE Lengths(D)[MaxDirs][d]

\* A collection of directories, with their names.
Collection(D) == /\ Folders(D) /\ DOMAIN D \subseteq Dir
                 /\ \A d \in DOMAIN D : D[d].name \in Name

LEMMA LengthsAre ==
    ASSUME NEW D, Collection(D)
    PROVE  \A k \in 0 .. MaxDirs : \A e \in Place :
             /\ Lengths(D)[k][e] \in Nat
             /\ Lengths(D)[k][e] =
                  IF k = 0 \/ e \notin DOMAIN D THEN 0
                  ELSE Lengths(D)[k - 1][D[e].parent] + 1 + NameLength[D[e].name]
  <1> DEFINE n == MaxDirs
             Row(g, k) == [e \in Place |-> IF k = 0 \/ e \notin DOMAIN D THEN 0
                                           ELSE g[k - 1][D[e].parent] + 1 + NameLength[D[e].name]]
             Part(m, g) == g = [k \in 0 .. m |-> Row(g, k)]
             l == CHOOSE g : Part(n, g)
  <1>1. n \in Nat /\ NameLength \in [Name -> Nat \ {0}]
    BY TreeAssumption DEF TreeAssumption
  <1>2. Lengths(D) = l
    BY DEF Lengths
  <1>a. \A g, h, k : (k # 0 => g[k - 1] = h[k - 1]) => Row(g, k) = Row(h, k)
    OBVIOUS
  <1> HIDE DEF n, Row
  <1> DEFINE bad == {m \in 0 .. n : ~ \E g : Part(m, g)}
  <1>3. ASSUME bad # {} PROVE FALSE
    <2>1. PICK m \in bad : \A k \in bad : m <= k
      <3>1. bad \in SUBSET Nat
        BY <1>1
      <3> QED BY <1>3, <3>1, LeastNatural
    <2>2. m \in 0 .. n /\ m \in Nat
      BY <1>1
    <2>3. CASE m = 0
      <3> DEFINE h == [k \in 0 .. 0 |-> Row(<<>>, 0)]
      <3>1. Row(h, 0) = Row(<<>>, 0)
        BY <1>a
      <3>2. Part(0, h)
        BY <3>1
      <3> QED BY <2>1, <2>3, <3>2
    <2>4. CASE m # 0
      <3>1. m - 1 \in 0 .. n /\ ~(m <= m - 1) /\ m - 1 \in Nat
        BY <1>1, <2>2, <2>4
      <3>2. m - 1 \notin bad
        BY <2>1, <3>1
      <3>3. PICK g : Part(m - 1, g)
        BY <3>1, <3>2
      <3> DEFINE h == [k \in 0 .. m |-> IF k = m THEN Row(g, m) ELSE g[k]]
      <3>4. \A k \in 0 .. m - 1 : k \in 0 .. m /\ k # m /\ h[k] = g[k]
        BY <2>2
      <3>5. \A k \in 0 .. m - 1 : g[k] = Row(g, k)
        BY <3>3
      <3>6. ASSUME NEW k \in 0 .. m PROVE h[k] = Row(h, k)
        <4>1. h[k] = Row(g, k)
          <5>1. CASE k = m
            BY <5>1
          <5>2. CASE k # m
            <6>1. k \in 0 .. m - 1
              BY <2>2, <5>2
            <6> QED BY <3>5, <5>2, <6>1
          <5> QED BY <5>1, <5>2
        <4>2. k # 0 => k - 1 \in 0 .. m - 1
          BY <2>2
        <4>3. k # 0 => h[k - 1] = g[k - 1]
          BY <3>4, <4>2
        <4> HIDE DEF h
        <4>4. Row(g, k) = Row(h, k)
          BY <1>a, <4>3
        <4> QED BY <4>1, <4>4
      <3>7. h = [k \in 0 .. m |-> h[k]]
        OBVIOUS
      <3> HIDE DEF h
      <3>8. Part(m, h)
        BY <3>6, <3>7
      <3> QED BY <2>1, <3>8
    <2> QED BY <2>3, <2>4
  <1>4. \E g : Part(n, g)
    <2>1. n \in 0 .. n
      BY <1>1
    <2> QED BY <1>3, <2>1
  <1>5. Part(n, l)
    BY <1>4
  <1> HIDE DEF l
  <1>6. \A k \in 0 .. n : l[k] = Row(l, k)
    BY <1>5
  <1>7. \A k \in 0 .. n : \A e \in Place :
          l[k][e] = IF k = 0 \/ e \notin DOMAIN D THEN 0
                    ELSE l[k - 1][D[e].parent] + 1 + NameLength[D[e].name]
    BY <1>6 DEF Row
  <1> DEFINE worse == {k \in 0 .. n : \E e \in Place : l[k][e] \notin Nat}
  <1>8. ASSUME worse # {} PROVE FALSE
    <2>1. PICK m \in worse : \A k \in worse : m <= k
      <3>1. worse \in SUBSET Nat
        BY <1>1
      <3> QED BY <1>8, <3>1, LeastNatural
    <2>2. m \in 0 .. n /\ m \in Nat
      BY <1>1
    <2>3. PICK e \in Place : l[m][e] \notin Nat
      BY <2>1
    <2>4. m # 0 /\ e \in DOMAIN D
      BY <1>7, <2>2, <2>3
    <2>5. m - 1 \in 0 .. n /\ ~(m <= m - 1)
      BY <1>1, <2>2, <2>4
    <2>6. D[e].parent \in Place /\ NameLength[D[e].name] \in Nat
      BY <1>1, <2>4 DEF Collection, Folders
    <2>7. l[m - 1][D[e].parent] \in Nat
      BY <2>1, <2>5, <2>6
    <2>8. l[m][e] = l[m - 1][D[e].parent] + 1 + NameLength[D[e].name]
      BY <1>7, <2>2, <2>4
    <2> QED BY <2>3, <2>6, <2>7, <2>8
  <1> QED BY <1>2, <1>7, <1>8 DEF n

\* A chain of directories from the root, each inside the one before.
Chain(D, c, m) ==
    /\ c \in [0 .. m -> Place] /\ c[0] = Root
    /\ \A j \in 1 .. m : c[j] \in DOMAIN D /\ D[c[j]].parent = c[j - 1]

LEMMA ChainTo ==
    ASSUME NEW D, Collection(D), NEW e \in Inside(D, Root)
    PROVE  \E m \in Nat : \E c : Chain(D, c, m) /\ c[m] = e
  <1> DEFINE S == {d \in Place : \E m \in Nat : \E c : Chain(D, c, m) /\ c[m] = d}
  <1>1. Root \in S
    <2> DEFINE c == [k \in 0 .. 0 |-> Root]
    <2>1. Chain(D, c, 0) /\ c[0] = Root /\ Root \in Place
      BY DEF Chain, Place
    <2> QED BY <2>1
  <1>2. ASSUME NEW d \in DOMAIN D, D[d].parent \in S PROVE d \in S
    <2>0. PICK m \in Nat : \E b : Chain(D, b, m) /\ b[m] = D[d].parent
      BY <1>2
    <2>1. PICK b : Chain(D, b, m) /\ b[m] = D[d].parent
      BY <2>0
    <2> DEFINE c == [k \in 0 .. m + 1 |-> IF k = m + 1 THEN d ELSE b[k]]
    <2>2. d \in Place
      BY DEF Collection, Folders
    <2>3. \A k \in 0 .. m : k \in 0 .. m + 1 /\ k # m + 1 /\ c[k] = b[k]
      OBVIOUS
    <2>4. m + 1 \in 0 .. m + 1 /\ c[m + 1] = d /\ m \in 0 .. m /\ 0 \in 0 .. m
      OBVIOUS
    <2>5. c \in [0 .. m + 1 -> Place]
      <3>1. \A k \in 0 .. m + 1 : c[k] \in Place
        BY <2>1, <2>2 DEF Chain
      <3> QED BY <3>1
    <2> HIDE DEF c
    <2>6. c[0] = Root
      BY <2>1, <2>3, <2>4 DEF Chain
    <2>7. ASSUME NEW j \in 1 .. m + 1 PROVE c[j] \in DOMAIN D /\ D[c[j]].parent = c[j - 1]
      <3>1. CASE j = m + 1
        <4>1. j - 1 = m
          BY <3>1
        <4>2. c[j - 1] = D[d].parent
          BY <2>1, <2>3, <2>4, <4>1
        <4> QED BY <2>4, <3>1, <4>2
      <3>2. CASE j # m + 1
        <4>1. j \in 1 .. m /\ j \in 0 .. m /\ j - 1 \in 0 .. m
          BY <3>2
        <4> QED BY <2>1, <2>3, <4>1 DEF Chain
      <3> QED BY <3>1, <3>2
    <2>8. Chain(D, c, m + 1)
      BY <2>5, <2>6, <2>7 DEF Chain
    <2> QED BY <2>2, <2>4, <2>8
  <1>3. Closed(D, S)
    BY <1>2 DEF Closed
  <1>4. Folders(D) /\ Root \in Place /\ S \in SUBSET Place
    BY DEF Collection, Place
  <1> HIDE DEF S
  <1>5. Inside(D, Root) \subseteq S
    BY <1>1, <1>3, <1>4, Least
  <1> QED BY <1>5 DEF S

\* No directory is in a chain twice: the first that is would have the root below it.
LEMMA ChainShort ==
    ASSUME NEW D, Collection(D), NEW m \in Nat, NEW c, Chain(D, c, m)
    PROVE  m <= MaxDirs
  <1>1. MaxDirs \in Nat /\ Root \notin Dir
    BY TreeAssumption DEF TreeAssumption, Root, Dir
  <1> DEFINE twice == {i \in 0 .. m : \E j \in i + 1 .. m : c[i] = c[j]}
  <1>2. ASSUME twice # {} PROVE FALSE
    <2>1. PICK i \in twice : \A k \in twice : i <= k
      <3>1. twice \in SUBSET Nat
        OBVIOUS
      <3> QED BY <1>2, <3>1, LeastNatural
    <2>2. PICK j \in i + 1 .. m : c[i] = c[j]
      BY <2>1
    <2>3. i \in 0 .. m /\ i \in Nat /\ j \in 1 .. m
      BY <2>1, <2>2
    <2>4. c[j] \in Dir /\ D[c[j]].parent = c[j - 1]
      BY <2>3 DEF Chain, Collection
    <2>5. i # 0
      BY <1>1, <2>2, <2>4 DEF Chain
    <2>6. i \in 1 .. m /\ i - 1 \in 0 .. m /\ j - 1 \in i - 1 + 1 .. m /\ ~(i <= i - 1)
      BY <2>2, <2>3, <2>5
    <2>7. c[i - 1] = c[j - 1]
      BY <2>2, <2>4, <2>6 DEF Chain
    <2>8. i - 1 \in twice
      BY <2>6, <2>7
    <2> QED BY <2>1, <2>6, <2>8
  <1>3. \A i, j \in 1 .. m : c[i] = c[j] => i = j
    <2>1. ASSUME NEW i \in 1 .. m, NEW j \in 1 .. m, c[i] = c[j], i < j PROVE FALSE
      <3>1. i \in 0 .. m /\ j \in i + 1 .. m
        BY <2>1
      <3>2. i \in twice
        BY <2>1, <3>1
      <3> QED BY <1>2, <3>2
    <2> QED BY <2>1
  <1> DEFINE f == [k \in 1 .. m |-> c[k]]
  <1>4. f \in Injection(1 .. m, 1 .. MaxDirs)
    <2>1. \A k \in 1 .. m : c[k] \in 1 .. MaxDirs
      BY DEF Chain, Collection, Dir
    <2> QED BY <1>3, <2>1 DEF Injection, IsInjective
  <1>5. Cardinality(1 .. m) <= Cardinality(1 .. MaxDirs)
    <2>1. IsFiniteSet(1 .. MaxDirs)
      BY <1>1, FS_Interval
    <2> QED BY <1>4, <2>1, FS_Injection
  <1>6. Cardinality(1 .. m) = m /\ Cardinality(1 .. MaxDirs) = MaxDirs
    BY <1>1, FS_Interval
  <1> QED BY <1>5, <1>6

\* From as many steps as it takes to come to the root, the length is the same.
LEMMA Settled ==
    ASSUME NEW D, Collection(D), NEW m \in Nat, NEW c, Chain(D, c, m), m <= MaxDirs
    PROVE  \A j \in 0 .. m : \A k \in j .. MaxDirs : Lengths(D)[k][c[j]] = Lengths(D)[j][c[j]]
  <1>1. MaxDirs \in Nat /\ Root \notin DOMAIN D /\ Root \in Place
    BY TreeAssumption DEF TreeAssumption, Root, Dir, Collection, Place
  <1> DEFINE l == Lengths(D)
             bad == {j \in 0 .. m : \E k \in j .. MaxDirs : l[k][c[j]] # l[j][c[j]]}
  <1>2. \A k \in 0 .. MaxDirs : \A e \in Place :
          l[k][e] = IF k = 0 \/ e \notin DOMAIN D THEN 0
                    ELSE l[k - 1][D[e].parent] + 1 + NameLength[D[e].name]
    BY LengthsAre
  <1> HIDE DEF l
  <1>3. ASSUME bad # {} PROVE FALSE
    <2>1. PICK j \in bad : \A i \in bad : j <= i
      <3>1. bad \in SUBSET Nat
        OBVIOUS
      <3> QED BY <1>3, <3>1, LeastNatural
    <2>2. PICK k \in j .. MaxDirs : l[k][c[j]] # l[j][c[j]]
      BY <2>1
    <2>3. j \in 0 .. m /\ j \in 0 .. MaxDirs /\ k \in 0 .. MaxDirs /\ c[j] \in Place
      BY <1>1, <2>1, <2>2 DEF Chain
    <2>4. j # 0
      BY <1>1, <1>2, <2>2, <2>3 DEF Chain
    <2>5. j \in 1 .. m /\ k # 0 /\ j - 1 \in 0 .. m /\ k - 1 \in j - 1 .. MaxDirs /\ ~(j <= j - 1)
      BY <1>1, <2>2, <2>3, <2>4
    <2>6. c[j] \in DOMAIN D /\ D[c[j]].parent = c[j - 1]
      BY <2>5 DEF Chain
    <2>7. j - 1 \notin bad
      BY <2>1, <2>5
    <2>8. l[k - 1][c[j - 1]] = l[j - 1][c[j - 1]]
      BY <2>5, <2>7
    <2>9. /\ l[k][c[j]] = l[k - 1][c[j - 1]] + 1 + NameLength[D[c[j]].name]
          /\ l[j][c[j]] = l[j - 1][c[j - 1]] + 1 + NameLength[D[c[j]].name]
      BY <1>2, <2>3, <2>4, <2>5, <2>6
    <2> QED BY <2>2, <2>8, <2>9
  <1> QED BY <1>3 DEF l

\* The path of a directory within reach is that of its parent, a slash and its name.
LEMMA PathStep ==
    ASSUME NEW D, Collection(D), NEW d \in DOMAIN D, d \in Inside(D, Root)
    PROVE  /\ PathIn(D, d) \in Nat /\ PathIn(D, D[d].parent) \in Nat
           /\ PathIn(D, d) + Slash(D[d].parent) = PathIn(D, D[d].parent) + 1 + NameLength[D[d].name]
  <1> DEFINE l == Lengths(D)
             q == D[d].parent
             n == MaxDirs
  <1>1. /\ n \in Nat /\ Root \notin DOMAIN D /\ d \in Place /\ q \in Place
        /\ NameLength[D[d].name] \in Nat
    BY TreeAssumption DEF TreeAssumption, Root, Dir, Collection, Folders
  <1>2. \A k \in 0 .. n : \A e \in Place :
          /\ l[k][e] \in Nat
          /\ l[k][e] = IF k = 0 \/ e \notin DOMAIN D THEN 0
                       ELSE l[k - 1][D[e].parent] + 1 + NameLength[D[e].name]
    BY LengthsAre
  <1>0. PICK m \in Nat : \E c : Chain(D, c, m) /\ c[m] = d
    BY ChainTo
  <1>3. PICK c : Chain(D, c, m) /\ c[m] = d
    BY <1>0
  <1>4. m <= n
    BY <1>3, ChainShort
  <1>5. \A j \in 0 .. m : \A k \in j .. n : l[k][c[j]] = l[j][c[j]]
    BY <1>3, <1>4, Settled
  <1>6. PathIn(D, d) = l[n][d] /\ PathIn(D, q) = IF q = Root THEN 1 ELSE l[n][q]
    BY <1>1 DEF PathIn
  <1>7. m # 0
    BY <1>1, <1>3 DEF Chain
  <1> HIDE DEF l, n
  <1>8. /\ m \in 1 .. m /\ m - 1 \in 0 .. m /\ n - 1 \in m - 1 .. n /\ n \in m - 1 .. n
        /\ n \in 0 .. n /\ n # 0 /\ n - 1 \in 0 .. n
    BY <1>1, <1>4, <1>7
  <1>9. c[m - 1] = q
    BY <1>3, <1>8 DEF Chain
  <1>10. l[n - 1][q] = l[n][q]
    BY <1>5, <1>8, <1>9
  <1>11. l[n][d] = l[n][q] + 1 + NameLength[D[d].name]
    BY <1>1, <1>2, <1>8, <1>10
  <1>12. l[n][d] \in Nat /\ l[n][q] \in Nat
    BY <1>1, <1>2, <1>8
  <1>13. q = Root => l[n][q] = 0
    BY <1>1, <1>2, <1>8
  <1> HIDE DEF q
  <1>14. PathIn(D, d) + Slash(q) = PathIn(D, q) + 1 + NameLength[D[d].name]
    BY <1>1, <1>6, <1>11, <1>12, <1>13 DEF Slash
  <1> QED BY <1>6, <1>12, <1>14 DEF q

----------------------------------------------------------------------------
(* The prompt has the length of the path of the current directory.          *)

\* Where nothing changes up to the root, paths keep their lengths.
LEMMA SamePaths ==
    ASSUME NEW D, NEW E, Collection(D), Collection(E),
           NEW W \in SUBSET Inside(D, Root), Root \in W,
           \A e \in W : e # Root => e \in DOMAIN E /\ E[e] = D[e] /\ D[e].parent \in W
    PROVE  W \subseteq Inside(E, Root) /\ \A e \in W : PathIn(E, e) = PathIn(D, e)
  <1>1. /\ MaxDirs \in Nat /\ Folders(D) /\ Folders(E) /\ Root \in Place
        /\ Root \notin DOMAIN D /\ Root \notin DOMAIN E
    BY TreeAssumption DEF TreeAssumption, Collection, Place, Root, Dir
  <1>2. W \subseteq Place /\ \A e \in W : e # Root => e \in DOMAIN D
    BY <1>1, Least, Rooted
  <1>3. W \subseteq Inside(E, Root)
    <2> DEFINE S == Inside(E, Root)
               T == S \cup (Place \ W)
    <2>1. Root \in S /\ S \subseteq Place /\ Closed(E, S)
      BY <1>1, Least
    <2> HIDE DEF S
    <2>2. T \in SUBSET Place /\ Root \in T
      BY <2>1
    <2>3. ASSUME NEW e \in DOMAIN D, D[e].parent \in T PROVE e \in T
      <3>1. e \in Place /\ e # Root
        BY <1>1 DEF Folders
      <3>2. CASE e \in W
        <4>1. e \in DOMAIN E /\ E[e] = D[e] /\ D[e].parent \in S
          BY <2>3, <3>1, <3>2
        <4> QED BY <2>1, <4>1 DEF Closed
      <3>3. CASE e \notin W
        BY <3>1, <3>3
      <3> QED BY <3>2, <3>3
    <2>4. Closed(D, T)
      BY <2>3 DEF Closed
    <2> HIDE DEF T
    <2>5. Inside(D, Root) \subseteq T
      BY <1>1, <2>2, <2>4, Least
    <2> QED BY <2>5 DEF S, T
  <1> DEFINE l == Lengths(D)
             k == Lengths(E)
             n == MaxDirs
  <1>4. \A i \in 0 .. n : \A e \in Place :
          /\ l[i][e] = IF i = 0 \/ e \notin DOMAIN D THEN 0
                       ELSE l[i - 1][D[e].parent] + 1 + NameLength[D[e].name]
          /\ k[i][e] = IF i = 0 \/ e \notin DOMAIN E THEN 0
                       ELSE k[i - 1][E[e].parent] + 1 + NameLength[E[e].name]
    BY LengthsAre
  <1>5. \A e : /\ PathIn(D, e) = IF e = Root THEN 1 ELSE l[n][e]
               /\ PathIn(E, e) = IF e = Root THEN 1 ELSE k[n][e]
    BY DEF PathIn
  <1> HIDE DEF l, k, n
  <1> DEFINE bad == {i \in 0 .. n : \E e \in W : l[i][e] # k[i][e]}
  <1>6. ASSUME bad # {} PROVE FALSE
    <2>1. PICK i \in bad : \A j \in bad : i <= j
      <3>1. bad \in SUBSET Nat
        OBVIOUS
      <3> QED BY <1>6, <3>1, LeastNatural
    <2>2. i \in 0 .. n /\ i \in Nat
      OBVIOUS
    <2>3. PICK e \in W : l[i][e] # k[i][e]
      BY <2>1
    <2>4. i # 0 /\ e # Root
      BY <1>1, <1>2, <1>4, <2>2, <2>3
    <2>5. /\ e \in Place /\ e \in DOMAIN D /\ e \in DOMAIN E /\ E[e] = D[e] /\ D[e].parent \in W
      BY <1>2, <2>4
    <2>6. i - 1 \in 0 .. n /\ ~(i <= i - 1)
      BY <1>1, <2>2, <2>4 DEF n
    <2>7. i - 1 \notin bad
      BY <2>1, <2>6
    <2>8. l[i - 1][D[e].parent] = k[i - 1][D[e].parent]
      BY <2>5, <2>6, <2>7
    <2> QED BY <1>4, <2>2, <2>3, <2>4, <2>5, <2>8
  <1>7. n \in 0 .. n
    BY <1>1 DEF n
  <1> QED BY <1>3, <1>5, <1>6, <1>7

LEMMA PathsAre ==
    /\ TypeOK => Collection(dirs)
    /\ TypeOK' => Collection(dirs')
    /\ \A d : PathLength(d) = PathIn(dirs, d)
    /\ \A d : PathLength(d)' = PathIn(dirs', d)
  <1>1. TypeOK => Collection(dirs)
    BY Places DEF Collection, Folders
  <1>2. ASSUME TypeOK' PROVE Collection(dirs')
    <2>1. /\ dborn' \in 0 .. MaxDirs /\ dirs' \in [DOMAIN dirs' -> Doc]
          /\ DOMAIN dirs' \subseteq 1 .. dborn' /\ MaxDirs \in Nat
      BY <1>2, TreeAssumption DEF TypeOK, TreeAssumption
    <2>2. DOMAIN dirs' \subseteq Dir
      BY <2>1 DEF Dir
    <2>3. \A d \in DOMAIN dirs' : dirs'[d].name \in Name
      BY <2>1 DEF Doc
    <2> QED BY <1>2, <2>2, <2>3, UnderIsInside DEF Collection
  <1>3. \A d : PathLength(d) = PathIn(dirs, d)
    BY DEF PathLength, PathIn, Lengths
  <1>4. \A d : PathLength(d)' = PathIn(dirs', d)
    BY DEF PathLength, PathIn, Lengths
  <1> QED BY <1>1, <1>2, <1>3, <1>4

\* A place reached, within reach of the root, with the length of its path; and no risk.
Right(s) ==
    /\ s.risk = "no"
    /\ s.at # Nowhere => s.at \in Under(Root) /\ s.length = PathLength(s.at)

LEMMA RightStep ==
    ASSUME TypeOK, NEW s, Good(s), Right(s), NEW n \in Name \cup {Up}
    PROVE  Right(Walk(s, n))
  <1>1. Collection(dirs) /\ Folders(dirs) /\ Root \in Place /\ Root \notin DOMAIN dirs
    BY PathsAre, Places DEF Collection
  <1>2. (\A q : Under(q) = Inside(dirs, q)) /\ (\A d : PathLength(d) = PathIn(dirs, d))
    BY UnderIsInside, PathsAre
  <1>3. s.risk = "no" /\ Walk(s, n).risk \in {"no", "may", "sure"}
    BY WalkStep DEF Right, Good, Walked
  <1>4. CASE s.at = Nowhere \/ (n = Up /\ s.at = Root)
    BY <1>4 DEF Walk
  <1>5. CASE n = Up /\ s.at # Root /\ s.at # Nowhere
    <2> DEFINE a == s.at
               q == dirs[a].parent
               len == NameLength[dirs[a].name]
    <2>1. a \in Inside(dirs, Root) /\ s.length = PathIn(dirs, a)
      BY <1>2, <1>5 DEF Right
    <2>2. a \in DOMAIN dirs /\ q \in Inside(dirs, Root)
      BY <1>1, <1>5, <2>1, Rooted
    <2>3. Exists(q)
      BY <1>1, <2>2, Rooted DEF Exists
    <2>4. /\ PathIn(dirs, a) \in Nat /\ PathIn(dirs, q) \in Nat
          /\ PathIn(dirs, a) + Slash(q) = PathIn(dirs, q) + 1 + len
      BY <1>1, <2>1, <2>2, PathStep
    <2>5. len \in Nat /\ Slash(q) \in {0, 1}
      BY <2>2, Places, TreeAssumption DEF TreeAssumption, Slash
    <2>6. q = Root => PathIn(dirs, q) = 1 /\ Slash(q) = 1
      BY DEF PathIn, Slash
    <2>7. q # Root => Slash(q) = 0
      BY DEF Slash
    <2> DEFINE left == s.length - len - 1
    <2>8. Walk(s, n) = [at     |-> IF Exists(q) THEN q ELSE Nowhere,
                        length |-> Slash(q) + IF left < 0 THEN s.length ELSE left,
                        risk   |-> IF ~Exists(q) THEN "sure" ELSE IF left < 0 THEN "may" ELSE s.risk]
      BY <1>5 DEF Walk, GoUp
    <2> HIDE DEF a, q, len
    <2>9. left = PathIn(dirs, q) - Slash(q) /\ ~(left < 0)
      BY <2>1, <2>4, <2>5, <2>6, <2>7
    <2>10. Slash(q) + left = PathIn(dirs, q)
      BY <2>4, <2>5, <2>9
    <2> HIDE DEF left
    <2>11. Walk(s, n).at = q /\ Walk(s, n).length = PathIn(dirs, q) /\ Walk(s, n).risk = "no"
      BY <1>3, <2>3, <2>8, <2>9, <2>10
    <2> QED BY <1>2, <2>2, <2>11 DEF Right
  <1>6. CASE n # Up /\ s.at # Nowhere
    <2>1. n \in Name /\ Walk(s, n) = GoDown(s, n)
      BY <1>6 DEF Walk
    <2>2. CASE DirNamed(n, s.at) = {}
      <3>1. Walk(s, n) = [s EXCEPT !.at = Nowhere]
        BY <2>1, <2>2 DEF GoDown
      <3>2. s \in Walked
        BY DEF Good
      <3> QED BY <1>3, <3>1, <3>2 DEF Right, Walked
    <2>3. CASE DirNamed(n, s.at) # {}
      <3> DEFINE d == CHOOSE x \in DirNamed(n, s.at) : TRUE
                 q == s.at
                 l == s.length + NameLength[n] + 1 - Slash(q)
      <3>1. d \in DirNamed(n, s.at)
        BY <2>3
      <3>2. Walk(s, n) = [s EXCEPT !.at = d, !.length = l]
        BY <2>1, <2>3 DEF GoDown
      <3> HIDE DEF d
      <3>3. d \in DOMAIN dirs /\ dirs[d].parent = q /\ dirs[d].name = n
        BY <3>1 DEF DirNamed, SubDirs
      <3>4. q \in Inside(dirs, Root) /\ s.length = PathIn(dirs, q)
        BY <1>2, <1>6 DEF Right
      <3>5. d \in Inside(dirs, Root)
        BY <1>1, <3>3, <3>4, Least DEF Closed
      <3>6. /\ PathIn(dirs, d) \in Nat /\ PathIn(dirs, q) \in Nat
            /\ PathIn(dirs, d) + Slash(q) = PathIn(dirs, q) + 1 + NameLength[n]
        BY <1>1, <3>3, <3>5, PathStep
      <3>7. NameLength[n] \in Nat /\ Slash(q) \in {0, 1}
        BY <2>1, TreeAssumption DEF TreeAssumption, Slash
      <3>8. l = PathIn(dirs, d)
        <4> HIDE DEF q
        <4> QED BY <3>4, <3>6, <3>7
      <3>9. s \in Walked
        BY DEF Good
      <3> HIDE DEF l
      <3>10. Walk(s, n).at = d /\ Walk(s, n).length = l /\ Walk(s, n).risk = s.risk
        BY <3>2, <3>9 DEF Walked
      <3> QED BY <1>2, <1>3, <3>5, <3>8, <3>10 DEF Right
    <2> QED BY <2>2, <2>3
  <1> QED BY <1>4, <1>5, <1>6

LEMMA RightPath ==
    ASSUME TypeOK, NEW p \in Given, Right(Start(p.abs))
    PROVE  Right(resolveDirPath(p))
  <1> DEFINE n == Len(p.steps)
  <1>1. n \in Nat
    BY LenProperties DEF Given
  <1>2. PICK walk : /\ resolveDirPath(p) = walk[n] /\ walk[0] = Start(p.abs)
                    /\ \A k \in 1 .. n : /\ p.steps[k] \in Name \cup {Up}
                                         /\ walk[k] = Walk(walk[k - 1], p.steps[k])
    BY Resolving
  <1>3. Good(Start(p.abs))
    <2>1. cwd \in Place /\ prompt \in Nat /\ Root \in Place
      BY Places DEF TypeOK
    <2> QED BY <2>1 DEF Start, Good, Walked, Exists
  <1> HIDE DEF n
  <1> DEFINE worse == {k \in 0 .. n : ~(Good(walk[k]) /\ Right(walk[k]))}
  <1>4. ASSUME worse # {} PROVE FALSE
    <2>1. PICK m \in worse : \A k \in worse : m <= k
      <3>1. worse \in SUBSET Nat
        BY <1>1
      <3> QED BY <1>4, <3>1, LeastNatural
    <2>2. m \in 0 .. n /\ m \in Nat /\ ~(Good(walk[m]) /\ Right(walk[m]))
      BY <1>1
    <2>3. m # 0
      BY <1>2, <1>3, <2>2
    <2>4. m - 1 \in 0 .. n /\ ~(m <= m - 1) /\ m \in 1 .. n
      BY <1>1, <2>2, <2>3
    <2>5. Good(walk[m - 1]) /\ Right(walk[m - 1])
      BY <2>1, <2>4
    <2>6. walk[m] = Walk(walk[m - 1], p.steps[m]) /\ p.steps[m] \in Name \cup {Up}
      BY <1>2, <2>4
    <2>7. Good(Walk(walk[m - 1], p.steps[m])) /\ Right(Walk(walk[m - 1], p.steps[m]))
      BY <2>5, <2>6, WalkStep, RightStep
    <2> QED BY <2>2, <2>6, <2>7
  <1>5. n \in 0 .. n
    BY <1>1
  <1> QED BY <1>2, <1>4, <1>5

----------------------------------------------------------------------------
(* The prompt tells where the console is, and when the process may end.     *)

\* Where the console is has been handed out before.  While nothing above it was moved or
\* renamed, it is within reach of the root, and the prompt has its path's length.
Here ==
    /\ cwd <= dborn
    /\ ~stale /\ Exists(cwd) => cwd \in Under(Root) /\ prompt = PathLength(cwd)

LEMMA HereIs ==
    /\ Here <=> /\ cwd <= dborn
                /\ ~stale /\ Exists(cwd) => cwd \in Inside(dirs, Root) /\ prompt = PathIn(dirs, cwd)
    /\ Here' <=> /\ cwd' <= dborn'
                 /\ ~stale' /\ Exists(cwd)' =>
                      cwd' \in Inside(dirs', Root) /\ prompt' = PathIn(dirs', cwd')
  <1>1. Under(Root) = Inside(dirs, Root) /\ Under(Root)' = Inside(dirs', Root)
    BY UnderIsInside
  <1>2. PathLength(cwd) = PathIn(dirs, cwd)
    BY PathsAre
  <1>3. PathLength(cwd)' = PathIn(dirs', cwd')
    BY DEF PathLength, PathIn, Lengths
  <1> QED BY <1>1, <1>2, <1>3 DEF Here

\* What keeps the prompt right: places within reach that stay as they are, with all that
\* is above them, the current directory among them.
LEMMA HereKept ==
    ASSUME TypeOK, TypeOK', Here, UNCHANGED <<cwd, prompt>>, dborn <= dborn',
           NEW W \in SUBSET Under(Root), Root \in W,
           \A e \in W : e # Root => e \in DOMAIN dirs' /\ dirs'[e] = dirs[e] /\ dirs[e].parent \in W,
           ~stale' /\ Exists(cwd)' => ~stale /\ Exists(cwd) /\ (cwd \in Under(Root) => cwd \in W)
    PROVE  Here'
  <1>1. Collection(dirs) /\ Collection(dirs')
    BY PathsAre
  <1>2. Under(Root) = Inside(dirs, Root) /\ Under(Root)' = Inside(dirs', Root)
    BY UnderIsInside
  <1>3. W \subseteq Under(Root)' /\ \A e \in W : PathIn(dirs', e) = PathIn(dirs, e)
    BY <1>1, <1>2, SamePaths
  <1>4. cwd' <= dborn'
    <2>1. cwd <= dborn /\ cwd \in Place /\ dborn \in Nat /\ dborn' \in Nat
      BY Places DEF Here, TypeOK
    <2>2. cwd \in Int
      BY <2>1 DEF Place, Dir, Root
    <2> QED BY <2>1, <2>2
  <1>5. ASSUME ~stale', Exists(cwd)'
        PROVE  cwd' \in Inside(dirs', Root) /\ prompt' = PathIn(dirs', cwd')
    <2>1. cwd \in W /\ prompt = PathIn(dirs, cwd)
      BY <1>2, <1>5, HereIs
    <2> QED BY <1>2, <1>3, <2>1
  <1> QED BY <1>4, <1>5, HereIs

\* mv and rename of a directory, and what they do to the prompt.
LEMMA Shaken ==
    ASSUME TypeOK,
           \/ \E p, dest \in Path : moveResource(p, dest)
           \/ \E p \in Path, n \in Name : renameResource(p, n)
    PROVE  \/ UNCHANGED <<dirs, stale>>
           \/ \E d \in DOMAIN dirs :
                /\ stale' = (stale \/ cwd \in Under(d)) /\ DOMAIN dirs' = DOMAIN dirs
                /\ \A e \in DOMAIN dirs \ {d} : dirs'[e] = dirs[e]
  <1> DEFINE Held == UNCHANGED <<dirs, stale>>
             Moved(d) == /\ stale' = (stale \/ cwd \in Under(d)) /\ DOMAIN dirs' = DOMAIN dirs
                         /\ \A e \in DOMAIN dirs \ {d} : dirs'[e] = dirs[e]
  <1>1. ASSUME NEW d \in DOMAIN dirs, NEW n, NEW q, SetDir(d, n, q) PROVE Held \/ Moved(d)
    BY <1>1 DEF SetDir, With
  <1>2. ASSUME NEW f, NEW n, NEW q, SetFile(f, n, q) PROVE Held
    BY <1>2 DEF SetFile, dirVars
  <1>3. ASSUME UNCHANGED <<dirVars, fileVars, stale>> PROVE Held
    BY <1>3 DEF dirVars
  <1>4. ASSUME NEW p \in Path PROVE LET d == resolveDirPath(p).at IN d \in DOMAIN dirs \cup {Root, Nowhere}
    BY PathsGiven DEF Good, Exists
  <1> HIDE DEF Held, Moved
  <1>5. ASSUME NEW p \in Path, NEW dest \in Path, moveResource(p, dest)
        PROVE  Held \/ \E d \in DOMAIN dirs : Moved(d)
    <2> DEFINE q == resolveDirPath(dest).at
               d == resolveDirPath(p).at
    <2>1. IF d = Root THEN UNCHANGED <<dirVars, fileVars, stale>>
          ELSE IF d # Nowhere THEN SetDir(d, dirs[d].name, q)
          ELSE \E f \in resolveFilePath(p) : SetFile(f, files[f].name, q)
      BY <1>5 DEF moveResource
    <2>2. d \in DOMAIN dirs \cup {Root, Nowhere}
      BY <1>4
    <2> HIDE DEF q, d
    <2> QED BY <1>1, <1>2, <1>3, <2>1, <2>2
  <1>6. ASSUME NEW p \in Path, NEW n \in Name, renameResource(p, n)
        PROVE  Held \/ \E d \in DOMAIN dirs : Moved(d)
    <2> DEFINE d == resolveDirPath(p).at
    <2>1. IF d = Root THEN UNCHANGED <<dirVars, fileVars, stale>>
          ELSE IF d # Nowhere THEN SetDir(d, n, dirs[d].parent)
          ELSE \E f \in resolveFilePath(p) : SetFile(f, n, files[f].parent)
      BY <1>6 DEF renameResource
    <2>2. d \in DOMAIN dirs \cup {Root, Nowhere}
      BY <1>4
    <2> HIDE DEF d
    <2> QED BY <1>1, <1>2, <1>3, <2>1, <2>2
  <1>7. Held \/ \E d \in DOMAIN dirs : Moved(d)
    BY <1>5, <1>6
  <1> QED BY <1>7 DEF Held, Moved

LEMMA ShakenHere ==
    ASSUME IInv, IInv', Here,
           \/ \E p, dest \in Path : moveResource(p, dest)
           \/ \E p \in Path, n \in Name : renameResource(p, n)
    PROVE  Here'
  <1>1. TypeOK /\ TypeOK'
    BY DEF IInv
  <1>2. UNCHANGED <<cwd, prompt, dborn>> /\ dborn \in Nat
    BY <1>1, Renamed, Places
  <1>3. /\ Folders(dirs) /\ Root \in Place /\ Root \notin DOMAIN dirs /\ DOMAIN dirs \subseteq Place
        /\ \A q : Under(q) = Inside(dirs, q)
    BY <1>1, UnderIsInside, Places
  <1>4. /\ Root \in Under(Root)
        /\ \A e \in Under(Root) : e # Root => e \in DOMAIN dirs /\ dirs[e].parent \in Under(Root)
    BY <1>3, Least, Rooted
  <1>5. CASE UNCHANGED <<dirs, stale>>
    <2>1. Exists(cwd)' <=> Exists(cwd)
      BY <1>2, <1>5 DEF Exists
    <2> DEFINE W == Under(Root)
    <2>2. /\ W \in SUBSET Under(Root) /\ Root \in W
          /\ \A e \in W : e # Root => e \in DOMAIN dirs' /\ dirs'[e] = dirs[e] /\ dirs[e].parent \in W
          /\ ~stale' /\ Exists(cwd)' => ~stale /\ Exists(cwd) /\ (cwd \in Under(Root) => cwd \in W)
      BY <1>4, <1>5, <2>1
    <2> HIDE DEF W
    <2> QED BY <1>1, <1>2, <2>2, HereKept
  <1>6. ASSUME NEW d \in DOMAIN dirs,
               stale' = (stale \/ cwd \in Under(d)), DOMAIN dirs' = DOMAIN dirs,
               \A e \in DOMAIN dirs \ {d} : dirs'[e] = dirs[e]
        PROVE  Here'
    <2>1. d \in Place
      BY <1>3
    <2>2. /\ d \in Under(d) /\ Root \notin Under(d)
          /\ \A e \in DOMAIN dirs : dirs[e].parent \in Under(d) => e \in Under(d)
      BY <1>3, <2>1, Least, Rooted DEF Closed
    <2>3. Exists(cwd)' <=> Exists(cwd)
      BY <1>2, <1>6 DEF Exists
    <2> DEFINE W == Under(Root) \ Under(d)
    <2>4. W \in SUBSET Under(Root) /\ Root \in W
      BY <1>4, <2>2
    <2>5. ASSUME NEW e \in W, e # Root
          PROVE  e \in DOMAIN dirs' /\ dirs'[e] = dirs[e] /\ dirs[e].parent \in W
      <3>1. e \in DOMAIN dirs /\ dirs[e].parent \in Under(Root) /\ e \notin Under(d)
        BY <1>4, <2>5
      <3>2. e # d /\ dirs[e].parent \notin Under(d)
        BY <2>2, <3>1
      <3> QED BY <1>6, <3>1, <3>2
    <2>6. ~stale' /\ Exists(cwd)' => ~stale /\ Exists(cwd) /\ (cwd \in Under(Root) => cwd \in W)
      BY <1>6, <2>3
    <2> HIDE DEF W
    <2> QED BY <1>1, <1>2, <2>4, <2>5, <2>6, HereKept
  <1> QED BY <1>1, <1>5, <1>6, Shaken

LEMMA ChangedHere ==
    ASSUME IInv, IInv', Here, NEW p \in Path, changeDir(p)
    PROVE  Here'
  <1> DEFINE s == resolveDirPath(p)
  <1>1. TypeOK /\ TypeOK'
    BY DEF IInv
  <1>2. /\ s.at # Nowhere /\ cwd' = s.at /\ prompt' = s.length /\ stale' = (stale /\ ~p.abs)
        /\ UNCHANGED <<dirs, dborn>>
    BY DEF changeDir, dirVars
  <1>3. p \in Given /\ (Exists(s.at) \/ s.at = Nowhere)
    BY <1>1, PathsGiven DEF Good
  <1>4. cwd' <= dborn'
    <2>1. DOMAIN dirs \subseteq 1 .. dborn /\ dborn \in Nat
      BY <1>1, Places DEF TypeOK
    <2>2. s.at \in DOMAIN dirs \cup {Root}
      BY <1>2, <1>3 DEF Exists
    <2> HIDE DEF s
    <2> QED BY <1>2, <2>1, <2>2 DEF Root
  <1>5. ASSUME ~stale' PROVE Right(s)
    <2>1. Right(Start(p.abs))
      <3>1. Root \in Under(Root) /\ PathLength(Root) = 1
        <4>1. Root \in Place
          BY <1>1, Places
        <4> QED BY <1>1, <4>1, UnderIsInside, Least DEF PathLength
      <3>2. p.abs \in BOOLEAN
        BY <1>3 DEF Given
      <3>3. CASE p.abs
        BY <3>1, <3>3 DEF Right, Start
      <3>4. CASE ~p.abs
        <4>1. ~stale
          BY <1>2, <1>5, <3>4
        <4> QED BY <3>4, <4>1 DEF Right, Start, Here
      <3> QED BY <3>2, <3>3, <3>4
    <2> QED BY <1>1, <1>3, <2>1, RightPath
  <1>6. ASSUME ~stale' PROVE cwd' \in Inside(dirs', Root) /\ prompt' = PathIn(dirs', cwd')
    <2>1. s.at \in Under(Root) /\ s.length = PathLength(s.at)
      BY <1>2, <1>5, <1>6 DEF Right
    <2>2. s.at \in Inside(dirs, Root) /\ s.length = PathIn(dirs, s.at)
      BY <2>1, UnderIsInside, PathsAre
    <2> QED BY <1>2, <2>2
  <1> QED BY <1>4, <1>6, HereIs

LEMMA DeletedHere ==
    ASSUME IInv, IInv', Here, DeleteItself
    PROVE  Here'
  <1> DEFINE x == Frame1.dir
             W == Under(Root) \ (DOMAIN dirs \cap {x})
  <1>1. TypeOK /\ TypeOK'
    BY DEF IInv
  <1>2. UNCHANGED <<cwd, prompt, stale, dborn>> /\ dborn \in Nat
    BY <1>1, Places DEF DeleteItself, Removing, cwdVars
  <1>3. /\ Folders(dirs) /\ Root \in Place /\ Root \notin DOMAIN dirs
        /\ Under(Root) = Inside(dirs, Root)
    BY <1>1, UnderIsInside, Places
  <1>4. /\ Root \in Under(Root)
        /\ \A e \in Under(Root) : e # Root => e \in DOMAIN dirs /\ dirs[e].parent \in Under(Root)
    BY <1>3, Least, Rooted
  <1>5. /\ \A e \in DOMAIN dirs : dirs[e].parent # x
        /\ DOMAIN dirs' = DOMAIN dirs \ {x} /\ \A e \in DOMAIN dirs' : dirs'[e] = dirs[e]
    BY NothingLeft, DeleteItselfKeeps
  <1> HIDE DEF x
  <1>6. Exists(cwd)' => Exists(cwd) /\ cwd \notin DOMAIN dirs \cap {x}
    BY <1>2, <1>3, <1>5 DEF Exists
  <1>7. /\ W \in SUBSET Under(Root) /\ Root \in W
        /\ \A e \in W : e # Root => e \in DOMAIN dirs' /\ dirs'[e] = dirs[e] /\ dirs[e].parent \in W
        /\ ~stale' /\ Exists(cwd)' => ~stale /\ Exists(cwd) /\ (cwd \in Under(Root) => cwd \in W)
    BY <1>2, <1>3, <1>4, <1>5, <1>6
  <1> HIDE DEF W
  <1> QED BY <1>1, <1>2, <1>7, HereKept

LEMMA SavedHere ==
    ASSUME IInv, IInv', Here, SaveNewDir
    PROVE  Here'
  <1> DEFINE W == Under(Root)
  <1>1. TypeOK /\ TypeOK' /\ DocTypes /\ ConsoleTypes
    BY Types DEF IInv
  <1>2. UNCHANGED <<cwd, prompt, stale>>
    BY DEF SaveNewDir, cwdVars
  <1>3. mongo_dir_save(cnew.name, cnew.parent) /\ cnew.name \in Name /\ cnew.parent \in Place
    BY <1>1 DEF SaveNewDir, ConsoleTypes, Doc
  <1>4. \/ dirs' = dirs
        \/ (/\ DOMAIN dirs' = DOMAIN dirs \cup {dborn + 1}
            /\ \A d \in DOMAIN dirs : dirs'[d] = dirs[d])
    BY <1>1, <1>3, DirSaved
  <1>5. dborn <= dborn' /\ cwd # dborn + 1
    <2>1. dborn \in Nat /\ cwd \in Place /\ cwd <= dborn
      BY <1>1, Places DEF TypeOK, Here
    <2>2. cwd \in Int
      BY <2>1 DEF Place, Dir, Root
    <2>3. dborn' = dborn \/ dborn' = dborn + 1
      BY <1>3 DEF mongo_dir_save, dirVars
    <2> QED BY <2>1, <2>2, <2>3
  <1>6. /\ Folders(dirs) /\ Root \in Place /\ Under(Root) = Inside(dirs, Root)
    BY <1>1, UnderIsInside, Places
  <1>7. /\ Root \in Under(Root)
        /\ \A e \in Under(Root) : e # Root => e \in DOMAIN dirs /\ dirs[e].parent \in Under(Root)
    BY <1>6, Least, Rooted
  <1>8. Exists(cwd)' => Exists(cwd)
    BY <1>2, <1>4, <1>5 DEF Exists
  <1>9. /\ W \in SUBSET Under(Root) /\ Root \in W
        /\ \A e \in W : e # Root => e \in DOMAIN dirs' /\ dirs'[e] = dirs[e] /\ dirs[e].parent \in W
        /\ ~stale' /\ Exists(cwd)' => ~stale /\ Exists(cwd) /\ (cwd \in Under(Root) => cwd \in W)
    BY <1>2, <1>4, <1>7, <1>8
  <1> HIDE DEF W
  <1> QED BY <1>1, <1>2, <1>5, <1>9, HereKept

\* format goes back to the root; between its two steps there is no other place to be.
LEMMA FormatHere ==
    ASSUME IInv, IInv', Here, format \/ FormatFiles
    PROVE  Here'
  <1>1. TypeOK /\ TypeOK'
    BY DEF IInv
  <1>2. Root \in Inside(dirs', Root) /\ PathIn(dirs', Root) = 1
    <2>1. Root \in Place
      BY <1>1, Places
    <2> QED BY <1>1, <2>1, UnderIsInside, Least DEF PathIn
  <1>3. UNCHANGED dborn /\ dborn \in Nat
    BY <1>1, Places DEF format, FormatFiles, dirVars
  <1>4. CASE format
    <2>1. dirs' = <<>> /\ UNCHANGED <<cwd, prompt, stale>>
      BY <1>4 DEF format, cwdVars
    <2>2. Exists(cwd)' => cwd = Root
      BY <2>1 DEF Exists
    <2>3. cwd = Root /\ ~stale => prompt = 1
      BY HereIs DEF Exists, PathIn
    <2> QED BY <1>2, <1>3, <2>1, <2>2, <2>3, HereIs
  <1>5. CASE FormatFiles
    <2>1. cwd' = Root /\ prompt' = 1
      BY <1>5 DEF FormatFiles
    <2>2. cwd' <= dborn'
      BY <1>3, <2>1 DEF Root
    <2> QED BY <1>2, <2>1, <2>2, HereIs
  <1> QED BY <1>4, <1>5

LEMMA StepHere ==
    ASSUME IInv, IInv', Here, [Next]_vars
    PROVE  Here'
  <1>1. ASSUME UNCHANGED <<dirVars, cwdVars>> PROVE Here'
    <2>1. UNCHANGED <<dirs, dborn, cwd, prompt, stale>>
      BY <1>1 DEF dirVars, cwdVars
    <2> QED BY <2>1, HereIs DEF Exists
  <1>2. CASE \/ \E p \in Path : CrashOnPath(p) \/ deleteFile(p) \/ deleteDir(p)
             \/ \E p \in Path, n \in Name : copyFile(n, p)
             \/ \E n \in Name : makeDir(n)
             \/ SaveNewFile
    BY <1>1, <1>2 DEF CrashOnPath, deleteFile, deleteDir, copyFile, makeDir, SaveNewFile
  <1>3. CASE Console
    BY <1>2, <1>3, ShakenHere, ChangedHere, SavedHere, FormatHere DEF Console
  <1>4. CASE DeleteChildFile \/ ListChildDirs \/ DeleteChildDir
    <2>1. UNCHANGED dirVars
      BY <1>4 DEF DeleteChildFile, ListChildDirs, DeleteChildDir, dirVars
    <2>2. UNCHANGED cwdVars
      BY <1>4 DEF DeleteChildFile, ListChildDirs, DeleteChildDir, Removing
    <2> QED BY <1>1, <2>1, <2>2
  <1>5. CASE RemoveTree
    BY <1>4, <1>5, DeletedHere DEF RemoveTree
  <1>6. CASE Results
    <2>1. Marta
      BY <1>6 DEF Results, StartCopy, NextDir, CheckName, SaveResult
    <2> QED BY <1>1, <2>1 DEF Marta
  <1>7. CASE UNCHANGED vars
    BY <1>1, <1>7 DEF vars
  <1> QED BY <1>3, <1>5, <1>6, <1>7 DEF Next, Crashed

\* A call under way is of a directory under those of the calls before it: the last one
\* that were not would be inside the one before.
LEMMA CallsNest ==
    ASSUME IInv, stack # <<>>, NEW i \in 1 .. Len(stack)
    PROVE  \A j \in i .. Len(stack) : stack[j].dir \in Under(stack[i].dir)
  <1> DEFINE n == Len(stack)
             q == stack[i].dir
             bad == {j \in i .. n : stack[j].dir \notin Under(q)}
  <1>1. TypeOK /\ \A k \in 1 .. n : FrameOK(k)
    BY Facts
  <1>2. n \in Nat /\ q \in Place
    BY <1>1, FrameTypes
  <1>3. q \in Under(q) /\ \A e \in DOMAIN dirs : dirs[e].parent \in Under(q) => e \in Under(q)
    BY <1>1, <1>2, UnderIsInside, Least DEF Closed
  <1>4. ASSUME bad # {} PROVE FALSE
    <2>1. PICK j \in bad : \A k \in bad : j <= k
      <3>1. bad \in SUBSET Nat
        BY <1>2
      <3> QED BY <1>4, <3>1, LeastNatural
    <2>2. j \in i .. n /\ stack[j].dir \notin Under(q)
      OBVIOUS
    <2>3. j # i
      BY <1>3, <2>2
    <2>4. j \in 1 .. n /\ j > 1 /\ j - 1 \in i .. n /\ ~(j <= j - 1)
      BY <1>2, <2>2, <2>3
    <2>5. stack[j].dir \in DOMAIN dirs /\ dirs[stack[j].dir].parent = stack[j - 1].dir
      BY <1>1, <2>4 DEF FrameOK
    <2>6. j - 1 \notin bad
      BY <2>1, <2>4
    <2>7. stack[j - 1].dir \in Under(q)
      BY <2>4, <2>6
    <2> QED BY <1>3, <2>2, <2>5, <2>7
  <1> QED BY <1>4

LEMMA StepCrashes ==
    ASSUME IInv, Here, CrashesNeedMoves, [Next]_vars
    PROVE  CrashesNeedMoves'
  <1> DEFINE Looped == \E d \in DOMAIN dirs : dirs[d].parent \in Under(d)
  <1>1. TypeOK
    BY DEF IInv
  <1>2. (\A d : Under(d) = Inside(dirs, d)) /\ (UNCHANGED dirs => (Looped <=> Looped'))
    BY UnderIsInside DEF Under
  <1>3. ASSUME crashed' = FALSE PROVE CrashesNeedMoves'
    BY <1>3 DEF CrashesNeedMoves
  <1>4. ASSUME UNCHANGED <<dirs, stale>>, stale \/ Looped PROVE CrashesNeedMoves'
    BY <1>2, <1>4 DEF CrashesNeedMoves
  <1>5. ASSUME UNCHANGED <<dirs, stale, crashed>> PROVE CrashesNeedMoves'
    BY <1>2, <1>5 DEF CrashesNeedMoves
  <1>6. ASSUME NEW p \in Path, CrashOnPath(p) PROVE CrashesNeedMoves'
    <2>1. resolveDirPath(p).risk # "no" /\ UNCHANGED <<dirs, stale>>
      BY <1>6 DEF CrashOnPath, dirVars, cwdVars
    <2>2. p \in Given /\ p.abs \in BOOLEAN
      BY <1>1, PathsGiven DEF Given
    <2>3. ~Right(Start(p.abs))
      BY <1>1, <2>1, <2>2, RightPath DEF Right
    <2>4. Root \in Under(Root) /\ PathLength(Root) = 1
      <3>1. Root \in Place
        BY <1>1, Places
      <3> QED BY <1>1, <3>1, UnderIsInside, Least DEF PathLength
    <2>5. ~p.abs
      BY <2>3, <2>4 DEF Right, Start
    <2>6. stale
      BY <2>3, <2>5 DEF Right, Start, Here
    <2> QED BY <1>4, <2>1, <2>6
  <1>7. CASE DeleteChildDir
    <2> DEFINE n == Len(stack)
    <2>1. stack # <<>> /\ UNCHANGED <<dirs, stale>>
      BY <1>7 DEF DeleteChildDir, Removing, dirVars, cwdVars
    <2>2. PICK d \in stack[n].dirs : (\E i \in DOMAIN stack : stack[i].dir = d) \/ UNCHANGED crashed
      BY <1>7 DEF DeleteChildDir, Frame1
    <2>3. ASSUME NEW i \in DOMAIN stack, stack[i].dir = d PROVE Looped
      <3>1. n \in Nat /\ n \in 1 .. n /\ i \in 1 .. n /\ n \in i .. n
        BY <1>1, <2>1, FrameTypes
      <3>2. d \in DOMAIN dirs /\ dirs[d].parent = stack[n].dir
        BY <2>1, <3>1, Facts DEF FrameOK
      <3>3. stack[n].dir \in Under(d)
        BY <2>1, <2>3, <3>1, CallsNest
      <3> QED BY <3>2, <3>3
    <2> QED BY <1>4, <1>5, <2>1, <2>2, <2>3
  <1>8. CASE ~crashed /\ Console
    <2>1. (\E p \in Path : CrashOnPath(p)) \/ UNCHANGED crashed
      BY <1>8, Renamed, <1>1 DEF Console, changeDir, deleteFile, deleteDir, copyFile, makeDir, SaveNewDir,
                  SaveNewFile, format, FormatFiles
    <2>2. crashed \in BOOLEAN
      BY <1>1 DEF TypeOK
    <2> QED BY <1>3, <1>6, <1>8, <2>1, <2>2
  <1>9. CASE ~crashed /\ RemoveTree
    <2>1. DeleteChildDir \/ UNCHANGED crashed
      BY <1>9 DEF RemoveTree, DeleteChildFile, ListChildDirs, DeleteItself
    <2>2. crashed \in BOOLEAN
      BY <1>1 DEF TypeOK
    <2> QED BY <1>3, <1>7, <1>9, <2>1, <2>2
  <1>10. CASE Results
    <2>1. Marta
      BY <1>10 DEF Results, StartCopy, NextDir, CheckName, SaveResult
    <2> QED BY <1>5, <2>1 DEF Marta, dirVars, cwdVars
  <1>11. CASE UNCHANGED vars
    BY <1>5, <1>11 DEF vars, dirVars, cwdVars
  <1> QED BY <1>8, <1>9, <1>10, <1>11 DEF Next, Crashed

\* The prompt while the process runs, and what it ended by.
LEMMA AlwaysHere == Spec => [](IInv /\ Here /\ CrashesNeedMoves)
  <1>1. Init => IInv /\ Here /\ CrashesNeedMoves
    <2>1. SUFFICES ASSUME Init PROVE IInv /\ Here /\ CrashesNeedMoves
      OBVIOUS
    <2>2. IInv /\ TypeOK
      BY <2>1, InitIInv DEF IInv
    <2>3. cwd = Root /\ prompt = 1 /\ dborn = 0 /\ crashed = FALSE
      BY <2>1 DEF Init
    <2>4. Root \in Inside(dirs, Root) /\ PathIn(dirs, Root) = 1
      <3>1. Root \in Place
        BY <2>2, Places
      <3> QED BY <2>2, <3>1, UnderIsInside, Least DEF PathIn
    <2>5. cwd <= dborn
      BY <2>3 DEF Root
    <2>6. Here
      BY <2>3, <2>4, <2>5, HereIs
    <2> QED BY <2>2, <2>3, <2>6 DEF CrashesNeedMoves
  <1>2. IInv /\ Here /\ CrashesNeedMoves /\ [Next]_vars => (IInv /\ Here /\ CrashesNeedMoves)'
    BY StepIInv, StepHere, StepCrashes
  <1> QED BY <1>1, <1>2, PTL DEF Spec

\* The prompt is edited step by step by every cd (filesystem_resolveDirPath) and never read
\* again from the directories; it has all the same the length of the path of the current
\* directory, until mv or rename changes what is above that.
THEOREM PromptTells == Spec => []PromptTellsWhere
  <1>1. Here => PromptTellsWhere
    BY DEF Here, PromptTellsWhere
  <1> QED BY AlwaysHere, <1>1, PTL

\* No path ends the process, by a parent that is not there or a prompt with fewer characters
\* than ".." takes off, and no rm -r calls itself without end, unless mv or rename made the
\* prompt wrong or mv put a directory inside itself (filesystem_moveDir checks neither).
THEOREM CrashesJustified == Spec => []CrashesNeedMoves
  <1> QED BY AlwaysHere, PTL
=============================================================================
