----------------------------- MODULE BlockStore -----------------------------
(***************************************************************************)
(* Where the file system, src/FileSystem, keeps the blocks of its files.   *)
(* Two collections of the database describe it: a document per file, with  *)
(* the copies of each block, and a document per node, with the bitmap of   *)
(* the blocks in use.  The blocks themselves are in the nodes.             *)
(*                                                                         *)
(* Three kinds of thread change them and no lock orders them: the console, *)
(* the thread that listens to MaRTA (copyFinalResult) and a thread per     *)
(* node that connects (connections_node_accept).  One step is one          *)
(* operation on the database, one block sent to or read from a node, or a  *)
(* stretch of thread-local code.  A bitmap is read whole and written whole.*)
(***************************************************************************)
EXTENDS Integers, FiniteSets, FiniteSetsExt

CONSTANTS
    Thread,     \* the threads that store files: "console", "marta"
    Node,       \* the nodes
    Known,      \* the nodes connected and active at the start
    BlocksCount, \* the blocks of a node
    File,       \* the paths files are stored at
    Blocks,     \* the number of blocks of the file stored at a path
    Copies,     \* FILESYSTEM_BLOCK_COPIES
    MaxFaults,  \* bound on nodes that die and documents that are not saved
    MaxMoves,   \* bound on nodes that connect and nodes that are disabled
    NewNodes    \* the nodes that say they are new whenever they connect

ASSUME BlockStoreAssumption ==
    /\ "console" \in Thread /\ Thread \subseteq {"console", "marta"}
    /\ IsFiniteSet(Node) /\ Known \subseteq Node /\ NewNodes \subseteq Node
    /\ BlocksCount \in Nat \ {0}
    /\ File # {} /\ Blocks \in [File -> Nat \ {0}]
    /\ Copies \in Nat \ {0} /\ MaxFaults \in Nat /\ MaxMoves \in Nat

VARIABLES
    \* the database
    nodes,    \* the nodes that have a document
    used,     \* node->blocks, the bitmap in each node's document
    files,    \* the paths that have a document
    author,   \* the thread that stored the document
    copies,   \* file->blocks of each document: <<block, node, slot>>
    \* the nodes and their connections
    disk,     \* what each slot of each node holds
    alive,    \* the nodes whose connection works
    active,   \* activeNodesSockets
    standby,  \* standbyNodesSockets
    \* each thread that runs commands: where it is, and its local variables
    pc, cmd, path, block, snap, cand, plan, todo, failed, data,
    \* each accepting thread, one per node
    joining, pulls,
    \* the environment
    faults, moves, crashed

docVars == <<files, author, copies>>
dbVars  == <<nodes, used, docVars>>
netVars == <<alive, active, standby>>
argVars == <<cmd, path>>
runVars == <<block, snap, cand, plan, todo, failed, data>>
locVars == <<pc, argVars, runVars>>
accVars == <<joining, pulls, moves>>
envVars == <<faults, crashed>>
vars == <<dbVars, disk, netVars, locVars, accVars, envVars>>

Slot  == 0 .. BlocksCount - 1
Block == UNION {1 .. Blocks[f] : f \in File}
Copy  == Block \X Node \X Slot

\* What a slot holds: a block of the file a thread stored at a path; or data no
\* file has any more, or nothing.
Stale == <<"stale">>
Data  == (Thread \X File \X Block) \cup {Stale}

PC == {"idle", "read", "plan", "send", "bits", "save", "free", "freed",
       "fetch", "choose", "copy", "copybits", "copydoc", "pull",
       "format", "formatnode"}
Command == {"store", "rm", "cpb", "rmb", "format"}

\* Every variable has its type: the two collections, the connections, and the
\* local variables of each thread.  A slot handed out exists.
TypeOK ==
    /\ nodes \subseteq Node /\ used \in [Node -> SUBSET Slot]
    /\ files \subseteq File /\ author \in [File -> Thread]
    /\ copies \in [File -> SUBSET Copy]
    /\ disk \in [Node -> [Slot -> Data]]
    /\ alive \subseteq Node /\ active \subseteq Node /\ standby \subseteq Node
    /\ pc \in [Thread -> PC] /\ cmd \in [Thread -> Command]
    /\ path \in [Thread -> File] /\ block \in [Thread -> Block]
    /\ snap \in [Thread -> [Node -> SUBSET Slot]]
    /\ cand \in [Thread -> SUBSET Node] /\ plan \in [Thread -> SUBSET Copy]
    /\ todo \in [Thread -> SUBSET Copy] /\ failed \in [Thread -> BOOLEAN]
    /\ data \in [Thread -> Data]
    /\ joining \in [Node -> {"no", "find", "pull"}]
    /\ pulls \in [Node -> SUBSET (File \X Copy)]
    /\ faults \in Nat /\ moves \in Nat
    /\ crashed \in BOOLEAN

----------------------------------------------------------------------------
Goto(t, label) == pc' = [pc EXCEPT ![t] = label]
Faulty == faults > 0 /\ faults' = faults - 1

\* The copies of a block in the document of a file.
CopiesOf(f, b) == {c \in copies[f] : c[1] = b}

FreeSlots(bits) == Slot \ bits

\* A mutant of FirstFree: the block after the last one used.
AfterLast(bits) == IF bits = {} THEN 0 ELSE Max(bits) + 1

\* node_getFirstFreeBlock, on a bitmap read before.
FirstFree(bits) == Min(FreeSlots(bits))

\* The first k of some nodes, sorted by filesystem_nodeComparatorByBlocksFree;
\* the order of nodes that are equally free is left open.
MostFree(k, S, bits) ==
    {T \in kSubset(k, S) : \A n \in T, m \in S \ T :
        Cardinality(FreeSlots(bits[n])) >= Cardinality(FreeSlots(bits[m]))}

\* The bitmaps of some nodes, read from the database.
ReadBits(S) == [n \in Node |-> IF n \in S THEN used[n] ELSE {}]
NoBits == [n \in Node |-> {}]

\* A mutant of MarkUsed: the plan goes on as if the blocks were free.
MarkNothing(t, T) == snap' = snap

\* node_setBlockUsed on the bitmaps that were read: nothing is saved.
MarkUsed(t, T) ==
    snap' = [snap EXCEPT ![t] =
               [n \in Node |-> IF n \in T THEN @[n] \cup {FirstFree(@[n])} ELSE @[n]]]

\* connections_node_sendBlock: the data reaches the node; or there is no active
\* connection; or it is broken, which is noticed (and the node is removed) or not
\* (and the data is lost).  The node answers nothing.
SendOk(c, d) ==
    /\ c[2] \in active
    /\ disk' = IF c[2] \in alive THEN [disk EXCEPT ![c[2]][c[3]] = d] ELSE disk
    /\ UNCHANGED active
SendFails(c) ==
    /\ c[2] \notin active \cap alive
    /\ active' = active \ {c[2]}
    /\ UNCHANGED disk

\* What the path of an idle thread is does not matter.
AFile == CHOOSE f \in File : TRUE

\* Documents are deleted: what the nodes hold for them is nobody's, and what an
\* accepting thread still has to do on them has no effect.
Forget(F) ==
    /\ files' = files \ F
    /\ copies' = [f \in File |-> IF f \in F THEN {} ELSE copies[f]]
    /\ disk' = [n \in Node |-> [s \in Slot |->
                  IF \E f \in F \cap files, b \in Block : disk[n][s] = <<author[f], f, b>>
                  THEN Stale ELSE disk[n][s]]]
    /\ pulls' = [n \in Node |-> {p \in pulls[n] : p[1] \notin F}]
    /\ UNCHANGED author

\* A file is not saved: what the nodes hold for it is nobody's.
Abandon(t) ==
    disk' = [n \in Node |-> [s \in Slot |->
               IF /\ \E b \in Block : disk[n][s] = <<t, path[t], b>>
                  /\ ~(path[t] \in files /\ author[path[t]] = t)
               THEN Stale ELSE disk[n][s]]]

\* The thread ends its command, with whatever result.
End(t) ==
    /\ Goto(t, "idle")
    /\ cmd' = [cmd EXCEPT ![t] = "store"] /\ path' = [path EXCEPT ![t] = AFile]
    /\ block' = [block EXCEPT ![t] = 1]
    /\ snap' = [snap EXCEPT ![t] = NoBits]
    /\ cand' = [cand EXCEPT ![t] = {}] /\ plan' = [plan EXCEPT ![t] = {}]
    /\ todo' = [todo EXCEPT ![t] = {}]
    /\ failed' = [failed EXCEPT ![t] = FALSE]
    /\ data' = [data EXCEPT ![t] = Stale]

----------------------------------------------------------------------------
Init ==
    /\ nodes = Known /\ used = [n \in Node |-> {}]
    /\ files = {} /\ author = [f \in File |-> "console"]
    /\ copies = [f \in File |-> {}]
    /\ disk = [n \in Node |-> [s \in Slot |-> Stale]]
    /\ alive = Known /\ active = Known /\ standby = {}
    /\ pc = [t \in Thread |-> "idle"] /\ cmd = [t \in Thread |-> "store"]
    /\ path = [t \in Thread |-> AFile]
    /\ block = [t \in Thread |-> 1]
    /\ snap = [t \in Thread |-> [n \in Node |-> {}]]
    /\ cand = [t \in Thread |-> {}] /\ plan = [t \in Thread |-> {}]
    /\ todo = [t \in Thread |-> {}] /\ failed = [t \in Thread |-> FALSE]
    /\ data = [t \in Thread |-> Stale]
    /\ joining = [n \in Node |-> "no"] /\ pulls = [n \in Node |-> {}]
    /\ faults = MaxFaults /\ moves = MaxMoves
    /\ crashed = FALSE

\* A command starts, on the file of a path.
Start(t, command, f, label) ==
    /\ pc[t] = "idle"
    /\ cmd' = [cmd EXCEPT ![t] = command]
    /\ path' = [path EXCEPT ![t] = f]
    /\ Goto(t, label)

----------------------------------------------------------------------------
\* copyFileFromFS and copyTmpFileToMDFS: canCreateResource said yes.
StoreFile(t) ==
    /\ \E f \in File \ files : Start(t, "store", f, "read")
    /\ UNCHANGED <<dbVars, disk, netVars, runVars, accVars, envVars>>

\* distributeBlocksToNodes: the documents of the nodes that are active.
ReadNodes(t) ==
    /\ pc[t] = "read"
    /\ cand' = [cand EXCEPT ![t] = nodes \cap active]
    /\ snap' = [snap EXCEPT ![t] = ReadBits(nodes \cap active)]
    /\ Goto(t, "plan")
    /\ UNCHANGED <<dbVars, disk, netVars, argVars, block, plan, todo, failed, data,
                   accVars, envVars>>

\* distributeBlocksToNodes: the copies of the next block go to the freest nodes,
\* or the whole plan is dropped: too few nodes, or one of those is full.
PlanBlock(t) ==
    LET best == MostFree(Copies, cand[t], snap[t])
        full(n) == FreeSlots(snap[t][n]) = {}
    IN  /\ pc[t] = "plan"
        /\ \/ \E T \in best :
                /\ \A n \in T : ~full(n)
                /\ MarkUsed(t, T)
                /\ plan' = [plan EXCEPT ![t] =
                      @ \cup {<<block[t], n, FirstFree(snap[t][n])>> : n \in T}]
                /\ \/ /\ block[t] < Blocks[path[t]]
                      /\ block' = [block EXCEPT ![t] = @ + 1]
                      /\ UNCHANGED <<pc, cand, todo>>
                   \/ /\ block[t] = Blocks[path[t]]
                      /\ todo' = [todo EXCEPT ![t] = plan'[t]]
                      /\ cand' = [cand EXCEPT ![t] = {}]
                      /\ Goto(t, "send")
                      /\ UNCHANGED block
                /\ UNCHANGED <<argVars, failed, data>>
           \/ /\ best = {} \/ \E T \in best : \E n \in T : full(n)
              /\ End(t)
        /\ UNCHANGED <<dbVars, disk, netVars, accVars, envVars>>

\* A mutant of SetFailed: the copy that was not sent is forgotten.
SetNothing(t) == failed' = failed

\* setFailed.
SetFailed(t) == failed' = [failed EXCEPT ![t] = TRUE]

\* distributeBlocksToNodes, one of the threads that send the copies, in any order;
\* once one has failed the others do not try.
SendBlock(t) ==
    /\ pc[t] = "send"
    /\ \E c \in todo[t] :
         /\ todo' = [todo EXCEPT ![t] = @ \ {c}]
         /\ \/ SendOk(c, <<t, path[t], c[1]>>) /\ UNCHANGED failed
            \/ SendFails(c) /\ SetFailed(t)
            \/ failed[t] /\ UNCHANGED <<disk, active, failed>>
    /\ UNCHANGED <<dbVars, alive, standby, pc, argVars, block, snap, cand, plan,
                   data, accVars, envVars>>

\* The senders are joined: if none failed the bitmaps are saved.
JoinSenders(t) ==
    /\ pc[t] = "send" /\ todo[t] = {}
    /\ \/ failed[t] /\ Abandon(t) /\ End(t)
       \/ /\ ~failed[t]
          /\ todo' = [todo EXCEPT ![t] = plan[t]]
          /\ Goto(t, "bits")
          /\ UNCHANGED <<disk, argVars, block, snap, cand, plan, failed, data>>
    /\ UNCHANGED <<dbVars, netVars, accVars, envVars>>

\* mongo_node_updateBlocks, once per copy: the bitmap read before the plan, with
\* the blocks of the plan, replaces the one in the document.
SaveBits(t) ==
    /\ pc[t] = "bits"
    /\ \E c \in todo[t] :
         /\ used' = [used EXCEPT ![c[2]] = snap[t][c[2]]]
         /\ todo' = [todo EXCEPT ![t] = @ \ {c}]
         /\ Goto(t, IF todo[t] = {c} THEN "save" ELSE "bits")
    /\ UNCHANGED <<nodes, docVars, disk, netVars, argVars, block, snap, cand, plan,
                   failed, data, accVars, envVars>>

\* A mutant of Undo: the blocks of the file are not set free.
UndoNothing(t) == todo' = [todo EXCEPT ![t] = {}]

\* filesystem_deleteFile, of a file whose document could not be saved.
Undo(t) == todo' = [todo EXCEPT ![t] = plan[t]]

\* mongo_file_save: the index on name and parent refuses a second document at the
\* path.  The console then deletes the blocks; the thread of MaRTA does it through
\* a file it has just freed: they may be deleted or not, or the process crashes.
SaveFile(t) ==
    /\ pc[t] = "save"
    /\ \/ /\ path[t] \notin files
          /\ files' = files \cup {path[t]}
          /\ author' = [author EXCEPT ![path[t]] = t]
          /\ copies' = [copies EXCEPT ![path[t]] = plan[t]]
          /\ End(t)
          /\ UNCHANGED <<disk, envVars>>
       \/ /\ (path[t] \in files /\ UNCHANGED faults) \/ Faulty
          /\ Abandon(t)
          /\ \/ /\ Undo(t)
                /\ plan' = [plan EXCEPT ![t] = {}]
                /\ snap' = [snap EXCEPT ![t] = NoBits]
                /\ Goto(t, "free")
                /\ UNCHANGED <<argVars, block, cand, failed, data, crashed>>
             \/ /\ t = "marta" /\ End(t)
                /\ crashed' \in BOOLEAN
          /\ UNCHANGED docVars
    /\ UNCHANGED <<nodes, used, netVars, accVars>>

----------------------------------------------------------------------------
\* rm <file>: the document of the file is read.
RemoveFile(t) ==
    /\ t = "console"
    /\ \E f \in files : /\ Start(t, "rm", f, "free")
                       /\ todo' = [todo EXCEPT ![t] = copies[f]]
    /\ UNCHANGED <<dbVars, disk, netVars, block, snap, cand, plan, failed, data,
                   accVars, envVars>>

\* rmb <file> <block> <copy>: the document of the file is read ...
RemoveCopy(t) ==
    /\ t = "console"
    /\ \E f \in files : \E c \in copies[f] :
         /\ Start(t, "rmb", f, "pull")
         /\ todo' = [todo EXCEPT ![t] = {c}]
    /\ UNCHANGED <<dbVars, disk, netVars, block, snap, cand, plan, failed, data,
                   accVars, envVars>>

\* ... and deleteFileBlockCopy takes the copy out of it.
PullCopy(t) ==
    /\ pc[t] = "pull"
    /\ copies' = [copies EXCEPT ![path[t]] = @ \ todo[t]]
    /\ Goto(t, "free")
    /\ UNCHANGED <<nodes, used, files, author, disk, netVars, argVars, runVars,
                   accVars, envVars>>

\* deleteFile and deleteFileBlockCopy: the document of the next copy's node is
\* read ...
ReadNode(t) ==
    /\ pc[t] = "free"
    /\ \E c \in todo[t] : /\ plan' = [plan EXCEPT ![t] = {c}]
                          /\ todo' = [todo EXCEPT ![t] = @ \ {c}]
                          /\ snap' = [snap EXCEPT ![t] = ReadBits({c[2]})]
    /\ Goto(t, "freed")
    /\ UNCHANGED <<dbVars, disk, netVars, argVars, block, cand, failed, data,
                   accVars, envVars>>

\* A mutant of FreeSlot: the bitmap is not saved.
KeepSlot(c, bits) == used' = used

\* ... and saved with the block free.
FreeSlot(c, bits) == used' = [used EXCEPT ![c[2]] = bits[c[2]] \ {c[3]}]

FreeBlock(t) ==
    /\ pc[t] = "freed"
    /\ \E c \in plan[t] : FreeSlot(c, snap[t])
    /\ plan' = [plan EXCEPT ![t] = {}] /\ snap' = [snap EXCEPT ![t] = NoBits]
    /\ Goto(t, "free")
    /\ UNCHANGED <<nodes, docVars, disk, netVars, argVars, block, cand, todo,
                   failed, data, accVars, envVars>>

\* Every copy is free: rm deletes the document.
EndFree(t) ==
    /\ pc[t] = "free" /\ todo[t] = {}
    /\ \/ cmd[t] = "rm" /\ Forget({path[t]})
       \/ cmd[t] # "rm" /\ UNCHANGED <<docVars, disk, pulls>>
    /\ End(t)
    /\ UNCHANGED <<nodes, used, netVars, joining, moves, envVars>>

----------------------------------------------------------------------------
\* cpb <file> <block>: the document of the file is read.
CopyBlock(t) ==
    /\ t = "console"
    /\ \E f \in files : \E b \in 1 .. Blocks[f] :
         /\ Start(t, "cpb", f, "fetch")
         /\ block' = [block EXCEPT ![t] = b]
         /\ plan' = [plan EXCEPT ![t] = CopiesOf(f, b)]
    /\ UNCHANGED <<dbVars, disk, netVars, snap, cand, todo, failed, data, accVars,
                   envVars>>

\* makeNewFileBlockCopy: connections_node_getBlock of the copies, until a node
\* answers.  A broken connection is removed.
FetchBlock(t) ==
    /\ pc[t] = "fetch"
    /\ \/ \E c \in plan[t] : /\ c[2] \in active \cap alive
                             /\ data' = [data EXCEPT ![t] = disk[c[2]][c[3]]]
          /\ Goto(t, "choose")
          /\ UNCHANGED <<active, argVars, block, snap, cand, plan, todo, failed>>
       \/ \E c \in plan[t] : /\ c[2] \in active \ alive
                             /\ active' = active \ {c[2]}
          /\ UNCHANGED locVars
       \/ /\ \A c \in plan[t] : c[2] \notin active
          /\ End(t)
          /\ UNCHANGED active
    /\ UNCHANGED <<dbVars, disk, alive, standby, accVars, envVars>>

\* A mutant of Others: the nodes that have a copy are not left out.
AllNodes(t) == nodes \cap active

\* The active nodes that have no copy of the block, says the document read.
Others(t) == (nodes \cap active) \ {c[2] : c \in plan[t]}

\* makeNewFileBlockCopy: the documents of the active nodes; the freest of those
\* without a copy, unless it is full.
ChooseNode(t) ==
    LET best == UNION MostFree(1, Others(t), used)
        full(n) == FreeSlots(used[n]) = {}
    IN  /\ pc[t] = "choose"
        /\ \/ /\ \E n \in best :
                   /\ ~full(n)
                   /\ todo' = [todo EXCEPT ![t] = {<<block[t], n, FirstFree(used[n])>>}]
                   /\ snap' = [snap EXCEPT ![t] = ReadBits({n})]
              /\ plan' = [plan EXCEPT ![t] = {}]
              /\ Goto(t, "copy")
              /\ UNCHANGED <<argVars, block, cand, failed, data>>
           \/ /\ best = {} \/ \E n \in best : full(n)
              /\ End(t)
        /\ UNCHANGED <<dbVars, disk, netVars, accVars, envVars>>

\* makeNewFileBlockCopy: the block is sent to the node.
SendCopy(t) ==
    /\ pc[t] = "copy"
    /\ \E c \in todo[t] :
         \/ /\ SendOk(c, data[t]) /\ Goto(t, "copybits")
            /\ data' = [data EXCEPT ![t] = Stale]
            /\ UNCHANGED <<argVars, block, snap, cand, plan, todo, failed>>
         \/ SendFails(c) /\ End(t)
    /\ UNCHANGED <<dbVars, alive, standby, accVars, envVars>>

\* makeNewFileBlockCopy: the bitmap read before is saved with the block used ...
SaveCopyBits(t) ==
    /\ pc[t] = "copybits"
    /\ \E c \in todo[t] :
         used' = [used EXCEPT ![c[2]] = snap[t][c[2]] \cup {c[3]}]
    /\ Goto(t, "copydoc")
    /\ UNCHANGED <<nodes, docVars, disk, netVars, argVars, runVars, accVars,
                   envVars>>

\* ... and the copy moves the document of the file.
SaveCopy(t) ==
    /\ pc[t] = "copydoc"
    /\ copies' = [copies EXCEPT ![path[t]] = @ \cup todo[t]]
    /\ End(t)
    /\ UNCHANGED <<nodes, used, files, author, disk, netVars, accVars, envVars>>

----------------------------------------------------------------------------
\* format: the documents of the files are deleted ...
Format(t) ==
    /\ t = "console"
    /\ Start(t, "format", path[t], "format")
    /\ Forget(files)
    /\ UNCHANGED <<nodes, used, netVars, runVars, joining, moves, envVars>>

\* ... the documents of the nodes are read ...
ReadAllNodes(t) ==
    /\ pc[t] = "format"
    /\ cand' = [cand EXCEPT ![t] = nodes]
    /\ Goto(t, "formatnode")
    /\ UNCHANGED <<dbVars, disk, netVars, argVars, block, snap, plan, todo, failed,
                   data, accVars, envVars>>

\* ... and filesystem_formatNode saves each with every block free.
FormatNode(t) ==
    /\ pc[t] = "formatnode"
    /\ \/ /\ \E n \in cand[t] : /\ used' = [used EXCEPT ![n] = {}]
                                /\ cand' = [cand EXCEPT ![t] = @ \ {n}]
          /\ UNCHANGED <<pc, argVars, block, snap, plan, todo, failed, data>>
       \/ /\ cand[t] = {}
          /\ End(t)
          /\ UNCHANGED used
    /\ UNCHANGED <<nodes, docVars, disk, netVars, accVars, envVars>>

----------------------------------------------------------------------------
\* connections_node_accept: the connection goes to standby, and addNode makes the
\* node's document, or finds it.  A node that starts as new makes its file anew;
\* one that only connects again, the file system having gone or the connection
\* being lost, says it is new too.
Connect(n) ==
    /\ moves > 0 /\ moves' = moves - 1
    /\ joining[n] = "no"
    /\ alive' = alive \cup {n}
    /\ active' = active \ {n} /\ standby' = standby \cup {n}
    /\ \/ n \in NewNodes /\ disk' = [disk EXCEPT ![n] = [s \in Slot |-> Stale]]
       \/ UNCHANGED disk
    /\ \/ /\ n \in nodes
          /\ joining' = [joining EXCEPT ![n] = IF n \in NewNodes THEN "find" ELSE "no"]
          /\ UNCHANGED <<nodes, used>>
       \/ /\ n \notin nodes
          /\ nodes' = nodes \cup {n} /\ used' = [used EXCEPT ![n] = {}]
          /\ UNCHANGED joining
    /\ UNCHANGED <<docVars, locVars, pulls, envVars>>

\* addNode, a known node says it is new: mongo_file_getFilesThatHaveNode.
FindCopies(n) ==
    /\ joining[n] = "find"
    /\ pulls' = [pulls EXCEPT ![n] =
                   {p \in files \X Copy : p[2] \in copies[p[1]] /\ p[2][2] = n}]
    /\ joining' = [joining EXCEPT ![n] = "pull"]
    /\ UNCHANGED <<dbVars, disk, netVars, locVars, moves, envVars>>

\* addNode: mongo_file_deleteBlockCopy of one of the copies found.
DropCopy(n) ==
    /\ joining[n] = "pull"
    /\ \E p \in pulls[n] :
         /\ copies' = [copies EXCEPT ![p[1]] = @ \ {p[2]}]
         /\ pulls' = [pulls EXCEPT ![n] = @ \ {p}]
    /\ UNCHANGED <<nodes, used, files, author, disk, netVars, locVars, joining,
                   moves, envVars>>

\* addNode: filesystem_formatNode.
FormatNew(n) ==
    /\ joining[n] = "pull" /\ pulls[n] = {}
    /\ used' = [used EXCEPT ![n] = {}]
    /\ joining' = [joining EXCEPT ![n] = "no"]
    /\ UNCHANGED <<nodes, docVars, disk, netVars, locVars, pulls, moves, envVars>>

\* enablen and disablen, commands of the console.
activateNode(n) ==
    /\ pc["console"] = "idle" /\ n \in nodes \cap standby
    /\ standby' = standby \ {n} /\ active' = active \cup {n}
    /\ UNCHANGED <<dbVars, disk, alive, locVars, joining, pulls, moves, envVars>>
deactivateNode(n) ==
    /\ pc["console"] = "idle" /\ n \in nodes \cap active
    /\ moves > 0 /\ moves' = moves - 1
    /\ active' = active \ {n} /\ standby' = standby \cup {n}
    /\ UNCHANGED <<dbVars, disk, alive, locVars, joining, pulls, envVars>>

\* connections_node_checkAlive finds the connection broken.
CheckAlive(n) ==
    /\ n \in active \ alive
    /\ active' = active \ {n}
    /\ UNCHANGED <<dbVars, disk, alive, standby, locVars, accVars, envVars>>

\* A node dies, or its connection breaks.
NodeDies(n) ==
    /\ n \in alive /\ Faulty
    /\ alive' = alive \ {n}
    /\ UNCHANGED <<dbVars, disk, active, standby, locVars, accVars, crashed>>

Run(t) ==
    \/ StoreFile(t) \/ ReadNodes(t) \/ PlanBlock(t) \/ SendBlock(t)
    \/ JoinSenders(t) \/ SaveBits(t) \/ SaveFile(t)
    \/ RemoveFile(t) \/ RemoveCopy(t) \/ PullCopy(t) \/ ReadNode(t)
    \/ FreeBlock(t) \/ EndFree(t)
    \/ CopyBlock(t) \/ FetchBlock(t) \/ ChooseNode(t) \/ SendCopy(t)
    \/ SaveCopyBits(t) \/ SaveCopy(t)
    \/ Format(t) \/ ReadAllNodes(t) \/ FormatNode(t)

Network(n) ==
    \/ Connect(n) \/ FindCopies(n) \/ DropCopy(n) \/ FormatNew(n)
    \/ activateNode(n) \/ deactivateNode(n) \/ CheckAlive(n) \/ NodeDies(n)

\* The process has crashed.
Crashed == crashed /\ UNCHANGED vars

Next ==
    \/ ~crashed /\ \E t \in Thread : Run(t)
    \/ ~crashed /\ \E n \in Node : Network(n)
    \/ Crashed

Spec == Init /\ [][Next]_vars

----------------------------------------------------------------------------
Quiet == /\ \A t \in Thread : pc[t] = "idle"
         /\ \A n \in Node : joining[n] = "no"

\* The places the documents of the files name, with the file and block.
References == {r \in File \X Copy : r[2] \in copies[r[1]]}
Right(f, c) == disk[c[2]][c[3]] = <<author[f], f, c[1]>>

\* No two blocks are kept in the same place of a node: storing, removing and
\* copying never hand out a block that a document names.
NoSharedPlace ==
    \A r, s \in References :
        r # s => <<r[2][2], r[2][3]>> # <<s[2][2], s[2][3]>>

\* With no command running, the bitmap of a node marks the blocks that the
\* documents of the files name: none is lost for ever, none will be overwritten.
UsedAreReferenced ==
    Quiet => \A n \in nodes :
        used[n] = {c[3] : c \in {d \in UNION {copies[f] : f \in File} : d[2] = n}}

\* The copies of a block are in different nodes, however the console, MaRTA and
\* the nodes that connect interleave.
CopiesInDifferentNodes ==
    \A f \in File : \A c, d \in copies[f] : c[1] = d[1] /\ c[2] = d[2] => c = d

\* connections_node_sendBlock has no answer, so a copy may be lost without notice.
\* How much: a node that dies spoils one copy of a block at most, its own, as long
\* as no node connects again or is disabled.
DeathsSpoilOneCopy ==
    moves = MaxMoves =>
        \A f \in files : \A b \in 1 .. Blocks[f] :
            Cardinality({c \in CopiesOf(f, b) : ~Right(f, c)}) <= MaxFaults - faults

\* While no node dies, a copy that could not be sent, its node having connected
\* again or been disabled after the plan was made, never gets into the document.
OnlyDeathsSpoil == faults = MaxFaults => \A f \in files : \A c \in copies[f] : Right(f, c)

\* console.c:570, cp -fromfs copies the file to the MDFS: what the nodes hold for
\* a file that has a document is that file.
StoredFilesAreIntact == \A f \in files : \A c \in copies[f] : Right(f, c)
=============================================================================
