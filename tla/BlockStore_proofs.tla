-------------------------- MODULE BlockStore_proofs --------------------------
(***************************************************************************)
(* Proofs about BlockStore, for any threads, nodes, files and faults: its  *)
(* types, and that the copies of a block are in different nodes.  Then,    *)
(* when the console is the only thread that stores and the nodes that      *)
(* connect again do not say they are new: no two blocks get one place, and *)
(* between commands the bitmaps mark what the documents name; a copy that  *)
(* is not on its node is there for a node that died.  With more threads    *)
(* the first two do not hold (README, section 6).                          *)
(***************************************************************************)
EXTENDS BlockStore, FiniteSetTheorems, WellFoundedInduction, TLAPS

\* A set of naturals that is not empty has a least one.
LEMMA LeastNatural ==
    ASSUME NEW S \in SUBSET Nat, S # {}
    PROVE  Min(S) \in S /\ \A m \in S : Min(S) <= m
  <1>1. \E n \in S : \A m \in S : <<m, n>> \notin OpToRel(<, Nat)
    BY NatLessThanWellFounded, WFMin
  <1>2. PICK n \in S : \A m \in S : ~(m < n)
    <2>1. \A m, n \in S : m < n => <<m, n>> \in OpToRel(<, Nat)
      BY DEF OpToRel
    <2> QED BY <1>1, <2>1
  <1>3. \A m \in S : n <= m
    BY <1>2
  <1> QED BY <1>3 DEF Min

DbTypes   == /\ nodes \subseteq Node /\ used \in [Node -> SUBSET Slot]
             /\ files \subseteq File /\ author \in [File -> Thread]
             /\ copies \in [File -> SUBSET Copy]
DiskTypes == disk \in [Node -> [Slot -> Data]]
NetTypes  == alive \subseteq Node /\ active \subseteq Node /\ standby \subseteq Node
ArgTypes  == /\ pc \in [Thread -> PC] /\ cmd \in [Thread -> Command] /\ path \in [Thread -> File]
RunTypes  == /\ block \in [Thread -> Block]
             /\ snap \in [Thread -> [Node -> SUBSET Slot]]
             /\ cand \in [Thread -> SUBSET Node] /\ plan \in [Thread -> SUBSET Copy]
             /\ todo \in [Thread -> SUBSET Copy] /\ failed \in [Thread -> BOOLEAN]
             /\ data \in [Thread -> Data]
AccTypes  == /\ joining \in [Node -> {"no", "find", "pull"}]
             /\ pulls \in [Node -> SUBSET (File \X Copy)]
EnvTypes  == faults \in Nat /\ moves \in Nat /\ crashed \in BOOLEAN

\* The parts of TypeOK.
LEMMA TypeParts ==
    TypeOK <=> DbTypes /\ DiskTypes /\ NetTypes /\ ArgTypes /\ RunTypes /\ AccTypes /\ EnvTypes
  BY DEF TypeOK, DbTypes, DiskTypes, NetTypes, ArgTypes, RunTypes, AccTypes, EnvTypes

\* The first block that is free, of a node that is not full.
LEMMA FirstFreeType ==
    ASSUME NEW bits, FreeSlots(bits) # {}
    PROVE  FirstFree(bits) \in Slot \ bits
  <1>1. FreeSlots(bits) \in SUBSET Nat
    BY BlockStoreAssumption DEF FreeSlots, Slot
  <1> QED
    BY <1>1, LeastNatural DEF FirstFree, FreeSlots

\* The paths and the blocks of a file.
LEMMA BlockTypes ==
    /\ AFile \in File /\ 1 \in Block /\ Stale \in Data /\ Block \subseteq Nat \ {0}
    /\ \A f \in File : 1 .. Blocks[f] \subseteq Block
  <1>1. AFile \in File
    BY BlockStoreAssumption DEF AFile
  <1>2. \A f \in File : Blocks[f] \in Nat \ {0} /\ 1 .. Blocks[f] \subseteq Block
    BY BlockStoreAssumption DEF Block
  <1>3. 1 \in 1 .. Blocks[AFile]
    BY <1>1, <1>2
  <1>4. Block \subseteq Nat \ {0}
    BY <1>2 DEF Block
  <1> QED
    BY <1>1, <1>2, <1>3, <1>4 DEF Data

\* The nodes with the most free blocks are some of those that are given.
LEMMA FreestAreGiven ==
    ASSUME NEW k, NEW S, NEW bits, NEW T \in MostFree(k, S, bits)
    PROVE  T \subseteq S
  BY DEF MostFree, kSubset

\* The bitmaps that are read.
LEMMA ReadTypes ==
    ASSUME DbTypes, NEW S
    PROVE  ReadBits(S) \in [Node -> SUBSET Slot] /\ NoBits \in [Node -> SUBSET Slot]
  BY DEF ReadBits, NoBits, DbTypes

\* A thread that ends its command.
LEMMA EndTypes ==
    ASSUME ArgTypes, RunTypes, NEW t \in Thread, End(t)
    PROVE  ArgTypes' /\ RunTypes'
  <1>1. NoBits \in [Node -> SUBSET Slot]
    BY DEF NoBits
  <1> QED
    BY <1>1, BlockTypes DEF ArgTypes, RunTypes, End, Goto, PC, Command

\* A thread that goes on.
LEMMA GotoTypes ==
    ASSUME ArgTypes, NEW t \in Thread, NEW label \in PC, Goto(t, label), UNCHANGED argVars
    PROVE  ArgTypes'
  BY DEF ArgTypes, Goto, argVars

\* A command that starts.
LEMMA StartTypes ==
    ASSUME ArgTypes, NEW t \in Thread, NEW command \in Command, NEW f \in File,
           NEW label \in PC, Start(t, command, f, label)
    PROVE  ArgTypes'
  BY DEF ArgTypes, Start, Goto

\* What is sent to a node.
LEMMA SendTypes ==
    ASSUME DiskTypes, NetTypes, NEW c \in Copy, NEW d \in Data, SendOk(c, d) \/ SendFails(c),
           UNCHANGED <<alive, standby>>
    PROVE  DiskTypes' /\ NetTypes'
  <1>1. c[2] \in Node /\ c[3] \in Slot
    BY DEF Copy
  <1> QED BY <1>1 DEF SendOk, SendFails, DiskTypes, NetTypes

\* Documents that are deleted, and a file that is not saved.
LEMMA ForgetTypes ==
    ASSUME DbTypes, DiskTypes, AccTypes, NEW F, Forget(F), UNCHANGED <<nodes, used, joining>>
    PROVE  DbTypes' /\ DiskTypes' /\ AccTypes'
  BY BlockTypes DEF Forget, DbTypes, DiskTypes, AccTypes
LEMMA AbandonTypes ==
    ASSUME DiskTypes, NEW t, Abandon(t)
    PROVE  DiskTypes'
  BY BlockTypes DEF Abandon, DiskTypes

\* Before anything is stored.
LEMMA InitTypes == Init => TypeOK
  <1> SUFFICES ASSUME Init PROVE TypeOK
    OBVIOUS
  <1>1. DbTypes /\ NetTypes /\ AccTypes /\ EnvTypes
    BY BlockStoreAssumption DEF Init, DbTypes, NetTypes, AccTypes, EnvTypes
  <1>2. DiskTypes /\ ArgTypes
    BY BlockTypes DEF Init, DiskTypes, ArgTypes, PC, Command
  <1>3. RunTypes
    BY BlockTypes DEF Init, RunTypes
  <1> QED BY <1>1, <1>2, <1>3, TypeParts

Typed == DbTypes /\ DiskTypes /\ NetTypes /\ ArgTypes /\ RunTypes /\ AccTypes /\ EnvTypes

\* The steps of storing a file.
LEMMA StoreTypes ==
    ASSUME Typed, NEW t \in Thread,
           StoreFile(t) \/ ReadNodes(t) \/ PlanBlock(t) \/ SendBlock(t)
             \/ JoinSenders(t) \/ SaveBits(t) \/ SaveFile(t)
    PROVE  Typed'
  <1> USE DEF Typed
  <1>1. CASE StoreFile(t)
    <2>1. PICK f \in File : Start(t, "store", f, "read")
      BY <1>1 DEF StoreFile
    <2>2. ArgTypes'
      BY <2>1, StartTypes DEF PC, Command
    <2>3. DbTypes' /\ DiskTypes' /\ NetTypes' /\ RunTypes' /\ AccTypes' /\ EnvTypes'
      BY <1>1 DEF StoreFile, DbTypes, DiskTypes, NetTypes, RunTypes, AccTypes, EnvTypes,
                  dbVars, docVars, netVars, runVars, accVars, envVars
    <2> QED BY <2>2, <2>3
  <1>2. CASE ReadNodes(t)
    <2>1. ArgTypes'
      BY <1>2, GotoTypes DEF ReadNodes, PC
    <2>2. RunTypes'
      BY <1>2, ReadTypes DEF ReadNodes, RunTypes, NetTypes, DbTypes
    <2>3. DbTypes' /\ DiskTypes' /\ NetTypes' /\ AccTypes' /\ EnvTypes'
      BY <1>2 DEF ReadNodes, DbTypes, DiskTypes, NetTypes, AccTypes, EnvTypes,
                  dbVars, docVars, netVars, accVars, envVars
    <2> QED BY <2>1, <2>2, <2>3
  <1>3. CASE PlanBlock(t)
    <2>1. DbTypes' /\ DiskTypes' /\ NetTypes' /\ AccTypes' /\ EnvTypes'
      BY <1>3 DEF PlanBlock, DbTypes, DiskTypes, NetTypes, AccTypes, EnvTypes,
                  dbVars, docVars, netVars, accVars, envVars
    <2>2. CASE End(t)
      BY <2>1, <2>2, EndTypes
    <2>3. ASSUME NEW T \in MostFree(Copies, cand[t], snap[t]),
                 \A n \in T : FreeSlots(snap[t][n]) # {}, MarkUsed(t, T),
                 plan' = [plan EXCEPT ![t] =
                      @ \cup {<<block[t], n, FirstFree(snap[t][n])>> : n \in T}],
                 \/ /\ block[t] < Blocks[path[t]]
                    /\ block' = [block EXCEPT ![t] = @ + 1]
                    /\ UNCHANGED <<pc, cand, todo>>
                 \/ /\ todo' = [todo EXCEPT ![t] = plan'[t]]
                    /\ cand' = [cand EXCEPT ![t] = {}]
                    /\ Goto(t, "send")
                    /\ UNCHANGED block,
                 UNCHANGED <<argVars, failed, data>>
          PROVE  ArgTypes' /\ RunTypes'
      <3>1. T \subseteq Node
        BY <2>3, FreestAreGiven DEF RunTypes
      <3>2. \A n \in T : FirstFree(snap[t][n]) \in Slot
        BY <2>3, FirstFreeType
      <3>3. snap' \in [Thread -> [Node -> SUBSET Slot]]
        BY <2>3, <3>1, <3>2 DEF MarkUsed, RunTypes
      <3>4. plan' \in [Thread -> SUBSET Copy]
        <4>1. \A n \in T : <<block[t], n, FirstFree(snap[t][n])>> \in Copy
          BY <3>1, <3>2 DEF Copy, RunTypes
        <4> QED BY <2>3, <4>1 DEF RunTypes
      <3>5. block' \in [Thread -> Block]
        <4>1. CASE block[t] < Blocks[path[t]]
          <5>1. block[t] \in Nat \ {0} /\ path[t] \in File /\ Blocks[path[t]] \in Nat
            BY BlockTypes, BlockStoreAssumption DEF RunTypes, ArgTypes
          <5>2. block[t] + 1 \in Block
            BY <4>1, <5>1, BlockTypes
          <5> QED BY <2>3, <5>2 DEF RunTypes
        <4>2. CASE UNCHANGED block
          BY <4>2 DEF RunTypes
        <4> QED BY <2>3, <4>1, <4>2
      <3>6. todo' \in [Thread -> SUBSET Copy] /\ cand' \in [Thread -> SUBSET Node]
        BY <2>3, <3>4 DEF RunTypes
      <3>7. ArgTypes'
        BY <2>3 DEF ArgTypes, Goto, PC, argVars
      <3> QED
        BY <2>3, <3>3, <3>4, <3>5, <3>6, <3>7 DEF RunTypes
    <2> QED
      BY <1>3, <2>1, <2>2, <2>3 DEF PlanBlock
  <1>4. CASE SendBlock(t)
    <2>1. PICK c \in todo[t] :
            /\ todo' = [todo EXCEPT ![t] = @ \ {c}]
            /\ \/ SendOk(c, <<t, path[t], c[1]>>) /\ UNCHANGED failed
               \/ SendFails(c) /\ SetFailed(t)
               \/ failed[t] /\ UNCHANGED <<disk, active, failed>>
      BY <1>4 DEF SendBlock
    <2>2. c \in Copy
      BY DEF RunTypes
    <2>3. <<t, path[t], c[1]>> \in Data
      BY <2>2 DEF ArgTypes, Copy, Data
    <2>4. DiskTypes' /\ NetTypes'
      <3>1. UNCHANGED <<alive, standby>>
        BY <1>4 DEF SendBlock
      <3>2. CASE UNCHANGED <<disk, active>>
        BY <3>1, <3>2 DEF DiskTypes, NetTypes
      <3> QED BY <2>1, <2>2, <2>3, <3>1, <3>2, SendTypes
    <2>5. RunTypes'
      BY <1>4, <2>1 DEF SendBlock, SetFailed, RunTypes
    <2>6. DbTypes' /\ ArgTypes' /\ AccTypes' /\ EnvTypes'
      BY <1>4 DEF SendBlock, DbTypes, ArgTypes, AccTypes, EnvTypes,
                  dbVars, docVars, argVars, accVars, envVars
    <2> QED BY <2>4, <2>5, <2>6
  <1>5. CASE JoinSenders(t)
    <2>1. DbTypes' /\ NetTypes' /\ AccTypes' /\ EnvTypes'
      BY <1>5 DEF JoinSenders, DbTypes, NetTypes, AccTypes, EnvTypes,
                  dbVars, docVars, netVars, accVars, envVars
    <2>2. CASE Abandon(t) /\ End(t)
      BY <2>1, <2>2, AbandonTypes, EndTypes
    <2>3. CASE /\ todo' = [todo EXCEPT ![t] = plan[t]] /\ Goto(t, "bits")
               /\ UNCHANGED <<disk, argVars, block, snap, cand, plan, failed, data>>
      <3>1. ArgTypes'
        BY <2>3, GotoTypes DEF PC
      <3>2. RunTypes' /\ DiskTypes'
        BY <2>3 DEF RunTypes, DiskTypes
      <3> QED BY <2>1, <3>1, <3>2
    <2> QED
      BY <1>5, <2>2, <2>3 DEF JoinSenders
  <1>6. CASE SaveBits(t)
    <2>1. PICK c \in todo[t] :
            /\ used' = [used EXCEPT ![c[2]] = snap[t][c[2]]]
            /\ todo' = [todo EXCEPT ![t] = @ \ {c}]
            /\ Goto(t, IF todo[t] = {c} THEN "save" ELSE "bits")
      BY <1>6 DEF SaveBits
    <2>2. c[2] \in Node
      BY DEF RunTypes, Copy
    <2>3. DbTypes'
      BY <1>6, <2>1, <2>2 DEF SaveBits, DbTypes, RunTypes, docVars
    <2>4. ArgTypes'
      BY <1>6, <2>1, GotoTypes DEF SaveBits, PC
    <2>5. RunTypes' /\ DiskTypes' /\ NetTypes' /\ AccTypes' /\ EnvTypes'
      BY <1>6, <2>1 DEF SaveBits, RunTypes, DiskTypes, NetTypes, AccTypes, EnvTypes,
                  netVars, accVars, envVars
    <2> QED BY <2>3, <2>4, <2>5
  <1>7. CASE SaveFile(t)
    <2>1. NetTypes' /\ AccTypes' /\ UNCHANGED <<nodes, used>>
      BY <1>7 DEF SaveFile, NetTypes, AccTypes, netVars, accVars
    <2>2. EnvTypes'
      <3>1. faults' \in Nat
        <4>1. UNCHANGED faults \/ Faulty
          BY <1>7 DEF SaveFile, envVars
        <4> QED BY <4>1 DEF Faulty, EnvTypes
      <3>2. crashed' \in BOOLEAN
        <4>1. UNCHANGED crashed \/ crashed' \in BOOLEAN
          BY <1>7, Zenon DEF SaveFile, envVars
        <4> QED BY <4>1 DEF EnvTypes
      <3> QED
        BY <1>7, <3>1, <3>2 DEF SaveFile, EnvTypes, accVars
    <2>3. DbTypes'
      <3>1. CASE /\ files' = files \cup {path[t]}
                 /\ author' = [author EXCEPT ![path[t]] = t]
                 /\ copies' = [copies EXCEPT ![path[t]] = plan[t]]
        <4>1. path[t] \in File /\ plan[t] \in SUBSET Copy
          BY DEF ArgTypes, RunTypes
        <4> QED BY <2>1, <3>1, <4>1 DEF DbTypes
      <3>2. CASE UNCHANGED docVars
        BY <2>1, <3>2 DEF DbTypes, docVars
      <3> QED BY <1>7, <3>1, <3>2 DEF SaveFile
    <2>4. DiskTypes'
      <3>1. CASE UNCHANGED disk
        BY <3>1 DEF DiskTypes
      <3> QED BY <1>7, <3>1, AbandonTypes DEF SaveFile
    <2>5. CASE End(t)
      BY <2>1, <2>2, <2>3, <2>4, <2>5, EndTypes
    <2>6. CASE /\ Undo(t) /\ plan' = [plan EXCEPT ![t] = {}]
               /\ snap' = [snap EXCEPT ![t] = NoBits] /\ Goto(t, "free")
               /\ UNCHANGED <<argVars, block, cand, failed, data>>
      <3>1. ArgTypes'
        BY <2>6, GotoTypes DEF PC
      <3>2. RunTypes'
        BY <2>6, ReadTypes DEF RunTypes, Undo
      <3> QED BY <2>1, <2>2, <2>3, <2>4, <3>1, <3>2
    <2> QED
      BY <1>7, <2>5, <2>6 DEF SaveFile
  <1> QED
    BY <1>1, <1>2, <1>3, <1>4, <1>5, <1>6, <1>7

\* The steps of removing a file or a copy, and of format.
LEMMA RemoveTypes ==
    ASSUME Typed, NEW t \in Thread,
           RemoveFile(t) \/ RemoveCopy(t) \/ PullCopy(t) \/ ReadNode(t) \/ FreeBlock(t)
             \/ EndFree(t) \/ Format(t) \/ ReadAllNodes(t) \/ FormatNode(t)
    PROVE  Typed'
  <1> USE DEF Typed
  <1>1. CASE RemoveFile(t)
    <2>1. PICK f \in files : Start(t, "rm", f, "free") /\ todo' = [todo EXCEPT ![t] = copies[f]]
      BY <1>1 DEF RemoveFile
    <2>2. f \in File
      BY DEF DbTypes
    <2>3. ArgTypes'
      BY <2>1, <2>2, StartTypes DEF PC, Command
    <2>4. RunTypes'
      BY <1>1, <2>1, <2>2 DEF RemoveFile, RunTypes, DbTypes
    <2>5. DbTypes' /\ DiskTypes' /\ NetTypes' /\ AccTypes' /\ EnvTypes'
      BY <1>1 DEF RemoveFile, DbTypes, DiskTypes, NetTypes, AccTypes, EnvTypes,
                  dbVars, docVars, netVars, accVars, envVars
    <2> QED BY <2>3, <2>4, <2>5
  <1>2. CASE RemoveCopy(t)
    <2> PICK f \in files : \E c \in copies[f] :
            Start(t, "rmb", f, "pull") /\ todo' = [todo EXCEPT ![t] = {c}]
      BY <1>2 DEF RemoveCopy
    <2>1. PICK c \in copies[f] :
            Start(t, "rmb", f, "pull") /\ todo' = [todo EXCEPT ![t] = {c}]
      OBVIOUS
    <2>2. f \in File /\ c \in Copy
      BY DEF DbTypes
    <2>3. ArgTypes'
      BY <2>1, <2>2, StartTypes DEF PC, Command
    <2>4. RunTypes'
      BY <1>2, <2>1, <2>2 DEF RemoveCopy, RunTypes
    <2>5. DbTypes' /\ DiskTypes' /\ NetTypes' /\ AccTypes' /\ EnvTypes'
      BY <1>2 DEF RemoveCopy, DbTypes, DiskTypes, NetTypes, AccTypes, EnvTypes,
                  dbVars, docVars, netVars, accVars, envVars
    <2> QED BY <2>3, <2>4, <2>5
  <1>3. CASE PullCopy(t)
    <2>1. ArgTypes'
      BY <1>3, GotoTypes DEF PullCopy, PC
    <2>2. DbTypes'
      BY <1>3 DEF PullCopy, DbTypes
    <2>3. RunTypes' /\ DiskTypes' /\ NetTypes' /\ AccTypes' /\ EnvTypes'
      BY <1>3 DEF PullCopy, RunTypes, DiskTypes, NetTypes, AccTypes, EnvTypes,
                  runVars, netVars, accVars, envVars
    <2> QED BY <2>1, <2>2, <2>3
  <1>4. CASE ReadNode(t)
    <2>1. ArgTypes'
      BY <1>4, GotoTypes DEF ReadNode, PC
    <2>2. RunTypes'
      <3>1. PICK c \in todo[t] : /\ plan' = [plan EXCEPT ![t] = {c}]
                                 /\ todo' = [todo EXCEPT ![t] = @ \ {c}]
                                 /\ snap' = [snap EXCEPT ![t] = ReadBits({c[2]})]
        BY <1>4 DEF ReadNode
      <3> QED BY <1>4, <3>1, ReadTypes DEF ReadNode, RunTypes
    <2>3. DbTypes' /\ DiskTypes' /\ NetTypes' /\ AccTypes' /\ EnvTypes'
      BY <1>4 DEF ReadNode, DbTypes, DiskTypes, NetTypes, AccTypes, EnvTypes,
                  dbVars, docVars, netVars, accVars, envVars
    <2> QED BY <2>1, <2>2, <2>3
  <1>5. CASE FreeBlock(t)
    <2>1. ArgTypes'
      BY <1>5, GotoTypes DEF FreeBlock, PC
    <2>2. RunTypes'
      BY <1>5, ReadTypes DEF FreeBlock, RunTypes
    <2>3. DbTypes'
      <3>1. PICK c \in plan[t] : FreeSlot(c, snap[t])
        BY <1>5 DEF FreeBlock
      <3>2. c[2] \in Node
        BY DEF RunTypes, Copy
      <3>3. snap[t][c[2]] \ {c[3]} \in SUBSET Slot
        BY <3>2 DEF RunTypes
      <3>4. used' \in [Node -> SUBSET Slot]
        BY <3>1, <3>2, <3>3 DEF FreeSlot, DbTypes
      <3> QED BY <1>5, <3>4 DEF FreeBlock, DbTypes, docVars
    <2>4. DiskTypes' /\ NetTypes' /\ AccTypes' /\ EnvTypes'
      BY <1>5 DEF FreeBlock, DiskTypes, NetTypes, AccTypes, EnvTypes, netVars, accVars, envVars
    <2> QED BY <2>1, <2>2, <2>3, <2>4
  <1>6. CASE EndFree(t)
    <2>1. ArgTypes' /\ RunTypes'
      BY <1>6, EndTypes DEF EndFree
    <2>2. DbTypes' /\ DiskTypes' /\ AccTypes'
      <3>1. CASE Forget({path[t]})
        BY <1>6, <3>1, ForgetTypes DEF EndFree
      <3>2. CASE UNCHANGED <<docVars, disk, pulls>>
        BY <1>6, <3>2 DEF EndFree, DbTypes, DiskTypes, AccTypes, docVars
      <3> QED BY <1>6, <3>1, <3>2 DEF EndFree
    <2>3. NetTypes' /\ EnvTypes'
      BY <1>6 DEF EndFree, NetTypes, EnvTypes, netVars, envVars
    <2> QED BY <2>1, <2>2, <2>3
  <1>7. CASE Format(t)
    <2>1. ArgTypes'
      <3>1. path[t] \in File /\ Start(t, "format", path[t], "format")
        BY <1>7 DEF Format, ArgTypes
      <3> QED BY <3>1, StartTypes DEF PC, Command
    <2>2. DbTypes' /\ DiskTypes' /\ AccTypes'
      BY <1>7, ForgetTypes DEF Format
    <2>3. RunTypes' /\ NetTypes' /\ EnvTypes'
      BY <1>7 DEF Format, RunTypes, NetTypes, EnvTypes, runVars, netVars, envVars
    <2> QED BY <2>1, <2>2, <2>3
  <1>8. CASE ReadAllNodes(t)
    <2>1. ArgTypes'
      BY <1>8, GotoTypes DEF ReadAllNodes, PC
    <2>2. RunTypes'
      BY <1>8 DEF ReadAllNodes, RunTypes, DbTypes
    <2>3. DbTypes' /\ DiskTypes' /\ NetTypes' /\ AccTypes' /\ EnvTypes'
      BY <1>8 DEF ReadAllNodes, DbTypes, DiskTypes, NetTypes, AccTypes, EnvTypes,
                  dbVars, docVars, netVars, accVars, envVars
    <2> QED BY <2>1, <2>2, <2>3
  <1>9. CASE FormatNode(t)
    <2>1. DiskTypes' /\ NetTypes' /\ AccTypes' /\ EnvTypes'
      BY <1>9 DEF FormatNode, DiskTypes, NetTypes, AccTypes, EnvTypes, netVars, accVars, envVars
    <2>2. DbTypes'
      BY <1>9 DEF FormatNode, DbTypes, docVars
    <2>3. CASE End(t)
      BY <2>1, <2>2, <2>3, EndTypes
    <2>4. ASSUME NEW n \in cand[t], cand' = [cand EXCEPT ![t] = @ \ {n}],
                 UNCHANGED <<pc, argVars, block, snap, plan, todo, failed, data>>
          PROVE  ArgTypes' /\ RunTypes'
      BY <2>4 DEF ArgTypes, RunTypes, argVars
    <2> QED
      BY <1>9, <2>1, <2>2, <2>3, <2>4 DEF FormatNode
  <1> QED
    BY <1>1, <1>2, <1>3, <1>4, <1>5, <1>6, <1>7, <1>8, <1>9

\* The steps of cpb.
LEMMA CopyTypes ==
    ASSUME Typed, NEW t \in Thread,
           CopyBlock(t) \/ FetchBlock(t) \/ ChooseNode(t) \/ SendCopy(t)
             \/ SaveCopyBits(t) \/ SaveCopy(t)
    PROVE  Typed'
  <1> USE DEF Typed
  <1>1. CASE CopyBlock(t)
    <2> DEFINE Starts(f, b) == /\ Start(t, "cpb", f, "fetch")
                               /\ block' = [block EXCEPT ![t] = b]
                               /\ plan' = [plan EXCEPT ![t] = CopiesOf(f, b)]
    <2> PICK f \in files : \E b \in 1 .. Blocks[f] : Starts(f, b)
      BY <1>1 DEF CopyBlock
    <2>1. PICK b \in 1 .. Blocks[f] : Starts(f, b)
      OBVIOUS
    <2>2. f \in File /\ b \in Block /\ CopiesOf(f, b) \subseteq Copy
      BY <2>1, BlockTypes DEF DbTypes, CopiesOf
    <2>3. ArgTypes'
      BY <2>1, <2>2, StartTypes DEF PC, Command
    <2>4. RunTypes'
      BY <1>1, <2>1, <2>2 DEF CopyBlock, RunTypes
    <2>5. DbTypes' /\ DiskTypes' /\ NetTypes' /\ AccTypes' /\ EnvTypes'
      BY <1>1 DEF CopyBlock, DbTypes, DiskTypes, NetTypes, AccTypes, EnvTypes,
                  dbVars, docVars, netVars, accVars, envVars
    <2> QED BY <2>3, <2>4, <2>5
  <1>2. CASE FetchBlock(t)
    <2>1. DbTypes' /\ DiskTypes' /\ AccTypes' /\ EnvTypes'
      BY <1>2 DEF FetchBlock, DbTypes, DiskTypes, AccTypes, EnvTypes,
                  dbVars, docVars, accVars, envVars
    <2>2. NetTypes'
      BY <1>2 DEF FetchBlock, NetTypes
    <2>3. ASSUME NEW c \in plan[t], data' = [data EXCEPT ![t] = disk[c[2]][c[3]]],
                 Goto(t, "choose"), UNCHANGED <<argVars, block, snap, cand, plan, todo, failed>>
          PROVE  ArgTypes' /\ RunTypes'
      <3>1. disk[c[2]][c[3]] \in Data
        BY DEF RunTypes, DiskTypes, Copy
      <3> QED BY <2>3, <3>1, GotoTypes DEF RunTypes, PC
    <2>4. CASE UNCHANGED locVars
      BY <2>1, <2>2, <2>4 DEF ArgTypes, RunTypes, locVars, argVars, runVars
    <2>5. CASE End(t)
      BY <2>1, <2>2, <2>5, EndTypes
    <2> QED
      BY <1>2, <2>1, <2>2, <2>3, <2>4, <2>5 DEF FetchBlock
  <1>3. CASE ChooseNode(t)
    <2>1. DbTypes' /\ DiskTypes' /\ NetTypes' /\ AccTypes' /\ EnvTypes'
      BY <1>3 DEF ChooseNode, DbTypes, DiskTypes, NetTypes, AccTypes, EnvTypes,
                  dbVars, docVars, netVars, accVars, envVars
    <2>2. ASSUME NEW n \in UNION MostFree(1, Others(t), used), FreeSlots(used[n]) # {},
                 todo' = [todo EXCEPT ![t] = {<<block[t], n, FirstFree(used[n])>>}],
                 snap' = [snap EXCEPT ![t] = ReadBits({n})],
                 plan' = [plan EXCEPT ![t] = {}],
                 Goto(t, "copy"), UNCHANGED <<argVars, block, cand, failed, data>>
          PROVE  ArgTypes' /\ RunTypes'
      <3>1. n \in Node
        BY FreestAreGiven DEF Others, DbTypes
      <3>2. <<block[t], n, FirstFree(used[n])>> \in Copy
        BY <2>2, <3>1, FirstFreeType DEF Copy, RunTypes
      <3>3. RunTypes'
        BY <2>2, <3>2, ReadTypes DEF RunTypes
      <3> QED BY <2>2, <3>3, GotoTypes DEF PC
    <2>3. CASE End(t)
      BY <2>1, <2>3, EndTypes
    <2> QED
      BY <1>3, <2>1, <2>2, <2>3 DEF ChooseNode
  <1>4. CASE SendCopy(t)
    <2>1. PICK c \in todo[t] :
            \/ /\ SendOk(c, data[t]) /\ Goto(t, "copybits")
               /\ data' = [data EXCEPT ![t] = Stale]
               /\ UNCHANGED <<argVars, block, snap, cand, plan, todo, failed>>
            \/ SendFails(c) /\ End(t)
      BY <1>4 DEF SendCopy
    <2>2. c \in Copy /\ data[t] \in Data
      BY DEF RunTypes
    <2>3. DbTypes' /\ AccTypes' /\ EnvTypes' /\ UNCHANGED <<alive, standby>>
      BY <1>4 DEF SendCopy, DbTypes, AccTypes, EnvTypes, dbVars, docVars, accVars, envVars
    <2>4. DiskTypes' /\ NetTypes'
      BY <2>1, <2>2, <2>3, SendTypes
    <2>5. CASE /\ Goto(t, "copybits") /\ data' = [data EXCEPT ![t] = Stale]
               /\ UNCHANGED <<argVars, block, snap, cand, plan, todo, failed>>
      <3>1. RunTypes'
        BY <2>5, BlockTypes DEF RunTypes
      <3> QED BY <2>3, <2>4, <2>5, <3>1, GotoTypes DEF PC
    <2>6. CASE End(t)
      BY <2>3, <2>4, <2>6, EndTypes
    <2> QED BY <2>1, <2>5, <2>6
  <1>5. CASE SaveCopyBits(t)
    <2>1. PICK c \in todo[t] : used' = [used EXCEPT ![c[2]] = snap[t][c[2]] \cup {c[3]}]
      BY <1>5 DEF SaveCopyBits
    <2>2. c[2] \in Node /\ c[3] \in Slot
      BY DEF RunTypes, Copy
    <2>3. DbTypes'
      <3>1. snap[t][c[2]] \cup {c[3]} \in SUBSET Slot
        BY <2>2 DEF RunTypes
      <3>2. used' \in [Node -> SUBSET Slot]
        BY <2>1, <2>2, <3>1 DEF DbTypes
      <3> QED BY <1>5, <3>2 DEF SaveCopyBits, DbTypes, docVars
    <2>4. ArgTypes'
      BY <1>5, GotoTypes DEF SaveCopyBits, PC
    <2>5. RunTypes' /\ DiskTypes' /\ NetTypes' /\ AccTypes' /\ EnvTypes'
      BY <1>5 DEF SaveCopyBits, RunTypes, DiskTypes, NetTypes, AccTypes, EnvTypes,
                  runVars, netVars, accVars, envVars
    <2> QED BY <2>3, <2>4, <2>5
  <1>6. CASE SaveCopy(t)
    <2>1. ArgTypes' /\ RunTypes'
      BY <1>6, EndTypes DEF SaveCopy
    <2>2. DbTypes'
      BY <1>6 DEF SaveCopy, DbTypes, RunTypes
    <2>3. DiskTypes' /\ NetTypes' /\ AccTypes' /\ EnvTypes'
      BY <1>6 DEF SaveCopy, DiskTypes, NetTypes, AccTypes, EnvTypes, netVars, accVars, envVars
    <2> QED BY <2>1, <2>2, <2>3
  <1> QED
    BY <1>1, <1>2, <1>3, <1>4, <1>5, <1>6

\* The steps of the nodes and their connections.
LEMMA NetworkTypes ==
    ASSUME Typed, NEW n \in Node, Network(n)
    PROVE  Typed'
  <1> USE DEF Typed
  <1>1. ArgTypes' /\ RunTypes'
    BY DEF Network, Connect, FindCopies, DropCopy, FormatNew, activateNode, deactivateNode,
           CheckAlive, NodeDies, ArgTypes, RunTypes, locVars, argVars, runVars
  <1>2. EnvTypes'
    BY DEF Network, Connect, FindCopies, DropCopy, FormatNew, activateNode, deactivateNode,
           CheckAlive, NodeDies, EnvTypes, Faulty, accVars, envVars
  <1>3. NetTypes'
    BY DEF Network, Connect, FindCopies, DropCopy, FormatNew, activateNode, deactivateNode,
           CheckAlive, NodeDies, NetTypes, netVars
  <1>4. DiskTypes'
    BY BlockTypes
    DEF Network, Connect, FindCopies, DropCopy, FormatNew, activateNode, deactivateNode,
           CheckAlive, NodeDies, DiskTypes
  <1>5. DbTypes' /\ AccTypes'
    <2>1. CASE Connect(n)
      BY <2>1 DEF Connect, DbTypes, AccTypes, docVars
    <2>2. CASE FindCopies(n)
      BY <2>2 DEF FindCopies, DbTypes, AccTypes, dbVars, docVars
    <2>3. CASE DropCopy(n)
      <3>1. PICK p \in pulls[n] : /\ copies' = [copies EXCEPT ![p[1]] = @ \ {p[2]}]
                                  /\ pulls' = [pulls EXCEPT ![n] = @ \ {p}]
        BY <2>3 DEF DropCopy
      <3> QED BY <2>3, <3>1 DEF DropCopy, DbTypes, AccTypes
    <2>4. CASE FormatNew(n)
      BY <2>4 DEF FormatNew, DbTypes, AccTypes, docVars
    <2>5. CASE activateNode(n) \/ deactivateNode(n) \/ CheckAlive(n) \/ NodeDies(n)
      BY <2>5 DEF activateNode, deactivateNode, CheckAlive, NodeDies, DbTypes, AccTypes,
                  dbVars, docVars, accVars
    <2> QED
      BY <2>1, <2>2, <2>3, <2>4, <2>5 DEF Network
  <1> QED BY <1>1, <1>2, <1>3, <1>4, <1>5

\* Every step.
LEMMA StepTypes == Typed /\ [Next]_vars => Typed'
  <1> SUFFICES ASSUME Typed, [Next]_vars PROVE Typed'
    OBVIOUS
  <1>1. ASSUME NEW t \in Thread, Run(t) PROVE Typed'
    BY <1>1, StoreTypes, RemoveTypes, CopyTypes DEF Run
  <1>2. ASSUME NEW n \in Node, Network(n) PROVE Typed'
    BY <1>2, NetworkTypes
  <1>3. CASE UNCHANGED vars
    BY <1>3 DEF vars, dbVars, docVars, netVars, locVars, argVars, runVars, accVars, envVars, Typed,
            DbTypes, DiskTypes, NetTypes, ArgTypes, RunTypes, AccTypes, EnvTypes
  <1> QED
    BY <1>1, <1>2, <1>3 DEF Next, Crashed

\* The types of the documents, of the nodes and of the threads that store files, for any
\* number of nodes, files, faults and connections (filesystem.c, connections_node.c).
THEOREM TypeCorrect == Spec => []TypeOK
  <1>1. Init => Typed
    BY InitTypes, TypeParts DEF Typed
  <1>2. Typed => TypeOK
    BY TypeParts DEF Typed
  <1> QED
    BY <1>1, <1>2, StepTypes, PTL DEF Spec

----------------------------------------------------------------------------
(* The copies of a block are in different nodes.                            *)

\* The same of any set of copies.
Spread(S) == \A c, d \in S : c[1] = d[1] /\ c[2] = d[2] => c = d

Storing == {"plan", "send", "bits", "save"}
Looking == {"fetch", "choose"}
Copying == {"copy", "copybits", "copydoc"}
Console == Looking \cup Copying \cup {"pull", "format", "formatnode"}

\* A thread that stores a file has planned copies in different nodes, of the blocks
\* before the next; only the console does anything else; and when it copies a block
\* the document of the file stays, and names no copy that it does not know of.
Safe(t) ==
    /\ pc[t] \in {"idle", "read"} => plan[t] = {}
    /\ pc[t] = "plan" => \A c \in plan[t] : c[1] < block[t]
    /\ pc[t] \in Storing => Spread(plan[t])
    /\ cmd[t] # "store" \/ pc[t] \in Console => t = "console"
    /\ pc[t] \in Looking \cup Copying => path[t] \in files
    /\ pc[t] \in Looking => CopiesOf(path[t], block[t]) \subseteq plan[t]
    /\ pc[t] \in Copying =>
         \A c \in todo[t] : /\ \A d \in todo[t] : c = d
                            /\ \A d \in copies[path[t]] : d[1] = c[1] => d[2] # c[2]

Apart == \A f \in File : Spread(copies[f])
AllSafe == \A t \in Thread : Safe(t)

\* What a step changes of the threads is of the one that takes it.
callVars(u) == <<pc[u], cmd[u], path[u], block[u], plan[u], todo[u]>>
LEMMA OthersStay ==
    ASSUME Typed, NEW t \in Thread, Run(t), NEW u \in Thread \ {t}
    PROVE  UNCHANGED callVars(u)
  <1> USE DEF Typed, ArgTypes, RunTypes, callVars
  <1>1. ASSUME End(t) PROVE UNCHANGED callVars(u)
    BY <1>1 DEF End, Goto
  <1>2. CASE StoreFile(t) \/ ReadNodes(t) \/ SaveBits(t) \/ SendBlock(t)
    BY <1>2 DEF StoreFile, ReadNodes, SaveBits, SendBlock, Start, Goto, argVars, runVars
  <1>3. CASE PlanBlock(t)
    BY <1>1, <1>3 DEF PlanBlock, Goto, argVars
  <1>4. CASE JoinSenders(t) \/ SaveFile(t)
    BY <1>1, <1>4 DEF JoinSenders, SaveFile, Undo, Goto, argVars
  <1>5. CASE RemoveFile(t) \/ RemoveCopy(t) \/ PullCopy(t) \/ ReadNode(t)
    BY <1>5 DEF RemoveFile, RemoveCopy, PullCopy, ReadNode, Start, Goto, argVars, runVars
  <1>6. CASE FreeBlock(t) \/ EndFree(t) \/ Format(t) \/ ReadAllNodes(t) \/ FormatNode(t)
    BY <1>1, <1>6 DEF FreeBlock, EndFree, Format, ReadAllNodes, FormatNode, Start, Goto, argVars, runVars
  <1>7. CASE CopyBlock(t) \/ ChooseNode(t) \/ SaveCopyBits(t) \/ SaveCopy(t)
    BY <1>1, <1>7 DEF CopyBlock, ChooseNode, SaveCopyBits, SaveCopy, Start, Goto, argVars, runVars
  <1>8. CASE FetchBlock(t) \/ SendCopy(t)
    BY <1>1, <1>8 DEF FetchBlock, SendCopy, Goto, locVars, argVars, runVars
  <1> QED
    BY <1>2, <1>3, <1>4, <1>5, <1>6, <1>7, <1>8 DEF Run

\* A thread stays safe when nothing of it changes and the document it works on stays,
\* with no new copy.
LEMMA SafeStays ==
    ASSUME NEW u, Safe(u), UNCHANGED callVars(u),
           u = "console" /\ path[u] \in files
              => path[u] \in files' /\ copies'[path[u]] \subseteq copies[path[u]]
    PROVE  Safe(u)'
  <1>1. /\ pc'[u] = pc[u] /\ cmd'[u] = cmd[u] /\ path'[u] = path[u]
        /\ block'[u] = block[u] /\ plan'[u] = plan[u] /\ todo'[u] = todo[u]
    BY DEF callVars
  <1>2. pc[u] \in Looking \cup Copying =>
          path[u] \in files /\ path[u] \in files' /\ copies'[path[u]] \subseteq copies[path[u]]
    BY DEF Safe, Console
  <1>3. pc[u] \in Looking => CopiesOf(path[u], block[u])' \subseteq plan[u]
    BY <1>1, <1>2 DEF Safe, CopiesOf
  <1>4. pc[u] \in Copying =>
         \A c \in todo[u] : /\ \A d \in todo[u] : c = d
                            /\ \A d \in copies'[path[u]] : d[1] = c[1] => d[2] # c[2]
    BY <1>2 DEF Safe
  <1> QED
    BY <1>1, <1>2, <1>3, <1>4 DEF Safe, Spread

\* The documents after the step of a thread: of those that another thread works on
\* none is lost, nor gets a copy.
LEMMA DocumentsStay ==
    ASSUME Typed, AllSafe, NEW t \in Thread, Run(t), t # "console",
           NEW f \in files
    PROVE  f \in files' /\ copies'[f] = copies[f]
  <1> USE DEF Typed, DbTypes, ArgTypes, AllSafe
  <1>1. cmd[t] = "store" /\ pc[t] \notin Console
    BY DEF Safe
  <1>2. CASE SaveFile(t)
    BY <1>2 DEF SaveFile, docVars
  <1>3. CASE EndFree(t)
    BY <1>1, <1>3 DEF EndFree, docVars
  <1>4. CASE UNCHANGED docVars
    BY <1>4 DEF docVars
  <1>5. CASE PullCopy(t) \/ SaveCopy(t) \/ Format(t)
    BY <1>1, <1>5 DEF PullCopy, SaveCopy, Format, Console, Copying
  <1> QED
    BY <1>2, <1>3, <1>4, <1>5
    DEF Run, StoreFile, ReadNodes, PlanBlock, SendBlock, JoinSenders, SaveBits,
        RemoveFile, RemoveCopy, ReadNode, FreeBlock, CopyBlock, FetchBlock, ChooseNode,
        SendCopy, SaveCopyBits, ReadAllNodes, FormatNode, dbVars

\* A thread whose command ends is safe.
LEMMA EndSafe ==
    ASSUME Typed, NEW t \in Thread, End(t)
    PROVE  Safe(t)'
  BY DEF Typed, ArgTypes, RunTypes, End, Goto, Safe, Storing, Looking, Copying, Console

\* Storing a file.
LEMMA StoreSafe ==
    ASSUME Typed, AllSafe, Apart, NEW t \in Thread,
           StoreFile(t) \/ ReadNodes(t) \/ PlanBlock(t) \/ SendBlock(t)
             \/ JoinSenders(t) \/ SaveBits(t) \/ SaveFile(t)
    PROVE  Safe(t)' /\ Apart'
  <1> USE DEF AllSafe, Typed, ArgTypes, RunTypes
  <1>0. ASSUME UNCHANGED copies PROVE Apart'
    BY <1>0 DEF Apart
  <1>1. CASE StoreFile(t)
    BY <1>0, <1>1 DEF StoreFile, Start, Goto, Safe, Storing, Looking, Copying, Console,
                      dbVars, docVars, runVars
  <1>2. CASE ReadNodes(t)
    <2>1. plan'[t] = {} /\ pc'[t] = "plan" /\ cmd'[t] = cmd[t]
      BY <1>2 DEF ReadNodes, Goto, Safe, argVars
    <2>2. Spread(plan'[t])
      BY <2>1 DEF Spread
    <2>3. cmd[t] = "store" \/ t = "console"
      BY DEF Safe
    <2>4. UNCHANGED copies
      BY <1>2 DEF ReadNodes, dbVars, docVars
    <2> QED
      BY <1>0, <2>1, <2>2, <2>3, <2>4 DEF Safe, Storing, Looking, Copying, Console
  <1>3. CASE PlanBlock(t)
    <2>0. UNCHANGED copies
      BY <1>3 DEF PlanBlock, dbVars, docVars
    <2>1. CASE End(t)
      BY <1>0, <2>0, <2>1, EndSafe
    <2>2. ASSUME NEW T,
                 plan' = [plan EXCEPT ![t] =
                      @ \cup {<<block[t], n, FirstFree(snap[t][n])>> : n \in T}],
                 \/ /\ block[t] < Blocks[path[t]]
                    /\ block' = [block EXCEPT ![t] = @ + 1]
                    /\ UNCHANGED <<pc, cand, todo>>
                 \/ /\ todo' = [todo EXCEPT ![t] = plan'[t]]
                    /\ cand' = [cand EXCEPT ![t] = {}]
                    /\ Goto(t, "send")
                    /\ UNCHANGED block,
                 UNCHANGED <<argVars, failed, data>>
          PROVE  Safe(t)'
      <3>1. pc[t] = "plan" /\ block[t] \in Nat
        BY <1>3, BlockTypes DEF PlanBlock
      <3>2. \A c \in plan[t] : c[1] \in Nat /\ c[1] < block[t]
        <4>1. \A c \in Copy : c[1] \in Nat
          BY BlockTypes DEF Copy
        <4>2. \A c \in plan[t] : c[1] < block[t]
          BY <3>1 DEF Safe
        <4> QED BY <4>1, <4>2
      <3>3. Spread(plan[t])
        BY <3>1 DEF Safe, Storing
      <3> DEFINE s == [n \in T |-> FirstFree(snap[t][n])]
                 N == plan[t] \cup {<<block[t], n, s[n]>> : n \in T}
      <3>4. plan'[t] = N
        BY <2>2
      <3>5. Spread(N) /\ \A c \in N : c[1] < block[t] + 1
        <4>1. \A c \in N : c \in plan[t] \/ (c[1] = block[t] /\ c = <<block[t], c[2], s[c[2]]>>)
          OBVIOUS
        <4>2. \A c \in N : c[1] < block[t] + 1
          <5> SUFFICES ASSUME NEW c \in N PROVE c[1] < block[t] + 1
            OBVIOUS
          <5>1. CASE c \in plan[t]
            <6>1. c[1] \in Nat /\ c[1] < block[t] /\ block[t] \in Nat
              BY <3>1, <3>2, <5>1
            <6> QED BY <6>1
          <5>2. CASE c[1] = block[t]
            BY <3>1, <5>2
          <5> HIDE DEF N
          <5> QED BY <4>1, <5>1, <5>2
        <4>3. \A c, d \in N : c[1] = d[1] /\ c[2] = d[2] => c = d
          <5> HIDE DEF s, N
          <5>1. \A c \in plan[t] : c[1] # block[t]
            BY <3>1, <3>2
          <5> QED BY <3>3, <4>1, <5>1 DEF Spread
        <4> HIDE DEF N
        <4> QED BY <4>2, <4>3 DEF Spread
      <3>6. pc'[t] = "plan" => block'[t] = block[t] + 1
        BY <2>2, <3>1 DEF Goto
      <3>7. pc'[t] \in {"plan", "send"} /\ cmd'[t] = cmd[t]
        BY <2>2, <3>1 DEF Goto, argVars
      <3>8. cmd[t] = "store" \/ t = "console"
        BY DEF Safe
      <3> HIDE DEF N
      <3> QED
        BY <3>4, <3>5, <3>6, <3>7, <3>8 DEF Safe, Storing, Looking, Copying, Console
    <2> QED
      BY <1>0, <1>3, <2>0, <2>1, <2>2 DEF PlanBlock
  <1>4. CASE SendBlock(t)
    <2>1. /\ UNCHANGED <<pc, argVars, plan, block>> /\ pc[t] = "send" /\ UNCHANGED copies
      BY <1>4 DEF SendBlock, dbVars, docVars
    <2> QED
      BY <1>0, <2>1 DEF Safe, Storing, Looking, Copying, Console, argVars
  <1>5. CASE JoinSenders(t)
    <2>0. UNCHANGED copies
      BY <1>5 DEF JoinSenders, dbVars, docVars
    <2>1. CASE End(t)
      BY <1>0, <2>0, <2>1, EndSafe
    <2>2. CASE Goto(t, "bits") /\ UNCHANGED <<argVars, block, plan>>
      <3>1. pc'[t] = "bits" /\ pc[t] = "send"
        BY <1>5, <2>2 DEF JoinSenders, Goto
      <3> QED
        BY <1>0, <2>0, <2>2, <3>1 DEF Safe, Storing, Looking, Copying, Console, argVars
    <2> QED
      BY <1>5, <2>1, <2>2 DEF JoinSenders
  <1>6. CASE SaveBits(t)
    <2>1. /\ UNCHANGED <<argVars, plan, block>> /\ pc[t] = "bits" /\ pc'[t] \in {"bits", "save"}
          /\ UNCHANGED copies
      BY <1>6 DEF SaveBits, Goto, docVars
    <2> QED
      BY <1>0, <2>1 DEF Safe, Storing, Looking, Copying, Console, argVars
  <1>7. CASE SaveFile(t)
    <2>1. Apart'
      <3>1. CASE copies' = [copies EXCEPT ![path[t]] = plan[t]]
        <4>1. Spread(plan[t])
          BY <1>7 DEF SaveFile, Safe, Storing
        <4> QED BY <3>1, <4>1 DEF Apart, DbTypes
      <3> QED
        BY <1>0, <1>7, <3>1 DEF SaveFile, docVars
    <2>2. CASE End(t)
      BY <2>1, <2>2, EndSafe
    <2>3. CASE Goto(t, "free") /\ UNCHANGED argVars
      BY <2>1, <2>3 DEF Goto, Safe, Storing, Looking, Copying, Console, argVars
    <2> QED
      BY <1>7, <2>2, <2>3 DEF SaveFile
  <1> QED
    BY <1>1, <1>2, <1>3, <1>4, <1>5, <1>6, <1>7

\* Removing a file or a copy, and format.
LEMMA RemoveSafe ==
    ASSUME Typed, AllSafe, Apart, NEW t \in Thread,
           RemoveFile(t) \/ RemoveCopy(t) \/ PullCopy(t) \/ ReadNode(t) \/ FreeBlock(t)
             \/ EndFree(t) \/ Format(t) \/ ReadAllNodes(t) \/ FormatNode(t)
    PROVE  Safe(t)' /\ Apart'
  <1> USE DEF AllSafe, Typed, ArgTypes, RunTypes, DbTypes
  <1>0. ASSUME UNCHANGED copies PROVE Apart'
    BY <1>0 DEF Apart
  <1>1. ASSUME NEW F, Forget(F) PROVE Apart'
    BY <1>1 DEF Forget, Apart, Spread
  <1>2. CASE RemoveFile(t) \/ RemoveCopy(t)
    <2>1. UNCHANGED copies
      BY <1>2 DEF RemoveFile, RemoveCopy, dbVars, docVars
    <2>2. t = "console" /\ pc'[t] \in {"free", "pull"}
      BY <1>2 DEF RemoveFile, RemoveCopy, Start, Goto
    <2> QED
      BY <1>0, <2>1, <2>2 DEF Safe, Storing, Looking, Copying, Console
  <1>3. CASE PullCopy(t)
    <2>1. Apart'
      BY <1>3 DEF PullCopy, Apart, Spread
    <2>2. pc[t] \in Console /\ pc'[t] = "free"
      BY <1>3 DEF PullCopy, Goto, Console
    <2>3. t = "console"
      BY <2>2 DEF Safe
    <2> QED
      BY <2>1, <2>2, <2>3 DEF Safe, Storing, Looking, Copying, Console
  <1>4. CASE ReadNode(t) \/ FreeBlock(t)
    <2>1. pc'[t] \in {"free", "freed"} /\ UNCHANGED <<copies, cmd>>
      BY <1>4 DEF ReadNode, FreeBlock, Goto, dbVars, docVars, argVars
    <2> QED
      BY <1>0, <2>1 DEF Safe, Storing, Looking, Copying, Console
  <1>5. CASE EndFree(t)
    <2>1. Apart'
      BY <1>0, <1>1, <1>5 DEF EndFree, docVars
    <2> QED BY <1>5, <2>1, EndSafe DEF EndFree
  <1>6. CASE Format(t)
    <2>1. t = "console" /\ pc'[t] = "format"
      BY <1>6 DEF Format, Start, Goto
    <2> QED
      BY <1>1, <1>6, <2>1 DEF Format, Safe, Storing, Looking, Copying, Console
  <1>7. CASE ReadAllNodes(t)
    <2>1. pc[t] \in Console /\ pc'[t] = "formatnode" /\ UNCHANGED copies
      BY <1>7 DEF ReadAllNodes, Goto, Console, dbVars, docVars
    <2>2. t = "console"
      BY <2>1 DEF Safe
    <2> QED
      BY <1>0, <2>1, <2>2 DEF Safe, Storing, Looking, Copying, Console
  <1>8. CASE FormatNode(t)
    <2>0. UNCHANGED copies
      BY <1>8 DEF FormatNode, docVars
    <2>1. CASE End(t)
      BY <1>0, <2>0, <2>1, EndSafe
    <2>2. CASE UNCHANGED <<pc, argVars, block, plan, todo>>
      <3>1. pc[t] = "formatnode"
        BY <1>8 DEF FormatNode
      <3> QED
        BY <1>0, <2>0, <2>2, <3>1 DEF Safe, Storing, Looking, Copying, Console, argVars
    <2> QED
      BY <1>8, <2>1, <2>2 DEF FormatNode
  <1> QED
    BY <1>2, <1>3, <1>4, <1>5, <1>6, <1>7, <1>8

\* cpb: the node that is chosen has no copy in the document read before, and the
\* document may only have lost some since.
LEMMA CopySafe ==
    ASSUME Typed, AllSafe, Apart, NEW t \in Thread,
           CopyBlock(t) \/ FetchBlock(t) \/ ChooseNode(t) \/ SendCopy(t)
             \/ SaveCopyBits(t) \/ SaveCopy(t)
    PROVE  Safe(t)' /\ Apart'
  <1> USE DEF AllSafe, Typed, ArgTypes, RunTypes, DbTypes
  <1>0. ASSUME UNCHANGED copies PROVE Apart'
    BY <1>0 DEF Apart
  <1>1. CASE CopyBlock(t)
    <2> DEFINE Starts(f, b) == /\ Start(t, "cpb", f, "fetch")
                               /\ block' = [block EXCEPT ![t] = b]
                               /\ plan' = [plan EXCEPT ![t] = CopiesOf(f, b)]
    <2> PICK f \in files : \E b \in 1 .. Blocks[f] : Starts(f, b)
      BY <1>1 DEF CopyBlock
    <2>1. PICK b \in 1 .. Blocks[f] : Starts(f, b)
      OBVIOUS
    <2>2. t = "console" /\ UNCHANGED <<files, copies>>
      BY <1>1 DEF CopyBlock, dbVars, docVars
    <2>3. pc'[t] = "fetch" /\ path'[t] = f /\ block'[t] = b /\ plan'[t] = CopiesOf(f, b)
      BY <2>1 DEF Start, Goto
    <2>4. CopiesOf(path[t], block[t])' \subseteq plan'[t]
      BY <2>2, <2>3 DEF CopiesOf
    <2> QED
      BY <1>0, <2>2, <2>3, <2>4 DEF Safe, Storing, Looking, Copying, Console
  <1>2. CASE FetchBlock(t)
    <2>0. UNCHANGED <<files, copies>> /\ pc[t] = "fetch"
      BY <1>2 DEF FetchBlock, dbVars, docVars
    <2>1. CASE End(t)
      BY <1>0, <2>0, <2>1, EndSafe
    <2>2. CASE /\ Goto(t, "choose") \/ UNCHANGED pc
               /\ UNCHANGED <<argVars, block, plan>>
      <3>1. pc'[t] \in Looking /\ pc[t] \in Looking /\ pc[t] = "fetch"
        BY <2>0, <2>2 DEF Goto, Looking
      <3>2. CopiesOf(path[t], block[t])' = CopiesOf(path[t], block[t])
        BY <2>0, <2>2 DEF CopiesOf, argVars
      <3> QED
        BY <1>0, <2>0, <2>2, <3>1, <3>2 DEF Safe, Storing, Looking, Copying, Console, argVars
    <2> QED
      BY <1>2, <2>1, <2>2 DEF FetchBlock, locVars, runVars
  <1>3. CASE ChooseNode(t)
    <2>0. UNCHANGED <<files, copies>> /\ pc[t] = "choose"
      BY <1>3 DEF ChooseNode, dbVars, docVars
    <2>1. CASE End(t)
      BY <1>0, <2>0, <2>1, EndSafe
    <2>2. ASSUME NEW n \in UNION MostFree(1, Others(t), used),
                 todo' = [todo EXCEPT ![t] = {<<block[t], n, FirstFree(used[n])>>}],
                 Goto(t, "copy"), UNCHANGED <<argVars, block>>
          PROVE  Safe(t)'
      <3>1. pc[t] \in Looking /\ pc'[t] = "copy" /\ cmd'[t] = cmd[t] /\ path'[t] = path[t]
        BY <2>0, <2>2 DEF Goto, Looking, argVars
      <3>2. t = "console" /\ path[t] \in files /\ CopiesOf(path[t], block[t]) \subseteq plan[t]
        BY <3>1 DEF Safe, Console
      <3>3. n \in Others(t)
        BY FreestAreGiven
      <3>4. \A d \in copies[path[t]] : d[1] = block[t] => d[2] # n
        BY <3>2, <3>3 DEF Others, CopiesOf
      <3>5. \A c \in todo'[t] : c = <<block[t], n, FirstFree(used[n])>>
        BY <2>2
      <3>6. \A c \in todo'[t] : c[1] = block[t] /\ c[2] = n
        BY <3>5
      <3>7. \A c \in todo'[t] : /\ \A d \in todo'[t] : c = d
                                /\ \A d \in copies'[path'[t]] : d[1] = c[1] => d[2] # c[2]
        BY <2>0, <3>1, <3>4, <3>5, <3>6
      <3> QED
        BY <2>0, <3>1, <3>2, <3>7 DEF Safe, Storing, Looking, Copying, Console
    <2> QED
      BY <1>0, <1>3, <2>0, <2>1, <2>2 DEF ChooseNode
  <1>4. CASE SendCopy(t)
    <2>0. UNCHANGED <<files, copies>> /\ pc[t] = "copy"
      BY <1>4 DEF SendCopy, dbVars, docVars
    <2>1. CASE End(t)
      BY <1>0, <2>0, <2>1, EndSafe
    <2>2. CASE Goto(t, "copybits") /\ UNCHANGED <<argVars, block, plan, todo>>
      <3>1. pc'[t] = "copybits" /\ pc[t] \in Copying
        BY <2>0, <2>2 DEF Goto, Copying
      <3> QED
        BY <1>0, <2>0, <2>2, <3>1 DEF Safe, Storing, Looking, Copying, Console, argVars
    <2> QED
      BY <1>4, <2>1, <2>2 DEF SendCopy
  <1>5. CASE SaveCopyBits(t)
    <2>1. /\ UNCHANGED <<files, copies, argVars, runVars>> /\ pc[t] = "copybits"
          /\ pc'[t] = "copydoc"
      BY <1>5 DEF SaveCopyBits, docVars, Goto
    <2> QED
      BY <1>0, <2>1 DEF Safe, Storing, Looking, Copying, Console, argVars, runVars
  <1>6. CASE SaveCopy(t)
    <2>1. pc[t] \in Copying
      BY <1>6 DEF SaveCopy, Copying
    <2>2. Spread(copies[path[t]] \cup todo[t])
      <3>1. Spread(copies[path[t]])
        BY DEF Apart
      <3>2. \A c \in todo[t] : /\ \A d \in todo[t] : c = d
                               /\ \A d \in copies[path[t]] : d[1] = c[1] => d[2] # c[2]
        BY <2>1 DEF Safe
      <3> QED BY <3>1, <3>2 DEF Spread
    <2>3. Apart'
      BY <1>6, <2>2 DEF SaveCopy, Apart
    <2> QED BY <1>6, <2>3, EndSafe DEF SaveCopy
  <1> QED
    BY <1>1, <1>2, <1>3, <1>4, <1>5, <1>6

\* The nodes only take copies out of documents.
LEMMA NetworkSafe ==
    ASSUME Typed, AllSafe, Apart, NEW n \in Node, Network(n)
    PROVE  AllSafe' /\ Apart'
  <1> USE DEF Typed, DbTypes
  <1>1. UNCHANGED <<files, locVars>>
    BY DEF Network, Connect, FindCopies, DropCopy, FormatNew, activateNode, deactivateNode,
           CheckAlive, NodeDies, dbVars, docVars
  <1>2. \A f \in File : copies'[f] \subseteq copies[f]
    <2>1. CASE DropCopy(n)
      <3>1. PICK p \in pulls[n] : copies' = [copies EXCEPT ![p[1]] = @ \ {p[2]}]
        BY <2>1 DEF DropCopy
      <3> QED BY <3>1
    <2>2. CASE UNCHANGED copies
      BY <2>2
    <2> QED
      BY <2>1, <2>2 DEF Network, Connect, FindCopies, FormatNew, activateNode, deactivateNode,
                        CheckAlive, NodeDies, dbVars, docVars
  <1>3. Apart'
    BY <1>2 DEF Apart, Spread
  <1>4. ASSUME NEW u \in Thread PROVE Safe(u)'
    <2>1. UNCHANGED callVars(u)
      BY <1>1 DEF callVars, locVars, argVars, runVars
    <2>2. path[u] \in files => path[u] \in files' /\ copies'[path[u]] \subseteq copies[path[u]]
      BY <1>1, <1>2
    <2> QED BY <2>1, <2>2, SafeStays DEF AllSafe
  <1> QED BY <1>3, <1>4 DEF AllSafe

\* Every step.
LEMMA StepSafe == Typed /\ AllSafe /\ Apart /\ [Next]_vars => AllSafe' /\ Apart'
  <1> SUFFICES ASSUME Typed, AllSafe, Apart, [Next]_vars PROVE AllSafe' /\ Apart'
    OBVIOUS
  <1>1. ASSUME NEW t \in Thread, Run(t) PROVE AllSafe' /\ Apart'
    <2>1. Safe(t)' /\ Apart'
      BY <1>1, StoreSafe, RemoveSafe, CopySafe DEF Run
    <2>2. ASSUME NEW u \in Thread \ {t} PROVE Safe(u)'
      <3>1. UNCHANGED callVars(u)
        BY <1>1, OthersStay
      <3>2. u = "console" /\ path[u] \in files
              => path[u] \in files' /\ copies'[path[u]] \subseteq copies[path[u]]
        BY <1>1, DocumentsStay
      <3> QED BY <3>1, <3>2, SafeStays DEF AllSafe
    <2> QED BY <2>1, <2>2 DEF AllSafe
  <1>2. ASSUME NEW n \in Node, Network(n) PROVE AllSafe' /\ Apart'
    BY <1>2, NetworkSafe
  <1>3. CASE UNCHANGED vars
    <2>1. UNCHANGED <<files, copies>> /\ \A u \in Thread : UNCHANGED callVars(u)
      BY <1>3 DEF vars, dbVars, docVars, locVars, argVars, runVars, callVars
    <2>2. \A u \in Thread : Safe(u)'
      BY <2>1, SafeStays DEF AllSafe
    <2> QED BY <2>1, <2>2 DEF AllSafe, Apart
  <1> QED
    BY <1>1, <1>2, <1>3 DEF Next, Crashed

\* Before anything is stored.
LEMMA InitSafe == Init => AllSafe /\ Apart
  BY DEF Init, AllSafe, Apart, Spread, Safe, Storing, Looking, Copying, Console

\* makeNewFileBlockCopy and distributeBlocksToNodes never put two copies of a block in one
\* node, for any number of threads that store, of nodes that connect, and of faults.
THEOREM CopiesApart == Spec => []CopiesInDifferentNodes
  <1>1. Init => Typed /\ AllSafe /\ Apart
    BY InitTypes, InitSafe, TypeParts DEF Typed
  <1>2. Typed /\ AllSafe /\ Apart /\ [Next]_vars => (Typed /\ AllSafe /\ Apart)'
    BY StepTypes, StepSafe
  <1>3. Apart => CopiesInDifferentNodes
    BY DEF Apart, Spread, CopiesInDifferentNodes
  <1> QED
    BY <1>1, <1>2, <1>3, PTL DEF Spec

----------------------------------------------------------------------------
\* The console alone.
Alone == Thread = {"console"} /\ NewNodes = {}

Con == "console"

\* The file whose copies are being set free.
Removed(f) == cmd[Con] = "rm" /\ f = path[Con]

\* The places documents name, and those of some copies.
Names(n, s) == \E f \in File : ~Removed(f) /\ \E c \in copies[f] : c[2] = n /\ c[3] = s
At(S, n, s) == \E c \in S : c[2] = n /\ c[3] = s

\* The copies that will get into a document or be set free.
Promised ==
    IF pc[Con] \in {"free"} \cup Copying THEN todo[Con]
    ELSE IF pc[Con] = "freed" THEN todo[Con] \cup plan[Con]
    ELSE IF pc[Con] \in Storing THEN plan[Con] ELSE {}

\* Those whose place the bitmaps mark already, or still.
Marked ==
    IF pc[Con] \in {"free", "copydoc"} THEN todo[Con]
    ELSE IF pc[Con] = "freed" THEN todo[Con] \cup plan[Con]
    ELSE IF pc[Con] \in {"bits", "save"}
         THEN {c \in plan[Con] : \E d \in plan[Con] \ todo[Con] : d[2] = c[2]} ELSE {}

\* No place is named twice, nor promised twice, nor named and promised.
NamedOnce ==
    \A f, g \in File : \A c \in copies[f], d \in copies[g] :
        c[2] = d[2] /\ c[3] = d[3] => f = g /\ c = d
PromisedOnce ==
    /\ \A c, d \in Promised : c[2] = d[2] /\ c[3] = d[3] => c = d
    /\ \A c \in Promised : c[2] \in nodes /\ ~Names(c[2], c[3])
\* The bitmaps mark what documents name and what is marked for them.
Exact ==
    pc[Con] \notin {"format", "formatnode"} =>
        \A n \in nodes, s \in Slot : s \in used[n] <=> Names(n, s) \/ At(Marked, n, s)
\* The bitmaps a thread has read are those it goes on with.
BitsRead ==
    /\ pc[Con] \in Storing => \A n \in cand[Con] \cup {c[2] : c \in plan[Con]} :
         /\ n \in nodes
         /\ \A s \in Slot : s \in snap[Con][n] <=> Names(n, s) \/ At(plan[Con], n, s)
    /\ pc[Con] = "freed" => \A c \in plan[Con] :
         /\ snap[Con][c[2]] = used[c[2]] /\ c \notin todo[Con]
         /\ \A d \in plan[Con] : c = d
    /\ pc[Con] \in {"copy", "copybits"} =>
         \A c \in todo[Con] : snap[Con][c[2]] = used[c[2]]
\* Documents name nodes that have one, and files that are gone name nothing.
Documents ==
    /\ \A f \in File : \A c \in copies[f] : c[2] \in nodes
    /\ \A f \in File \ files : copies[f] = {}
\* What is known at each place of the console.
Stage ==
    /\ cmd[Con] = "rm" => pc[Con] \in {"free", "freed"}
    /\ pc[Con] = "pull" => todo[Con] \subseteq copies[path[Con]]
    /\ pc[Con] \in {"format", "formatnode"} => \A f \in File : copies[f] = {}
    /\ pc[Con] = "formatnode" => \A n \in nodes \ cand[Con] : used[n] = {}
    /\ pc[Con] = "bits" => todo[Con] \subseteq plan[Con]
    /\ pc[Con] = "save" => todo[Con] = {}
    /\ \A n \in Node : joining[n] = "no"

Books == NamedOnce /\ PromisedOnce /\ Exact /\ BitsRead /\ Documents /\ Stage

----------------------------------------------------------------------------
\* The names when nothing is being removed.
InDoc(n, s) == \E f \in File : \E c \in copies[f] : c[2] = n /\ c[3] = s
LEMMA AllNames ==
    ASSUME cmd[Con] # "rm"
    PROVE  \A n, s : Names(n, s) <=> InDoc(n, s)
  BY DEF Names, Removed, InDoc

\* The names stay when the documents do, and what is being removed.
LEMMA NamesStay ==
    ASSUME UNCHANGED copies,
           \/ UNCHANGED <<cmd, path>>
           \/ cmd'[Con] = cmd[Con] /\ path'[Con] = path[Con]
           \/ cmd[Con] # "rm" /\ cmd'[Con] # "rm"
    PROVE  \A n, s : Names(n, s)' <=> Names(n, s)
  <1>1. \A f : Removed(f)' <=> Removed(f)
    BY DEF Removed
  <1> QED BY <1>1 DEF Names

\* So do the books of the documents.
LEMMA DocumentsKeep ==
    ASSUME Books, UNCHANGED <<nodes, files, copies>>
    PROVE  NamedOnce' /\ Documents'
  BY DEF Books, NamedOnce, Documents

\* What is marked is promised.
LEMMA MarkedArePromised == Marked \subseteq Promised
  BY DEF Marked, Promised, Storing, Copying

\* A command that ends leaves its books in order when the bitmaps mark what the
\* documents name.
LEMMA EndBooks ==
    ASSUME Alone, Typed, End(Con), NamedOnce', Documents', \A n \in Node : joining'[n] = "no",
           \A n \in nodes', s \in Slot : s \in used'[n] <=> InDoc(n, s)'
    PROVE  Books'
  <1>1. pc'[Con] = "idle" /\ cmd'[Con] = "store"
    BY DEF Alone, Con, Typed, ArgTypes, End, Goto
  <1>2. Promised' = {} /\ Marked' = {}
    BY <1>1 DEF Promised, Marked, Storing, Copying
  <1>3. \A n, s : Names(n, s)' <=> InDoc(n, s)'
    BY <1>1 DEF Names, Removed, InDoc
  <1>4. PromisedOnce' /\ Exact'
    BY <1>2, <1>3 DEF PromisedOnce, Exact, At
  <1>5. BitsRead' /\ Stage'
    BY <1>1 DEF BitsRead, Stage, Storing
  <1> QED BY <1>4, <1>5 DEF Books

\* The same with documents and bitmaps that do not change, and nothing marked.
LEMMA EndsUnchanged ==
    ASSUME Alone, Typed, Books, End(Con), UNCHANGED <<nodes, used, files, copies, joining>>,
           Marked = {}, cmd[Con] # "rm", pc[Con] \notin {"format", "formatnode"}
    PROVE  Books'
  <1>1. NamedOnce' /\ Documents'
    BY DocumentsKeep
  <1>2. \A n \in nodes, s \in Slot : s \in used[n] <=> InDoc(n, s)
    BY AllNames DEF Books, Exact, At
  <1>3. \A n, s : InDoc(n, s)' <=> InDoc(n, s)
    BY DEF InDoc
  <1> QED
    BY <1>1, <1>2, <1>3, EndBooks DEF Books, Stage

\* A step that goes on with a command whose documents and bitmaps do not change.
LEMMA BooksGoOn ==
    ASSUME Books, UNCHANGED <<nodes, used, files, copies, joining>>,
           \A n, s : Names(n, s)' <=> Names(n, s),
           Marked' = Marked,
           pc'[Con] \notin {"format", "formatnode"} => pc[Con] \notin {"format", "formatnode"},
           PromisedOnce', BitsRead', Stage'
    PROVE  Books'
  <1>1. NamedOnce' /\ Documents'
    BY DocumentsKeep
  <1>2. Exact'
    BY DEF Books, Exact, At
  <1> QED BY <1>1, <1>2 DEF Books

----------------------------------------------------------------------------
\* What is known before a step.
Ready == Alone /\ Typed /\ AllSafe /\ Books

LEMMA OneThread ==
    ASSUME Ready
    PROVE  Con \in Thread /\ Safe(Con)
  BY DEF Ready, Alone, Con, AllSafe

\* Storing a file.
LEMMA StoreBooks ==
    ASSUME Ready,
           StoreFile(Con) \/ ReadNodes(Con) \/ SendBlock(Con) \/ JoinSenders(Con)
    PROVE  Books'
  <1> USE OneThread DEF Ready, Typed, ArgTypes, RunTypes
  <1>1. CASE StoreFile(Con)
    <2>1. /\ pc[Con] = "idle" /\ pc'[Con] = "read" /\ cmd'[Con] = "store"
          /\ UNCHANGED <<nodes, used, files, copies, joining>>
      BY <1>1 DEF StoreFile, Start, Goto, dbVars, docVars, accVars
    <2>2. cmd[Con] # "rm"
      BY <2>1 DEF Books, Stage
    <2>3. \A n, s : Names(n, s)' <=> Names(n, s)
      BY <2>1, <2>2, NamesStay
    <2>4. Marked' = Marked /\ Promised' = {}
      BY <2>1 DEF Marked, Promised, Storing, Copying
    <2>5. PromisedOnce' /\ BitsRead' /\ Stage'
      BY <2>1, <2>4 DEF PromisedOnce, BitsRead, Stage, Storing, Books
    <2> QED BY <2>1, <2>3, <2>4, <2>5, BooksGoOn
  <1>2. CASE ReadNodes(Con)
    <2>1. /\ pc[Con] = "read" /\ pc'[Con] = "plan" /\ UNCHANGED <<cmd, path, plan>>
          /\ UNCHANGED <<nodes, used, files, copies, joining>>
          /\ cand'[Con] = nodes \cap active /\ snap'[Con] = ReadBits(nodes \cap active)
      BY <1>2 DEF ReadNodes, Goto, dbVars, docVars, argVars, accVars
    <2>2. \A n, s : Names(n, s)' <=> Names(n, s)
      BY <2>1, NamesStay
    <2>3. plan[Con] = {} /\ cmd[Con] # "rm"
      BY <2>1 DEF Safe, Books, Stage
    <2>4. Marked = {} /\ Marked' = {} /\ Promised' = {}
      BY <2>1, <2>3 DEF Marked, Promised, Storing, Copying
    <2>5. BitsRead'
      <3>1. \A n \in nodes \cap active : snap'[Con][n] = used[n]
        BY <2>1 DEF ReadBits, NetTypes
      <3>2. \A n \in nodes, s \in Slot : s \in used[n] <=> Names(n, s)
        BY <2>1, <2>4 DEF Books, Exact, At
      <3> QED BY <2>1, <2>2, <2>3, <3>1, <3>2 DEF BitsRead, At
    <2>6. PromisedOnce' /\ Stage'
      BY <2>1, <2>3, <2>4 DEF PromisedOnce, Stage, Books
    <2> QED BY <2>1, <2>2, <2>4, <2>5, <2>6, BooksGoOn
  <1>3. CASE SendBlock(Con)
    <2>1. /\ pc[Con] = "send" /\ UNCHANGED <<pc, cmd, path, plan, snap, cand>>
          /\ UNCHANGED <<nodes, used, files, copies, joining>>
      BY <1>3 DEF SendBlock, dbVars, docVars, argVars, accVars
    <2>2. \A n, s : Names(n, s)' <=> Names(n, s)
      BY <2>1, NamesStay
    <2>3. Marked = {} /\ Marked' = {} /\ Promised' = Promised
      BY <2>1 DEF Marked, Promised, Storing, Copying
    <2>4. PromisedOnce' /\ BitsRead'
      BY <2>1, <2>2, <2>3 DEF PromisedOnce, BitsRead, At, Books
    <2>5. Stage'
      BY <2>1 DEF Stage, Books
    <2> QED BY <2>1, <2>2, <2>3, <2>4, <2>5, BooksGoOn
  <1>4. CASE JoinSenders(Con)
    <2>1. /\ pc[Con] = "send" /\ UNCHANGED <<nodes, used, files, copies, joining>>
      BY <1>4 DEF JoinSenders, dbVars, docVars, accVars
    <2>2. Marked = {} /\ cmd[Con] # "rm"
      BY <2>1 DEF Marked, Books, Stage
    <2>3. CASE End(Con)
      BY <2>1, <2>2, <2>3, EndsUnchanged
    <2>4. CASE /\ todo' = [todo EXCEPT ![Con] = plan[Con]] /\ Goto(Con, "bits")
               /\ UNCHANGED <<disk, argVars, block, snap, cand, plan, failed, data>>
      <3>1. /\ pc'[Con] = "bits" /\ todo'[Con] = plan[Con]
            /\ UNCHANGED <<cmd, path, snap, cand, plan>>
        BY <2>4 DEF Goto, argVars
      <3>2. \A n, s : Names(n, s)' <=> Names(n, s)
        BY <2>1, <3>1, NamesStay
      <3>3. Marked' = {} /\ Promised' = Promised
        BY <2>1, <3>1 DEF Marked, Promised, Storing, Copying
      <3>4. PromisedOnce' /\ BitsRead'
        BY <2>1, <3>1, <3>2, <3>3 DEF PromisedOnce, BitsRead, Storing, At, Books
      <3>5. Stage'
        BY <2>1, <2>2, <3>1 DEF Stage, Books
      <3> QED BY <2>1, <2>2, <3>1, <3>2, <3>3, <3>4, <3>5, BooksGoOn
    <2> QED BY <1>4, <2>3, <2>4 DEF JoinSenders
  <1> QED BY <1>1, <1>2, <1>3, <1>4

\* The plan takes blocks that nothing names, the first free ones of different nodes.
LEMMA PlanBooks ==
    ASSUME Ready, PlanBlock(Con)
    PROVE  Books'
  <1> USE OneThread DEF Ready, Typed, ArgTypes, RunTypes
  <1>1. /\ pc[Con] = "plan" /\ UNCHANGED <<nodes, used, files, copies, joining>>
        /\ Marked = {} /\ cmd[Con] # "rm"
    BY DEF PlanBlock, dbVars, docVars, accVars, Marked, Books, Stage
  <1>2. CASE End(Con)
    BY <1>1, <1>2, EndsUnchanged
  <1>3. ASSUME NEW T \in MostFree(Copies, cand[Con], snap[Con]),
               \A n \in T : FreeSlots(snap[Con][n]) # {}, MarkUsed(Con, T),
               plan' = [plan EXCEPT ![Con] =
                    @ \cup {<<block[Con], n, FirstFree(snap[Con][n])>> : n \in T}],
               \/ /\ block[Con] < Blocks[path[Con]]
                  /\ block' = [block EXCEPT ![Con] = @ + 1]
                  /\ UNCHANGED <<pc, cand, todo>>
               \/ /\ todo' = [todo EXCEPT ![Con] = plan'[Con]]
                  /\ cand' = [cand EXCEPT ![Con] = {}]
                  /\ Goto(Con, "send")
                  /\ UNCHANGED block,
               UNCHANGED <<argVars, failed, data>>
        PROVE  Books'
    <2> DEFINE s0 == [n \in T |-> FirstFree(snap[Con][n])]
               New == {<<block[Con], n, s0[n]>> : n \in T}
    <2>1. /\ pc'[Con] \in {"plan", "send"} /\ UNCHANGED <<cmd, path>>
          /\ cand'[Con] \subseteq cand[Con]
      BY <1>1, <1>3 DEF Goto, argVars
    <2>2. plan'[Con] = plan[Con] \cup New
      BY <1>3
    <2>3. T \subseteq cand[Con] /\ T \subseteq Node
      BY FreestAreGiven
    <2>4. \A n \in T : s0[n] \in Slot \ snap[Con][n]
      BY <1>3, FirstFreeType
    <2>5. \A n \in Node : snap'[Con][n] = IF n \in T THEN snap[Con][n] \cup {s0[n]}
                                                      ELSE snap[Con][n]
      BY <1>3, <2>3 DEF MarkUsed
    <2>6. \A c \in New : c[2] \in T /\ c[3] = s0[c[2]] /\ c = <<block[Con], c[2], s0[c[2]]>>
      OBVIOUS
    <2>7. \A n \in T : \E c \in New : c[2] = n /\ c[3] = s0[n]
      <3> SUFFICES ASSUME NEW n \in T PROVE \E c \in New : c[2] = n /\ c[3] = s0[n]
        OBVIOUS
      <3>1. <<block[Con], n, s0[n]>> \in New
        OBVIOUS
      <3>2. <<block[Con], n, s0[n]>>[2] = n /\ <<block[Con], n, s0[n]>>[3] = s0[n]
        OBVIOUS
      <3> HIDE DEF New, s0
      <3> QED BY <3>1, <3>2
    <2> HIDE DEF New, s0
    <2>8. \A n, s : Names(n, s)' <=> Names(n, s)
      BY <1>1, <2>1, NamesStay
    <2>9. \A n \in cand[Con] \cup {c[2] : c \in plan[Con]} :
            /\ n \in nodes
            /\ \A s \in Slot : s \in snap[Con][n] <=> Names(n, s) \/ At(plan[Con], n, s)
      BY <1>1 DEF Books, BitsRead, Storing
    <2>10. \A n, s : At(plan'[Con], n, s) <=> At(plan[Con], n, s) \/ (n \in T /\ s = s0[n])
      BY <2>2, <2>6, <2>7 DEF At
    <2>11. BitsRead'
      <3>1. ASSUME NEW n \in cand'[Con] \cup {c[2] : c \in plan'[Con]}
            PROVE  /\ n \in nodes
                   /\ \A s \in Slot : s \in snap'[Con][n] <=> Names(n, s) \/ At(plan'[Con], n, s)
        <4>1. n \in cand[Con] \cup {c[2] : c \in plan[Con]}
          BY <2>1, <2>2, <2>3, <2>6
        <4>2. n \in nodes /\ n \in Node
          BY <2>9, <4>1 DEF DbTypes
        <4> QED
          BY <2>5, <2>9, <2>10, <4>1, <4>2
      <3> QED BY <1>1, <2>1, <2>8, <3>1 DEF BitsRead
    <2>12. Promised = plan[Con] /\ Promised' = plan'[Con] /\ Marked' = {}
      BY <1>1, <2>1 DEF Promised, Marked, Storing, Copying
    <2>13. PromisedOnce'
      <3>1. \A c \in plan[Con] : c[2] \in Node /\ c[3] \in Slot
        BY DEF Copy
      <3>2. \A c \in plan[Con] : c[3] \in snap[Con][c[2]]
        BY <2>9, <3>1 DEF At
      <3>3. \A c, d \in plan'[Con] : c[2] = d[2] /\ c[3] = d[3] => c = d
        <4> SUFFICES ASSUME NEW c \in plan'[Con], NEW d \in plan'[Con], c[2] = d[2], c[3] = d[3]
                     PROVE  c = d
          OBVIOUS
        <4>1. CASE c \in plan[Con] /\ d \in plan[Con]
          BY <2>12, <4>1 DEF Books, PromisedOnce
        <4>2. CASE c \in New /\ d \in New
          BY <2>6, <4>2
        <4>3. CASE c \in plan[Con] /\ d \in New
          BY <2>4, <2>6, <3>2, <4>3
        <4>4. CASE d \in plan[Con] /\ c \in New
          BY <2>4, <2>6, <3>2, <4>4
        <4> QED BY <2>2, <4>1, <4>2, <4>3, <4>4
      <3>4. \A c \in plan[Con] : c[2] \in nodes /\ ~Names(c[2], c[3])
        BY <2>12 DEF Books, PromisedOnce
      <3>5. \A c \in New : c[2] \in nodes /\ ~Names(c[2], c[3])
        BY <2>3, <2>4, <2>6, <2>9
      <3> QED BY <1>1, <2>2, <2>8, <2>12, <3>3, <3>4, <3>5 DEF PromisedOnce
    <2>14. Stage'
      BY <1>1, <2>1 DEF Stage, Books
    <2> QED BY <1>1, <2>1, <2>8, <2>11, <2>12, <2>13, <2>14, BooksGoOn
  <1> QED
    BY <1>2, <1>3 DEF PlanBlock

\* The bitmaps are saved with the blocks of the plan, then the document.
LEMMA SaveBooks ==
    ASSUME Ready, SaveBits(Con) \/ SaveFile(Con)
    PROVE  Books'
  <1> USE OneThread DEF Ready, Typed, ArgTypes, RunTypes, DbTypes
  <1>1. CASE SaveBits(Con)
    <2>1. PICK c \in todo[Con] :
            /\ used' = [used EXCEPT ![c[2]] = snap[Con][c[2]]]
            /\ todo' = [todo EXCEPT ![Con] = @ \ {c}]
            /\ Goto(Con, IF todo[Con] = {c} THEN "save" ELSE "bits")
      BY <1>1 DEF SaveBits
    <2>2. /\ pc[Con] = "bits" /\ UNCHANGED <<cmd, path, plan, snap, cand>>
          /\ UNCHANGED <<nodes, files, copies, joining>>
      BY <1>1 DEF SaveBits, docVars, argVars, accVars
    <2>3. pc'[Con] \in {"bits", "save"} /\ todo'[Con] = todo[Con] \ {c}
      BY <2>1 DEF Goto
    <2>4. /\ c \in plan[Con] /\ todo[Con] \subseteq plan[Con] /\ cmd[Con] # "rm"
          /\ \A n \in Node : joining[n] = "no"
      BY <2>2 DEF Books, Stage
    <2>5. \A n, s : Names(n, s)' <=> Names(n, s)
      BY <2>2, NamesStay
    <2>6. Promised' = Promised /\ Promised = plan[Con]
      BY <2>2, <2>3 DEF Promised, Storing, Copying
    <2>7. PromisedOnce'
      BY <2>2, <2>5, <2>6 DEF PromisedOnce, Books
    <2>8. BitsRead' /\ Stage'
      <3>0. \A n \in cand[Con] \cup {d[2] : d \in plan[Con]} :
              /\ n \in nodes
              /\ \A s \in Slot : s \in snap[Con][n] <=> Names(n, s) \/ At(plan[Con], n, s)
        BY <2>2 DEF Books, BitsRead, Storing
      <3>1. BitsRead'
        BY <2>2, <2>3, <2>5, <3>0 DEF BitsRead, At
      <3>2. pc'[Con] = "save" => todo'[Con] = {}
        BY <2>1 DEF Goto
      <3> QED BY <2>2, <2>3, <2>4, <3>1, <3>2 DEF Stage
    <2>9. Exact'
      <3>1. \A n \in nodes, s \in Slot : s \in used[n] <=> Names(n, s) \/ At(Marked, n, s)
        BY <2>2 DEF Books, Exact
      <3>2. \A s \in Slot : s \in snap[Con][c[2]] <=> Names(c[2], s) \/ At(plan[Con], c[2], s)
        BY <2>2, <2>4 DEF Books, BitsRead, Storing
      <3>3. Marked = {d \in plan[Con] : \E e \in plan[Con] \ todo[Con] : e[2] = d[2]}
        BY <2>2 DEF Marked
      <3>4. Marked' = {d \in plan[Con] : \E e \in plan[Con] \ (todo[Con] \ {c}) : e[2] = d[2]}
        BY <2>2, <2>3 DEF Marked
      <3>5. \A s : At(Marked', c[2], s) <=> At(plan[Con], c[2], s)
        BY <2>4, <3>4 DEF At
      <3>6. \A n, s : n # c[2] => (At(Marked', n, s) <=> At(Marked, n, s))
        BY <3>3, <3>4 DEF At
      <3>7. ASSUME NEW n \in nodes, NEW s \in Slot
            PROVE  s \in used'[n] <=> Names(n, s) \/ At(Marked', n, s)
        <4>1. CASE n = c[2]
          BY <2>1, <3>2, <3>5, <4>1
        <4>2. CASE n # c[2]
          BY <2>1, <3>1, <3>6, <4>2
        <4> QED BY <4>1, <4>2
      <3> QED BY <2>2, <2>5, <3>7 DEF Exact, At
    <2> QED BY <2>2, <2>7, <2>8, <2>9, DocumentsKeep DEF Books
  <1>2. CASE SaveFile(Con)
    <2>1. /\ pc[Con] = "save" /\ UNCHANGED <<nodes, used, joining>> /\ todo[Con] = {}
          /\ cmd[Con] # "rm" /\ \A n \in Node : joining[n] = "no"
      BY <1>2 DEF SaveFile, accVars, Books, Stage
    <2>2. Marked = plan[Con] /\ Promised = plan[Con]
      BY <2>1 DEF Marked, Promised, Storing, Copying
    <2>3. \A n \in nodes, s \in Slot : s \in used[n] <=> InDoc(n, s) \/ At(plan[Con], n, s)
      BY <2>1, <2>2, AllNames DEF Books, Exact
    <2>4. /\ \A c, d \in plan[Con] : c[2] = d[2] /\ c[3] = d[3] => c = d
          /\ \A c \in plan[Con] : c[2] \in nodes /\ ~InDoc(c[2], c[3])
      BY <2>1, <2>2, AllNames DEF Books, PromisedOnce
    <2>5. CASE /\ path[Con] \notin files /\ files' = files \cup {path[Con]}
               /\ copies' = [copies EXCEPT ![path[Con]] = plan[Con]] /\ End(Con)
      <3> DEFINE p == path[Con]
      <3>1. /\ p \in File /\ p \in files' /\ copies'[p] = plan[Con]
            /\ \A f \in File \ {p} : copies'[f] = copies[f]
        BY <2>5
      <3>2. NamedOnce'
        <4> SUFFICES ASSUME NEW f \in File, NEW g \in File, NEW c \in copies'[f],
                            NEW d \in copies'[g], c[2] = d[2], c[3] = d[3]
                     PROVE  f = g /\ c = d
          BY DEF NamedOnce
        <4>1. CASE f = p /\ g = p
          BY <2>4, <3>1, <4>1
        <4>2. CASE f = p /\ g # p
          BY <2>4, <3>1, <4>2 DEF InDoc
        <4>3. CASE f # p /\ g = p
          BY <2>4, <3>1, <4>3 DEF InDoc
        <4>4. CASE f # p /\ g # p
          BY <3>1, <4>4 DEF Books, NamedOnce
        <4> QED BY <4>1, <4>2, <4>3, <4>4
      <3>3. Documents'
        BY <2>1, <2>4, <2>5, <3>1 DEF Books, Documents
      <3>4. \A n, s : InDoc(n, s)' <=> InDoc(n, s) \/ At(plan[Con], n, s)
        <4>1. copies[p] = {}
          BY <2>5, <3>1 DEF Books, Documents
        <4>2. \A n, s : InDoc(n, s)' <=>
                \/ \E c \in copies'[p] : c[2] = n /\ c[3] = s
                \/ \E f \in File \ {p} : \E c \in copies[f] : c[2] = n /\ c[3] = s
          BY <3>1 DEF InDoc
        <4>3. \A n, s : InDoc(n, s) <=> \E f \in File \ {p} : \E c \in copies[f] : c[2] = n /\ c[3] = s
          BY <4>1 DEF InDoc
        <4>4. \A n, s : At(plan[Con], n, s) <=> \E c \in copies'[p] : c[2] = n /\ c[3] = s
          BY <3>1 DEF At
        <4> HIDE DEF p
        <4> QED BY <4>2, <4>3, <4>4
      <3> QED BY <2>1, <2>3, <2>5, <3>2, <3>3, <3>4, EndBooks
    <2>6. CASE /\ Undo(Con) /\ plan' = [plan EXCEPT ![Con] = {}] /\ Goto(Con, "free")
               /\ UNCHANGED argVars /\ UNCHANGED docVars
      <3>1. /\ pc'[Con] = "free" /\ todo'[Con] = plan[Con]
            /\ UNCHANGED <<cmd, path, files, copies>>
        BY <2>6 DEF Goto, Undo, argVars, docVars
      <3>2. \A n, s : Names(n, s)' <=> Names(n, s)
        BY <3>1, NamesStay
      <3>3. Marked' = Marked /\ Promised' = Promised
        BY <2>2, <3>1 DEF Marked, Promised
      <3>4. PromisedOnce'
        BY <2>1, <3>2, <3>3 DEF PromisedOnce, Books
      <3>5. BitsRead' /\ Stage'
        BY <2>1, <3>1 DEF BitsRead, Stage, Storing
      <3> QED BY <2>1, <3>1, <3>2, <3>3, <3>4, <3>5, BooksGoOn
    <2> QED BY <1>2, <2>5, <2>6 DEF SaveFile, Con
  <1> QED BY <1>1, <1>2

\* rm and rmb: the copies are to be set free, taken out of the documents first or last.
LEMMA RemoveBooks ==
    ASSUME Ready, RemoveFile(Con) \/ RemoveCopy(Con) \/ PullCopy(Con)
    PROVE  Books'
  <1> USE OneThread DEF Ready, Typed, ArgTypes, RunTypes, DbTypes
  <1>1. CASE RemoveFile(Con)
    <2>1. PICK f \in files : Start(Con, "rm", f, "free") /\ todo' = [todo EXCEPT ![Con] = copies[f]]
      BY <1>1 DEF RemoveFile
    <2>2. /\ pc[Con] = "idle" /\ pc'[Con] = "free" /\ cmd'[Con] = "rm" /\ path'[Con] = f
          /\ f \in File /\ todo'[Con] = copies[f]
          /\ UNCHANGED <<nodes, used, files, copies, joining>>
      BY <1>1, <2>1 DEF RemoveFile, Start, Goto, dbVars, docVars, accVars
    <2>3. cmd[Con] # "rm" /\ Marked = {} /\ Marked' = copies[f] /\ Promised' = copies[f]
      BY <2>2 DEF Books, Stage, Marked, Promised, Storing, Copying
    <2>4. \A n \in nodes, s \in Slot : s \in used[n] <=> InDoc(n, s)
      BY <2>2, <2>3, AllNames DEF Books, Exact, At
    <2>5. \A n, s : Names(n, s)' <=> \E g \in File \ {f} : \E c \in copies[g] : c[2] = n /\ c[3] = s
      BY <2>2 DEF Names, Removed
    <2>6. \A n, s : InDoc(n, s) <=> Names(n, s)' \/ At(copies[f], n, s)
      BY <2>2, <2>5 DEF InDoc, At
    <2>7. Exact'
      BY <2>2, <2>3, <2>4, <2>6 DEF Exact, At
    <2>8. PromisedOnce'
      <3>1. \A c, d \in copies[f] : c[2] = d[2] /\ c[3] = d[3] => c = d
        BY <2>2 DEF Books, NamedOnce
      <3>2. \A c \in copies[f] : c[2] \in nodes
        BY <2>2 DEF Books, Documents
      <3>3. ASSUME NEW c \in copies[f] PROVE ~Names(c[2], c[3])'
        <4>1. \A g \in File \ {f} : \A d \in copies[g] : ~(d[2] = c[2] /\ d[3] = c[3])
          BY <2>2 DEF Books, NamedOnce
        <4> QED BY <2>5, <4>1
      <3> QED BY <2>2, <2>3, <3>1, <3>2, <3>3 DEF PromisedOnce
    <2>9. BitsRead' /\ Stage'
      BY <2>2 DEF BitsRead, Stage, Storing, Books
    <2> QED BY <2>2, <2>7, <2>8, <2>9, DocumentsKeep DEF Books
  <1>2. CASE RemoveCopy(Con)
    <2> PICK f \in files : \E c \in copies[f] :
            Start(Con, "rmb", f, "pull") /\ todo' = [todo EXCEPT ![Con] = {c}]
      BY <1>2 DEF RemoveCopy
    <2>1. PICK c \in copies[f] :
            Start(Con, "rmb", f, "pull") /\ todo' = [todo EXCEPT ![Con] = {c}]
      OBVIOUS
    <2>2. /\ pc[Con] = "idle" /\ pc'[Con] = "pull" /\ cmd'[Con] = "rmb" /\ path'[Con] = f
          /\ todo'[Con] = {c}
          /\ UNCHANGED <<nodes, used, files, copies, joining>>
      BY <1>2, <2>1 DEF RemoveCopy, Start, Goto, dbVars, docVars, accVars
    <2>3. cmd[Con] # "rm" /\ Marked = {} /\ Marked' = {} /\ Promised' = {}
      BY <2>2 DEF Books, Stage, Marked, Promised, Storing, Copying
    <2>4. \A n, s : Names(n, s)' <=> Names(n, s)
      BY <2>2, <2>3, NamesStay
    <2>5. PromisedOnce' /\ BitsRead' /\ Stage'
      BY <2>1, <2>2, <2>3 DEF PromisedOnce, BitsRead, Stage, Storing, Books
    <2> QED BY <2>2, <2>3, <2>4, <2>5, BooksGoOn
  <1>3. CASE PullCopy(Con)
    <2> DEFINE p == path[Con]
               R == todo[Con]
    <2>1. /\ pc[Con] = "pull" /\ pc'[Con] = "free" /\ UNCHANGED <<cmd, path, todo, plan>>
          /\ UNCHANGED <<nodes, used, files, joining>> /\ p \in File
          /\ copies'[p] = copies[p] \ R /\ \A f \in File \ {p} : copies'[f] = copies[f]
      BY <1>3 DEF PullCopy, Goto, argVars, runVars, accVars
    <2>2. cmd[Con] # "rm" /\ R \subseteq copies[p] /\ \A n \in Node : joining[n] = "no"
      BY <2>1 DEF Books, Stage
    <2>3. Marked = {} /\ Marked' = R /\ Promised' = R
      BY <2>1 DEF Marked, Promised, Storing, Copying
    <2>4. \A f \in File : copies'[f] \subseteq copies[f]
      BY <2>1
    <2>5. NamedOnce' /\ Documents'
      BY <2>1, <2>4 DEF Books, NamedOnce, Documents
    <2>6. \A n, s : Names(n, s)' <=> InDoc(n, s)'
      BY <2>1, <2>2 DEF Names, Removed, InDoc
    <2>7. PromisedOnce'
      <3>1. \A c, d \in R : c[2] = d[2] /\ c[3] = d[3] => c = d
        BY <2>1, <2>2 DEF Books, NamedOnce
      <3>2. \A c \in R : c[2] \in nodes
        BY <2>1, <2>2 DEF Books, Documents
      <3>3. ASSUME NEW c \in R PROVE ~InDoc(c[2], c[3])'
        <4> SUFFICES ASSUME NEW g \in File, NEW d \in copies'[g], d[2] = c[2], d[3] = c[3]
                     PROVE  FALSE
          BY DEF InDoc
        <4>1. g = p /\ d = c
          BY <2>1, <2>2, <2>4 DEF Books, NamedOnce
        <4> QED BY <2>1, <4>1
      <3> QED BY <2>1, <2>3, <2>6, <3>1, <3>2, <3>3 DEF PromisedOnce
    <2>8. Exact'
      <3>1. \A n \in nodes, s \in Slot : s \in used[n] <=> InDoc(n, s)
        BY <2>1, <2>2, <2>3, AllNames DEF Books, Exact, At
      <3>2. \A n, s : InDoc(n, s) <=> InDoc(n, s)' \/ At(R, n, s)
        <4>1. \A f \in File : \A c \in copies[f] : c \in copies'[f] \/ c \in R
          BY <2>1
        <4> HIDE DEF p, R
        <4>2. \A n, s : InDoc(n, s) => InDoc(n, s)' \/ At(R, n, s)
          BY <4>1 DEF InDoc, At
        <4>3. \A n, s : InDoc(n, s)' => InDoc(n, s)
          BY <2>4 DEF InDoc
        <4>4. \A n, s : At(R, n, s) => InDoc(n, s)
          BY <2>1, <2>2 DEF InDoc, At
        <4> QED BY <4>2, <4>3, <4>4
      <3> QED BY <2>1, <2>3, <2>6, <3>1, <3>2 DEF Exact, At
    <2>9. BitsRead' /\ Stage'
      BY <2>1, <2>2 DEF BitsRead, Stage, Storing
    <2> QED BY <2>5, <2>7, <2>8, <2>9 DEF Books
  <1> QED BY <1>1, <1>2, <1>3

\* The copies are set free, one by one.
LEMMA FreeBooks ==
    ASSUME Ready, ReadNode(Con) \/ FreeBlock(Con) \/ EndFree(Con)
    PROVE  Books'
  <1> USE OneThread DEF Ready, Typed, ArgTypes, RunTypes, DbTypes
  <1>1. CASE ReadNode(Con)
    <2>1. PICK c \in todo[Con] : /\ plan' = [plan EXCEPT ![Con] = {c}]
                                 /\ todo' = [todo EXCEPT ![Con] = @ \ {c}]
                                 /\ snap' = [snap EXCEPT ![Con] = ReadBits({c[2]})]
      BY <1>1 DEF ReadNode
    <2>2. /\ pc[Con] = "free" /\ pc'[Con] = "freed" /\ UNCHANGED <<cmd, path>>
          /\ UNCHANGED <<nodes, used, files, copies, joining>>
          /\ plan'[Con] = {c} /\ todo'[Con] = todo[Con] \ {c} /\ c[2] \in Node
          /\ snap'[Con] = ReadBits({c[2]})
      BY <1>1, <2>1 DEF ReadNode, Goto, dbVars, docVars, argVars, accVars, Copy
    <2>3. \A n, s : Names(n, s)' <=> Names(n, s)
      BY <2>2, NamesStay
    <2>4. Marked' = Marked /\ Promised' = Promised
      BY <2>2 DEF Marked, Promised, Storing, Copying
    <2>5. PromisedOnce'
      BY <2>2, <2>3, <2>4 DEF PromisedOnce, Books
    <2>6. BitsRead'
      <3>1. snap'[Con][c[2]] = used[c[2]]
        BY <2>2 DEF ReadBits
      <3> QED BY <2>2, <3>1 DEF BitsRead, Storing
    <2>7. Stage'
      BY <2>2 DEF Stage, Books
    <2> QED BY <2>2, <2>3, <2>4, <2>5, <2>6, <2>7, BooksGoOn
  <1>2. CASE FreeBlock(Con)
    <2>1. PICK c \in plan[Con] : FreeSlot(c, snap[Con])
      BY <1>2 DEF FreeBlock
    <2>2. /\ pc[Con] = "freed" /\ pc'[Con] = "free" /\ UNCHANGED <<cmd, path, todo>>
          /\ UNCHANGED <<nodes, files, copies, joining>>
      BY <1>2 DEF FreeBlock, Goto, docVars, argVars, accVars
    <2>0. c[2] \in Node /\ used' = [used EXCEPT ![c[2]] = snap[Con][c[2]] \ {c[3]}]
      BY <2>1 DEF FreeSlot, Copy
    <2>3. /\ snap[Con][c[2]] = used[c[2]] /\ c \notin todo[Con]
          /\ \A d \in plan[Con] : c = d
      BY <2>2 DEF Books, BitsRead
    <2>4. \A n, s : Names(n, s)' <=> Names(n, s)
      BY <2>2, NamesStay
    <2>5. Promised = todo[Con] \cup plan[Con] /\ Marked = Promised
      BY <2>2 DEF Marked, Promised, Storing, Copying
    <2>6. Promised' = todo[Con] /\ Marked' = todo[Con]
      BY <2>2 DEF Marked, Promised
    <2>7. PromisedOnce'
      BY <2>2, <2>4, <2>5, <2>6 DEF PromisedOnce, Books
    <2>8. Exact'
      <3>1. \A n \in nodes, s \in Slot : s \in used[n] <=> Names(n, s) \/ At(Marked, n, s)
        BY <2>2 DEF Books, Exact
      <3>2. ~Names(c[2], c[3]) /\ ~At(todo[Con], c[2], c[3])
        <4>1. \A d \in todo[Con] : ~(d[2] = c[2] /\ d[3] = c[3])
          BY <2>3, <2>5 DEF Books, PromisedOnce
        <4> QED BY <2>5, <4>1 DEF Books, PromisedOnce, At
      <3>3. \A n, s : At(Marked, n, s) <=> At(todo[Con], n, s) \/ (n = c[2] /\ s = c[3])
        BY <2>3, <2>5 DEF At
      <3>4. \A n \in nodes, s \in Slot : s \in used'[n] <=> s \in used[n] /\ ~(n = c[2] /\ s = c[3])
        BY <2>0, <2>3
      <3>5. \A n \in nodes, s \in Slot : s \in used'[n] <=> Names(n, s) \/ At(todo[Con], n, s)
        BY <3>1, <3>2, <3>3, <3>4
      <3> QED BY <2>2, <2>4, <2>6, <3>5 DEF Exact, At
    <2>9. BitsRead' /\ Stage'
      BY <2>2 DEF BitsRead, Stage, Storing, Books
    <2> QED BY <2>2, <2>7, <2>8, <2>9, DocumentsKeep DEF Books
  <1>3. CASE EndFree(Con)
    <2>1. /\ pc[Con] = "free" /\ todo[Con] = {} /\ End(Con) /\ UNCHANGED <<nodes, used, joining>>
          /\ Marked = {} /\ \A n \in Node : joining[n] = "no"
      BY <1>3 DEF EndFree, Marked, Books, Stage
    <2>2. CASE cmd[Con] # "rm" /\ UNCHANGED docVars
      BY <2>1, <2>2, EndsUnchanged DEF docVars
    <2>3. CASE cmd[Con] = "rm" /\ Forget({path[Con]})
      <3>1. /\ files' = files \ {path[Con]} /\ copies'[path[Con]] = {}
            /\ \A f \in File \ {path[Con]} : copies'[f] = copies[f]
        BY <2>3 DEF Forget
      <3>2. NamedOnce' /\ Documents'
        <4>1. \A f \in File : copies'[f] \subseteq copies[f]
          BY <3>1
        <4>2. NamedOnce'
          BY <4>1 DEF Books, NamedOnce
        <4>3. \A f \in File \ files' : copies'[f] = {}
          BY <3>1 DEF Books, Documents
        <4> QED BY <2>1, <4>1, <4>2, <4>3 DEF Books, Documents
      <3>3. \A n, s : InDoc(n, s)' <=> Names(n, s)
        BY <2>3, <3>1 DEF InDoc, Names, Removed
      <3>4. \A n \in nodes, s \in Slot : s \in used[n] <=> Names(n, s)
        BY <2>1 DEF Books, Exact, At
      <3> QED BY <2>1, <3>2, <3>3, <3>4, EndBooks
    <2> QED BY <1>3, <2>2, <2>3 DEF EndFree
  <1> QED BY <1>1, <1>2, <1>3

\* format.
LEMMA FormatBooks ==
    ASSUME Ready, Format(Con) \/ ReadAllNodes(Con) \/ FormatNode(Con)
    PROVE  Books'
  <1> USE OneThread DEF Ready, Typed, ArgTypes, RunTypes, DbTypes
  <1>1. CASE Format(Con)
    <2>1. /\ pc[Con] = "idle" /\ pc'[Con] = "format" /\ cmd'[Con] = "format"
          /\ UNCHANGED <<nodes, used, joining>> /\ Forget(files)
      BY <1>1 DEF Format, Start, Goto
    <2>2. \A f \in File : copies'[f] = {}
      BY <2>1 DEF Forget, Books, Documents
    <2>3. NamedOnce' /\ Documents'
      BY <2>2 DEF NamedOnce, Documents
    <2>4. Promised' = {}
      BY <2>1 DEF Promised, Storing, Copying
    <2>5. PromisedOnce' /\ Exact' /\ BitsRead' /\ Stage'
      BY <2>1, <2>2, <2>4 DEF PromisedOnce, Exact, BitsRead, Stage, Storing, Books
    <2> QED BY <2>3, <2>5 DEF Books
  <1>2. CASE ReadAllNodes(Con)
    <2>1. /\ pc[Con] = "format" /\ pc'[Con] = "formatnode" /\ UNCHANGED cmd
          /\ UNCHANGED <<nodes, used, files, copies, joining>> /\ cand'[Con] = nodes
      BY <1>2 DEF ReadAllNodes, Goto, dbVars, docVars, argVars, accVars
    <2>2. Promised' = {}
      BY <2>1 DEF Promised, Storing, Copying
    <2>3. PromisedOnce' /\ Exact' /\ BitsRead' /\ Stage'
      BY <2>1, <2>2 DEF PromisedOnce, Exact, BitsRead, Stage, Storing, Books
    <2> QED BY <2>1, <2>3, DocumentsKeep DEF Books
  <1>3. CASE FormatNode(Con)
    <2>1. /\ pc[Con] = "formatnode" /\ UNCHANGED <<nodes, files, copies, joining>>
          /\ \A f \in File : copies[f] = {}
          /\ \A n \in nodes \ cand[Con] : used[n] = {}
          /\ \A n \in Node : joining[n] = "no" /\ cmd[Con] # "rm"
      BY <1>3 DEF FormatNode, docVars, accVars, Books, Stage
    <2>2. NamedOnce' /\ Documents'
      BY <2>1, DocumentsKeep
    <2>3. CASE cand[Con] = {} /\ End(Con) /\ UNCHANGED used
      <3>1. \A n, s : ~InDoc(n, s)'
        BY <2>1 DEF InDoc
      <3> QED BY <2>1, <2>2, <2>3, <3>1, EndBooks
    <2>4. ASSUME NEW n \in cand[Con], used' = [used EXCEPT ![n] = {}],
                 cand' = [cand EXCEPT ![Con] = @ \ {n}], UNCHANGED <<pc, argVars, plan, todo>>
          PROVE  Books'
      <3>1. UNCHANGED <<pc, cmd>> /\ cand'[Con] = cand[Con] \ {n}
        BY <2>4 DEF argVars
      <3>2. Promised' = {}
        BY <2>1, <3>1 DEF Promised, Storing, Copying
      <3>3. \A m \in nodes \ cand'[Con] : used'[m] = {}
        BY <2>1, <2>4, <3>1
      <3>4. PromisedOnce' /\ Exact' /\ BitsRead' /\ Stage'
        BY <2>1, <3>1, <3>2, <3>3 DEF PromisedOnce, Exact, BitsRead, Stage, Storing, Books
      <3> QED BY <2>2, <3>4 DEF Books
    <2> QED BY <1>3, <2>3, <2>4 DEF FormatNode
  <1> QED BY <1>1, <1>2, <1>3

\* cpb: the block chosen is one that the bitmap just read has free.
LEMMA CopyBooks ==
    ASSUME Ready, CopyBlock(Con) \/ FetchBlock(Con) \/ ChooseNode(Con) \/ SendCopy(Con)
    PROVE  Books'
  <1> USE OneThread DEF Ready, Typed, ArgTypes, RunTypes, DbTypes
  <1>0. ASSUME pc[Con] \in {"idle"} \cup Looking, pc'[Con] \in Looking, cmd'[Con] # "rm",
               UNCHANGED <<nodes, used, files, copies, joining>>
        PROVE  Books'
    <2>1. cmd[Con] # "rm"
      BY <1>0 DEF Books, Stage, Looking
    <2>2. \A n, s : Names(n, s)' <=> Names(n, s)
      BY <1>0, <2>1, NamesStay
    <2>3. Marked = {} /\ Marked' = {} /\ Promised' = {}
      BY <1>0 DEF Marked, Promised, Storing, Copying, Looking
    <2>4. PromisedOnce' /\ BitsRead' /\ Stage'
      BY <1>0, <2>3 DEF PromisedOnce, BitsRead, Stage, Storing, Looking, Books
    <2> QED BY <1>0, <2>2, <2>3, <2>4, BooksGoOn DEF Looking
  <1>1. CASE CopyBlock(Con)
    <2>1. /\ pc[Con] = "idle" /\ pc'[Con] = "fetch" /\ cmd'[Con] = "cpb"
          /\ UNCHANGED <<nodes, used, files, copies, joining>>
      BY <1>1 DEF CopyBlock, Start, Goto, dbVars, docVars, accVars
    <2> QED BY <1>0, <2>1 DEF Looking
  <1>2. CASE FetchBlock(Con)
    <2>1. pc[Con] = "fetch" /\ UNCHANGED <<nodes, used, files, copies, joining>>
      BY <1>2 DEF FetchBlock, dbVars, docVars, accVars
    <2>2. Marked = {} /\ cmd[Con] # "rm"
      BY <2>1 DEF Marked, Books, Stage
    <2>3. CASE End(Con)
      BY <2>1, <2>2, <2>3, EndsUnchanged
    <2>4. CASE (Goto(Con, "choose") \/ UNCHANGED pc) /\ UNCHANGED argVars
      BY <1>0, <2>1, <2>2, <2>4 DEF Goto, Looking, argVars
    <2> QED BY <1>2, <2>3, <2>4 DEF FetchBlock, locVars
  <1>3. CASE ChooseNode(Con)
    <2>1. pc[Con] = "choose" /\ UNCHANGED <<nodes, used, files, copies, joining>>
      BY <1>3 DEF ChooseNode, dbVars, docVars, accVars
    <2>2. Marked = {} /\ cmd[Con] # "rm"
      BY <2>1 DEF Marked, Books, Stage
    <2>3. CASE End(Con)
      BY <2>1, <2>2, <2>3, EndsUnchanged
    <2>4. ASSUME NEW n \in UNION MostFree(1, Others(Con), used), FreeSlots(used[n]) # {},
                 todo' = [todo EXCEPT ![Con] = {<<block[Con], n, FirstFree(used[n])>>}],
                 snap' = [snap EXCEPT ![Con] = ReadBits({n})],
                 Goto(Con, "copy"), UNCHANGED argVars
          PROVE  Books'
      <3>1. n \in nodes /\ n \in Node
        BY FreestAreGiven DEF Others
      <3>2. PICK c : c = <<block[Con], n, FirstFree(used[n])>>
        OBVIOUS
      <3>3. c[2] = n /\ c[3] \in Slot \ used[n] /\ todo'[Con] = {c}
        BY <2>4, <3>2, FirstFreeType
      <3>4. /\ pc'[Con] = "copy" /\ UNCHANGED <<cmd, path>>
            /\ snap'[Con] = ReadBits({n})
        BY <2>4 DEF Goto, argVars
      <3>5. \A m, s : Names(m, s)' <=> Names(m, s)
        BY <2>1, <3>4, NamesStay
      <3>6. Promised' = {c} /\ Marked' = {}
        BY <3>3, <3>4 DEF Promised, Marked, Copying
      <3>7. ~Names(c[2], c[3])
        BY <2>1, <3>1, <3>3 DEF Books, Exact
      <3>8. PromisedOnce'
        BY <2>1, <3>1, <3>3, <3>5, <3>6, <3>7 DEF PromisedOnce
      <3>9. BitsRead'
        <4>1. snap'[Con][n] = used[n]
          BY <3>1, <3>4 DEF ReadBits
        <4> QED BY <2>1, <3>3, <3>4, <4>1 DEF BitsRead, Storing
      <3>10. Stage'
        BY <2>1, <2>2, <3>4 DEF Stage, Books
      <3> QED BY <2>1, <2>2, <3>4, <3>5, <3>6, <3>8, <3>9, <3>10, BooksGoOn
    <2> QED BY <1>3, <2>3, <2>4 DEF ChooseNode
  <1>4. CASE SendCopy(Con)
    <2>1. pc[Con] = "copy" /\ UNCHANGED <<nodes, used, files, copies, joining>>
      BY <1>4 DEF SendCopy, dbVars, docVars, accVars
    <2>2. Marked = {} /\ cmd[Con] # "rm"
      BY <2>1 DEF Marked, Books, Stage
    <2>3. CASE End(Con)
      BY <2>1, <2>2, <2>3, EndsUnchanged
    <2>4. CASE Goto(Con, "copybits") /\ UNCHANGED <<argVars, snap, plan, todo>>
      <3>1. pc'[Con] = "copybits" /\ UNCHANGED <<cmd, path, snap, todo>>
        BY <2>4 DEF Goto, argVars
      <3>2. \A n, s : Names(n, s)' <=> Names(n, s)
        BY <2>1, <3>1, NamesStay
      <3>3. Marked' = {} /\ Promised' = Promised
        BY <2>1, <3>1 DEF Marked, Promised, Copying
      <3>4. PromisedOnce'
        BY <2>1, <3>2, <3>3 DEF PromisedOnce, Books
      <3>5. BitsRead' /\ Stage'
        BY <2>1, <2>2, <3>1 DEF BitsRead, Stage, Storing, Books
      <3> QED BY <2>1, <2>2, <3>1, <3>2, <3>3, <3>4, <3>5, BooksGoOn
    <2> QED BY <1>4, <2>3, <2>4 DEF SendCopy
  <1> QED BY <1>1, <1>2, <1>3, <1>4

\* The bitmap is saved with the block of the copy, then the document.
LEMMA CopiedBooks ==
    ASSUME Ready, SaveCopyBits(Con) \/ SaveCopy(Con)
    PROVE  Books'
  <1> USE OneThread DEF Ready, Typed, ArgTypes, RunTypes, DbTypes
  <1>1. CASE SaveCopyBits(Con)
    <2>1. PICK c \in todo[Con] : used' = [used EXCEPT ![c[2]] = snap[Con][c[2]] \cup {c[3]}]
      BY <1>1 DEF SaveCopyBits
    <2>2. /\ pc[Con] = "copybits" /\ pc'[Con] = "copydoc" /\ UNCHANGED <<cmd, path, todo>>
          /\ UNCHANGED <<nodes, files, copies, joining>>
      BY <1>1 DEF SaveCopyBits, Goto, docVars, argVars, runVars, accVars
    <2>3. c[2] \in Node /\ snap[Con][c[2]] = used[c[2]] /\ \A d \in todo[Con] : c = d
      BY <2>2 DEF Copy, Books, BitsRead, Safe, Copying
    <2>4. \A n, s : Names(n, s)' <=> Names(n, s)
      BY <2>2, NamesStay
    <2>5. Marked = {} /\ Marked' = todo[Con] /\ Promised' = Promised
      BY <2>2 DEF Marked, Promised, Copying
    <2>6. PromisedOnce'
      BY <2>2, <2>4, <2>5 DEF PromisedOnce, Books
    <2>7. Exact'
      <3>1. \A n \in nodes, s \in Slot : s \in used[n] <=> Names(n, s)
        BY <2>2, <2>5 DEF Books, Exact, At
      <3>2. \A n, s : At(todo[Con], n, s) <=> n = c[2] /\ s = c[3]
        BY <2>3 DEF At
      <3>3. \A n \in nodes, s \in Slot : s \in used'[n] <=> s \in used[n] \/ (n = c[2] /\ s = c[3])
        BY <2>1, <2>3
      <3>4. \A n \in nodes, s \in Slot : s \in used'[n] <=> Names(n, s) \/ At(todo[Con], n, s)
        BY <3>1, <3>2, <3>3
      <3> QED BY <2>2, <2>4, <2>5, <3>4 DEF Exact, At
    <2>8. BitsRead' /\ Stage'
      BY <2>2 DEF BitsRead, Stage, Storing, Books
    <2> QED BY <2>2, <2>6, <2>7, <2>8, DocumentsKeep DEF Books
  <1>2. CASE SaveCopy(Con)
    <2> DEFINE p == path[Con]
               C == todo[Con]
    <2>1. /\ pc[Con] = "copydoc" /\ End(Con) /\ UNCHANGED <<nodes, used, files, joining>>
          /\ p \in File /\ copies'[p] = copies[p] \cup C
          /\ \A f \in File \ {p} : copies'[f] = copies[f]
      BY <1>2 DEF SaveCopy, accVars
    <2>2. p \in files /\ cmd[Con] # "rm" /\ \A n \in Node : joining[n] = "no"
      BY <2>1 DEF Safe, Copying, Books, Stage
    <2>3. Marked = C /\ Promised = C
      BY <2>1 DEF Marked, Promised, Copying
    <2>4. /\ \A c, d \in C : c[2] = d[2] /\ c[3] = d[3] => c = d
          /\ \A c \in C : c[2] \in nodes /\ ~InDoc(c[2], c[3])
      BY <2>2, <2>3, AllNames DEF Books, PromisedOnce
    <2>5. \A n \in nodes, s \in Slot : s \in used[n] <=> InDoc(n, s) \/ At(C, n, s)
      BY <2>1, <2>2, <2>3, AllNames DEF Books, Exact
    <2>6. \A f \in File : \A c \in copies'[f] : c \in copies[f] \/ (f = p /\ c \in C)
      BY <2>1
    <2>7. \A f \in File : copies[f] \subseteq copies'[f]
      BY <2>1
    <2> HIDE DEF p, C
    <2>8. NamedOnce'
      <3> SUFFICES ASSUME NEW f \in File, NEW g \in File, NEW c \in copies'[f],
                          NEW d \in copies'[g], c[2] = d[2], c[3] = d[3]
                   PROVE  f = g /\ c = d
        BY DEF NamedOnce
      <3>1. CASE c \in copies[f] /\ d \in copies[g]
        BY <3>1 DEF Books, NamedOnce
      <3>2. CASE c \in copies[f] /\ d \in C
        BY <2>4, <3>2 DEF InDoc
      <3>3. CASE c \in C /\ d \in copies[g]
        BY <2>4, <3>3 DEF InDoc
      <3>4. CASE f = p /\ c \in C /\ g = p /\ d \in C
        BY <2>4, <3>4
      <3> QED BY <2>6, <3>1, <3>2, <3>3, <3>4
    <2>9. Documents'
      <3>1. \A f \in File : \A c \in copies'[f] : c[2] \in nodes
        BY <2>4, <2>6 DEF Books, Documents
      <3>2. \A f \in File \ files : copies'[f] = {}
        BY <2>1, <2>2 DEF Books, Documents
      <3> QED BY <2>1, <3>1, <3>2 DEF Documents
    <2>10. \A n, s : InDoc(n, s)' <=> InDoc(n, s) \/ At(C, n, s)
      <3>1. \A n, s : InDoc(n, s)' => InDoc(n, s) \/ At(C, n, s)
        BY <2>6 DEF InDoc, At
      <3>2. \A n, s : InDoc(n, s) => InDoc(n, s)'
        BY <2>7 DEF InDoc
      <3>3. \A n, s : At(C, n, s) => InDoc(n, s)'
        BY <2>1 DEF InDoc, At
      <3> QED BY <3>1, <3>2, <3>3
    <2> QED BY <2>1, <2>2, <2>5, <2>8, <2>9, <2>10, EndBooks
  <1> QED BY <1>1, <1>2

\* A node that connects gets an empty bitmap if it has none, and no document names it.
LEMMA NetworkBooks ==
    ASSUME Ready, NEW n \in Node, Network(n)
    PROVE  Books'
  <1> USE DEF Ready, Typed, DbTypes, AccTypes
  <1>1. joining[n] = "no" /\ n \notin NewNodes
    BY DEF Books, Stage, Alone
  <1>2. UNCHANGED <<pc, cmd, path, snap, cand, plan, todo, files, copies, joining>>
    BY <1>1 DEF Network, Connect, FindCopies, DropCopy, FormatNew, activateNode, deactivateNode,
            CheckAlive, NodeDies, dbVars, docVars, locVars, argVars, runVars, accVars
  <1>3. \/ UNCHANGED <<nodes, used>>
        \/ n \notin nodes /\ nodes' = nodes \cup {n} /\ used' = [used EXCEPT ![n] = {}]
    BY <1>1 DEF Network, Connect, FindCopies, DropCopy, FormatNew, activateNode, deactivateNode,
            CheckAlive, NodeDies, dbVars
  <1>4. nodes \subseteq nodes' /\ \A m \in nodes : used'[m] = used[m]
    BY <1>3
  <1>5. \A m, s : Names(m, s)' <=> Names(m, s)
    BY <1>2, NamesStay
  <1>6. Promised' = Promised /\ Marked' = Marked
    BY <1>2 DEF Promised, Marked
  <1>7. NamedOnce' /\ Documents' /\ PromisedOnce'
    BY <1>2, <1>4, <1>5, <1>6 DEF Books, NamedOnce, Documents, PromisedOnce
  <1>8. Exact'
    <2>1. ASSUME pc[Con] \notin {"format", "formatnode"}, NEW m \in nodes', NEW s \in Slot
          PROVE  s \in used'[m] <=> Names(m, s) \/ At(Marked, m, s)
      <3>1. CASE m \in nodes
        BY <1>4, <2>1, <3>1 DEF Books, Exact
      <3>2. CASE m \notin nodes
        <4>1. used'[m] = {}
          BY <1>3, <3>2
        <4>2. ~Names(m, s)
          BY <3>2 DEF Books, Documents, Names
        <4>3. ~At(Marked, m, s)
          BY <3>2, MarkedArePromised DEF Books, PromisedOnce, At
        <4> QED BY <4>1, <4>2, <4>3
      <3> QED BY <3>1, <3>2
    <2> QED BY <1>2, <1>5, <1>6, <2>1 DEF Exact, At
  <1>9. BitsRead'
    <2>1. pc[Con] = "freed" => \A c \in plan[Con] : c[2] \in nodes
      BY DEF Books, PromisedOnce, Promised, Copying
    <2>2. pc[Con] \in {"copy", "copybits"} => \A c \in todo[Con] : c[2] \in nodes
      BY DEF Books, PromisedOnce, Promised, Copying
    <2>3. pc[Con] \in Storing => \A m \in cand[Con] \cup {c[2] : c \in plan[Con]} :
            /\ m \in nodes'
            /\ \A s \in Slot : s \in snap[Con][m] <=> Names(m, s) \/ At(plan[Con], m, s)
      BY <1>4 DEF Books, BitsRead
    <2>4. pc[Con] = "freed" => \A c \in plan[Con] :
            /\ snap[Con][c[2]] = used'[c[2]] /\ c \notin todo[Con]
            /\ \A d \in plan[Con] : c = d
      BY <1>4, <2>1 DEF Books, BitsRead
    <2>5. pc[Con] \in {"copy", "copybits"} => \A c \in todo[Con] : snap[Con][c[2]] = used'[c[2]]
      BY <1>4, <2>2 DEF Books, BitsRead
    <2> QED BY <1>2, <1>5, <2>3, <2>4, <2>5 DEF BitsRead, At
  <1>10. Stage'
    <2>1. pc[Con] = "formatnode" => \A m \in nodes' \ cand[Con] : used'[m] = {}
      BY <1>3, <1>4 DEF Books, Stage
    <2> QED BY <1>2, <2>1 DEF Books, Stage
  <1> QED BY <1>7, <1>8, <1>9, <1>10 DEF Books

\* Every step.
LEMMA StepBooks == Ready /\ [Next]_vars => Books'
  <1> SUFFICES ASSUME Ready, [Next]_vars PROVE Books'
    OBVIOUS
  <1>1. ASSUME NEW t \in Thread, Run(t) PROVE Books'
    <2>1. t = Con
      BY DEF Ready, Alone, Con
    <2> QED
      BY <1>1, <2>1, StoreBooks, PlanBooks, SaveBooks, RemoveBooks, FreeBooks, FormatBooks,
         CopyBooks, CopiedBooks DEF Run
  <1>2. ASSUME NEW n \in Node, Network(n) PROVE Books'
    BY <1>2, NetworkBooks
  <1>3. CASE UNCHANGED vars
    <2>1. UNCHANGED <<pc, cmd, path, snap, cand, plan, todo, nodes, used, files, copies, joining>>
      BY <1>3 DEF vars, dbVars, docVars, locVars, argVars, runVars, accVars
    <2>2. \A n, s : Names(n, s)' <=> Names(n, s)
      BY <2>1, NamesStay
    <2>3. Promised' = Promised /\ Marked' = Marked
      BY <2>1 DEF Promised, Marked
    <2>4. PromisedOnce' /\ BitsRead' /\ Stage'
      BY <2>1, <2>2, <2>3 DEF Ready, Books, PromisedOnce, BitsRead, Stage, At
    <2> QED BY <2>1, <2>2, <2>3, <2>4, BooksGoOn DEF Ready
  <1> QED BY <1>1, <1>2, <1>3 DEF Next, Crashed

\* Before anything is stored.
LEMMA InitBooks == Init => Books
  <1> SUFFICES ASSUME Init PROVE Books
    OBVIOUS
  <1>1. Con \in Thread
    BY BlockStoreAssumption DEF Con
  <1>2. /\ pc[Con] = "idle" /\ cmd[Con] = "store" /\ \A f \in File : copies[f] = {}
        /\ \A n \in Node : used[n] = {} /\ joining[n] = "no"
        /\ nodes \subseteq Node
    BY <1>1, BlockStoreAssumption DEF Init
  <1>3. Promised = {} /\ Marked = {}
    BY <1>2 DEF Promised, Marked, Storing, Copying
  <1>4. NamedOnce /\ Documents /\ BitsRead /\ Stage /\ PromisedOnce
    BY <1>2, <1>3 DEF NamedOnce, Documents, BitsRead, Stage, PromisedOnce, Storing
  <1>5. Exact
    BY <1>2, <1>3 DEF Exact, Names, At
  <1> QED BY <1>4, <1>5 DEF Books

\* What the books say of the properties.
LEMMA BooksSay == Alone /\ Typed /\ Books => NoSharedPlace /\ UsedAreReferenced
  <1> SUFFICES ASSUME Alone, Typed, Books PROVE NoSharedPlace /\ UsedAreReferenced
    OBVIOUS
  <1> USE DEF Typed, DbTypes
  <1>1. NoSharedPlace
    <2> SUFFICES ASSUME NEW r \in References, NEW s \in References,
                        r[2][2] = s[2][2], r[2][3] = s[2][3]
                 PROVE  r = s
      BY DEF NoSharedPlace
    <2>1. /\ r[1] \in File /\ s[1] \in File /\ r[2] \in copies[r[1]] /\ s[2] \in copies[s[1]]
          /\ r = <<r[1], r[2]>> /\ s = <<s[1], s[2]>>
      BY DEF References
    <2>2. r[1] = s[1] /\ r[2] = s[2]
      BY <2>1 DEF Books, NamedOnce
    <2> QED BY <2>1, <2>2
  <1>2. UsedAreReferenced
    <2> SUFFICES ASSUME Quiet, NEW n \in nodes
                 PROVE  used[n] = {c[3] : c \in {d \in UNION {copies[f] : f \in File} : d[2] = n}}
      BY DEF UsedAreReferenced
    <2> DEFINE U == {c[3] : c \in {d \in UNION {copies[f] : f \in File} : d[2] = n}}
    <2>1. pc[Con] = "idle"
      BY DEF Quiet, Alone, Con
    <2>2. cmd[Con] # "rm" /\ Marked = {}
      BY <2>1 DEF Books, Stage, Marked
    <2>3. \A s \in Slot : s \in used[n] <=> InDoc(n, s)
      BY <2>1, <2>2, AllNames DEF Books, Exact, At
    <2>4. \A s : s \in U <=> InDoc(n, s)
      BY DEF InDoc
    <2>5. used[n] \subseteq Slot /\ \A s : InDoc(n, s) => s \in Slot
      BY DEF InDoc, Copy
    <2> HIDE DEF U
    <2>6. used[n] = U
      BY <2>3, <2>4, <2>5
    <2> QED BY <2>6 DEF U
  <1> QED BY <1>1, <1>2

\* The invariant.
Kept == Typed /\ AllSafe /\ Apart /\ Books
LEMMA BooksAreKept == ASSUME Alone PROVE Spec => []Kept
  <1>1. Init => Kept
    BY InitTypes, InitSafe, InitBooks, TypeParts DEF Kept, Typed
  <1>2. Kept /\ [Next]_vars => Kept'
    BY StepTypes, StepSafe, StepBooks DEF Kept, Ready
  <1> QED BY <1>1, <1>2, PTL DEF Spec

\* With the console as the only thread that stores, and nodes that do not say they are new
\* when they connect again, cp, rm, cpb, rmb and format never give two blocks one place
\* (node_getFirstFreeBlock, on bitmaps read before), whatever is lost on the way.
THEOREM NothingOverwritten == ASSUME Alone PROVE Spec => []NoSharedPlace
  <1>1. Kept => NoSharedPlace
    BY BooksSay DEF Kept
  <1> QED BY <1>1, BooksAreKept, PTL

\* Between its commands, those that failed half-way included, the bitmap of each node marks
\* what the documents of the files name: no block is lost and none is free too early.
THEOREM NothingLost == ASSUME Alone PROVE Spec => []UsedAreReferenced
  <1>1. Kept => UsedAreReferenced
    BY BooksSay DEF Kept
  <1> QED BY <1>1, BooksAreKept, PTL

----------------------------------------------------------------------------
\* What the nodes hold.  A node that dies takes its blocks with it and is noticed late, as
\* nothing answers a block that is sent.
\* Either no node connects again or is disabled, or none dies.
Steady == moves = MaxMoves \/ faults = MaxFaults

\* A place holds a block, or its node died.
Put(c, d) == disk[c[2]][c[3]] = d \/ c[2] \notin alive

\* The block that the console is storing, or copying, there.
Item(c) == <<Con, path[Con], c[1]>>

\* Who can be dead.
Faults ==
    /\ faults <= MaxFaults /\ moves <= MaxMoves
    /\ faults = MaxFaults => nodes \subseteq alive
    /\ moves = MaxMoves => /\ nodes = Known
                           /\ Cardinality(Known \ alive) <= MaxFaults - faults

\* What the documents name is right, if its node lives.
DocsHold ==
    Steady => \A f \in files : \A c \in copies[f] : Put(c, <<author[f], f, c[1]>>)

\* So is what the command under way has sent, unless it knows that it failed.
RunHolds ==
    Steady =>
      /\ pc[Con] = "send" /\ ~failed[Con] => \A c \in plan[Con] \ todo[Con] : Put(c, Item(c))
      /\ pc[Con] \in {"bits", "save"} => \A c \in plan[Con] : Put(c, Item(c))
      /\ pc[Con] \in {"choose", "copy"} => data[Con] = <<Con, path[Con], block[Con]>>
      /\ pc[Con] \in {"copybits", "copydoc"} => \A c \in todo[Con] : Put(c, Item(c))

\* Which copies those are.
RunCopies ==
    /\ pc[Con] = "send" => todo[Con] \subseteq plan[Con]
    /\ pc[Con] = "copy" => \A c \in todo[Con] : c[1] = block[Con]
    /\ pc[Con] = "fetch" => \A c \in plan[Con] : c \in copies[path[Con]] /\ c[1] = block[Con]

Sound == Faults /\ DocsHold /\ RunHolds /\ RunCopies

----------------------------------------------------------------------------
\* Every file is the console's.
LEMMA ConsoleStored ==
    ASSUME Ready
    PROVE  /\ Con \in Thread /\ \A f \in File : author[f] = Con
           /\ \A f \in files : f \in File
           /\ \A f \in File : \A c \in copies[f] : c[2] \in Node /\ c[3] \in Slot
  BY DEF Ready, Alone, Con, Typed, DbTypes, Copy

\* A step of the console kills no node and connects none.
LEMMA RunFaults ==
    ASSUME Ready, Faults, Run(Con)
    PROVE  Faults' /\ (Steady' => Steady) /\ UNCHANGED <<alive, nodes, moves, joining>>
  <1>1. UNCHANGED <<alive, nodes, moves>> /\ (faults' = faults \/ Faulty)
    BY DEF Run, StoreFile, ReadNodes, PlanBlock, SendBlock, JoinSenders, SaveBits, SaveFile,
           RemoveFile, RemoveCopy, PullCopy, ReadNode, FreeBlock, EndFree, CopyBlock, FetchBlock,
           ChooseNode, SendCopy, SaveCopyBits, SaveCopy, Format, ReadAllNodes, FormatNode,
           dbVars, netVars, accVars, envVars
  <1>2. UNCHANGED joining
    BY DEF Run, StoreFile, ReadNodes, PlanBlock, SendBlock, JoinSenders, SaveBits, SaveFile,
           RemoveFile, RemoveCopy, PullCopy, ReadNode, FreeBlock, EndFree, CopyBlock, FetchBlock,
           ChooseNode, SendCopy, SaveCopyBits, SaveCopy, Format, ReadAllNodes, FormatNode, accVars
  <1>3. faults \in Nat /\ MaxFaults \in Nat
    BY BlockStoreAssumption DEF BlockStoreAssumption, Ready, Typed, EnvTypes
  <1>4. Cardinality(Known \ alive) \in Nat
    BY BlockStoreAssumption, FS_Subset, FS_CardinalityType DEF BlockStoreAssumption
  <1> QED BY <1>1, <1>2, <1>3, <1>4 DEF Faults, Faulty, Steady

\* What documents name still holds when they name no more and their blocks stay.
LEMMA DocsStay ==
    ASSUME DocsHold, Steady' => Steady, UNCHANGED alive,
           \A f \in files' : \A c \in copies'[f] :
               /\ f \in files /\ c \in copies[f] /\ author'[f] = author[f]
               /\ disk'[c[2]][c[3]] = disk[c[2]][c[3]]
    PROVE  DocsHold'
  BY DEF DocsHold, Put

\* A command that ends, or is about to, has nothing under way.
LEMMA NothingRuns ==
    ASSUME pc'[Con] \in {"idle", "read", "plan", "pull", "free", "freed", "format", "formatnode"}
    PROVE  RunHolds' /\ RunCopies'
  BY DEF RunHolds, RunCopies

\* What the nodes hold does not change, nor do the documents.
LEMMA HoldsOn ==
    ASSUME Ready, Sound, Run(Con), UNCHANGED <<disk, docVars>>, RunHolds', RunCopies'
    PROVE  Sound'
  <1>1. Faults' /\ (Steady' => Steady) /\ UNCHANGED alive
    BY RunFaults DEF Sound
  <1>2. DocsHold'
    BY <1>1, DocsStay DEF Sound, docVars
  <1> QED BY <1>1, <1>2 DEF Sound

\* A block sent to a place that nothing names.
LEMMA SendHolds ==
    ASSUME Ready, Sound, Run(Con), NEW c \in Promised, NEW d, SendOk(c, d), UNCHANGED docVars,
           cmd[Con] # "rm", c \in Copy
    PROVE  /\ DocsHold' /\ (disk'[c[2]][c[3]] = d \/ c[2] \notin alive')
           /\ \A e \in Copy : ~(e[2] = c[2] /\ e[3] = c[3]) => disk'[e[2]][e[3]] = disk[e[2]][e[3]]
  <1> USE DEF Ready, Typed, DiskTypes
  <1>1. (Steady' => Steady) /\ UNCHANGED alive
    BY RunFaults DEF Sound
  <1>2. c[2] \in Node /\ c[3] \in Slot
    BY DEF Copy
  <1>3. \A e \in Copy : ~(e[2] = c[2] /\ e[3] = c[3]) => disk'[e[2]][e[3]] = disk[e[2]][e[3]]
    <2> SUFFICES ASSUME NEW e \in Copy, ~(e[2] = c[2] /\ e[3] = c[3])
                 PROVE  disk'[e[2]][e[3]] = disk[e[2]][e[3]]
      OBVIOUS
    <2>1. e[2] \in Node /\ e[3] \in Slot
      BY DEF Copy
    <2>2. CASE e[2] = c[2]
      BY <1>2, <2>1, <2>2 DEF SendOk
    <2>3. CASE e[2] # c[2]
      BY <1>2, <2>1, <2>3 DEF SendOk
    <2> QED BY <2>2, <2>3
  <1>4. disk'[c[2]][c[3]] = d \/ c[2] \notin alive'
    BY <1>1, <1>2 DEF SendOk
  <1>5. ~InDoc(c[2], c[3])
    BY AllNames DEF Books, PromisedOnce
  <1>6. DocsHold'
    <2>1. \A f \in files : f \in File /\ \A e \in copies[f] : e \in Copy
      BY DEF DbTypes
    <2>2. \A f \in files : \A e \in copies[f] : ~(e[2] = c[2] /\ e[3] = c[3])
      BY <1>5, <2>1 DEF InDoc
    <2> QED BY <1>1, <1>3, <2>1, <2>2, DocsStay DEF Sound, docVars
  <1> QED BY <1>3, <1>4, <1>6

\* Data that is not kept is nobody's.
LEMMA AbandonHolds ==
    ASSUME Ready, Sound, Run(Con), Abandon(Con), UNCHANGED docVars
    PROVE  DocsHold'
  <1> USE ConsoleStored DEF Ready, Typed, DbTypes
  <1>1. (Steady' => Steady) /\ UNCHANGED alive
    BY RunFaults DEF Sound
  <1>2. ASSUME Steady, NEW f \in files, NEW c \in copies[f]
        PROVE  Put(c, <<author[f], f, c[1]>>)'
    <2>1. c[2] \in Node /\ c[3] \in Slot /\ author[f] = Con
      OBVIOUS
    <2>2. CASE disk[c[2]][c[3]] = <<author[f], f, c[1]>>
      <3>1. ~(/\ \E b \in Block : disk[c[2]][c[3]] = <<Con, path[Con], b>>
              /\ ~(path[Con] \in files /\ author[path[Con]] = Con))
        BY <2>1, <2>2
      <3>2. disk'[c[2]][c[3]] = disk[c[2]][c[3]]
        BY <2>1, <3>1 DEF Abandon
      <3> QED BY <2>2, <3>2 DEF Put, docVars
    <2> QED BY <1>1, <1>2, <2>2 DEF Sound, DocsHold, Put
  <1> QED BY <1>1, <1>2 DEF DocsHold, docVars

\* Files that are deleted are not those that stay.
LEMMA ForgetHolds ==
    ASSUME Ready, Sound, Run(Con), NEW F, Forget(F)
    PROVE  DocsHold'
  <1> USE ConsoleStored DEF Ready, Typed, DbTypes
  <1>1. (Steady' => Steady) /\ UNCHANGED alive
    BY RunFaults DEF Sound
  <1>2. ASSUME Steady, NEW f \in files \ F, NEW c \in copies[f]
        PROVE  Put(c, <<author[f], f, c[1]>>)'
    <2>1. c[2] \in Node /\ c[3] \in Slot
      OBVIOUS
    <2>2. CASE disk[c[2]][c[3]] = <<author[f], f, c[1]>>
      <3>1. ~\E g \in F \cap files, b \in Block : disk[c[2]][c[3]] = <<author[g], g, b>>
        BY <2>2
      <3>2. disk'[c[2]][c[3]] = disk[c[2]][c[3]]
        BY <2>1, <3>1 DEF Forget
      <3> QED BY <2>2, <3>2 DEF Put, Forget
    <2> QED BY <1>1, <1>2, <2>2 DEF Sound, DocsHold, Put
  <1>3. files' = files \ F /\ author' = author /\ \A f \in files \ F : copies'[f] = copies[f]
    BY DEF Forget
  <1> QED BY <1>1, <1>2, <1>3 DEF DocsHold

\* Storing a file.
LEMMA StoreHolds ==
    ASSUME Ready, Sound, Run(Con),
           StoreFile(Con) \/ ReadNodes(Con) \/ PlanBlock(Con) \/ SendBlock(Con)
             \/ JoinSenders(Con) \/ SaveBits(Con) \/ SaveFile(Con)
    PROVE  Sound'
  <1> USE ConsoleStored DEF Ready, Typed, ArgTypes, RunTypes
  <1>0. Faults' /\ (Steady' => Steady) /\ UNCHANGED alive
    BY RunFaults DEF Sound
  <1>1. CASE StoreFile(Con) \/ ReadNodes(Con)
    <2>1. pc'[Con] \in {"read", "plan"} /\ UNCHANGED <<disk, docVars>>
      BY <1>1 DEF StoreFile, ReadNodes, Start, Goto, dbVars
    <2> QED BY <2>1, NothingRuns, HoldsOn
  <1>2. CASE PlanBlock(Con)
    <2>1. /\ UNCHANGED <<disk, docVars>>
          /\ \/ pc'[Con] \in {"idle", "plan"}
             \/ pc'[Con] = "send" /\ todo'[Con] = plan'[Con]
      BY <1>2 DEF PlanBlock, End, Goto, dbVars
    <2>2. RunHolds' /\ RunCopies'
      BY <2>1, NothingRuns DEF RunHolds, RunCopies
    <2> QED BY <2>1, <2>2, HoldsOn
  <1>3. CASE SendBlock(Con)
    <2>1. PICK c \in todo[Con] :
            /\ todo' = [todo EXCEPT ![Con] = @ \ {c}]
            /\ \/ SendOk(c, <<Con, path[Con], c[1]>>) /\ UNCHANGED failed
               \/ SendFails(c) /\ SetFailed(Con)
               \/ failed[Con] /\ UNCHANGED <<disk, active, failed>>
      BY <1>3 DEF SendBlock
    <2>2. /\ pc[Con] = "send" /\ UNCHANGED <<pc, path, plan, data, block, docVars>>
          /\ todo'[Con] = todo[Con] \ {c} /\ cmd[Con] # "rm"
      BY <1>3, <2>1 DEF SendBlock, dbVars, argVars, Books, Stage
    <2>3. c \in plan[Con] /\ plan[Con] \subseteq Copy /\ Promised = plan[Con]
      BY <2>2 DEF Sound, RunCopies, Promised, Storing, Copying
    <2>4. RunCopies'
      BY <2>2 DEF Sound, RunCopies
    <2>5. CASE SendOk(c, <<Con, path[Con], c[1]>>) /\ UNCHANGED failed
      <3>1. /\ DocsHold'
            /\ disk'[c[2]][c[3]] = <<Con, path[Con], c[1]>> \/ c[2] \notin alive'
            /\ \A e \in Copy : ~(e[2] = c[2] /\ e[3] = c[3]) => disk'[e[2]][e[3]] = disk[e[2]][e[3]]
        BY <2>2, <2>3, <2>5, SendHolds
      <3>2. \A e \in plan[Con] : e # c => ~(e[2] = c[2] /\ e[3] = c[3])
        BY <2>3 DEF Books, PromisedOnce
      <3>3. \A e : (Item(e))' = Item(e)
        BY <2>2 DEF Item
      <3>4. \A e \in plan[Con] : e # c /\ Put(e, Item(e)) => Put(e, Item(e))'
        BY <1>0, <2>3, <3>1, <3>2, <3>3 DEF Put
      <3>5. Put(c, Item(c))'
        BY <2>2, <3>1 DEF Put, Item
      <3>6. RunHolds'
        BY <1>0, <2>2, <2>5, <3>4, <3>5 DEF Sound, RunHolds
      <3> QED BY <1>0, <2>4, <3>1, <3>6 DEF Sound
    <2>6. CASE UNCHANGED disk /\ failed'[Con]
      <3>1. RunHolds'
        BY <2>2, <2>6 DEF RunHolds
      <3> QED BY <2>2, <2>4, <2>6, <3>1, HoldsOn
    <2> QED BY <2>1, <2>5, <2>6 DEF SendFails, SetFailed
  <1>4. CASE JoinSenders(Con)
    <2>1. pc[Con] = "send" /\ todo[Con] = {} /\ UNCHANGED docVars
      BY <1>4 DEF JoinSenders, dbVars
    <2>2. CASE Abandon(Con) /\ End(Con)
      <3>1. pc'[Con] = "idle"
        BY <2>2 DEF End, Goto
      <3> QED BY <1>0, <2>1, <2>2, <3>1, AbandonHolds, NothingRuns DEF Sound
    <2>3. CASE /\ ~failed[Con] /\ Goto(Con, "bits")
               /\ UNCHANGED <<disk, argVars, block, snap, cand, plan, failed, data>>
      <3>1. pc'[Con] = "bits" /\ UNCHANGED <<disk, path, plan>> /\ ~failed[Con]
        BY <2>3 DEF Goto, argVars
      <3>2. RunHolds' /\ RunCopies'
        BY <1>0, <2>1, <3>1 DEF Sound, RunHolds, RunCopies, Put, Item
      <3> QED BY <2>1, <3>1, <3>2, HoldsOn
    <2> QED BY <1>4, <2>2, <2>3 DEF JoinSenders
  <1>5. CASE SaveBits(Con)
    <2>1. /\ pc[Con] = "bits" /\ pc'[Con] \in {"bits", "save"}
          /\ UNCHANGED <<disk, docVars, path, plan>>
      BY <1>5 DEF SaveBits, Goto, argVars
    <2>2. RunHolds' /\ RunCopies'
      BY <1>0, <2>1 DEF Sound, RunHolds, RunCopies, Put, Item
    <2> QED BY <2>1, <2>2, HoldsOn
  <1>6. CASE SaveFile(Con)
    <2>1. CASE /\ path[Con] \notin files
               /\ files' = files \cup {path[Con]}
               /\ author' = [author EXCEPT ![path[Con]] = Con]
               /\ copies' = [copies EXCEPT ![path[Con]] = plan[Con]]
               /\ End(Con) /\ UNCHANGED disk
      <3>1. pc'[Con] = "idle" /\ pc[Con] = "save" /\ path[Con] \in File
        BY <1>6, <2>1 DEF End, Goto, SaveFile
      <3>2. DocsHold'
        <4> SUFFICES ASSUME Steady, NEW f \in files', NEW c \in copies'[f]
                     PROVE  Put(c, <<author[f], f, c[1]>>)'
          BY <1>0 DEF DocsHold
        <4>1. CASE f = path[Con]
          <5>1. c \in plan[Con] /\ author'[f] = Con
            BY <2>1, <3>1, <4>1 DEF DbTypes
          <5>2. Put(c, <<Con, f, c[1]>>)
            BY <3>1, <4>1, <5>1 DEF Sound, RunHolds, Item
          <5> QED BY <1>0, <2>1, <5>1, <5>2 DEF Put
        <4>2. CASE f # path[Con]
          <5>1. f \in files /\ c \in copies[f] /\ author'[f] = author[f]
            BY <2>1, <4>2 DEF DbTypes
          <5> QED BY <1>0, <2>1, <5>1 DEF Sound, DocsHold, Put
        <4> QED BY <4>1, <4>2
      <3> QED BY <1>0, <3>1, <3>2, NothingRuns DEF Sound
    <2>2. CASE Abandon(Con) /\ UNCHANGED docVars /\ pc'[Con] \in {"free", "idle"}
      BY <1>0, <2>2, AbandonHolds, NothingRuns DEF Sound
    <2>3. \/ /\ path[Con] \notin files
             /\ files' = files \cup {path[Con]}
             /\ author' = [author EXCEPT ![path[Con]] = Con]
             /\ copies' = [copies EXCEPT ![path[Con]] = plan[Con]]
             /\ End(Con) /\ UNCHANGED disk
          \/ /\ Abandon(Con) /\ UNCHANGED docVars /\ (Goto(Con, "free") \/ End(Con))
      BY <1>6 DEF SaveFile
    <2> QED BY <2>1, <2>2, <2>3 DEF Goto, End
  <1> QED BY <1>1, <1>2, <1>3, <1>4, <1>5, <1>6

\* Removing files and copies, and formatting.
LEMMA RemoveHolds ==
    ASSUME Ready, Sound, Run(Con),
           RemoveFile(Con) \/ RemoveCopy(Con) \/ PullCopy(Con) \/ ReadNode(Con) \/ FreeBlock(Con)
             \/ EndFree(Con) \/ Format(Con) \/ ReadAllNodes(Con) \/ FormatNode(Con)
    PROVE  Sound'
  <1> USE ConsoleStored DEF Ready, Typed, ArgTypes, RunTypes
  <1>0. Faults' /\ (Steady' => Steady) /\ UNCHANGED alive
    BY RunFaults DEF Sound
  <1>1. RunHolds' /\ RunCopies'
    <2>1. pc'[Con] \in {"idle", "pull", "free", "freed", "format", "formatnode"}
      BY DEF RemoveFile, RemoveCopy, PullCopy, ReadNode, FreeBlock, EndFree, Format, ReadAllNodes,
             FormatNode, Start, Goto, End
    <2> QED BY <2>1, NothingRuns
  <1>2. CASE UNCHANGED <<disk, docVars>>
    BY <1>1, <1>2, HoldsOn
  <1>3. CASE PullCopy(Con)
    <2>1. UNCHANGED <<files, author, disk>> /\ \A f \in File : copies'[f] \subseteq copies[f]
      BY <1>3 DEF PullCopy, DbTypes
    <2>2. DocsHold'
      BY <1>0, <2>1, DocsStay DEF Sound
    <2> QED BY <1>0, <1>1, <2>2 DEF Sound
  <1>4. CASE EndFree(Con) \/ Format(Con)
    <2>1. UNCHANGED <<disk, docVars>> \/ \E F : Forget(F)
      BY <1>4 DEF EndFree, Format
    <2> QED BY <1>0, <1>1, <1>2, <2>1, ForgetHolds DEF Sound
  <1> QED BY <1>2, <1>3, <1>4 DEF RemoveFile, RemoveCopy, ReadNode, FreeBlock, ReadAllNodes,
             FormatNode, dbVars

\* cpb: what is sent is what a node that lives has of the block.
LEMMA CopyHolds ==
    ASSUME Ready, Sound, Run(Con),
           CopyBlock(Con) \/ FetchBlock(Con) \/ ChooseNode(Con) \/ SendCopy(Con)
             \/ SaveCopyBits(Con) \/ SaveCopy(Con)
    PROVE  Sound'
  <1> USE ConsoleStored DEF Ready, Typed, ArgTypes, RunTypes
  <1>0. Faults' /\ (Steady' => Steady) /\ UNCHANGED alive
    BY RunFaults DEF Sound
  <1>1. CASE CopyBlock(Con)
    <2>1. PICK f \in files : \E b \in 1 .. Blocks[f] :
            /\ Start(Con, "cpb", f, "fetch")
            /\ block' = [block EXCEPT ![Con] = b]
            /\ plan' = [plan EXCEPT ![Con] = CopiesOf(f, b)]
      BY <1>1 DEF CopyBlock
    <2>2. /\ pc'[Con] = "fetch" /\ path'[Con] = f
          /\ \A c \in plan'[Con] : c \in copies[f] /\ c[1] = block'[Con]
          /\ UNCHANGED <<disk, docVars>>
      BY <1>1, <2>1 DEF CopyBlock, Start, Goto, CopiesOf, dbVars
    <2>3. RunHolds' /\ RunCopies'
      BY <2>2 DEF RunHolds, RunCopies, docVars
    <2> QED BY <2>2, <2>3, HoldsOn
  <1>2. CASE FetchBlock(Con)
    <2>1. pc[Con] = "fetch" /\ UNCHANGED <<disk, docVars>> /\ path[Con] \in files
      BY <1>2, OneThread DEF FetchBlock, dbVars, Safe, Looking
    <2>2. CASE /\ \E c \in plan[Con] : /\ c[2] \in active \cap alive
                                       /\ data' = [data EXCEPT ![Con] = disk[c[2]][c[3]]]
               /\ Goto(Con, "choose") /\ UNCHANGED <<argVars, block>>
      <3>1. PICK c \in plan[Con] : c[2] \in alive /\ data' = [data EXCEPT ![Con] = disk[c[2]][c[3]]]
        BY <2>2
      <3>2. c \in copies[path[Con]] /\ c[1] = block[Con] /\ author[path[Con]] = Con
        BY <2>1 DEF Sound, RunCopies
      <3>3. Steady => disk[c[2]][c[3]] = <<Con, path[Con], block[Con]>>
        BY <2>1, <3>1, <3>2 DEF Sound, DocsHold, Put
      <3>4. pc'[Con] = "choose" /\ data'[Con] = disk[c[2]][c[3]] /\ UNCHANGED <<path, block>>
        BY <2>2, <3>1 DEF Goto, argVars
      <3>5. RunHolds' /\ RunCopies'
        BY <1>0, <3>3, <3>4 DEF RunHolds, RunCopies
      <3> QED BY <2>1, <3>5, HoldsOn
    <2>3. CASE UNCHANGED locVars
      <3>1. RunHolds' /\ RunCopies'
        BY <2>1, <2>3 DEF Sound, RunHolds, RunCopies, locVars, argVars, runVars, docVars
      <3> QED BY <2>1, <3>1, HoldsOn
    <2>4. CASE End(Con)
      BY <2>1, <2>4, NothingRuns, HoldsOn DEF End, Goto
    <2> QED BY <1>2, <2>2, <2>3, <2>4 DEF FetchBlock
  <1>3. CASE ChooseNode(Con)
    <2>1. pc[Con] = "choose" /\ UNCHANGED <<disk, docVars>>
      BY <1>3 DEF ChooseNode, dbVars
    <2>2. CASE End(Con)
      BY <2>1, <2>2, NothingRuns, HoldsOn DEF End, Goto
    <2>4. End(Con) \/ (/\ \E n, s : todo' = [todo EXCEPT ![Con] = {<<block[Con], n, s>>}]
                       /\ Goto(Con, "copy") /\ UNCHANGED <<argVars, block, data>>)
      BY <1>3 DEF ChooseNode
    <2>5. CASE /\ \E n, s : todo' = [todo EXCEPT ![Con] = {<<block[Con], n, s>>}]
               /\ Goto(Con, "copy") /\ UNCHANGED <<argVars, block, data>>
      <3>1. /\ pc'[Con] = "copy" /\ UNCHANGED <<path, block, data>>
            /\ \A c \in todo'[Con] : c[1] = block[Con]
        BY <2>5 DEF Goto, argVars
      <3>2. RunHolds' /\ RunCopies'
        BY <1>0, <2>1, <3>1 DEF Sound, RunHolds, RunCopies
      <3> QED BY <2>1, <3>2, HoldsOn
    <2> QED BY <2>2, <2>4, <2>5
  <1>4. CASE SendCopy(Con)
    <2>1. pc[Con] = "copy" /\ UNCHANGED docVars /\ cmd[Con] # "rm" /\ Promised = todo[Con]
          /\ todo[Con] \subseteq Copy
      BY <1>4 DEF SendCopy, dbVars, Books, Stage, Promised, Copying
    <2>2. PICK c \in todo[Con] :
            \/ /\ SendOk(c, data[Con]) /\ Goto(Con, "copybits")
               /\ UNCHANGED <<argVars, block, snap, cand, plan, todo, failed>>
            \/ SendFails(c) /\ End(Con)
      BY <1>4 DEF SendCopy
    <2>3. CASE SendFails(c) /\ End(Con)
      BY <2>1, <2>3, NothingRuns, HoldsOn DEF End, Goto, SendFails
    <2>4. CASE /\ SendOk(c, data[Con]) /\ Goto(Con, "copybits")
               /\ UNCHANGED <<argVars, block, snap, cand, plan, todo, failed>>
      <3>1. DocsHold' /\ (disk'[c[2]][c[3]] = data[Con] \/ c[2] \notin alive')
        BY <2>1, <2>4, SendHolds
      <3>2. pc'[Con] = "copybits" /\ UNCHANGED <<path, todo>>
        BY <2>4 DEF Goto, argVars
      <3>3. c[1] = block[Con] /\ \A e \in todo[Con] : e = c
        BY <2>1, OneThread DEF Sound, RunCopies, Safe, Copying
      <3>4. Steady => data[Con] = <<Con, path[Con], c[1]>>
        BY <2>1, <3>3 DEF Sound, RunHolds
      <3>5. RunHolds' /\ RunCopies'
        BY <1>0, <3>1, <3>2, <3>3, <3>4 DEF RunHolds, RunCopies, Put, Item
      <3> QED BY <1>0, <3>1, <3>5 DEF Sound
    <2> QED BY <2>2, <2>3, <2>4
  <1>5. CASE SaveCopyBits(Con)
    <2>1. /\ pc[Con] = "copybits" /\ pc'[Con] = "copydoc" /\ UNCHANGED <<disk, docVars, path, todo>>
      BY <1>5 DEF SaveCopyBits, Goto, argVars, runVars
    <2>2. RunHolds' /\ RunCopies'
      BY <1>0, <2>1 DEF Sound, RunHolds, RunCopies, Put, Item
    <2> QED BY <2>1, <2>2, HoldsOn
  <1>6. CASE SaveCopy(Con)
    <2>1. /\ pc[Con] = "copydoc" /\ copies' = [copies EXCEPT ![path[Con]] = @ \cup todo[Con]]
          /\ End(Con) /\ UNCHANGED <<files, author, disk>>
      BY <1>6 DEF SaveCopy
    <2>2. pc'[Con] = "idle"
      BY <2>1 DEF End, Goto
    <2>3. DocsHold'
      <3> SUFFICES ASSUME Steady, NEW f \in files, NEW c \in copies'[f]
                   PROVE  Put(c, <<author[f], f, c[1]>>)'
        BY <1>0, <2>1 DEF DocsHold
      <3>1. CASE c \in copies[f]
        BY <1>0, <2>1, <3>1 DEF Sound, DocsHold, Put
      <3>2. CASE c \notin copies[f]
        <4>1. f = path[Con] /\ c \in todo[Con] /\ author[f] = Con
          BY <2>1, <3>2 DEF DbTypes
        <4>2. Put(c, <<Con, f, c[1]>>)
          BY <2>1, <4>1 DEF Sound, RunHolds, Item
        <4> QED BY <1>0, <2>1, <4>1, <4>2 DEF Put
      <3> QED BY <3>1, <3>2
    <2> QED BY <1>0, <2>2, <2>3, NothingRuns DEF Sound
  <1> QED BY <1>1, <1>2, <1>3, <1>4, <1>5, <1>6

\* One more node.
LEMMA OneMore ==
    ASSUME NEW S, IsFiniteSet(S), NEW n, n \notin S
    PROVE  Cardinality(S \cup {n}) = Cardinality(S) + 1
  BY FS_AddElement

\* Nodes that connect, die, or are enabled and disabled.
LEMMA NetworkHolds ==
    ASSUME Ready, Sound, NEW n \in Node, Network(n)
    PROVE  Sound'
  <1> USE ConsoleStored, BlockStoreAssumption
          DEF Ready, Typed, DbTypes, AccTypes, EnvTypes, NetTypes, BlockStoreAssumption
  <1>1. joining[n] = "no" /\ n \notin NewNodes
    BY DEF Books, Stage, Alone
  <1>2. UNCHANGED <<pc, path, block, plan, todo, failed, data, files, author, copies, disk>>
    BY <1>1 DEF Network, Connect, FindCopies, DropCopy, FormatNew, activateNode, deactivateNode,
            CheckAlive, NodeDies, dbVars, docVars, locVars, argVars, runVars, accVars
  <1>3. /\ \A S \in SUBSET Known : IsFiniteSet(S) /\ Cardinality(S) \in Nat
        /\ Known \ alive \in SUBSET Known
    BY FS_Subset, FS_CardinalityType
  <1>4. \/ UNCHANGED <<alive, nodes, faults>> /\ moves' \in Nat /\ moves' <= moves
        \/ /\ alive' = alive \cup {n} /\ nodes' \subseteq nodes \cup {n} /\ nodes \subseteq nodes'
           /\ moves > 0 /\ moves' = moves - 1 /\ UNCHANGED faults
        \/ n \in alive /\ alive' = alive \ {n} /\ Faulty /\ UNCHANGED <<nodes, moves>>
    BY <1>1 DEF Network, Connect, FindCopies, DropCopy, FormatNew, activateNode, deactivateNode,
            CheckAlive, NodeDies, dbVars, accVars, envVars, netVars
  <1>5. Faults'
    <2>1. CASE UNCHANGED <<alive, nodes, faults>> /\ moves' \in Nat /\ moves' <= moves
      BY <2>1 DEF Sound, Faults
    <2>2. CASE /\ alive' = alive \cup {n} /\ nodes' \subseteq nodes \cup {n}
               /\ moves > 0 /\ moves' = moves - 1 /\ UNCHANGED faults
      BY <2>2 DEF Sound, Faults
    <2>3. CASE n \in alive /\ alive' = alive \ {n} /\ Faulty /\ UNCHANGED <<nodes, moves>>
      <3>1. Known \ alive' = IF n \in Known THEN (Known \ alive) \cup {n} ELSE Known \ alive
        BY <2>3
      <3>2. Cardinality((Known \ alive) \cup {n}) = Cardinality(Known \ alive) + 1
        <4>1. IsFiniteSet(Known \ alive) /\ n \notin Known \ alive
          BY <1>3, <2>3
        <4> HIDE ConsoleStored DEF Ready, Typed, DbTypes, AccTypes, EnvTypes, NetTypes
        <4> QED BY <4>1, OneMore
      <3>3. Cardinality(Known \ alive') \in Nat /\ Cardinality(Known \ alive) \in Nat
        <4>1. Known \ alive' \in SUBSET Known
          OBVIOUS
        <4> QED BY <1>3, <4>1
      <3>4. Cardinality(Known \ alive') <= Cardinality(Known \ alive) + 1
        <4> HIDE ConsoleStored DEF Ready, Typed, DbTypes, AccTypes, EnvTypes, NetTypes
        <4>1. CASE n \in Known
          BY <3>1, <3>2, <3>3, <4>1
        <4>2. CASE n \notin Known
          BY <3>1, <3>3, <4>2
        <4> QED BY <4>1, <4>2
      <3> QED BY <2>3, <3>3, <3>4 DEF Sound, Faults, Faulty
    <2> QED BY <1>4, <2>1, <2>2, <2>3
  \* A place of a node that has a document stays as good as it was.
  <1>6. Steady' => Steady
    BY <1>4 DEF Sound, Faults, Steady, Faulty
  <1>7. ASSUME Steady', NEW c, NEW d, c[2] \in nodes, Put(c, d)
        PROVE  Put(c, d)'
    <2>1. alive' \subseteq alive \/ c[2] \in alive
      BY <1>4, <1>7 DEF Sound, Faults, Steady, Faulty
    <2> QED BY <1>2, <1>7, <2>1 DEF Put
  <1>8. DocsHold'
    <2>1. \A f \in files : \A c \in copies[f] : c[2] \in nodes
      BY DEF Books, Documents
    <2> QED BY <1>2, <1>6, <1>7, <2>1 DEF Sound, DocsHold
  <1>9. RunHolds'
    <2>1. \A c : Item(c)' = Item(c)
      BY <1>2 DEF Item
    <2>2. \A c \in Promised : c[2] \in nodes
      BY DEF Books, PromisedOnce
    <2>3. pc[Con] \in {"send", "bits", "save"} => \A c \in plan[Con] : c[2] \in nodes
      BY <2>2 DEF Promised, Storing, Copying
    <2>4. pc[Con] \in {"copybits", "copydoc"} => \A c \in todo[Con] : c[2] \in nodes
      BY <2>2 DEF Promised, Storing, Copying
    <2> QED BY <1>2, <1>6, <1>7, <2>1, <2>3, <2>4 DEF Sound, RunHolds
  <1>10. RunCopies'
    BY <1>2 DEF Sound, RunCopies
  <1> QED BY <1>5, <1>8, <1>9, <1>10 DEF Sound

\* Every step.
LEMMA StepHolds == Ready /\ Sound /\ [Next]_vars => Sound'
  <1> SUFFICES ASSUME Ready, Sound, [Next]_vars PROVE Sound'
    OBVIOUS
  <1>1. ASSUME NEW t \in Thread, Run(t) PROVE Sound'
    <2>1. t = Con
      BY DEF Ready, Alone, Con
    <2>2. Run(Con)
      BY <1>1, <2>1
    <2> QED BY <2>2, StoreHolds, RemoveHolds, CopyHolds DEF Run
  <1>2. ASSUME NEW n \in Node, Network(n) PROVE Sound'
    BY <1>2, NetworkHolds
  <1>3. CASE UNCHANGED vars
    BY <1>3 DEF vars, dbVars, docVars, netVars, locVars, argVars, runVars, accVars, envVars,
                Sound, Faults, DocsHold, RunHolds, RunCopies, Steady, Put, Item
  <1> QED BY <1>1, <1>2, <1>3 DEF Next, Crashed

\* Before anything is stored every known node lives.
LEMMA InitHolds == Init => Sound
  <1> SUFFICES ASSUME Init PROVE Sound
    OBVIOUS
  <1> USE BlockStoreAssumption DEF BlockStoreAssumption
  <1>1. Con \in Thread /\ pc[Con] = "idle" /\ files = {}
    BY DEF Con, Init
  <1>2. Known \ alive = {} /\ faults = MaxFaults /\ moves = MaxMoves /\ nodes = Known
        /\ alive = Known
    BY DEF Init
  <1>3. Cardinality(Known \ alive) = 0
    BY <1>2, FS_EmptySet
  <1> QED BY <1>1, <1>2, <1>3 DEF Sound, Faults, DocsHold, RunHolds, RunCopies

\* The blocks of a set of copies, in different nodes of a finite set, are no more than it.
LEMMA SpreadCount ==
    ASSUME NEW S, NEW T, IsFiniteSet(T), \A c \in S : c[2] \in T,
           \A c, d \in S : c[2] = d[2] => c = d
    PROVE  Cardinality(S) <= Cardinality(T)
  <1> DEFINE at == [c \in S |-> c[2]]
  <1>1. at \in Injection(S, T)
    BY DEF Injection, IsInjective
  <1> QED BY <1>1, FS_Injection

\* What the invariant says of the properties.
LEMMA HoldsSay == Kept /\ Alone /\ Sound => OnlyDeathsSpoil /\ DeathsSpoilOneCopy
  <1> SUFFICES ASSUME Kept, Alone, Sound PROVE OnlyDeathsSpoil /\ DeathsSpoilOneCopy
    OBVIOUS
  <1> USE BlockStoreAssumption DEF BlockStoreAssumption, Kept, Typed, DbTypes, EnvTypes
  <1>1. \A f \in files : \A c \in copies[f] : c[2] \in nodes
    BY DEF Books, Documents
  <1>2. OnlyDeathsSpoil
    BY <1>1 DEF OnlyDeathsSpoil, Sound, Faults, DocsHold, Steady, Put, Right
  <1>3. DeathsSpoilOneCopy
    <2> SUFFICES ASSUME moves = MaxMoves, NEW f \in files, NEW b \in 1 .. Blocks[f]
                 PROVE  Cardinality({c \in CopiesOf(f, b) : ~Right(f, c)}) <= MaxFaults - faults
      BY DEF DeathsSpoilOneCopy
    <2> DEFINE S == {c \in CopiesOf(f, b) : ~Right(f, c)}
               T == Known \ alive
    <2>1. IsFiniteSet(T) /\ Cardinality(T) \in Nat
      BY FS_Subset, FS_CardinalityType
    <2>2. \A c \in S : c[2] \in T
      BY <1>1 DEF CopiesOf, Sound, Faults, DocsHold, Steady, Put, Right
    <2>3. \A c, d \in S : c[2] = d[2] => c = d
      BY DEF CopiesOf, Apart, Spread
    <2>4. Cardinality(T) <= MaxFaults - faults
      BY DEF Sound, Faults
    <2> HIDE DEF S, T
    <2>5. Cardinality(S) <= Cardinality(T)
      BY <2>1, <2>2, <2>3, SpreadCount
    <2>6. Cardinality(S) \in Nat
      <3> DEFINE at == [c \in S |-> c[2]]
      <3>1. at \in Injection(S, T)
        BY <2>2, <2>3 DEF Injection, IsInjective
      <3> QED BY <2>1, <3>1, FS_Injection, FS_CardinalityType
    <2>7. Cardinality(S) <= MaxFaults - faults
      BY <2>1, <2>4, <2>5, <2>6
    <2> QED BY <2>7 DEF S
  <1> QED BY <1>2, <1>3

\* The invariant.
LEMMA SoundIsKept == ASSUME Alone PROVE Spec => [](Kept /\ Sound)
  <1>1. Init => Sound
    BY InitHolds
  <1>2. Kept /\ Sound /\ [Next]_vars => Sound'
    BY StepHolds DEF Kept, Ready
  <1> QED BY <1>1, <1>2, BooksAreKept, PTL DEF Spec

\* While no node dies a document names no copy that its node does not have, though nothing
\* answers connections_node_sendBlock, whatever is disabled, connects again or is not saved.
THEOREM NothingSpoilsAlive == ASSUME Alone PROVE Spec => []OnlyDeathsSpoil
  <1>1. Kept /\ Sound => OnlyDeathsSpoil
    BY HoldsSay
  <1> QED BY <1>1, SoundIsKept, PTL

\* As long as no node connects again or is disabled, each node that dies spoils one copy of a
\* block at most, its own: connections_node_sendBlock may lose that one without notice.
THEOREM DeathsSpoilTheirs == ASSUME Alone PROVE Spec => []DeathsSpoilOneCopy
  <1>1. Kept /\ Sound => DeathsSpoilOneCopy
    BY HoldsSay
  <1> QED BY <1>1, SoundIsKept, PTL
=============================================================================
