---------------------------- MODULE Marta_proofs ----------------------------
(***************************************************************************)
(* Theorems about Marta, for every set of jobs, nodes, maps and faults: its *)
(* types first; then its orders, that what a thread awaits is what it has   *)
(* ordered, that the load of a node stands for orders that have not been    *)
(* answered, and that the result of a job joins each of its maps once.      *)
(***************************************************************************)
EXTENDS Marta, FiniteSetTheorems, TLAPS

\* The local variables of a thread hold a map or a node where it uses them: the
\* map and the node of planMaps, the map a replan is about, the node a reduce
\* could not be done on, the node of the final reduce.
LocalOK(j) ==
    /\ pc[j] = "add" => cur[j] \in Map /\ sel[j] \in Node
    /\ pc[j] = "deact" => cur[j] \in Map
    /\ pc[j] \in {"request", "apply"} /\ caller[j] # "plan" => cur[j] \in Map
    /\ pc[j] = "deactred" => sel[j] \in Node
    /\ pc[j] = "copy" => final[j] \in Node
    /\ \A o \in notify[j] \cup orders[j] : o[1] = "final" => final[j] \in Node
Locals == \A j \in Job : LocalOK(j)

\* Sets of maps are finite.
LEMMA MapsFinite ==
    ASSUME NEW S \in SUBSET Map
    PROVE  IsFiniteSet(S) /\ Cardinality(S) \in Nat
  BY MartaAssumption, FS_Subset, FS_CardinalityType

\* Sets of nodes are finite.
LEMMA NodesFinite ==
    ASSUME NEW S \in SUBSET Node
    PROVE  IsFiniteSet(S) /\ Cardinality(S) \in Nat
  BY MartaAssumption, FS_Subset, FS_CardinalityType

\* The helpers of the actions keep the types of the table of nodes.
LEMMA HelperTypes ==
    ASSUME TypeOK
    PROVE  /\ \A n \in Node, b \in Block : AddMapNode(n, b) \in [Node -> [Block -> Nat]]
           /\ \A m \in Map : removeMapNode(m) \in [Node -> [Block -> Nat]]
           /\ \A j \in Job : Planned(j) \in SUBSET Map /\ MapsOf(j) \in SUBSET Map
           /\ \A j \in Job : FilesOf(j) \in SUBSET File
           /\ \A S : selectNode(S) \in SUBSET Node
           /\ \A o \in Reduce : AddReduce(o) \in [Node -> Int]
           /\ \A o \in Reduce : removeReduceNode(o) \in [Node -> Int]
  <1>1. \A n \in Node, b \in Block : AddMapNode(n, b) \in [Node -> [Block -> Nat]]
    BY DEF AddMapNode, TypeOK, NodeTypes
  <1>2. \A m \in Map : removeMapNode(m) \in [Node -> [Block -> Nat]]
    <2> SUFFICES ASSUME NEW m \in Map PROVE removeMapNode(m) \in [Node -> [Block -> Nat]]
      OBVIOUS
    <2>0. BlockOf[m] \in Block
      BY MartaAssumption DEF MartaAssumption
    <2>1. CASE where[m] \in Node
      <3>1. \A n \in Node, b \in Block :
              load[n][b] # 0 => [load EXCEPT ![n][b] = @ - 1] \in [Node -> [Block -> Nat]]
        BY DEF TypeOK, NodeTypes
      <3> QED BY <2>0, <2>1, <3>1 DEF removeMapNode, TypeOK, NodeTypes
    <2>2. CASE where[m] = NoNode
      <3>1. where[m] \notin Node
        BY <2>2, MartaAssumption DEF MartaAssumption
      <3> DEFINE n == where[m]
      <3> QED BY <3>1 DEF removeMapNode, TypeOK, NodeTypes, MapTypes
    <2> QED BY <2>1, <2>2 DEF TypeOK, MapTypes
  <1>3. \A j \in Job : Planned(j) \in SUBSET Map /\ MapsOf(j) \in SUBSET Map
    BY DEF Planned, MapsOf
  <1>4. \A j \in Job : FilesOf(j) \in SUBSET File
    BY MartaAssumption DEF FilesOf, MapsOf
  <1>5. \A S : selectNode(S) \in SUBSET Node
    BY DEF selectNode, TypeOK, NodeTypes
  <1>6. \A o \in Reduce : AddReduce(o) \in [Node -> Int]
    BY DEF AddReduce, TypeOK, NodeTypes, Reduce
  <1>7. \A o \in Reduce : removeReduceNode(o) \in [Node -> Int]
    BY DEF removeReduceNode, TypeOK, NodeTypes, Reduce
  <1> QED BY <1>1, <1>2, <1>3, <1>4, <1>5, <1>6, <1>7

----------------------------------------------------------------------------
\* Every step of a thread keeps the types.
LEMMA ThreadTypes ==
    ASSUME TypeOK, Locals, NEW j \in Job, Thread(j)
    PROVE  TypeOK'
  <1> USE DEF TypeOK, Goto, nodeVars, mapVars, redVars, reqVars, planVars,
              endVars, envVars
  <1>a. Planned(j) \in SUBSET Map /\ FilesOf(j) \in SUBSET File
    BY HelperTypes
  <1>b. Cardinality(Planned(j)) \in Int
    BY <1>a, MapsFinite
  <1>c. \A S : selectNode(S) \in SUBSET Node
    BY HelperTypes
  <1>d. \A m \in Map : removeMapNode(m) \in [Node -> [Block -> Nat]]
    BY HelperTypes
  <1>1. CASE RequestFile(j)
    <2> USE <1>1
    <2>1. RequestTypes'
      <3>1. PICK f \in files[j] :
              LET ms == {m \in MapsOf(j) : FileOf[m] = f}
              IN  /\ files' = [files EXCEPT ![j] = @ \ {f}]
                  /\ \/ /\ reply' = [reply EXCEPT ![j] =
                                  {r \in ms \X Node : r[2] \in UpHolders(r[1])}]
                        /\ UNCHANGED avail
                     \/ /\ FileUnavailable(j)
                        /\ UNCHANGED reply
        BY DEF RequestFile
      <3>2. {r \in {m \in MapsOf(j) : FileOf[m] = f} \X Node :
               r[2] \in UpHolders(r[1])} \in SUBSET (Map \X Node)
        BY DEF MapsOf
      <3>3. reply' \in [Job -> SUBSET (Map \X Node)]
        BY <3>1, <3>2 DEF RequestTypes
      <3> QED BY <3>1, <3>3 DEF RequestTypes, FileUnavailable
    <2>2. EndTypes'
      BY DEF RequestFile, EndTypes, PC, Outcome
    <2>3. NodeTypes' /\ MapTypes' /\ ReduceTypes' /\ PlanTypes' /\ EnvTypes'
      BY DEF RequestFile, NodeTypes, MapTypes, ReduceTypes, PlanTypes,
         EnvTypes
    <2> QED BY <2>1, <2>2, <2>3
  <1>2. CASE ApplyCopy(j)
    <2> USE <1>2
    <2>1. NodeTypes' /\ MapTypes'
      <3>1. PICK r \in reply[j] :
              /\ active' = active \cup {r[2]}
              /\ copies' = IF caller[j] = "plan"
                           THEN [copies EXCEPT ![r[1]] = @ \cup {r[2]}]
                           ELSE copies
        BY DEF ApplyCopy, updateNodes
      <3>2. r[1] \in Map /\ r[2] \in Node
        BY DEF RequestTypes
      <3>3. UNCHANGED <<load, reduces, where, done, pending>>
        BY DEF ApplyCopy
      <3>4. copies' \in [Map -> SUBSET Node]
        BY <3>1, <3>2 DEF MapTypes
      <3> QED BY <3>1, <3>2, <3>3, <3>4 DEF NodeTypes, MapTypes
    <2>2. RequestTypes'
      BY DEF ApplyCopy, RequestTypes
    <2>3. EndTypes'
      BY DEF ApplyCopy, EndTypes, PC, Outcome
    <2>4. ReduceTypes' /\ PlanTypes' /\ EnvTypes'
      BY DEF ApplyCopy, ReduceTypes, PlanTypes, EnvTypes
    <2> QED BY <2>1, <2>2, <2>3, <2>4
  <1>3. CASE StartPlanning(j)
    <2> USE <1>3
    <2>1. PlanTypes'
      BY <1>a DEF StartPlanning, Finish, PlanTypes, Caller
    <2>2. EndTypes'
      BY DEF StartPlanning, Finish, EndTypes, PC, Outcome
    <2>3. NodeTypes' /\ MapTypes' /\ ReduceTypes' /\ RequestTypes' /\
         EnvTypes'
      BY DEF StartPlanning, NodeTypes, MapTypes, ReduceTypes, RequestTypes,
         EnvTypes
    <2> QED BY <2>1, <2>2, <2>3
  <1>4. CASE SelectForPlan(j)
    <2> USE <1>4
    <2>1. PlanTypes'
      <3>1. UNCHANGED <<caller, fallen>>
        BY DEF SelectForPlan
      <3>2. PICK m \in todo[j] :
              \/ \E n \in selectNode(copies[m]) :
                    /\ sel' = [sel EXCEPT ![j] = n]
                    /\ cur' = [cur EXCEPT ![j] = m]
                    /\ UNCHANGED <<todo, drop>>
              \/ /\ drop' = [drop EXCEPT ![j] = Planned(j)]
                 /\ todo' = [todo EXCEPT ![j] = @ \ {m}]
                 /\ UNCHANGED <<cur, sel>>
        BY DEF SelectForPlan
      <3>3. m \in Map /\ selectNode(copies[m]) \in SUBSET Node
        BY <1>c DEF PlanTypes
      <3>4. cur' \in [Job -> Map \cup {NoMap}] /\ sel' \in [Job -> Node \cup {NoNode}]
        BY <3>2, <3>3 DEF PlanTypes
      <3>5. todo' \in [Job -> SUBSET Map] /\ drop' \in [Job -> SUBSET Map]
        BY <1>a, <3>2 DEF PlanTypes
      <3> QED BY <3>1, <3>4, <3>5 DEF PlanTypes
    <2>2. EndTypes'
      BY DEF SelectForPlan, EndTypes, PC, Outcome
    <2>3. NodeTypes' /\ MapTypes' /\ ReduceTypes' /\ RequestTypes' /\
         EnvTypes'
      BY DEF SelectForPlan, NodeTypes, MapTypes, ReduceTypes, RequestTypes,
         EnvTypes
    <2> QED BY <2>1, <2>2, <2>3
  <1>5. CASE PlanMap(j)
    <2> USE <1>5
    <2>1. NodeTypes'
      <3>1. BlockOf[cur[j]] \in Block /\ sel[j] \in Node /\ cur[j] \in Map
        BY MartaAssumption DEF MartaAssumption, Locals, LocalOK, PlanMap
      <3>2. AddMapNode(sel[j], BlockOf[cur[j]]) \in [Node -> [Block -> Nat]]
        BY <3>1, HelperTypes
      <3> QED BY <3>2 DEF PlanMap, NodeTypes
    <2>2. MapTypes' /\ PlanTypes'
      <3>1. sel[j] \in Node /\ cur[j] \in Map
        BY DEF Locals, LocalOK, PlanMap
      <3>2. /\ where' \in [Map -> Node \cup {NoNode}]
            /\ pending' \in SUBSET Map
            /\ UNCHANGED <<copies, done>>
        BY <3>1 DEF PlanMap, MapTypes
      <3>3. UNCHANGED <<caller, fallen>>
        BY DEF PlanMap
      <3>4. todo' \in [Job -> SUBSET Map]
        BY DEF PlanMap, PlanTypes
      <3>5. /\ cur' \in [Job -> Map \cup {NoMap}]
            /\ sel' \in [Job -> Node \cup {NoNode}]
        BY DEF PlanMap, PlanTypes
      <3>6. drop' \in [Job -> SUBSET Map]
        <4>1. \/ drop' = drop
              \/ drop' = [drop EXCEPT ![j] = Planned(j) \cup {cur[j]}]
          BY DEF PlanMap, Finish
        <4> QED BY <1>a, <3>1, <4>1 DEF PlanTypes
      <3> QED BY <3>2, <3>3, <3>4, <3>5, <3>6 DEF MapTypes, PlanTypes
    <2>3. EndTypes'
      BY DEF PlanMap, Finish, EndTypes, PC, Outcome
    <2>4. EnvTypes'
      BY DEF PlanMap, Faulty, EnvTypes
    <2>5. ReduceTypes' /\ RequestTypes'
      BY DEF PlanMap, ReduceTypes, RequestTypes
    <2> QED BY <2>1, <2>2, <2>3, <2>4, <2>5
  <1>6. CASE Unplan(j)
    <2> USE <1>6
    <2>1. NodeTypes'
      <3>1. load' \in [Node -> [Block -> Nat]]
        <4>1. drop[j] \subseteq Map
          BY DEF PlanTypes
        <4> QED BY <1>d, <4>1 DEF Unplan, NodeTypes
      <3> QED BY <3>1 DEF Unplan, NodeTypes
    <2>2. PlanTypes'
      BY DEF Unplan, PlanTypes, Caller
    <2>3. EndTypes'
      BY DEF Unplan, EndTypes, PC, Outcome
    <2>4. MapTypes' /\ ReduceTypes' /\ RequestTypes' /\ EnvTypes'
      BY DEF Unplan, MapTypes, ReduceTypes, RequestTypes, EnvTypes
    <2> QED BY <2>1, <2>2, <2>3, <2>4
  <1>7. CASE EndPlanning(j)
    <2> USE <1>7
    <2>1. EndTypes'
      BY <1>b DEF EndPlanning, EndTypes, PC, Outcome
    <2>2. NodeTypes' /\ MapTypes' /\ ReduceTypes' /\ RequestTypes' /\
         PlanTypes' /\ EnvTypes'
      BY DEF EndPlanning, NodeTypes, MapTypes, ReduceTypes, RequestTypes,
         PlanTypes, EnvTypes
    <2> QED BY <2>1, <2>2
  <1>8. CASE RecvMapResult(j)
    <2> USE <1>8
    <2>1. NodeTypes'
      <3>1. load' \in [Node -> [Block -> Nat]]
        <4>1. pending \subseteq Map
          BY DEF MapTypes
        <4> QED BY <1>d, <4>1 DEF RecvMapResult, NodeTypes
      <3> QED BY <3>1 DEF RecvMapResult, NodeTypes
    <2>2. PlanTypes'
      <3>1. cur' \in [Job -> Map \cup {NoMap}]
        BY DEF RecvMapResult, PlanTypes, MapTypes
      <3> QED BY <3>1 DEF RecvMapResult, PlanTypes
    <2>3. MapTypes'
      BY DEF RecvMapResult, MapTypes
    <2>4. EndTypes'
      BY DEF RecvMapResult, EndTypes, PC, Outcome
    <2>5. EnvTypes'
      BY DEF RecvMapResult, Faulty, EnvTypes
    <2>6. ReduceTypes' /\ RequestTypes'
      BY DEF RecvMapResult, ReduceTypes, RequestTypes
    <2> QED BY <2>1, <2>2, <2>3, <2>4, <2>5, <2>6
  <1>9. CASE DeactivateMapNode(j)
    <2> USE <1>9
    <2>1. NodeTypes'
      BY DEF DeactivateMapNode, deactivateNode, NodeTypes
    <2>2. RequestTypes'
      BY <1>a DEF DeactivateMapNode, RequestTypes
    <2>3. PlanTypes'
      BY DEF DeactivateMapNode, PlanTypes, Caller
    <2>4. EndTypes'
      BY DEF DeactivateMapNode, EndTypes, PC, Outcome
    <2>5. MapTypes' /\ ReduceTypes' /\ EnvTypes'
      BY DEF DeactivateMapNode, MapTypes, ReduceTypes, EnvTypes
    <2> QED BY <2>1, <2>2, <2>3, <2>4, <2>5
  <1>10. CASE Replan(j)
    <2> USE <1>10
    <2>1. MapTypes'
      <3>1. cur[j] \in Map
        BY DEF Locals, LocalOK, Replan
      <3>2. where' \in [Map -> Node \cup {NoNode}]
        BY <1>c, <3>1 DEF Replan, MapTypes
      <3>3. done' \in SUBSET Map /\ pending' \in SUBSET Map
        BY <3>1 DEF Replan, MapTypes
      <3> QED BY <3>2, <3>3 DEF Replan, MapTypes
    <2>2. PlanTypes'
      <3>1. drop' \in [Job -> SUBSET Map]
        BY <1>a DEF Replan, PlanTypes, Finish
      <3>2. cur' \in [Job -> Map \cup {NoMap}]
        BY DEF Replan, PlanTypes
      <3> QED BY <3>1, <3>2 DEF Replan, PlanTypes
    <2>3. RequestTypes'
      BY DEF Replan, RequestTypes
    <2>4. EndTypes'
      BY DEF Replan, AwaitOneMore, Finish, EndTypes, PC, Outcome
    <2>5. EnvTypes'
      BY DEF Replan, Faulty, EnvTypes
    <2>6. NodeTypes' /\ ReduceTypes'
      BY DEF Replan, NodeTypes, ReduceTypes
    <2> QED BY <2>1, <2>2, <2>3, <2>4, <2>5, <2>6
  <1>11. CASE RedoMap(j)
    <2> USE <1>11
    <2>1. RequestTypes'
      BY <1>a DEF RedoMap, RequestTypes
    <2>2. PlanTypes'
      BY DEF RedoMap, PlanTypes, Caller
    <2>3. EndTypes'
      BY DEF RedoMap, EndTypes, PC, Outcome
    <2>4. NodeTypes' /\ MapTypes' /\ ReduceTypes' /\ EnvTypes'
      BY DEF RedoMap, NodeTypes, MapTypes, ReduceTypes, EnvTypes
    <2> QED BY <2>1, <2>2, <2>3, <2>4
  <1>12. CASE NextFallen(j)
    <2> USE <1>12
    <2>1. PlanTypes'
      <3>1. todo' \in [Job -> SUBSET Map]
        BY <1>a DEF NextFallen, PlanTypes
      <3>2. fallen' = [fallen EXCEPT ![j] = Tail(@)] /\ fallen[j] # <<>>
        BY DEF NextFallen, PopFallen
      <3>3. fallen \in [Job -> Seq(Node)] /\ Tail(fallen[j]) \in Seq(Node)
        BY <3>2 DEF PlanTypes
      <3>4. fallen' \in [Job -> Seq(Node)]
        BY <3>2, <3>3
      <3> QED BY <3>1, <3>4 DEF NextFallen, PlanTypes
    <2>2. NodeTypes' /\ MapTypes' /\ ReduceTypes' /\ RequestTypes' /\
         EndTypes' /\ EnvTypes'
      BY DEF NextFallen, NodeTypes, MapTypes, ReduceTypes, RequestTypes,
         EndTypes, EnvTypes
    <2> QED BY <2>1, <2>2
  <1>13. CASE EndRedo(j)
    <2> USE <1>13
    <2>1. ReduceTypes'
      <3>1. UNCHANGED <<partials, temps>> \/ CleanReduces(j)
        BY DEF EndRedo
      <3>2. /\ partials' \in [Job -> [Node -> SUBSET Map]]
            /\ temps' \in [Job -> SUBSET ((SUBSET Map) \X Node)]
        BY <3>1 DEF CleanReduces, ReduceTypes
      <3> QED BY <3>2 DEF EndRedo, ReduceTypes
    <2>2. PlanTypes'
      BY <1>a DEF EndRedo, Finish, PlanTypes, Caller
    <2>3. EndTypes'
      BY DEF EndRedo, Finish, EndTypes, PC, Outcome
    <2>4. NodeTypes' /\ MapTypes' /\ RequestTypes' /\ EnvTypes'
      BY DEF EndRedo, NodeTypes, MapTypes, RequestTypes, EnvTypes
    <2> QED BY <2>1, <2>2, <2>3, <2>4
  <1>14. CASE PickFinal(j)
    <2> USE <1>14
    <2>1. ReduceTypes'
      <3>1. \/ UNCHANGED <<final, temps, notify>>
            \/ \E n \in active :
                 /\ final' = [final EXCEPT ![j] = n]
                 /\ temps' = [temps EXCEPT ![j] =
                                @ \cup {<<{m}, where[m]>> : m \in Planned(j)}]
                 /\ notify' = [notify EXCEPT ![j] = {<<"final", n>>}]
        BY DEF PickFinal
      <3>2. {<<{m}, where[m]>> : m \in Planned(j)} \in SUBSET ((SUBSET Map) \X Node)
        BY <1>a DEF Planned, MapTypes
      <3>3. active \subseteq Node
        BY DEF NodeTypes
      <3>4. final' \in [Job -> Node \cup {NoNode}]
        BY <3>1, <3>3 DEF ReduceTypes
      <3>5. temps' \in [Job -> SUBSET ((SUBSET Map) \X Node)]
        BY <3>1, <3>2 DEF ReduceTypes
      <3>6. notify' \in [Job -> SUBSET Reduce]
        BY <3>1, <3>3 DEF ReduceTypes, Reduce
      <3> QED BY <3>4, <3>5, <3>6 DEF PickFinal, ReduceTypes
    <2>2. PlanTypes'
      BY <1>a DEF PickFinal, Finish, PlanTypes, Caller
    <2>3. EndTypes'
      BY <1>b DEF PickFinal, Finish, EndTypes, PC, Outcome
    <2>4. NodeTypes' /\ MapTypes' /\ RequestTypes' /\ EnvTypes'
      BY DEF PickFinal, NodeTypes, MapTypes, RequestTypes, EnvTypes
    <2> QED BY <2>1, <2>2, <2>3, <2>4
  <1>15. CASE PlanPartials(j)
    <2> USE <1>15
    <2>1. ReduceTypes' /\ EndTypes'
      <3> DEFINE reduce == [n \in Node |-> partials[j][n] \cup PlannedOn(j, n)]
                 nodes == {n \in Node : reduce[n] # {}}
      <3>2. reduce \in [Node -> SUBSET Map]
        BY <1>a DEF ReduceTypes, PlannedOn
      <3>3. nodes \in SUBSET Node /\ Cardinality(nodes) \in Int
        BY NodesFinite
      <3>4. {"partial"} \X nodes \in SUBSET Reduce
        BY <3>3 DEF Reduce
      <3>5. /\ partials' = [partials EXCEPT ![j] = reduce]
            /\ notify' = [notify EXCEPT ![j] = {"partial"} \X nodes]
            /\ await' = [await EXCEPT ![j] = Cardinality(nodes)]
            /\ \/ pc' = [pc EXCEPT ![j] = "pickfinal"]
               \/ pc' = [pc EXCEPT ![j] = "notify"]
            /\ UNCHANGED <<final, temps, orders, outcome>>
        BY DEF PlanPartials
      <3> HIDE DEF reduce, nodes
      <3>6. partials' \in [Job -> [Node -> SUBSET Map]]
        BY <3>2, <3>5 DEF ReduceTypes
      <3>7. notify' \in [Job -> SUBSET Reduce]
        BY <3>4, <3>5 DEF ReduceTypes
      <3>8. EndTypes'
        BY <3>3, <3>5 DEF EndTypes, PC
      <3> QED BY <3>5, <3>6, <3>7, <3>8 DEF ReduceTypes
    <2>2. NodeTypes' /\ MapTypes' /\ RequestTypes' /\ PlanTypes' /\ EnvTypes'
      BY DEF PlanPartials, NodeTypes, MapTypes, RequestTypes, PlanTypes,
         EnvTypes
    <2> QED BY <2>1, <2>2
  <1>16. CASE notificarReduce(j)
    <2> USE <1>16
    <2>1. NodeTypes'
      <3>1. reduces' \in [Node -> Int]
        <4>1. notify[j] \subseteq Reduce
          BY DEF ReduceTypes
        <4> QED BY <4>1, HelperTypes DEF notificarReduce
      <3> QED BY <3>1 DEF notificarReduce, NodeTypes
    <2>2. ReduceTypes'
      BY DEF notificarReduce, ReduceTypes, Reduce
    <2>3. PlanTypes'
      <3>1. /\ drop' = drop \/ drop' = [drop EXCEPT ![j] = Planned(j)]
            /\ UNCHANGED <<caller, cur, sel, todo, fallen>>
        BY DEF notificarReduce, Finish
      <3> QED BY <1>a, <3>1 DEF PlanTypes
    <2>4. EndTypes'
      BY DEF notificarReduce, Finish, EndTypes, PC, Outcome
    <2>5. EnvTypes'
      BY DEF notificarReduce, Faulty, EnvTypes
    <2>6. MapTypes' /\ RequestTypes'
      BY DEF notificarReduce, MapTypes, RequestTypes
    <2> QED BY <2>1, <2>2, <2>3, <2>4, <2>5, <2>6
  <1>17. CASE RecvReduceResult(j)
    <2> USE <1>17
    <2>1. NodeTypes'
      <3>1. reduces' \in [Node -> Int]
        <4>1. orders[j] \subseteq Reduce
          BY DEF ReduceTypes
        <4> QED BY <4>1, HelperTypes DEF RecvReduceResult
      <3> QED BY <3>1 DEF RecvReduceResult, NodeTypes
    <2>2. PlanTypes'
      <3>1. orders[j] \subseteq Reduce /\ temps[j] \subseteq (SUBSET Map) \X Node
        BY DEF ReduceTypes
      <3>2. PICK o \in orders[j] :
              \/ sel' = sel
              \/ \E n \in {o[2]} \cup {t[2] : t \in temps[j]} :
                   sel' = [sel EXCEPT ![j] = n]
        BY DEF RecvReduceResult
      <3>3. o[2] \in Node /\ \A t \in temps[j] : t[2] \in Node
        BY <3>1 DEF Reduce
      <3>4. sel' \in [Job -> Node \cup {NoNode}]
        BY <3>2, <3>3 DEF PlanTypes
      <3> QED BY <3>4 DEF RecvReduceResult, PlanTypes
    <2>3. ReduceTypes'
      BY DEF RecvReduceResult, ReduceTypes, Reduce
    <2>4. EndTypes'
      BY DEF RecvReduceResult, EndTypes, PC, Outcome
    <2>5. EnvTypes'
      BY DEF RecvReduceResult, Faulty, EnvTypes
    <2>6. MapTypes' /\ RequestTypes'
      BY DEF RecvReduceResult, MapTypes, RequestTypes
    <2> QED BY <2>1, <2>2, <2>3, <2>4, <2>5, <2>6
  <1>18. CASE DeactivateReduceNode(j)
    <2> USE <1>18
    <2>1. PlanTypes'
      <3>1. sel[j] \in Node
        BY DEF Locals, LocalOK, DeactivateReduceNode, AddFallen
      <3>2. fallen' \in [Job -> Seq(Node)]
        BY <3>1 DEF DeactivateReduceNode, AddFallen, PlanTypes
      <3>3. todo' \in [Job -> SUBSET Map] /\ sel' \in [Job -> Node \cup {NoNode}]
        BY <1>a DEF DeactivateReduceNode, AddFallen, PlanTypes
      <3> QED BY <3>2, <3>3 DEF DeactivateReduceNode, AddFallen, PlanTypes
    <2>2. NodeTypes'
      BY DEF DeactivateReduceNode, deactivateNode, NodeTypes
    <2>3. EndTypes'
      BY DEF DeactivateReduceNode, EndTypes, PC, Outcome
    <2>4. MapTypes' /\ ReduceTypes' /\ RequestTypes' /\ EnvTypes'
      BY DEF DeactivateReduceNode, MapTypes, ReduceTypes, RequestTypes,
         EnvTypes
    <2> QED BY <2>1, <2>2, <2>3, <2>4
  <1>19. CASE PickCombinerFinal(j)
    <2> USE <1>19
    <2>1. ReduceTypes' /\ EndTypes'
      <3> DEFINE nodes == {n \in Node : partials[j][n] # {}}
                 files_ == {<<partials[j][k], k>> : k \in nodes}
      <3>1. \/ /\ UNCHANGED <<final, temps, notify, await, pc>>
            \/ /\ \E n \in selectNode(nodes) :
                    /\ final' = [final EXCEPT ![j] = n]
                    /\ notify' = [notify EXCEPT ![j] = {<<"final", n>>}]
               /\ temps' = [temps EXCEPT ![j] = @ \cup files_]
               /\ await' = [await EXCEPT ![j] = 1]
               /\ pc' = [pc EXCEPT ![j] = "notify"]
        BY DEF PickCombinerFinal
      <3>2. files_ \in SUBSET ((SUBSET Map) \X Node)
        BY DEF ReduceTypes
      <3>3. selectNode(nodes) \in SUBSET Node
        BY <1>c
      <3> HIDE DEF nodes, files_
      <3>4. final' \in [Job -> Node \cup {NoNode}]
        BY <3>1, <3>3 DEF ReduceTypes
      <3>5. temps' \in [Job -> SUBSET ((SUBSET Map) \X Node)]
        BY <3>1, <3>2 DEF ReduceTypes
      <3>6. notify' \in [Job -> SUBSET Reduce]
        BY <3>1, <3>3 DEF ReduceTypes, Reduce
      <3>7. EndTypes'
        BY <3>1 DEF PickCombinerFinal, EndTypes, PC
      <3> QED BY <3>4, <3>5, <3>6, <3>7 DEF PickCombinerFinal, ReduceTypes
    <2>2. EnvTypes'
      BY DEF PickCombinerFinal, EnvTypes
    <2>3. NodeTypes' /\ MapTypes' /\ RequestTypes' /\ PlanTypes'
      BY DEF PickCombinerFinal, NodeTypes, MapTypes, RequestTypes, PlanTypes
    <2> QED BY <2>1, <2>2, <2>3
  <1>20. CASE CopyFinal(j)
    <2> USE <1>20
    <2>1. PlanTypes'
      <3>1. final[j] \in Node
        BY DEF Locals, LocalOK, CopyFinal
      <3>2. fallen' \in [Job -> Seq(Node)]
        <4>1. <<final[j]>> \in Seq(Node)
          BY <3>1
        <4> QED BY <4>1 DEF CopyFinal, PlanTypes
      <3>3. todo' \in [Job -> SUBSET Map] /\ drop' \in [Job -> SUBSET Map]
        BY <1>a DEF CopyFinal, PlanTypes, Finish
      <3> QED BY <3>2, <3>3 DEF CopyFinal, PlanTypes
    <2>2. EndTypes'
      BY DEF CopyFinal, Finish, EndTypes, PC, Outcome
    <2>3. EnvTypes'
      BY DEF CopyFinal, Faulty, EnvTypes
    <2>4. NodeTypes' /\ MapTypes' /\ ReduceTypes' /\ RequestTypes'
      BY DEF CopyFinal, NodeTypes, MapTypes, ReduceTypes, RequestTypes
    <2> QED BY <2>1, <2>2, <2>3, <2>4
  <1>21. CASE JobLost(j)
    <2> USE <1>21
    <2>1. PlanTypes'
      BY <1>a DEF JobLost, Finish, PlanTypes, Caller
    <2>2. EndTypes'
      BY DEF JobLost, Finish, EndTypes, PC, Outcome
    <2>3. EnvTypes'
      BY DEF JobLost, Faulty, EnvTypes
    <2>4. NodeTypes' /\ MapTypes' /\ ReduceTypes' /\ RequestTypes'
      BY DEF JobLost, NodeTypes, MapTypes, ReduceTypes, RequestTypes
    <2> QED BY <2>1, <2>2, <2>3, <2>4
  <1>22. CASE FreeMap(j)
    <2> USE <1>22
    <2>1. NodeTypes'
      <3>1. load' \in [Node -> [Block -> Nat]]
        <4>1. drop[j] \subseteq Map
          BY DEF PlanTypes
        <4> QED BY <1>d, <4>1 DEF FreeMap, NodeTypes
      <3> QED BY <3>1 DEF FreeMap, NodeTypes
    <2>2. MapTypes'
      BY DEF FreeMap, MapTypes
    <2>3. PlanTypes'
      BY DEF FreeMap, PlanTypes, Caller
    <2>4. ReduceTypes' /\ RequestTypes' /\ EndTypes' /\ EnvTypes'
      BY DEF FreeMap, ReduceTypes, RequestTypes, EndTypes, EnvTypes
    <2> QED BY <2>1, <2>2, <2>3, <2>4
  <1>23. CASE EndJob(j)
    <2> USE <1>23
    <2>1. ReduceTypes'
      BY DEF EndJob, CleanReduces, ReduceTypes, Reduce
    <2>2. PlanTypes'
      BY DEF EndJob, PlanTypes, Caller
    <2>3. EndTypes'
      BY DEF EndJob, EndTypes, PC, Outcome
    <2>4. NodeTypes' /\ MapTypes' /\ RequestTypes' /\ EnvTypes'
      BY DEF EndJob, NodeTypes, MapTypes, RequestTypes, EnvTypes
    <2> QED BY <2>1, <2>2, <2>3, <2>4
  <1> QED BY <1>1, <1>2, <1>3, <1>4, <1>5, <1>6, <1>7, <1>8, <1>9, <1>10,
             <1>11, <1>12, <1>13, <1>14, <1>15, <1>16, <1>17, <1>18, <1>19,
             <1>20, <1>21,
         <1>22,
         <1>23 DEF Thread

\* Every step of a thread keeps what its local variables hold.
LEMMA ThreadLocals ==
    ASSUME TypeOK, Locals, NEW j \in Job, Thread(j)
    PROVE  Locals'
  <1> SUFFICES ASSUME NEW k \in Job
               PROVE  LocalOK(k)'
    BY DEF Locals
  <1> USE DEF Locals, LocalOK, TypeOK, Goto, planVars, redVars
  <1>a. /\ pc \in [Job -> PC] /\ caller \in [Job -> Caller]
        /\ cur \in [Job -> Map \cup {NoMap}]
        /\ sel \in [Job -> Node \cup {NoNode}]
        /\ final \in [Job -> Node \cup {NoNode}]
        /\ notify \in [Job -> SUBSET Reduce] /\ orders \in [Job -> SUBSET Reduce]
    BY DEF EndTypes, PlanTypes, ReduceTypes
  <1>1. CASE RequestFile(j)
    BY <1>a, <1>1 DEF RequestFile
  <1>2. CASE ApplyCopy(j)
    BY <1>a, <1>2 DEF ApplyCopy
  <1>3. CASE StartPlanning(j)
    BY <1>a, <1>3 DEF StartPlanning, Finish
  <1>4. CASE SelectForPlan(j)
    <2>1. \A S : selectNode(S) \in SUBSET Node
      BY HelperTypes
    <2>2. todo[j] \subseteq Map
      BY DEF PlanTypes
    <2> QED BY <1>a, <1>4, <2>1, <2>2 DEF SelectForPlan
  <1>5. CASE PlanMap(j)
    BY <1>a, <1>5 DEF PlanMap, Finish
  <1>6. CASE Unplan(j)
    BY <1>a, <1>6 DEF Unplan
  <1>7. CASE EndPlanning(j)
    BY <1>a, <1>7 DEF EndPlanning
  <1>8. CASE RecvMapResult(j)
    BY <1>a, <1>8 DEF RecvMapResult, MapTypes
  <1>9. CASE DeactivateMapNode(j)
    BY <1>a, <1>9 DEF DeactivateMapNode
  <1>10. CASE Replan(j)
    BY <1>a, <1>10 DEF Replan, Finish
  <1>11. CASE RedoMap(j)
    BY <1>a, <1>11 DEF RedoMap, PlanTypes
  <1>12. CASE NextFallen(j)
    BY <1>a, <1>12 DEF NextFallen
  <1>13. CASE EndRedo(j)
    BY <1>a, <1>13 DEF EndRedo, Finish
  <1>14. CASE PickFinal(j)
    BY <1>a, <1>14 DEF PickFinal, Finish, NodeTypes
  <1>15. CASE PlanPartials(j)
    BY <1>a, <1>15 DEF PlanPartials
  <1>16. CASE notificarReduce(j)
    BY <1>a, <1>16 DEF notificarReduce, Finish
  <1>17. CASE RecvReduceResult(j)
    <2>1. \A t \in temps[j] : t[2] \in Node
      BY DEF ReduceTypes
    <2>2. PICK o \in orders[j] :
            /\ orders' = [orders EXCEPT ![j] = @ \ {o}]
            /\ \/ /\ Goto(j, IF await[j] > 1 THEN "waitred"
                              ELSE IF o[1] = "final" THEN "copy"
                              ELSE IF fallen[j] = <<>> THEN "pickfinal" ELSE "redo")
                  /\ UNCHANGED sel
               \/ /\ \E n \in {o[2]} \cup {t[2] : t \in temps[j]} :
                        sel' = [sel EXCEPT ![j] = n]
                  /\ Goto(j, "deactred")
      BY <1>17 DEF RecvReduceResult
    <2>3. o[2] \in Node
      BY <1>a, <2>2 DEF Reduce
    <2>4. pc[j] = "waitred" /\ UNCHANGED <<final, notify, caller, cur>>
      BY <1>17 DEF RecvReduceResult
    <2> QED BY <1>a, <2>1, <2>2, <2>3, <2>4
  <1>18. CASE DeactivateReduceNode(j)
    BY <1>a, <1>18 DEF DeactivateReduceNode
  <1>19. CASE PickCombinerFinal(j)
    <2>1. \A S : selectNode(S) \in SUBSET Node
      BY HelperTypes
    <2>2. \/ UNCHANGED <<final, notify, pc>>
          \/ /\ \E n \in Node : final' = [final EXCEPT ![j] = n]
             /\ pc' = [pc EXCEPT ![j] = "notify"]
      BY <1>19, <2>1 DEF PickCombinerFinal
    <2>3. UNCHANGED <<orders, caller, cur, sel>>
      BY <1>19 DEF PickCombinerFinal
    <2>4. \A o \in notify'[k] : o \in notify[k] \/ (k = j /\ pc'[j] = "notify")
      BY <1>a, <1>19 DEF PickCombinerFinal
    <2> QED BY <1>a, <2>2, <2>3, <2>4
  <1>20. CASE CopyFinal(j)
    BY <1>a, <1>20 DEF CopyFinal, Finish
  <1>21. CASE JobLost(j)
    BY <1>a, <1>21 DEF JobLost, Finish
  <1>22. CASE FreeMap(j)
    BY <1>a, <1>22 DEF FreeMap
  <1>23. CASE EndJob(j)
    BY <1>a, <1>23 DEF EndJob
  <1> QED BY <1>1, <1>2, <1>3, <1>4, <1>5, <1>6, <1>7, <1>8, <1>9, <1>10,
             <1>11, <1>12, <1>13, <1>14, <1>15, <1>16, <1>17, <1>18, <1>19,
             <1>20, <1>21, <1>22,
         <1>23 DEF Thread

\* The threads start in acceptJob with the types and the local variables they
\* are declared with.
LEMMA InitTypes == Init => TypeOK /\ Locals
  <1> SUFFICES ASSUME Init PROVE TypeOK /\ Locals
    OBVIOUS
  <1>1. TypeOK
    <2>1. NodeTypes /\ MapTypes
      BY DEF Init, NodeTypes, MapTypes
    <2>2. ReduceTypes
      BY DEF Init, ReduceTypes
    <2>3. RequestTypes
      BY MartaAssumption DEF MartaAssumption, Init, RequestTypes, FilesOf,
         MapsOf
    <2>4. fallen \in [Job -> Seq(Node)]
      <3>1. <<>> \in Seq(Node)
        OBVIOUS
      <3> QED BY <3>1 DEF Init
    <2>5. PlanTypes
      BY <2>4 DEF Init, PlanTypes, Caller, MapsOf
    <2>6. EndTypes
      BY DEF Init, EndTypes, PC, Outcome
    <2>7. EnvTypes
      BY MartaAssumption DEF MartaAssumption, Init, EnvTypes
    <2> QED BY <2>1, <2>2, <2>3, <2>5, <2>6, <2>7 DEF TypeOK
  <1>2. Locals
    BY DEF Init, Locals, LocalOK
  <1> QED BY <1>1, <1>2

\* A step of a thread, of a node that drops or returns, or of the listening
\* socket keeps them.
LEMMA StepTypes == TypeOK /\ Locals /\ [Next]_vars => TypeOK' /\ Locals'
  <1> SUFFICES ASSUME TypeOK, Locals, [Next]_vars
               PROVE  TypeOK' /\ Locals'
    OBVIOUS
  <1> USE DEF nodeVars, mapVars, redVars, reqVars, planVars, endVars, envVars
  <1>1. CASE \E j \in Job : Thread(j)
    BY <1>1, ThreadTypes, ThreadLocals
  <1>2. CASE NodeDrops
    BY <1>2 DEF NodeDrops, Faulty, TypeOK, NodeTypes, MapTypes, ReduceTypes,
       RequestTypes, PlanTypes, EndTypes, EnvTypes, Locals, LocalOK
  <1>3. CASE NodeReturns
    BY <1>3 DEF NodeReturns, TypeOK, NodeTypes, MapTypes, ReduceTypes,
       RequestTypes, PlanTypes, EndTypes, EnvTypes, Locals, LocalOK
  <1>4. CASE UNCHANGED vars
    BY <1>4 DEF vars, TypeOK, NodeTypes, MapTypes, ReduceTypes, RequestTypes,
       PlanTypes, EndTypes, EnvTypes, Locals, LocalOK
  <1> QED BY <1>1, <1>2, <1>3, <1>4 DEF Next, Waiting

\* Every variable of MaRTA always has its type; no thread uses a map or a node
\* it has not got.
THEOREM TypeCorrect == Spec => []TypeOK /\ []Locals
  <1>1. Init => TypeOK /\ Locals
    BY InitTypes
  <1>2. TypeOK /\ Locals /\ [Next]_vars => TypeOK' /\ Locals'
    BY StepTypes
  <1> QED BY <1>1, <1>2, PTL DEF Spec
----------------------------------------------------------------------------
\* The phases of a thread: it plans the job's maps, it has a map to order
\* again, it awaits results of maps, it plans and awaits the reduces.
Replans(j, who) == pc[j] \in {"request", "apply"} /\ caller[j] = who
Planning(j)     == pc[j] \in {"plan", "add", "unplan"} \/ Replans(j, "plan")
HasMap(j)       == pc[j] = "deact" \/ Replans(j, "result") \/ Replans(j, "redo")
Mapping(j)      == pc[j] \in {"wait", "deact"} \/ Replans(j, "result")
Redoing(j)      == pc[j] = "redo" \/ Replans(j, "redo")
Reducing(j)     == pc[j] \in {"pick", "notify", "waitred", "deactred",
                              "pickfinal", "copy"}

\* The maps of a job: a thread only touches maps of its own job; until the
\* results are awaited the orders are the planned
\* maps; a map is ordered again only when its order has been answered; while
\* the reduces are planned and run no map is ordered.
MapBook(j) ==
    /\ todo[j] \subseteq MapsOf(j) /\ drop[j] \subseteq MapsOf(j)
    /\ Planning(j) => /\ todo[j] \cap Planned(j) = {}
                      /\ pending \cap MapsOf(j) = Planned(j)
    /\ pc[j] = "add" => cur[j] \in todo[j]
    /\ HasMap(j) => cur[j] \in MapsOf(j) \ pending
    /\ Mapping(j) => await[j] = Cardinality(pending \cap MapsOf(j))
    /\ Redoing(j) \/ Reducing(j) => pending \cap MapsOf(j) = {}

\* The reduces of a job: what is awaited is what is to be ordered and what is
\* ordered, and nothing is either while the maps run.
ReduceBook(j) ==
    /\ Planning(j) \/ Mapping(j) \/ Redoing(j)
         \/ pc[j] \in {"pick", "pickfinal", "copy"} => notify[j] = {} /\ orders[j] = {}
    /\ pc[j] = "notify" =>
         /\ notify[j] \cap orders[j] = {}
         /\ await[j] = Cardinality(notify[j]) + Cardinality(orders[j])
    /\ pc[j] \in {"waitred", "deactred"} =>
         notify[j] = {} /\ await[j] = Cardinality(orders[j])
    /\ Redoing(j) \/ pc[j] = "copy" => await[j] = 0

Books == \A j \in Job : MapBook(j) /\ ReduceBook(j)

----------------------------------------------------------------------------
\* One map more or less in a set of maps.
LEMMA MapCount ==
    ASSUME NEW S \in SUBSET Map, NEW m \in Map
    PROVE  /\ Cardinality(S) \in Nat
           /\ m \in S => Cardinality(S \ {m}) = Cardinality(S) - 1
           /\ m \notin S => Cardinality(S \cup {m}) = Cardinality(S) + 1
           /\ Cardinality(S) = 0 <=> S = {}
  BY MapsFinite, FS_AddElement, FS_RemoveElement, FS_EmptySet

\* Reduces are finitely many.
LEMMA ReducesFinite ==
    ASSUME NEW S \in SUBSET Reduce
    PROVE  IsFiniteSet(S) /\ Cardinality(S) \in Nat
  <1>1. IsFiniteSet({"partial", "final"}) /\ IsFiniteSet(Node)
    <2>1. IsFiniteSet({"partial"})
      BY FS_Singleton
    <2>2. {"partial", "final"} = {"partial"} \cup {"final"}
      OBVIOUS
    <2>3. IsFiniteSet({"partial"} \cup {"final"})
      BY <2>1, FS_AddElement
    <2> QED BY <2>2, <2>3, MartaAssumption DEF MartaAssumption
  <1>2. IsFiniteSet(Reduce)
    BY <1>1, FS_Product DEF Reduce
  <1> QED BY <1>2, FS_Subset, FS_CardinalityType

\* One reduce more or less in a set of reduces.
LEMMA ReduceCount ==
    ASSUME NEW S \in SUBSET Reduce, NEW o \in Reduce
    PROVE  /\ Cardinality(S) \in Nat
           /\ o \in S => Cardinality(S \ {o}) = Cardinality(S) - 1
           /\ o \notin S => Cardinality(S \cup {o}) = Cardinality(S) + 1
           /\ Cardinality(S) = 0 <=> S = {}
  BY ReducesFinite, FS_AddElement, FS_RemoveElement, FS_EmptySet

\* A step of a thread leaves the books of the other jobs alone.
LEMMA OtherBooks ==
    ASSUME TypeOK, Books, NEW j \in Job, Thread(j), NEW k \in Job \ {j}
    PROVE  MapBook(k)' /\ ReduceBook(k)'
  <1> USE DEF Goto, Finish, AwaitOneMore, PopFallen, AddFallen, mapVars, redVars, planVars,
              endVars
  <1>a. MapsOf(j) \cap MapsOf(k) = {}
    BY DEF MapsOf
  <1>b. MapBook(j)
    BY DEF Books
  <1>1. pc'[k] = pc[k]
    BY DEF Thread, TypeOK, EndTypes, RequestFile, ApplyCopy, StartPlanning,
       SelectForPlan, PlanMap, Unplan,
       EndPlanning, RecvMapResult, DeactivateMapNode, Replan, RedoMap,
       NextFallen, EndRedo, PickFinal, PlanPartials, notificarReduce,
       RecvReduceResult, DeactivateReduceNode, PickCombinerFinal, CopyFinal,
       JobLost, FreeMap, EndJob
  <1>2. /\ notify'[k] = notify[k] /\ orders'[k] = orders[k]
        /\ await'[k] = await[k]
    BY DEF Thread, TypeOK, EndTypes, ReduceTypes, RequestFile, ApplyCopy,
       StartPlanning, SelectForPlan, PlanMap, Unplan,
       EndPlanning, RecvMapResult, DeactivateMapNode, Replan, RedoMap,
       NextFallen, EndRedo, PickFinal, PlanPartials, notificarReduce,
       RecvReduceResult, DeactivateReduceNode, PickCombinerFinal, CopyFinal,
       JobLost, FreeMap, EndJob
  <1>3. /\ caller'[k] = caller[k] /\ cur'[k] = cur[k]
        /\ todo'[k] = todo[k] /\ drop'[k] = drop[k]
    BY DEF Thread, TypeOK, PlanTypes, RequestFile, ApplyCopy, StartPlanning,
       SelectForPlan, PlanMap, Unplan,
       EndPlanning, RecvMapResult, DeactivateMapNode, Replan, RedoMap,
       NextFallen, EndRedo, PickFinal, PlanPartials, notificarReduce,
       RecvReduceResult, DeactivateReduceNode, PickCombinerFinal, CopyFinal,
       JobLost, FreeMap, EndJob
  <1>4. pending' \cap MapsOf(k) = pending \cap MapsOf(k)
    <2>1. CASE PlanMap(j)
      BY <2>1, <1>a, <1>b DEF PlanMap, MapBook
    <2>2. CASE RecvMapResult(j)
      BY <2>2, <1>a DEF RecvMapResult
    <2>3. CASE Replan(j)
      BY <2>3, <1>a, <1>b DEF Replan, MapBook, HasMap, Replans, TypeOK,
         PlanTypes,
         Caller
    <2>4. CASE FreeMap(j)
      BY <2>4, <1>a, <1>b DEF FreeMap, MapBook
    <2>5. CASE pending' = pending
      BY <2>5
    <2> QED BY <2>1, <2>2, <2>3, <2>4, <2>5 DEF Thread, RequestFile,
               ApplyCopy, StartPlanning, SelectForPlan, Unplan, EndPlanning,
            DeactivateMapNode, RedoMap, NextFallen, EndRedo, PickFinal,
            PlanPartials, notificarReduce, RecvReduceResult,
            DeactivateReduceNode, PickCombinerFinal, CopyFinal, JobLost,
            EndJob
  <1>5. Planned(k)' = Planned(k)
    <2>1. CASE PlanMap(j)
      BY <2>1, <1>a, <1>b DEF PlanMap, MapBook, Planned, TypeOK, MapTypes
    <2>2. CASE Replan(j)
      <3>1. cur[j] \in MapsOf(j)
        BY <2>2, <1>b DEF Replan, MapBook, HasMap, Replans, TypeOK, PlanTypes,
           Caller
      <3>2. \A m \in MapsOf(k) : where'[m] = where[m]
        BY <2>2, <1>a, <3>1 DEF Replan, TypeOK, MapTypes, MapsOf
      <3> QED BY <3>2 DEF Planned
    <2>3. CASE where' = where
      BY <2>3 DEF Planned
    <2> QED BY <2>1, <2>2, <2>3 DEF Thread, RequestFile, ApplyCopy,
               StartPlanning, SelectForPlan, Unplan, EndPlanning,
            RecvMapResult, DeactivateMapNode, RedoMap, NextFallen, EndRedo,
            PickFinal, PlanPartials, notificarReduce, RecvReduceResult,
            DeactivateReduceNode, PickCombinerFinal, CopyFinal, JobLost,
            FreeMap, EndJob
  <1>6. MapBook(k) /\ ReduceBook(k)
    BY DEF Books
  <1> QED BY <1>1, <1>2, <1>3, <1>4, <1>5, <1>6 DEF MapBook, ReduceBook,
             Planning,
          HasMap, Mapping, Redoing, Reducing, Replans

\* A step of a thread keeps the books of its own job.
LEMMA OwnBooks ==
    ASSUME TypeOK, TypeOK', Locals, Books, NEW j \in Job, Thread(j)
    PROVE  MapBook(j)' /\ ReduceBook(j)'
  <1> USE DEF MapBook, ReduceBook, Planning, HasMap, Mapping, Redoing, Reducing,
              Replans, Goto, Finish, mapVars, redVars, planVars, endVars
  <1>a. MapBook(j) /\ ReduceBook(j)
    BY DEF Books
  <1>b. /\ pc \in [Job -> PC] /\ await \in [Job -> Int]
        /\ caller \in [Job -> Caller] /\ cur \in [Job -> Map \cup {NoMap}]
        /\ todo \in [Job -> SUBSET Map] /\ drop \in [Job -> SUBSET Map]
        /\ notify \in [Job -> SUBSET Reduce] /\ orders \in [Job -> SUBSET Reduce]
        /\ where \in [Map -> Node \cup {NoNode}]
        /\ pending \in SUBSET Map
    BY DEF TypeOK, EndTypes, PlanTypes, ReduceTypes, MapTypes
  <1>c. Planned(j) \subseteq MapsOf(j) /\ MapsOf(j) \subseteq Map
    BY DEF Planned, MapsOf
  <1>1. CASE RequestFile(j)
    <2>1. Planned(j)' = Planned(j)
      BY <1>1 DEF RequestFile, Planned
    <2> QED BY <1>a, <1>b, <1>c, <1>1, <2>1 DEF RequestFile, Caller
  <1>2. CASE ApplyCopy(j)
    <2>1. Planned(j)' = Planned(j)
      BY <1>2 DEF ApplyCopy, Planned
    <2> QED BY <1>a, <1>b, <1>c, <1>2, <2>1 DEF ApplyCopy, Caller
  <1>3. CASE StartPlanning(j)
    <2>1. Planned(j)' = Planned(j)
      BY <1>3 DEF StartPlanning, Planned
    <2> QED BY <1>a, <1>b, <1>c, <1>3, <2>1 DEF StartPlanning, Caller
  <1>4. CASE SelectForPlan(j)
    <2>1. Planned(j)' = Planned(j)
      BY <1>4 DEF SelectForPlan, Planned
    <2> QED BY <1>a, <1>b, <1>c, <1>4, <2>1 DEF SelectForPlan, Caller
  <1>5. CASE PlanMap(j)
    <2> USE <1>5
    <2>1. cur[j] \in todo[j] /\ cur[j] \in MapsOf(j) /\ cur[j] \notin Planned(j)
          /\ sel[j] \in Node /\ pc[j] = "add" /\ notify[j] = {} /\ orders[j] = {}
      BY <1>a DEF PlanMap, Locals, LocalOK
    <2>2. where' = [where EXCEPT ![cur[j]] = sel[j]] /\ pending' = pending \cup {cur[j]}
          /\ todo'[j] = todo[j] \ {cur[j]} /\ UNCHANGED <<notify, orders, caller, await>>
      BY <1>b DEF PlanMap
    <2>3. Planned(j)' = Planned(j) \cup {cur[j]}
      <3>1. sel[j] # NoNode
        BY <2>1, MartaAssumption DEF MartaAssumption
      <3> QED BY <1>b, <1>c, <2>1, <2>2, <3>1 DEF Planned
    <2>4. pending' \cap MapsOf(j) = Planned(j)' /\ todo'[j] \cap Planned(j)' = {}
      BY <1>a, <2>1, <2>2, <2>3
    <2>5. pc'[j] \in {"plan", "free"} /\ drop'[j] \subseteq MapsOf(j)
      BY <1>a, <1>b, <1>c, <2>1 DEF PlanMap
    <2> QED BY <1>a, <2>1, <2>2, <2>4, <2>5
  <1>6. CASE Unplan(j)
    <2>1. Planned(j)' = Planned(j)
      BY <1>6 DEF Unplan, Planned
    <2> QED BY <1>a, <1>b, <1>c, <1>6, <2>1 DEF Unplan, Caller
  <1>7. CASE EndPlanning(j)
    <2>1. Planned(j)' = Planned(j)
      BY <1>7 DEF EndPlanning, Planned
    <2> QED BY <1>a, <1>b, <1>c, <1>7, <2>1 DEF EndPlanning, Caller
  <1>8. CASE RecvMapResult(j)
    <2>1. PICK m \in pending \cap MapsOf(j) :
            /\ pending' = pending \ {m}
            /\ await' = [await EXCEPT ![j] = @ - 1]
            /\ \/ Goto(j, IF await[j] > 1 THEN "wait"
                          ELSE IF fallen[j] = <<>> THEN "pick" ELSE "redo")
               \/ cur' = [cur EXCEPT ![j] = m] /\ Goto(j, "deact")
      BY <1>8 DEF RecvMapResult
    <2>2. pc[j] = "wait" /\ UNCHANGED <<where, caller, todo, drop, notify, orders>>
      BY <1>8 DEF RecvMapResult
    <2> DEFINE own == pending \cap MapsOf(j)
    <2>3. own \in SUBSET Map /\ m \in own /\ pending' \cap MapsOf(j) = own \ {m}
      BY <1>b, <2>1
    <2>4. await[j] = Cardinality(own) /\ notify[j] = {} /\ orders[j] = {}
      BY <1>a, <2>2
    <2>5. /\ Cardinality(own \ {m}) = Cardinality(own) - 1
          /\ Cardinality(own) \in Nat
          /\ Cardinality(own \ {m}) = 0 <=> own \ {m} = {}
          /\ Cardinality(own) # 0
      BY <2>3, MapCount
    <2>6. await'[j] = Cardinality(own \ {m})
      BY <1>b, <2>1, <2>4, <2>5
    <2>7. await[j] <= 1 => own \ {m} = {} /\ await'[j] = 0
      BY <1>b, <2>4, <2>5, <2>6
    <2> HIDE DEF own
    <2>8. pending' \cap MapsOf(j) = own \ {m}
      BY <2>3
    <2>9. CASE pc' = [pc EXCEPT ![j] = "wait"]
      BY <1>a, <1>b, <2>2, <2>4, <2>6, <2>8, <2>9
    <2>10. CASE pc' = [pc EXCEPT ![j] = "pick"] /\ await[j] <= 1
      BY <1>a, <1>b, <2>2, <2>4, <2>7, <2>8, <2>10
    <2>11. CASE pc' = [pc EXCEPT ![j] = "redo"] /\ await[j] <= 1
      BY <1>a, <1>b, <2>2, <2>4, <2>7, <2>8, <2>11
    <2>12. CASE pc' = [pc EXCEPT ![j] = "deact"] /\ cur' = [cur EXCEPT ![j] = m]
      BY <1>a, <1>b, <2>1, <2>2, <2>4, <2>6, <2>8, <2>12
    <2>13. await[j] \in Int
      BY <1>b
    <2> QED BY <2>1, <2>9, <2>10, <2>11, <2>12, <2>13
  <1>9. CASE DeactivateMapNode(j)
    <2>1. Planned(j)' = Planned(j)
      BY <1>9 DEF DeactivateMapNode, Planned
    <2> QED BY <1>a, <1>b, <1>c, <1>9, <2>1 DEF DeactivateMapNode, Caller
  <1>10. CASE Replan(j)
    <2> USE <1>10
    <2>1. pc[j] = "request" /\ HasMap(j) /\ cur[j] \in MapsOf(j) \ pending
          /\ notify[j] = {} /\ orders[j] = {}
      BY <1>a, <1>b DEF Replan, Caller
    <2>2. UNCHANGED <<caller, todo, notify, orders>> /\ drop'[j] \subseteq MapsOf(j)
      BY <1>a, <1>b, <1>c DEF Replan
    <2>3. CASE pc' = [pc EXCEPT ![j] = "free"]
      BY <1>a, <1>b, <2>2, <2>3
    <2>4. CASE pc' = [pc EXCEPT ![j] = "redo"] /\ caller[j] = "redo"
               /\ UNCHANGED <<pending, await>>
      BY <1>a, <1>b, <2>1, <2>2, <2>4
    <2>5. CASE pc' = [pc EXCEPT ![j] = "wait"] /\ pending' = pending \cup {cur[j]}
               /\ await' = [await EXCEPT ![j] = @ + 1]
      <3> DEFINE own == pending \cap MapsOf(j)
      <3>1. own \in SUBSET Map /\ cur[j] \in Map /\ cur[j] \notin own
            /\ pending' \cap MapsOf(j) = own \cup {cur[j]}
        BY <1>b, <1>c, <2>1, <2>5
      <3>2. Cardinality(own \cup {cur[j]}) = Cardinality(own) + 1
        BY <3>1, MapCount
      <3>3. await[j] = Cardinality(own)
        <4>1. CASE caller[j] = "result"
          BY <1>a, <2>1, <4>1
        <4>2. CASE caller[j] = "redo"
          BY <1>a, <2>1, <4>2, FS_EmptySet
        <4> QED BY <1>b, <4>1, <4>2 DEF Replan, Caller
      <3>4. await'[j] = Cardinality(pending' \cap MapsOf(j))
        BY <1>b, <2>5, <3>1, <3>2, <3>3
      <3>5. todo'[j] \subseteq MapsOf(j)
        BY <1>a, <2>2
      <3> QED BY <1>b, <2>1, <2>2, <2>5, <3>4, <3>5
    <2> QED BY <2>3, <2>4, <2>5 DEF Replan, AwaitOneMore
  <1>11. CASE RedoMap(j)
    <2>1. Planned(j)' = Planned(j)
      BY <1>11 DEF RedoMap, Planned
    <2> QED BY <1>a, <1>b, <1>c, <1>11, <2>1 DEF RedoMap, Caller
  <1>12. CASE NextFallen(j)
    <2>1. Planned(j)' = Planned(j)
      BY <1>12 DEF NextFallen, Planned
    <2> QED BY <1>a, <1>b, <1>c, <1>12, <2>1 DEF NextFallen, PopFallen, Caller
  <1>13. CASE EndRedo(j)
    <2>1. Planned(j)' = Planned(j)
      BY <1>13 DEF EndRedo, Planned
    <2> QED BY <1>a, <1>b, <1>c, <1>13, <2>1 DEF EndRedo, Caller
  <1>14. CASE PickFinal(j)
    <2> USE <1>14
    <2>1. UNCHANGED <<where, pending, orders, caller, todo>> /\ pc[j] = "pick"
      BY DEF PickFinal
    <2>2. drop'[j] \subseteq MapsOf(j)
      BY <1>a, <1>b, <1>c DEF PickFinal
    <2>3. CASE \E n \in active : /\ pc' = [pc EXCEPT ![j] = "notify"]
                                 /\ notify' = [notify EXCEPT ![j] = {<<"final", n>>}]
                                 /\ await' = [await EXCEPT ![j] = 1]
      <3>1. PICK n \in active : notify'[j] = {<<"final", n>>}
        BY <1>b, <2>3
      <3>2. Cardinality(notify'[j]) = 1 /\ Cardinality(orders[j]) = 0
        BY <1>a, <2>1, <3>1, FS_Singleton, FS_EmptySet
      <3>3. await'[j] = 1 /\ pc'[j] = "notify"
        BY <1>b, <2>3
      <3> QED BY <1>a, <2>1, <2>2, <3>2, <3>3
    <2>4. CASE pc' = [pc EXCEPT ![j] = "free"]
      BY <1>a, <1>b, <2>1, <2>2, <2>4
    <2> QED BY <2>3, <2>4 DEF PickFinal
  <1>15. CASE PlanPartials(j)
    <2> DEFINE nodes == {n \in Node : partials[j][n] \cup PlannedOn(j, n) # {}}
    <2>1. /\ notify'[j] = {"partial"} \X nodes
          /\ await'[j] = Cardinality(nodes)
          /\ pc'[j] = IF nodes = {} THEN "pickfinal" ELSE "notify"
          /\ UNCHANGED <<where, pending, orders, caller, todo, drop>>
          /\ pc[j] = "pick"
      <3>1. {n \in Node : [k \in Node |-> partials[j][k] \cup PlannedOn(j, k)][n] # {}} = nodes
        OBVIOUS
      <3> HIDE DEF nodes
      <3> QED BY <1>b, <1>15, <3>1 DEF PlanPartials
    <2>2. IsFiniteSet(nodes) /\ Cardinality(nodes) \in Nat
      BY NodesFinite
    <2> HIDE DEF nodes
    <2>3. Cardinality({"partial"} \X nodes) = Cardinality(nodes)
      <3>1. Cardinality({"partial"}) = 1 /\ IsFiniteSet({"partial"})
        BY FS_Singleton
      <3> QED BY <2>2, <3>1, FS_Product
    <2>4. orders[j] = {} /\ Cardinality(orders[j]) = 0
      BY <1>a, <2>1, FS_EmptySet
    <2>5. nodes = {} => {"partial"} \X nodes = {}
      OBVIOUS
    <2> QED BY <1>a, <2>1, <2>2, <2>3, <2>4, <2>5
  <1>16. CASE notificarReduce(j)
    <2>1. PICK o \in notify[j] :
            /\ orders' = [orders EXCEPT ![j] = @ \cup {o}]
            /\ notify' = [notify EXCEPT ![j] = @ \ {o}]
            /\ \/ Goto(j, IF notify[j] = {o} THEN "waitred" ELSE "notify")
               \/ Goto(j, "free")
      BY <1>16 DEF notificarReduce
    <2>2. pc[j] = "notify" /\ UNCHANGED <<where, pending, caller, todo, await>>
          /\ drop'[j] \subseteq MapsOf(j)
      BY <1>a, <1>b, <1>c, <1>16 DEF notificarReduce
    <2>3. notify[j] \in SUBSET Reduce /\ orders[j] \in SUBSET Reduce /\ o \in Reduce
          /\ o \notin orders[j] /\ await[j] = Cardinality(notify[j]) + Cardinality(orders[j])
      BY <1>a, <1>b, <2>1, <2>2
    <2>4. /\ Cardinality(notify[j] \ {o}) = Cardinality(notify[j]) - 1
          /\ Cardinality(notify[j]) \in Nat
          /\ Cardinality(notify[j] \ {o}) = 0 <=> notify[j] \ {o} = {}
      BY <2>1, <2>3, ReduceCount
    <2>5. Cardinality(orders[j] \cup {o}) = Cardinality(orders[j]) + 1
          /\ Cardinality(orders[j]) \in Nat
      BY <2>3, ReduceCount
    <2>6. notify'[j] = notify[j] \ {o} /\ orders'[j] = orders[j] \cup {o}
      BY <1>b, <2>1
    <2>7. await'[j] = Cardinality(notify'[j]) + Cardinality(orders'[j])
      BY <2>2, <2>3, <2>4, <2>5, <2>6
    <2>8. notify'[j] \cap orders'[j] = {}
      BY <1>a, <2>2, <2>6
    <2>9. CASE pc'[j] = "notify"
      BY <1>a, <2>2, <2>7, <2>8, <2>9
    <2>10. CASE pc'[j] = "waitred" /\ notify[j] = {o}
      <3>1. notify'[j] = {} /\ Cardinality(notify'[j]) = 0
        BY <2>4, <2>6, <2>10
      <3>2. await'[j] = Cardinality(orders'[j])
        BY <2>5, <2>6, <2>7, <3>1
      <3> QED BY <1>a, <2>2, <2>10, <3>1, <3>2
    <2>11. CASE pc'[j] = "free"
      BY <1>a, <2>2, <2>11
    <2> QED BY <1>b, <2>1, <2>9, <2>10, <2>11
  <1>17. CASE RecvReduceResult(j)
    <2>1. PICK o \in orders[j] :
            /\ orders' = [orders EXCEPT ![j] = @ \ {o}]
            /\ await' = [await EXCEPT ![j] = @ - 1]
            /\ \/ Goto(j, IF await[j] > 1 THEN "waitred"
                          ELSE IF o[1] = "final" THEN "copy"
                          ELSE IF fallen[j] = <<>> THEN "pickfinal" ELSE "redo")
               \/ Goto(j, "deactred")
      BY <1>17 DEF RecvReduceResult
    <2>2. pc[j] = "waitred" /\ UNCHANGED <<where, pending, caller, todo, drop, notify>>
      BY <1>17 DEF RecvReduceResult
    <2>3. notify[j] = {} /\ orders[j] \in SUBSET Reduce /\ o \in Reduce
          /\ await[j] = Cardinality(orders[j])
      BY <1>a, <1>b, <2>1, <2>2
    <2>4. /\ Cardinality(orders[j] \ {o}) = Cardinality(orders[j]) - 1
          /\ Cardinality(orders[j]) \in Nat
          /\ Cardinality(orders[j]) # 0
          /\ Cardinality(orders[j] \ {o}) = 0 <=> orders[j] \ {o} = {}
      BY <2>1, <2>3, ReduceCount
    <2>5. orders'[j] = orders[j] \ {o} /\ await'[j] = await[j] - 1
      BY <1>b, <2>1
    <2>6. await'[j] = Cardinality(orders'[j])
      BY <2>3, <2>4, <2>5
    <2>7. await[j] <= 1 => orders'[j] = {} /\ await'[j] = 0
      BY <2>3, <2>4, <2>5
    <2>8. CASE pc'[j] \in {"waitred", "deactred"}
      BY <1>a, <2>2, <2>3, <2>6, <2>8
    <2>9. CASE pc'[j] \in {"copy", "pickfinal", "redo"} /\ await[j] <= 1
      BY <1>a, <2>2, <2>3, <2>7, <2>9
    <2> QED BY <1>b, <2>1, <2>8, <2>9
  <1>18. CASE DeactivateReduceNode(j)
    <2>1. pc[j] = "deactred"
          /\ UNCHANGED <<where, pending, caller, drop, notify, orders, await>>
          /\ todo'[j] \subseteq MapsOf(j)
          /\ pc'[j] = IF await[j] > 0 THEN "waitred" ELSE "redo"
      BY <1>b, <1>c, <1>18 DEF DeactivateReduceNode, AddFallen
    <2>2. Cardinality(orders[j]) \in Nat /\ (Cardinality(orders[j]) = 0 => orders[j] = {})
      BY <1>b, ReducesFinite, FS_EmptySet
    <2>3. await[j] = Cardinality(orders[j])
      BY <1>a, <2>1
    <2> QED BY <1>a, <2>1, <2>2, <2>3
  <1>19. CASE PickCombinerFinal(j)
    <2> USE <1>19
    <2>1. UNCHANGED <<where, pending, orders, caller, todo, drop>> /\ pc[j] = "pickfinal"
      BY DEF PickCombinerFinal
    <2>2. CASE UNCHANGED <<notify, await, pc>>
      BY <1>a, <2>1, <2>2
    <2>3. CASE \E n \in Node : /\ pc' = [pc EXCEPT ![j] = "notify"]
                               /\ notify' = [notify EXCEPT ![j] = {<<"final", n>>}]
                               /\ await' = [await EXCEPT ![j] = 1]
      <3>1. PICK n \in Node : notify'[j] = {<<"final", n>>}
        BY <1>b, <2>3
      <3>2. Cardinality(notify'[j]) = 1 /\ Cardinality(orders[j]) = 0
        BY <1>a, <2>1, <3>1, FS_Singleton, FS_EmptySet
      <3>3. await'[j] = 1 /\ pc'[j] = "notify"
        BY <1>b, <2>3
      <3> QED BY <1>a, <2>1, <3>2, <3>3
    <2>4. \A S : selectNode(S) \in SUBSET Node
      BY HelperTypes
    <2> QED BY <2>2, <2>3, <2>4 DEF PickCombinerFinal
  <1>20. CASE CopyFinal(j)
    <2>1. Planned(j)' = Planned(j)
      BY <1>20 DEF CopyFinal, Planned
    <2> QED BY <1>a, <1>b, <1>c, <1>20, <2>1 DEF CopyFinal, Caller
  <1>21. CASE JobLost(j)
    <2>1. Planned(j)' = Planned(j)
      BY <1>21 DEF JobLost, Planned
    <2> QED BY <1>a, <1>b, <1>c, <1>21, <2>1 DEF JobLost, Caller
  <1>22. CASE FreeMap(j)
    <2>1. Planned(j)' = Planned(j)
      BY <1>22 DEF FreeMap, Planned
    <2> QED BY <1>a, <1>b, <1>c, <1>22, <2>1 DEF FreeMap, Caller
  <1>23. CASE EndJob(j)
    <2>1. Planned(j)' = Planned(j)
      BY <1>23 DEF EndJob, Planned
    <2> QED BY <1>a, <1>b, <1>c, <1>23, <2>1 DEF EndJob, Caller
  <1> QED BY <1>1, <1>2, <1>3, <1>4, <1>5, <1>6, <1>7, <1>8, <1>9, <1>10,
             <1>11, <1>12, <1>13, <1>14, <1>15, <1>16, <1>17, <1>18, <1>19,
             <1>20, <1>21, <1>22,
         <1>23 DEF Thread

\* The books hold before any map is planned.
LEMMA InitBooks == Init => Books
  <1> SUFFICES ASSUME Init, NEW j \in Job
               PROVE  MapBook(j) /\ ReduceBook(j)
    BY DEF Books
  <1>1. Planned(j) = {}
    BY MartaAssumption DEF MartaAssumption, Init, Planned, MapsOf
  <1> QED BY <1>1 DEF Init, MapBook, ReduceBook, Planning, HasMap, Mapping,
          Redoing, Reducing, Replans

\* Every step keeps the books of every job: the ones of the job whose thread
\* moves, and the others, which it does not touch.
LEMMA StepBooks ==
    TypeOK /\ Locals /\ Books /\ TypeOK' /\ [Next]_vars => Books'
  <1> SUFFICES ASSUME TypeOK, Locals, Books, TypeOK', [Next]_vars
               PROVE  Books'
    OBVIOUS
  <1>1. CASE \E j \in Job : Thread(j)
    BY <1>1, OwnBooks, OtherBooks DEF Books
  <1>2. CASE UNCHANGED <<mapVars, redVars, pc, planVars, endVars>>
    <2> SUFFICES ASSUME NEW j \in Job PROVE MapBook(j)' /\ ReduceBook(j)'
      BY DEF Books
    <2>1. MapBook(j) /\ ReduceBook(j)
      BY DEF Books
    <2>2. UNCHANGED <<where, pending, notify, orders, pc, caller, cur, todo, drop, await>>
      BY <1>2 DEF mapVars, redVars, planVars, endVars
    <2>3. Planned(j)' = Planned(j)
      BY <2>2 DEF Planned
    <2>4. MapBook(j)'
      BY <2>1, <2>2, <2>3 DEF MapBook, Planning, HasMap, Mapping, Redoing, Reducing, Replans
    <2>5. ReduceBook(j)'
      BY <2>1, <2>2 DEF ReduceBook, Planning, Mapping, Redoing, Replans
    <2> QED BY <2>4, <2>5
  <1> QED BY <1>1, <1>2 DEF Next, NodeDrops, NodeReturns, Waiting, vars

\* The receive loops of planMaps, rePlanMap and the reduce planning await as
\* many results as the job has orders to answer.
THEOREM OrdersAwaited == Spec => []AwaitsMatchOrders
  <1>1. TypeOK /\ Books => AwaitsMatchOrders
    <2> SUFFICES ASSUME TypeOK, Books, NEW j \in Job,
                        pc[j] \in {"wait", "deact", "redo", "waitred", "deactred", "copy"}
                 PROVE  await[j] = Cardinality(pending \cap MapsOf(j)) + Cardinality(orders[j])
      BY DEF AwaitsMatchOrders
    <2>1. MapBook(j) /\ ReduceBook(j) /\ await[j] \in Int
      BY DEF Books, TypeOK, EndTypes
    <2>2. /\ Cardinality(pending \cap MapsOf(j)) \in Nat
          /\ pending \cap MapsOf(j) = {} => Cardinality(pending \cap MapsOf(j)) = 0
      BY MapsFinite, FS_EmptySet DEF MapsOf
    <2>3. /\ Cardinality(orders[j]) \in Nat
          /\ orders[j] = {} => Cardinality(orders[j]) = 0
      BY ReducesFinite, FS_EmptySet DEF TypeOK, ReduceTypes
    <2>4. CASE pc[j] \in {"wait", "deact"}
      BY <2>1, <2>2, <2>3, <2>4 DEF MapBook, ReduceBook, Mapping
    <2>5. CASE pc[j] \in {"redo", "copy"}
      BY <2>1, <2>2, <2>3, <2>5 DEF MapBook, ReduceBook, Redoing, Reducing
    <2>6. CASE pc[j] \in {"waitred", "deactred"}
      BY <2>1, <2>2, <2>3, <2>6 DEF MapBook, ReduceBook, Reducing
    <2> QED BY <2>4, <2>5, <2>6
  <1>2. Init => TypeOK /\ Locals /\ Books
    BY InitTypes, InitBooks
  <1>3. TypeOK /\ Locals /\ Books /\ [Next]_vars => TypeOK' /\ Locals' /\ Books'
    BY StepTypes, StepBooks
  <1> QED BY <1>1, <1>2, <1>3, PTL DEF Spec

----------------------------------------------------------------------------
\* Sets of running maps are finite, and a smaller one has no more members.
LEMMA SubMapCount ==
    ASSUME NEW S \in SUBSET Map, NEW T \in SUBSET S
    PROVE  Cardinality(T) <= Cardinality(S) /\ Cardinality(S) \in Nat /\ Cardinality(T) \in Nat
  BY MapsFinite, FS_Subset

\* removeMapNode takes at most one entry, of the map's node and block.
LEMMA RemoveLowers ==
    ASSUME TypeOK, NEW m \in Map, NEW n \in Node, NEW b \in Block
    PROVE  /\ removeMapNode(m)[n][b] \in Nat
           /\ removeMapNode(m)[n][b] <= load[n][b]
           /\ where[m] = n /\ BlockOf[m] = b /\ load[n][b] # 0
                => removeMapNode(m)[n][b] = load[n][b] - 1
  <1>1. load \in [Node -> [Block -> Nat]]
    BY DEF TypeOK, NodeTypes
  <1>2. CASE where[m] = n /\ BlockOf[m] = b
    BY <1>1, <1>2 DEF removeMapNode
  <1>3. CASE ~(where[m] = n /\ BlockOf[m] = b)
    <2>1. removeMapNode(m)[n][b] = load[n][b]
      <3>1. CASE where[m] = n
        BY <1>1, <1>3, <3>1 DEF removeMapNode
      <3>2. CASE where[m] # n
        BY <1>1, <3>2 DEF removeMapNode
      <3> QED BY <3>1, <3>2
    <2> QED BY <1>1, <1>3, <2>1
  <1> QED BY <1>2, <1>3

\* A result, or freeJob, takes an order and at most an entry away: if the order
\* goes, so does an entry, when the list has one.
LEMMA RemoveKeeps ==
    ASSUME TypeOK, NoPhantomMaps, NEW m \in Map, UNCHANGED where,
           load' = removeMapNode(m), pending' \in {pending, pending \ {m}},
           NEW n \in Node, NEW b \in Block
    PROVE  load'[n][b] <= Cardinality(MapsRunning(n, b)')
  <1> DEFINE running == MapsRunning(n, b)
  <1>1. /\ running \in SUBSET Map /\ load[n][b] <= Cardinality(running)
        /\ load[n][b] \in Nat
    BY DEF NoPhantomMaps, TypeOK, NodeTypes, MapTypes, MapsRunning
  <1>2. /\ load'[n][b] \in Nat
        /\ load'[n][b] <= load[n][b]
        /\ where[m] = n /\ BlockOf[m] = b /\ load[n][b] # 0
             => load'[n][b] = load[n][b] - 1
    BY RemoveLowers
  <1>3. CASE MapsRunning(n, b)' = running
    BY <1>1, <1>2, <1>3, MapsFinite
  <1>4. CASE /\ MapsRunning(n, b)' = running \ {m} /\ m \in running
             /\ where[m] = n /\ BlockOf[m] = b
    <2>1. Cardinality(running \ {m}) = Cardinality(running) - 1
          /\ Cardinality(running \ {m}) \in Nat /\ Cardinality(running) \in Nat
      BY <1>1, <1>4, MapCount, MapsFinite
    <2> HIDE DEF running
    <2>2. Cardinality(MapsRunning(n, b)') = Cardinality(running) - 1
      BY <1>4, <2>1
    <2>3. Cardinality(MapsRunning(n, b)') \in Nat
      BY <1>4, <2>1
    <2> QED BY <1>1, <1>2, <1>4, <2>1, <2>2, <2>3
  <1> QED BY <1>3, <1>4 DEF MapsRunning

\* A step of a thread never leaves an entry nothing stands for.
LEMMA StepNoPhantom ==
    ASSUME TypeOK, TypeOK', Locals, Books, NoPhantomMaps, NEW j \in Job, Thread(j)
    PROVE  NoPhantomMaps'
  <1> SUFFICES ASSUME NEW n \in Node, NEW b \in Block
               PROVE  load'[n][b] <= Cardinality(MapsRunning(n, b)')
    BY DEF NoPhantomMaps
  <1> DEFINE running == MapsRunning(n, b)
  <1>a. /\ running \in SUBSET Map /\ load[n][b] <= Cardinality(running)
        /\ load[n][b] \in Nat /\ Cardinality(running) \in Nat
    BY MapsFinite DEF NoPhantomMaps, TypeOK, NodeTypes, MapTypes, MapsRunning
  <1>b. MapBook(j)
    BY DEF Books
  <1>1. CASE PlanMap(j)
    <2>1. /\ cur[j] \in Map /\ cur[j] \notin pending /\ sel[j] \in Node
          /\ BlockOf[cur[j]] \in Block
      BY <1>1, <1>b, MartaAssumption
      DEF PlanMap, Locals, LocalOK, MapBook, Planning, MartaAssumption
    <2>2. /\ where' = [where EXCEPT ![cur[j]] = sel[j]]
          /\ pending' = pending \cup {cur[j]}
      BY <1>1 DEF PlanMap
    <2>3. CASE sel[j] = n /\ BlockOf[cur[j]] = b
      <3>1. MapsRunning(n, b)' = running \cup {cur[j]} /\ cur[j] \notin running
        BY <2>1, <2>2, <2>3 DEF MapsRunning, TypeOK, MapTypes
      <3>2. Cardinality(running \cup {cur[j]}) = Cardinality(running) + 1
        BY <1>a, <2>1, <3>1, MapCount
      <3>3. load'[n][b] <= load[n][b] + 1 /\ load'[n][b] \in Nat
        BY <1>1, <2>3 DEF PlanMap, AddMapNode, TypeOK, NodeTypes
      <3> HIDE DEF running
      <3> QED BY <1>a, <3>1, <3>2, <3>3
    <2>4. CASE ~(sel[j] = n /\ BlockOf[cur[j]] = b)
      <3>1. MapsRunning(n, b)' = running
        BY <2>1, <2>2, <2>4 DEF MapsRunning, TypeOK, MapTypes
      <3>2. AddMapNode(sel[j], BlockOf[cur[j]])[n][b] = load[n][b]
        <4>1. CASE sel[j] = n
          BY <2>1, <2>4, <4>1 DEF AddMapNode, TypeOK, NodeTypes
        <4>2. CASE sel[j] # n
          BY <2>1, <4>2 DEF AddMapNode, TypeOK, NodeTypes
        <4> QED BY <4>1, <4>2
      <3>3. load'[n][b] = load[n][b]
        BY <1>1, <3>2 DEF PlanMap
      <3> QED BY <1>a, <3>1, <3>3
    <2> QED BY <2>3, <2>4
  <1>2. CASE Unplan(j)
    <2>1. CASE UNCHANGED <<load, pending, where>>
      BY <1>a, <2>1 DEF MapsRunning
    <2>2. CASE \E m \in drop[j] : load' = removeMapNode(m)
      BY <1>2, <2>2, RemoveKeeps DEF Unplan, mapVars, TypeOK, PlanTypes
    <2> QED BY <1>2, <2>1, <2>2 DEF Unplan, mapVars
  <1>3. CASE RecvMapResult(j)
    <2>1. PICK m \in pending : load' = removeMapNode(m) /\ pending' = pending \ {m}
      BY <1>3 DEF RecvMapResult
    <2>2. m \in Map /\ UNCHANGED where
      BY <1>3 DEF RecvMapResult, TypeOK, MapTypes
    <2> QED BY <2>1, <2>2, RemoveKeeps
  <1>4. CASE FreeMap(j)
    <2>1. PICK m \in drop[j] : load' = removeMapNode(m) /\ pending' = pending \ {m}
      BY <1>4 DEF FreeMap
    <2>2. m \in Map /\ UNCHANGED where
      BY <1>4 DEF FreeMap, TypeOK, PlanTypes
    <2> QED BY <2>1, <2>2, RemoveKeeps
  <1>5. CASE Replan(j)
    <2>1. HasMap(j)
      BY <1>5 DEF Replan, HasMap, Replans, TypeOK, PlanTypes, Caller
    <2>2. cur[j] \notin pending
      BY <1>b, <2>1 DEF MapBook
    <2>3. /\ pending \subseteq pending' /\ load' = load
          /\ \A m \in pending : where'[m] = where[m]
      BY <1>5, <2>2 DEF Replan, nodeVars, TypeOK, MapTypes
    <2>4. running \subseteq MapsRunning(n, b)' /\ MapsRunning(n, b)' \in SUBSET Map
      BY <2>3 DEF MapsRunning, TypeOK, MapTypes
    <2>5. /\ Cardinality(running) <= Cardinality(MapsRunning(n, b)')
          /\ Cardinality(MapsRunning(n, b)') \in Nat
      BY <2>4, SubMapCount
    <2> HIDE DEF running
    <2> QED BY <1>a, <2>3, <2>5
  <1>6. CASE UNCHANGED <<load, pending, where>>
    BY <1>a, <1>6 DEF MapsRunning
  <1> QED BY <1>1, <1>2, <1>3, <1>4, <1>5, <1>6
          DEF Thread, RequestFile, ApplyCopy, StartPlanning, SelectForPlan,
              EndPlanning, DeactivateMapNode, RedoMap, NextFallen, EndRedo,
              PickFinal, PlanPartials, notificarReduce, RecvReduceResult,
              DeactivateReduceNode, PickCombinerFinal, CopyFinal, JobLost, EndJob,
              nodeVars, mapVars

\* An entry of node->maps always stands for an order that has not been answered,
\* however the threads of the jobs interleave in planMaps, removeMapNode, the
\* replans and freeJob.
THEOREM NoPhantomWork == Spec => []NoPhantomMaps
  <1> DEFINE IInv == TypeOK /\ Locals /\ Books /\ NoPhantomMaps
  <1>1. Init => IInv
    <2> SUFFICES ASSUME Init PROVE NoPhantomMaps
      BY InitTypes, InitBooks
    <2>1. \A n \in Node, b \in Block : MapsRunning(n, b) = {} /\ load[n][b] = 0
      BY DEF Init, MapsRunning
    <2> QED BY <2>1, FS_EmptySet DEF NoPhantomMaps
  <1>2. IInv /\ [Next]_vars => IInv'
    <2> SUFFICES ASSUME IInv, [Next]_vars, TypeOK', Locals', Books'
                 PROVE  NoPhantomMaps'
      BY StepTypes, StepBooks
    <2>1. CASE \E j \in Job : Thread(j)
      BY <2>1, StepNoPhantom
    <2>2. CASE UNCHANGED <<load, pending, where>>
      BY <2>2 DEF NoPhantomMaps, MapsRunning
    <2> QED BY <2>1, <2>2 DEF Next, NodeDrops, NodeReturns, Waiting, vars,
            nodeVars, mapVars
  <1>3. IInv => NoPhantomMaps
    OBVIOUS
  <1> QED BY <1>1, <1>2, <1>3, PTL DEF Spec

----------------------------------------------------------------------------
\* Sets of running reduces are finite.
LEMMA RunningCount ==
    ASSUME NEW S \in SUBSET (Job \X {"partial", "final"}), NEW r
    PROVE  /\ IsFiniteSet(S) /\ Cardinality(S) \in Nat
           /\ Cardinality(S \cup {r}) <= Cardinality(S) + 1
           /\ Cardinality(S \cup {r}) \in Nat
           /\ r \in S => Cardinality(S \ {r}) = Cardinality(S) - 1
           /\ \A T \in SUBSET S : Cardinality(T) <= Cardinality(S) /\ Cardinality(T) \in Nat
  <1>1. IsFiniteSet({"partial", "final"})
    <2>1. {"partial", "final"} = {"partial"} \cup {"final"}
      OBVIOUS
    <2>2. IsFiniteSet({"partial"})
      BY FS_Singleton
    <2>3. IsFiniteSet({"partial"} \cup {"final"})
      BY <2>2, FS_AddElement
    <2> QED BY <2>1, <2>3
  <1>2. IsFiniteSet(Job \X {"partial", "final"})
    BY <1>1, FS_Product, MartaAssumption DEF MartaAssumption
  <1>3. IsFiniteSet(S) /\ Cardinality(S) \in Nat
    BY <1>2, FS_Subset, FS_CardinalityType
  <1>4. \A T \in SUBSET S : Cardinality(T) <= Cardinality(S) /\ Cardinality(T) \in Nat
    BY <1>3, FS_Subset, FS_CardinalityType
  <1>5. Cardinality(S \cup {r}) \in {Cardinality(S), Cardinality(S) + 1}
    BY <1>3, FS_AddElement
  <1>6. r \in S => Cardinality(S \ {r}) = Cardinality(S) - 1
    BY <1>3, FS_RemoveElement
  <1> QED BY <1>3, <1>4, <1>5, <1>6

\* A step of a thread keeps the counters at the number of running reduces, or
\* above.
LEMMA StepReducesCovered ==
    ASSUME TypeOK, ReducesCovered, NEW j \in Job, Thread(j)
    PROVE  ReducesCovered'
  <1> SUFFICES ASSUME NEW n \in Node
               PROVE  reduces'[n] >= Cardinality(ReducesRunning(n)')
    BY DEF ReducesCovered
  <1> DEFINE running == ReducesRunning(n)
  <1>a. /\ running \in SUBSET (Job \X {"partial", "final"})
        /\ reduces[n] >= Cardinality(running)
        /\ reduces \in [Node -> Int] /\ orders \in [Job -> SUBSET Reduce]
        /\ notify \in [Job -> SUBSET Reduce]
    BY DEF ReducesCovered, TypeOK, NodeTypes, ReduceTypes, ReducesRunning
  <1>b. Cardinality(running) \in Nat
    BY <1>a, RunningCount
  <1>1. CASE notificarReduce(j)
    <2>1. PICK o \in notify[j] : /\ reduces' = [reduces EXCEPT ![o[2]] = @ + 1]
                                 /\ orders' = [orders EXCEPT ![j] = @ \cup {o}]
      BY <1>1 DEF notificarReduce, AddReduce
    <2>2. o[1] \in {"partial", "final"} /\ o[2] \in Node /\ o = <<o[1], o[2]>>
      BY <1>a DEF Reduce
    <2>3. CASE o[2] = n
      <3>1. ReducesRunning(n)' = running \cup {<<j, o[1]>>}
        BY <1>a, <2>1, <2>2, <2>3 DEF ReducesRunning
      <3>2. /\ Cardinality(running \cup {<<j, o[1]>>}) <= Cardinality(running) + 1
            /\ Cardinality(running \cup {<<j, o[1]>>}) \in Nat
        BY <1>a, RunningCount
      <3>3. reduces'[n] = reduces[n] + 1
        BY <1>a, <2>1, <2>3
      <3> HIDE DEF running
      <3> QED BY <1>a, <1>b, <3>1, <3>2, <3>3
    <2>4. CASE o[2] # n
      <3>1. ReducesRunning(n)' = running /\ reduces'[n] = reduces[n]
        BY <1>a, <2>1, <2>2, <2>4 DEF ReducesRunning
      <3> QED BY <1>a, <3>1
    <2> QED BY <2>3, <2>4
  <1>2. CASE RecvReduceResult(j)
    <2>1. PICK o \in orders[j] : /\ reduces' = [reduces EXCEPT ![o[2]] = @ - 1]
                                 /\ orders' = [orders EXCEPT ![j] = @ \ {o}]
      BY <1>2 DEF RecvReduceResult, removeReduceNode
    <2>2. o[1] \in {"partial", "final"} /\ o[2] \in Node /\ o = <<o[1], o[2]>>
      BY <1>a DEF Reduce
    <2>3. CASE o[2] = n
      <3>1. ReducesRunning(n)' = running \ {<<j, o[1]>>} /\ <<j, o[1]>> \in running
        BY <1>a, <2>1, <2>2, <2>3 DEF ReducesRunning
      <3>2. Cardinality(running \ {<<j, o[1]>>}) = Cardinality(running) - 1
        BY <1>a, <3>1, RunningCount
      <3>3. reduces'[n] = reduces[n] - 1
        BY <1>a, <2>1, <2>3
      <3> HIDE DEF running
      <3> QED BY <1>a, <1>b, <3>1, <3>2, <3>3
    <2>4. CASE o[2] # n
      <3>1. ReducesRunning(n)' = running /\ reduces'[n] = reduces[n]
        BY <1>a, <2>1, <2>2, <2>4 DEF ReducesRunning
      <3> QED BY <1>a, <3>1
    <2> QED BY <2>3, <2>4
  <1>3. CASE EndJob(j)
    <2>1. reduces' = reduces /\ orders' = [orders EXCEPT ![j] = {}]
      BY <1>3 DEF EndJob, nodeVars
    <2>2. ReducesRunning(n)' \in SUBSET running
      BY <1>a, <2>1 DEF ReducesRunning
    <2>3. Cardinality(ReducesRunning(n)') <= Cardinality(running)
          /\ Cardinality(ReducesRunning(n)') \in Nat
      BY <1>a, <2>2, RunningCount
    <2> HIDE DEF running
    <2> QED BY <1>a, <1>b, <2>1, <2>3
  <1>4. CASE UNCHANGED <<reduces, orders>>
    BY <1>a, <1>4 DEF ReducesRunning
  <1> QED BY <1>1, <1>2, <1>3, <1>4
          DEF Thread, RequestFile, ApplyCopy, StartPlanning, SelectForPlan,
              PlanMap, Unplan, EndPlanning, RecvMapResult, DeactivateMapNode,
              Replan, RedoMap, NextFallen, EndRedo, PickFinal, PlanPartials,
              DeactivateReduceNode, PickCombinerFinal, CopyFinal, JobLost, FreeMap,
              nodeVars, redVars

\* The counter node->reduces is at least the number of the node's reduces that
\* are ordered and not answered: removeReduceNode never takes it below zero.
THEOREM ReducesAreCovered == Spec => []ReducesCovered
  <1>1. Init => ReducesCovered
    <2> SUFFICES ASSUME Init, NEW n \in Node
                 PROVE  reduces[n] >= Cardinality(ReducesRunning(n))
      BY DEF ReducesCovered
    <2>1. ReducesRunning(n) = {} /\ reduces[n] = 0
      BY DEF Init, ReducesRunning
    <2> QED BY <2>1, FS_EmptySet
  <1>2. TypeOK /\ ReducesCovered /\ [Next]_vars => ReducesCovered'
    <2> SUFFICES ASSUME TypeOK, ReducesCovered, [Next]_vars
                 PROVE  ReducesCovered'
      OBVIOUS
    <2>1. CASE \E j \in Job : Thread(j)
      BY <2>1, StepReducesCovered
    <2>2. CASE UNCHANGED <<reduces, orders>>
      BY <2>2 DEF ReducesCovered, ReducesRunning
    <2> QED BY <2>1, <2>2 DEF Next, NodeDrops, NodeReturns, Waiting, vars,
            nodeVars, redVars
  <1>3. Spec => []TypeOK
    BY TypeCorrect, PTL
  <1> QED BY <1>1, <1>2, <1>3, PTL DEF Spec

----------------------------------------------------------------------------
\* The results of a job.  Until its first reduces are planned, and when those that
\* failed were cleaned, it has none.
Fresh(j) == temps[j] = {} /\ \A n \in Node : partials[j][n] = {}

\* The partial results are those of the maps where they are, and none is joined.
Parted(j) == temps[j] = {} /\ \A n \in Node : partials[j][n] = PlannedOn(j, n)

\* The files of the final reduce are of each map planned, once.
JoinedOnce(j) ==
    /\ UNION {t[1] : t \in temps[j]} = Planned(j)
    /\ \A t, u \in temps[j] : t # u => t[1] \cap u[1] = {}

\* What the results are in each phase.  A list of fallen nodes tells the maps done
\* again after a reduce, when results are old, from those before the first one.
FreshBook(j) ==
    /\ Planning(j) \/ (Mapping(j) /\ fallen[j] = <<>>) \/ pc[j] = "pick" => Fresh(j)
    /\ Replans(j, "redo") => fallen[j] # <<>>
JoinBook(j) ==
    /\ (pc[j] = "pickfinal" \/ \E o \in notify[j] \cup orders[j] : o[1] = "partial")
         => Parted(j)
    /\ (pc[j] = "copy" \/ \E o \in notify[j] \cup orders[j] : o[1] = "final")
         => JoinedOnce(j)

\* A map that was planned is done, or is ordered, or is the one whose bad result
\* the thread has in hand.
DoneBook(j) ==
    pc[j] \notin {"free", "ended"} =>
        \A m \in Planned(j) : \/ m \in done \cup pending
                              \/ (pc[j] = "deact" \/ Replans(j, "result")) /\ m = cur[j]
Results == \A j \in Job : FreshBook(j) /\ JoinBook(j) /\ DoneBook(j)

\* What a job's results depend on.
LEMMA SameResults ==
    ASSUME NEW k \in Job, FreshBook(k), JoinBook(k), DoneBook(k),
           pc'[k] = pc[k], caller'[k] = caller[k], cur'[k] = cur[k],
           fallen'[k] = fallen[k], notify'[k] = notify[k], orders'[k] = orders[k],
           partials'[k] = partials[k], temps'[k] = temps[k],
           \A m \in MapsOf(k) : /\ where'[m] = where[m]
                                /\ m \in done' <=> m \in done
                                /\ m \in pending' <=> m \in pending
    PROVE  FreshBook(k)' /\ JoinBook(k)' /\ DoneBook(k)'
  <1>1. Planned(k)' = Planned(k) /\ \A n \in Node : PlannedOn(k, n)' = PlannedOn(k, n)
    BY DEF Planned, PlannedOn, MapsOf
  <1>2. FreshBook(k)'
    BY DEF FreshBook, Fresh, Planning, Mapping, Replans
  <1>3. JoinBook(k)'
    BY <1>1 DEF JoinBook, Parted, JoinedOnce
  <1>4. DoneBook(k)'
    BY <1>1 DEF DoneBook, Replans, Planned
  <1> QED BY <1>2, <1>3, <1>4

\* A step of a thread leaves the results of the other jobs alone.
LEMMA OtherResults ==
    ASSUME TypeOK, Books, Results, NEW j \in Job, Thread(j), NEW k \in Job \ {j}
    PROVE  FreshBook(k)' /\ JoinBook(k)' /\ DoneBook(k)'
  <1> USE DEF Goto, Finish, PopFallen, AddFallen, CleanReduces, mapVars, redVars, planVars,
              endVars
  <1>1. MapsOf(j) \cap MapsOf(k) = {} /\ MapBook(j)
    BY DEF MapsOf, Books
  <1>2. /\ pc'[k] = pc[k] /\ caller'[k] = caller[k] /\ cur'[k] = cur[k]
        /\ fallen'[k] = fallen[k]
    BY DEF Thread, TypeOK, EndTypes, PlanTypes, RequestFile, ApplyCopy,
       StartPlanning, SelectForPlan, PlanMap, Unplan,
       EndPlanning, RecvMapResult, DeactivateMapNode, Replan, RedoMap,
       NextFallen, EndRedo, PickFinal, PlanPartials, notificarReduce,
       RecvReduceResult, DeactivateReduceNode, PickCombinerFinal, CopyFinal,
       JobLost, FreeMap, EndJob
  <1>3. /\ notify'[k] = notify[k] /\ orders'[k] = orders[k]
        /\ partials'[k] = partials[k] /\ temps'[k] = temps[k]
    BY DEF Thread, TypeOK, ReduceTypes, RequestFile, ApplyCopy,
       StartPlanning, SelectForPlan, PlanMap, Unplan,
       EndPlanning, RecvMapResult, DeactivateMapNode, Replan, RedoMap,
       NextFallen, EndRedo, PickFinal, PlanPartials, notificarReduce,
       RecvReduceResult, DeactivateReduceNode, PickCombinerFinal, CopyFinal,
       JobLost, FreeMap, EndJob
  <1>4. \A m \in MapsOf(k) : /\ where'[m] = where[m]
                             /\ m \in done' <=> m \in done
                             /\ m \in pending' <=> m \in pending
    <2>1. CASE PlanMap(j)
      BY <2>1, <1>1 DEF PlanMap, MapBook, TypeOK, MapTypes, MapsOf
    <2>2. CASE RecvMapResult(j)
      BY <2>2, <1>1 DEF RecvMapResult
    <2>3. CASE Replan(j)
      <3>1. cur[j] \in MapsOf(j)
        BY <2>3, <1>1 DEF Replan, MapBook, HasMap, Replans, TypeOK, PlanTypes,
           Caller
      <3> QED BY <2>3, <1>1, <3>1 DEF Replan, TypeOK, MapTypes, MapsOf
    <2>4. CASE FreeMap(j)
      BY <2>4, <1>1 DEF FreeMap, MapBook
    <2>5. CASE UNCHANGED <<where, done, pending>>
      BY <2>5
    <2> QED BY <2>1, <2>2, <2>3, <2>4, <2>5 DEF Thread, RequestFile,
               ApplyCopy, StartPlanning, SelectForPlan, Unplan, EndPlanning,
            DeactivateMapNode, RedoMap, NextFallen, EndRedo, PickFinal,
            PlanPartials, notificarReduce, RecvReduceResult,
            DeactivateReduceNode, PickCombinerFinal, CopyFinal, JobLost,
            EndJob
  <1> QED BY <1>2, <1>3, <1>4, SameResults DEF Results

\* A step of a thread that leaves its maps where they are and its results as they
\* are, and orders no reduce.
LEMMA PhaseResults ==
    ASSUME NEW j \in Job, FreshBook(j), JoinBook(j), DoneBook(j),
           UNCHANGED <<where, done, pending, partials, temps, notify, orders>>,
           FreshBook(j)',
           pc'[j] = "pickfinal" => pc[j] = "pickfinal" \/ Parted(j),
           pc'[j] = "copy" => pc[j] = "copy" \/ JoinedOnce(j),
           DoneBook(j)'
    PROVE  FreshBook(j)' /\ JoinBook(j)' /\ DoneBook(j)'
  <1>1. Planned(j)' = Planned(j) /\ \A n \in Node : PlannedOn(j, n)' = PlannedOn(j, n)
    BY DEF Planned, PlannedOn, MapsOf
  <1> QED BY <1>1 DEF JoinBook, Parted, JoinedOnce

\* A map planned or done again is of a job that has no reduce ordered.
LEMMA NoReduceJoins ==
    ASSUME NEW j \in Job, notify'[j] = {}, orders'[j] = {},
           pc'[j] \notin {"pickfinal", "copy"}
    PROVE  JoinBook(j)'
  BY DEF JoinBook

\* A step of a thread keeps what is said of the results of its own job.
LEMMA OwnResults ==
    ASSUME TypeOK, TypeOK', Locals, Books, Books', Results, NEW j \in Job, Thread(j)
    PROVE  FreshBook(j)' /\ JoinBook(j)' /\ DoneBook(j)'
  <1> USE DEF Goto, Finish, mapVars, redVars, planVars, endVars
  <1>a. /\ FreshBook(j) /\ JoinBook(j) /\ DoneBook(j)
        /\ MapBook(j) /\ ReduceBook(j) /\ MapBook(j)' /\ ReduceBook(j)'
    BY DEF Books, Results
  <1>b. /\ pc \in [Job -> PC] /\ caller \in [Job -> Caller]
        /\ cur \in [Job -> Map \cup {NoMap}] /\ fallen \in [Job -> Seq(Node)]
        /\ notify \in [Job -> SUBSET Reduce] /\ orders \in [Job -> SUBSET Reduce]
        /\ partials \in [Job -> [Node -> SUBSET Map]]
        /\ temps \in [Job -> SUBSET ((SUBSET Map) \X Node)]
        /\ where \in [Map -> Node \cup {NoNode}]
        /\ done \in SUBSET Map /\ pending \in SUBSET Map
    BY DEF TypeOK, EndTypes, PlanTypes, ReduceTypes, MapTypes
  <1>c. Planned(j) \subseteq MapsOf(j) /\ MapsOf(j) \subseteq Map
    BY DEF Planned, MapsOf
  <1>d. ASSUME UNCHANGED where
        PROVE  /\ Planned(j)' = Planned(j)
               /\ \A n \in Node : PlannedOn(j, n)' = PlannedOn(j, n)
    BY <1>d DEF Planned, PlannedOn, MapsOf
  \* A thread that asks for the files of its job, or chooses nodes, changes no result.
  <1>1. CASE RequestFile(j) \/ ApplyCopy(j) \/ StartPlanning(j) \/ SelectForPlan(j)
               \/ Unplan(j)
    <2>1. /\ UNCHANGED <<where, done, pending, partials, temps, notify, orders, caller, fallen>>
          /\ pc'[j] \notin {"pick", "pickfinal", "copy", "wait", "deact"}
          /\ \A who \in Caller : Replans(j, who)' => Replans(j, who)
          /\ pc[j] # "deact" /\ (pc'[j] \in {"plan", "add", "unplan"} => Planning(j))
          /\ Replans(j, "result") => cur'[j] = cur[j]
          /\ pc'[j] \in {"free", "ended"} \/ (Replans(j, "result") => Replans(j, "result")')
          /\ pc[j] \notin {"free", "ended"}
      BY <1>1, <1>b DEF RequestFile, ApplyCopy, StartPlanning, SelectForPlan, Unplan,
                        Replans, Planning, Caller
    <2>2. FreshBook(j)'
      BY <1>a, <2>1 DEF FreshBook, Fresh, Planning, Mapping, Replans, Caller
    <2>3. DoneBook(j)'
      BY <1>a, <1>d, <2>1 DEF DoneBook
    <2> QED BY <1>a, <2>1, <2>2, <2>3, PhaseResults
  <1>2. CASE PlanMap(j)
    <2>1. /\ pc[j] = "add" /\ cur[j] \in MapsOf(j) /\ sel[j] \in Node
          /\ UNCHANGED <<done, partials, temps, notify, orders, caller, fallen>>
          /\ where' = [where EXCEPT ![cur[j]] = sel[j]]
          /\ pending' = pending \cup {cur[j]}
          /\ pc'[j] \in {"plan", "free"}
      BY <1>2, <1>a, <1>b DEF PlanMap, MapBook, Locals, LocalOK
    <2>2. FreshBook(j)'
      BY <1>a, <2>1 DEF FreshBook, Fresh, Planning, Mapping, Replans
    <2>3. JoinBook(j)'
      BY <1>a, <2>1, NoReduceJoins DEF ReduceBook, Planning
    <2>4. Planned(j)' \subseteq Planned(j) \cup {cur[j]}
      BY <1>b, <1>c, <2>1 DEF Planned, MapsOf
    <2>5. DoneBook(j)'
      BY <1>a, <2>1, <2>4 DEF DoneBook, Replans
    <2> QED BY <2>2, <2>3, <2>5
  <1>3. CASE EndPlanning(j)
    <2>1. /\ pc[j] = "plan" /\ pc'[j] \in {"pick", "wait"}
          /\ UNCHANGED <<where, done, pending, partials, temps, notify, orders, fallen>>
      BY <1>3, <1>b DEF EndPlanning
    <2>2. FreshBook(j)'
      BY <1>a, <2>1 DEF FreshBook, Fresh, Planning, Replans
    <2>3. DoneBook(j)'
      BY <1>a, <1>d, <2>1 DEF DoneBook, Replans
    <2> QED BY <1>a, <2>1, <2>2, <2>3, PhaseResults
  <1>4. CASE RecvMapResult(j)
    <2>1. PICK m \in pending \cap MapsOf(j) :
            /\ pending' = pending \ {m} /\ pc[j] = "wait"
            /\ UNCHANGED <<where, partials, temps, notify, orders, fallen>>
            /\ \/ /\ done' = done \cup {m}
                  /\ pc'[j] \in {"wait", "redo"} \/ (pc'[j] = "pick" /\ fallen[j] = <<>>)
               \/ /\ done' = done /\ cur'[j] = m /\ pc'[j] = "deact"
      BY <1>4, <1>b DEF RecvMapResult
    <2>2. FreshBook(j)'
      BY <1>a, <2>1 DEF FreshBook, Fresh, Planning, Mapping, Replans
    <2>3. JoinBook(j)'
      BY <1>a, <2>1, NoReduceJoins DEF ReduceBook, Mapping
    <2>4. DoneBook(j)'
      BY <1>a, <1>d, <2>1 DEF DoneBook, Replans
    <2> QED BY <2>2, <2>3, <2>4
  <1>5. CASE DeactivateMapNode(j)
    <2>1. /\ UNCHANGED <<where, done, pending, partials, temps, notify, orders, fallen, cur>>
          /\ pc[j] = "deact" /\ pc'[j] = "request" /\ caller'[j] = "result"
      BY <1>5, <1>b DEF DeactivateMapNode
    <2>2. FreshBook(j)'
      BY <1>a, <2>1 DEF FreshBook, Fresh, Planning, Mapping, Replans
    <2>3. DoneBook(j)'
      BY <1>a, <1>d, <2>1 DEF DoneBook, Replans
    <2> QED BY <1>a, <2>1, <2>2, <2>3, PhaseResults
  <1>6. CASE Replan(j)
    <2>1. /\ Replans(j, "result") \/ Replans(j, "redo")
          /\ cur[j] \in MapsOf(j)
          /\ UNCHANGED <<partials, temps, notify, orders, fallen, caller>>
          /\ \/ /\ \E n \in Node : where' = [where EXCEPT ![cur[j]] = n]
                /\ done' = done \ {cur[j]} /\ pending' = pending \cup {cur[j]}
                /\ pc'[j] \in {"wait", "free"}
             \/ /\ UNCHANGED <<where, done, pending>>
                /\ pc'[j] = "free" \/ (caller[j] = "redo" /\ pc'[j] = "redo")
      BY <1>6, <1>a, <1>b, HelperTypes DEF Replan, MapBook, HasMap, Replans, Caller
    <2>2. FreshBook(j)'
      BY <1>a, <2>1 DEF FreshBook, Fresh, Planning, Mapping, Replans
    <2>3. JoinBook(j)'
      BY <1>a, <2>1, NoReduceJoins DEF ReduceBook, Mapping, Redoing
    <2>4. Planned(j)' \subseteq Planned(j) \cup {cur[j]}
      BY <1>b, <1>c, <2>1 DEF Planned, MapsOf
    <2>5. DoneBook(j)'
      BY <1>a, <1>d, <2>1, <2>4 DEF DoneBook, Replans
    <2> QED BY <2>2, <2>3, <2>5
  <1>7. CASE RedoMap(j)
    <2>1. /\ UNCHANGED <<where, done, pending, partials, temps, notify, orders, fallen>>
          /\ pc[j] = "redo" /\ pc'[j] = "request" /\ caller'[j] = "redo"
          /\ fallen[j] # <<>>
      BY <1>7, <1>b DEF RedoMap
    <2>2. FreshBook(j)'
      BY <1>a, <2>1 DEF FreshBook, Fresh, Planning, Mapping, Replans
    <2>3. DoneBook(j)'
      BY <1>a, <1>d, <2>1 DEF DoneBook, Replans
    <2> QED BY <1>a, <2>1, <2>2, <2>3, PhaseResults
  <1>8. CASE NextFallen(j) \/ DeactivateReduceNode(j) \/ JobLost(j) \/ CopyFinal(j)
    <2>1. /\ UNCHANGED <<where, done, pending, partials, temps, notify, orders>>
          /\ pc[j] \in {"redo", "deactred", "wait", "waitred", "copy"}
          /\ pc'[j] \in {"redo", "waitred", "free"}
      BY <1>8, <1>b DEF NextFallen, DeactivateReduceNode, JobLost, CopyFinal
    <2>2. FreshBook(j)'
      BY <2>1 DEF FreshBook, Planning, Mapping, Replans
    <2>3. DoneBook(j)'
      BY <1>a, <1>d, <2>1 DEF DoneBook, Replans
    <2> QED BY <1>a, <2>1, <2>2, <2>3, PhaseResults
  <1>9. CASE EndRedo(j)
    <2>1. /\ UNCHANGED <<where, done, pending, notify, orders>>
          /\ pc[j] = "redo" /\ pc'[j] \in {"pick", "free"}
          /\ pc'[j] = "pick" => Fresh(j)'
      BY <1>9, <1>b DEF EndRedo, CleanReduces, Fresh
    <2>2. FreshBook(j)'
      BY <2>1 DEF FreshBook, Planning, Mapping, Replans
    <2>3. JoinBook(j)'
      BY <1>a, <2>1, NoReduceJoins DEF ReduceBook, Redoing
    <2>4. DoneBook(j)'
      BY <1>a, <1>d, <2>1 DEF DoneBook, Replans
    <2> QED BY <2>2, <2>3, <2>4
  \* The final reduce joins the file of each map, from the node it is on.
  <1>10. CASE PickFinal(j)
    <2>1. /\ pc[j] = "pick" /\ pc'[j] \in {"notify", "free"} /\ orders[j] = {}
          /\ UNCHANGED <<where, done, pending, orders>>
          /\ temps[j] = {} /\ notify[j] = {}
      BY <1>10, <1>a, <1>b DEF PickFinal, FreshBook, Fresh, ReduceBook
    <2>2. FreshBook(j)' /\ DoneBook(j)'
      BY <1>a, <1>d, <2>1 DEF FreshBook, Planning, Mapping, Replans, DoneBook
    <2>3. JoinBook(j)'
      <3>1. CASE pc'[j] = "free"
        BY <1>10, <1>b, <2>1, <3>1, NoReduceJoins DEF PickFinal
      <3>2. CASE pc'[j] = "notify"
        <4>1. /\ temps'[j] = {<<{m}, where[m]>> : m \in Planned(j)}
              /\ \A o \in notify'[j] : o[1] = "final"
          BY <1>10, <1>b, <2>1, <3>2 DEF PickFinal
        <4>2. UNION {t[1] : t \in temps'[j]} = Planned(j)
          <5>1. \A m \in Planned(j) : <<{m}, where[m]>> \in temps'[j] /\ <<{m}, where[m]>>[1] = {m}
            BY <4>1
          <5>2. \A t \in temps'[j] : t[1] \subseteq Planned(j)
            BY <4>1
          <5>3. \A m \in Planned(j) : \E t \in temps'[j] : m \in t[1]
            BY <5>1
          <5> QED BY <5>2, <5>3
        <4>3. \A t, u \in temps'[j] : t # u => t[1] \cap u[1] = {}
          <5> SUFFICES ASSUME NEW t \in temps'[j], NEW u \in temps'[j], NEW m \in t[1] \cap u[1]
                       PROVE  t = u
            OBVIOUS
          <5>1. t = <<{m}, where[m]>>
            BY <4>1
          <5>2. u = <<{m}, where[m]>>
            BY <4>1
          <5> QED BY <5>1, <5>2
        <4> QED BY <1>d, <2>1, <3>2, <4>1, <4>2, <4>3 DEF JoinBook, JoinedOnce
      <3> QED BY <2>1, <3>1, <3>2
    <2> QED BY <2>2, <2>3
  \* A partial reduce joins the maps of a node.
  <1>11. CASE PlanPartials(j)
    <2>1. /\ pc[j] = "pick" /\ pc'[j] \in {"notify", "pickfinal"} /\ orders[j] = {}
          /\ UNCHANGED <<where, done, pending, orders, temps>>
          /\ Fresh(j)
          /\ partials'[j] = [n \in Node |-> partials[j][n] \cup PlannedOn(j, n)]
          /\ \A o \in notify'[j] : o[1] = "partial"
      BY <1>11, <1>a, <1>b DEF PlanPartials, FreshBook, ReduceBook
    <2>2. FreshBook(j)' /\ DoneBook(j)'
      BY <1>a, <1>d, <2>1 DEF FreshBook, Planning, Mapping, Replans, DoneBook
    <2>3. Parted(j)'
      BY <1>d, <2>1 DEF Parted, Fresh
    <2>4. JoinBook(j)'
      BY <2>1, <2>3 DEF JoinBook
    <2> QED BY <2>2, <2>4
  <1>12. CASE notificarReduce(j)
    <2>1. /\ pc[j] = "notify" /\ pc'[j] \in {"notify", "waitred", "free"}
          /\ UNCHANGED <<where, done, pending, partials, temps>>
          /\ notify'[j] \cup orders'[j] = notify[j] \cup orders[j]
      BY <1>12, <1>b DEF notificarReduce
    <2>2. FreshBook(j)' /\ DoneBook(j)'
      BY <1>a, <1>d, <2>1 DEF FreshBook, Planning, Mapping, Replans, DoneBook
    <2>3. JoinBook(j)'
      BY <1>a, <1>d, <2>1 DEF JoinBook, Parted, JoinedOnce
    <2> QED BY <2>2, <2>3
  <1>13. CASE RecvReduceResult(j)
    <2>1. PICK o \in orders[j] :
            /\ pc[j] = "waitred" /\ orders'[j] = orders[j] \ {o}
            /\ UNCHANGED <<where, done, pending, partials, temps, notify>>
            /\ \/ pc'[j] \in {"waitred", "redo", "deactred"}
               \/ pc'[j] = "copy" /\ o[1] = "final"
               \/ pc'[j] = "pickfinal" /\ o[1] # "final"
      BY <1>13, <1>b DEF RecvReduceResult
    <2>2. FreshBook(j)' /\ DoneBook(j)'
      BY <1>a, <1>d, <2>1 DEF FreshBook, Planning, Mapping, Replans, DoneBook
    <2>3. o[1] \in {"partial", "final"}
      BY <1>b DEF Reduce
    <2>4. JoinBook(j)'
      BY <1>a, <1>d, <2>1, <2>3 DEF JoinBook, Parted, JoinedOnce
    <2> QED BY <2>2, <2>4
  \* The final reduce joins the partial results, one per node.
  <1>14. CASE PickCombinerFinal(j)
    <2>1. /\ pc[j] = "pickfinal" /\ notify[j] = {} /\ orders[j] = {} /\ Parted(j)
          /\ UNCHANGED <<where, done, pending, partials, orders>>
          /\ pc'[j] \in {"notify", "pickfinal"}
      BY <1>14, <1>a, <1>b DEF PickCombinerFinal, JoinBook, ReduceBook
    <2>2. FreshBook(j)' /\ DoneBook(j)'
      BY <1>a, <1>d, <2>1 DEF FreshBook, Planning, Mapping, Replans, DoneBook
    <2>3. CASE pc'[j] = "pickfinal"
      <3>1. UNCHANGED <<temps, notify>>
        BY <1>14, <1>b, <2>1, <2>3 DEF PickCombinerFinal
      <3> QED BY <1>a, <1>d, <2>1, <2>2, <3>1 DEF JoinBook, Parted
    <2>4. CASE pc'[j] = "notify"
      <3> DEFINE nodes == {n \in Node : PlannedOn(j, n) # {}}
      <3>1. /\ temps'[j] = {<<PlannedOn(j, k), k>> : k \in nodes}
            /\ \A o \in notify'[j] : o[1] = "final"
        <4>1. {n \in Node : partials[j][n] # {}} = nodes
          BY <2>1 DEF Parted
        <4>2. {<<partials[j][k], k>> : k \in nodes} = {<<PlannedOn(j, k), k>> : k \in nodes}
          BY <2>1 DEF Parted
        <4> DEFINE pairs(S) == {<<partials[j][k], k>> : k \in S}
        <4> HIDE DEF pairs, nodes
        <4>3. /\ temps' = [temps EXCEPT ![j] = @ \cup pairs({n \in Node : partials[j][n] # {}})]
              /\ \A o \in notify'[j] : o[1] = "final"
          <5> DEFINE held == {n \in Node : partials[j][n] # {}}
          <5>1. \/ UNCHANGED pc
                \/ \E n \in selectNode(held) :
                     /\ temps' = [temps EXCEPT ![j] = @ \cup pairs(held)]
                     /\ notify' = [notify EXCEPT ![j] = {<<"final", n>>}]
            BY <1>14, Zenon DEF PickCombinerFinal, pairs
          <5> HIDE DEF held
          <5>2. pc' # pc
            BY <2>1, <2>4
          <5>3. \A o \in notify'[j] : o[1] = "final"
            BY <1>b, <5>1, <5>2
          <5> QED BY <5>1, <5>2, <5>3 DEF held
        <4>4. temps'[j] = pairs(nodes)
          <5>1. temps[j] = {} /\ j \in DOMAIN temps
            BY <1>b, <2>1 DEF Parted
          <5> QED BY <4>1, <4>3, <5>1
        <4>5. pairs(nodes) = {<<PlannedOn(j, k), k>> : k \in nodes}
          BY <4>2 DEF pairs
        <4> QED BY <4>3, <4>4, <4>5
      <3>2. \A m \in Planned(j) : where[m] \in nodes /\ m \in PlannedOn(j, where[m])
        BY <1>b, <1>c DEF Planned, PlannedOn
      <3>3. UNION {t[1] : t \in temps'[j]} = Planned(j)
        <4>1. \A n \in Node : PlannedOn(j, n) \subseteq Planned(j)
          BY DEF PlannedOn
        <4> HIDE DEF nodes
        <4>2. \A m \in Planned(j) : \E t \in temps'[j] : m \in t[1]
          <5>1. \A m \in Planned(j) :
                  LET t == <<PlannedOn(j, where[m]), where[m]>> IN t \in temps'[j] /\ m \in t[1]
            BY <3>1, <3>2
          <5> QED BY <5>1
        <4>3. \A t \in temps'[j] : t[1] \subseteq Planned(j)
          BY <3>1, <4>1 DEF nodes
        <4> QED BY <4>2, <4>3
      <3>4. \A t, u \in temps'[j] : t # u => t[1] \cap u[1] = {}
        BY <3>1 DEF PlannedOn
      <3>5. JoinBook(j)'
        BY <1>d, <2>1, <2>4, <3>1, <3>3, <3>4 DEF JoinBook, JoinedOnce
      <3> QED BY <2>2, <3>5
    <2> QED BY <2>1, <2>3, <2>4
  <1>15. CASE FreeMap(j) \/ EndJob(j)
    <2>1. CASE FreeMap(j)
      <3>1. /\ pc'[j] = "free" /\ pc[j] = "free"
            /\ UNCHANGED <<where, partials, temps, notify, orders>>
        BY <2>1 DEF FreeMap
      <3> QED BY <1>a, <1>d, <3>1 DEF FreshBook, JoinBook, DoneBook, Parted, JoinedOnce,
                 Planning, Mapping, Replans
    <2>2. CASE EndJob(j)
      <3>1. pc'[j] = "ended" /\ notify'[j] = {} /\ orders'[j] = {}
        BY <2>2, <1>b DEF EndJob
      <3> QED BY <3>1, NoReduceJoins DEF FreshBook, DoneBook, Planning, Mapping, Replans
    <2> QED BY <1>15, <2>1, <2>2
  <1> QED BY <1>1, <1>2, <1>3, <1>4, <1>5, <1>6, <1>7, <1>8, <1>9, <1>10, <1>11, <1>12,
             <1>13, <1>14, <1>15 DEF Thread

\* At the start nothing is planned.
LEMMA InitResults == Init => Results
  <1> SUFFICES ASSUME Init, NEW j \in Job
               PROVE  FreshBook(j) /\ JoinBook(j) /\ DoneBook(j)
    BY DEF Results
  <1>1. Planned(j) = {}
    BY MartaAssumption DEF MartaAssumption, Init, Planned, MapsOf
  <1> QED BY <1>1 DEF Init, FreshBook, JoinBook, DoneBook, Fresh, Replans

\* Every step keeps the results of every job.
LEMMA StepResults ==
    TypeOK /\ Locals /\ Books /\ Results /\ TypeOK' /\ Locals' /\ Books' /\ [Next]_vars => Results'
  <1> SUFFICES ASSUME TypeOK, Locals, Books, Results, [Next]_vars, TypeOK', Locals', Books'
               PROVE  Results'
    OBVIOUS
  <1>1. CASE \E j \in Job : Thread(j)
    BY <1>1, OwnResults, OtherResults DEF Results
  <1>2. CASE UNCHANGED <<mapVars, redVars, pc, planVars>>
    <2> SUFFICES ASSUME NEW k \in Job PROVE FreshBook(k)' /\ JoinBook(k)' /\ DoneBook(k)'
      BY DEF Results
    <2> QED BY <1>2, SameResults DEF Results, mapVars, redVars, planVars
  <1> QED BY <1>1, <1>2 DEF Next, NodeDrops, NodeReturns, Waiting, vars

\* When the result of a job is copied, its final reduce has joined each map planned
\* once, through one file of one node, and each is done: however results fail, and
\* whatever rePlanMapsFromNode and freeJob of other jobs do meanwhile.
THEOREM FinalJoinsOnce == Spec => []FinalJoinsEachMapOnce
  <1> DEFINE IInv == TypeOK /\ Locals /\ Books /\ Results
  <1>1. Init => IInv
    BY InitTypes, InitBooks, InitResults
  <1>2. IInv /\ [Next]_vars => IInv'
    BY StepTypes, StepBooks, StepResults
  <1>3. IInv => FinalJoinsEachMapOnce
    <2> SUFFICES ASSUME IInv, NEW j \in Job, pc[j] = "copy"
                 PROVE  JoinedOnce(j) /\ Planned(j) \subseteq done
      BY DEF FinalJoinsEachMapOnce, JoinedOnce
    <2>1. JoinedOnce(j)
      BY DEF Results, JoinBook
    <2>2. pending \cap MapsOf(j) = {}
      BY DEF Books, MapBook, Reducing
    <2>3. Planned(j) \subseteq done
      BY <2>2 DEF Results, DoneBook, Replans, Planned
    <2> QED BY <2>1, <2>3
  <1> QED BY <1>1, <1>2, <1>3, PTL DEF Spec

----------------------------------------------------------------------------
\* One job.  Nobody but its own thread deactivates nodes.
OneJob   == \A i, k \in Job : i = k
HasFiles == \A j \in Job : MapsOf(j) # {}

\* The blocks it has had mapped.  Until it begins to plan, the file system has named an
\* active node for each block of the files it was asked for; while it plans, all nodes it
\* may choose are active, so no block is skipped; then every block has its map.
CoverBook(j) ==
    /\ pc[j] # "unplan"
    /\ Planning(j) => /\ \A m \in MapsOf(j) : copies[m] \subseteq active
                      /\ \A m \in Planned(j) : where[m] \in active
                      /\ pc[j] = "add" => sel[j] \in active
    /\ Replans(j, "plan") =>
         /\ todo[j] = MapsOf(j)
         /\ pc[j] = "request" => reply[j] = {}
         /\ avail[j] => \A m \in MapsOf(j) :
              FileOf[m] \in files[j] \/ copies[m] # {} \/ \E n \in Node : <<m, n>> \in reply[j]
    /\ pc[j] \in {"plan", "add"} => /\ \A m \in MapsOf(j) : copies[m] # {}
                                    /\ MapsOf(j) \ Planned(j) \subseteq todo[j]
    /\ ~Planning(j) /\ pc[j] \notin {"free", "ended"} => Planned(j) = MapsOf(j)
    /\ outcome[j] = "ok" => Planned(j) = MapsOf(j)

\* A step past the planning.
LEMMA CoveredOn ==
    ASSUME NEW j \in Job, CoverBook(j), ~Planning(j), ~Planning(j)',
           pc'[j] \in {"free", "ended"} \/ pc[j] \notin {"free", "ended"},
           Planned(j) \subseteq Planned(j)',
           outcome'[j] = outcome[j] \/ outcome'[j] # "ok" \/ pc[j] \notin {"free", "ended"}
    PROVE  CoverBook(j)'
  <1>1. Planned(j) \subseteq MapsOf(j) /\ Planned(j)' \subseteq MapsOf(j)
    BY DEF Planned
  <1>2. pc'[j] \notin {"unplan", "plan", "add"} /\ ~Replans(j, "plan")'
    BY DEF Planning
  <1> QED BY <1>1, <1>2 DEF CoverBook

\* Every step of the job.
LEMMA CoverStep ==
    ASSUME TypeOK, TypeOK', Locals, Books, NEW j \in Job, CoverBook(j), Thread(j)
    PROVE  CoverBook(j)'
  <1>a. /\ pc \in [Job -> PC] /\ caller \in [Job -> Caller] /\ files \in [Job -> SUBSET File]
        /\ avail \in [Job -> BOOLEAN] /\ reply \in [Job -> SUBSET (Map \X Node)]
        /\ copies \in [Map -> SUBSET Node] /\ where \in [Map -> Node \cup {NoNode}]
        /\ todo \in [Job -> SUBSET Map] /\ cur \in [Job -> Map \cup {NoMap}]
        /\ sel \in [Job -> Node \cup {NoNode}] /\ outcome \in [Job -> Outcome]
        /\ active \in SUBSET Node /\ fsUp \in SUBSET Node
    BY DEF TypeOK, EndTypes, PlanTypes, RequestTypes, MapTypes, NodeTypes, EnvTypes
  <1>b. MapsOf(j) \subseteq Map /\ Planned(j) \subseteq MapsOf(j) /\ NoNode \notin Node
    BY MartaAssumption DEF Planned, MapsOf, MartaAssumption
  <1>c. MapBook(j)
    BY DEF Books
  <1>1. CASE RequestFile(j) \/ ApplyCopy(j)
    <2>1. /\ pc[j] \in {"request", "apply"} /\ pc'[j] \in {"request", "apply"}
          /\ UNCHANGED <<caller, where, todo, outcome>> /\ Planned(j)' = Planned(j)
      BY <1>a, <1>1 DEF RequestFile, ApplyCopy, Goto, mapVars, planVars, endVars, Planned
    <2>2. CASE caller[j] # "plan"
      <3>1. ~Planning(j) /\ ~Planning(j)'
        BY <1>a, <2>1, <2>2 DEF Planning, Replans
      <3> QED BY <2>1, <3>1, CoveredOn
    <2>3. CASE caller[j] = "plan"
      <3> SUFFICES /\ \A m \in MapsOf(j) : copies'[m] \subseteq active'
                   /\ active \subseteq active'
                   /\ pc'[j] = "request" => reply'[j] = {}
                   /\ avail'[j] => \A m \in MapsOf(j) :
                        \/ FileOf[m] \in files'[j] \/ copies'[m] # {}
                        \/ \E n \in Node : <<m, n>> \in reply'[j]
        BY <2>1, <2>3 DEF CoverBook, Planning, Replans
      <3>1. /\ Planning(j) /\ Replans(j, "plan")
            /\ \A m \in MapsOf(j) : copies[m] \subseteq active
            /\ pc[j] = "request" => reply[j] = {}
            /\ avail[j] => \A m \in MapsOf(j) :
                 FileOf[m] \in files[j] \/ copies[m] # {} \/ \E n \in Node : <<m, n>> \in reply[j]
        BY <2>1, <2>3 DEF CoverBook, Planning, Replans
      <3>2. CASE RequestFile(j)
        <4>1. PICK f \in files[j] :
                LET ms == {m \in MapsOf(j) : FileOf[m] = f}
                IN  /\ files' = [files EXCEPT ![j] = @ \ {f}]
                    /\ \/ /\ \A m \in ms : UpHolders(m) # {}
                          /\ reply' = [reply EXCEPT ![j] =
                                         {r \in ms \X Node : r[2] \in UpHolders(r[1])}]
                          /\ Goto(j, "apply")
                          /\ UNCHANGED avail
                       \/ /\ FileUnavailable(j)
                          /\ UNCHANGED <<reply, pc>>
          BY <3>2 DEF RequestFile
        <4>2. pc[j] = "request" /\ UNCHANGED <<active, copies>>
          BY <3>2 DEF RequestFile, nodeVars, mapVars
        <4> DEFINE ms == {m \in MapsOf(j) : FileOf[m] = f}
        <4>3. CASE FileUnavailable(j) /\ UNCHANGED <<reply, pc>>
          BY <1>a, <2>3, <3>1, <4>2, <4>3 DEF FileUnavailable
        <4>4. CASE /\ \A m \in ms : UpHolders(m) # {}
                   /\ reply' = [reply EXCEPT ![j] =
                                  {r \in ms \X Node : r[2] \in UpHolders(r[1])}]
                   /\ Goto(j, "apply")
                   /\ UNCHANGED avail
          <5>1. pc'[j] = "apply" /\ reply'[j] = {r \in ms \X Node : r[2] \in UpHolders(r[1])}
            BY <1>a, <4>4 DEF Goto
          <5>2. \A m \in ms : \E n \in Node : <<m, n>> \in reply'[j]
            <6> SUFFICES ASSUME NEW m \in ms PROVE \E n \in Node : <<m, n>> \in reply'[j]
              OBVIOUS
            <6>1. PICK n \in UpHolders(m) : n \in Node
              BY <1>a, <4>4 DEF UpHolders
            <6> HIDE DEF ms
            <6>2. <<m, n>> \in ms \X Node /\ <<m, n>>[1] = m /\ <<m, n>>[2] = n
              BY <6>1
            <6> QED BY <5>1, <6>1, <6>2
          <5>3. files'[j] = files[j] \ {f}
            BY <1>a, <4>1
          <5> QED BY <3>1, <4>2, <4>4, <5>1, <5>2, <5>3
        <4> QED BY <4>1, <4>3, <4>4
      <3>3. CASE ApplyCopy(j)
        <4>1. PICK r \in reply[j] :
                /\ updateNodes(r[2])
                /\ copies' = [copies EXCEPT ![r[1]] = @ \cup {r[2]}]
                /\ reply' = [reply EXCEPT ![j] = @ \ {r}]
                /\ Goto(j, IF reply[j] = {r} THEN "request" ELSE "apply")
          BY <2>3, <3>3 DEF ApplyCopy
        <4>2. UNCHANGED <<files, avail>>
          BY <3>3 DEF ApplyCopy
        <4>3. r \in Map \X Node /\ r = <<r[1], r[2]>> /\ r[1] \in Map /\ r[2] \in Node
          BY <1>a
        <4>4. active' = active \cup {r[2]} /\ reply'[j] = reply[j] \ {r}
          BY <1>a, <4>1 DEF updateNodes
        <4>5. \A m \in Map : copies'[m] = IF m = r[1] THEN copies[m] \cup {r[2]} ELSE copies[m]
          BY <1>a, <4>1, <4>3
        <4>6. pc'[j] = "request" => reply'[j] = {}
          BY <1>a, <4>1, <4>4 DEF Goto
        <4>7. \A m \in MapsOf(j) : copies'[m] \subseteq active'
          BY <1>b, <3>1, <4>4, <4>5
        <4>8. ASSUME NEW m \in MapsOf(j), NEW n \in Node, <<m, n>> \in reply[j]
              PROVE  copies'[m] # {} \/ <<m, n>> \in reply'[j]
          <5>1. CASE <<m, n>> = r
            <6>1. m = r[1]
              BY <5>1
            <6> QED BY <1>b, <4>3, <4>5, <6>1
          <5>2. CASE <<m, n>> # r
            BY <4>4, <4>8, <5>2
          <5> QED BY <5>1, <5>2
        <4>9. \A m \in MapsOf(j) : copies[m] \subseteq copies'[m]
          BY <1>b, <4>5
        <4> QED BY <3>1, <4>2, <4>4, <4>6, <4>7, <4>8, <4>9
      <3> QED BY <1>1, <3>2, <3>3
    <2> QED BY <2>2, <2>3
  <1>2. CASE StartPlanning(j)
    <2>1. /\ pc[j] = "request" /\ caller[j] = "plan" /\ files[j] = {}
          /\ UNCHANGED <<active, copies, where, todo>> /\ Planned(j)' = Planned(j)
          /\ \/ avail[j] /\ pc'[j] = "plan" /\ UNCHANGED outcome
             \/ pc'[j] = "free" /\ outcome'[j] = "unavailable"
      BY <1>a, <1>2 DEF StartPlanning, Finish, Goto, nodeVars, mapVars, Planned
    <2> QED BY <1>b, <2>1 DEF CoverBook, Planning, Replans
  <1>3. CASE SelectForPlan(j)
    <2>1. /\ pc[j] = "plan" /\ UNCHANGED <<active, copies, where, outcome>>
          /\ Planned(j)' = Planned(j)
      BY <1>3 DEF SelectForPlan, nodeVars, mapVars, endVars, Planned
    <2>2. \A m \in todo[j] : copies[m] \cap active # {}
      BY <1>c, <2>1 DEF MapBook, CoverBook, Planning
    <2>3. pc'[j] = "add" /\ sel'[j] \in active /\ UNCHANGED todo
      BY <1>a, <1>3, <2>2 DEF SelectForPlan, selectNode, Goto
    <2> QED BY <2>1, <2>3 DEF CoverBook, Planning, Replans
  <1>4. CASE PlanMap(j)
    <2>1. /\ pc[j] = "add" /\ cur[j] \in MapsOf(j) /\ sel[j] \in Node /\ sel[j] \in active
          /\ where' = [where EXCEPT ![cur[j]] = sel[j]] /\ todo'[j] = todo[j] \ {cur[j]}
          /\ UNCHANGED <<active, copies>>
          /\ \/ pc'[j] = "plan" /\ UNCHANGED outcome
             \/ pc'[j] = "free" /\ outcome'[j] = "lost"
      BY <1>a, <1>c, <1>4 DEF PlanMap, Finish, Goto, MapBook, CoverBook, Planning, Locals, LocalOK
    <2>2. /\ Planned(j)' = Planned(j) \cup {cur[j]}
          /\ \A m \in Planned(j) \ {cur[j]} : where'[m] = where[m]
          /\ where'[cur[j]] = sel[j]
      BY <1>a, <1>b, <2>1 DEF Planned
    <2> QED BY <1>b, <2>1, <2>2 DEF CoverBook, Planning, Replans
  <1>5. CASE Unplan(j)
    BY <1>5 DEF Unplan, CoverBook
  <1>6. CASE EndPlanning(j)
    <2>1. /\ pc[j] = "plan" /\ todo[j] = {} /\ pc'[j] \in {"pick", "wait"}
          /\ UNCHANGED outcome /\ Planned(j)' = Planned(j)
      BY <1>a, <1>6 DEF EndPlanning, Goto, mapVars, Planned
    <2>2. Planned(j) = MapsOf(j)
      BY <1>b, <2>1 DEF CoverBook
    <2> QED BY <2>1, <2>2 DEF CoverBook, Planning, Replans
  <1>7. CASE Replan(j)
    <2>1. /\ pc[j] = "request" /\ caller[j] # "plan" /\ cur[j] \in MapsOf(j)
          /\ \/ \E n \in Node : where' = [where EXCEPT ![cur[j]] = n]
             \/ where' = where
          /\ pc'[j] \in {"wait", "free", "redo"}
      BY <1>a, <1>c, <1>7, HelperTypes DEF Replan, Finish, Goto, MapBook, HasMap, Replans, Caller
    <2>2. ~Planning(j) /\ ~Planning(j)'
      BY <2>1 DEF Planning, Replans
    <2>3. Planned(j) \subseteq Planned(j)'
      BY <1>a, <1>b, <2>1 DEF Planned
    <2> QED BY <2>1, <2>2, <2>3, CoveredOn
  <1>8. CASE \/ RecvMapResult(j) \/ DeactivateMapNode(j) \/ RedoMap(j) \/ NextFallen(j)
             \/ EndRedo(j) \/ PickFinal(j) \/ PlanPartials(j) \/ notificarReduce(j)
             \/ RecvReduceResult(j) \/ DeactivateReduceNode(j) \/ PickCombinerFinal(j)
             \/ CopyFinal(j) \/ JobLost(j)
    <2>1. UNCHANGED where
      BY <1>8 DEF RecvMapResult, DeactivateMapNode, RedoMap, NextFallen, EndRedo, PickFinal,
                  PlanPartials, notificarReduce, RecvReduceResult, DeactivateReduceNode,
                  PickCombinerFinal, CopyFinal, JobLost, mapVars
    <2>2. /\ pc[j] \in {"wait", "deact", "redo", "pick", "notify", "waitred", "deactred",
                        "pickfinal", "copy"}
          /\ \/ pc'[j] = "request" /\ caller'[j] \in {"result", "redo"}
             \/ pc'[j] \in {"wait", "deact", "redo", "pick", "notify", "waitred", "deactred",
                            "pickfinal", "copy", "free"}
      BY <1>a, <1>8 DEF RecvMapResult, DeactivateMapNode, RedoMap, NextFallen, EndRedo, PickFinal,
                  PlanPartials, notificarReduce, RecvReduceResult, DeactivateReduceNode,
                  PickCombinerFinal, CopyFinal, JobLost, Finish, Goto
    <2>3. ~Planning(j) /\ ~Planning(j)'
      BY <2>2 DEF Planning, Replans
    <2>4. Planned(j)' = Planned(j)
      BY <2>1 DEF Planned
    <2> QED BY <2>2, <2>3, <2>4, CoveredOn
  <1>9. CASE FreeMap(j) \/ EndJob(j)
    <2>1. /\ pc[j] = "free" /\ pc'[j] \in {"free", "ended"} /\ UNCHANGED <<where, outcome>>
      BY <1>a, <1>9 DEF FreeMap, EndJob, Goto, mapVars, endVars
    <2>2. ~Planning(j) /\ ~Planning(j)' /\ Planned(j)' = Planned(j)
      BY <2>1 DEF Planning, Replans, Planned
    <2> QED BY <2>1, <2>2, CoveredOn
  <1> QED BY <1>1, <1>2, <1>3, <1>4, <1>5, <1>6, <1>7, <1>8, <1>9 DEF Thread


----------------------------------------------------------------------------
\* Some node that has a map of the job is active.
Serves(j) == \E m \in Planned(j) : where[m] \in active

\* Where the maps of a job are, while it waits and reduces.  Nodes of reduces have maps; a
\* node that falls does, and its maps are planned again before a node is chosen.
ServeBook(j) ==
    /\ pc[j] \in {"wait", "pick", "notify", "pickfinal"} => Serves(j)
    /\ pc[j] = "waitred" /\ fallen[j] = <<>> => Serves(j)
    /\ pc[j] = "redo" /\ avail[j] =>
         Serves(j) \/ (fallen[j] # <<>> /\ \E m \in todo[j] : where[m] = Head(fallen[j]))
    /\ pc[j] \in {"pick", "notify", "pickfinal"} => fallen[j] = <<>>
    /\ pc[j] \in {"waitred", "deactred"} /\ fallen[j] # <<>> =>
         PlannedOn(j, Head(fallen[j])) # {}
    /\ pc[j] = "waitred" /\ fallen[j] # <<>> => todo[j] = Planned(j)
    /\ pc[j] = "deactred" => PlannedOn(j, sel[j]) # {}
    /\ pc[j] = "copy" => PlannedOn(j, final[j]) # {}
    /\ Reducing(j) =>
         /\ \A o \in notify[j] \cup orders[j] :
              PlannedOn(j, o[2]) # {} /\ (o[1] = "final" => final[j] = o[2])
         /\ \A t \in temps[j] : PlannedOn(j, t[2]) # {}

\* Outside of the phases it speaks of, ServeBook says nothing.
LEMMA ServeQuiet ==
    ASSUME NEW j \in Job, pc'[j] \in {"request", "apply", "plan", "add", "unplan", "deact",
                                      "free", "ended"}
    PROVE  ServeBook(j)'
  BY DEF ServeBook, Reducing

\* While the maps are ordered.
LEMMA ServeMapping ==
    ASSUME HasFiles, TypeOK, Books, Results, NEW j \in Job, CoverBook(j), ServeBook(j),
           EndPlanning(j) \/ RecvMapResult(j) \/ Replan(j)
    PROVE  ServeBook(j)'
  <1>a. /\ pc \in [Job -> PC] /\ avail \in [Job -> BOOLEAN] /\ caller \in [Job -> Caller]
        /\ where \in [Map -> Node \cup {NoNode}] /\ MapsOf(j) \subseteq Map
        /\ Planned(j) \subseteq MapsOf(j) /\ NoNode \notin Node
    BY MartaAssumption
    DEF TypeOK, EndTypes, PlanTypes, RequestTypes, MapTypes, Planned, MapsOf, MartaAssumption
  <1>1. CASE EndPlanning(j)
    <2>1. /\ pc[j] = "plan" /\ todo[j] = {} /\ UNCHANGED <<where, active>>
          /\ pc'[j] = IF Planned(j) = {} THEN "pick" ELSE "wait"
      BY <1>a, <1>1 DEF EndPlanning, Goto, mapVars, nodeVars
    <2>2. Planned(j) = MapsOf(j) /\ \A m \in Planned(j) : where[m] \in active
      BY <1>a, <2>1 DEF CoverBook, Planning
    <2>3. Planned(j) # {} /\ Planned(j)' = Planned(j)
      BY <2>1, <2>2 DEF HasFiles, Planned
    <2> QED BY <2>1, <2>2, <2>3 DEF ServeBook, Serves, Reducing
  <1>2. CASE RecvMapResult(j)
    <2>1. /\ pc[j] = "wait"
          /\ UNCHANGED <<where, active, fallen, avail, todo, notify, orders, temps>>
          /\ pc'[j] = "deact" \/ pc'[j] = "wait"
             \/ (pc'[j] = "pick" /\ fallen[j] = <<>>) \/ (pc'[j] = "redo" /\ fallen[j] # <<>>)
      BY <1>a, <1>2 DEF RecvMapResult, Goto, reqVars, redVars
    <2>2. Serves(j) /\ Serves(j)'
      BY <2>1 DEF ServeBook, Serves, Planned
    <2>3. CASE pc'[j] = "pick" /\ fallen[j] = <<>>
      <3>1. notify[j] = {} /\ orders[j] = {} /\ temps[j] = {}
        BY <2>1, <2>3 DEF Books, ReduceBook, Mapping, Results, FreshBook, Fresh
      <3> QED BY <2>1, <2>2, <2>3, <3>1 DEF ServeBook, Reducing
    <2>4. CASE pc'[j] = "wait" \/ (pc'[j] = "redo" /\ fallen[j] # <<>>)
      BY <2>2, <2>4 DEF ServeBook, Reducing
    <2> QED BY <2>1, <2>3, <2>4, ServeQuiet
  <1>3. CASE Replan(j)
    <2>1. cur[j] \in MapsOf(j)
      BY <1>a, <1>3 DEF Replan, Books, MapBook, HasMap, Replans, Caller
    <2>2. \/ \E n \in active : where' = [where EXCEPT ![cur[j]] = n] /\ pc'[j] = "wait"
          \/ pc'[j] = "free"
          \/ pc'[j] = "redo" /\ ~avail'[j]
      BY <1>a, <1>3 DEF Replan, Goto, Finish, selectNode
    <2>3. CASE pc'[j] = "wait"
      <3>1. PICK n \in active : where' = [where EXCEPT ![cur[j]] = n]
        BY <2>2, <2>3
      <3>2. active' = active /\ n \in Node
        BY <1>3 DEF Replan, nodeVars, TypeOK, NodeTypes
      <3>3. cur[j] \in Planned(j)' /\ where'[cur[j]] = n
        BY <1>a, <2>1, <3>1, <3>2 DEF Planned
      <3> QED BY <2>3, <3>2, <3>3 DEF ServeBook, Serves, Reducing
    <2>4. CASE pc'[j] = "redo" /\ ~avail'[j]
      BY <2>4 DEF ServeBook, Reducing
    <2> QED BY <2>2, <2>3, <2>4, ServeQuiet
  <1> QED BY <1>1, <1>2, <1>3

\* While maps are ordered again after reduces that failed.
LEMMA ServeRedoing ==
    ASSUME TypeOK, Books, NEW j \in Job, ServeBook(j), NextFallen(j) \/ EndRedo(j)
    PROVE  ServeBook(j)'
  <1>a. /\ pc \in [Job -> PC] /\ avail \in [Job -> BOOLEAN]
        /\ temps \in [Job -> SUBSET ((SUBSET Map) \X Node)]
    BY DEF TypeOK, EndTypes, RequestTypes, ReduceTypes
  <1>1. CASE NextFallen(j)
    <2>1. /\ pc[j] = "redo" /\ pc' = pc /\ UNCHANGED <<avail, where, active>>
          /\ \A m \in todo[j] : where[m] # Head(fallen[j])
      BY <1>1 DEF NextFallen, nodeVars, mapVars, reqVars
    <2>2. avail[j] => Serves(j)
      BY <2>1 DEF ServeBook
    <2>3. avail'[j] => Serves(j)'
      BY <2>1, <2>2 DEF Serves, Planned
    <2> QED BY <2>1, <2>3 DEF ServeBook, Reducing
  <1>2. CASE EndRedo(j)
    <2>1. /\ pc[j] = "redo" /\ fallen[j] = <<>>
          /\ UNCHANGED <<avail, where, active, notify, orders, fallen>>
          /\ \/ avail[j] /\ pc'[j] = "pick" /\ temps'[j] = {}
             \/ pc'[j] = "free"
      BY <1>a, <1>2 DEF EndRedo, CleanReduces, Finish, Goto, nodeVars, mapVars, reqVars
    <2>2. CASE avail[j] /\ pc'[j] = "pick" /\ temps'[j] = {}
      <3>1. Serves(j)'
        BY <2>1, <2>2 DEF ServeBook, Serves, Planned
      <3>2. notify[j] = {} /\ orders[j] = {}
        BY <2>1 DEF Books, ReduceBook, Redoing
      <3> QED BY <2>1, <2>2, <3>1, <3>2 DEF ServeBook, Reducing
    <2> QED BY <2>1, <2>2, ServeQuiet
  <1> QED BY <1>1, <1>2

\* While the reduces are planned and ordered.
LEMMA ServePlanning ==
    ASSUME TypeOK, Books, Results, NEW j \in Job, ServeBook(j),
           PickFinal(j) \/ PlanPartials(j) \/ notificarReduce(j)
    PROVE  ServeBook(j)'
  <1>a. /\ pc \in [Job -> PC] /\ final \in [Job -> Node \cup {NoNode}]
        /\ temps \in [Job -> SUBSET ((SUBSET Map) \X Node)]
        /\ notify \in [Job -> SUBSET Reduce] /\ orders \in [Job -> SUBSET Reduce]
        /\ active \subseteq Node
    BY DEF TypeOK, EndTypes, ReduceTypes, NodeTypes
  <1>1. CASE PickFinal(j) \/ PlanPartials(j)
    <2>1. /\ pc[j] = "pick" /\ fallen[j] = <<>> /\ fallen' = fallen
          /\ UNCHANGED <<where, active>> /\ orders' = orders
      BY <1>1 DEF PickFinal, PlanPartials, ServeBook, nodeVars, mapVars, planVars
    <2>2. /\ Serves(j) /\ Serves(j)' /\ Planned(j)' = Planned(j)
          /\ \A n : PlannedOn(j, n)' = PlannedOn(j, n)
      BY <2>1 DEF ServeBook, Serves, Planned, PlannedOn
    <2>3. orders[j] = {} /\ temps[j] = {} /\ \A n \in Node : partials[j][n] = {}
      BY <2>1 DEF Books, ReduceBook, Results, FreshBook, Fresh
    <2>4. CASE PickFinal(j)
      <3>1. CASE pc'[j] = "free"
        BY <3>1, ServeQuiet
      <3>2. CASE pc'[j] # "free"
        <4>1. PICK n \in active :
                /\ Cardinality(PlannedOn(j, n)) > 0
                /\ final' = [final EXCEPT ![j] = n]
                /\ temps' = [temps EXCEPT ![j] =
                                @ \cup {<<{m}, where[m]>> : m \in Planned(j)}]
                /\ notify' = [notify EXCEPT ![j] = {<<"final", n>>}]
                /\ pc'[j] = "notify"
          BY <1>a, <2>4, <3>2 DEF PickFinal, Finish, Goto
        <4>2. PlannedOn(j, n) # {}
          BY <4>1, FS_EmptySet
        <4>3. /\ final'[j] = n /\ notify'[j] = {<<"final", n>>}
              /\ temps'[j] = {<<{m}, where[m]>> : m \in Planned(j)}
          BY <1>a, <2>3, <4>1
        <4>4. \A t \in temps'[j] : PlannedOn(j, t[2]) # {}
          BY <4>3 DEF PlannedOn
        <4> QED BY <2>1, <2>2, <2>3, <4>1, <4>2, <4>3, <4>4 DEF ServeBook
      <3> QED BY <3>1, <3>2
    <2>5. CASE PlanPartials(j)
      <3> DEFINE nodes == {n \in Node : partials[j][n] \cup PlannedOn(j, n) # {}}
      <3>1. /\ notify'[j] = {"partial"} \X nodes /\ temps' = temps
            /\ pc'[j] \in {"pickfinal", "notify"}
        <4>1. /\ notify' = [notify EXCEPT ![j] = {"partial"} \X
                              {n \in Node : [k \in Node |->
                                   partials[j][k] \cup PlannedOn(j, k)][n] # {}}]
              /\ temps' = temps /\ pc'[j] \in {"pickfinal", "notify"}
          BY <1>a, <2>5 DEF PlanPartials, Goto
        <4>2. nodes = {n \in Node : [k \in Node |->
                                       partials[j][k] \cup PlannedOn(j, k)][n] # {}}
          OBVIOUS
        <4> QED BY <1>a, <4>1, <4>2
      <3>2. \A n \in nodes : PlannedOn(j, n) # {}
        BY <2>3
      <3>3. \A o \in notify'[j] : o[1] = "partial" /\ PlannedOn(j, o[2]) # {}
        BY <3>1, <3>2
      <3> QED BY <2>1, <2>2, <2>3, <3>1, <3>3 DEF ServeBook
    <2> QED BY <1>1, <2>4, <2>5
  <1>2. CASE notificarReduce(j)
    <2>1. PICK o \in notify[j] :
            /\ orders' = [orders EXCEPT ![j] = @ \cup {o}]
            /\ notify' = [notify EXCEPT ![j] = @ \ {o}]
            /\ pc'[j] \in {"waitred", "notify", "free"}
      BY <1>a, <1>2 DEF notificarReduce, Goto, Finish
    <2>2. /\ pc[j] = "notify" /\ UNCHANGED <<where, active, fallen, final, temps>>
      BY <1>2 DEF notificarReduce, mapVars
    <2>3. /\ Serves(j) /\ Serves(j)' /\ fallen[j] = <<>> /\ Planned(j)' = Planned(j)
          /\ \A n : PlannedOn(j, n)' = PlannedOn(j, n)
      BY <2>2 DEF ServeBook, Serves, Planned, PlannedOn
    <2>4. notify'[j] \cup orders'[j] = notify[j] \cup orders[j]
      BY <1>a, <2>1
    <2>5. CASE pc'[j] # "free"
      BY <2>1, <2>2, <2>3, <2>4, <2>5 DEF ServeBook, Reducing
    <2> QED BY <2>5, ServeQuiet
  <1> QED BY <1>1, <1>2

\* While the reduces run.
LEMMA ServeReducing ==
    ASSUME TypeOK, Locals, NEW j \in Job, ServeBook(j),
           RecvReduceResult(j) \/ DeactivateReduceNode(j)
    PROVE  ServeBook(j)'
  <1>a. /\ pc \in [Job -> PC] /\ sel \in [Job -> Node \cup {NoNode}]
        /\ todo \in [Job -> SUBSET Map] /\ fallen \in [Job -> Seq(Node)]
        /\ orders \in [Job -> SUBSET Reduce]
    BY DEF TypeOK, EndTypes, ReduceTypes, PlanTypes
  <1>b. UNCHANGED <<where, final, temps, notify>>
    BY DEF RecvReduceResult, DeactivateReduceNode, mapVars, redVars
  <1>c. Planned(j)' = Planned(j) /\ \A n : PlannedOn(j, n)' = PlannedOn(j, n)
    BY <1>b DEF Planned, PlannedOn
  <1>1. CASE RecvReduceResult(j)
    <2>1. PICK o \in orders[j] :
            /\ orders' = [orders EXCEPT ![j] = @ \ {o}]
            /\ \/ /\ pc'[j] \in {"waitred", "copy", "pickfinal", "redo"}
                  /\ pc'[j] = "copy" => o[1] = "final"
                  /\ pc'[j] = "pickfinal" => fallen[j] = <<>>
                  /\ pc'[j] = "redo" => fallen[j] # <<>>
               \/ /\ pc'[j] = "deactred"
                  /\ \E n \in {o[2]} \cup {t[2] : t \in temps[j]} :
                        sel' = [sel EXCEPT ![j] = n]
      BY <1>a, <1>1 DEF RecvReduceResult, Goto
    <2>2. pc[j] = "waitred" /\ UNCHANGED <<active, todo, fallen, avail>>
      BY <1>1 DEF RecvReduceResult, reqVars
    <2>3. /\ \A p \in notify[j] \cup orders[j] :
               PlannedOn(j, p[2]) # {} /\ (p[1] = "final" => final[j] = p[2])
          /\ \A t \in temps[j] : PlannedOn(j, t[2]) # {}
      BY <2>2 DEF ServeBook, Reducing
    <2>4. orders'[j] \subseteq orders[j]
      BY <1>a, <2>1
    <2>5. Serves(j)' <=> Serves(j)
      BY <1>b, <1>c, <2>2 DEF Serves
    <2>6. pc'[j] = "deactred" => PlannedOn(j, sel'[j]) # {}
      BY <1>a, <2>1, <2>3
    <2>7. pc'[j] = "copy" => PlannedOn(j, final[j]) # {}
      BY <2>1, <2>3
    <2>8. pc'[j] = "redo" => \E m \in todo[j] : where[m] = Head(fallen[j])
      BY <2>1, <2>2 DEF ServeBook, PlannedOn
    <2>9. fallen[j] = <<>> => Serves(j)
      BY <2>2 DEF ServeBook
    <2>10. fallen[j] # <<>> => PlannedOn(j, Head(fallen[j])) # {} /\ todo[j] = Planned(j)
      BY <2>2 DEF ServeBook
    <2>11. pc'[j] \in {"waitred", "copy", "pickfinal", "redo", "deactred"}
      BY <2>1
    <2> QED
      BY <1>b, <1>c, <2>1, <2>2, <2>3, <2>4, <2>5, <2>6, <2>7, <2>8, <2>9, <2>10, <2>11
      DEF ServeBook
  <1>2. CASE DeactivateReduceNode(j)
    <2>1. /\ pc[j] = "deactred" /\ pc'[j] \in {"waitred", "redo"} /\ UNCHANGED <<orders, avail>>
          /\ fallen'[j] = Append(fallen[j], sel[j]) /\ todo'[j] = Planned(j)
      BY <1>a, <1>2 DEF DeactivateReduceNode, AddFallen, Goto, redVars, reqVars
    <2>2. /\ PlannedOn(j, sel[j]) # {} /\ sel[j] \in Node
          /\ fallen[j] # <<>> => PlannedOn(j, Head(fallen[j])) # {}
      BY <2>1 DEF ServeBook, Locals, LocalOK
    <2>3. /\ fallen'[j] # <<>>
          /\ Head(fallen'[j]) = IF fallen[j] = <<>> THEN sel[j] ELSE Head(fallen[j])
      <3>1. \A q \in Seq(Node), n \in Node :
              Append(q, n) # <<>> /\ Head(Append(q, n)) = IF q = <<>> THEN n ELSE Head(q)
        <4> SUFFICES ASSUME NEW q \in Seq(Node), NEW n \in Node
                     PROVE  /\ Append(q, n) # <<>>
                            /\ Head(Append(q, n)) = IF q = <<>> THEN n ELSE Head(q)
          OBVIOUS
        <4>1. /\ Append(q, n) \in Seq(Node) /\ Len(Append(q, n)) = Len(q) + 1
              /\ Len(q) \in Nat
          OBVIOUS
        <4>2. Append(q, n) # <<>> /\ Head(Append(q, n)) = Append(q, n)[1]
          BY <4>1
        <4>3. CASE q = <<>>
          <5>1. Append(q, n)[1] = n
            BY <4>3
          <5> QED BY <4>2, <4>3, <5>1
        <4>4. CASE q # <<>>
          <5>1. 1 \in 1 .. Len(q) /\ Head(q) = q[1]
            BY <4>4
          <5>2. Append(q, n)[1] = q[1]
            BY <5>1
          <5> QED BY <4>2, <4>4, <5>1, <5>2
        <4> QED BY <4>3, <4>4
      <3>2. fallen[j] \in Seq(Node)
        BY <1>a
      <3> QED BY <2>1, <2>2, <3>1, <3>2
    <2>4. PlannedOn(j, Head(fallen'[j])) # {}
      BY <2>2, <2>3
    <2>5. \E m \in todo'[j] : where[m] = Head(fallen'[j])
      BY <2>1, <2>4 DEF PlannedOn
    <2>6. /\ \A p \in notify[j] \cup orders[j] :
               PlannedOn(j, p[2]) # {} /\ (p[1] = "final" => final[j] = p[2])
          /\ \A t \in temps[j] : PlannedOn(j, t[2]) # {}
      BY <2>1 DEF ServeBook, Reducing
    <2> QED BY <1>b, <1>c, <2>1, <2>3, <2>4, <2>5, <2>6 DEF ServeBook
  <1> QED BY <1>1, <1>2

\* While the final reduce is planned, and its result copied: there is a node to choose.
LEMMA ServeFinal ==
    ASSUME TypeOK, Locals, Books, Results, NEW j \in Job, ServeBook(j),
           PickCombinerFinal(j) \/ CopyFinal(j)
    PROVE  ServeBook(j)' /\ crashed' = crashed
  <1>a. /\ pc \in [Job -> PC] /\ final \in [Job -> Node \cup {NoNode}]
        /\ temps \in [Job -> SUBSET ((SUBSET Map) \X Node)]
        /\ notify \in [Job -> SUBSET Reduce] /\ active \subseteq Node
        /\ todo \in [Job -> SUBSET Map] /\ fallen \in [Job -> Seq(Node)]
    BY DEF TypeOK, EndTypes, ReduceTypes, NodeTypes, PlanTypes
  <1>b. UNCHANGED <<where, active, orders, avail>>
    BY DEF PickCombinerFinal, CopyFinal, nodeVars, mapVars, redVars, reqVars
  <1>c. Planned(j)' = Planned(j) /\ \A n : PlannedOn(j, n)' = PlannedOn(j, n)
    BY <1>b DEF Planned, PlannedOn
  <1>1. CASE PickCombinerFinal(j)
    <2> DEFINE nodes == {n \in Node : partials[j][n] # {}}
    <2>1. pc[j] = "pickfinal" /\ fallen[j] = <<>> /\ fallen' = fallen
      BY <1>1 DEF PickCombinerFinal, ServeBook, planVars
    <2>2. orders[j] = {} /\ temps[j] = {} /\ \A n \in Node : partials[j][n] = PlannedOn(j, n)
      BY <2>1 DEF Books, ReduceBook, Results, JoinBook, Parted
    <2>3. Serves(j) /\ Serves(j)'
      BY <1>b, <1>c, <2>1 DEF ServeBook, Serves
    <2>4. nodes \cap active # {}
      <3>1. PICK m \in Planned(j) : where[m] \in active
        BY <2>3 DEF Serves
      <3>2. where[m] \in Node /\ m \in PlannedOn(j, where[m])
        BY <1>a, <3>1 DEF PlannedOn
      <3>3. where[m] \in nodes
        BY <2>2, <3>2
      <3> QED BY <3>1, <3>3
    <2>5. PICK n \in selectNode(nodes) :
            /\ final' = [final EXCEPT ![j] = n]
            /\ temps' = [temps EXCEPT ![j] = @ \cup {<<partials[j][k], k>> : k \in nodes}]
            /\ notify' = [notify EXCEPT ![j] = {<<"final", n>>}]
            /\ pc'[j] = "notify" /\ UNCHANGED crashed
      <3>1. \/ \E n \in selectNode(nodes) :
                 /\ final' = [final EXCEPT ![j] = n]
                 /\ temps' = [temps EXCEPT ![j] = @ \cup {<<partials[j][k], k>> : k \in nodes}]
                 /\ notify' = [notify EXCEPT ![j] = {<<"final", n>>}]
                 /\ pc' = [pc EXCEPT ![j] = "notify"] /\ UNCHANGED crashed
            \/ nodes \cap active = {}
        BY <1>1 DEF PickCombinerFinal, Goto
      <3> HIDE DEF nodes
      <3> QED BY <1>a, <2>4, <3>1
    <2>6. n \in nodes /\ PlannedOn(j, n) # {}
      BY <2>2 DEF selectNode
    <2>7. /\ final'[j] = n /\ notify'[j] = {<<"final", n>>}
          /\ temps'[j] = {<<partials[j][k], k>> : k \in nodes}
      BY <1>a, <2>2, <2>5
    <2>8. \A t \in temps'[j] : PlannedOn(j, t[2]) # {}
      BY <2>2, <2>7
    <2> QED BY <1>b, <1>c, <2>1, <2>2, <2>3, <2>5, <2>6, <2>7, <2>8 DEF ServeBook
  <1>2. CASE CopyFinal(j)
    <2>1. /\ pc[j] = "copy" /\ UNCHANGED crashed
          /\ \/ pc'[j] = "free"
             \/ pc'[j] = "redo" /\ fallen'[j] = <<final[j]>> /\ todo'[j] = Planned(j)
      BY <1>a, <1>2 DEF CopyFinal, Finish, Goto
    <2>2. CASE pc'[j] = "redo" /\ fallen'[j] = <<final[j]>> /\ todo'[j] = Planned(j)
      <3>1. PlannedOn(j, final[j]) # {} /\ Head(fallen'[j]) = final[j] /\ fallen'[j] # <<>>
        BY <2>1, <2>2 DEF ServeBook
      <3>2. PICK m \in Planned(j) : where[m] = final[j]
        BY <3>1 DEF PlannedOn
      <3>3. \E k \in todo'[j] : where'[k] = Head(fallen'[j])
        <4>1. m \in todo'[j] /\ where'[m] = where[m]
          BY <1>b, <2>2
        <4> QED BY <3>1, <3>2, <4>1
      <3> QED BY <2>1, <2>2, <3>1, <3>3 DEF ServeBook, Reducing
    <2> QED BY <2>1, <2>2, ServeQuiet
  <1> QED BY <1>1, <1>2

----------------------------------------------------------------------------
\* A job alone: its own thread is the only one that moves.
LEMMA SoloStays ==
    ASSUME NEW j \in Job, UNCHANGED <<nodeVars, mapVars, redVars, pc, reqVars, planVars, endVars>>
    PROVE  /\ CoverBook(j) => CoverBook(j)'
           /\ ServeBook(j) => ServeBook(j)'
  <1>1. /\ UNCHANGED <<active, copies, where, notify, orders, temps, final, pc, files, reply, avail,
                       caller, sel, todo, fallen, outcome>>
    BY DEF nodeVars, mapVars, redVars, reqVars, planVars, endVars
  <1>2. Planned(j)' = Planned(j) /\ (\A n : PlannedOn(j, n)' = PlannedOn(j, n))
        /\ (Planning(j)' <=> Planning(j)) /\ (Replans(j, "plan")' <=> Replans(j, "plan"))
        /\ (Reducing(j)' <=> Reducing(j)) /\ (Serves(j)' <=> Serves(j))
    BY <1>1 DEF Planned, PlannedOn, Planning, Replans, Reducing, Serves
  <1>3. CoverBook(j) => CoverBook(j)'
    BY <1>1, <1>2 DEF CoverBook
  <1>4. ServeBook(j) => ServeBook(j)'
    BY <1>1, <1>2 DEF ServeBook
  <1> QED BY <1>3, <1>4

\* What holds of every job in each state, however many there are.
Kept == TypeOK /\ Locals /\ Books /\ Results

\* Its first state, and every step.
LEMMA InitKept == Init => Kept
  BY InitTypes, InitBooks, InitResults DEF Kept
LEMMA StepKept == Kept /\ [Next]_vars => Kept'
  <1> SUFFICES ASSUME Kept, [Next]_vars PROVE Kept'
    OBVIOUS
  <1>1. TypeOK' /\ Locals' /\ Books'
    BY StepTypes, StepBooks DEF Kept
  <1>2. Results'
    BY <1>1, StepResults DEF Kept
  <1> QED BY <1>1, <1>2 DEF Kept

\* No map is planned at first.
LEMMA InitSolo ==
    ASSUME Init, NEW j \in Job
    PROVE  CoverBook(j) /\ ServeBook(j)
  <1>1. /\ Planned(j) = {} /\ MapsOf(j) \subseteq Map
        /\ \A m \in MapsOf(j) : FileOf[m] \in FilesOf(j)
    BY MartaAssumption DEF MartaAssumption, Init, Planned, MapsOf, FilesOf
  <1>2. /\ pc[j] = "request" /\ caller[j] = "plan" /\ outcome[j] = "none"
        /\ files[j] = FilesOf(j) /\ todo[j] = MapsOf(j) /\ reply[j] = {}
        /\ \A m \in Map : copies[m] = {}
    BY DEF Init
  <1>3. CoverBook(j)
    BY <1>1, <1>2 DEF CoverBook, Planning, Replans
  <1>4. ServeBook(j)
    BY <1>2 DEF ServeBook, Reducing
  <1> QED BY <1>3, <1>4

\* With one job, every block of its files keeps a copy on an active node until it is
\* planned.
LEMMA StepCover ==
    ASSUME OneJob, Kept, Kept', [Next]_vars, \A j \in Job : CoverBook(j)
    PROVE  \A j \in Job : CoverBook(j)'
  <1> SUFFICES ASSUME NEW j \in Job PROVE CoverBook(j)'
    OBVIOUS
  <1>1. CASE Thread(j)
    BY <1>1, CoverStep DEF Kept
  <1>2. CASE UNCHANGED <<nodeVars, mapVars, redVars, pc, reqVars, planVars, endVars>>
    BY <1>2, SoloStays
  <1> QED BY <1>1, <1>2 DEF OneJob, Next, NodeDrops, NodeReturns, Waiting, vars

\* Every step of the job, once the maps are known to be there.
LEMMA ServeStep ==
    ASSUME HasFiles, Kept, NEW j \in Job, CoverBook(j), ServeBook(j), Thread(j)
    PROVE  ServeBook(j)' /\ crashed' = crashed
  <1>1. CASE EndPlanning(j) \/ RecvMapResult(j) \/ Replan(j)
    <2>1. crashed' = crashed
      BY <1>1 DEF EndPlanning, RecvMapResult, Replan, envVars
    <2> QED BY <1>1, <2>1, ServeMapping DEF Kept
  <1>2. CASE NextFallen(j) \/ EndRedo(j)
    <2>1. crashed' = crashed
      BY <1>2 DEF NextFallen, EndRedo, envVars
    <2> QED BY <1>2, <2>1, ServeRedoing DEF Kept
  <1>3. CASE PickFinal(j) \/ PlanPartials(j) \/ notificarReduce(j)
    <2>1. crashed' = crashed
      BY <1>3 DEF PickFinal, PlanPartials, notificarReduce, envVars
    <2> QED BY <1>3, <2>1, ServePlanning DEF Kept
  <1>4. CASE RecvReduceResult(j) \/ DeactivateReduceNode(j)
    <2>1. crashed' = crashed
      BY <1>4 DEF RecvReduceResult, DeactivateReduceNode, envVars
    <2> QED BY <1>4, <2>1, ServeReducing DEF Kept
  <1>5. CASE PickCombinerFinal(j) \/ CopyFinal(j)
    BY <1>5, ServeFinal DEF Kept
  <1>6. CASE \/ RequestFile(j) \/ ApplyCopy(j) \/ StartPlanning(j) \/ SelectForPlan(j)
             \/ PlanMap(j) \/ Unplan(j) \/ DeactivateMapNode(j) \/ RedoMap(j) \/ JobLost(j)
             \/ FreeMap(j) \/ EndJob(j)
    <2>1. pc \in [Job -> PC] /\ crashed' = crashed
      BY <1>6 DEF Kept, TypeOK, EndTypes, RequestFile, ApplyCopy, StartPlanning, SelectForPlan,
                  PlanMap, Unplan, DeactivateMapNode, RedoMap, JobLost, FreeMap, EndJob, envVars
    <2>2. pc'[j] \in {"request", "apply", "plan", "add", "unplan", "deact", "free", "ended"}
      BY <1>6, <2>1 DEF RequestFile, ApplyCopy, StartPlanning, SelectForPlan,
                  PlanMap, Unplan, DeactivateMapNode, RedoMap, JobLost, FreeMap, EndJob, Goto,
                  Finish
    <2> QED BY <2>1, <2>2, ServeQuiet
  <1> QED BY <1>1, <1>2, <1>3, <1>4, <1>5, <1>6 DEF Thread

\* While one job is connected, one that ends with OK had every block of its files mapped
\* (planMaps and the failures it looks at only once).  With two, the results of the one
\* deactivate nodes while the other plans on them.
THEOREM OneJobCoversFiles == OneJob => (Spec => []OkCoversFiles)
  <1> SUFFICES ASSUME OneJob PROVE Spec => []OkCoversFiles
    OBVIOUS
  <1> DEFINE IInv == Kept /\ \A j \in Job : CoverBook(j)
  <1>1. Init => IInv
    BY InitKept, InitSolo
  <1>2. IInv /\ [Next]_vars => IInv'
    BY StepKept, StepCover
  <1>3. IInv => OkCoversFiles
    BY DEF CoverBook, OkCoversFiles
  <1> QED BY <1>1, <1>2, <1>3, PTL DEF Spec

\* While one job is connected, and asks for files with blocks, PickCombinerFinal always
\* finds the node it dereferences (combinerFinalReducePlanning, ReducePlanning.c), whatever
\* results fail and whatever nodes the file system loses.
THEOREM OneJobNeverCrashes == OneJob /\ HasFiles => (Spec => []NeverCrashes)
  <1> SUFFICES ASSUME OneJob, HasFiles PROVE Spec => []NeverCrashes
    OBVIOUS
  <1> DEFINE IInv == Kept /\ ~crashed /\ \A j \in Job : CoverBook(j) /\ ServeBook(j)
  <1>1. Init => IInv
    BY InitKept, InitSolo DEF Init
  <1>2. IInv /\ [Next]_vars => IInv'
    <2> SUFFICES ASSUME IInv, [Next]_vars PROVE IInv'
      OBVIOUS
    <2>1. Kept' /\ \A j \in Job : CoverBook(j)'
      BY StepKept, StepCover
    <2>2. CASE \E j \in Job : Thread(j)
      <3>1. PICK j \in Job : Thread(j)
        BY <2>2
      <3>2. ServeBook(j)' /\ crashed' = crashed
        BY <3>1, ServeStep
      <3> QED BY <2>1, <3>2 DEF OneJob
    <2>3. CASE UNCHANGED <<nodeVars, mapVars, redVars, pc, reqVars, planVars, endVars, crashed>>
      BY <2>1, <2>3, SoloStays
    <2> QED BY <2>2, <2>3 DEF Next, NodeDrops, NodeReturns, Waiting, vars, envVars
  <1>3. IInv => NeverCrashes
    BY DEF NeverCrashes
  <1> QED BY <1>1, <1>2, <1>3, PTL DEF Spec
=============================================================================
