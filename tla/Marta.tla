------------------------------- MODULE Marta -------------------------------
(***************************************************************************)
(* The scheduler of the system, src/MaRTA: one thread per connected job    *)
(* (acceptJob) plans the job's maps on the nodes that hold the file        *)
(* blocks, collects the results, replans what failed, plans the reduces,   *)
(* asks the file system to copy the final result and frees the job.  The   *)
(* threads share the table of nodes, which Mnodes protects.                *)
(*                                                                         *)
(* One step is one critical section of Mnodes, one exchange with the file  *)
(* system, one packet received from the job, or a stretch of thread-local  *)
(* code.  Lists are sets: the order in which a list is walked is left open *)
(* and a tie between nodes is broken either way.                           *)
(***************************************************************************)
EXTENDS Integers, Sequences, FiniteSets, Functions

CONSTANTS
    Job,          \* jobs, one thread of MaRTA each
    Combiner,     \* the jobs that ask for a combiner
    Node,         \* nodes of the file system
    Block,        \* file blocks: one physical block per node that holds it
    Map,          \* map tasks: one per block of each file of each job
    File,         \* files as named by the jobs
    JobOf,        \* the job a map belongs to
    FileOf,       \* the file of the job the map reads from
    BlockOf,      \* the block the map reads
    Holders,      \* the nodes that store a copy of a block
    MaxFaults,    \* bound on failed results, lost jobs and nodes that drop
    NoMap, NoNode \* "nothing yet"

ASSUME MartaAssumption ==
    /\ IsFiniteSet(Map) /\ IsFiniteSet(Node) /\ IsFiniteSet(Job)
    /\ Combiner \subseteq Job
    /\ JobOf \in [Map -> Job]
    /\ FileOf \in [Map -> File]
    /\ BlockOf \in [Map -> Block]
    /\ Holders \in [Block -> SUBSET Node]
    /\ MaxFaults \in Nat
    /\ NoMap \notin Map /\ NoNode \notin Node

VARIABLES
    \* the table of nodes (nodes, protected by Mnodes)
    active,   \* the nodes whose active flag is set
    load,     \* node->maps: how many entries of each block the list holds
    reduces,  \* node->reduces
    \* the maps of every job (job->maps)
    copies,   \* map->copies: the nodes the file system named for the block
    where,    \* map->nodeName, NoNode until the map is planned
    done,     \* the maps whose done flag is set
    pending,  \* maps ordered whose result the thread has not read yet
    \* the reduces of every job
    partials, \* job->partialReduces: the maps each node's partial joins
    final,    \* job->finalReduce->finalNode
    temps,    \* job->finalReduce->temps: <<maps joined in the file, node>>
    notify,   \* reduces planned and not ordered yet
    orders,   \* reduces ordered whose result the thread has not read yet
    \* where each thread is, and its local variables
    pc, caller, files, avail, reply, cur, sel, todo, drop, fallen, await,
    outcome,
    \* the environment
    fsUp,     \* nodes the file system considers active
    faults,   \* faults still allowed
    crashed   \* the MaRTA process died of a NULL dereference

nodeVars == <<active, load, reduces>>
mapVars  == <<copies, where, done, pending>>
redVars  == <<partials, final, temps, notify, orders>>
reqVars  == <<files, reply, avail>>
planVars == <<caller, cur, sel, todo, drop, fallen>>
endVars  == <<await, outcome>>
envVars  == <<fsUp, faults, crashed>>
vars == <<nodeVars, mapVars, redVars, pc, reqVars, planVars, endVars, envVars>>

PC == {"request", "apply", "plan", "add", "unplan", "wait", "deact", "redo",
       "pick", "notify", "waitred", "deactred", "pickfinal", "copy",
       "free", "ended"}
Caller  == {"plan", "result", "redo"}
Outcome == {"none", "ok", "unavailable", "cantcopy", "lost"}
Reduce  == {"partial", "final"} \X Node

NodeTypes ==
    /\ active \in SUBSET Node
    /\ load \in [Node -> [Block -> Nat]]
    /\ reduces \in [Node -> Int]
MapTypes ==
    /\ copies \in [Map -> SUBSET Node]
    /\ where \in [Map -> Node \cup {NoNode}]
    /\ done \in SUBSET Map
    /\ pending \in SUBSET Map
ReduceTypes ==
    /\ partials \in [Job -> [Node -> SUBSET Map]]
    /\ final \in [Job -> Node \cup {NoNode}]
    /\ temps \in [Job -> SUBSET ((SUBSET Map) \X Node)]
    /\ notify \in [Job -> SUBSET Reduce]
    /\ orders \in [Job -> SUBSET Reduce]
RequestTypes ==
    /\ files \in [Job -> SUBSET File]
    /\ avail \in [Job -> BOOLEAN]
    /\ reply \in [Job -> SUBSET (Map \X Node)]
PlanTypes ==
    /\ caller \in [Job -> Caller]
    /\ cur \in [Job -> Map \cup {NoMap}]
    /\ sel \in [Job -> Node \cup {NoNode}]
    /\ todo \in [Job -> SUBSET Map]
    /\ drop \in [Job -> SUBSET Map]
    /\ fallen \in [Job -> Seq(Node)]
EndTypes ==
    /\ pc \in [Job -> PC]
    /\ await \in [Job -> Int]
    /\ outcome \in [Job -> Outcome]
EnvTypes ==
    /\ fsUp \in SUBSET Node
    /\ faults \in Nat
    /\ crashed \in BOOLEAN

\* Every variable has its type: the table of nodes, and the fields of t_job and
\* the local variables of the thread of each job.
TypeOK ==
    /\ NodeTypes /\ MapTypes /\ ReduceTypes
    /\ RequestTypes /\ PlanTypes /\ EndTypes /\ EnvTypes

----------------------------------------------------------------------------
MapsOf(j)      == {m \in Map : JobOf[m] = j}
FilesOf(j)     == {FileOf[m] : m \in MapsOf(j)}
Planned(j)     == {m \in MapsOf(j) : where[m] # NoNode}
PlannedOn(j, n) == {m \in Planned(j) : where[m] = n}
UpHolders(m)   == Holders[BlockOf[m]] \cap fsUp

\* workLoad: the length of node->maps plus the reduces counter.
workLoad(n) == FoldFunction(+, 0, load[n]) + reduces[n]

\* selectNode and searchNode: of some nodes, an active one no other is less busy
\* than.
selectNode(S) == {n \in S \cap active :
                    \A k \in S \cap active : workLoad(n) <= workLoad(k)}

\* list_add(node->maps, numBlock).
AddMapNode(n, b) == [load EXCEPT ![n][b] = @ + 1]

\* Mutants of removeMapNode: a list that is already empty loses an entry; the
\* last entry of a block stays.
removeMapNodeBlindly(m) == [load EXCEPT ![where[m]][BlockOf[m]] = @ - 1]
removeMapNodeButOne(m) ==
    LET n == where[m]  b == BlockOf[m]
    IN  IF load[n][b] <= 1 THEN load ELSE [load EXCEPT ![n][b] = @ - 1]

\* removeMapNode: the first entry of the block leaves the list of the map's
\* node, whichever job's map it stands for.
removeMapNode(m) ==
    LET n == where[m]  b == BlockOf[m]
    IN  IF load[n][b] = 0 THEN load
        ELSE [load EXCEPT ![n][b] = @ - 1]

\* A mutant of the counting: only final reduces are counted.
AddFinalReduce(o) == IF o[1] = "final" THEN [reduces EXCEPT ![o[2]] = @ + 1]
                     ELSE reduces

\* node->reduces++ (notificarReduce) and removeReduceNode.
AddReduce(o)        == [reduces EXCEPT ![o[2]] = @ + 1]
removeReduceNode(o) == [reduces EXCEPT ![o[2]] = @ - 1]

\* list_add at MapPlanning.c:63 runs without Mnodes: another thread that is
\* also about to change the list of node n can make the entry disappear.
Racing(j, n) ==
    \E k \in Job \ {j} :
        \/ pc[k] = "add" /\ sel[k] = n
        \/ pc[k] \in {"wait", "unplan", "free"} /\ PlannedOn(k, n) # {}

\* updateNodes and deactivateNode, under Mnodes.
updateNodes(n)    == active' = active \cup {n}
deactivateNode(n) == active' = active \ {n}

\* Something goes wrong: one of the MaxFaults faults of the run.
Faulty == faults > 0 /\ faults' = faults - 1

Goto(j, label) == pc' = [pc EXCEPT ![j] = label]

\* freeJob starts: every map of the job is to be taken off its node.
Finish(j, result, maps) ==
    /\ Goto(j, "free")
    /\ drop' = [drop EXCEPT ![j] = maps]
    /\ outcome' = [outcome EXCEPT ![j] = result]

----------------------------------------------------------------------------
Init ==
    /\ active = {} /\ reduces = [n \in Node |-> 0]
    /\ load = [n \in Node |-> [b \in Block |-> 0]]
    /\ copies = [m \in Map |-> {}] /\ where = [m \in Map |-> NoNode]
    /\ done = {} /\ pending = {}
    /\ partials = [j \in Job |-> [n \in Node |-> {}]]
    /\ final = [j \in Job |-> NoNode]
    /\ temps = [j \in Job |-> {}]
    /\ notify = [j \in Job |-> {}] /\ orders = [j \in Job |-> {}]
    /\ pc = [j \in Job |-> "request"] /\ caller = [j \in Job |-> "plan"]
    /\ files = [j \in Job |-> FilesOf(j)]
    /\ avail = [j \in Job |-> TRUE] /\ reply = [j \in Job |-> {}]
    /\ cur = [j \in Job |-> NoMap] /\ sel = [j \in Job |-> NoNode]
    /\ todo = [j \in Job |-> MapsOf(j)] /\ drop = [j \in Job |-> {}]
    /\ fallen = [j \in Job |-> <<>>] /\ await = [j \in Job |-> 0]
    /\ outcome = [j \in Job |-> "none"]
    /\ fsUp = Node /\ faults = MaxFaults /\ crashed = FALSE

----------------------------------------------------------------------------
\* A mutant of FileUnavailable: nobody is told.
FileIgnored(j) == avail' = avail

\* requestFileBlocks returned 0: only planMaps looks at that (filesAvailables).
FileUnavailable(j) == avail' = [avail EXCEPT ![j] = @ /\ caller[j] # "plan"]

\* requestFileBlocks, the exchange with the file system (under MFileSystem):
\* the reply names, for each block, the copies on nodes the file system holds
\* for active; it is empty when some block has none.
RequestFile(j) ==
    /\ pc[j] = "request"
    /\ \E f \in files[j] :
         LET ms == {m \in MapsOf(j) : FileOf[m] = f}
         IN  /\ files' = [files EXCEPT ![j] = @ \ {f}]
             /\ \/ /\ \A m \in ms : UpHolders(m) # {}
                   /\ reply' = [reply EXCEPT ![j] =
                                  {r \in ms \X Node : r[2] \in UpHolders(r[1])}]
                   /\ Goto(j, "apply")
                   /\ UNCHANGED avail
                \/ /\ \E m \in ms : UpHolders(m) = {}
                   /\ FileUnavailable(j)
                   /\ UNCHANGED <<reply, pc>>
    /\ UNCHANGED <<nodeVars, mapVars, redVars, planVars, endVars, envVars>>

\* requestFileBlocks, one copy of the reply: updateNodes activates the node,
\* the copy joins the file's list.  A replan reads the lists of the first
\* request (map->copies), so later ones only activate nodes.
ApplyCopy(j) ==
    /\ pc[j] = "apply"
    /\ \E r \in reply[j] :
         /\ updateNodes(r[2])
         /\ copies' = IF caller[j] = "plan"
                      THEN [copies EXCEPT ![r[1]] = @ \cup {r[2]}] ELSE copies
         /\ reply' = [reply EXCEPT ![j] = @ \ {r}]
         /\ Goto(j, IF reply[j] = {r} THEN "request" ELSE "apply")
    /\ UNCHANGED <<load, reduces, where, done, pending, redVars, files, avail,
                   planVars, endVars, envVars>>

\* planMaps, all files requested: notifFileUnavailable, or start planning.
StartPlanning(j) ==
    /\ pc[j] = "request" /\ files[j] = {} /\ caller[j] = "plan"
    /\ \/ /\ avail[j]
          /\ Goto(j, "plan")
          /\ UNCHANGED <<drop, outcome>>
       \/ /\ ~avail[j]
          /\ Finish(j, "unavailable", Planned(j))
    /\ UNCHANGED <<nodeVars, mapVars, redVars, reqVars, caller, cur, sel,
                   todo, fallen, await, envVars>>

\* planMaps/mapPlanning, under Mnodes: choose the node of the next block.  When
\* no copy is active, every map planned so far is taken off its node, and the
\* planning goes on with the next block: filesAvailables is not looked at again.
SelectForPlan(j) ==
    /\ pc[j] = "plan"
    /\ \E m \in todo[j] :
         \/ \E n \in selectNode(copies[m]) :
              /\ sel' = [sel EXCEPT ![j] = n]
              /\ cur' = [cur EXCEPT ![j] = m]
              /\ Goto(j, "add")
              /\ UNCHANGED <<todo, drop>>
         \/ /\ copies[m] \cap active = {}
            /\ drop' = [drop EXCEPT ![j] = Planned(j)]
            /\ todo' = [todo EXCEPT ![j] = @ \ {m}]
            /\ Goto(j, "unplan")
            /\ UNCHANGED <<cur, sel>>
    /\ UNCHANGED <<nodeVars, mapVars, redVars, reqVars, caller, fallen,
                   endVars, envVars>>

\* planMaps/mapPlanning, after Mnodes is released: the block joins the list of
\* the node, the map joins the job, and notificarMap sends the order.
PlanMap(j) ==
    /\ pc[j] = "add"
    /\ \/ load' = AddMapNode(sel[j], BlockOf[cur[j]])
       \/ Racing(j, sel[j]) /\ load' = load
    /\ where' = [where EXCEPT ![cur[j]] = sel[j]]
    /\ pending' = pending \cup {cur[j]}
    /\ todo' = [todo EXCEPT ![j] = @ \ {cur[j]}]
    /\ cur' = [cur EXCEPT ![j] = NoMap]
    /\ sel' = [sel EXCEPT ![j] = NoNode]
    /\ \/ Goto(j, "plan") /\ UNCHANGED <<drop, outcome, faults>>
       \/ Faulty /\ Finish(j, "lost", Planned(j) \cup {cur[j]})
    /\ UNCHANGED <<active, reduces, copies, done, redVars, reqVars, caller,
                   fallen, await, fsUp, crashed>>

\* planMaps/mapPlanning, no copy of a block was active: removeMapNode of one
\* planned map of the job.
Unplan(j) ==
    /\ pc[j] = "unplan"
    /\ \/ \E m \in drop[j] :
            /\ load' = removeMapNode(m)
            /\ drop' = [drop EXCEPT ![j] = @ \ {m}]
            /\ UNCHANGED pc
       \/ /\ drop[j] = {}
          /\ Goto(j, "plan")
          /\ UNCHANGED <<load, drop>>
    /\ UNCHANGED <<active, reduces, mapVars, redVars, reqVars, caller, cur,
                   sel, todo, fallen, endVars, envVars>>

\* planMaps, every block visited: one recvResult per map of the job.
EndPlanning(j) ==
    /\ pc[j] = "plan" /\ todo[j] = {}
    /\ await' = [await EXCEPT ![j] = Cardinality(Planned(j))]
    /\ Goto(j, IF Planned(j) = {} THEN "pick" ELSE "wait")
    /\ UNCHANGED <<nodeVars, mapVars, redVars, reqVars, planVars, outcome,
                   envVars>>

\* recvResult/desserializeMapResult: the result of some map of the job.  The
\* entry of the map leaves its node; a good result marks the map done.
RecvMapResult(j) ==
    /\ pc[j] = "wait"
    /\ \E m \in pending \cap MapsOf(j) :
         /\ load' = removeMapNode(m)
         /\ pending' = pending \ {m}
         /\ await' = [await EXCEPT ![j] = @ - 1]
         /\ \/ /\ done' = done \cup {m}
               /\ Goto(j, IF await[j] > 1 THEN "wait"
                          ELSE IF fallen[j] = <<>> THEN "pick" ELSE "redo")
               /\ UNCHANGED <<cur, faults>>
            \/ /\ Faulty
               /\ cur' = [cur EXCEPT ![j] = m]
               /\ Goto(j, "deact")
               /\ UNCHANGED done
    /\ UNCHANGED <<active, reduces, copies, where, redVars, reqVars, caller,
                   sel, todo, drop, fallen, outcome, fsUp, crashed>>

\* desserializeMapResult, bad result: deactivateNode under Mnodes, rePlanMap.
DeactivateMapNode(j) ==
    /\ pc[j] = "deact"
    /\ deactivateNode(where[cur[j]])
    /\ caller' = [caller EXCEPT ![j] = "result"]
    /\ files' = [files EXCEPT ![j] = FilesOf(j)]
    /\ Goto(j, "request")
    /\ UNCHANGED <<load, reduces, mapVars, redVars, avail, reply, cur, sel,
                   todo, drop, fallen, endVars, envVars>>

\* A mutant of AwaitOneMore: rePlanMap waits for no result.
AwaitNoMore(j)  == await' = await

\* The recvResult of rePlanMap.
AwaitOneMore(j) == await' = [await EXCEPT ![j] = @ + 1]

\* rePlanMap, all files requested again: a node among the map's copies, the
\* order and the wait for one more result.  The load of the node is not
\* updated.  Without a node the caller gives the job up: at once when a result
\* asked for the replan, after its loop when rePlanMapsFromNode did.
Replan(j) ==
    LET m == cur[j]
        S == copies[m] \cap active
    IN  /\ pc[j] = "request" /\ files[j] = {} /\ caller[j] # "plan"
        /\ \/ \E n \in selectNode(S) :
                /\ where' = [where EXCEPT ![m] = n]
                /\ done' = done \ {m}
                /\ pending' = pending \cup {m}
                /\ AwaitOneMore(j)
                /\ \/ Goto(j, "wait") /\ UNCHANGED <<drop, outcome, faults>>
                   \/ Faulty /\ Finish(j, "lost", Planned(j))
                /\ UNCHANGED avail
           \/ /\ S = {} /\ caller[j] = "result"
              /\ Finish(j, "unavailable", Planned(j))
              /\ UNCHANGED <<where, done, pending, await, avail, faults>>
           \/ /\ S = {} /\ caller[j] = "redo"
              /\ avail' = [avail EXCEPT ![j] = FALSE]
              /\ Goto(j, "redo")
              /\ UNCHANGED <<where, done, pending, await, drop, outcome, faults>>
        /\ cur' = [cur EXCEPT ![j] = NoMap]
        /\ UNCHANGED <<nodeVars, copies, redVars, files, reply, caller, sel,
                       todo, fallen, fsUp, crashed>>

----------------------------------------------------------------------------
\* rePlanMapsFromNode: replan, one after the other, the maps of the job whose
\* file is on the fallen node.
RedoMap(j) ==
    /\ pc[j] = "redo" /\ fallen[j] # <<>>
    /\ \E m \in todo[j] :
         /\ where[m] = Head(fallen[j])
         /\ todo' = [todo EXCEPT ![j] = @ \ {m}]
         /\ cur' = [cur EXCEPT ![j] = m]
    /\ caller' = [caller EXCEPT ![j] = "redo"]
    /\ files' = [files EXCEPT ![j] = FilesOf(j)]
    /\ Goto(j, "request")
    /\ UNCHANGED <<nodeVars, mapVars, redVars, avail, reply, sel, drop, fallen,
                   endVars, envVars>>

\* A mutant of PopFallen: the list of fallen nodes is not cleaned.
KeepFallen(j) == fallen' = fallen

\* The next of the fallen nodes.
PopFallen(j) == fallen' = [fallen EXCEPT ![j] = Tail(@)]

\* The maps of one fallen node are done: the next one, or the end of the list.
NextFallen(j) ==
    /\ pc[j] = "redo" /\ fallen[j] # <<>>
    /\ \A m \in todo[j] : where[m] # Head(fallen[j])
    /\ PopFallen(j)
    /\ todo' = [todo EXCEPT ![j] = Planned(j)]
    /\ UNCHANGED <<nodeVars, mapVars, redVars, pc, reqVars, caller, cur, sel,
                   drop, endVars, envVars>>

\* A mutant of CleanReduces: the partial results are kept.
CleanTemps(j) ==
    /\ partials' = partials
    /\ temps' = [temps EXCEPT ![j] = {}]

\* The lists of the reduces that failed are emptied.
CleanReduces(j) ==
    /\ partials' = [partials EXCEPT ![j] = [n \in Node |-> {}]]
    /\ temps' = [temps EXCEPT ![j] = {}]

\* Every fallen node is treated: plan the reduces again, unless a map had no
\* node left.
EndRedo(j) ==
    /\ pc[j] = "redo" /\ fallen[j] = <<>>
    /\ \/ /\ avail[j]
          /\ CleanReduces(j)
          /\ Goto(j, "pick")
          /\ UNCHANGED <<drop, outcome>>
       \/ /\ ~avail[j]
          /\ Finish(j, "unavailable", Planned(j))
          /\ UNCHANGED <<partials, temps>>
    /\ todo' = [todo EXCEPT ![j] = {}]
    /\ UNCHANGED <<nodeVars, mapVars, final, notify, orders, reqVars, caller,
                   cur, sel, fallen, await, envVars>>

\* noCombinerReducePlanning, under Mnodes: the active node with most maps of
\* the job; its reduce joins the file of every map.
PickFinal(j) ==
    LET count(n) == Cardinality(PlannedOn(j, n))
        most == {n \in active : /\ count(n) > 0
                                /\ \A k \in active : count(k) <= count(n)}
    IN  /\ pc[j] = "pick" /\ j \notin Combiner
        /\ \/ \E n \in most :
                /\ final' = [final EXCEPT ![j] = n]
                /\ temps' = [temps EXCEPT ![j] =
                                @ \cup {<<{m}, where[m]>> : m \in Planned(j)}]
                /\ notify' = [notify EXCEPT ![j] = {<<"final", n>>}]
                /\ await' = [await EXCEPT ![j] = 1]
                /\ Goto(j, "notify")
                /\ UNCHANGED <<drop, outcome>>
           \/ /\ most = {}
              /\ Finish(j, "unavailable", Planned(j))
              /\ UNCHANGED <<final, temps, notify, await>>
        /\ UNCHANGED <<nodeVars, mapVars, partials, orders, reqVars, caller,
                       cur, sel, todo, fallen, envVars>>

\* combinerPartialsReducePlanning: one partial reduce per node with maps.
PlanPartials(j) ==
    LET reduce == [n \in Node |-> partials[j][n] \cup PlannedOn(j, n)]
        nodes  == {n \in Node : reduce[n] # {}}
    IN  /\ pc[j] = "pick" /\ j \in Combiner
        /\ partials' = [partials EXCEPT ![j] = reduce]
        /\ notify' = [notify EXCEPT ![j] = {"partial"} \X nodes]
        /\ await' = [await EXCEPT ![j] = Cardinality(nodes)]
        /\ Goto(j, IF nodes = {} THEN "pickfinal" ELSE "notify")
        /\ UNCHANGED <<nodeVars, mapVars, final, temps, orders, reqVars,
                       planVars, outcome, envVars>>

\* notificarReduce: reduces++ under Mnodes, then the order is sent.
notificarReduce(j) ==
    /\ pc[j] = "notify"
    /\ \E o \in notify[j] :
         /\ reduces' = AddReduce(o)
         /\ orders' = [orders EXCEPT ![j] = @ \cup {o}]
         /\ notify' = [notify EXCEPT ![j] = @ \ {o}]
         /\ \/ /\ Goto(j, IF notify[j] = {o} THEN "waitred" ELSE "notify")
               /\ UNCHANGED <<drop, outcome, faults>>
            \/ Faulty /\ Finish(j, "lost", Planned(j))
    /\ UNCHANGED <<active, load, mapVars, partials, final, temps, reqVars,
                   caller, cur, sel, todo, fallen, await, fsUp, crashed>>

\* recvResult/desserializaReduceResult: removeReduceNode under Mnodes.  A bad
\* result names the node that failed: the one that reduces ("ErrorAlConectar"
\* stands for it) or one it could not get a file from.
RecvReduceResult(j) ==
    /\ pc[j] = "waitred"
    /\ \E o \in orders[j] :
         /\ reduces' = removeReduceNode(o)
         /\ orders' = [orders EXCEPT ![j] = @ \ {o}]
         /\ await' = [await EXCEPT ![j] = @ - 1]
         /\ \/ /\ Goto(j, IF await[j] > 1 THEN "waitred"
                          ELSE IF o[1] = "final" THEN "copy"
                          ELSE IF fallen[j] = <<>> THEN "pickfinal" ELSE "redo")
               /\ UNCHANGED <<sel, faults>>
            \/ /\ Faulty
               /\ \E n \in {o[2]} \cup {t[2] : t \in temps[j]} :
                     sel' = [sel EXCEPT ![j] = n]
               /\ Goto(j, "deactred")
    /\ UNCHANGED <<active, load, mapVars, partials, final, temps, notify,
                   reqVars, caller, cur, todo, drop, fallen, outcome, fsUp,
                   crashed>>

\* A mutant of AddFallen: the node is not among the fallen ones.
ForgetFallen(j) == fallen' = fallen

\* The node of the reduce that failed joins the fallen ones.
AddFallen(j) == fallen' = [fallen EXCEPT ![j] = Append(@, sel[j])]

\* desserializaReduceResult, bad result: deactivateNode under Mnodes; the maps
\* of the node are replanned when the results awaited have come.
DeactivateReduceNode(j) ==
    /\ pc[j] = "deactred"
    /\ deactivateNode(sel[j])
    /\ AddFallen(j)
    /\ sel' = [sel EXCEPT ![j] = NoNode]
    /\ todo' = [todo EXCEPT ![j] = Planned(j)]
    /\ Goto(j, IF await[j] > 0 THEN "waitred" ELSE "redo")
    /\ UNCHANGED <<load, reduces, mapVars, redVars, reqVars, caller, cur, drop,
                   endVars, envVars>>

\* combinerFinalReducePlanning, under Mnodes: the least busy active node with
\* a partial result.  The code dereferences the node without looking whether
\* there is one.
PickCombinerFinal(j) ==
    LET nodes == {n \in Node : partials[j][n] # {}}
    IN  /\ pc[j] = "pickfinal"
        /\ \/ \E n \in selectNode(nodes) :
                /\ final' = [final EXCEPT ![j] = n]
                /\ temps' = [temps EXCEPT ![j] =
                                @ \cup {<<partials[j][k], k>> : k \in nodes}]
                /\ notify' = [notify EXCEPT ![j] = {<<"final", n>>}]
                /\ await' = [await EXCEPT ![j] = 1]
                /\ Goto(j, "notify")
                /\ UNCHANGED crashed
           \/ /\ nodes \cap active = {}
              /\ crashed' = TRUE
              /\ UNCHANGED <<final, temps, notify, await, pc>>
        /\ UNCHANGED <<nodeVars, mapVars, partials, orders, reqVars, planVars,
                       outcome, fsUp, faults>>

\* copyFinalTemporal: the file system copied the result (sendDieOrder OK), or
\* could not create the file (CANT_COPY), or could not read it from the node:
\* then the maps of that node are done again, and the node stays active.
CopyFinal(j) ==
    /\ pc[j] = "copy"
    /\ \/ /\ \E result \in {"ok", "cantcopy"} : Finish(j, result, Planned(j))
          /\ UNCHANGED <<fallen, todo, faults>>
       \/ /\ Faulty
          /\ fallen' = [fallen EXCEPT ![j] = <<final[j]>>]
          /\ todo' = [todo EXCEPT ![j] = Planned(j)]
          /\ Goto(j, "redo")
          /\ UNCHANGED <<drop, outcome>>
    /\ UNCHANGED <<nodeVars, mapVars, redVars, reqVars, caller, cur, sel, await,
                   fsUp, crashed>>

----------------------------------------------------------------------------
\* recvResult fails: the job died while the thread waited for a result.
JobLost(j) ==
    /\ pc[j] \in {"wait", "waitred"}
    /\ Faulty /\ Finish(j, "lost", Planned(j))
    /\ UNCHANGED <<nodeVars, mapVars, redVars, reqVars, caller, cur, sel, todo,
                   fallen, await, fsUp, crashed>>

\* freeJob: removeMapNode of one map of the job, whether it is done or not.
FreeMap(j) ==
    /\ pc[j] = "free"
    /\ \E m \in drop[j] :
         /\ load' = removeMapNode(m)
         /\ pending' = pending \ {m}
         /\ drop' = [drop EXCEPT ![j] = @ \ {m}]
    /\ UNCHANGED <<active, reduces, copies, where, done, redVars, pc, reqVars,
                   caller, cur, sel, todo, fallen, endVars, envVars>>

\* freeJob, the end: the job is gone, with the orders nobody will answer.  The
\* reduces counters of the nodes are left as they are.
EndJob(j) ==
    /\ pc[j] = "free" /\ drop[j] = {}
    /\ Goto(j, "ended")
    /\ CleanReduces(j)
    /\ final' = [final EXCEPT ![j] = NoNode]
    /\ notify' = [notify EXCEPT ![j] = {}]
    /\ orders' = [orders EXCEPT ![j] = {}]
    /\ todo' = [todo EXCEPT ![j] = {}]
    /\ fallen' = [fallen EXCEPT ![j] = <<>>]
    /\ await' = [await EXCEPT ![j] = 0]
    /\ UNCHANGED <<nodeVars, mapVars, reqVars, caller, cur, sel, drop, outcome,
                   envVars>>

\* The file system loses a node, or has it back.
NodeDrops ==
    /\ Faulty
    /\ \E n \in fsUp : fsUp' = fsUp \ {n}
    /\ UNCHANGED <<nodeVars, mapVars, redVars, pc, reqVars, planVars, endVars,
                   crashed>>
NodeReturns ==
    /\ \E n \in Node \ fsUp : fsUp' = fsUp \cup {n}
    /\ UNCHANGED <<nodeVars, mapVars, redVars, pc, reqVars, planVars, endVars,
                   faults, crashed>>

\* listenJobs: with every job over, MaRTA waits for the next one.
Waiting ==
    /\ crashed \/ \A j \in Job : pc[j] = "ended"
    /\ UNCHANGED vars

Thread(j) ==
    /\ ~crashed
    /\ \/ RequestFile(j) \/ ApplyCopy(j) \/ StartPlanning(j) \/ SelectForPlan(j)
       \/ PlanMap(j) \/ Unplan(j) \/ EndPlanning(j) \/ RecvMapResult(j)
       \/ DeactivateMapNode(j) \/ Replan(j) \/ RedoMap(j) \/ NextFallen(j)
       \/ EndRedo(j) \/ PickFinal(j) \/ PlanPartials(j) \/ notificarReduce(j)
       \/ RecvReduceResult(j) \/ DeactivateReduceNode(j) \/ PickCombinerFinal(j)
       \/ CopyFinal(j) \/ JobLost(j) \/ FreeMap(j) \/ EndJob(j)

Next ==
    \/ \E j \in Job : Thread(j)
    \/ ~crashed /\ (NodeDrops \/ NodeReturns)
    \/ Waiting

\* The threads of MaRTA are scheduled by the system, and every exchange ends:
\* the file system answers, and a job's thread sends one result per order.
Spec == Init /\ [][Next]_vars /\ \A j \in Job : WF_vars(Thread(j))

----------------------------------------------------------------------------

\* Load and orders of a node, as the Job process sees them.
MapsRunning(n, b) == {m \in pending : where[m] = n /\ BlockOf[m] = b}
ReducesRunning(n) ==
    {r \in Job \X {"partial", "final"} : <<r[2], n>> \in orders[r[1]]}

\* No phantom work: an entry of node->maps always stands for an order that has
\* not been answered; whatever removeMapNode, freeJob and the replans do, a
\* node never looks busier with maps than it is.
NoPhantomMaps ==
    \A n \in Node, b \in Block : load[n][b] <= Cardinality(MapsRunning(n, b))

\* The reduces counter of a node is at least the number of reduces ordered to
\* it: the decrement of removeReduceNode never takes the uint16 below zero.
ReducesCovered ==
    \A n \in Node : reduces[n] >= Cardinality(ReducesRunning(n))

\* The nested receive loops of planMaps, rePlanMap and the reduce planning
\* never wait for a packet no order will produce, and never leave one unread.
AwaitsMatchOrders ==
    \A j \in Job : pc[j] \in {"wait", "deact", "redo", "waitred", "deactred", "copy"} =>
        await[j] = Cardinality(pending \cap MapsOf(j)) + Cardinality(orders[j])

\* When the final result is copied, the final reduce joined each map of the
\* job planned so far exactly once, through one file of one node, and every
\* one of them is done.
FinalJoinsEachMapOnce ==
    \A j \in Job : pc[j] = "copy" =>
        /\ UNION {t[1] : t \in temps[j]} = Planned(j)
        /\ \A t, u \in temps[j] : t # u => t[1] \cap u[1] = {}
        /\ Planned(j) \subseteq done

\* A job that ends with OK had every block of its files mapped.
OkCoversFiles ==
    \A j \in Job : outcome[j] = "ok" => Planned(j) = MapsOf(j)

\* The process never dereferences a missing node (PickCombinerFinal).
NeverCrashes == ~crashed

\* Every thread ends: however results, nodes and the file system fail, within
\* the faults allowed, each job is answered and freed.
EveryJobEnds == \A j \in Job : <>(pc[j] = "ended" \/ crashed)
====
