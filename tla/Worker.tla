------------------------------- MODULE Worker -------------------------------
(***************************************************************************)
(* Who carries out the orders of MaRTA: the process of a job, src/Job, with *)
(* a thread per order (atenderMapper, atenderReducer), and the nodes,      *)
(* src/Nodo, with a thread per connection of a job (connections_job.c).    *)
(*                                                                         *)
(* A map leaves a temporary file in its node.  A reduce first gathers the  *)
(* temporary files of its inputs, with a thread per file, from other nodes *)
(* or its own; joins them; and leaves a temporary file too.  Its answer    *)
(* says that it is done or names the node that failed.                     *)
(*                                                                         *)
(* The names of the temporary files tell the orders apart (setTempMapName, *)
(* setTempReduceName), so an order stands for the file it leaves as well.  *)
(* Of what a file holds only what readers trip over is kept: its size.     *)
(***************************************************************************)
EXTENDS Integers, FiniteSets

CONSTANTS
    Node,         \* the nodes
    Order,        \* the maps and the reduces MaRTA may order
    At,           \* the node an order is for
    Inputs,       \* reduce->temps: the orders whose files a reduce joins
    After,        \* the orders whose failure makes MaRTA plan this one
    Sizes,        \* the files routines write: "plain", "empty", or "page", a
                  \* file that fills its last page of memory
    MaxDeaths,    \* bound on nodes that die and connections that break
    MaxRefusals,  \* bound on calls to the system that fail
    NoOrder, NoNode,
    Garbage       \* a name read from memory that was freed

ASSUME WorkerAssumption ==
    /\ At \in [Order -> Node]
    /\ Inputs \in [Order -> SUBSET Order] /\ After \in [Order -> SUBSET Order]
    /\ Sizes \subseteq {"plain", "empty", "page"} /\ Sizes # {}
    /\ MaxDeaths \in Nat /\ MaxRefusals \in Nat
    /\ NoOrder \notin Order /\ NoNode \notin Node /\ Garbage \notin Node
    /\ {"none", "ok", "fail", "ErrorAlConectar"} \cap (Node \cup {Garbage}) = {}

VARIABLES
    \* the job: its process, where the thread of each order is, the result the
    \* thread got, and Msockmarta
    jobUp, jpc, result, lock,
    \* the nodes: the processes that run, those whose node_config->name is
    \* allocated, the files in their tmpDir and the thread that does each order
    up, named, file, thread,
    \* the environment: nodes that failed in some way, and the faults left
    faulty, deaths, refusals

jobVars  == <<jobUp, jpc, result, lock>>
nodeVars == <<up, named, file, thread>>
envVars  == <<faulty, deaths, refusals>>
vars == <<jobVars, nodeVars, envVars>>

Maps == {o \in Order : Inputs[o] = {}}

\* What an order ends in: COMMAND_RESULT_OK, a map that failed, or a reduce that
\* failed with the node to blame.
Result == {"none", "ok", "fail", "ErrorAlConectar", Garbage} \cup Node

\* The thread of a node: the files not asked for yet, the threads that get the
\* others, the files got, and connections_job.c's failed and nodeIdFailed.
ThreadState ==
    [at : {"none", "start", "gather", "run", "replied", "dead"},
     todo : SUBSET Order, open : SUBSET Order, got : SUBSET Order,
     failed : BOOLEAN, culprit : Node \cup {NoNode}]
ThreadAt(place, asked, parts) ==
    [at |-> place, todo |-> asked, open |-> {}, got |-> parts,
     failed |-> FALSE, culprit |-> NoNode]

\* Every variable has its type: the threads of the job and of the nodes, and what
\* they share.
TypeOK ==
    /\ jobUp \in BOOLEAN
    /\ jpc \in [Order -> {"none", "connect", "wait", "lock", "head", "body",
                          "sent", "killed"}]
    /\ result \in [Order -> Result]
    /\ lock \in Order \cup {NoOrder}
    /\ up \subseteq Node /\ named \subseteq Node /\ faulty \subseteq Node
    /\ file \in [Order -> {"none"} \cup Sizes]
    /\ thread \in [Order -> ThreadState]
    /\ deaths \in 0 .. MaxDeaths /\ refusals \in 0 .. MaxRefusals

Init ==
    /\ jobUp = TRUE
    /\ jpc = [o \in Order |-> "none"] /\ result = [o \in Order |-> "none"]
    /\ lock = NoOrder
    /\ up = Node /\ named = Node
    /\ file = [o \in Order |-> "none"]
    /\ thread = [o \in Order |-> ThreadAt("none", {}, {})]
    /\ faulty = {} /\ deaths = MaxDeaths /\ refusals = MaxRefusals

-----------------------------------------------------------------------------
(* The process of the job. *)

\* recvOrder starts the thread of an order.  MaRTA orders a reduce when it has the
\* good results of its inputs, and an order again when it has the bad result.
RecvOrder(o) ==
    /\ jobUp /\ jpc[o] = "none"
    /\ \A i \in Inputs[o] : jpc[i] = "sent" /\ result[i] = "ok"
    /\ \A i \in After[o] : jpc[i] = "sent" /\ result[i] # "ok"
    /\ jpc' = [jpc EXCEPT ![o] = "connect"]
    /\ UNCHANGED <<jobUp, result, lock, nodeVars, envVars>>

\* What the thread says when the node cannot be reached or is lost.
Unreachable(o) == IF o \in Maps THEN "fail" ELSE "ErrorAlConectar"

\* The thread stops waiting for the node, and will send a result.
Conclude(o, r) ==
    /\ jpc' = [jpc EXCEPT ![o] = "lock"]
    /\ result' = [result EXCEPT ![o] = r]

\* The thread connects to the node and sends the order, and the node starts a
\* thread for it.  A handshake that fails is not told from a good one (its result
\* is never 0), so the thread goes on and finds the connection lost.
Connect(o) ==
    /\ jpc[o] = "connect"
    /\ \/ /\ At[o] \in up
          /\ jpc' = [jpc EXCEPT ![o] = "wait"]
          /\ thread' = [thread EXCEPT ![o] = ThreadAt("start", {}, {})]
          /\ UNCHANGED result
       \/ /\ At[o] \notin up
          /\ Conclude(o, Unreachable(o))
          /\ UNCHANGED thread
    /\ UNCHANGED <<jobUp, lock, up, named, file, envVars>>

\* Mutant: the end of the connection is not looked at.
RecvAnswerOnly(o) ==
    /\ jpc[o] = "wait"
    /\ thread[o].at = "replied" /\ Conclude(o, result[o])
    /\ UNCHANGED <<jobUp, lock, nodeVars, envVars>>

\* The node's answer, or the end of the connection.
RecvAnswer(o) ==
    /\ jpc[o] = "wait"
    /\ \/ thread[o].at = "replied" /\ Conclude(o, result[o])
       \/ thread[o].at = "dead" /\ Conclude(o, Unreachable(o))
    /\ UNCHANGED <<jobUp, lock, nodeVars, envVars>>

\* Mutant: the packet is written without Msockmarta.
SendUnlocked(o) ==
    /\ jpc[o] = "lock"
    /\ lock' = o
    /\ jpc' = [jpc EXCEPT ![o] = "head"]
    /\ UNCHANGED <<jobUp, result, nodeVars, envVars>>

\* sendMapResult, failReduce, confirmarReduce: the packet for MaRTA is written
\* under Msockmarta, first its size and then its contents.
LockMarta(o) ==
    /\ jpc[o] = "lock" /\ lock = NoOrder
    /\ lock' = o
    /\ jpc' = [jpc EXCEPT ![o] = "head"]
    /\ UNCHANGED <<jobUp, result, nodeVars, envVars>>

SendHead(o) ==
    /\ jpc[o] = "head"
    /\ jpc' = [jpc EXCEPT ![o] = "body"]
    /\ UNCHANGED <<jobUp, result, lock, nodeVars, envVars>>

SendBody(o) ==
    /\ jpc[o] = "body"
    /\ jpc' = [jpc EXCEPT ![o] = "sent"]
    /\ lock' = NoOrder
    /\ UNCHANGED <<jobUp, result, nodeVars, envVars>>

\* MaRTA says that the job ends, or its connection is lost: the process exits with
\* all its threads, whatever they are doing.
JobEnds ==
    /\ jobUp
    /\ jobUp' = FALSE
    /\ jpc' = [o \in Order |-> IF jpc[o] = "sent" THEN "sent" ELSE "killed"]
    /\ lock' = NoOrder
    /\ UNCHANGED <<result, nodeVars, envVars>>

-----------------------------------------------------------------------------
(* The threads of a node. *)

\* The threads of a node whose process ends.
Running == {"start", "gather", "run"}
Killed(n, threads) ==
    [o \in Order |-> IF At[o] = n /\ threads[o].at \in Running
                     THEN ThreadAt("dead", {}, {}) ELSE threads[o]]
Crash(n, threads) ==
    /\ up' = up \ {n}
    /\ faulty' = faulty \cup {n}
    /\ thread' = Killed(n, threads)

\* A call to the system fails in a node.
Refuse(n) ==
    /\ refusals > 0
    /\ refusals' = refusals - 1
    /\ faulty' = faulty \cup {n}

\* The answer is sent, if the job still waits for it.
Reply(o, r) ==
    /\ thread' = [thread EXCEPT ![o] = ThreadAt("replied", {}, thread[o].got)]
    /\ result' = IF jpc[o] = "wait" THEN [result EXCEPT ![o] = r] ELSE result

\* The routine runs and leaves what it writes in the file; its exit status is not
\* looked at.
RunRoutine(o) ==
    /\ \E s \in Sizes : file' = [file EXCEPT ![o] = s]
    /\ Reply(o, "ok")

\* connections_job_deserializeMap: the routine of the job runs on the block.
RunMap(o) ==
    /\ o \in Maps /\ thread[o].at = "start"
    /\ \/ /\ RunRoutine(o)
          /\ UNCHANGED <<faulty, refusals>>
       \/ /\ Refuse(At[o])
          /\ Reply(o, "fail")
          /\ UNCHANGED file
    /\ UNCHANGED <<jobUp, jpc, lock, up, named, deaths>>

\* The name of the node, compared with the one of a file: it may be taken for
\* another when its memory was freed.
IsMe(o, n)    == n = At[o] /\ At[o] \in named
MaybeMe(o, n) == n = At[o]

\* connections_job_deserializeReduce: a single file of the node itself is reduced
\* where it is; otherwise the files are gathered.
StartReduce(o) ==
    /\ o \notin Maps /\ thread[o].at = "start"
    /\ \/ /\ \E i \in Inputs[o] : Inputs[o] = {i} /\ MaybeMe(o, At[i])
          /\ thread' = [thread EXCEPT ![o] = ThreadAt("run", {}, Inputs[o])]
       \/ /\ ~\E i \in Inputs[o] : Inputs[o] = {i} /\ IsMe(o, At[i])
          /\ thread' = [thread EXCEPT ![o] = ThreadAt("gather", Inputs[o], {})]
    /\ UNCHANGED <<jobVars, up, named, file, envVars>>

\* Mutant: the node is noted, the failure is not.
BlameOnly(t, n) == [t EXCEPT !.culprit = n]

\* A file was not got: addPartToList notes the node to blame.
Blame(t, n) == [t EXCEPT !.failed = TRUE, !.culprit = n]

\* runOperations: a thread per file, until one fails.
StartGetting(o) ==
    LET t == thread[o] IN
    /\ t.at = "gather" /\ t.todo # {}
    /\ \/ /\ t.failed
          /\ thread' = [thread EXCEPT ![o] = [t EXCEPT !.todo = {}]]
          /\ UNCHANGED <<faulty, refusals>>
       \/ /\ ~t.failed
          /\ \E i \in t.todo :
                thread' = [thread EXCEPT ![o] = [t EXCEPT !.todo = @ \ {i},
                                                          !.open = @ \cup {i}]]
          /\ UNCHANGED <<faulty, refusals>>
       \/ /\ ~t.failed
          /\ Refuse(At[o])
          /\ \E i \in t.todo :
                thread' = [thread EXCEPT ![o] = [t EXCEPT !.todo = @ \ {i},
                                                          !.failed = TRUE]]
    /\ UNCHANGED <<jobVars, up, named, file, deaths>>

\* node_getTmpFileContent maps the file and copies it as a string: an empty file
\* (the map fails and is not checked) stops the process that reads it, and one that
\* fills its last page may.
MayRead(i) == file[i] # "empty"
MayStop(i) == file[i] \in {"empty", "page"}

\* A file that cannot be opened is NULL: here that is an error; another node takes
\* the length of what it sends all the same, and stops.
UnopenedStops(o, n) == ~IsMe(o, n)

\* getTmpFileFromNode: a file is read here or, through a connection, in its node.
GetPart(o, i) ==
    LET n    == At[i]
        part == [thread[o] EXCEPT !.open = @ \ {i}]
        lost == [thread EXCEPT ![o] = Blame(part, n)]
        got  == [thread EXCEPT ![o] = [part EXCEPT !.got = @ \cup {i}]]
    IN
    /\ thread[o].at = "gather" /\ i \in thread[o].open
    /\ \/ /\ n \notin up
          /\ thread' = lost
          /\ UNCHANGED <<up, faulty, refusals>>
       \/ /\ n \in up /\ MayRead(i)
          /\ thread' = got
          /\ UNCHANGED <<up, faulty, refusals>>
       \/ /\ n \in up /\ MayStop(i)
          /\ Crash(n, lost)
          /\ UNCHANGED refusals
       \/ /\ n \in up
          /\ Refuse(n)
          /\ thread' = lost
          /\ UNCHANGED up
       \/ /\ n \in up /\ UnopenedStops(o, n) /\ refusals > 0
          /\ refusals' = refusals - 1
          /\ Crash(n, lost)
    /\ UNCHANGED <<jobVars, named, file, deaths>>

\* The reduce fails through no other node: the answer names the node itself, and
\* its name, which is node_config->name, is freed.  The next time it is read and
\* freed again, which may abort the process or give any name.
OwnFailure(o) ==
    \/ /\ At[o] \in named
       /\ named' = named \ {At[o]}
       /\ Reply(o, At[o])
       /\ UNCHANGED up
    \/ /\ At[o] \notin named
       /\ \E name \in {At[o], Garbage} : Reply(o, name)
       /\ UNCHANGED <<up, named>>
    \/ /\ At[o] \notin named
       /\ up' = up \ {At[o]}
       /\ thread' = Killed(At[o], thread)
       /\ UNCHANGED <<result, named>>

\* A mutant of HasCulprit: nodeIdFailed is never sent.
NoCulprit(t) == FALSE

\* nodeIdFailed is not NULL.
HasCulprit(t) == t.culprit # NoNode

\* Every thread joined, the files are joined too, in one, unless one is missing.
JoinParts(o) ==
    LET t == thread[o] IN
    /\ t.at = "gather" /\ t.todo = {} /\ t.open = {}
    /\ \/ /\ ~t.failed
          /\ thread' = [thread EXCEPT ![o] = ThreadAt("run", {}, t.got)]
          /\ UNCHANGED <<result, up, named, faulty, refusals>>
       \/ /\ t.failed /\ HasCulprit(t)
          /\ Reply(o, t.culprit)
          /\ UNCHANGED <<up, named, faulty, refusals>>
       \/ /\ t.failed /\ ~HasCulprit(t)
          /\ OwnFailure(o)
          /\ UNCHANGED <<faulty, refusals>>
       \/ /\ ~t.failed
          /\ Refuse(At[o])
          /\ OwnFailure(o)
    /\ UNCHANGED <<jobUp, jpc, lock, file, deaths>>

\* node_executeReduceRutine: the routine leaves what it writes in the file.
RunReduce(o) ==
    /\ thread[o].at = "run"
    /\ \/ /\ RunRoutine(o)
          /\ UNCHANGED <<up, named, faulty, refusals>>
       \/ /\ Refuse(At[o])
          /\ OwnFailure(o)
          /\ UNCHANGED file
    /\ UNCHANGED <<jobUp, jpc, lock, deaths>>

-----------------------------------------------------------------------------
(* The environment. *)

\* A node's process ends; its files stay.
NodeDies(n) ==
    /\ deaths > 0 /\ n \in up
    /\ deaths' = deaths - 1
    /\ Crash(n, thread)
    /\ UNCHANGED <<jobVars, named, file, refusals>>

\* It starts again and reads its configuration.
NodeReturns(n) ==
    /\ n \notin up
    /\ up' = up \cup {n} /\ named' = named \cup {n}
    /\ UNCHANGED <<jobVars, file, thread, envVars>>

\* The connection of an order breaks: the thread of the node goes on by itself.
ConnectionBreaks(o) ==
    /\ deaths > 0 /\ jpc[o] = "wait"
    /\ deaths' = deaths - 1
    /\ faulty' = faulty \cup {At[o]}
    /\ Conclude(o, Unreachable(o))
    /\ UNCHANGED <<jobUp, lock, nodeVars, refusals>>

JobThread(o) ==
    Connect(o) \/ RecvAnswer(o) \/ LockMarta(o) \/ SendHead(o) \/ SendBody(o)
NodeThread(o) ==
    \/ RunMap(o) \/ StartReduce(o) \/ StartGetting(o) \/ JoinParts(o) \/ RunReduce(o)
    \/ \E i \in Inputs[o] : GetPart(o, i)

Ended == ~jobUp /\ UNCHANGED vars

Next ==
    \/ \E o \in Order : RecvOrder(o) \/ JobThread(o) \/ NodeThread(o)
                          \/ ConnectionBreaks(o)
    \/ \E n \in Node : NodeDies(n) \/ NodeReturns(n)
    \/ JobEnds \/ Ended

\* Every thread is scheduled, and every call to the system returns.
Spec ==
    /\ Init /\ [][Next]_vars
    /\ \A o \in Order : WF_vars(JobThread(o)) /\ WF_vars(NodeThread(o))

-----------------------------------------------------------------------------
\* The packets for MaRTA are never interleaved: while one is half written no
\* thread of the job has begun another (Msockmarta).
PacketsAreWhole ==
    \A o, p \in Order : jpc[o] = "body" /\ jpc[p] \in {"head", "body"} => o = p

\* A reduce that is done joined the file of every input, whatever happened to the
\* threads that were getting them (failed, in connections_job.c).
OkJoinsEveryPart ==
    \A o \in Order \ Maps :
        result[o] = "ok" /\ thread[o].at = "replied" => thread[o].got = Inputs[o]

\* MaRTA deactivates the node a reduce blames: it is one where something failed.
BlamedNodesFailed ==
    \A o \in Order :
        /\ result[o] \in Node => result[o] \in faulty
        /\ result[o] = "ErrorAlConectar" => At[o] \in faulty

\* Every order is answered, as long as the job lives: whatever fails, its thread
\* ends up sending a result and MaRTA does not wait for ever.
EveryOrderAnswered ==
    \A o \in Order : jpc[o] = "connect" ~> jpc[o] \in {"sent", "killed"}
=============================================================================
