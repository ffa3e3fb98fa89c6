---------------------------- MODULE Worker_proofs ----------------------------
(* Theorems about Worker, for any orders, nodes and faults.                   *)
EXTENDS Worker, TLAPS

\* Msockmarta is held by the thread that is writing its packet.
Writing(o) == jpc[o] \in {"head", "body"}
Held ==
    /\ DOMAIN jpc = Order
    /\ \A o \in Order : Writing(o) => lock = o

\* A step that moves the thread of one order, and not into its packet, keeps the
\* mutex with its owner.
LEMMA OthersHold ==
    ASSUME Held, NEW o \in Order, ~Writing(o), NEW place,
           place \notin {"head", "body"},
           jpc' = [jpc EXCEPT ![o] = place], lock' = lock
    PROVE  Held'
  BY DEF Held, Writing

\* Every step of a job's thread, of a node's thread or of the environment keeps
\* Msockmarta with the thread that is writing.
LEMMA StepHolds == Held /\ [Next]_vars => Held'
<1> SUFFICES ASSUME Held, [Next]_vars PROVE Held'
  OBVIOUS
<1>1. CASE UNCHANGED vars
  BY <1>1 DEF Held, Writing, vars, jobVars
<1>2. ASSUME NEW o \in Order, RecvOrder(o) PROVE Held'
  BY <1>2, OthersHold DEF RecvOrder, Writing
<1>3. ASSUME NEW o \in Order, Connect(o) PROVE Held'
  BY <1>3, OthersHold DEF Connect, Conclude, Writing
<1>4. ASSUME NEW o \in Order, RecvAnswer(o) PROVE Held'
  BY <1>4, OthersHold DEF RecvAnswer, Conclude, Writing
<1>5. ASSUME NEW o \in Order, LockMarta(o) PROVE Held'
  \* The mutex was free: no thread was writing.
  <2>1. \A p \in Order : ~Writing(p)
    BY <1>5, WorkerAssumption DEF WorkerAssumption, LockMarta, Held
  <2> QED BY <1>5, <2>1 DEF LockMarta, Held, Writing
<1>6. ASSUME NEW o \in Order, SendHead(o) PROVE Held'
  BY <1>6 DEF SendHead, Held, Writing
<1>7. ASSUME NEW o \in Order, SendBody(o) PROVE Held'
  \* The thread held the mutex, so no other one was writing.
  <2>1. \A p \in Order : Writing(p) => p = o
    BY <1>7 DEF SendBody, Held, Writing
  <2> QED BY <1>7, <2>1 DEF SendBody, Held, Writing
<1>8. CASE JobEnds
  BY <1>8 DEF JobEnds, Held, Writing
<1>9. ASSUME NEW o \in Order, NodeThread(o) PROVE Held'
  <2>1. UNCHANGED <<jpc, lock>>
    BY <1>9 DEF NodeThread, RunMap, StartReduce, StartGetting, GetPart, JoinParts,
                RunReduce, jobVars
  <2> QED BY <2>1 DEF Held, Writing
<1>10. ASSUME NEW o \in Order, ConnectionBreaks(o) PROVE Held'
  BY <1>10, OthersHold DEF ConnectionBreaks, Conclude, Writing
<1>11. ASSUME NEW n \in Node, NodeDies(n) \/ NodeReturns(n) PROVE Held'
  BY <1>11 DEF NodeDies, NodeReturns, jobVars, Held, Writing
<1> QED BY <1>1, <1>2, <1>3, <1>4, <1>5, <1>6, <1>7, <1>8, <1>9, <1>10, <1>11
        DEF Next, JobThread, Ended

\* The packets for MaRTA are whole, however many threads of the job send results:
\* sendMapResult, failReduce and confirmarReduce write under Msockmarta.
THEOREM PacketsWhole == Spec => []PacketsAreWhole
<1>1. Init => Held
  BY DEF Init, Held, Writing
<1>2. Held => PacketsAreWhole
  BY DEF Held, Writing, PacketsAreWhole
<1> QED BY <1>1, <1>2, StepHolds, PTL DEF Spec

-----------------------------------------------------------------------------
\* The state of a thread that starts, is killed or has answered is one.
LEMMA ThreadAtType ==
    ASSUME NEW place \in {"none", "start", "gather", "run", "replied", "dead"},
           NEW asked \in SUBSET Order, NEW parts \in SUBSET Order
    PROVE  ThreadAt(place, asked, parts) \in ThreadState
  BY DEF ThreadAt, ThreadState

\* The threads of a node that stops.
LEMMA KilledType ==
    ASSUME NEW threads \in [Order -> ThreadState], NEW n \in Node
    PROVE  Killed(n, threads) \in [Order -> ThreadState]
  BY ThreadAtType DEF Killed

\* An answer leaves thread and result with their types.
LEMMA ReplyType ==
    ASSUME TypeOK, NEW o \in Order, NEW r \in Result, Reply(o, r)
    PROVE  thread' \in [Order -> ThreadState] /\ result' \in [Order -> Result]
<1>1. thread[o].got \in SUBSET Order
  BY DEF TypeOK, ThreadState
<1>2. ThreadAt("replied", {}, thread[o].got) \in ThreadState
  BY <1>1, ThreadAtType
<1> QED BY <1>2 DEF TypeOK, Reply

\* A reduce that fails by itself leaves the types.
LEMMA OwnFailureType ==
    ASSUME TypeOK, NEW o \in Order, OwnFailure(o)
    PROVE  /\ thread' \in [Order -> ThreadState] /\ result' \in [Order -> Result]
           /\ up' \subseteq Node /\ named' \subseteq Node
<1>1. At[o] \in Node
  BY WorkerAssumption DEF WorkerAssumption
<1>2. CASE Reply(o, At[o]) \/ Reply(o, Garbage)
  <2>1. At[o] \in Result /\ Garbage \in Result
    BY <1>1 DEF Result
  <2>2. thread' \in [Order -> ThreadState] /\ result' \in [Order -> Result]
    BY <1>2, <2>1, ReplyType
  <2>3. up' \subseteq Node /\ named' \subseteq Node
    BY <1>1 DEF OwnFailure, TypeOK
  <2> QED BY <2>2, <2>3
<1>3. CASE /\ up' = up \ {At[o]} /\ thread' = Killed(At[o], thread)
           /\ UNCHANGED <<result, named>>
  BY <1>1, <1>3, KilledType DEF TypeOK
<1> QED BY <1>2, <1>3 DEF OwnFailure

\* Every step of the thread of an order in a node keeps the types.
LEMMA NodeThreadTypes ==
    ASSUME TypeOK, NEW o \in Order, NodeThread(o)
    PROVE  TypeOK'
<1> USE WorkerAssumption DEF WorkerAssumption
<1>0. At[o] \in Node /\ Inputs[o] \subseteq Order /\ thread[o] \in ThreadState
  BY DEF TypeOK
<1>1. CASE RunMap(o)
  <2>1. /\ UNCHANGED <<jobUp, jpc, lock, up, named, deaths>>
        /\ file' \in [Order -> {"none"} \cup Sizes]
        /\ faulty' \subseteq Node /\ refusals' \in 0 .. MaxRefusals
    BY <1>0, <1>1 DEF RunMap, RunRoutine, Refuse, TypeOK
  <2>2. Reply(o, "ok") \/ Reply(o, "fail")
    BY <1>1 DEF RunMap, RunRoutine
  <2>3. thread' \in [Order -> ThreadState] /\ result' \in [Order -> Result]
    BY <2>2, ReplyType DEF Result
  <2> QED BY <2>1, <2>3 DEF TypeOK
<1>2. CASE StartReduce(o)
  <2>1. thread' \in [Order -> ThreadState]
    <3>1. ThreadAt("run", {}, Inputs[o]) \in ThreadState
      BY <1>0, ThreadAtType
    <3>2. ThreadAt("gather", Inputs[o], {}) \in ThreadState
      BY <1>0, ThreadAtType
    <3> QED BY <1>2, <3>1, <3>2 DEF StartReduce, TypeOK
  <2> QED BY <1>2, <2>1 DEF StartReduce, TypeOK, jobVars, envVars
<1>3. CASE StartGetting(o)
  <2> DEFINE t == thread[o]
             none == [t EXCEPT !.todo = {}]
             started(i) == [t EXCEPT !.todo = @ \ {i}, !.open = @ \cup {i}]
             failing(i) == [t EXCEPT !.todo = @ \ {i}, !.failed = TRUE]
  <2>0. /\ none \in ThreadState
        /\ \A i \in t.todo : started(i) \in ThreadState /\ failing(i) \in ThreadState
    BY <1>0 DEF ThreadState
  <2> HIDE DEF none, started, failing
  <2>1. thread' \in [Order -> ThreadState]
    <3>1. \/ thread' = [thread EXCEPT ![o] = none]
          \/ \E i \in t.todo : thread' = [thread EXCEPT ![o] = started(i)]
          \/ \E i \in t.todo : thread' = [thread EXCEPT ![o] = failing(i)]
      BY <1>3 DEF StartGetting, none, started, failing
    <3> QED BY <2>0, <3>1 DEF TypeOK
  <2>2. (UNCHANGED <<faulty, refusals>>) \/ Refuse(At[o])
    BY <1>3, Zenon DEF StartGetting
  <2>3. faulty' \subseteq Node /\ refusals' \in 0 .. MaxRefusals
    BY <1>0, <2>2 DEF Refuse, TypeOK
  <2> QED BY <1>3, <2>1, <2>3 DEF StartGetting, TypeOK, jobVars
<1>4. ASSUME NEW i \in Inputs[o], GetPart(o, i) PROVE TypeOK'
  <2>0. At[i] \in Node /\ i \in Order
    BY <1>0
  <2> DEFINE part == [thread[o] EXCEPT !.open = @ \ {i}]
             lost == [thread EXCEPT ![o] = Blame(part, At[i])]
             got  == [thread EXCEPT ![o] = [part EXCEPT !.got = @ \cup {i}]]
  <2>1. part \in ThreadState
    BY <1>0 DEF ThreadState
  <2>2. Blame(part, At[i]) \in ThreadState
    BY <2>0, <2>1 DEF Blame, ThreadState
  <2>3. [part EXCEPT !.got = @ \cup {i}] \in ThreadState
    BY <2>0, <2>1 DEF ThreadState
  <2>4. lost \in [Order -> ThreadState] /\ got \in [Order -> ThreadState]
    BY <2>2, <2>3 DEF TypeOK
  <2>5. thread' \in {lost, got, Killed(At[i], lost)}
    BY <1>4 DEF GetPart, Crash
  <2> HIDE DEF part, lost, got
  <2>6. thread' \in [Order -> ThreadState]
    <3>1. Killed(At[i], lost) \in [Order -> ThreadState]
      BY <2>4, KilledType
    <3> QED BY <2>4, <2>5, <3>1
  <2> USE DEF part, lost, got
  <2>7. /\ up' \subseteq Node /\ faulty' \subseteq Node
        /\ refusals' \in 0 .. MaxRefusals
    BY <2>0, <1>4 DEF GetPart, Crash, Refuse, TypeOK
  <2> QED BY <1>4, <2>6, <2>7 DEF GetPart, TypeOK, jobVars
<1>5. CASE JoinParts(o)
  <2>1. faulty' \subseteq Node /\ refusals' \in 0 .. MaxRefusals
    BY <1>0, <1>5 DEF JoinParts, Refuse, TypeOK
  <2>2. UNCHANGED <<jobUp, jpc, lock, file, deaths>>
    BY <1>5 DEF JoinParts
  <2>3. CASE /\ thread' = [thread EXCEPT ![o] = ThreadAt("run", {}, thread[o].got)]
             /\ UNCHANGED <<result, up, named>>
    <3>1. ThreadAt("run", {}, thread[o].got) \in ThreadState
      BY <1>0, ThreadAtType DEF ThreadState
    <3> QED BY <2>1, <2>2, <2>3, <3>1 DEF TypeOK
  <2>4. CASE /\ HasCulprit(thread[o]) /\ Reply(o, thread[o].culprit)
             /\ UNCHANGED <<up, named>>
    <3>1. thread[o].culprit \in Result
      BY <1>0, <2>4 DEF HasCulprit, ThreadState, Result
    <3>2. thread' \in [Order -> ThreadState] /\ result' \in [Order -> Result]
      BY <2>4, <3>1, ReplyType
    <3> QED BY <2>1, <2>2, <2>4, <3>2 DEF TypeOK
  <2>5. CASE OwnFailure(o)
    BY <2>1, <2>2, <2>5, OwnFailureType DEF TypeOK
  <2> QED BY <1>5, <2>3, <2>4, <2>5 DEF JoinParts
<1>6. CASE RunReduce(o)
  <2>1. /\ UNCHANGED <<jobUp, jpc, lock, deaths>>
        /\ file' \in [Order -> {"none"} \cup Sizes]
        /\ faulty' \subseteq Node /\ refusals' \in 0 .. MaxRefusals
    BY <1>0, <1>6 DEF RunReduce, RunRoutine, Refuse, TypeOK
  <2>2. CASE Reply(o, "ok") /\ UNCHANGED <<up, named>>
    <3>1. thread' \in [Order -> ThreadState] /\ result' \in [Order -> Result]
      BY <2>2, ReplyType DEF Result
    <3> QED BY <2>1, <2>2, <3>1 DEF TypeOK
  <2>3. CASE OwnFailure(o)
    BY <2>1, <2>3, OwnFailureType DEF TypeOK
  <2> QED BY <1>6, <2>2, <2>3 DEF RunReduce, RunRoutine
<1> QED BY <1>1, <1>2, <1>3, <1>4, <1>5, <1>6 DEF NodeThread

\* Every step of the thread of an order in the job keeps the types.
LEMMA JobThreadTypes ==
    ASSUME TypeOK, NEW o \in Order, RecvOrder(o) \/ JobThread(o) \/ ConnectionBreaks(o)
    PROVE  TypeOK'
<1> USE WorkerAssumption DEF WorkerAssumption
<1>0. At[o] \in Node
  OBVIOUS
<1>1. Unreachable(o) \in Result
  BY DEF Unreachable, Result
<1>2. CASE RecvOrder(o)
  BY <1>2 DEF RecvOrder, TypeOK, nodeVars, envVars
<1>3. CASE Connect(o)
  <2>1. ThreadAt("start", {}, {}) \in ThreadState
    BY ThreadAtType
  <2> QED BY <1>1, <1>3, <2>1 DEF Connect, Conclude, TypeOK, envVars
<1>4. CASE RecvAnswer(o)
  BY <1>1, <1>4 DEF RecvAnswer, Conclude, TypeOK, nodeVars, envVars
<1>5. CASE LockMarta(o) \/ SendHead(o) \/ SendBody(o)
  BY <1>5 DEF LockMarta, SendHead, SendBody, TypeOK, nodeVars, envVars
<1>6. CASE ConnectionBreaks(o)
  BY <1>0, <1>1, <1>6 DEF ConnectionBreaks, Conclude, TypeOK, nodeVars
<1> QED BY <1>2, <1>3, <1>4, <1>5, <1>6 DEF JobThread

\* The end of the job, and nodes that die and return, keep the types.
LEMMA ProcessTypes ==
    ASSUME TypeOK, JobEnds \/ \E n \in Node : NodeDies(n) \/ NodeReturns(n)
    PROVE  TypeOK'
<1> USE WorkerAssumption DEF WorkerAssumption
<1>1. CASE JobEnds
  BY <1>1 DEF JobEnds, TypeOK, nodeVars, envVars
<1>2. ASSUME NEW n \in Node, NodeDies(n) PROVE TypeOK'
  <2>1. Killed(n, thread) \in [Order -> ThreadState]
    BY KilledType DEF TypeOK
  <2> QED BY <1>2, <2>1 DEF NodeDies, Crash, TypeOK, jobVars
<1>3. ASSUME NEW n \in Node, NodeReturns(n) PROVE TypeOK'
  BY <1>3 DEF NodeReturns, TypeOK, jobVars, envVars
<1> QED BY <1>1, <1>2, <1>3

\* The types of the job's threads, of the nodes' threads and of what they share,
\* for any orders, nodes and faults.
THEOREM TypeCorrect == Spec => []TypeOK
<1>1. Init => TypeOK
  <2>1. ThreadAt("none", {}, {}) \in ThreadState
    BY ThreadAtType
  <2> QED BY <2>1, WorkerAssumption DEF WorkerAssumption, Init, TypeOK, Result
<1>2. TypeOK /\ [Next]_vars => TypeOK'
  <2> SUFFICES ASSUME TypeOK, [Next]_vars PROVE TypeOK'
    OBVIOUS
  <2>1. CASE UNCHANGED vars
    BY <2>1 DEF TypeOK, vars, jobVars, nodeVars, envVars
  <2> QED BY <2>1, JobThreadTypes, NodeThreadTypes, ProcessTypes DEF Next, Ended
<1> QED BY <1>1, <1>2, PTL DEF Spec

-----------------------------------------------------------------------------
\* A result is good once the thread of the node has answered, not before; and a
\* reduce goes on with every file, or knows that one is missing.
GatheredAs(o, place, r, t) ==
    /\ place \in {"none", "connect"} => r # "ok"
    /\ r = "ok" => t.at = "replied"
    /\ t.at = "gather" /\ ~t.failed => t.todo \cup t.open \cup t.got = Inputs[o]
    /\ t.at = "run" => t.got = Inputs[o]
    /\ t.at = "replied" /\ r = "ok" /\ o \notin Maps => t.got = Inputs[o]
Gathered == \A o \in Order : GatheredAs(o, jpc[o], result[o], thread[o])

\* A thread killed with its node owes nothing.
LEMMA KilledGathered ==
    ASSUME NEW threads \in [Order -> ThreadState], NEW n \in Node, NEW o \in Order,
           NEW place, NEW r, GatheredAs(o, place, r, threads[o])
    PROVE  GatheredAs(o, place, r, Killed(n, threads)[o])
  BY DEF GatheredAs, Killed, ThreadAt, Running

\* A thread answers "ok" when it has every file, or does a map.
LEMMA ReplyGathers ==
    ASSUME TypeOK, Gathered, NEW o \in Order, NEW r, Reply(o, r),
           thread[o].at # "replied", UNCHANGED jpc,
           r = "ok" => o \in Maps \/ thread[o].got = Inputs[o]
    PROVE  Gathered'
<1>1. GatheredAs(o, jpc'[o], result'[o], thread'[o])
  BY DEF Reply, ThreadAt, GatheredAs, Gathered, TypeOK
<1>2. ASSUME NEW p \in Order, p # o
      PROVE  GatheredAs(p, jpc'[p], result'[p], thread'[p])
  BY <1>2 DEF Reply, Gathered, TypeOK
<1> QED BY <1>1, <1>2 DEF Gathered

\* A step that moves only the thread of one order in its node.
LEMMA ThreadGathers ==
    ASSUME TypeOK, Gathered, NEW o \in Order, NEW t, UNCHANGED <<jpc, result>>,
           thread' = [thread EXCEPT ![o] = t],
           GatheredAs(o, jpc[o], result[o], t)
    PROVE  Gathered'
  BY DEF Gathered, TypeOK

\* A reduce that fails by itself does not say "ok".
LEMMA OwnFailureGathers ==
    ASSUME TypeOK, Gathered, NEW o \in Order, OwnFailure(o), UNCHANGED jpc,
           thread[o].at # "replied"
    PROVE  Gathered'
<1> USE WorkerAssumption DEF WorkerAssumption
<1>1. At[o] \in Node /\ At[o] # "ok" /\ Garbage # "ok"
  OBVIOUS
<1>2. CASE Reply(o, At[o]) \/ Reply(o, Garbage)
  BY <1>1, <1>2, ReplyGathers
<1>3. CASE thread' = Killed(At[o], thread) /\ UNCHANGED result
  BY <1>1, <1>3, KilledGathered DEF Gathered, TypeOK
<1> QED BY <1>2, <1>3 DEF OwnFailure

\* Every step of the thread of an order in a node.
LEMMA NodeThreadGathers ==
    ASSUME TypeOK, Gathered, NEW o \in Order, NodeThread(o)
    PROVE  Gathered'
<1> USE WorkerAssumption DEF WorkerAssumption
<1>0. /\ thread[o] \in ThreadState
      /\ GatheredAs(o, jpc[o], result[o], thread[o])
  BY DEF TypeOK, Gathered
<1>1. CASE RunMap(o)
  BY <1>1, ReplyGathers DEF RunMap, RunRoutine
<1>2. CASE StartReduce(o)
  <2>1. \A t : t \in {ThreadAt("run", {}, Inputs[o]), ThreadAt("gather", Inputs[o], {})}
               => GatheredAs(o, jpc[o], result[o], t)
    BY <1>0, <1>2 DEF StartReduce, GatheredAs, ThreadAt
  <2> QED BY <1>2, <2>1, ThreadGathers DEF StartReduce, jobVars
<1>3. CASE StartGetting(o)
  <2> DEFINE t == thread[o]
             none == [t EXCEPT !.todo = {}]
             started(i) == [t EXCEPT !.todo = @ \ {i}, !.open = @ \cup {i}]
             failing(i) == [t EXCEPT !.todo = @ \ {i}, !.failed = TRUE]
  <2>1. t.at = "gather"
    BY <1>3 DEF StartGetting
  <2>2. t.failed => GatheredAs(o, jpc[o], result[o], none)
    BY <1>0, <2>1 DEF GatheredAs, ThreadState
  <2>3. \A i \in t.todo : /\ GatheredAs(o, jpc[o], result[o], started(i))
                          /\ GatheredAs(o, jpc[o], result[o], failing(i))
    BY <1>0, <2>1 DEF GatheredAs, ThreadState
  <2>4. \/ t.failed /\ thread' = [thread EXCEPT ![o] = none]
        \/ \E i \in t.todo : \/ thread' = [thread EXCEPT ![o] = started(i)]
                             \/ thread' = [thread EXCEPT ![o] = failing(i)]
    BY <1>3 DEF StartGetting
  <2>5. UNCHANGED <<jpc, result>>
    BY <1>3 DEF StartGetting, jobVars
  <2> HIDE DEF none, started, failing
  <2> QED BY <2>2, <2>3, <2>4, <2>5, ThreadGathers
<1>4. ASSUME NEW i \in Inputs[o], GetPart(o, i) PROVE Gathered'
  <2> DEFINE part == [thread[o] EXCEPT !.open = @ \ {i}]
             lost == [thread EXCEPT ![o] = Blame(part, At[i])]
             got  == [part EXCEPT !.got = @ \cup {i}]
  <2>0. At[i] \in Node /\ i \in Order
    OBVIOUS
  <2>1. thread[o].at = "gather" /\ i \in thread[o].open
    BY <1>4 DEF GetPart
  <2>2. UNCHANGED <<jpc, result>>
    BY <1>4 DEF GetPart, jobVars
  <2>3. GatheredAs(o, jpc[o], result[o], Blame(part, At[i]))
    BY <1>0, <2>1 DEF GatheredAs, ThreadState, Blame
  <2>4. GatheredAs(o, jpc[o], result[o], got)
    BY <1>0, <2>1 DEF GatheredAs, ThreadState
  <2>5. lost \in [Order -> ThreadState]
    <3>1. part \in ThreadState
      BY <1>0 DEF ThreadState
    <3>2. Blame(part, At[i]) \in ThreadState
      BY <2>0, <3>1 DEF Blame, ThreadState
    <3> QED BY <3>2 DEF TypeOK
  <2>6. \/ thread' = [thread EXCEPT ![o] = got]
        \/ thread' = lost
        \/ thread' = Killed(At[i], lost)
    BY <1>4 DEF GetPart, Crash
  <2> HIDE DEF part, got
  <2>7. \A p \in Order : GatheredAs(p, jpc[p], result[p], lost[p])
    BY <2>3 DEF Gathered, TypeOK
  <2> HIDE DEF lost
  <2>8. CASE thread' = [thread EXCEPT ![o] = got]
    BY <2>2, <2>4, <2>8, ThreadGathers
  <2>9. CASE thread' = lost
    BY <2>2, <2>7, <2>9 DEF Gathered
  <2>10. CASE thread' = Killed(At[i], lost)
    BY <2>0, <2>2, <2>5, <2>7, <2>10, KilledGathered DEF Gathered
  <2> QED BY <2>6, <2>8, <2>9, <2>10
<1>5. CASE JoinParts(o)
  <2>1. /\ thread[o].at = "gather" /\ thread[o].todo = {} /\ thread[o].open = {}
        /\ UNCHANGED jpc
    BY <1>5 DEF JoinParts
  <2>2. CASE /\ ~thread[o].failed /\ UNCHANGED result
             /\ thread' = [thread EXCEPT ![o] = ThreadAt("run", {}, thread[o].got)]
    <3>1. GatheredAs(o, jpc[o], result[o], ThreadAt("run", {}, thread[o].got))
      BY <1>0, <2>1, <2>2 DEF GatheredAs, ThreadAt
    <3> QED BY <2>1, <2>2, <3>1, ThreadGathers
  <2>3. CASE HasCulprit(thread[o]) /\ Reply(o, thread[o].culprit)
    <3>1. thread[o].culprit # "ok"
      BY <1>0, <2>3 DEF HasCulprit, ThreadState
    <3> QED BY <2>1, <2>3, <3>1, ReplyGathers
  <2>4. CASE OwnFailure(o)
    BY <2>1, <2>4, OwnFailureGathers
  <2> QED BY <1>5, <2>2, <2>3, <2>4 DEF JoinParts
<1>6. CASE RunReduce(o)
  <2>1. thread[o].at = "run" /\ thread[o].got = Inputs[o] /\ UNCHANGED jpc
    BY <1>0, <1>6 DEF RunReduce, GatheredAs
  <2> QED BY <1>6, <2>1, ReplyGathers, OwnFailureGathers DEF RunReduce, RunRoutine
<1> QED BY <1>1, <1>2, <1>3, <1>4, <1>5, <1>6 DEF NodeThread

\* Every step of the thread of an order in the job.
LEMMA JobThreadGathers ==
    ASSUME TypeOK, Gathered, NEW o \in Order,
           RecvOrder(o) \/ JobThread(o) \/ ConnectionBreaks(o)
    PROVE  Gathered'
<1>1. Unreachable(o) # "ok"
  BY DEF Unreachable
<1>2. GatheredAs(o, jpc'[o], result'[o], thread'[o])
  BY <1>1 DEF RecvOrder, JobThread, Connect, RecvAnswer, LockMarta, SendHead, SendBody,
              ConnectionBreaks, Conclude, GatheredAs, Gathered, TypeOK, ThreadAt,
              nodeVars, envVars
<1>3. ASSUME NEW p \in Order, p # o
      PROVE  jpc'[p] = jpc[p] /\ result'[p] = result[p] /\ thread'[p] = thread[p]
  BY <1>3 DEF RecvOrder, JobThread, Connect, RecvAnswer, LockMarta, SendHead, SendBody,
              ConnectionBreaks, Conclude, TypeOK, nodeVars, envVars
<1> QED BY <1>2, <1>3 DEF Gathered

\* A reduce that is done joined the file of each of its inputs, however the threads
\* that were getting them failed (failed, in connections_job.c).
THEOREM ReducesJoinEveryPart == Spec => []OkJoinsEveryPart
<1>1. Init => Gathered
  BY DEF Init, Gathered, GatheredAs, ThreadAt
<1>2. TypeOK /\ Gathered /\ [Next]_vars => Gathered'
  <2> SUFFICES ASSUME TypeOK, Gathered, [Next]_vars PROVE Gathered'
    OBVIOUS
  <2>1. CASE UNCHANGED vars
    BY <2>1 DEF Gathered, vars, jobVars, nodeVars
  <2>2. CASE JobEnds
    BY <2>2 DEF JobEnds, Gathered, GatheredAs, nodeVars
  <2>3. ASSUME NEW n \in Node, NodeDies(n) PROVE Gathered'
    BY <2>3, KilledGathered DEF NodeDies, Crash, Gathered, TypeOK, jobVars
  <2>4. ASSUME NEW n \in Node, NodeReturns(n) PROVE Gathered'
    BY <2>4 DEF NodeReturns, Gathered, jobVars
  <2> QED BY <2>1, <2>2, <2>3, <2>4, JobThreadGathers, NodeThreadGathers DEF Next, Ended
<1>3. Gathered => OkJoinsEveryPart
  BY DEF Gathered, GatheredAs, OkJoinsEveryPart
<1> QED BY <1>1, <1>2, <1>3, TypeCorrect, PTL DEF Spec

-----------------------------------------------------------------------------
\* What is blamed failed: the node of a result, the node a thread has noted, the
\* node of a thread that was killed, and the node itself when its thread knows that
\* a file is missing and has nobody else to name.
BlamedAs(o, r, t, failing) ==
    /\ r \in Node => r \in failing
    /\ r = "ErrorAlConectar" => At[o] \in failing
    /\ t.culprit \in Node => t.culprit \in failing
    /\ t.at = "gather" /\ t.failed /\ t.culprit = NoNode => At[o] \in failing
    /\ t.at = "dead" => At[o] \in failing
Blamed ==
    /\ Node \ up \subseteq faulty
    /\ \A o \in Order : BlamedAs(o, result[o], thread[o], faulty)

\* A node that failed is one for ever.
LEMMA BlameStays ==
    ASSUME NEW o, NEW r, NEW t, NEW failing, BlamedAs(o, r, t, failing),
           failing \subseteq faulty'
    PROVE  BlamedAs(o, r, t, faulty')
  BY DEF BlamedAs

\* A thread that starts, runs or has answered has noted nobody.
LEMMA FreshBlames ==
    ASSUME NEW o \in Order, NEW r, NEW place \in {"none", "start", "gather", "run", "replied"},
           NEW asked, NEW parts, NEW failing,
           r \in Node => r \in failing,
           r = "ErrorAlConectar" => At[o] \in failing
    PROVE  BlamedAs(o, r, ThreadAt(place, asked, parts), failing)
  BY WorkerAssumption DEF WorkerAssumption, BlamedAs, ThreadAt

\* The threads killed with a node are of a node that failed.
LEMMA KilledBlames ==
    ASSUME NEW threads \in [Order -> ThreadState], NEW n \in Node, NEW o \in Order,
           NEW r, NEW failing, n \in failing, BlamedAs(o, r, threads[o], failing)
    PROVE  BlamedAs(o, r, Killed(n, threads)[o], failing)
  BY WorkerAssumption DEF WorkerAssumption, BlamedAs, Killed, ThreadAt

\* An answer names a node that failed, or none.
LEMMA ReplyBlames ==
    ASSUME TypeOK, Blamed, NEW o \in Order, NEW r, Reply(o, r),
           r \in Node => r \in faulty', r # "ErrorAlConectar",
           faulty \subseteq faulty', Node \ up' \subseteq faulty'
    PROVE  Blamed'
<1>1. BlamedAs(o, result'[o], thread'[o], faulty')
  <2>1. BlamedAs(o, result[o], thread[o], faulty')
    BY BlameStays DEF Blamed
  <2>2. thread'[o] = ThreadAt("replied", {}, thread[o].got)
    BY DEF Reply, TypeOK
  <2>3. result'[o] = r \/ result'[o] = result[o]
    BY DEF Reply, TypeOK
  <2>4. /\ result'[o] \in Node => result'[o] \in faulty'
        /\ result'[o] = "ErrorAlConectar" => At[o] \in faulty'
    BY <2>1, <2>3 DEF BlamedAs
  <2> QED BY <2>2, <2>4, FreshBlames
<1>2. ASSUME NEW p \in Order, p # o
      PROVE  BlamedAs(p, result'[p], thread'[p], faulty')
  <2>1. result'[p] = result[p] /\ thread'[p] = thread[p]
    BY <1>2 DEF Reply, TypeOK
  <2> QED BY <2>1, BlameStays DEF Blamed
<1> QED BY <1>1, <1>2 DEF Blamed

\* A step that moves only the thread of one order in its node.
LEMMA ThreadBlames ==
    ASSUME TypeOK, Blamed, NEW o \in Order, NEW t, UNCHANGED <<result, up>>,
           thread' = [thread EXCEPT ![o] = t], faulty \subseteq faulty',
           BlamedAs(o, result[o], t, faulty')
    PROVE  Blamed'
<1>1. \A p \in Order : p # o => thread'[p] = thread[p]
  BY DEF TypeOK
<1>2. thread'[o] = t
  BY DEF TypeOK
<1>3. \A p \in Order : BlamedAs(p, result'[p], thread'[p], faulty')
  BY <1>1, <1>2, BlameStays DEF Blamed
<1> QED BY <1>3 DEF Blamed

\* A reduce fails by itself in a node that failed: it names that node, or no node.
LEMMA OwnFailureBlames ==
    ASSUME TypeOK, Blamed, NEW o \in Order, OwnFailure(o),
           faulty \subseteq faulty', At[o] \in faulty'
    PROVE  Blamed'
<1> USE WorkerAssumption DEF WorkerAssumption
<1>1. At[o] \in Node /\ At[o] # "ErrorAlConectar" /\ Garbage # "ErrorAlConectar"
  OBVIOUS
<1>2. Node \ up' \subseteq faulty'
  BY DEF OwnFailure, Blamed
<1>3. CASE Reply(o, At[o]) \/ Reply(o, Garbage)
  BY <1>1, <1>2, <1>3, ReplyBlames
<1>4. CASE thread' = Killed(At[o], thread) /\ UNCHANGED result
  <2>1. \A p \in Order : BlamedAs(p, result[p], thread[p], faulty')
    BY BlameStays DEF Blamed
  <2>2. thread \in [Order -> ThreadState]
    BY DEF TypeOK
  <2>3. \A p \in Order : BlamedAs(p, result[p], thread'[p], faulty')
    BY <1>1, <1>4, <2>1, <2>2, KilledBlames
  <2> QED BY <1>2, <1>4, <2>3 DEF Blamed
<1> QED BY <1>3, <1>4 DEF OwnFailure

\* Every step of the thread of an order in a node.
LEMMA NodeThreadBlames ==
    ASSUME TypeOK, Blamed, NEW o \in Order, NodeThread(o)
    PROVE  Blamed'
<1> USE WorkerAssumption DEF WorkerAssumption
<1>0. /\ thread[o] \in ThreadState /\ At[o] \in Node
      /\ BlamedAs(o, result[o], thread[o], faulty)
  BY DEF TypeOK, Blamed
<1>1. CASE RunMap(o)
  <2>1. UNCHANGED up /\ faulty \subseteq faulty'
    BY <1>1 DEF RunMap, Refuse
  <2>2. Reply(o, "ok") \/ Reply(o, "fail")
    BY <1>1 DEF RunMap, RunRoutine
  <2>3. Node \ up' \subseteq faulty'
    BY <2>1 DEF Blamed
  <2> QED BY <2>1, <2>2, <2>3, ReplyBlames
<1>2. CASE StartReduce(o)
  <2>1. /\ result[o] \in Node => result[o] \in faulty
        /\ result[o] = "ErrorAlConectar" => At[o] \in faulty
    BY <1>0 DEF BlamedAs
  <2>2. /\ BlamedAs(o, result[o], ThreadAt("run", {}, Inputs[o]), faulty)
        /\ BlamedAs(o, result[o], ThreadAt("gather", Inputs[o], {}), faulty)
    BY <2>1, FreshBlames
  <2> QED BY <1>2, <2>2, ThreadBlames DEF StartReduce, jobVars, envVars
<1>3. CASE StartGetting(o)
  <2> DEFINE t == thread[o]
             none == [t EXCEPT !.todo = {}]
             started(i) == [t EXCEPT !.todo = @ \ {i}, !.open = @ \cup {i}]
             failing(i) == [t EXCEPT !.todo = @ \ {i}, !.failed = TRUE]
  <2>1. UNCHANGED <<result, up>> /\ faulty \subseteq faulty'
    BY <1>3 DEF StartGetting, Refuse, jobVars
  <2>2. BlamedAs(o, result[o], t, faulty')
    BY <1>0, <2>1, BlameStays
  <2>3. /\ BlamedAs(o, result[o], none, faulty')
        /\ \A i \in t.todo : BlamedAs(o, result[o], started(i), faulty')
    BY <1>0, <2>2 DEF BlamedAs, ThreadState
  <2>4. \/ thread' = [thread EXCEPT ![o] = none]
        \/ \E i \in t.todo : thread' = [thread EXCEPT ![o] = started(i)]
        \/ /\ At[o] \in faulty'
           /\ \E i \in t.todo : thread' = [thread EXCEPT ![o] = failing(i)]
    BY <1>3 DEF StartGetting, Refuse
  <2>5. At[o] \in faulty' =>
            \A i \in t.todo : BlamedAs(o, result[o], failing(i), faulty')
    BY <1>0, <2>2 DEF BlamedAs, ThreadState
  <2> HIDE DEF none, started, failing
  <2> QED BY <2>1, <2>3, <2>4, <2>5, ThreadBlames
<1>4. ASSUME NEW i \in Inputs[o], GetPart(o, i) PROVE Blamed'
  <2> DEFINE part == [thread[o] EXCEPT !.open = @ \ {i}]
             blame == Blame(part, At[i])
             lost == [thread EXCEPT ![o] = blame]
             got  == [part EXCEPT !.got = @ \cup {i}]
  <2>0. At[i] \in Node /\ At[i] # NoNode
    OBVIOUS
  <2>1. UNCHANGED result /\ faulty \subseteq faulty'
    BY <1>4 DEF GetPart, Crash, Refuse, jobVars
  <2>2. BlamedAs(o, result[o], thread[o], faulty')
    BY <1>0, <2>1, BlameStays
  <2>3. BlamedAs(o, result[o], got, faulty')
    BY <1>0, <2>2 DEF BlamedAs, ThreadState
  <2>4. At[i] \in faulty' => BlamedAs(o, result[o], blame, faulty')
    BY <1>0, <2>0, <2>2 DEF BlamedAs, ThreadState, Blame
  <2>5. blame \in ThreadState
    <3>1. part \in ThreadState
      BY <1>0 DEF ThreadState
    <3> QED BY <2>0, <3>1 DEF Blame, ThreadState
  <2>6. \/ thread' = [thread EXCEPT ![o] = got] /\ UNCHANGED up
        \/ At[i] \in faulty' /\ thread' = lost /\ UNCHANGED up
        \/ At[i] \in faulty' /\ thread' = Killed(At[i], lost) /\ up' = up \ {At[i]}
    BY <1>4, <2>0 DEF GetPart, Crash, Refuse, Blamed
  <2> HIDE DEF part, blame, got
  <2>7. CASE thread' = [thread EXCEPT ![o] = got] /\ UNCHANGED up
    BY <2>1, <2>3, <2>7, ThreadBlames
  <2>8. CASE At[i] \in faulty' /\ thread' = lost /\ UNCHANGED up
    BY <2>1, <2>4, <2>8, ThreadBlames
  <2>9. CASE At[i] \in faulty' /\ thread' = Killed(At[i], lost) /\ up' = up \ {At[i]}
    <3>1. lost \in [Order -> ThreadState]
      BY <2>5 DEF TypeOK
    <3>2. \A p \in Order : BlamedAs(p, result[p], lost[p], faulty')
      <4>1. \A p \in Order : p # o => lost[p] = thread[p]
        BY DEF TypeOK
      <4>2. lost[o] = blame
        BY DEF TypeOK
      <4> HIDE DEF lost
      <4> QED BY <2>1, <2>4, <2>9, <4>1, <4>2, BlameStays DEF Blamed
    <3> HIDE DEF lost
    <3>3. \A p \in Order : BlamedAs(p, result[p], thread'[p], faulty')
      BY <2>0, <2>9, <3>1, <3>2, KilledBlames
    <3>4. Node \ up' \subseteq faulty'
      BY <2>1, <2>9 DEF Blamed
    <3> QED BY <2>1, <3>3, <3>4 DEF Blamed
  <2> QED BY <2>6, <2>7, <2>8, <2>9
<1>5. CASE JoinParts(o)
  <2>1. thread[o].at = "gather" /\ faulty \subseteq faulty'
    BY <1>5 DEF JoinParts, Refuse
  <2>2. CASE /\ UNCHANGED <<result, up>>
             /\ thread' = [thread EXCEPT ![o] = ThreadAt("run", {}, thread[o].got)]
    <3>1. BlamedAs(o, result[o], thread[o], faulty')
      BY <1>0, <2>1, BlameStays
    <3>2. /\ result[o] \in Node => result[o] \in faulty'
          /\ result[o] = "ErrorAlConectar" => At[o] \in faulty'
      BY <3>1 DEF BlamedAs
    <3>3. BlamedAs(o, result[o], ThreadAt("run", {}, thread[o].got), faulty')
      BY <3>2, FreshBlames
    <3> QED BY <2>1, <2>2, <3>3, ThreadBlames
  <2>3. CASE /\ HasCulprit(thread[o]) /\ Reply(o, thread[o].culprit)
             /\ UNCHANGED <<up, faulty>>
    <3>1. thread[o].culprit \in faulty /\ thread[o].culprit # "ErrorAlConectar"
      BY <1>0, <2>3 DEF HasCulprit, ThreadState, BlamedAs
    <3>2. Node \ up' \subseteq faulty'
      BY <2>3 DEF Blamed
    <3> QED BY <2>1, <2>3, <3>1, <3>2, ReplyBlames
  <2>4. CASE /\ thread[o].failed /\ ~HasCulprit(thread[o]) /\ OwnFailure(o)
             /\ UNCHANGED faulty
    <3>1. At[o] \in faulty
      BY <1>0, <2>1, <2>4 DEF HasCulprit, BlamedAs
    <3> QED BY <2>1, <2>4, <3>1, OwnFailureBlames
  <2>5. CASE Refuse(At[o]) /\ OwnFailure(o)
    BY <2>1, <2>5, OwnFailureBlames DEF Refuse
  <2> QED BY <1>5, <2>2, <2>3, <2>4, <2>5 DEF JoinParts
<1>6. CASE RunReduce(o)
  <2>1. CASE Reply(o, "ok") /\ UNCHANGED <<up, faulty>>
    <3>1. Node \ up' \subseteq faulty'
      BY <2>1 DEF Blamed
    <3> QED BY <2>1, <3>1, ReplyBlames
  <2>2. CASE Refuse(At[o]) /\ OwnFailure(o)
    BY <2>2, OwnFailureBlames DEF Refuse
  <2> QED BY <1>6, <2>1, <2>2 DEF RunReduce, RunRoutine
<1> QED BY <1>1, <1>2, <1>3, <1>4, <1>5, <1>6 DEF NodeThread

\* Every step of the thread of an order in the job.
LEMMA JobThreadBlames ==
    ASSUME TypeOK, Blamed, NEW o \in Order,
           RecvOrder(o) \/ JobThread(o) \/ ConnectionBreaks(o)
    PROVE  Blamed'
<1> USE WorkerAssumption DEF WorkerAssumption
<1>0. At[o] \in Node /\ BlamedAs(o, result[o], thread[o], faulty)
  BY DEF Blamed
<1>1. Unreachable(o) \in {"fail", "ErrorAlConectar"}
  BY DEF Unreachable
<1>2. faulty \subseteq faulty' /\ UNCHANGED up
  BY DEF RecvOrder, JobThread, Connect, RecvAnswer, LockMarta, SendHead, SendBody,
         ConnectionBreaks, nodeVars, envVars
<1>3. ASSUME NEW p \in Order, p # o
      PROVE  result'[p] = result[p] /\ thread'[p] = thread[p]
  BY <1>3 DEF RecvOrder, JobThread, Connect, RecvAnswer, LockMarta, SendHead, SendBody,
              ConnectionBreaks, Conclude, TypeOK, nodeVars, envVars
<1>4. BlamedAs(o, result[o], thread[o], faulty')
  BY <1>0, <1>2, BlameStays
<1>5. BlamedAs(o, result'[o], thread'[o], faulty')
  <2>1. CASE UNCHANGED <<result, thread>>
    BY <1>4, <2>1
  <2>2. CASE UNCHANGED result /\ thread' = [thread EXCEPT ![o] = ThreadAt("start", {}, {})]
    <3>1. thread'[o] = ThreadAt("start", {}, {}) /\ result'[o] = result[o]
      BY <2>2 DEF TypeOK
    <3>2. /\ result[o] \in Node => result[o] \in faulty'
          /\ result[o] = "ErrorAlConectar" => At[o] \in faulty'
      BY <1>4 DEF BlamedAs
    <3>3. BlamedAs(o, result[o], ThreadAt("start", {}, {}), faulty')
      BY <3>2, FreshBlames
    <3> QED BY <3>1, <3>3
  <2>3. CASE /\ result' = [result EXCEPT ![o] = Unreachable(o)] /\ UNCHANGED thread
             /\ At[o] \in faulty'
    <3>1. result'[o] \notin Node
      BY <1>1, <2>3 DEF TypeOK
    <3> QED BY <1>4, <2>3, <3>1 DEF BlamedAs
  <2>4. CASE result' = [result EXCEPT ![o] = result[o]] /\ UNCHANGED thread
    BY <1>4, <2>4 DEF TypeOK
  <2>5. At[o] \notin up \/ thread[o].at = "dead" => At[o] \in faulty
    BY <1>0 DEF Blamed, BlamedAs
  <2>6. CASE RecvOrder(o) \/ LockMarta(o) \/ SendHead(o) \/ SendBody(o)
    BY <2>1, <2>6 DEF RecvOrder, LockMarta, SendHead, SendBody, nodeVars
  <2>7. CASE Connect(o)
    BY <1>2, <2>2, <2>3, <2>5, <2>7 DEF Connect, Conclude
  <2>8. CASE RecvAnswer(o)
    BY <1>2, <2>3, <2>4, <2>5, <2>8 DEF RecvAnswer, Conclude, nodeVars
  <2>9. CASE ConnectionBreaks(o)
    BY <2>3, <2>9 DEF ConnectionBreaks, Conclude, nodeVars
  <2> QED BY <2>6, <2>7, <2>8, <2>9 DEF JobThread
<1>6. \A p \in Order : BlamedAs(p, result'[p], thread'[p], faulty')
  BY <1>2, <1>3, <1>5, BlameStays DEF Blamed
<1> QED BY <1>2, <1>6 DEF Blamed

\* MaRTA deactivates no node for a reduce unless something failed in it, or on the
\* way to it: nodeIdFailed and "ErrorAlConectar" are never said of another.
THEOREM OnlyFaultyAreBlamed == Spec => []BlamedNodesFailed
<1>1. Init => Blamed
  BY WorkerAssumption DEF WorkerAssumption, Init, Blamed, BlamedAs, ThreadAt
<1>2. TypeOK /\ Blamed /\ [Next]_vars => Blamed'
  <2> SUFFICES ASSUME TypeOK, Blamed, [Next]_vars PROVE Blamed'
    OBVIOUS
  <2>1. CASE UNCHANGED vars
    BY <2>1 DEF Blamed, vars, jobVars, nodeVars, envVars
  <2>2. CASE JobEnds
    BY <2>2 DEF JobEnds, Blamed, nodeVars, envVars
  <2>3. ASSUME NEW n \in Node, NodeDies(n) PROVE Blamed'
    <3>1. /\ faulty' = faulty \cup {n} /\ UNCHANGED result /\ up' = up \ {n}
          /\ thread' = Killed(n, thread)
      BY <2>3 DEF NodeDies, Crash, jobVars
    <3>2. \A o \in Order : BlamedAs(o, result[o], thread[o], faulty')
      BY <3>1, BlameStays DEF Blamed
    <3>3. thread \in [Order -> ThreadState] /\ n \in faulty'
      BY <3>1 DEF TypeOK
    <3>4. \A o \in Order : BlamedAs(o, result[o], thread'[o], faulty')
      BY <3>1, <3>2, <3>3, KilledBlames
    <3> QED BY <3>1, <3>4 DEF Blamed
  <2>4. ASSUME NEW n \in Node, NodeReturns(n) PROVE Blamed'
    BY <2>4 DEF NodeReturns, Blamed, jobVars, envVars
  <2> QED BY <2>1, <2>2, <2>3, <2>4, JobThreadBlames, NodeThreadBlames DEF Next, Ended
<1>3. Blamed => BlamedNodesFailed
  BY DEF Blamed, BlamedAs, BlamedNodesFailed
<1> QED BY <1>1, <1>2, <1>3, TypeCorrect, PTL DEF Spec
=============================================================================
