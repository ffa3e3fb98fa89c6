--------------------------- MODULE NodeLink_proofs ---------------------------
(***************************************************************************)
(* Proofs about NodeLink, for any number of threads, connections, blocks   *)
(* and packets on their way: its types, that a connection is not freed     *)
(* while it can be found, in all behaviours, and, while the mutex is one   *)
(* and no freed connection is used, that the blocks of the node keep their *)
(* data and that its answers go to the thread that asked.                  *)
(***************************************************************************)
EXTENDS NodeLink, FiniteSetTheorems, TLAPS

\* What is sent to the node: a command or the data of a block, or a probe.
Sent == [kind : {"set", "get", "data"}, block : Block] \cup {Alive}

\* The places where a thread exchanges a block.
Busy == {"make", "lock", "command", "data", "await", "drop"}
Place == Busy \cup {"off", "idle", "look", "probe", "enable", "disable"}
Call == [kind : {"set", "get"}, block : Block]

DictTypes  == {active, standby, hand} \subseteq Conn \cup {NoConn} /\ freed \subseteq Conn
MutexTypes == /\ mutex \in Mutexes /\ made \in Mutexes
              /\ owner \in [Mutexes -> Actor \cup {NoConn}] /\ mine \in [Actor -> Mutexes]
CallTypes  == /\ pc \in [Actor -> Place] /\ conn \in [Actor -> Conn \cup {NoConn}]
              /\ op \in [Thread -> Call \cup {NoOp}] /\ strayed \in BOOLEAN
              /\ \A t \in Thread : pc[t] \in Busy => op[t] \in Call
              /\ \A t \in Thread : pc[t] = "data" => op[t].kind = "set"
WireTypes  == /\ acc \in [Conn -> {"no", "hello", "put", "add", "done"}]
              /\ up \subseteq Conn /\ \A c \in up : acc[c] # "no"
              /\ toNode \in [Conn -> Seq(Sent)] /\ toFs \in [Conn -> Seq(Block)]
NodeTypes  == /\ link \in Conn \cup {NoConn} /\ want \in Block \cup {NoBlock}
              /\ disk \in [Block -> Content]
Types == DictTypes /\ MutexTypes /\ CallTypes /\ WireTypes /\ NodeTypes /\ moves \in 0 .. MaxMoves

\* The operators on sequences that the queues need.
LEMMA Queues ==
    ASSUME NEW S, NEW q \in Seq(S)
    PROVE  /\ \A e \in S : Append(q, e) \in Seq(S)
           /\ q # <<>> => Head(q) \in S /\ Tail(q) \in Seq(S)
           /\ <<>> \in Seq(S)
  BY SMT

\* These types imply those of NodeLink.
LEMMA TypesImply == Types => TypeOK
  <1> SUFFICES ASSUME Types PROVE TypeOK
    OBVIOUS
  <1>1. Sent \subseteq Packet
    BY DEF Sent, Packet, Alive
  <1>2. toNode \in [Conn -> Seq(Packet)]
    <2>1. \A q \in Seq(Sent) : q \in Seq(Packet)
      BY <1>1
    <2> QED BY <2>1 DEF Types, WireTypes
  <1>3. op \in [Thread -> [kind : {"set", "get", "none"}, block : Block \cup {NoBlock}]]
    <2>1. Call \cup {NoOp} \subseteq [kind : {"set", "get", "none"}, block : Block \cup {NoBlock}]
      BY DEF Call, NoOp
    <2> QED BY <2>1 DEF Types, CallTypes
  <1>4. pc \in [Actor -> {"off", "idle", "make", "lock", "look", "probe",
                          "command", "data", "await", "drop", "enable", "disable"}]
    BY DEF Types, CallTypes, Place, Busy
  <1>5. up \subseteq Used
    BY DEF Types, WireTypes, Used
  <1> QED
    BY <1>2, <1>3, <1>4, <1>5
    DEF Types, DictTypes, MutexTypes, CallTypes, WireTypes, NodeTypes, TypeOK

\* There is an actor at least.
LEMMA SomeMutex == 0 \in Mutexes /\ 1 \in Mutexes
  <1>1. Cardinality(Actor) \in Nat /\ Cardinality(Actor) # 0
    BY LinkAssumption, FS_CardinalityType, FS_EmptySet DEF Actor
  <1> QED BY <1>1 DEF Mutexes

\* Before the node connects.
LEMMA InitTypes == Init => Types
  <1> SUFFICES ASSUME Init PROVE Types
    OBVIOUS
  <1>1. DictTypes /\ NodeTypes
    BY DEF Init, DictTypes, NodeTypes, Content
  <1>2. MutexTypes
    BY SomeMutex DEF Init, MutexTypes
  <1>3. CallTypes
    <2>1. pc \in [Actor -> {"idle", "off"}] /\ op \in [Thread -> {NoOp}]
      BY DEF Init
    <2>2. \A t \in Thread : pc[t] = "idle"
      BY DEF Init, Actor
    <2> QED BY <2>1, <2>2 DEF Init, CallTypes, Place, Busy
  <1>4. WireTypes
    <2>1. <<>> \in Seq(Sent) /\ <<>> \in Seq(Block)
      OBVIOUS
    <2> QED BY <2>1 DEF Init, WireTypes
  <1> QED BY <1>1, <1>2, <1>3, <1>4, LinkAssumption DEF Init, Types

----------------------------------------------------------------------------
\* The mutex given back, to be idle, to end or to wait again.
LEMMA UnlockTypes ==
    ASSUME MutexTypes, CallTypes, NEW a \in Actor, NEW label \in {"idle", "off", "lock"},
           a \in Thread => label = "idle",
           Unlock(a, label), UNCHANGED <<mutex, made>>, strayed' \in BOOLEAN
    PROVE  MutexTypes' /\ CallTypes'
  <1>1. MutexTypes'
    BY SomeMutex DEF MutexTypes, Unlock
  <1>2. /\ pc' = [pc EXCEPT ![a] = label] /\ conn' = [conn EXCEPT ![a] = NoConn]
        /\ op' = IF a \in Thread THEN [op EXCEPT ![a] = NoOp] ELSE op
    BY DEF Unlock, Goto
  <1>3. label \in Place /\ \A t \in Thread : t \in Actor
    BY DEF Place, Busy, Actor
  <1>4. /\ pc' \in [Actor -> Place] /\ conn' \in [Actor -> Conn \cup {NoConn}]
        /\ op' \in [Thread -> Call \cup {NoOp}]
    BY <1>2, <1>3 DEF CallTypes
  <1>5. ASSUME NEW t \in Thread, t # a
        PROVE  pc'[t] = pc[t] /\ op'[t] = op[t]
    BY <1>2, <1>3, <1>5 DEF CallTypes
  <1>6. a \in Thread => pc'[a] = "idle" /\ "idle" \notin Busy
    BY <1>2 DEF CallTypes, Busy
  <1>7. CallTypes'
    BY <1>4, <1>5, <1>6 DEF CallTypes
  <1> QED BY <1>1, <1>7

\* An actor that goes on with its exchange.
LEMMA GotoTypes ==
    ASSUME CallTypes, NEW a \in Actor, NEW label \in Place, Goto(a, label),
           UNCHANGED op, strayed' \in BOOLEAN, conn' \in [Actor -> Conn \cup {NoConn}],
           a \in Thread /\ label \in Busy => pc[a] \in Busy,
           a \in Thread /\ label = "data" => op[a].kind = "set"
    PROVE  CallTypes'
  <1>1. \A t \in Thread : t \in Actor /\ (t # a => pc'[t] = pc[t])
    BY DEF CallTypes, Goto, Actor
  <1>2. pc' \in [Actor -> Place] /\ pc'[a] = label
    BY DEF CallTypes, Goto
  <1> QED BY <1>1, <1>2 DEF CallTypes

\* A packet that leaves, or is lost.
LEMMA SendTypes ==
    ASSUME WireTypes, NEW s, NEW p \in Sent, Sends(s, p) \/ Loses(s), UNCHANGED <<acc, up, toFs>>
    PROVE  WireTypes'
  <1>1. CASE Sends(s, p)
    <2>1. s \in Conn /\ Append(toNode[s], p) \in Seq(Sent)
      BY <1>1, Queues DEF Sends, WireTypes
    <2> QED BY <1>1, <2>1 DEF Sends, WireTypes
  <1>2. CASE Loses(s)
    BY <1>2 DEF Loses, WireTypes
  <1> QED BY <1>1, <1>2

\* The exchanges of a thread.
LEMMA ExchangeTypes ==
    ASSUME Types, NEW t \in Thread,
           Exchange(t) \/ \E kind \in {"set", "get"}, b \in Block : Begin(t, kind, b)
    PROVE  Types'
  <1>0. /\ DictTypes /\ MutexTypes /\ CallTypes /\ WireTypes /\ NodeTypes
        /\ moves \in 0 .. MaxMoves /\ t \in Actor
    BY DEF Types, Actor
  <1> USE DEF dictVars, nodeVars, callVars, mutexVars, wireVars
  <1>1. ASSUME NEW kind \in {"set", "get"}, NEW b \in Block, Begin(t, kind, b) PROVE Types'
    <2>1. MutexTypes'
      BY <1>0, <1>1 DEF Begin, GetMutex, MutexTypes
    <2>2. CallTypes'
      <3>1. [kind |-> kind, block |-> b] \in Call
        BY DEF Call
      <3>2. \E label \in {"make", "lock"} : pc' = [pc EXCEPT ![t] = label]
        BY <1>1 DEF Begin, GetMutex, Goto
      <3> QED BY <1>0, <1>1, <3>1, <3>2 DEF Begin, CallTypes, Place, Busy
    <2> QED
      BY <1>0, <1>1, <2>1, <2>2 DEF Begin, Types, DictTypes, WireTypes, NodeTypes
  <1>2. CASE MakeMutex(t)
    <2>1. MutexTypes'
      BY <1>0, <1>2 DEF MakeMutex, MutexTypes
    <2>2. CallTypes'
      BY <1>0, <1>2, GotoTypes DEF MakeMutex, CallTypes, Place, Busy
    <2> QED
      BY <1>0, <1>2, <2>1, <2>2 DEF MakeMutex, Types, DictTypes, WireTypes, NodeTypes
  <1>3. CASE Look(t)
    <2>1. MutexTypes' /\ CallTypes'
      <3>1. CASE active = NoConn
        BY <1>0, <1>3, <3>1, UnlockTypes DEF Look, CallTypes
      <3>2. CASE active # NoConn
        <4>1. MutexTypes'
          BY <1>0, <1>3, <3>2 DEF Look, MutexTypes
        <4>2. CallTypes'
          BY <1>0, <1>3, <3>2, GotoTypes DEF Look, Takes, CallTypes, DictTypes, Place, Busy
        <4> QED BY <4>1, <4>2
      <3> QED BY <3>1, <3>2
    <2> QED
      BY <1>0, <1>3, <2>1 DEF Look, Types, DictTypes, WireTypes, NodeTypes
  <1>4. CASE SendCommand(t)
    <2>1. /\ pc[t] = "command" /\ op[t] \in Call /\ strayed' \in BOOLEAN /\ UNCHANGED <<op, conn>>
          /\ \E label \in {"await", "drop", IF op[t].kind = "set" THEN "data" ELSE "await"} :
                Goto(t, label)
      BY <1>0, <1>4 DEF SendCommand, CallTypes, Uses, Busy
    <2>2. CallTypes'
      BY <1>0, <2>1, GotoTypes DEF CallTypes, Place, Busy
    <2>3. WireTypes'
      <3>1. Command(t) \in Sent
        BY <2>1 DEF Call, Command, Sent
      <3> QED BY <1>0, <1>4, <3>1, SendTypes DEF SendCommand, Loses
    <2> QED
      BY <1>0, <1>4, <2>2, <2>3 DEF SendCommand, Types, DictTypes, MutexTypes, NodeTypes
  <1>5. CASE SendData(t)
    <2>1. pc[t] = "data" /\ op[t] \in Call /\ strayed' \in BOOLEAN
      BY <1>0, <1>5 DEF SendData, CallTypes, Uses, Busy
    <2>2. MutexTypes' /\ CallTypes'
      <3>1. CASE Unlock(t, "idle")
        BY <1>0, <1>5, <2>1, <3>1, UnlockTypes DEF SendData
      <3>2. CASE Goto(t, "drop") /\ UNCHANGED <<mine, owner, conn, op>>
        <4>1. MutexTypes'
          BY <1>0, <1>5, <3>2 DEF SendData, MutexTypes
        <4>2. CallTypes'
          BY <1>0, <2>1, <3>2, GotoTypes DEF CallTypes, Place, Busy
        <4> QED BY <4>1, <4>2
      <3> QED BY <1>5, <3>1, <3>2 DEF SendData
    <2>3. WireTypes'
      <3>1. Data(t) \in Sent
        BY <2>1 DEF Call, Data, Sent
      <3> QED BY <1>0, <1>5, <3>1, SendTypes DEF SendData, Loses
    <2> QED
      BY <1>0, <1>5, <2>2, <2>3 DEF SendData, Types, DictTypes, NodeTypes
  <1>6. CASE Await(t)
    <2>1. pc[t] = "await" /\ strayed' \in BOOLEAN
      BY <1>0, <1>6 DEF Await, CallTypes, Uses
    <2>2. MutexTypes' /\ CallTypes'
      <3>1. CASE Unlock(t, "idle")
        BY <1>0, <1>6, <2>1, <3>1, UnlockTypes DEF Await
      <3>2. CASE Goto(t, "drop") /\ UNCHANGED <<mine, owner, conn, op>>
        <4>1. MutexTypes'
          BY <1>0, <1>6, <3>2 DEF Await, MutexTypes
        <4>2. CallTypes'
          BY <1>0, <2>1, <3>2, GotoTypes DEF CallTypes, Place, Busy
        <4> QED BY <4>1, <4>2
      <3> QED BY <1>6, <3>1, <3>2 DEF Await
    <2>3. toFs' \in [Conn -> Seq(Block)]
      <3>1. CASE UNCHANGED toFs
        BY <1>0, <3>1 DEF WireTypes
      <3>2. ASSUME NEW s \in Conn, toFs[s] # <<>>, toFs' = [toFs EXCEPT ![s] = Tail(@)]
            PROVE  toFs' \in [Conn -> Seq(Block)]
        <4>1. Tail(toFs[s]) \in Seq(Block)
          BY <1>0, <3>2, Queues DEF WireTypes
        <4> QED BY <1>0, <3>2, <4>1 DEF WireTypes
      <3> QED BY <1>6, <3>1, <3>2 DEF Await
    <2> QED
      BY <1>0, <1>6, <2>2, <2>3 DEF Await, Types, DictTypes, WireTypes, NodeTypes
  <1>7. CASE Drop(t)
    <2>1. DictTypes'
      BY <1>0, <1>7 DEF Drop, removeActive, FreeConn, DictTypes
    <2>2. MutexTypes' /\ CallTypes'
      BY <1>0, <1>7, UnlockTypes DEF Drop, Gone, CallTypes
    <2> QED
      BY <1>0, <1>7, <2>1, <2>2 DEF Drop, Types, WireTypes, NodeTypes
  <1> QED
    BY <1>1, <1>2, <1>3, <1>4, <1>5, <1>6, <1>7 DEF Exchange

\* The checks of a connection, and the thread that accepts it.
LEMMA ConnTypes ==
    ASSUME Types, NEW c \in Conn, Check(c) \/ Accept(c) \/ Breaks(c)
    PROVE  Types'
  <1>0. /\ DictTypes /\ MutexTypes /\ CallTypes /\ WireTypes /\ NodeTypes
        /\ moves \in 0 .. MaxMoves /\ c \in Actor /\ c \notin Thread
    BY LinkAssumption DEF Types, Actor
  <1> USE DEF dictVars, nodeVars, callVars, mutexVars, wireVars
  <1>1. CASE MakeMutex(c)
    <2>1. MutexTypes'
      BY <1>0, <1>1 DEF MakeMutex, MutexTypes
    <2>2. CallTypes'
      BY <1>0, <1>1, GotoTypes DEF MakeMutex, CallTypes, Place, Busy
    <2> QED
      BY <1>0, <1>1, <2>1, <2>2 DEF MakeMutex, Types, DictTypes, WireTypes, NodeTypes
  <1>2. CASE LookActive(c)
    <2>1. MutexTypes'
      BY <1>0, <1>2 DEF LookActive, MutexTypes
    <2>2. CallTypes'
      BY <1>0, <1>2, GotoTypes DEF LookActive, CallTypes, DictTypes, Place
    <2> QED
      BY <1>0, <1>2, <2>1, <2>2 DEF LookActive, Types, DictTypes, WireTypes, NodeTypes
  <1>3. CASE LookStandby(c)
    <2>1. MutexTypes' /\ CallTypes'
      <3>1. CASE standby = NoConn
        BY <1>0, <1>3, <3>1, UnlockTypes DEF LookStandby, CallTypes
      <3>2. CASE standby # NoConn
        <4>1. MutexTypes'
          BY <1>0, <1>3, <3>2 DEF LookStandby, MutexTypes
        <4>2. CallTypes'
          BY <1>0, <1>3, <3>2, GotoTypes DEF LookStandby, CallTypes, DictTypes, Place
        <4> QED BY <4>1, <4>2
      <3> QED BY <3>1, <3>2
    <2> QED
      BY <1>0, <1>3, <2>1 DEF LookStandby, Types, DictTypes, WireTypes, NodeTypes
  <1>4. CASE Probe(c) \/ ProbeFails(c)
    <2>1. Probes(c) /\ strayed' \in BOOLEAN
      BY <1>0, <1>4 DEF Probe, ProbeFails, Probes, Uses, CallTypes
    <2>2. MutexTypes' /\ CallTypes'
      <3>1. CASE Unlock(c, "lock")
        BY <1>0, <2>1, <3>1, UnlockTypes DEF Probes
      <3>2. CASE Goto(c, "drop") /\ UNCHANGED <<mine, owner, conn, op>>
        <4>1. MutexTypes'
          BY <1>0, <2>1, <3>2 DEF Probes, MutexTypes
        <4>2. CallTypes'
          BY <1>0, <2>1, <3>2, GotoTypes DEF CallTypes, Place, Busy
        <4> QED BY <4>1, <4>2
      <3> QED BY <1>4, <3>1, <3>2 DEF Probe, ProbeFails
    <2>3. WireTypes'
      <3>1. Alive \in Sent
        BY DEF Sent
      <3> QED BY <1>0, <1>4, <2>1, <3>1, SendTypes DEF Probe, ProbeFails, Probes, Loses
    <2> QED
      BY <1>0, <2>1, <2>2, <2>3 DEF Probes, Types, DictTypes, NodeTypes
  <1>5. CASE Drop(c)
    <2>1. DictTypes'
      BY <1>0, <1>5 DEF Drop, removeActive, FreeConn, DictTypes
    <2>2. MutexTypes' /\ CallTypes'
      BY <1>0, <1>5, UnlockTypes DEF Drop, Gone, CallTypes
    <2> QED
      BY <1>0, <1>5, <2>1, <2>2 DEF Drop, Types, WireTypes, NodeTypes
  <1>6. CASE Accept(c)
    <2>1. Accepts /\ acc[c] # "no" /\ \E label \in {"put", "add", "done"} :
             acc' = [acc EXCEPT ![c] = label]
      BY <1>6 DEF Accept, RecvHello, HelloLost, PutAccepted, StartChecker
    <2>2. WireTypes' /\ NodeTypes' /\ moves' = moves
      BY <1>0, <2>1 DEF Accepts, WireTypes, NodeTypes
    <2>3. DictTypes'
      BY <1>0, <1>6, <2>1
      DEF Accept, RecvHello, HelloLost, PutAccepted, StartChecker, Accepts, removeActive,
          FreeConn, DictTypes
    <2>4. MutexTypes' /\ CallTypes'
      <3>1. CASE UNCHANGED <<pc, mine>>
        BY <1>0, <2>1, <3>1 DEF Accepts, MutexTypes, CallTypes
      <3>2. CASE GetMutex(c)
        <4>1. MutexTypes'
          BY <1>0, <2>1, <3>2 DEF Accepts, GetMutex, MutexTypes
        <4>2. CallTypes'
          BY <1>0, <2>1, <3>2, GotoTypes DEF Accepts, GetMutex, CallTypes, Place, Busy
        <4> QED BY <4>1, <4>2
      <3> QED BY <1>6, <3>1, <3>2 DEF Accept, RecvHello, HelloLost, PutAccepted, StartChecker
    <2> QED BY <1>0, <2>2, <2>3, <2>4 DEF Types
  <1>7. CASE Breaks(c)
    BY <1>0, <1>7
    DEF Breaks, Types, DictTypes, MutexTypes, CallTypes, WireTypes, NodeTypes
  <1> QED
    BY <1>1, <1>2, <1>3, <1>4, <1>5, <1>6, <1>7 DEF Check

\* The console's moves.
LEMMA MoveTypes == ASSUME Types, Move PROVE Types'
  <1>0. /\ DictTypes /\ MutexTypes /\ CallTypes /\ WireTypes /\ NodeTypes
        /\ moves \in 0 .. MaxMoves /\ "console" \in Actor
    BY LinkAssumption DEF Types, Actor
  <1>1. /\ UNCHANGED <<freed, mutex, made, owner, mine, conn, op, strayed, acc, up, toNode, toFs,
                       link, want, disk>>
        /\ \E label \in {"enable", "disable", "idle"} : Goto("console", label)
        /\ {active', standby', hand'} \subseteq {active, standby, hand, NoConn}
        /\ moves' = moves \/ (moves > 0 /\ moves' = moves - 1)
    BY DEF Move, Enable, activateNode, Disable, deactivateNode, Moves, dictVars, nodeVars,
           callVars, mutexVars, wireVars
  <1>2. CallTypes'
    BY <1>0, <1>1, GotoTypes DEF CallTypes, Place, Busy
  <1>3. DictTypes' /\ MutexTypes' /\ WireTypes' /\ NodeTypes'
    BY <1>0, <1>1 DEF DictTypes, MutexTypes, WireTypes, NodeTypes
  <1>4. moves' \in 0 .. MaxMoves
    BY <1>0, <1>1, LinkAssumption
  <1> QED BY <1>2, <1>3, <1>4 DEF Types

\* The node.
LEMMA NodeThreadTypes == ASSUME Types, NodeThread PROVE Types'
  <1>0. /\ DictTypes /\ MutexTypes /\ CallTypes /\ WireTypes /\ NodeTypes
        /\ moves \in 0 .. MaxMoves
    BY DEF Types
  <1>1. UNCHANGED <<active, standby, hand, freed, mutex, made, owner, mine, pc, conn, op, strayed,
                    moves>>
    BY DEF NodeThread, NodeConnects, NodeReads, NodeLoses, Node, dictVars, callVars, mutexVars
  <1>2. DictTypes' /\ MutexTypes' /\ CallTypes' /\ moves' \in 0 .. MaxMoves
    BY <1>0, <1>1 DEF DictTypes, MutexTypes, CallTypes
  <1>3. CASE NodeConnects
    <2>1. PICK c \in Conn : /\ link' = c /\ up' = up \cup {c}
                            /\ acc' = [acc EXCEPT ![c] = "hello"]
      <3>1. \E c \in Conn : c \notin Used
        BY <1>3 DEF NodeConnects, Used
      <3> QED BY <1>3, <3>1 DEF NodeConnects
    <2>2. WireTypes' /\ NodeTypes'
      BY <1>0, <1>3, <2>1 DEF NodeConnects, wireVars, WireTypes, NodeTypes
    <2> QED BY <1>2, <2>2 DEF Types
  <1>4. CASE NodeReads
    <2>1. /\ link \in Conn /\ Head(toNode[link]) \in Sent
          /\ toNode' \in [Conn -> Seq(Sent)] /\ UNCHANGED <<link, acc, up>>
      <3>1. link \in Conn /\ toNode[link] # <<>> /\ toNode[link] \in Seq(Sent)
        BY <1>0, <1>4 DEF NodeReads, NodeTypes, WireTypes
      <3>2. Head(toNode[link]) \in Sent /\ Tail(toNode[link]) \in Seq(Sent)
        BY <3>1, Queues
      <3> QED BY <1>0, <1>4, <3>1, <3>2 DEF NodeReads, WireTypes
    <2> DEFINE p == Head(toNode[link])
    <2> HIDE DEF p
    <2>2. p \in Sent
      BY <2>1 DEF p
    <2>3. /\ p.kind \in {"set", "get", "data"} => p.block \in Block
          /\ p.block \in Block \cup {NoBlock}
      BY <2>2 DEF Sent, Alive
    <2>4. CASE want = NoBlock /\ Obey(p)
      <3>1. want' \in Block \cup {NoBlock} /\ disk' = disk
        BY <2>3, <2>4 DEF Obey
      <3>2. toFs' \in [Conn -> Seq(Block)]
        <4>1. CASE p.kind = "get"
          <5>1. Append(toFs[link], p.block) \in Seq(Block)
            BY <1>0, <2>1, <2>3, <4>1, Queues DEF WireTypes
          <5> QED BY <1>0, <2>1, <2>4, <4>1, <5>1 DEF Obey, WireTypes
        <4>2. CASE p.kind # "get"
          BY <1>0, <2>4, <4>2 DEF Obey, WireTypes
        <4> QED BY <4>1, <4>2
      <3> QED BY <1>0, <1>2, <2>1, <3>1, <3>2 DEF Types, WireTypes, NodeTypes
    <2>5. CASE want # NoBlock /\ StoreNext(p)
      <3>1. want' = NoBlock /\ disk' \in [Block -> Content] /\ toFs' = toFs
        BY <1>0, <2>3, <2>5 DEF StoreNext, NodeTypes, Content
      <3> QED BY <1>0, <1>2, <2>1, <3>1 DEF Types, WireTypes, NodeTypes
    <2> QED BY <1>4, <2>4, <2>5 DEF NodeReads, p
  <1>5. CASE NodeLoses
    <2>1. toNode' \in [Conn -> Seq(Sent)]
      <3>1. <<>> \in Seq(Sent)
        OBVIOUS
      <3> QED BY <1>0, <1>5, <3>1 DEF NodeLoses, WireTypes
    <2>2. disk' \in [Block -> Content]
      BY <1>0, <1>5 DEF NodeLoses, NodeTypes, Content
    <2> QED
      BY <1>0, <1>2, <1>5, <2>1, <2>2 DEF NodeLoses, Types, WireTypes, NodeTypes
  <1> QED BY <1>3, <1>4, <1>5 DEF NodeThread

\* So the types are kept.
LEMMA StepTypes == Types /\ [Next]_vars => Types'
  <1> SUFFICES ASSUME Types, [Next]_vars PROVE Types'
    OBVIOUS
  <1>1. CASE UNCHANGED vars
    BY <1>1 DEF Types, DictTypes, MutexTypes, CallTypes, WireTypes, NodeTypes, vars, dictVars,
                nodeVars, callVars, mutexVars, wireVars
  <1> QED
    BY <1>1, ExchangeTypes, ConnTypes, MoveTypes, NodeThreadTypes DEF Next

\* Every variable has its type, in every behaviour.
THEOREM TypeCorrect == Spec => []TypeOK
  BY InitTypes, StepTypes, TypesImply, PTL DEF Spec

----------------------------------------------------------------------------
\* A connection that is not yet accepted is not in a dictionary, nor freed: it gets
\* there once.
NotYetFound ==
    \A c \in Conn : acc[c] \in {"no", "hello", "put"} => c \notin {active, standby, hand} \cup freed

Ownership == FreedAreForgotten /\ NotYetFound

\* Removing the active connection.
LEMMA RemoveKeeps ==
    ASSUME DictTypes, Ownership, removeActive, UNCHANGED <<standby, hand>>,
           \A c \in Conn : acc'[c] \in {"no", "hello", "put"} => acc[c] \in {"no", "hello", "put"}
    PROVE  Ownership'
  BY LinkAssumption
  DEF DictTypes, Ownership, FreedAreForgotten, NotYetFound, removeActive, FreeConn, Actor

\* A step that moves no connection.
LEMMA OwnershipStays ==
    ASSUME Ownership, UNCHANGED <<active, standby, hand, freed>>,
           \A c \in Conn : acc'[c] \in {"no", "hello", "put"} => acc[c] \in {"no", "hello", "put"}
    PROVE  Ownership'
  BY DEF Ownership, FreedAreForgotten, NotYetFound

LEMMA StepOwnership == Types /\ Ownership /\ [Next]_vars => Ownership'
  <1> SUFFICES ASSUME Types, Ownership, [Next]_vars PROVE Ownership'
    OBVIOUS
  <1>0. DictTypes /\ WireTypes
    BY DEF Types
  <1>1. CASE UNCHANGED vars
    BY <1>1, OwnershipStays DEF vars, dictVars
  <1>2. ASSUME NEW a \in Actor,
               MakeMutex(a) \/ Look(a) \/ SendCommand(a) \/ SendData(a) \/ Await(a)
               \/ LookActive(a) \/ LookStandby(a) \/ Probe(a) \/ ProbeFails(a) \/ Breaks(a)
        PROVE  Ownership'
    BY <1>2, OwnershipStays
    DEF MakeMutex, Look, SendCommand, SendData, Await, LookActive, LookStandby, Probe,
        ProbeFails, Probes, Breaks, dictVars
  <1>3. ASSUME NEW t \in Thread, NEW kind, NEW b, Begin(t, kind, b) PROVE Ownership'
    BY <1>3, OwnershipStays DEF Begin, dictVars
  <1>4. ASSUME NEW a \in Actor, Drop(a) PROVE Ownership'
    BY <1>0, <1>4, RemoveKeeps DEF Drop
  <1>5. ASSUME NEW c \in Conn, Accept(c) PROVE Ownership'
    <2>1. CASE RecvHello(c)
      BY <1>0, <2>1, RemoveKeeps DEF RecvHello, Accepts, WireTypes
    <2>2. CASE HelloLost(c) \/ StartChecker(c)
      BY <1>0, <2>2, OwnershipStays DEF HelloLost, StartChecker, Accepts, WireTypes
    <2>3. CASE PutAccepted(c)
      <3>1. c \notin {active, standby, hand} \cup freed
        BY <2>3 DEF PutAccepted, Ownership, NotYetFound
      <3>2. /\ standby' = c /\ UNCHANGED <<active, hand>>
            /\ freed' = freed \cup ({standby} \ {NoConn})
            /\ acc' = [acc EXCEPT ![c] = "add"]
        BY <2>3 DEF PutAccepted, Accepts, FreeConn
      <3>3. FreedAreForgotten'
        BY <1>0, <3>1, <3>2 DEF DictTypes, Ownership, FreedAreForgotten
      <3>4. NotYetFound'
        BY <1>0, <3>2 DEF WireTypes, Ownership, NotYetFound
      <3> QED BY <3>3, <3>4 DEF Ownership
    <2> QED BY <1>5, <2>1, <2>2, <2>3 DEF Accept
  <1>6. CASE Move
    <2>1. /\ UNCHANGED <<freed, acc>>
          /\ \/ hand' = standby /\ standby' = NoConn /\ active' = active
             \/ active' = hand /\ hand' = NoConn /\ standby' = standby
             \/ hand' = active /\ active' = NoConn /\ standby' = standby
             \/ standby' = hand /\ hand' = NoConn /\ active' = active
      BY <1>6 DEF Move, Enable, activateNode, Disable, deactivateNode, Moves
    <2> QED
      BY <1>0, <2>1, LinkAssumption
      DEF DictTypes, Ownership, FreedAreForgotten, NotYetFound, Actor
  <1>7. CASE NodeThread
    <2>1. UNCHANGED <<active, standby, hand, freed>>
      BY <1>7 DEF NodeThread, NodeConnects, NodeReads, NodeLoses, Node, dictVars
    <2>2. CASE NodeConnects
      <3>1. PICK c \in Conn : acc[c] = "no" /\ acc' = [acc EXCEPT ![c] = "hello"]
        <4>1. \E c \in Conn : c \notin Used
          BY <2>2 DEF NodeConnects, Used
        <4>2. (CHOOSE d \in Conn : d \notin Used) \in Conn \ Used
          BY <4>1
        <4> QED BY <2>2, <4>2 DEF NodeConnects, Used
      <3> QED BY <1>0, <2>1, <3>1, OwnershipStays DEF WireTypes
    <2>3. CASE NodeReads \/ NodeLoses
      BY <2>1, <2>3, OwnershipStays DEF NodeReads, NodeLoses
    <2> QED BY <1>7, <2>2, <2>3 DEF NodeThread
  <1> QED
    BY <1>1, <1>2, <1>3, <1>4, <1>5, <1>6, <1>7 DEF Next, Exchange, Check, Actor

\* In every behaviour, with two mutexes or after a use of what was freed too: a
\* connection that was freed is in neither dictionary nor in the console's hand, and
\* it is in one of them at most.
THEOREM Forgotten == Spec => []FreedAreForgotten
  <1>1. Init => Ownership
    BY LinkAssumption DEF Init, Ownership, FreedAreForgotten, NotYetFound, Actor
  <1>2. Ownership => FreedAreForgotten
    BY DEF Ownership
  <1> QED BY <1>1, <1>2, InitTypes, StepTypes, StepOwnership, PTL DEF Spec

----------------------------------------------------------------------------
(* The blocks keep their data.                                              *)

\* The holder of the mutex, while there is one.
Holding == {"look", "probe", "command", "data", "await", "drop"}
OneMutex ==
    /\ mutex = made /\ made \in {0, 1}
    /\ \A a \in Actor : pc[a] \in Holding => mine[a] = 1 /\ owner[1] = a
    /\ \A a \in Actor : pc[a] = "lock" => mine[a] = 1

Started == \A c \in Conn : acc[c] # "done" => pc[c] = "off"

\* The connections: the node's is the only one that may work, those that are used have
\* been made, and nothing is on its way on the others.
OneLink ==
    /\ up \subseteq {link} /\ (link = NoConn => want = NoBlock)
    /\ \A a \in Actor : conn[a] # NoConn => acc[conn[a]] # "no"
    /\ \A c \in Conn : acc[c] = "no" => toNode[c] = <<>>

\* The data of a block that was announced is to come: the thread that announced it is
\* about to send it, or the connection is broken.
Coming(b) == link \notin up \/ \E t \in Thread : pc[t] = "data" /\ conn[t] = link /\ op[t].block = b
DataOf(b) == [kind |-> "data", block |-> b]
SetOf(b)  == [kind |-> "set", block |-> b]

\* A set on its way is followed by its data, or its data is coming.
Paired ==
    link # NoConn =>
        LET q == toNode[link]
        IN  \A i \in 1 .. Len(q) : q[i].kind = "set" =>
               /\ i < Len(q) => q[i + 1] = DataOf(q[i].block)
               /\ i = Len(q) => Coming(q[i].block)

\* So is that of a set the node has read.
Wanted ==
    want # NoBlock =>
        /\ toNode[link] # <<>> => toNode[link][1] = DataOf(want)
        /\ toNode[link] = <<>> => Coming(want)

\* The thread about to send the data of a block sent its set last.
Halfway ==
    \A t \in Thread : pc[t] = "data" /\ conn[t] \in up =>
        LET q == toNode[link]
        IN  /\ q # <<>> => q[Len(q)] = SetOf(op[t].block)
            /\ q = <<>> => want = op[t].block

Whole == \A b \in Block : disk[b] \in {b, "old", "cut"}

Flow == OneLink /\ Paired /\ Wanted /\ Halfway /\ Whole

\* The packets of a queue after one is sent, and after one is read.
LEMMA AppendAt ==
    ASSUME NEW S, NEW q \in Seq(S), NEW e \in S
    PROVE  /\ Len(Append(q, e)) = Len(q) + 1 /\ Append(q, e) # <<>>
           /\ Append(q, e)[Len(q) + 1] = e
           /\ \A i \in 1 .. Len(q) : Append(q, e)[i] = q[i]
  BY SMT

LEMMA TailAt ==
    ASSUME NEW S, NEW q \in Seq(S), q # <<>>
    PROVE  /\ Len(q) \in Nat \ {0} /\ Len(Tail(q)) = Len(q) - 1 /\ Head(q) = q[1]
           /\ \A i \in 1 .. Len(q) - 1 : Tail(q)[i] = q[i + 1]
           /\ Tail(q) = <<>> <=> Len(q) = 1
  <1>1. \A r \in Seq(S) : r = <<>> <=> Len(r) = 0
    BY SMT
  <1>2. Tail(q) \in Seq(S) /\ Len(q) \in Nat \ {0} /\ Len(Tail(q)) = Len(q) - 1 /\ Head(q) = q[1]
    BY SMT
  <1>3. \A i \in 1 .. Len(q) - 1 : Tail(q)[i] = q[i + 1]
    BY SMT
  <1> QED BY <1>1, <1>2, <1>3

\* The mutex: given back, taken, made, or left alone.
LEMMA UnlockOne ==
    ASSUME MutexTypes, CallTypes, OneMutex, NEW a \in Actor, pc[a] \in Holding,
           NEW label \in {"idle", "off", "lock"}, Unlock(a, label), UNCHANGED <<mutex, made>>
    PROVE  OneMutex'
  <1>1. \A b \in Actor : pc[b] \in Holding => b = a
    BY DEF OneMutex
  <1>2. pc' = [pc EXCEPT ![a] = label] /\ pc'[a] = label /\ label \notin Holding
    BY DEF Unlock, Goto, CallTypes, Holding
  <1>3. /\ \A b \in Actor \ {a} : pc'[b] = pc[b] /\ mine'[b] = mine[b]
        /\ label = "lock" => mine'[a] = mine[a]
    BY <1>2 DEF Unlock, CallTypes, MutexTypes
  <1>4. mine[a] = 1
    BY DEF OneMutex
  <1> QED BY <1>1, <1>2, <1>3, <1>4 DEF OneMutex

LEMMA TakeOne ==
    ASSUME MutexTypes, CallTypes, OneMutex, NEW a \in Actor, Takes(a), NEW label \in Holding,
           Goto(a, label), owner' = [owner EXCEPT ![mine[a]] = a], UNCHANGED <<mutex, made, mine>>
    PROVE  OneMutex'
  <1>1. mine[a] = 1 /\ owner[1] = NoConn /\ owner'[1] = a
    BY SomeMutex DEF OneMutex, Takes, MutexTypes
  <1>2. \A b \in Actor : pc[b] \notin Holding
    BY <1>1, LinkAssumption DEF OneMutex
  <1>3. \A b \in Actor \ {a} : pc'[b] = pc[b]
    BY DEF Goto, CallTypes
  <1> QED BY <1>1, <1>2, <1>3 DEF OneMutex, Holding, Goto, CallTypes

LEMMA MoveOne ==
    ASSUME CallTypes, OneMutex, NEW a \in Actor, NEW label, Goto(a, label),
           label \in Holding => pc[a] \in Holding, label = "lock" => mine'[a] = 1,
           \A b \in Actor \ {a} : mine'[b] = mine[b], pc[a] \in Holding => mine'[a] = mine[a],
           UNCHANGED <<mutex, made, owner>>
    PROVE  OneMutex'
  <1>1. pc'[a] = label /\ \A b \in Actor \ {a} : pc'[b] = pc[b]
    BY DEF Goto, CallTypes
  <1> QED BY <1>1 DEF OneMutex, Holding

LEMMA MutexStays ==
    ASSUME OneMutex, UNCHANGED <<pc, mutex, made, owner, mine>>
    PROVE  OneMutex'
  BY DEF OneMutex

LEMMA MakeOne ==
    ASSUME MutexTypes, CallTypes, OneMutex, NEW a \in Actor, MakeMutex(a), ~TwoMutexes'
    PROVE  OneMutex'
  <1>1. made = 0 /\ made' = 1 /\ mutex' = 1
    BY DEF MakeMutex, TwoMutexes, OneMutex
  <1>2. /\ mine'[a] = 1 /\ pc'[a] = "lock"
        /\ \A b \in Actor \ {a} : pc'[b] = pc[b] /\ mine'[b] = mine[b]
    BY <1>1 DEF MakeMutex, Goto, CallTypes, MutexTypes
  <1> QED BY <1>1, <1>2 DEF MakeMutex, OneMutex, Holding

LEMMA GetOne ==
    ASSUME MutexTypes, CallTypes, OneMutex, NEW a \in Actor, pc[a] \notin Holding, GetMutex(a),
           UNCHANGED <<mutex, made, owner>>
    PROVE  OneMutex'
  <1>1. CASE mutex = 0
    BY <1>1, MoveOne DEF GetMutex, Holding
  <1>2. CASE mutex # 0
    <2>1. mutex = 1
      BY <1>2 DEF OneMutex
    <2> QED BY <1>2, <2>1, MoveOne DEF GetMutex, Holding, MutexTypes
  <1> QED BY <1>1, <1>2

\* A step of an actor that has started.
LEMMA StartedStays ==
    ASSUME Types, Started, NEW a \in Actor, a \in Conn => acc[a] = "done",
           UNCHANGED pc \/ \E label : Goto(a, label),
           \A c \in Conn : acc[c] = "done" => acc'[c] = "done"
    PROVE  Started'
  <1>1. \A c \in Conn : c # a => pc'[c] = pc[c]
    BY DEF Goto, Types, CallTypes, Actor
  <1> QED BY <1>1 DEF Started, Actor

\* The thread that checks a connection starts when the connection is accepted.
LEMMA StepStarted == Types /\ Started /\ [Next]_vars => Started'
  <1> SUFFICES ASSUME Types, Started, [Next]_vars PROVE Started'
    OBVIOUS
  <1>0. /\ CallTypes /\ WireTypes
        /\ \A t \in Thread : t \in Actor /\ t \notin Conn
        /\ \A c \in Conn : c \in Actor
        /\ "console" \in Actor /\ "console" \notin Conn
    BY LinkAssumption DEF Types, Actor
  <1>1. CASE UNCHANGED vars
    BY <1>1 DEF vars, Started
  <1>2. ASSUME NEW t \in Thread,
               Exchange(t) \/ \E kind \in {"set", "get"}, b \in Block : Begin(t, kind, b)
        PROVE  Started'
    <2>1. UNCHANGED acc /\ \E label : Goto(t, label)
      BY <1>2 DEF Exchange, Begin, GetMutex, MakeMutex, Look, SendCommand, SendData, Await, Drop,
                  Unlock
    <2> QED BY <1>0, <2>1, StartedStays
  <1>3. ASSUME NEW c \in Conn, Check(c) PROVE Started'
    <2>1. UNCHANGED acc /\ pc[c] # "off" /\ \E label : Goto(c, label)
      BY <1>3 DEF Check, MakeMutex, LookActive, Takes, LookStandby, Probe, ProbeFails, Probes,
                  Drop, Unlock
    <2>2. acc[c] = "done"
      BY <2>1 DEF Started
    <2> QED BY <1>0, <2>1, <2>2, StartedStays
  <1>4. ASSUME NEW c \in Conn, Accept(c) PROVE Started'
    <2>1. CASE StartChecker(c)
      <3>1. acc' = [acc EXCEPT ![c] = "done"] /\ \E label : pc' = [pc EXCEPT ![c] = label]
        BY <2>1 DEF StartChecker, GetMutex, Goto
      <3> QED BY <1>0, <3>1 DEF CallTypes, WireTypes, Started
    <2>2. CASE ~StartChecker(c)
      BY <1>0, <1>4, <2>2 DEF Accept, RecvHello, HelloLost, PutAccepted, WireTypes, Started
    <2> QED BY <2>1, <2>2
  <1>5. CASE Move
    <2>1. UNCHANGED acc /\ \E label : Goto("console", label)
      BY <1>5 DEF Move, Enable, activateNode, Disable, deactivateNode, Moves
    <2> QED BY <1>0, <2>1, StartedStays
  <1>6. CASE NodeThread
    <2>1. UNCHANGED pc /\ \A c \in Conn : acc'[c] # "done" => acc[c] # "done"
      BY <1>0, <1>6
      DEF NodeThread, NodeConnects, NodeReads, NodeLoses, Node, Used, WireTypes
    <2> QED BY <2>1 DEF Started
  <1>7. ASSUME NEW c \in Conn, Breaks(c) PROVE Started'
    BY <1>7 DEF Breaks, Started
  <1> QED BY <1>1, <1>2, <1>3, <1>4, <1>5, <1>6, <1>7 DEF Next

\* The mutex is one thread's at a time, as long as it is one.
LEMMA StepOneMutex ==
    Types /\ Started /\ OneMutex /\ [Next]_vars /\ ~TwoMutexes' => OneMutex'
  <1> SUFFICES ASSUME Types, Started, OneMutex, [Next]_vars, ~TwoMutexes' PROVE OneMutex'
    OBVIOUS
  <1>0. /\ MutexTypes /\ CallTypes
        /\ \A t \in Thread : t \in Actor
        /\ \A c \in Conn : c \in Actor /\ c \notin Thread
        /\ "console" \in Actor
    BY LinkAssumption DEF Types, Actor
  <1> USE DEF mutexVars
  <1>1. CASE UNCHANGED vars
    BY <1>1, MutexStays DEF vars
  <1>2. ASSUME NEW a \in Actor, MakeMutex(a) PROVE OneMutex'
    BY <1>0, <1>2, MakeOne
  <1>3. ASSUME NEW a \in Actor, Drop(a) PROVE OneMutex'
    BY <1>0, <1>3, UnlockOne DEF Drop, Gone, Holding
  <1>4. ASSUME NEW t \in Thread, NEW kind, NEW b, Begin(t, kind, b) PROVE OneMutex'
    BY <1>0, <1>4, GetOne DEF Begin, Holding
  <1>5. ASSUME NEW t \in Thread, Look(t) PROVE OneMutex'
    <2>1. CASE active = NoConn
      \* Nobody had it, and nobody has it.
      <3>1. /\ mine[t] = 1 /\ owner[1] = NoConn /\ Unlock(t, "idle") /\ UNCHANGED <<mutex, made>>
        BY <1>0, <1>5, <2>1 DEF Look, Takes, OneMutex
      <3>2. \A a \in Actor : pc[a] \notin Holding
        BY <3>1, LinkAssumption DEF OneMutex
      <3>3. pc' = [pc EXCEPT ![t] = "idle"] /\ \A a \in Actor \ {t} : mine'[a] = mine[a]
        BY <1>0, <3>1 DEF Unlock, Goto, MutexTypes
      <3>4. \A a \in Actor : /\ pc'[a] \notin Holding
                             /\ pc'[a] = "lock" => pc[a] = "lock" /\ a # t
        BY <1>0, <3>2, <3>3 DEF CallTypes, Holding
      <3> QED BY <3>1, <3>3, <3>4 DEF OneMutex
    <2>2. CASE active # NoConn
      BY <1>0, <1>5, <2>2, TakeOne DEF Look, Holding
    <2> QED BY <2>1, <2>2
  <1>6. ASSUME NEW t \in Thread, SendCommand(t) \/ SendData(t) \/ Await(t) PROVE OneMutex'
    <2>1. pc[t] \in Holding /\ UNCHANGED <<mutex, made>>
      BY <1>6 DEF SendCommand, SendData, Await, Holding
    <2>2. \/ Unlock(t, "idle")
          \/ /\ UNCHANGED <<mine, owner>>
             /\ \E label \in {"data", "await", "drop"} : Goto(t, label)
      BY <1>6 DEF SendCommand, SendData, Await
    <2> QED BY <1>0, <2>1, <2>2, UnlockOne, MoveOne DEF Holding
  <1>7. ASSUME NEW c \in Conn, LookActive(c) PROVE OneMutex'
    BY <1>0, <1>7, TakeOne DEF LookActive, Holding
  <1>8. ASSUME NEW c \in Conn, LookStandby(c) \/ Probe(c) \/ ProbeFails(c) PROVE OneMutex'
    <2>1. pc[c] \in Holding /\ UNCHANGED <<mutex, made>>
      BY <1>8 DEF LookStandby, Probe, ProbeFails, Probes, Holding
    <2>2. \/ \E label \in {"off", "lock"} : Unlock(c, label)
          \/ /\ UNCHANGED <<mine, owner>>
             /\ \E label \in {"probe", "drop"} : Goto(c, label)
      BY <1>8 DEF LookStandby, Probe, ProbeFails
    <2> QED BY <1>0, <2>1, <2>2, UnlockOne, MoveOne DEF Holding
  <1>9. ASSUME NEW c \in Conn, Accept(c) PROVE OneMutex'
    <2>1. CASE StartChecker(c)
      <3>1. CASE pc[c] \notin Holding
        BY <1>0, <2>1, <3>1, GetOne DEF StartChecker, Accepts
      <3>2. CASE pc[c] \in Holding
        \* Never: the checker starts once.
        BY <2>1, <3>2 DEF StartChecker, Started, Holding
      <3> QED BY <3>1, <3>2
    <2>2. CASE ~StartChecker(c)
      BY <1>9, <2>2, MutexStays DEF Accept, RecvHello, HelloLost, PutAccepted, Accepts
    <2> QED BY <2>1, <2>2
  <1>10. CASE Move
    <2>1. /\ UNCHANGED <<mutex, made, owner, mine>> /\ pc["console"] \notin Holding
          /\ \E label \in {"enable", "disable", "idle"} : Goto("console", label)
      BY <1>10 DEF Move, Enable, activateNode, Disable, deactivateNode, Moves, Holding
    <2> QED BY <1>0, <2>1, MoveOne DEF Holding
  <1>11. CASE NodeThread
    BY <1>11, MutexStays DEF NodeThread, NodeConnects, NodeReads, NodeLoses, Node
  <1>12. ASSUME NEW c \in Conn, Breaks(c) PROVE OneMutex'
    BY <1>12, MutexStays DEF Breaks
  <1> QED
    BY <1>0, <1>1, <1>2, <1>3, <1>4, <1>5, <1>6, <1>7, <1>8, <1>9, <1>10, <1>11, <1>12
    DEF Next, Exchange, Check

\* A step of an actor that neither was nor will be about to send data, and that leaves
\* the packets and the node alone.
LEMMA FlowStays ==
    ASSUME Types, Flow, NEW a \in Actor,
           UNCHANGED <<up, toNode, link, want, disk>>,
           \A c \in Conn : acc'[c] = "no" <=> acc[c] = "no",
           pc[a] # "data", pc'[a] # "data",
           \A b \in Actor \ {a} : pc'[b] = pc[b] /\ conn'[b] = conn[b],
           \A t \in Thread \ {a} : op'[t] = op[t],
           conn'[a] # NoConn => conn'[a] \in Conn /\ acc[conn'[a]] # "no"
    PROVE  Flow'
  <1>0. \A t \in Thread : t \in Actor
    BY DEF Actor
  <1>1. \A t \in Thread : /\ pc'[t] = "data" <=> pc[t] = "data"
                          /\ pc[t] = "data" => conn'[t] = conn[t] /\ op'[t] = op[t]
    BY <1>0
  <1>2. \A b : Coming(b) => link' \notin up' \/ \E t \in Thread : pc'[t] = "data" /\ conn'[t] = link' /\ op'[t].block = b
    BY <1>1 DEF Coming
  <1>3. OneLink'
    BY DEF Flow, OneLink, Types, CallTypes
  <1>4. Paired'
    <2> SUFFICES ASSUME link # NoConn, NEW i \in 1 .. Len(toNode[link]),
                        toNode[link][i].kind = "set"
                 PROVE  /\ i < Len(toNode[link]) =>
                             toNode[link][i + 1] = DataOf(toNode[link][i].block)
                        /\ i = Len(toNode[link]) => \A b : b = toNode[link][i].block => Coming(b)'
      BY DEF Paired, DataOf, Coming
    <2>1. /\ i < Len(toNode[link]) => toNode[link][i + 1] = DataOf(toNode[link][i].block)
          /\ i = Len(toNode[link]) => Coming(toNode[link][i].block)
      BY DEF Flow, Paired
    <2> QED BY <1>2, <2>1 DEF Coming
  <1>5. Wanted'
    BY <1>2 DEF Flow, Wanted, Coming, DataOf
  <1>6. Halfway'
    BY <1>1 DEF Flow, Halfway, SetOf
  <1>7. Whole'
    BY DEF Flow, Whole
  <1> QED BY <1>3, <1>4, <1>5, <1>6, <1>7 DEF Flow

\* The connections that are looked up have been made.
LEMMA LookedUp ==
    ASSUME Ownership
    PROVE  /\ active \in Conn => acc[active] # "no"
           /\ standby \in Conn => acc[standby] # "no"
  BY DEF Ownership, NotYetFound

\* A packet sent while no thread is between a set and its data.
LEMMA SendPlain ==
    ASSUME Types, Flow, \A t \in Thread : pc[t] # "data",
           NEW s, NEW p \in Sent, Sends(s, p), UNCHANGED <<acc, up, link, want, disk>>,
           p.kind = "set" => \E t \in Thread : pc'[t] = "data" /\ conn'[t] = s /\ op'[t].block = p.block
    PROVE  /\ Paired' /\ Wanted' /\ Whole' /\ s = link /\ toNode'[link] # <<>>
           /\ toNode'[link][Len(toNode'[link])] = p
           /\ \A c \in Conn : acc'[c] = "no" => toNode'[c] = <<>>
  <1> DEFINE q == toNode[link]
  <1>1. s = link /\ link \in Conn /\ link \in up /\ toNode' = [toNode EXCEPT ![link] = Append(q, p)]
        /\ acc[link] # "no"
    BY DEF Sends, Flow, OneLink, Types, WireTypes
  <1>2. q \in Seq(Sent) /\ toNode'[link] = Append(q, p)
    BY <1>1 DEF Types, WireTypes
  <1> HIDE DEF q
  <1>3. \A b : ~Coming(b)
    BY <1>1 DEF Coming
  <1>4. /\ Len(Append(q, p)) = Len(q) + 1 /\ Append(q, p) # <<>> /\ Append(q, p)[Len(q) + 1] = p
        /\ \A i \in 1 .. Len(q) : Append(q, p)[i] = q[i]
    BY <1>2, AppendAt
  <1>5. Len(q) \in Nat /\ (q # <<>> => 1 \in 1 .. Len(q))
    BY <1>2
  <1>6. \A i \in 1 .. Len(q) : q[i].kind = "set" => i < Len(q) /\ q[i + 1] = DataOf(q[i].block)
    BY <1>1, <1>3, <1>5, LinkAssumption DEF Flow, Paired, q, Actor
  <1>7. Paired'
    <2>1. ASSUME NEW i \in 1 .. Len(q) + 1, Append(q, p)[i].kind = "set"
          PROVE  /\ i < Len(q) + 1 => Append(q, p)[i + 1] = DataOf(Append(q, p)[i].block)
                 /\ i = Len(q) + 1 => \A b : b = Append(q, p)[i].block => Coming(b)'
      <3>1. CASE i \in 1 .. Len(q)
        <4>1. i < Len(q) /\ q[i + 1] = DataOf(q[i].block) /\ Append(q, p)[i] = q[i]
          BY <1>4, <1>6, <2>1, <3>1
        <4>2. i + 1 \in 1 .. Len(q) /\ i # Len(q) + 1
          BY <1>5, <3>1, <4>1
        <4> QED BY <1>4, <4>1, <4>2
      <3>2. CASE i = Len(q) + 1
        BY <1>1, <1>4, <1>5, <2>1, <3>2 DEF Coming
      <3> QED BY <1>5, <3>1, <3>2
    <2> QED BY <1>1, <1>2, <1>4, <2>1 DEF Paired, DataOf, Coming
  <1>8. Wanted'
    <2>1. want # NoBlock => q # <<>> /\ q[1] = DataOf(want)
      BY <1>3 DEF Flow, Wanted, q
    <2> QED BY <1>2, <1>4, <1>5, <2>1 DEF Wanted, DataOf
  <1>9. \A c \in Conn : acc'[c] = "no" => toNode'[c] = <<>>
    BY <1>1 DEF Flow, OneLink, Types, WireTypes
  <1> QED BY <1>1, <1>2, <1>4, <1>8, <1>7, <1>9 DEF Flow, Whole

\* A packet that is lost: what is to come is lost with its connection.
LEMMA SendLost ==
    ASSUME Types, Flow, NEW t \in Thread, \A u \in Thread : pc[u] = "data" => u = t,
           Loses(conn[t]), UNCHANGED <<acc, up, link, want, disk>>,
           \A u \in Thread \ {t} : pc'[u] = pc[u],
           pc'[t] = "data" => conn'[t] = conn[t],
           \A u \in Thread : conn'[u] = NoConn \/ conn'[u] = conn[u],
           \A c \in Conn \ Thread : conn'[c] = conn[c]
    PROVE  Flow'
  <1>1. conn[t] \notin up /\ toNode' = toNode
    BY DEF Loses
  <1>2. ASSUME NEW b, Coming(b) PROVE link \notin up
    BY <1>1, <1>2 DEF Coming
  <1>3. OneLink'
    BY <1>1 DEF Flow, OneLink, Actor
  <1>4. Paired'
    BY <1>1, <1>2 DEF Flow, Paired, Coming, DataOf
  <1>5. Wanted'
    BY <1>1, <1>2 DEF Flow, Wanted, Coming, DataOf
  <1>6. Halfway'
    BY <1>1 DEF Halfway
  <1> QED BY <1>3, <1>4, <1>5, <1>6 DEF Flow, Whole

\* The command of a thread that holds the mutex: no other is between set and data.
LEMMA SendCommandFlow ==
    ASSUME Types, OneMutex, Flow, NEW t \in Thread, SendCommand(t), ~strayed'
    PROVE  Flow'
  <1>0. /\ t \in Actor /\ \A u \in Thread : u \in Actor
        /\ WireTypes /\ CallTypes
    BY DEF Types, Actor
  <1>1. pc[t] = "command" /\ op[t] \in Call /\ Socket(t) = {conn[t]}
    BY <1>0 DEF SendCommand, CallTypes, Uses, Socket, Busy
  <1>2. \A u \in Thread : pc[u] # "data"
    BY <1>0, <1>1, LinkAssumption DEF OneMutex, Holding
  <1>3. /\ UNCHANGED <<acc, up, link, want, disk, conn, op>>
        /\ \A u \in Thread \ {t} : pc'[u] = pc[u]
    BY <1>0, <1>1 DEF SendCommand, Goto, nodeVars, CallTypes
  <1>4. CASE Loses(conn[t])
    BY <1>2, <1>3, <1>4, SendLost
  <1>5. CASE ~Loses(conn[t])
    <2>1. Sends(conn[t], Command(t)) /\ pc'[t] = IF op[t].kind = "set" THEN "data" ELSE "await"
      BY <1>0, <1>1, <1>5 DEF SendCommand, Goto, CallTypes
    <2>2. /\ Command(t) \in Sent /\ Command(t).kind = op[t].kind /\ Command(t).block = op[t].block
          /\ op[t].kind = "set" => Command(t) = SetOf(op[t].block)
      BY <1>1 DEF Call, Command, Sent, SetOf
    <2>3. /\ Paired' /\ Wanted' /\ Whole' /\ conn[t] = link /\ toNode'[link] # <<>>
          /\ toNode'[link][Len(toNode'[link])] = Command(t)
          /\ \A c \in Conn : acc'[c] = "no" => toNode'[c] = <<>>
      BY <1>2, <1>3, <2>1, <2>2, SendPlain
    <2>4. Halfway'
      <3>1. \A u \in Thread : pc'[u] = "data" => u = t /\ op[t].kind = "set"
        BY <1>2, <1>3, <2>1
      <3> QED BY <1>3, <2>2, <2>3, <3>1 DEF Halfway, SetOf
    <2>5. OneLink'
      BY <1>3, <2>3 DEF Flow, OneLink
    <2> QED BY <2>3, <2>4, <2>5 DEF Flow
  <1> QED BY <1>4, <1>5

\* A probe of its connection.
LEMMA ProbeFlow ==
    ASSUME Types, OneMutex, Flow, NEW k \in Conn, Probe(k), ~strayed'
    PROVE  Flow'
  <1>0. /\ k \in Actor /\ \A u \in Thread : u \in Actor /\ u # k
        /\ WireTypes /\ CallTypes /\ k \notin Thread
    BY LinkAssumption DEF Types, Actor
  <1>1. pc[k] = "probe" /\ Socket(k) = {conn[k]}
    BY <1>0 DEF Probe, Probes, CallTypes, Uses, Socket
  <1>2. \A u \in Thread : pc[u] # "data"
    BY <1>0, <1>1 DEF OneMutex, Holding
  <1>3. /\ UNCHANGED <<acc, up, link, want, disk, op>> /\ conn' = [conn EXCEPT ![k] = NoConn]
        /\ pc' = [pc EXCEPT ![k] = "lock"]
    BY <1>0, <1>1 DEF Probe, Probes, Unlock, Goto, nodeVars
  <1>4. CASE Loses(conn[k])
    <2>1. \A b \in Actor \ {k} : pc'[b] = pc[b] /\ conn'[b] = conn[b]
      BY <1>0, <1>3 DEF CallTypes
    <2>2. pc'[k] = "lock" /\ conn'[k] = NoConn
      BY <1>0, <1>3 DEF CallTypes
    <2> QED BY <1>0, <1>1, <1>3, <1>4, <2>1, <2>2, FlowStays DEF Loses
  <1>5. CASE ~Loses(conn[k])
    <2>1. Sends(conn[k], Alive) /\ Alive \in Sent /\ Alive.kind # "set"
      BY <1>1, <1>5 DEF Probe, Sent, Alive
    <2>2. /\ Paired' /\ Wanted' /\ Whole'
          /\ \A c \in Conn : acc'[c] = "no" => toNode'[c] = <<>>
      BY <1>2, <1>3, <2>1, SendPlain
    <2>3. Halfway'
      BY <1>0, <1>2, <1>3 DEF Halfway, CallTypes
    <2>4. OneLink'
      BY <1>0, <1>3, <2>2 DEF Flow, OneLink, CallTypes
    <2> QED BY <2>2, <2>3, <2>4 DEF Flow
  <1> QED BY <1>4, <1>5

\* The data, after its set.
LEMMA SendDataFlow ==
    ASSUME Types, OneMutex, Flow, NEW t \in Thread, SendData(t), ~strayed'
    PROVE  Flow'
  <1>0. /\ t \in Actor /\ \A u \in Thread : u \in Actor
        /\ WireTypes /\ CallTypes
    BY DEF Types, Actor
  <1>1. pc[t] = "data" /\ op[t] \in Call /\ Socket(t) = {conn[t]}
    BY <1>0 DEF SendData, CallTypes, Uses, Socket, Busy
  <1>2. \A u \in Thread : pc[u] = "data" => u = t
    BY <1>0, <1>1 DEF OneMutex, Holding
  <1>3. /\ UNCHANGED <<acc, up, link, want, disk>>
        /\ \E label \in {"idle", "drop"} : pc' = [pc EXCEPT ![t] = label]
        /\ conn' = conn \/ conn' = [conn EXCEPT ![t] = NoConn]
    BY <1>0, <1>1 DEF SendData, Goto, Unlock, nodeVars
  <1>4. /\ \A u \in Thread : pc'[u] # "data" /\ (conn'[u] = NoConn \/ conn'[u] = conn[u])
        /\ \A u \in Thread \ {t} : pc'[u] = pc[u]
        /\ \A a \in Actor \ {t} : conn'[a] = conn[a]
    BY <1>0, <1>2, <1>3 DEF CallTypes
  <1>5. CASE Loses(conn[t])
    <2>1. \A c \in Conn \ Thread : conn'[c] = conn[c]
      BY <1>4, LinkAssumption DEF Actor
    <2> QED BY <1>2, <1>3, <1>4, <1>5, <2>1, SendLost
  <1>6. CASE ~Loses(conn[t])
    <2> DEFINE b == op[t].block
               q == toNode[link]
               d == DataOf(b)
    <2>1. /\ conn[t] = link /\ link \in up /\ link \in Conn /\ acc[link] # "no"
          /\ toNode' = [toNode EXCEPT ![link] = Append(q, d)]
      BY <1>1, <1>6 DEF SendData, Sends, Data, DataOf, Flow, OneLink, Types, WireTypes
    <2>2. q \in Seq(Sent) /\ toNode'[link] = Append(q, d) /\ d \in Sent /\ b \in Block
          /\ d.kind = "data"
      BY <1>0, <1>1, <2>1 DEF WireTypes, DataOf, Sent, Call
    <2>3. /\ q # <<>> => q[Len(q)] = SetOf(b)
          /\ q = <<>> => want = b
      BY <1>1, <2>1 DEF Flow, Halfway
    <2>4. \A i \in 1 .. Len(q) : q[i].kind = "set" /\ i < Len(q) => q[i + 1] = DataOf(q[i].block)
      BY <2>1, LinkAssumption DEF Flow, Paired, Actor
    <2>5. want # NoBlock /\ q # <<>> => q[1] = DataOf(want)
      BY DEF Flow, Wanted
    <2> HIDE DEF q, d
    <2>6. /\ Len(Append(q, d)) = Len(q) + 1 /\ Append(q, d) # <<>> /\ Append(q, d)[Len(q) + 1] = d
          /\ \A i \in 1 .. Len(q) : Append(q, d)[i] = q[i]
      BY <2>2, AppendAt
    <2>7. Len(q) \in Nat /\ (q # <<>> => 1 \in 1 .. Len(q)) /\ (q = <<>> => Len(q) = 0)
      BY <2>2
    <2>8. Paired'
      <3>1. ASSUME NEW i \in 1 .. Len(q) + 1, Append(q, d)[i].kind = "set"
            PROVE  /\ i < Len(q) + 1 => Append(q, d)[i + 1] = DataOf(Append(q, d)[i].block)
                   /\ i # Len(q) + 1
        <4>1. i \in 1 .. Len(q) /\ Append(q, d)[i] = q[i]
          BY <2>2, <2>6, <2>7, <3>1
        <4>2. CASE i < Len(q)
          <5>1. i + 1 \in 1 .. Len(q) /\ q[i + 1] = DataOf(q[i].block)
            BY <2>4, <2>7, <3>1, <4>1, <4>2
          <5> QED BY <2>6, <2>7, <4>1, <5>1
        <4>3. CASE i = Len(q)
          <5>1. q[i] = SetOf(b) /\ SetOf(b).block = b
            BY <2>3, <2>7, <4>1, <4>3 DEF SetOf
          <5> QED BY <2>6, <2>7, <4>1, <4>3, <5>1 DEF d
        <4> QED BY <2>7, <4>1, <4>2, <4>3
      <3> QED BY <1>3, <2>2, <2>6, <3>1 DEF Paired, DataOf
    <2>9. Wanted'
      <3>1. want # NoBlock => Append(q, d)[1] = DataOf(want)
        BY <2>3, <2>5, <2>6, <2>7 DEF d
      <3> QED BY <1>3, <2>2, <2>6, <3>1 DEF Wanted, DataOf
    <2>10. Halfway'
      BY <1>4 DEF Halfway
    <2>11. OneLink'
      <3>1. \A a \in Actor : conn'[a] # NoConn => conn'[a] = conn[a]
        BY <1>0, <1>3 DEF CallTypes
      <3>2. \A c \in Conn : acc[c] = "no" => toNode'[c] = <<>>
        BY <1>0, <2>1 DEF Flow, OneLink, WireTypes
      <3> QED BY <1>3, <3>1, <3>2 DEF Flow, OneLink
    <2> QED BY <1>3, <2>8, <2>9, <2>10, <2>11 DEF Flow, Whole
  <1> QED BY <1>5, <1>6

\* The node: what it reads is the data of the set it has read.
LEMMA NodeFlow ==
    ASSUME Types, Flow, NodeThread
    PROVE  Flow'
  <1>0. /\ WireTypes /\ CallTypes /\ NodeTypes /\ NoConn \notin Conn
    BY LinkAssumption DEF Types, Actor
  <1>1. UNCHANGED <<pc, conn, op>>
    BY DEF NodeThread, NodeConnects, NodeReads, NodeLoses, Node, callVars
  <1>2. CASE NodeConnects
    <2>1. PICK c \in Conn : /\ acc[c] = "no" /\ acc' = [acc EXCEPT ![c] = "hello"]
                            /\ link' = c /\ up' = up \cup {c}
      <3>1. \E c \in Conn : c \notin Used
        BY <1>2 DEF NodeConnects, Used
      <3>2. (CHOOSE d \in Conn : d \notin Used) \in Conn \ Used
        BY <3>1
      <3> QED BY <1>2, <3>2 DEF NodeConnects, Used
    <2>2. /\ link = NoConn /\ want = NoBlock /\ up = {} /\ toNode[c] = <<>>
          /\ UNCHANGED <<toNode, want, disk>>
      BY <1>0, <1>2, <2>1 DEF NodeConnects, wireVars, WireTypes, Flow, OneLink
    <2>3. \A a \in Actor : conn[a] # NoConn => acc'[conn[a]] # "no" /\ conn[a] # c
      BY <1>0, <2>1 DEF WireTypes, Flow, OneLink, CallTypes
    <2>4. OneLink'
      BY <1>0, <1>1, <2>1, <2>2, <2>3 DEF WireTypes, Flow, OneLink
    <2>5. Paired' /\ Wanted'
      BY <1>0, <2>1, <2>2 DEF Paired, Wanted
    <2>6. Halfway'
      BY <1>0, <1>1, <2>1, <2>2, <2>3 DEF Halfway, Actor
    <2> QED BY <2>2, <2>4, <2>5, <2>6 DEF Flow, Whole
  <1>3. CASE NodeReads
    <2> DEFINE q == toNode[link]
    <2>1. /\ link \in Conn /\ q # <<>> /\ q \in Seq(Sent)
          /\ toNode' = [toNode EXCEPT ![link] = Tail(q)] /\ UNCHANGED <<link, acc, up>>
          /\ IF want = NoBlock THEN Obey(Head(q)) ELSE StoreNext(Head(q))
      BY <1>0, <1>3 DEF NodeReads, NodeTypes, WireTypes
    <2>2. toNode'[link] = Tail(q)
      BY <1>0, <2>1 DEF WireTypes
    <2>3. \A i \in 1 .. Len(q) : q[i].kind = "set" =>
             /\ i < Len(q) => q[i + 1] = DataOf(q[i].block)
             /\ i = Len(q) => Coming(q[i].block)
      BY <1>0, <2>1 DEF Flow, Paired
    <2>4. want # NoBlock => q[1] = DataOf(want)
      BY <2>1 DEF Flow, Wanted
    <2>5. \A t \in Thread : pc[t] = "data" /\ conn[t] \in up => q[Len(q)] = SetOf(op[t].block)
      BY <2>1 DEF Flow, Halfway
    <2> HIDE DEF q
    <2>6. /\ Len(q) \in Nat \ {0} /\ Len(Tail(q)) = Len(q) - 1 /\ Head(q) = q[1]
          /\ \A i \in 1 .. Len(q) - 1 : Tail(q)[i] = q[i + 1]
          /\ Tail(q) = <<>> <=> Len(q) = 1
      BY <2>1, TailAt
    <2>7. q[1] \in Sent /\ 1 \in 1 .. Len(q)
      BY <2>1, <2>6
    <2>9. Paired'
      <3>1. ASSUME NEW i \in 1 .. Len(q) - 1, Tail(q)[i].kind = "set"
            PROVE  /\ i < Len(q) - 1 => Tail(q)[i + 1] = DataOf(Tail(q)[i].block)
                   /\ i = Len(q) - 1 => \A b : b = Tail(q)[i].block => Coming(b)
        <4> DEFINE k == i + 1
        <4>1. k \in 1 .. Len(q) /\ Tail(q)[i] = q[k]
          BY <2>6
        <4>2. /\ k < Len(q) => q[k + 1] = DataOf(q[k].block)
              /\ k = Len(q) => Coming(q[k].block)
          <5> HIDE DEF k
          <5> QED BY <2>3, <3>1, <4>1
        <4>3. i < Len(q) - 1 => Tail(q)[i + 1] = q[k + 1] /\ k < Len(q)
          BY <2>6
        <4>4. i = Len(q) - 1 => k = Len(q)
          BY <2>6
        <4> HIDE DEF k
        <4> QED BY <4>1, <4>2, <4>3, <4>4
      <3>2. ASSUME NEW i \in 1 .. Len(q) - 1, Tail(q)[i].kind = "set"
            PROVE  /\ i < Len(q) - 1 => Tail(q)[i + 1] = DataOf(Tail(q)[i].block)
                   /\ i = Len(q) - 1 => \A b : b = Tail(q)[i].block => Coming(b)'
        BY <1>1, <2>1, <3>1, <3>2 DEF Coming
      <3>3. toNode'[link'] = Tail(q)
        BY <2>1, <2>2
      <3>4. ASSUME NEW i \in 1 .. Len(toNode'[link']), toNode'[link'][i].kind = "set"
            PROVE  /\ i < Len(toNode'[link']) =>
                        toNode'[link'][i + 1] = DataOf(toNode'[link'][i].block)
                   /\ i = Len(toNode'[link']) =>
                        \/ link' \notin up'
                        \/ \E t \in Thread : /\ pc'[t] = "data" /\ conn'[t] = link'
                                             /\ op'[t].block = toNode'[link'][i].block
        <4>1. i \in 1 .. Len(q) - 1 /\ Tail(q)[i].kind = "set" /\ Len(Tail(q)) = Len(q) - 1
          BY <2>6, <3>3, <3>4
        <4>2. /\ i < Len(q) - 1 => Tail(q)[i + 1] = DataOf(Tail(q)[i].block)
              /\ i = Len(q) - 1 => \A b : b = Tail(q)[i].block => Coming(b)'
          BY <3>2, <4>1
        <4> QED BY <3>3, <4>1, <4>2 DEF Coming
      <3> QED BY <3>4 DEF Paired, DataOf, Coming
    <2>10. Wanted'
      <3>1. CASE want = NoBlock
        <4> SUFFICES ASSUME want' # NoBlock PROVE Wanted'
          BY DEF Wanted
        <4>1. q[1].kind = "set" /\ want' = q[1].block
          BY <2>1, <2>6, <3>1 DEF Obey
        <4>2. 1 < Len(q) => Tail(q)[1] = DataOf(q[1].block) /\ Tail(q) # <<>>
          <5> SUFFICES ASSUME 1 < Len(q)
                       PROVE  Tail(q)[1] = DataOf(q[1].block) /\ Tail(q) # <<>>
            OBVIOUS
          <5>1. q[1 + 1] = DataOf(q[1].block)
            BY <2>3, <2>7, <4>1
          <5>2. 1 \in 1 .. Len(q) - 1 /\ Len(q) # 1
            BY <2>6
          <5> QED BY <2>6, <5>1, <5>2
        <4>3. 1 = Len(q) => Coming(q[1].block) /\ Tail(q) = <<>>
          BY <2>3, <2>6, <2>7, <4>1
        <4>4. 1 = Len(q) => \A b : b = q[1].block => Coming(b)'
          BY <1>1, <2>1, <4>3 DEF Coming
        <4>5. /\ Tail(q) # <<>> => Tail(q)[1] = DataOf(want')
              /\ Tail(q) = <<>> => \A b : b = want' => Coming(b)'
          BY <2>6, <4>1, <4>2, <4>3, <4>4
        <4> QED BY <2>1, <2>2, <4>5 DEF Wanted, DataOf, Coming
      <3>2. CASE want # NoBlock
        BY <2>1, <3>2 DEF StoreNext, Wanted
      <3> QED BY <3>1, <3>2
    <2>11. Halfway'
      <3> SUFFICES ASSUME NEW t \in Thread, pc[t] = "data", conn[t] \in up
                   PROVE  /\ Tail(q) # <<>> => Tail(q)[Len(Tail(q))] = SetOf(op[t].block)
                          /\ Tail(q) = <<>> => want' = op[t].block
        BY <1>1, <2>1, <2>2 DEF Halfway, SetOf
      <3>1. q[Len(q)] = SetOf(op[t].block)
        BY <2>5
      <3>2. CASE Len(q) = 1
        <4>1. q[1].kind = "set" /\ q[1].block = op[t].block
          BY <3>1, <3>2 DEF SetOf
        <4>2. want = NoBlock
          BY <2>4, <4>1 DEF DataOf
        <4> QED BY <2>1, <2>6, <3>2, <4>1, <4>2 DEF Obey
      <3>3. CASE Len(q) # 1
        <4>1. Len(q) - 1 \in 1 .. Len(q) - 1 /\ (Len(q) - 1) + 1 = Len(q)
          BY <2>6, <3>3
        <4> QED BY <2>6, <3>1, <3>3, <4>1
      <3> QED BY <3>2, <3>3
    <2>12. Whole'
      <3>1. want # NoBlock => q[1].kind = "data" /\ q[1].block = want
        BY <2>4 DEF DataOf
      <3> QED BY <1>0, <2>1, <2>6, <3>1 DEF Flow, Whole, Obey, StoreNext, NodeTypes
    <2>13. OneLink'
      BY <1>0, <1>1, <2>1 DEF Flow, OneLink, WireTypes, q
    <2> QED BY <2>9, <2>10, <2>11, <2>12, <2>13 DEF Flow
  <1>4. CASE NodeLoses
    <2>1. /\ link \notin up /\ link' = NoConn /\ want' = NoBlock /\ UNCHANGED <<acc, up>>
          /\ toNode' = [toNode EXCEPT ![link] = <<>>]
          /\ disk' = disk \/ (want \in Block /\ disk' = [disk EXCEPT ![want] = "cut"])
      BY <1>0, <1>4 DEF NodeLoses, NodeTypes
    <2>2. up = {}
      BY <2>1 DEF Flow, OneLink
    <2>3. OneLink'
      BY <1>0, <1>1, <2>1, <2>2 DEF Flow, OneLink, WireTypes
    <2>4. Paired' /\ Wanted' /\ Halfway'
      BY <2>1, <2>2 DEF Paired, Wanted, Halfway
    <2>5. Whole'
      BY <1>0, <2>1 DEF Flow, Whole, NodeTypes
    <2> QED BY <2>3, <2>4, <2>5 DEF Flow
  <1> QED BY <1>2, <1>3, <1>4 DEF NodeThread

\* A connection breaks: what was coming on it need not come.
LEMMA BreaksFlow == ASSUME Flow, NEW c \in Conn, Breaks(c) PROVE Flow'
  <1>1. up' \subseteq up /\ UNCHANGED <<pc, conn, op, acc, toNode, link, want, disk>>
    BY DEF Breaks, callVars, wireVars, nodeVars
  <1>2. OneLink'
    BY <1>1 DEF Flow, OneLink
  <1>3. Paired'
    BY <1>1 DEF Flow, Paired, Coming, DataOf
  <1>4. Wanted'
    BY <1>1 DEF Flow, Wanted, Coming, DataOf
  <1>5. Halfway'
    BY <1>1 DEF Flow, Halfway, SetOf
  <1> QED BY <1>1, <1>2, <1>3, <1>4, <1>5 DEF Flow, Whole

\* The other steps of threads.
LEMMA ActorFlow ==
    ASSUME Types, Started, Ownership, OneMutex, Flow, NEW a \in Actor,
           \/ MakeMutex(a) \/ Look(a) \/ LookActive(a) \/ LookStandby(a) \/ Await(a)
           \/ ProbeFails(a) \/ Drop(a) \/ \E kind \in {"set", "get"}, b \in Block : Begin(a, kind, b)
    PROVE  Flow'
  <1>0. CallTypes /\ DictTypes /\ \A t \in Thread : t \in Actor
    BY DEF Types, Actor
  <1>1. UNCHANGED <<acc, up, toNode, link, want, disk>>
    BY DEF MakeMutex, Look, LookActive, LookStandby, Await, ProbeFails, Probes, Drop, Begin,
           wireVars, nodeVars, Loses
  <1>2. /\ pc[a] # "data" /\ \E label \in Place \ {"data"} : Goto(a, label)
        /\ conn' = conn \/ \E c \in {NoConn, active, standby} : conn' = [conn EXCEPT ![a] = c]
        /\ op' = op \/ \E o : op' = [op EXCEPT ![a] = o]
    <2>1. CASE MakeMutex(a)
      BY <2>1 DEF MakeMutex, Place, Busy, callVars
    <2>2. CASE Look(a)
      BY <2>2 DEF Look, Takes, Unlock, Place, Busy
    <2>3. CASE LookActive(a)
      BY <2>3 DEF LookActive, Takes, Place
    <2>4. CASE LookStandby(a)
      BY <2>4 DEF LookStandby, Unlock, Place
    <2>5. CASE Await(a)
      BY <2>5 DEF Await, Unlock, Place, Busy
    <2>6. CASE ProbeFails(a)
      BY <2>6 DEF ProbeFails, Probes, Place, Busy
    <2>7. CASE Drop(a)
      BY <2>7 DEF Drop, Unlock, Gone, Place
    <2>8. ASSUME NEW kind, NEW b, Begin(a, kind, b)
          PROVE  /\ pc[a] # "data" /\ \E label \in Place \ {"data"} : Goto(a, label)
                 /\ conn' = conn /\ \E o : op' = [op EXCEPT ![a] = o]
      BY <2>8 DEF Begin, GetMutex, Place, Busy
    <2> QED BY <2>1, <2>2, <2>3, <2>4, <2>5, <2>6, <2>7, <2>8
  <1>3. /\ pc'[a] # "data" /\ \A b \in Actor \ {a} : pc'[b] = pc[b] /\ conn'[b] = conn[b]
        /\ \A t \in Thread \ {a} : op'[t] = op[t]
    BY <1>0, <1>2 DEF Goto, CallTypes
  <1>4. conn'[a] # NoConn => conn'[a] \in Conn /\ acc[conn'[a]] # "no"
    <2>1. conn'[a] \in {conn[a], NoConn, active, standby}
      BY <1>0, <1>2 DEF CallTypes
    <2>2. conn[a] # NoConn => conn[a] \in Conn /\ acc[conn[a]] # "no"
      BY <1>0 DEF CallTypes, Flow, OneLink
    <2> QED BY <1>0, <2>1, <2>2, LookedUp DEF DictTypes
  <1> QED BY <1>1, <1>2, <1>3, <1>4, FlowStays

\* The blocks keep their data, step by step.
LEMMA StepFlow ==
    ASSUME Types, Started, Ownership, OneMutex, Flow, [Next]_vars, ~strayed'
    PROVE  Flow'
  <1>0. /\ CallTypes /\ WireTypes /\ \A t \in Thread : t \in Actor
        /\ \A c \in Conn : c \in Actor /\ c \notin Thread
        /\ "console" \in Thread /\ "console" \in Actor
    BY LinkAssumption DEF Types, Actor
  <1>1. CASE UNCHANGED vars
    BY <1>0, <1>1, LinkAssumption
    DEF Flow, OneLink, Paired, Wanted, Halfway, Whole, Coming, DataOf, SetOf, vars, callVars,
        wireVars, nodeVars
  <1>2. ASSUME NEW c \in Conn, Accept(c) PROVE Flow'
    <2>1. /\ UNCHANGED <<up, toNode, link, want, disk, conn, op>>
          /\ UNCHANGED pc \/ \E label \in {"make", "lock"} : Goto(c, label)
          /\ acc[c] # "no" /\ \E label \in {"put", "add", "done"} : acc' = [acc EXCEPT ![c] = label]
      BY <1>2 DEF Accept, RecvHello, HelloLost, PutAccepted, StartChecker, GetMutex, Accepts,
                  callVars, wireVars, nodeVars
    <2>2. pc[c] # "data" /\ pc'[c] # "data"
      <3>1. pc[c] = "off"
        BY <1>2 DEF Accept, RecvHello, HelloLost, PutAccepted, StartChecker, Started
      <3> QED BY <1>0, <2>1, <3>1 DEF Goto, CallTypes
    <2>3. /\ \A b \in Actor \ {c} : pc'[b] = pc[b]
          /\ \A d \in Conn : acc'[d] = "no" <=> acc[d] = "no"
      BY <1>0, <2>1 DEF Goto, CallTypes, WireTypes
    <2>4. conn[c] # NoConn => conn[c] \in Conn /\ acc[conn[c]] # "no"
      BY <1>0 DEF CallTypes, Flow, OneLink
    <2> QED BY <1>0, <2>1, <2>2, <2>3, <2>4, FlowStays
  <1>3. CASE Move
    <2>1. /\ UNCHANGED <<acc, up, toNode, link, want, disk, conn, op>>
          /\ pc["console"] \in {"idle", "enable", "disable"}
          /\ \E label \in {"enable", "disable", "idle"} : Goto("console", label)
      BY <1>3 DEF Move, Enable, activateNode, Disable, deactivateNode, Moves, callVars, wireVars,
                  nodeVars
    <2>2. pc'["console"] # "data" /\ \A b \in Actor \ {"console"} : pc'[b] = pc[b]
      BY <1>0, <2>1 DEF Goto, CallTypes
    <2>3. conn["console"] # NoConn => conn["console"] \in Conn /\ acc[conn["console"]] # "no"
      BY <1>0 DEF CallTypes, Flow, OneLink
    <2> QED BY <1>0, <2>1, <2>2, <2>3, FlowStays
  <1> QED
    BY <1>0, <1>1, <1>2, <1>3, SendCommandFlow, SendDataFlow, ProbeFlow, NodeFlow, BreaksFlow,
       ActorFlow
    DEF Next, Exchange, Check

----------------------------------------------------------------------------
(* The answers are awaited.                                                 *)

\* Gets on their way, and the answer to one, while the connection works: a thread
\* waits for each, so there is one at most of both.
GetsAwaited ==
    LET q == toNode[link]
    IN  \A i \in 1 .. Len(q) : q[i].kind = "get" =>
           /\ toFs[link] = <<>> /\ \A j \in 1 .. Len(q) : q[j].kind = "get" => j = i
           /\ \E t \in Thread : pc[t] = "await" /\ conn[t] = link /\ op[t].block = q[i].block
AnswerAwaited ==
    toFs[link] # <<>> =>
        \E t \in Thread : pc[t] = "await" /\ conn[t] = link /\ toFs[link] = <<op[t].block>>
Asked ==
    /\ \A c \in Conn : acc[c] = "no" => toFs[c] = <<>>
    /\ link \in up => GetsAwaited /\ AnswerAwaited

\* A step that leaves what is on its way, and the threads that wait for it.
LEMMA AskedStays ==
    ASSUME Asked, UNCHANGED <<toNode, toFs, link>>, up' \subseteq up,
           \A c \in Conn : acc'[c] = "no" => acc[c] = "no",
           link \in up => \A t \in Thread : pc[t] = "await" /\ conn[t] = link =>
               pc'[t] = "await" /\ conn'[t] = link /\ op'[t] = op[t]
    PROVE  Asked'
  <1>1. ASSUME link' \in up' PROVE GetsAwaited' /\ AnswerAwaited'
    <2>1. link \in up /\ GetsAwaited /\ AnswerAwaited
      BY <1>1 DEF Asked
    <2>2. AnswerAwaited'
      BY <2>1 DEF AnswerAwaited
    <2>3. GetsAwaited'
      BY <2>1 DEF GetsAwaited
    <2> QED BY <2>2, <2>3
  <1> QED BY <1>1 DEF Asked

\* Nobody waits on the connection: nothing was asked on it.
Quiet == \A t \in Thread : ~(pc[t] = "await" /\ conn[t] = link)
LEMMA QuietAsked ==
    ASSUME Asked, link \in up, Quiet
    PROVE  /\ toFs[link] = <<>>
           /\ \A i \in 1 .. Len(toNode[link]) : toNode[link][i].kind # "get"
  BY DEF Asked, GetsAwaited, AnswerAwaited, Quiet

\* A packet sent, that asks for nothing.
LEMMA AskedSends ==
    ASSUME Types, Flow, Asked, NEW s, NEW p \in Sent, Sends(s, p), p.kind # "get",
           UNCHANGED <<up, toFs, link, acc>>,
           \A t \in Thread : pc[t] = "await" /\ conn[t] = link =>
               pc'[t] = "await" /\ conn'[t] = link /\ op'[t] = op[t]
    PROVE  Asked'
  <1> DEFINE q == toNode[link]
  <1>1. s = link /\ link \in Conn /\ link \in up /\ toNode' = [toNode EXCEPT ![link] = Append(q, p)]
    BY DEF Sends, Flow, OneLink, Types, WireTypes
  <1>2. q \in Seq(Sent) /\ toNode'[link] = Append(q, p)
    BY <1>1 DEF Types, WireTypes
  <1>3. GetsAwaited /\ AnswerAwaited
    BY <1>1 DEF Asked
  <1>4. AnswerAwaited'
    BY <1>3 DEF AnswerAwaited
  <1>5. GetsAwaited'
    <2>1. \A i \in 1 .. Len(q) : q[i].kind = "get" =>
             /\ toFs[link] = <<>> /\ \A j \in 1 .. Len(q) : q[j].kind = "get" => j = i
             /\ \E t \in Thread : pc'[t] = "await" /\ conn'[t] = link /\ op'[t].block = q[i].block
      BY <1>3 DEF GetsAwaited
    <2> HIDE DEF q
    <2>2. /\ Len(Append(q, p)) = Len(q) + 1 /\ Append(q, p)[Len(q) + 1] = p
          /\ \A i \in 1 .. Len(q) : Append(q, p)[i] = q[i]
      BY <1>2, AppendAt
    <2>3. Len(q) \in Nat
      BY <1>2
    <2>4. \A i \in 1 .. Len(q) + 1 : Append(q, p)[i].kind = "get" =>
             i \in 1 .. Len(q) /\ Append(q, p)[i] = q[i]
      BY <2>2, <2>3
    <2> QED BY <1>2, <2>1, <2>2, <2>4 DEF GetsAwaited
  <1> QED BY <1>4, <1>5 DEF Asked

\* A thread asks for a block: it holds the mutex, so no other waits.
LEMMA AskedCommand ==
    ASSUME Types, OneMutex, Flow, Asked, NEW t \in Thread, SendCommand(t), ~strayed'
    PROVE  Asked'
  <1>0. /\ t \in Actor /\ \A u \in Thread : u \in Actor
        /\ WireTypes /\ CallTypes
    BY DEF Types, Actor
  <1>1. pc[t] = "command" /\ op[t] \in Call /\ Socket(t) = {conn[t]}
    BY <1>0 DEF SendCommand, CallTypes, Uses, Socket, Busy
  <1>2. \A u \in Thread : pc[u] # "await"
    BY <1>0, <1>1 DEF OneMutex, Holding
  <1>3. UNCHANGED <<acc, up, link, toFs, conn, op>>
    BY DEF SendCommand, nodeVars
  <1>4. CASE Loses(conn[t])
    BY <1>2, <1>3, <1>4, AskedStays DEF Loses
  <1>5. CASE ~Loses(conn[t])
    <2>1. Sends(conn[t], Command(t)) /\ pc'[t] = IF op[t].kind = "set" THEN "data" ELSE "await"
      BY <1>0, <1>1, <1>5 DEF SendCommand, Goto, CallTypes
    <2>2. Command(t) \in Sent /\ Command(t).kind = op[t].kind /\ Command(t).block = op[t].block
      BY <1>1 DEF Call, Command, Sent
    <2>3. CASE op[t].kind = "set"
      BY <1>2, <1>3, <2>1, <2>2, <2>3, AskedSends
    <2>4. CASE op[t].kind = "get"
      <3> DEFINE q == toNode[link]
                 p == Command(t)
      <3>1. /\ conn[t] = link /\ link \in Conn /\ link \in up
            /\ toNode' = [toNode EXCEPT ![link] = Append(q, p)]
        BY <2>1 DEF Sends, Flow, OneLink, Types, WireTypes
      <3>2. q \in Seq(Sent) /\ toNode'[link] = Append(q, p)
        BY <1>0, <3>1 DEF WireTypes
      <3>3. toFs[link] = <<>> /\ \A i \in 1 .. Len(q) : q[i].kind # "get"
        BY <1>2, <3>1, QuietAsked DEF Quiet
      <3> HIDE DEF q, p
      <3>4. /\ Len(Append(q, p)) = Len(q) + 1 /\ Append(q, p)[Len(q) + 1] = p
            /\ \A i \in 1 .. Len(q) : Append(q, p)[i] = q[i]
        BY <2>2, <3>2, AppendAt DEF p
      <3>5. Len(q) \in Nat
        BY <3>2
      <3>6. \A i \in 1 .. Len(q) + 1 : Append(q, p)[i].kind = "get" =>
               i = Len(q) + 1 /\ Append(q, p)[i].block = op[t].block
        BY <2>2, <3>3, <3>4, <3>5 DEF p
      <3>7. pc'[t] = "await" /\ conn'[t] = link' /\ op'[t].block = op[t].block
        BY <1>3, <2>1, <2>4, <3>1
      <3>8. GetsAwaited'
        BY <1>3, <3>2, <3>3, <3>4, <3>6, <3>7 DEF GetsAwaited
      <3> QED BY <1>3, <3>3, <3>8 DEF Asked, AnswerAwaited
    <2> QED BY <1>1, <2>3, <2>4 DEF Call
  <1> QED BY <1>4, <1>5

\* The thread gets its answer, or hears that the connection is lost.
LEMMA AskedAwait ==
    ASSUME Types, OneMutex, Flow, Asked, NEW t \in Thread, Await(t), ~strayed'
    PROVE  Asked'
  <1>0. /\ t \in Actor /\ \A u \in Thread : u \in Actor
        /\ WireTypes /\ CallTypes
    BY DEF Types, Actor
  <1>1. pc[t] = "await" /\ Socket(t) = {conn[t]} /\ UNCHANGED <<acc, up, toNode, link>>
    BY <1>0 DEF Await, CallTypes, Uses, Socket, nodeVars
  <1>2. \A u \in Thread : pc[u] = "await" => u = t
    BY <1>0, <1>1 DEF OneMutex, Holding
  <1>3. CASE UNCHANGED toFs /\ conn[t] \notin up
    BY <1>1, <1>2, <1>3, AskedStays
  <1>4. CASE conn[t] \in Conn /\ toFs[conn[t]] # <<>> /\ toFs' = [toFs EXCEPT ![conn[t]] = Tail(@)]
    <2>1. \A c \in Conn : acc'[c] = "no" => toFs'[c] = <<>>
      BY <1>0, <1>1, <1>4 DEF Asked, WireTypes
    <2>2. ASSUME link \in up
          PROVE  toFs'[link] = <<>> /\ \A i \in 1 .. Len(toNode[link]) : toNode[link][i].kind # "get"
      <3>0. link \in Conn
        BY <1>0, <2>2 DEF WireTypes
      <3>1. CASE conn[t] = link
        <4>1. toFs[link] = <<op[t].block>>
          BY <1>2, <1>4, <2>2, <3>1 DEF Asked, AnswerAwaited
        <4>2. toFs'[link] = Tail(toFs[link])
          BY <1>0, <1>4, <3>0, <3>1 DEF WireTypes
        <4>3. \A i \in 1 .. Len(toNode[link]) : toNode[link][i].kind # "get"
          BY <1>4, <2>2, <3>1 DEF Asked, GetsAwaited
        <4> QED BY <4>1, <4>2, <4>3
      <3>2. CASE conn[t] # link
        <4>1. Quiet
          BY <1>2, <3>2 DEF Quiet
        <4> QED BY <1>0, <1>4, <2>2, <3>0, <3>2, <4>1, QuietAsked DEF WireTypes
      <3> QED BY <3>1, <3>2
    <2> QED BY <1>1, <2>1, <2>2 DEF Asked, GetsAwaited, AnswerAwaited
  <1> QED BY <1>1, <1>3, <1>4 DEF Await

\* The node: it answers what was asked.
LEMMA AskedNode ==
    ASSUME Types, Flow, Asked, NodeThread
    PROVE  Asked'
  <1>0. /\ WireTypes /\ CallTypes /\ NodeTypes /\ NoConn \notin Conn
    BY LinkAssumption DEF Types, Actor
  <1>1. UNCHANGED <<pc, conn, op>>
    BY DEF NodeThread, NodeConnects, NodeReads, NodeLoses, Node, callVars
  <1>2. CASE NodeConnects
    <2>1. PICK c \in Conn : /\ acc[c] = "no" /\ acc' = [acc EXCEPT ![c] = "hello"]
                            /\ link' = c
      <3>1. \E c \in Conn : c \notin Used
        BY <1>2 DEF NodeConnects, Used
      <3>2. (CHOOSE d \in Conn : d \notin Used) \in Conn \ Used
        BY <3>1
      <3> QED BY <1>2, <3>2 DEF NodeConnects, Used
    <2>2. UNCHANGED <<toNode, toFs>> /\ toNode[c] = <<>> /\ toFs[c] = <<>>
      BY <1>2, <2>1 DEF NodeConnects, wireVars, Flow, OneLink, Asked
    <2>3. \A d \in Conn : acc'[d] = "no" => toFs'[d] = <<>>
      BY <1>0, <2>1, <2>2 DEF Asked, WireTypes
    <2> QED BY <2>1, <2>2, <2>3 DEF Asked, GetsAwaited, AnswerAwaited
  <1>3. CASE NodeReads
    <2> DEFINE q == toNode[link]
    <2>1. /\ link \in Conn /\ q # <<>> /\ q \in Seq(Sent)
          /\ toNode' = [toNode EXCEPT ![link] = Tail(q)] /\ UNCHANGED <<link, acc, up>>
          /\ IF want = NoBlock THEN Obey(Head(q)) ELSE StoreNext(Head(q))
          /\ acc[link] # "no"
      BY <1>0, <1>3 DEF NodeReads, NodeTypes, WireTypes, Flow, OneLink
    <2>2. toNode'[link] = Tail(q)
      BY <1>0, <2>1 DEF WireTypes
    <2>3. link \in up =>
            /\ \A i \in 1 .. Len(q) : q[i].kind = "get" =>
                 /\ toFs[link] = <<>> /\ \A j \in 1 .. Len(q) : q[j].kind = "get" => j = i
                 /\ \E t \in Thread : pc[t] = "await" /\ conn[t] = link /\ op[t].block = q[i].block
            /\ AnswerAwaited
      BY DEF Asked, GetsAwaited
    <2>4. want # NoBlock => q[1].kind = "data"
      BY <2>1 DEF Flow, Wanted, DataOf
    <2> HIDE DEF q
    <2>5. /\ Len(q) \in Nat \ {0} /\ Len(Tail(q)) = Len(q) - 1 /\ Head(q) = q[1]
          /\ \A i \in 1 .. Len(q) - 1 : Tail(q)[i] = q[i + 1]
      BY <2>1, TailAt
    <2>6. toFs' = IF q[1].kind = "get" THEN [toFs EXCEPT ![link] = Append(@, q[1].block)] ELSE toFs
      BY <2>1, <2>4, <2>5 DEF Obey, StoreNext
    <2>7. \A c \in Conn : acc'[c] = "no" => toFs'[c] = <<>>
      BY <1>0, <2>1, <2>6 DEF Asked, WireTypes
    <2> SUFFICES ASSUME link \in up PROVE GetsAwaited' /\ AnswerAwaited'
      BY <2>1, <2>7 DEF Asked
    <2>8. CASE q[1].kind = "get"
      <3>1. /\ toFs[link] = <<>> /\ \A j \in 1 .. Len(q) : q[j].kind = "get" => j = 1
            /\ \E t \in Thread : pc[t] = "await" /\ conn[t] = link /\ op[t].block = q[1].block
        BY <2>3, <2>5, <2>8
      <3>2. toFs'[link] = <<q[1].block>>
        BY <1>0, <2>1, <2>6, <2>8, <3>1 DEF WireTypes
      <3>3. \A i \in 1 .. Len(q) - 1 : Tail(q)[i].kind # "get"
        <4> TAKE i \in 1 .. Len(q) - 1
        <4>1. i + 1 \in 1 .. Len(q) /\ i + 1 # 1 /\ Tail(q)[i] = q[i + 1]
          BY <2>5
        <4> QED BY <3>1, <4>1
      <3>4. GetsAwaited'
        BY <2>1, <2>2, <2>5, <3>3 DEF GetsAwaited
      <3>5. AnswerAwaited'
        BY <1>1, <2>1, <3>1, <3>2 DEF AnswerAwaited
      <3> QED BY <3>4, <3>5
    <2>9. CASE q[1].kind # "get"
      <3>1. AnswerAwaited' /\ toFs' = toFs
        BY <1>1, <2>1, <2>3, <2>6, <2>9 DEF AnswerAwaited
      <3>2. ASSUME NEW i \in 1 .. Len(q) - 1, Tail(q)[i].kind = "get"
            PROVE  /\ toFs[link] = <<>>
                   /\ \A j \in 1 .. Len(q) - 1 : Tail(q)[j].kind = "get" => j = i
                   /\ \E t \in Thread : pc[t] = "await" /\ conn[t] = link
                                        /\ op[t].block = Tail(q)[i].block
        <4>1. i + 1 \in 1 .. Len(q) /\ Tail(q)[i] = q[i + 1]
          BY <2>5
        <4>2. /\ toFs[link] = <<>> /\ \A j \in 1 .. Len(q) : q[j].kind = "get" => j = i + 1
              /\ \E t \in Thread : pc[t] = "await" /\ conn[t] = link /\ op[t].block = q[i + 1].block
          BY <2>3, <3>2, <4>1
        <4>3. ASSUME NEW j \in 1 .. Len(q) - 1, Tail(q)[j].kind = "get" PROVE j = i
          <5>1. j + 1 \in 1 .. Len(q) /\ Tail(q)[j] = q[j + 1]
            BY <2>5
          <5>2. j + 1 = i + 1
            BY <4>2, <4>3, <5>1
          <5> QED BY <5>2
        <4> QED BY <4>1, <4>2, <4>3
      <3>3. GetsAwaited'
        BY <1>1, <2>1, <2>2, <2>5, <3>1, <3>2 DEF GetsAwaited
      <3> QED BY <3>1, <3>3
    <2> QED BY <2>8, <2>9
  <1>4. CASE NodeLoses
    <2>1. link \notin up /\ link' = NoConn /\ UNCHANGED <<acc, up, toFs>>
      BY <1>4 DEF NodeLoses
    <2>2. NoConn \notin up
      BY <1>0 DEF WireTypes
    <2> QED BY <2>1, <2>2 DEF Asked
  <1> QED BY <1>2, <1>3, <1>4 DEF NodeThread

\* The answers are awaited, step by step.
LEMMA StepAsked ==
    ASSUME Types, Started, OneMutex, Flow, Asked, [Next]_vars, ~strayed'
    PROVE  Asked'
  <1>0. /\ CallTypes /\ WireTypes /\ \A t \in Thread : t \in Actor
        /\ \A c \in Conn : c \in Actor /\ c \notin Thread
        /\ "console" \in Thread /\ "console" \in Actor
    BY LinkAssumption DEF Types, Actor
  <1>1. CASE UNCHANGED vars
    BY <1>1, AskedStays DEF vars, callVars, wireVars, nodeVars
  <1>2. ASSUME NEW a \in Actor,
               \/ MakeMutex(a) \/ Look(a) \/ LookActive(a) \/ LookStandby(a) \/ ProbeFails(a)
               \/ Drop(a) \/ \E kind \in {"set", "get"}, b \in Block : Begin(a, kind, b)
        PROVE  Asked'
    <2>1. UNCHANGED <<acc, up, toNode, toFs, link>>
      BY <1>2 DEF MakeMutex, Look, LookActive, LookStandby, ProbeFails, Probes, Drop, Begin,
             wireVars, nodeVars, Loses
    <2>2. /\ pc[a] # "await" /\ \E label : Goto(a, label)
          /\ conn' = conn \/ \E c : conn' = [conn EXCEPT ![a] = c]
          /\ op' = op \/ \E o : op' = [op EXCEPT ![a] = o]
      BY <1>2 DEF MakeMutex, Look, LookActive, LookStandby, ProbeFails, Probes, Drop, Begin,
                  Takes, GetMutex, Unlock, callVars
    <2>3. \A t \in Thread : pc[t] = "await" => pc'[t] = pc[t] /\ conn'[t] = conn[t] /\ op'[t] = op[t]
      BY <1>0, <2>2 DEF CallTypes, Goto
    <2> QED BY <2>1, <2>3, AskedStays
  <1>3. ASSUME NEW c \in Conn, Accept(c) PROVE Asked'
    <2>1. /\ UNCHANGED <<up, toNode, toFs, link, conn, op>>
          /\ UNCHANGED pc \/ \E label : Goto(c, label)
          /\ \E label \in {"put", "add", "done"} : acc' = [acc EXCEPT ![c] = label]
      BY <1>3 DEF Accept, RecvHello, HelloLost, PutAccepted, StartChecker, GetMutex, Accepts,
                  callVars, wireVars, nodeVars
    <2>2. \A t \in Thread : pc'[t] = pc[t]
      BY <1>0, <2>1 DEF Goto, CallTypes
    <2>3. \A d \in Conn : acc'[d] = "no" => acc[d] = "no"
      BY <1>0, <2>1 DEF WireTypes
    <2> QED BY <2>1, <2>2, <2>3, AskedStays
  <1>4. CASE Move
    <2>1. /\ UNCHANGED <<acc, up, toNode, toFs, link, conn, op>>
          /\ pc["console"] # "await" /\ \E label : Goto("console", label)
      BY <1>4 DEF Move, Enable, activateNode, Disable, deactivateNode, Moves, callVars, wireVars,
                  nodeVars
    <2>2. \A t \in Thread : pc[t] = "await" => pc'[t] = pc[t]
      BY <1>0, <2>1 DEF Goto, CallTypes
    <2> QED BY <2>1, <2>2, AskedStays
  <1>5. ASSUME NEW c \in Conn, Breaks(c) PROVE Asked'
    BY <1>5, AskedStays DEF Breaks, callVars, wireVars, nodeVars
  <1>6. ASSUME NEW t \in Thread, SendData(t) PROVE Asked'
    <2>1. /\ pc[t] = "data" /\ op[t] \in Call /\ Socket(t) = {conn[t]}
          /\ UNCHANGED <<acc, up, toFs, link>>
      BY <1>0, <1>6 DEF SendData, CallTypes, Uses, Socket, Busy, nodeVars
    <2>2. /\ \E label : Goto(t, label)
          /\ conn' = conn \/ \E c : conn' = [conn EXCEPT ![t] = c]
          /\ op' = op \/ \E o : op' = [op EXCEPT ![t] = o]
      BY <1>6 DEF SendData, Unlock
    <2>3. \A u \in Thread : pc[u] = "await" => pc'[u] = pc[u] /\ conn'[u] = conn[u] /\ op'[u] = op[u]
      BY <1>0, <2>1, <2>2 DEF CallTypes, Goto
    <2>4. Data(t) \in Sent /\ Data(t).kind # "get"
      BY <2>1 DEF Data, Sent, Call
    <2>5. Sends(conn[t], Data(t)) \/ Loses(conn[t])
      BY <1>6, <2>1 DEF SendData, Loses
    <2> QED BY <2>1, <2>3, <2>4, <2>5, AskedSends, AskedStays DEF Loses
  <1>7. ASSUME NEW k \in Conn, Probe(k) PROVE Asked'
    <2>1. pc[k] = "probe" /\ Socket(k) = {conn[k]} /\ UNCHANGED <<acc, up, toFs, link, op>>
      BY <1>0, <1>7 DEF Probe, Probes, Unlock, CallTypes, Uses, Socket, nodeVars
    <2>2. \A u \in Thread : pc'[u] = pc[u] /\ conn'[u] = conn[u]
      BY <1>0, <1>7 DEF Probe, Unlock, Goto, CallTypes
    <2>3. Alive \in Sent /\ Alive.kind # "get"
      BY DEF Sent, Alive
    <2> QED BY <1>7, <2>1, <2>2, <2>3, AskedSends, AskedStays DEF Probe, Loses
  <1> QED
    BY <1>0, <1>1, <1>2, <1>3, <1>4, <1>5, <1>6, <1>7, AskedCommand, AskedAwait, AskedNode
    DEF Next, Exchange, Check

----------------------------------------------------------------------------
\* What holds in every behaviour, and what holds while there is one mutex and nothing
\* freed is used.
LinkInv == Types /\ Started /\ Ownership /\ (Followed => OneMutex /\ Flow /\ Asked)

LEMMA InitLinkInv == Init => LinkInv
  <1> SUFFICES ASSUME Init PROVE LinkInv
    OBVIOUS
  <1>1. Started /\ Ownership
    BY LinkAssumption DEF Init, Started, Ownership, FreedAreForgotten, NotYetFound, Actor
  <1>2. OneMutex
    BY DEF Init, OneMutex, Holding
  <1>3. Flow
    BY LinkAssumption DEF Init, Flow, OneLink, Paired, Wanted, Halfway, Whole, Actor
  <1>4. Asked
    BY DEF Init, Asked
  <1> QED BY <1>1, <1>2, <1>3, <1>4, InitTypes DEF LinkInv

LEMMA StepLinkInv == LinkInv /\ [Next]_vars => LinkInv'
  <1> SUFFICES ASSUME LinkInv, [Next]_vars PROVE LinkInv'
    OBVIOUS
  <1>1. Types' /\ Started' /\ Ownership'
    BY StepTypes, StepStarted, StepOwnership DEF LinkInv
  <1>2. Followed' => Followed
    <2>1. made' = made \/ made' = made + 1
      BY DEF Next, vars, mutexVars, Begin, Exchange, MakeMutex, Look, SendCommand, SendData,
             Await, Drop, Check, LookActive, LookStandby, Probe, Probes, ProbeFails, Accept,
             RecvHello, HelloLost, PutAccepted, StartChecker, Accepts, Breaks, Move, Enable,
             activateNode, Disable, deactivateNode, Moves, NodeThread, NodeConnects, NodeReads,
             NodeLoses, Node
    <2>2. strayed => strayed'
      BY DEF Next, vars, callVars, Begin, Exchange, MakeMutex, Look, SendCommand, SendData,
             Await, Drop, Check, LookActive, LookStandby, Probe, Probes, ProbeFails, Accept,
             RecvHello, HelloLost, PutAccepted, StartChecker, Accepts, Breaks, Move, Enable,
             activateNode, Disable, deactivateNode, Moves, NodeThread, NodeConnects, NodeReads,
             NodeLoses, Node, Uses
    <2>3. made \in Nat
      BY LinkAssumption, FS_CardinalityType DEF LinkInv, Types, MutexTypes, Mutexes
    <2> QED BY <2>1, <2>2, <2>3 DEF Followed, TwoMutexes
  <1>3. Followed' => OneMutex' /\ Flow' /\ Asked'
    BY <1>2, StepOneMutex, StepFlow, StepAsked DEF LinkInv, Followed, TwoMutexes
  <1> QED BY <1>1, <1>3 DEF LinkInv

\* A block of a node holds data meant for it, the part of it that came before the
\* connection was lost, or what it held before, for any number of threads, connections
\* and packets, while there is one mutex and nothing freed is used.
THEOREM BlocksKeep == Spec => []BlocksKeepTheirData
  <1>1. LinkInv => BlocksKeepTheirData
    BY DEF LinkInv, Flow, Whole, BlocksKeepTheirData
  <1> QED BY <1>1, InitLinkInv, StepLinkInv, PTL DEF Spec

\* No answer of the node is left for the next thread that asks: what comes back on a
\* connection that works is what the thread that waits there asked for.
THEOREM Answered == Spec => []AnswersAreAwaited
  <1>1. LinkInv => AnswersAreAwaited
    <2> SUFFICES ASSUME LinkInv, Followed, NEW c \in up, toFs[c] # <<>>
                 PROVE  \E t \in Thread : /\ pc[t] = "await" /\ conn[t] = c
                                         /\ toFs[c] = <<op[t].block>>
      BY DEF AnswersAreAwaited
    <2>1. c = link
      BY DEF LinkInv, Flow, OneLink
    <2> QED BY <2>1 DEF LinkInv, Asked, AnswerAwaited
  <1> QED BY <1>1, InitLinkInv, StepLinkInv, PTL DEF Spec
==============================================================================
