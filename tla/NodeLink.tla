------------------------------ MODULE NodeLink ------------------------------
(***************************************************************************)
(* The connection between the file system and one of its nodes:            *)
(* connections_node.c of src/FileSystem, connections_fs.c and the block    *)
(* space (node.c) of src/Nodo.  The node connects, is accepted in standby, *)
(* enabled and disabled by the console, and checked by a thread of its own *)
(* per connection; the console and the thread of MaRTA send blocks to it   *)
(* and ask for blocks.  A lock guards each of the two dictionaries, and a  *)
(* mutex, made when first used, the exchanges with the node.               *)
(*                                                                         *)
(* One step is one critical section of a dictionary, one packet sent or    *)
(* received, or the taking of the mutex.  Nodes do not share anything, so  *)
(* there is one here: each dictionary holds its connection or nothing.     *)
(***************************************************************************)
EXTENDS Integers, Sequences, FiniteSets

CONSTANTS
    Thread,   \* the threads that exchange blocks: "console", "marta"
    Conn,     \* connections, each used once (bounds reconnections)
    Block,    \* the blocks of the node
    NoConn, NoBlock,
    MaxMoves, \* bound on enablen and disablen
    MaxWire   \* bound on the packets on their way to the node

Actor == Thread \cup Conn   \* a connection stands for the thread that checks it

ASSUME LinkAssumption ==
    /\ "console" \in Thread /\ Thread \cap Conn = {} /\ NoConn \notin Actor
    /\ IsFiniteSet(Actor) /\ NoBlock \notin Block /\ {"old", "cut", "junk"} \cap Block = {}
    /\ MaxMoves \in Nat /\ MaxWire \in Nat \ {0}

VARIABLES
    active, standby, \* the connection in each dictionary
    hand,            \* the connection the console has out of both
    freed,           \* the connections whose node_connection_t was freed
    mutex, made,     \* the mutex in nodesMutex (0 for none), how many were made
    owner,           \* who holds each mutex
    pc, mine, conn,  \* of each thread: where it is, its mutex, the connection it got
    op,              \* the block a thread exchanges, and which way
    acc,             \* where the thread that accepts each connection is
    up,              \* the connections that work
    toNode, toFs,    \* what is on the way on each
    link, want,      \* the node: its connection, the block whose data it waits for
    disk,            \* what each block holds: the data of one, a part of it, or other
    moves,
    strayed          \* history: a connection was used after it was freed

dictVars  == <<active, standby, hand, freed>>
mutexVars == <<mutex, made, owner, mine>>
wireVars  == <<toNode, toFs>>
nodeVars  == <<link, want, disk>>
callVars  == <<conn, op, strayed>>
vars == <<dictVars, mutexVars, pc, callVars, acc, up, wireVars, nodeVars, moves>>

\* The connections made so far.
Used == {c \in Conn : acc[c] # "no"}

Packet == [kind : {"set", "get", "data", "alive"}, block : Block \cup {NoBlock}]
Content == Block \cup {"old", "cut", "junk"}
Mutexes == 0 .. Cardinality(Actor)

NoOp == [kind |-> "none", block |-> NoBlock]

\* Every variable has its type.
TypeOK ==
    /\ {active, standby, hand} \subseteq Conn \cup {NoConn} /\ freed \subseteq Conn
    /\ mutex \in Mutexes /\ made \in Mutexes
    /\ owner \in [Mutexes -> Actor \cup {NoConn}] /\ mine \in [Actor -> Mutexes]
    /\ pc \in [Actor -> {"off", "idle", "make", "lock", "look", "probe",
                         "command", "data", "await", "drop", "enable", "disable"}]
    /\ conn \in [Actor -> Conn \cup {NoConn}]
    /\ op \in [Thread -> [kind : {"set", "get", "none"}, block : Block \cup {NoBlock}]]
    /\ acc \in [Conn -> {"no", "hello", "put", "add", "done"}]
    /\ up \subseteq Used
    /\ toNode \in [Conn -> Seq(Packet)] /\ toFs \in [Conn -> Seq(Block)]
    /\ link \in Conn \cup {NoConn} /\ want \in Block \cup {NoBlock}
    /\ disk \in [Block -> Content]
    /\ moves \in 0 .. MaxMoves /\ strayed \in BOOLEAN

Init ==
    /\ active = NoConn /\ standby = NoConn /\ hand = NoConn /\ freed = {}
    /\ mutex = 0 /\ made = 0 /\ owner = [m \in Mutexes |-> NoConn]
    /\ pc = [a \in Actor |-> IF a \in Thread THEN "idle" ELSE "off"]
    /\ mine = [a \in Actor |-> 0] /\ conn = [a \in Actor |-> NoConn]
    /\ op = [t \in Thread |-> NoOp]
    /\ acc = [c \in Conn |-> "no"] /\ up = {}
    /\ toNode = [c \in Conn |-> <<>>] /\ toFs = [c \in Conn |-> <<>>]
    /\ link = NoConn /\ want = NoBlock /\ disk = [b \in Block |-> "old"]
    /\ moves = MaxMoves /\ strayed = FALSE

----------------------------------------------------------------------------
Goto(a, label) == pc' = [pc EXCEPT ![a] = label]
FreeConn(c) == freed' = freed \cup ({c} \ {NoConn})

\* connections_node_removeActiveNodeConnection: whichever connection is there.
removeActive == FreeConn(active) /\ active' = NoConn

\* Where an actor is after an error: a checker ends.
Gone(a) == IF a \in Thread THEN "idle" ELSE "off"
Unlock(a, label) ==
    /\ owner' = [owner EXCEPT ![mine[a]] = NoConn]
    /\ mine' = IF label = "lock" THEN mine ELSE [mine EXCEPT ![a] = 0]
    /\ conn' = [conn EXCEPT ![a] = NoConn]
    /\ op' = IF a \in Thread THEN [op EXCEPT ![a] = NoOp] ELSE op
    /\ Goto(a, label)

\* The socket an actor reads in the connection it looked up.  Once this was freed
\* the memory may hold what it held, another connection's, or no socket.
Socket(a) == IF conn[a] \in freed THEN Used \cup {NoConn} ELSE {conn[a]}
Uses(a) == strayed' = (strayed \/ conn[a] \in freed)

\* socket_send_packet: the packet is on its way; or, on a connection that does not
\* work, it is lost with or without an error.
Sends(s, p) ==
    /\ s \in up /\ Len(toNode[s]) < MaxWire
    /\ toNode' = [toNode EXCEPT ![s] = Append(@, p)]
Loses(s) == s \notin up /\ UNCHANGED toNode

\* What a thread sends.
Command(t) == [kind |-> op[t].kind, block |-> op[t].block]
Data(t)    == [kind |-> "data", block |-> op[t].block]
Alive      == [kind |-> "alive", block |-> NoBlock]

----------------------------------------------------------------------------
(* connections_node_sendBlock, connections_node_getBlock and                *)
(* connections_node_getFileContent, which exchanges packets as the second.  *)

\* connections_node_getNodeMutex: looked up and, when there is none, made and put in
\* a second critical section.
GetMutex(a) ==
    IF mutex = 0 THEN Goto(a, "make") /\ UNCHANGED mine
    ELSE Goto(a, "lock") /\ mine' = [mine EXCEPT ![a] = mutex]

Begin(t, kind, b) ==
    /\ pc[t] = "idle" /\ GetMutex(t)
    /\ op' = [op EXCEPT ![t] = [kind |-> kind, block |-> b]]
    /\ UNCHANGED <<dictVars, mutex, made, owner, conn, strayed, acc, up, wireVars, nodeVars, moves>>

MakeMutex(a) ==
    /\ pc[a] = "make" /\ made + 1 \in Mutexes
    /\ made' = made + 1 /\ mutex' = made' /\ mine' = [mine EXCEPT ![a] = made']
    /\ Goto(a, "lock")
    /\ UNCHANGED <<dictVars, owner, callVars, acc, up, wireVars, nodeVars, moves>>

\* The mutex, when nobody has it; whoever waits for it takes it later.
Takes(a) == pc[a] = "lock" /\ owner[mine[a]] = NoConn

\* The mutex, and connections_node_getActiveNodeConnection.
Look(t) ==
    /\ t \in Thread /\ Takes(t)
    /\ IF active = NoConn THEN Unlock(t, "idle")
       ELSE /\ owner' = [owner EXCEPT ![mine[t]] = t] /\ conn' = [conn EXCEPT ![t] = active]
            /\ Goto(t, "command") /\ UNCHANGED <<mine, op>>
    /\ UNCHANGED <<dictVars, mutex, made, strayed, acc, up, wireVars, nodeVars, moves>>

\* The command.  The error of a get is not looked at: `0 > SOCKET_ERROR_NONE`.
SendCommand(t) ==
    /\ pc[t] = "command" /\ Uses(t)
    /\ \E s \in Socket(t) :
         \/ /\ Sends(s, Command(t)) \/ Loses(s)
            /\ Goto(t, IF op[t].kind = "set" THEN "data" ELSE "await")
         \/ Loses(s) /\ op[t].kind = "set" /\ Goto(t, "drop")
    /\ UNCHANGED <<dictVars, mutexVars, conn, op, acc, up, toFs, nodeVars, moves>>

\* The data, in another packet: nothing is waited for.
SendData(t) ==
    /\ pc[t] = "data" /\ Uses(t)
    /\ \E s \in Socket(t) :
         \/ (Sends(s, Data(t)) \/ Loses(s)) /\ Unlock(t, "idle")
         \/ Loses(s) /\ Goto(t, "drop") /\ UNCHANGED <<mine, owner, conn, op>>
    /\ UNCHANGED <<dictVars, mutex, made, acc, up, toFs, nodeVars, moves>>

\* A mutant of Await: it waits for a time.
AwaitAWhile(t) ==
    /\ pc[t] = "await" /\ Uses(t) /\ Unlock(t, "idle")
    /\ \E s \in Socket(t) :
         \/ s \in Conn /\ toFs[s] # <<>> /\ toFs' = [toFs EXCEPT ![s] = Tail(@)]
         \/ UNCHANGED toFs
    /\ UNCHANGED <<dictVars, mutex, made, acc, up, toNode, nodeVars, moves>>

\* The answer to a get, or the loss of the connection.
Await(t) ==
    /\ pc[t] = "await" /\ Uses(t)
    /\ \E s \in Socket(t) :
         \/ /\ s \in Conn /\ toFs[s] # <<>>
            /\ toFs' = [toFs EXCEPT ![s] = Tail(@)] /\ Unlock(t, "idle")
         \/ s \notin up /\ Goto(t, "drop") /\ UNCHANGED <<mine, owner, conn, op, toFs>>
    /\ UNCHANGED <<dictVars, mutex, made, acc, up, toNode, nodeVars, moves>>

\* A mutant of Drop: the mutex is kept.
DropLocked(a) ==
    /\ pc[a] = "drop" /\ removeActive /\ Goto(a, Gone(a))
    /\ UNCHANGED <<standby, hand, mutexVars, callVars, acc, up, wireVars, nodeVars, moves>>

\* After an error, the connection that is active now is removed.
Drop(a) ==
    /\ pc[a] = "drop" /\ removeActive /\ Unlock(a, Gone(a))
    /\ UNCHANGED <<standby, hand, mutex, made, strayed, acc, up, wireVars, nodeVars, moves>>

----------------------------------------------------------------------------
(* connections_node_checkAlive: every second it looks for a connection of   *)
(* the node, in one dictionary and then in the other, and sends on it.      *)

LookActive(k) ==
    /\ k \in Conn /\ Takes(k)
    /\ owner' = [owner EXCEPT ![mine[k]] = k] /\ conn' = [conn EXCEPT ![k] = active]
    /\ Goto(k, IF active = NoConn THEN "look" ELSE "probe")
    /\ UNCHANGED <<dictVars, mutex, made, mine, op, strayed, acc, up, wireVars, nodeVars, moves>>

LookStandby(k) ==
    /\ pc[k] = "look"
    /\ IF standby = NoConn THEN Unlock(k, "off")
       ELSE conn' = [conn EXCEPT ![k] = standby] /\ Goto(k, "probe") /\ UNCHANGED <<mine, owner, op>>
    /\ UNCHANGED <<dictVars, mutex, made, strayed, acc, up, wireVars, nodeVars, moves>>

Probes(k) ==
    /\ k \in Conn /\ pc[k] = "probe" /\ Uses(k)
    /\ UNCHANGED <<dictVars, mutex, made, acc, up, toFs, nodeVars, moves>>

Probe(k) ==
    /\ Probes(k) /\ Unlock(k, "lock")
    /\ \E s \in Socket(k) : Sends(s, Alive) \/ Loses(s)

\* A mutant of ProbeFails: the error is not looked at.
ProbeAgain(k) == Probes(k) /\ (\E s \in Socket(k) : Loses(s)) /\ Unlock(k, "lock")

ProbeFails(k) ==
    /\ Probes(k) /\ Goto(k, "drop")
    /\ \E s \in Socket(k) : Loses(s)
    /\ UNCHANGED <<mine, owner, conn, op>>

----------------------------------------------------------------------------
(* connections_node_accept, a thread per connection.                       *)

Accepts == UNCHANGED <<hand, mutex, made, owner, callVars, up, wireVars, nodeVars, moves>>

\* A mutant of RecvHello: the old connection is freed where it is.
FreeOld(c) ==
    /\ Accepts /\ acc[c] = "hello" /\ FreeConn(active)
    /\ acc' = [acc EXCEPT ![c] = "put"]
    /\ UNCHANGED <<active, standby, pc, mine>>

\* The description the node sends; then connections_node_setAcceptedNodeConnection, in
\* two critical sections.
RecvHello(c) ==
    /\ Accepts /\ acc[c] = "hello" /\ removeActive
    /\ acc' = [acc EXCEPT ![c] = "put"]
    /\ UNCHANGED <<standby, pc, mine>>

\* Or the connection is lost before.
HelloLost(c) ==
    /\ Accepts /\ acc[c] = "hello" /\ c \notin up
    /\ acc' = [acc EXCEPT ![c] = "done"]
    /\ UNCHANGED <<active, standby, freed, pc, mine>>

PutAccepted(c) ==
    /\ Accepts /\ acc[c] = "put"
    /\ FreeConn(standby) /\ standby' = c
    /\ acc' = [acc EXCEPT ![c] = "add"]
    /\ UNCHANGED <<active, pc, mine>>

\* The node has got its document (BlockStore), and its connection gets a checker.
StartChecker(c) ==
    /\ Accepts /\ acc[c] = "add" /\ GetMutex(c)
    /\ acc' = [acc EXCEPT ![c] = "done"]
    /\ UNCHANGED <<active, standby, freed>>

----------------------------------------------------------------------------
(* enablen and disablen: out of a dictionary, then into the other, where it *)
(* takes the place of what is there.                                        *)

Moves == UNCHANGED <<freed, mutexVars, callVars, acc, up, wireVars, nodeVars>>

Enable ==
    /\ Moves /\ pc["console"] = "idle" /\ moves > 0 /\ standby # NoConn
    /\ hand' = standby /\ standby' = NoConn /\ moves' = moves - 1
    /\ Goto("console", "enable") /\ UNCHANGED active

activateNode ==
    /\ Moves /\ pc["console"] = "enable"
    /\ active' = hand /\ hand' = NoConn /\ Goto("console", "idle")
    /\ UNCHANGED <<standby, moves>>

Disable ==
    /\ Moves /\ pc["console"] = "idle" /\ moves > 0 /\ active # NoConn
    /\ hand' = active /\ active' = NoConn /\ moves' = moves - 1
    /\ Goto("console", "disable") /\ UNCHANGED standby

deactivateNode ==
    /\ Moves /\ pc["console"] = "disable"
    /\ standby' = hand /\ hand' = NoConn /\ Goto("console", "idle")
    /\ UNCHANGED <<active, moves>>

----------------------------------------------------------------------------
(* The node: the thread of connections_fs_connect, and its blocks.         *)

Node == UNCHANGED <<dictVars, mutexVars, pc, callVars, moves>>

\* It connects, and says what it is.
NodeConnects ==
    /\ Node /\ link = NoConn /\ Used # Conn
    /\ LET c == CHOOSE d \in Conn : d \notin Used
       IN  /\ link' = c /\ up' = up \cup {c}
           /\ acc' = [acc EXCEPT ![c] = "hello"]
    /\ UNCHANGED <<wireVars, want, disk>>

\* node_setBlockFromPacket: the next packet, whatever it is, is the block.
StoreNext(p) ==
    /\ disk' = [disk EXCEPT ![want] = IF p.kind = "data" THEN p.block ELSE "junk"]
    /\ want' = NoBlock /\ UNCHANGED toFs

\* connections_fs_listenActions.  The data of a block read as a command is an invalid
\* one: no text begins with a character below 5.
Obey(p) ==
    /\ UNCHANGED disk
    /\ want' = IF p.kind = "set" THEN p.block ELSE NoBlock
    /\ toFs' = IF p.kind = "get" THEN [toFs EXCEPT ![link] = Append(@, p.block)] ELSE toFs

NodeReads ==
    /\ Node /\ link # NoConn /\ toNode[link] # <<>>
    /\ LET p == Head(toNode[link]) IN IF want = NoBlock THEN Obey(p) ELSE StoreNext(p)
    /\ toNode' = [toNode EXCEPT ![link] = Tail(@)]
    /\ UNCHANGED <<link, acc, up>>

\* A mutant of NodeLoses: the block that was waited for is waited for again.
NodeForgets ==
    /\ Node /\ link # NoConn /\ link \notin up
    /\ link' = NoConn /\ toNode' = [toNode EXCEPT ![link] = <<>>]
    /\ UNCHANGED <<toFs, want, disk, acc, up>>

\* The receive fails, and the block that was to come is ended where the packet ends.
NodeLoses ==
    /\ Node /\ link # NoConn /\ link \notin up
    /\ link' = NoConn /\ toNode' = [toNode EXCEPT ![link] = <<>>]
    /\ IF want = NoBlock THEN UNCHANGED disk ELSE disk' = [disk EXCEPT ![want] = "cut"]
    /\ want' = NoBlock
    /\ UNCHANGED <<toFs, acc, up>>

\* A connection breaks; what is on its way may still arrive.
Breaks(c) ==
    /\ c \in up /\ up' = up \ {c}
    /\ UNCHANGED <<dictVars, mutexVars, pc, callVars, acc, wireVars, nodeVars, moves>>

----------------------------------------------------------------------------
Exchange(t) ==
    \/ MakeMutex(t) \/ Look(t)
    \/ SendCommand(t) \/ SendData(t) \/ Await(t) \/ Drop(t)
Check(k) ==
    \/ MakeMutex(k) \/ LookActive(k) \/ LookStandby(k)
    \/ Probe(k) \/ ProbeFails(k) \/ Drop(k)
Accept(c) == RecvHello(c) \/ HelloLost(c) \/ PutAccepted(c) \/ StartChecker(c)
Move == Enable \/ activateNode \/ Disable \/ deactivateNode
NodeThread == NodeConnects \/ NodeReads \/ NodeLoses

Next ==
    \/ \E t \in Thread :
         Exchange(t) \/ \E kind \in {"set", "get"}, b \in Block : Begin(t, kind, b)
    \/ \E c \in Conn : Check(c) \/ Accept(c) \/ Breaks(c)
    \/ Move \/ NodeThread

\* Every thread runs, and none waits for a mutex for ever while others get it; the loss
\* of a connection, probed again and again, is noticed.
Spec ==
    /\ Init /\ [][Next]_vars /\ WF_vars(NodeReads \/ NodeLoses)
    /\ WF_vars(activateNode \/ deactivateNode)
    /\ SF_vars(\E c \in Conn : ProbeFails(c))
    /\ \A t \in Thread : SF_vars(Exchange(t))
    /\ \A c \in Conn : SF_vars(Check(c))

----------------------------------------------------------------------------
(* Properties. *)

\* A node_connection_t has one owner: a dictionary, the other, the console that
\* moves it, or none; so it is freed once and nobody finds it afterwards.
FreedAreForgotten ==
    /\ \A c \in Conn : c \in {active, standby, hand} => c \notin freed
    /\ active # NoConn => active \notin {standby, hand}
    /\ standby # NoConn => standby # hand

\* The mutex of a node was made twice: two threads looked for it before either put
\* its own in nodesMutex.
TwoMutexes == made > 1

\* Where the runs stop: the behaviours after either go on in the theorems only.
Followed == ~TwoMutexes /\ ~strayed

\* A block holds data meant for it, or the part of it that came before the connection
\* was lost: a set and its data go together, unless there are two mutexes or a
\* connection that was freed is used.
BlocksKeepTheirData ==
    Followed => \A b \in Block : disk[b] \in {b, "old", "cut"}

\* An answer on a connection that works is for the thread that waits on it: none is
\* left for the next one to take for its own.
AnswersAreAwaited ==
    Followed => \A c \in up : toFs[c] # <<>> =>
        \E t \in Thread : pc[t] = "await" /\ conn[t] = c /\ toFs[c] = <<op[t].block>>

\* However the node fails, a thread is always done again with its exchange: none keeps
\* the mutex of the node, or waits for it for ever.
EveryExchangeEnds ==
    \A t \in Thread : []<>(pc[t] = "idle" \/ ~Followed)

\* A broken connection does not stay active while a checker runs.
Checked == \E k \in Conn : pc[k] # "off"
BrokenIsNoticed ==
    []<>(active \in up \cup {NoConn} \/ ~Checked \/ ~Followed)
=============================================================================
