---------------------------- MODULE FSLink_proofs ----------------------------
(***************************************************************************)
(* Proofs about FSLink, for any number of jobs, connections and breaks:    *)
(* its types, that one job at a time uses the socket, and that what the    *)
(* jobs see is FSService as long as martaSocket is not taken by two        *)
(* connections.                                                            *)
(***************************************************************************)
EXTENDS FSLink, TLAPS

Found == Service!Result("blocks") \cup Service!Result("copy")

\* The variables that TypeOK leaves out, and what a thread has at each place: a
\* request when it is asking, working or answering, a result when it answers.
Local ==
    /\ answer \in [Job -> Found \cup {"no"}] /\ results \in [Job -> SUBSET Found]
    /\ lres \in [Conn -> Found \cup {"no"}]
    /\ \A j \in Job : asks[j] = "no" <=> pc[j] = "idle"
    /\ \A l \in Conn : lpc[l] \in {"work", "answer"} => lreq[l] \in Request
    /\ \A l \in Conn : lpc[l] = "answer" => lres[l] \in Found

\* MFileSystem: one job at most is past its lock.
Waits(j) == pc[j] \in {"idle", "lock"}
OneHolder == \A i, j \in Job : i = j \/ Waits(i) \/ Waits(j)

Types == TypeOK /\ Local /\ OneHolder

\* The operators on sequences that the channels need.
LEMMA Channels ==
    ASSUME NEW S, NEW q \in Seq(S)
    PROVE  /\ \A e \in S : Append(q, e) \in Seq(S)
           /\ q # <<>> => Head(q) \in S /\ Tail(q) \in Seq(S)
           /\ <<>> \in Seq(S)
  BY SMT

\* A channel with one packet.
LEMMA OnePacket ==
    ASSUME NEW S, NEW e \in S
    PROVE  /\ Append(<<>>, e) = <<e>> /\ <<e>> # <<>>
           /\ Head(<<e>>) = e /\ Tail(<<e>>) = <<>>
  BY SMT

\* What is asked and what is found.
LEMMA Kinds ==
    /\ Kind = {"blocks", "copy"} /\ Found = {"blocks", "unavailable", "copied", "failed"}
    /\ \A kind \in Kind : Service!Result(kind) \subseteq Found
  BY DEF Kind, Service!Kind, Found, Service!Result

----------------------------------------------------------------------------
\* Before anything is asked.
LEMMA InitTypes == ASSUME Init PROVE Types
  <1>1. fsSocket \in Conn
    BY FSLinkAssumption DEF Init
  <1>2. TypeOK
    <2>1. /\ toFs \in [Conn -> Seq(Request)] /\ toMarta \in [Conn -> Seq(Answer)]
      BY SMT DEF Init
    <2> QED
      BY <1>1, <2>1, FSLinkAssumption DEF Init, TypeOK
  <1>3. Local
    BY DEF Init, Local
  <1> QED
    BY <1>2, <1>3 DEF Init, Types, OneHolder, Waits

\* The job that holds the mutex may go anywhere, and another only into the queue.
LEMMA OthersWait ==
    ASSUME OneHolder, TypeOK, NEW j \in Job, NEW label, Goto(j, label),
           ~Waits(j) \/ label \in {"idle", "lock"}
    PROVE  OneHolder'
  BY DEF OneHolder, Waits, Goto, TypeOK

\* The steps of a job.
LEMMA MartaTypes ==
    ASSUME Types, NEW j \in Job,
           (\E kind \in Kind : Ask(j, kind)) \/ Lock(j) \/ JobStep(j)
    PROVE  Types'
  <1> USE FSLinkAssumption DEF Types
  <1>0. /\ toFs \in [Conn -> Seq(Request)] /\ toMarta \in [Conn -> Seq(Answer)]
    BY DEF TypeOK
  <1>1. CASE \E kind \in Kind : Ask(j, kind)
    <2>1. PICK kind \in Kind : Ask(j, kind)
      BY <1>1
    <2>2. TypeOK' /\ Local'
      BY <2>1, Kinds DEF Ask, Goto, Marta, TypeOK, Local, listenVars, wireVars
    <2> QED BY <1>0, <2>1, <2>2, OthersWait DEF Ask
  <1>2. CASE Lock(j)
    <2>1. TypeOK' /\ Local'
      BY <1>2 DEF Lock, Goto, Marta, TypeOK, Local, listenVars, wireVars
    <2>2. OneHolder'
      BY <1>0, <1>2 DEF Lock, Goto, OneHolder, Waits
    <2> QED BY <2>1, <2>2
  <1>3. CASE Send(j)
    <2>1. [job |-> j, kind |-> asks[j]] \in Request
      BY <1>3, Kinds DEF Send, TypeOK, Local, Request
    <2>2. toFs' \in [Conn -> Seq(Request)]
      BY <1>0, <1>3, <2>1, Channels DEF Send
    <2>3. TypeOK' /\ Local'
      BY <1>3, <2>2 DEF Send, Goto, Marta, TypeOK, Local, listenVars
    <2> QED BY <1>0, <1>3, <2>3, OthersWait DEF Send, Waits
  <1>4. CASE SendFails(j) \/ RecvFails(j)
    <2>1. PICK label \in {"sendAgain", "recvAgain"} :
              /\ Lost(j, label) /\ Marta /\ pc[j] \in {"send", "recv", "strand"}
      BY <1>4 DEF SendFails, RecvFails
    <2>2. TypeOK' /\ Local'
      BY <2>1 DEF Lost, Close, Goto, Marta, TypeOK, Local, listenVars
    <2> QED BY <1>0, <2>1, <2>2, OthersWait DEF Lost, Waits
  <1>5. CASE Recv(j)
    <2>1. /\ Head(toMarta[fsSocket]) \in Answer
          /\ toMarta' \in [Conn -> Seq(Answer)]
      BY <1>0, <1>5, Channels DEF Recv, TypeOK
    <2>2. Head(toMarta[fsSocket]).result \in Found
      BY <2>1 DEF Answer, Found
    <2>3. TypeOK'
      BY <1>5, <2>1 DEF Recv, Goto, Marta, TypeOK, listenVars
    <2>4. Local'
      BY <1>5, <2>2 DEF Recv, Goto, Marta, TypeOK, Local, listenVars
    <2> QED BY <1>0, <1>5, <2>3, <2>4, OthersWait DEF Recv, Waits
  <1>6. CASE Reconnect(j)
    <2>1. (CHOOSE d \in Conn : Forgotten(d)) \in Conn
      BY <1>6 DEF Reconnect
    <2>2. toFs' \in [Conn -> Seq(Request)] /\ toMarta' \in [Conn -> Seq(Answer)]
      BY <1>0, <1>6, <2>1, Channels DEF Reconnect
    <2>3. TypeOK'
      BY <1>6, <2>1, <2>2 DEF Reconnect, Goto, TypeOK, listenVars
    <2>4. Local'
      BY <1>6 DEF Reconnect, Goto, TypeOK, Local, listenVars
    <2> QED BY <1>0, <1>6, <2>3, <2>4, OthersWait DEF Reconnect, Waits
  <1> QED
    BY <1>1, <1>2, <1>3, <1>4, <1>5, <1>6 DEF JobStep

\* A thread that listens, at its next place.
LEMMA ListenerLocal ==
    ASSUME Local, NEW c \in Conn, UNCHANGED <<pc, asks, answer>>,
           results' \in [Job -> SUBSET Found], lres' \in [Conn -> Found \cup {"no"}],
           \A l \in Conn \ {c} : lpc'[l] = lpc[l] /\ lreq'[l] = lreq[l] /\ lres'[l] = lres[l],
           lpc'[c] \in {"work", "answer"} => lreq'[c] \in Request,
           lpc'[c] = "answer" => lres'[c] \in Found
    PROVE  Local'
  BY DEF Local

\* The steps of the file system, and a connection that breaks.
LEMMA FileSystemTypes ==
    ASSUME Types, NEW c \in Conn, UNCHANGED pc,
           TooFewNodes(c) \/ Admit(c) \/ Acceptor(c) \/ Listener(c) \/ Breaks(c)
    PROVE  Types'
  <1> USE FSLinkAssumption DEF Types
  <1>0. /\ toFs \in [Conn -> Seq(Request)] /\ toMarta \in [Conn -> Seq(Answer)]
        /\ OneHolder'
    BY DEF TypeOK, OneHolder, Waits
  <1>1. CASE TooFewNodes(c) \/ Admit(c) \/ Acceptor(c)
    <2> USE DEF TooFewNodes, Admit, Acceptor, Refuse, Accept, SetMarta, Accepts, Close, TypeOK,
                martaVars
    <2>1. CASE SetMarta(c)
      <3>1. TypeOK'
        BY <2>1
      <3> QED BY <1>0, <2>1, <3>1 DEF Local
    <2>2. CASE ~SetMarta(c)
      <3>1. /\ \E place \in {"no", "check", "set"} : acc' = [acc EXCEPT ![c] = place]
            /\ up' \in {up, up \ {c}}
            /\ UNCHANGED <<asks, answer, fsSocket, pc, toFs, toMarta, results, breaks>>
            /\ UNCHANGED <<martaSocket, twice, lpc, lsock, lreq, lres>>
        BY <1>1, <2>2
      <3>2. TypeOK'
        BY <3>1 DEF TypeOK
      <3> QED BY <1>0, <3>1, <3>2 DEF Local
    <2> QED BY <2>1, <2>2
  <1>2. CASE Listen(c)
    <2>1. /\ Head(toFs[lsock[c]]) \in Request /\ toFs' \in [Conn -> Seq(Request)]
      BY <1>0, <1>2, Channels DEF Listen, TypeOK
    <2>2. TypeOK'
      BY <1>2, <2>1 DEF Listen, Listens, TypeOK, martaVars
    <2> QED
      BY <1>0, <1>2, <2>1, <2>2 DEF Listen, Listens, TypeOK, Local, martaVars
  <1>3. CASE Work(c)
    <2>1. PICK r \in Service!Result(lreq[c].kind) :
              /\ lres' = [lres EXCEPT ![c] = r]
              /\ results' = IF asks[lreq[c].job] # lreq[c].kind THEN results
                            ELSE [results EXCEPT ![lreq[c].job] = @ \cup {r}]
      BY <1>3 DEF Work
    <2>2. lreq[c] \in Request /\ r \in Found
      BY <1>3, <2>1, Kinds DEF Work, Local, Request
    <2>3. TypeOK'
      BY <1>3 DEF Work, Listens, TypeOK, martaVars, wireVars
    <2>4. results' \in [Job -> SUBSET Found]
      BY <2>1, <2>2 DEF Local, Request
    <2>5. lres' \in [Conn -> Found \cup {"no"}]
      BY <2>1, <2>2 DEF Local
    <2>6. lpc' = [lpc EXCEPT ![c] = "answer"] /\ UNCHANGED <<asks, answer, lreq>>
      BY <1>3 DEF Work, Listens, martaVars
    <2>7. Local'
      BY <2>1, <2>2, <2>4, <2>5, <2>6, ListenerLocal DEF TypeOK, Local
    <2> QED BY <1>0, <2>3, <2>7
  <1>4. CASE SendAnswer(c)
    <2>1. [job |-> lreq[c].job, result |-> lres[c]] \in Answer
      BY <1>4 DEF SendAnswer, Local, Request, Answer, Found
    <2>2. toMarta' \in [Conn -> Seq(Answer)]
      BY <1>0, <1>4, <2>1, Channels DEF SendAnswer, TypeOK
    <2>3. TypeOK'
      BY <1>4, <2>2 DEF SendAnswer, Listens, Again, TypeOK, martaVars
    <2> QED
      BY <1>0, <1>4, <2>3 DEF SendAnswer, Listens, Again, TypeOK, Local, martaVars
  <1>5. CASE AnswerFails(c) \/ ListenFails(c)
    <2>1. /\ End(c) \/ (Again(c) /\ UNCHANGED <<up, martaSocket>>)
          /\ UNCHANGED <<pc, asks, answer, fsSocket, acc, breaks, toFs, toMarta, results>>
      BY <1>5 DEF AnswerFails, ListenFails, Listens, martaVars
    <2>2. TypeOK'
      <3>1. /\ lreq' \in [Conn -> Request \cup {NoRequest}]
            /\ lsock' \in [Conn -> Conn \cup {NoConn}]
            /\ lpc' \in [Conn -> {"off", "recv", "work", "answer"}]
        <4>1. /\ lreq' = [lreq EXCEPT ![c] = NoRequest]
              /\ \E s \in Conn \cup {NoConn} : lsock' = [lsock EXCEPT ![c] = s]
              /\ \E place \in {"off", "recv"} : lpc' = [lpc EXCEPT ![c] = place]
          BY <2>1 DEF End, Again, TypeOK
        <4> QED BY <4>1 DEF TypeOK
      <3>2. up' \subseteq Conn /\ martaSocket' \in Conn \cup {NoConn}
        BY <2>1 DEF End, Close, TypeOK
      <3> QED BY <2>1, <3>1, <3>2 DEF TypeOK
    <2>3. /\ \E place \in {"off", "recv"} : lpc' = [lpc EXCEPT ![c] = place]
          /\ lreq' = [lreq EXCEPT ![c] = NoRequest]
          /\ lres' = [lres EXCEPT ![c] = "no"]
      BY <2>1 DEF End, Again
    <2>4. lres' \in [Conn -> Found \cup {"no"}] /\ results' \in [Job -> SUBSET Found]
      BY <2>1, <2>3 DEF Local
    <2>5. Local'
      BY <2>1, <2>3, <2>4, ListenerLocal DEF TypeOK, Local
    <2> QED BY <1>0, <2>2, <2>5
  <1>6. CASE Breaks(c)
    BY <1>0, <1>6 DEF Breaks, Close, TypeOK, Local, martaVars, listenVars
  <1> QED
    BY <1>1, <1>2, <1>3, <1>4, <1>5, <1>6 DEF Listener

\* So the types are kept.
LEMMA StepTypes == Types /\ [Next]_vars => Types'
  <1> SUFFICES ASSUME Types, [Next]_vars PROVE Types'
    OBVIOUS
  <1>1. CASE UNCHANGED vars
    BY <1>1 DEF Types, TypeOK, Local, OneHolder, Waits, vars, martaVars, wireVars, listenVars
  <1>2. ASSUME NEW c \in Conn,
               TooFewNodes(c) \/ Admit(c) \/ Acceptor(c) \/ Listener(c) \/ Breaks(c)
        PROVE  Types'
    <2>1. UNCHANGED pc
      BY <1>2 DEF TooFewNodes, Admit, Acceptor, Listener, Breaks, Refuse, Accept, SetMarta,
                  Listen, Work, SendAnswer, AnswerFails, ListenFails, Accepts, Listens,
                  martaVars
    <2> QED BY <1>2, <2>1, FileSystemTypes
  <1> QED
    BY <1>1, <1>2, MartaTypes DEF Next

\* Every variable has its type, and one job at a time is between its lock of
\* MFileSystem and its answer.
THEOREM TypeCorrect == Spec => [](TypeOK /\ OneHolder)
  BY InitTypes, StepTypes, PTL DEF Spec, Types

----------------------------------------------------------------------------
(* The refinement. *)

\* What is on its way on a connection while no job waits on it, and where its thread is.
Reads(c) == lpc[c] \in {"off", "recv"}
Quiet(c) == toFs[c] = <<>> /\ toMarta[c] = <<>> /\ Reads(c)

\* While a job does: its request, then the thread that has it, then a result found for
\* it, or nothing when something of this was lost.
AskOf(j) == [job |-> j, kind |-> asks[j]]
Asked(c, j)     == toFs[c] = <<AskOf(j)>> /\ toMarta[c] = <<>> /\ Reads(c)
Served(c, j)    == /\ toFs[c] = <<>> /\ toMarta[c] = <<>> /\ lreq[c] = AskOf(j)
                   /\ lpc[c] = "work" \/ (lpc[c] = "answer" /\ lres[c] \in results[j])
Answered(c, j)  == /\ toFs[c] = <<>> /\ Reads(c)
                   /\ \E p \in Answer : toMarta[c] = <<p>> /\ p.result \in results[j]
Lone(c, j) == Quiet(c) \/ Asked(c, j) \/ Served(c, j) \/ Answered(c, j)

\* MaRTA's socket.
Wire ==
    fsSocket # NoConn =>
        /\ \A j \in Job : pc[j] = "recv" => Lone(fsSocket, j)
        /\ (\A j \in Job : pc[j] # "recv") => Quiet(fsSocket)

\* The thread that listens is that of the connection in martaSocket.
OneListener == \A l \in Conn : lpc[l] # "off" => martaSocket = l /\ lsock[l] = l

\* A request on its way is alone, and its listener has no other.
OneRequest == \A c \in Conn : toFs[c] = <<>> \/ (Reads(c) /\ \E r \in Request : toFs[c] = <<r>>)

\* The file system has not stored the file of a copy that is in the queue or at work,
\* and there is one such copy at most: it was not asked for again.
CopyOf(j) == [job |-> j, kind |-> "copy"]
Held == [j \in Job |-> {c \in Conn : \/ toFs[c] = <<CopyOf(j)>>
                                     \/ lpc[c] = "work" /\ lreq[c] = CopyOf(j)}]
NotStored == \A j \in Job : \A c \in Held[j] :
                asks[j] = "copy" /\ pc[j] \in {"recv", "recvAgain", "strand"} /\ results[j] = {}
OneCopy == \A j \in Job : \A c, d \in Held[j] : c = d
NoResult == \A j \in Job : asks[j] \in {"copy", "no"} /\ pc[j] \in {"idle", "lock", "send", "sendAgain"}
                              => results[j] = {}
Copies == NotStored /\ OneCopy /\ NoResult

Link == Wire /\ OneListener /\ OneRequest /\ Copies

\* The first connection is quiet.
LEMMA InitLink == ASSUME Init PROVE Link
  <1>1. fsSocket \in Conn
    BY FSLinkAssumption DEF Init
  <1> QED
    BY <1>1 DEF Init, Link, Wire, Quiet, Reads, OneListener, OneRequest, Copies, NotStored, OneCopy,
                    NoResult, Held

\* What Link is about, and what it does not see.
linkVars == <<pc, asks, results, fsSocket, toFs, toMarta, martaSocket, lpc, lsock, lreq, lres>>

\* A step that changes nothing of this keeps it.
LEMMA LinkStays == ASSUME Link, UNCHANGED linkVars PROVE Link'
  BY DEF linkVars, Link, Wire, Lone, Quiet, Asked, Served, Answered, AskOf, Reads, OneListener,
         OneRequest, Copies, NotStored, OneCopy, NoResult, Held, CopyOf

\* The steps of a job keep Link.
LEMMA MartaLink ==
    ASSUME Types, Link, NEW j \in Job,
           (\E kind \in Kind : Ask(j, kind)) \/ Lock(j) \/ JobStep(j)
    PROVE  Link'
  <1>0. /\ toFs \in [Conn -> Seq(Request)] /\ toMarta \in [Conn -> Seq(Answer)]
        /\ OneHolder /\ pc \in [Job -> {"idle", "lock", "send", "recv", "sendAgain", "recvAgain",
                                        "strand"}]
        /\ asks \in [Job -> Kind \cup {"no"}] /\ results \in [Job -> SUBSET Found]
    BY DEF Types, TypeOK, Local
  <1>p. pc \in [Job -> {"idle", "lock", "send", "recv", "sendAgain", "recvAgain", "strand"}]
    BY DEF Types, TypeOK
  <1>a. TypeOK /\ Local /\ Wire /\ OneListener /\ OneRequest /\ NotStored /\ OneCopy /\ NoResult
    BY DEF Types, Link, Copies
  <1>b. SUFFICES Wire' /\ OneListener' /\ OneRequest' /\ NotStored' /\ OneCopy' /\ NoResult'
    BY DEF Link, Copies
  <1>1. CASE (\E kind \in Kind : Ask(j, kind)) \/ Lock(j)
    <2>1. /\ pc[j] \in {"idle", "lock"} /\ \E label \in {"lock", "send"} : Goto(j, label)
          /\ \A i \in Job \ {j} : asks'[i] = asks[i]
          /\ asks'[j] = asks[j] \/ (asks[j] = "no" /\ pc[j] = "idle" /\ pc'[j] = "lock")
          /\ UNCHANGED <<results, fsSocket, toFs, toMarta, martaSocket, lpc, lsock, lreq, lres>>
      BY <1>0, <1>a, <1>1 DEF Ask, Lock, Goto, Marta, Local, listenVars, wireVars
    <2>2. Wire'
      BY <1>0, <1>a, <2>1 DEF Goto, Wire, Lone, Quiet, Asked, Served, Answered, AskOf, Reads
    <2>3. NotStored' /\ OneCopy' /\ NoResult'
      BY <1>0, <1>a, <2>1 DEF Goto, NotStored, OneCopy, NoResult, Held, CopyOf
    <2> QED
      BY <1>a, <2>1, <2>2, <2>3 DEF OneListener, OneRequest, Reads
  <1>2. CASE Send(j)
    <2>1. Quiet(fsSocket) /\ fsSocket \in Conn /\ AskOf(j) \in Request
      <3>1. fsSocket \in Conn /\ pc[j] = "send"
        BY <1>a, <1>2 DEF Send, TypeOK
      <3>2. \A i \in Job : pc[i] # "recv"
        BY <1>0, <1>a, <3>1 DEF OneHolder, Waits
      <3>3. asks[j] \in Kind
        BY <1>a, <3>1 DEF TypeOK, Local
      <3> QED BY <1>a, <3>1, <3>2, <3>3, FSLinkAssumption DEF Wire, AskOf, Request
    <2>2. Append(<<>>, AskOf(j)) = <<AskOf(j)>>
      BY <2>1, OnePacket
    <2>3. /\ Goto(j, "recv") /\ pc[j] = "send"
          /\ toFs' = toFs \/ toFs' = [toFs EXCEPT ![fsSocket] = <<AskOf(j)>>]
          /\ UNCHANGED <<asks, results, fsSocket, toMarta, martaSocket, lpc, lsock, lreq, lres>>
      BY <1>2, <2>1, <2>2 DEF Send, Marta, Quiet, AskOf, listenVars
    <2>4. Lone(fsSocket, j)'
      BY <1>0, <1>a, <2>1, <2>3 DEF Lone, Quiet, Asked, AskOf, Reads
    <2>5. Wire'
      BY <1>0, <1>a, <2>3, <2>4 DEF Wire, Goto, OneHolder, Waits
    <2>6. OneRequest' /\ OneListener'
      BY <1>0, <1>a, <2>1, <2>3 DEF OneRequest, OneListener, Quiet, Reads
    <2>7. /\ \A i \in Job \ {j} : \A c \in Held'[i] : c \in Held[i]
          /\ \A c \in Held'[j] : asks[j] = "copy" /\ c = fsSocket
      <3>1. \A c \in Held[j] : FALSE
        BY <1>a, <2>3 DEF NotStored
      <3>2. ASSUME NEW i \in Job, NEW c \in Held'[i]
            PROVE  c \in Held[i] \/ (c = fsSocket /\ <<CopyOf(i)>> = <<AskOf(j)>>)
        BY <1>0, <1>a, <2>3, <3>2 DEF Held, CopyOf
      <3>3. ASSUME NEW i \in Job, <<CopyOf(i)>> = <<AskOf(j)>>
            PROVE  i = j /\ asks[j] = "copy"
        BY <3>3 DEF CopyOf, AskOf
      <3> QED BY <3>1, <3>2, <3>3
    <2>8. NotStored' /\ OneCopy' /\ NoResult'
      <3>1. NotStored'
        BY <1>p, <1>a, <2>3, <2>7 DEF Goto, NotStored, NoResult
      <3>2. OneCopy'
        BY <1>a, <2>3, <2>7 DEF OneCopy
      <3>3. NoResult'
        BY <1>p, <1>a, <2>3, <2>7 DEF Goto, NoResult
      <3> QED BY <3>1, <3>2, <3>3
    <2> QED
      BY <2>5, <2>6, <2>8
  <1>3. CASE SendFails(j) \/ RecvFails(j)
    <2>1. /\ fsSocket' = NoConn
          /\ UNCHANGED <<asks, results, toFs, toMarta, martaSocket, lpc, lsock, lreq, lres>>
      BY <1>3 DEF SendFails, RecvFails, Lost, Marta, listenVars
    <2>2. Wire' /\ OneRequest' /\ OneListener'
      BY <1>a, <2>1 DEF Wire, OneRequest, OneListener, Reads
    <2>3. \/ pc[j] = "send" /\ Goto(j, "sendAgain")
          \/ pc[j] \in {"recv", "strand"} /\ asks[j] = "blocks" /\ Goto(j, "sendAgain")
          \/ pc[j] \in {"recv", "strand"} /\ asks[j] # "blocks" /\ Goto(j, "recvAgain")
      BY <1>3 DEF SendFails, RecvFails, Lost
    <2>4. Held' = Held
      BY <2>1 DEF Held, CopyOf
    <2>5. /\ \A i \in Job \ {j} : pc'[i] = pc[i]
          /\ pc'[j] \in {"sendAgain", "recvAgain"} /\ pc[j] \in {"send", "recv", "strand"}
          /\ asks[j] # "blocks" /\ pc[j] # "send" => pc'[j] = "recvAgain"
          /\ pc'[j] = "sendAgain" => pc[j] = "send" \/ asks[j] = "blocks"
      BY <1>p, <2>3 DEF Goto
    <2>6. NotStored' /\ OneCopy'
      BY <1>a, <2>1, <2>4, <2>5 DEF NotStored, OneCopy
    <2>7. NoResult'
      BY <1>a, <2>1, <2>5 DEF NoResult
    <2> QED BY <2>2, <2>6, <2>7
  <1>4. CASE Recv(j)
    <2>1. fsSocket \in Conn /\ toMarta[fsSocket] # <<>>
      BY <1>4, <1>a DEF Recv, TypeOK
    <2>2. pc[j] = "recv" /\ Answered(fsSocket, j)
      BY <1>0, <1>a, <1>4, <2>1 DEF Recv, Wire, Lone, Quiet, Asked, Served, OneHolder, Waits
    <2>3. PICK p \in Answer : toMarta[fsSocket] = <<p>> /\ p.result \in results[j]
      BY <2>2 DEF Answered
    <2>4. toMarta' = [toMarta EXCEPT ![fsSocket] = <<>>]
      BY <1>4, <2>3, OnePacket DEF Recv
    <2>5. /\ Goto(j, "idle") /\ asks' = [asks EXCEPT ![j] = "no"]
          /\ results' = [results EXCEPT ![j] = {}]
          /\ UNCHANGED <<fsSocket, toFs, martaSocket, lpc, lsock, lreq, lres>>
      BY <1>4 DEF Recv, Marta, listenVars
    <2>6. Quiet(fsSocket)'
      BY <1>0, <1>a, <2>1, <2>2, <2>4, <2>5 DEF Quiet, Answered, Reads
    <2>7. Wire'
      BY <1>0, <1>a, <2>2, <2>5, <2>6 DEF Wire, Lone, Goto, OneHolder, Waits
    <2>8. OneRequest' /\ OneListener'
      BY <1>a, <2>5 DEF OneRequest, OneListener, Reads
    <2>9. NotStored' /\ OneCopy' /\ NoResult'
      BY <1>0, <1>a, <2>3, <2>5 DEF Goto, NotStored, OneCopy, NoResult, Held, CopyOf
    <2> QED BY <2>7, <2>8, <2>9
  <1>5. CASE Reconnect(j)
    <2>1. PICK c \in Conn :
            /\ Forgotten(c) /\ fsSocket' = c
            /\ toFs' = [toFs EXCEPT ![c] = <<>>] /\ toMarta' = [toMarta EXCEPT ![c] = <<>>]
      BY <1>5 DEF Reconnect
    <2>2. /\ \/ pc[j] = "sendAgain" /\ Goto(j, "send")
             \/ pc[j] = "recvAgain" /\ Goto(j, "strand")
          /\ UNCHANGED <<asks, results, martaSocket, lpc, lsock, lreq, lres>>
      BY <1>5 DEF Reconnect, Goto, listenVars
    <2>3. Quiet(fsSocket)'
      BY <1>0, <1>a, <2>1, <2>2 DEF Quiet, Reads, Forgotten
    <2>4. Wire'
      BY <1>0, <1>a, <2>2, <2>3 DEF Wire, Lone, Goto, OneHolder, Waits
    <2>5. OneRequest' /\ OneListener'
      BY <1>0, <1>a, <2>1, <2>2 DEF OneRequest, OneListener, Reads
    <2>6. <<CopyOf(j)>> # <<>> /\ \A i \in Job : <<CopyOf(i)>> # <<>>
      OBVIOUS
    <2>7. \A i \in Job : \A d \in Held'[i] : d \in Held[i]
      BY <1>0, <1>a, <2>1, <2>2, <2>6 DEF Held, CopyOf
    <2>8. NotStored' /\ OneCopy' /\ NoResult'
      <3>1. NotStored'
        BY <1>p, <1>a, <2>2, <2>7 DEF Goto, NotStored
      <3>2. OneCopy'
        BY <1>a, <2>2, <2>7 DEF OneCopy
      <3>3. NoResult'
        BY <1>p, <1>a, <2>2, <2>7 DEF Goto, NoResult
      <3> QED BY <3>1, <3>2, <3>3
    <2> QED BY <2>4, <2>5, <2>8
  <1> QED
    BY <1>1, <1>2, <1>3, <1>4, <1>5 DEF JobStep

\* The steps of the file system, while martaSocket is not taken twice.
LEMMA FileSystemLink ==
    ASSUME Types, Link, NEW c \in Conn, ~twice',
           UNCHANGED <<pc, asks, fsSocket>>,
           TooFewNodes(c) \/ Admit(c) \/ Acceptor(c) \/ Listener(c) \/ Breaks(c)
    PROVE  Link'
  <1>0. /\ toFs \in [Conn -> Seq(Request)] /\ toMarta \in [Conn -> Seq(Answer)]
        /\ lpc \in [Conn -> {"off", "recv", "work", "answer"}] /\ DOMAIN lsock = Conn
        /\ DOMAIN lreq = Conn /\ DOMAIN lres = Conn /\ DOMAIN results = Job
    BY DEF Types, TypeOK, Local
  <1>a. Wire /\ OneListener /\ OneRequest /\ NotStored /\ OneCopy /\ NoResult
    BY DEF Link, Copies
  <1>b. SUFFICES Wire' /\ OneListener' /\ OneRequest' /\ NotStored' /\ OneCopy' /\ NoResult'
    BY DEF Link, Copies
  <1>1. CASE TooFewNodes(c) \/ Admit(c) \/ Refuse(c) \/ Accept(c) \/ Breaks(c)
    <2>1. UNCHANGED linkVars
      BY <1>1 DEF TooFewNodes, Admit, Refuse, Accept, Breaks, Accepts, linkVars, martaVars,
                  listenVars
    <2>2. Link'
      BY <2>1, LinkStays
    <2> QED BY <2>2 DEF Link, Copies
  <1>2. CASE SetMarta(c)
    <2>1. \A l \in Conn : lpc[l] = "off"
      BY <1>2, <1>a, FSLinkAssumption DEF SetMarta, OneListener
    <2>2. /\ lpc' = [lpc EXCEPT ![c] = "recv"] /\ lsock' = [lsock EXCEPT ![c] = c]
          /\ martaSocket' = c
          /\ UNCHANGED <<results, toFs, toMarta, lreq, lres>>
      BY <1>2 DEF SetMarta, Accepts
    <2>3. OneListener' /\ OneRequest'
      BY <1>0, <1>a, <2>1, <2>2 DEF OneListener, OneRequest, Reads
    <2>4. Wire'
      BY <1>0, <1>a, <2>1, <2>2 DEF Wire, Lone, Quiet, Asked, Served, Answered, AskOf, Reads
    <2>5. Held' = Held
      BY <1>0, <2>1, <2>2 DEF Held, CopyOf
    <2>6. NotStored' /\ OneCopy' /\ NoResult'
      BY <1>a, <2>2, <2>5 DEF NotStored, OneCopy, NoResult
    <2> QED BY <2>3, <2>4, <2>6
  <1>3. CASE Listen(c)
    <2>1. /\ lsock[c] = c /\ lpc[c] = "recv"
      BY <1>3, <1>a DEF Listen, OneListener
    <2>2. PICK r \in Request : toFs[c] = <<r>>
      BY <1>3, <1>a, <2>1 DEF Listen, OneRequest
    <2>3. /\ toFs' = [toFs EXCEPT ![c] = <<>>] /\ lreq' = [lreq EXCEPT ![c] = r]
          /\ lpc' = [lpc EXCEPT ![c] = "work"]
          /\ UNCHANGED <<toMarta, martaSocket, lsock, lres, results>>
      BY <1>3, <2>1, <2>2, OnePacket DEF Listen
    <2>4. <<r>> # <<>> /\ \A x : <<r>> = <<x>> <=> r = x
      OBVIOUS
    <2>5. OneListener' /\ OneRequest'
      BY <1>0, <1>a, <2>1, <2>3 DEF OneListener, OneRequest, Reads
    <2>6. Wire'
      <3>1. CASE fsSocket = c
        <4>1. ~Quiet(c)
          BY <2>2, <2>4 DEF Quiet
        <4>2. ASSUME NEW j \in Job, Lone(c, j) PROVE Lone(c, j)'
          <5>1. r = AskOf(j) /\ toMarta[c] = <<>>
            BY <2>1, <2>2, <2>4, <4>1, <4>2 DEF Lone, Asked, Served, Answered
          <5>2. toFs'[c] = <<>> /\ lpc'[c] = "work" /\ lreq'[c] = r /\ toMarta'[c] = <<>>
            BY <1>0, <2>3, <5>1
          <5>3. AskOf(j)' = AskOf(j)
            BY DEF AskOf
          <5> QED BY <5>1, <5>2, <5>3 DEF Lone, Served
        <4> QED BY <1>a, <3>1, <4>1, <4>2 DEF Wire
      <3>2. CASE fsSocket # c
        BY <1>0, <1>a, <2>3, <3>2
        DEF Wire, Lone, Quiet, Asked, Served, Answered, AskOf, Reads
      <3> QED BY <3>1, <3>2
    <2>7. \A i \in Job : \A d \in Held'[i] : d \in Held[i]
      BY <1>0, <2>1, <2>2, <2>3, <2>4 DEF Held, CopyOf
    <2>8. NotStored' /\ OneCopy' /\ NoResult'
      <3>1. NotStored' /\ NoResult'
        BY <1>a, <2>3, <2>7 DEF NotStored, NoResult
      <3>2. OneCopy'
        BY <1>a, <2>7 DEF OneCopy
      <3> QED BY <3>1, <3>2
    <2> QED BY <2>5, <2>6, <2>8
  <1>4. CASE Work(c)
    <2>1. lpc[c] = "work" /\ lreq[c] \in Request /\ toFs[c] = <<>>
      BY <1>4, <1>a DEF Work, Types, Local, OneRequest, Reads
    <2>2. PICK r \in Service!Result(lreq[c].kind) :
              /\ lres' = [lres EXCEPT ![c] = r]
              /\ results' = IF asks[lreq[c].job] # lreq[c].kind THEN results
                            ELSE [results EXCEPT ![lreq[c].job] = @ \cup {r}]
      BY <1>4 DEF Work
    <2>3. /\ lpc' = [lpc EXCEPT ![c] = "answer"]
          /\ UNCHANGED <<toFs, toMarta, martaSocket, lsock, lreq>>
      BY <1>4 DEF Work, wireVars
    <2>4. \A j \in Job : /\ results[j] \subseteq results'[j]
                         /\ lreq[c] = AskOf(j) => r \in results'[j]
      BY <1>0, <2>1, <2>2 DEF AskOf, Request
    <2>5. OneListener' /\ OneRequest'
      BY <1>0, <1>a, <2>1, <2>3 DEF OneListener, OneRequest, Reads
    <2>6. ASSUME NEW j \in Job, fsSocket \in Conn, Lone(fsSocket, j)
          PROVE  Lone(fsSocket, j)'
      BY <1>0, <2>1, <2>2, <2>3, <2>4, <2>6
      DEF Lone, Quiet, Asked, Served, Answered, AskOf, Reads
    <2>7. fsSocket \in Conn /\ Quiet(fsSocket) => Quiet(fsSocket)'
      BY <1>0, <2>1, <2>3 DEF Quiet, Reads
    <2>8. Wire'
      BY <1>a, <2>6, <2>7 DEF Wire, Types, TypeOK
    <2>9. /\ \A i \in Job : \A d \in Held'[i] : d \in Held[i] /\ d # c
          /\ \A i \in Job : lreq[c] = CopyOf(i) => c \in Held[i]
      <3>1. \A i \in Job : <<CopyOf(i)>> # <<>>
        OBVIOUS
      <3>2. /\ lpc'[c] = "answer" /\ \A d \in Conn \ {c} : lpc'[d] = lpc[d]
            /\ \A i \in Job : CopyOf(i)' = CopyOf(i)
        BY <1>0, <2>3 DEF CopyOf
      <3> QED BY <2>1, <2>3, <3>1, <3>2 DEF Held
    <2>10. \A i \in Job : results'[i] # results[i] => i = lreq[c].job /\ asks[i] = lreq[c].kind
      BY <1>0, <2>2
    <2>11. NotStored' /\ OneCopy' /\ NoResult'
      <3>1. OneCopy'
        BY <1>a, <2>9 DEF OneCopy
      <3>2. \A i \in Job : asks[i] \in {"copy", "no"} /\ results'[i] # results[i] =>
               /\ pc[i] \in {"recv", "recvAgain", "strand"} /\ \A d \in Held'[i] : FALSE
        <4> SUFFICES ASSUME NEW i \in Job, asks[i] \in {"copy", "no"}, results'[i] # results[i]
                     PROVE  /\ pc[i] \in {"recv", "recvAgain", "strand"}
                            /\ \A d \in Held'[i] : FALSE
          OBVIOUS
        <4>1. lreq[c] = CopyOf(i)
          BY <2>1, <2>10, Kinds DEF Request, CopyOf
        <4>2. c \in Held[i]
          BY <2>9, <4>1
        <4> QED BY <1>a, <2>9, <4>2 DEF NotStored, OneCopy
      <3>3. NotStored'
        BY <1>a, <2>9, <3>2 DEF NotStored
      <3>4. NoResult'
        BY <1>a, <3>2 DEF NoResult
      <3> QED BY <3>1, <3>3, <3>4
    <2> QED BY <2>5, <2>8, <2>11
  <1>5. CASE SendAnswer(c)
    <2>1. /\ lpc[c] = "answer" /\ lreq[c] \in Request /\ lres[c] \in Found /\ toFs[c] = <<>>
          /\ martaSocket = c /\ lsock[c] = c
      BY <1>5, <1>a DEF SendAnswer, Types, Local, OneRequest, Reads, OneListener
    <2> DEFINE p == [job |-> lreq[c].job, result |-> lres[c]]
    <2>2. p \in Answer /\ p.result = lres[c]
      BY <2>1 DEF Request, Answer, Found
    <2> HIDE DEF p
    <2>3. /\ lpc' = [lpc EXCEPT ![c] = "recv"] /\ lsock' = [lsock EXCEPT ![c] = c]
          /\ lreq' = [lreq EXCEPT ![c] = NoRequest] /\ lres' = [lres EXCEPT ![c] = "no"]
          /\ toMarta' = toMarta \/ toMarta' = [toMarta EXCEPT ![c] = Append(@, p)]
          /\ UNCHANGED <<toFs, martaSocket, results>>
      BY <1>5, <2>1 DEF SendAnswer, Again, p
    <2>4. OneListener' /\ OneRequest'
      BY <1>0, <1>a, <2>1, <2>3 DEF OneListener, OneRequest, Reads
    <2>5. ASSUME NEW j \in Job, fsSocket \in Conn, Lone(fsSocket, j)
          PROVE  Lone(fsSocket, j)'
      <3>1. CASE fsSocket = c
        <4>1. toMarta[c] = <<>> /\ lres[c] \in results[j]
          BY <2>1, <2>5, <3>1 DEF Lone, Quiet, Asked, Served, Answered, Reads
        <4>2. Append(<<>>, p) = <<p>>
          BY <2>2, OnePacket
        <4>3. toMarta'[c] \in {<<>>, <<p>>} /\ toFs'[c] = <<>> /\ lpc'[c] = "recv"
          BY <1>0, <2>1, <2>3, <4>1, <4>2
        <4> QED
          BY <2>2, <2>3, <3>1, <4>1, <4>3 DEF Lone, Quiet, Answered, Reads
      <3>2. CASE fsSocket # c
        BY <1>0, <2>3, <2>5, <3>2 DEF Lone, Quiet, Asked, Served, Answered, AskOf, Reads
      <3> QED BY <3>1, <3>2
    <2>6. fsSocket \in Conn /\ Quiet(fsSocket) => Quiet(fsSocket)'
      BY <1>0, <2>1, <2>3 DEF Quiet, Reads
    <2>7. Wire'
      BY <1>a, <2>5, <2>6 DEF Wire, Types, TypeOK
    <2>8. Held' = Held
      BY <1>0, <2>1, <2>3 DEF Held, CopyOf
    <2>9. NotStored' /\ OneCopy' /\ NoResult'
      BY <1>a, <2>3, <2>8 DEF NotStored, OneCopy, NoResult
    <2> QED BY <2>4, <2>7, <2>9
  <1>6. CASE AnswerFails(c) \/ ListenFails(c)
    <2>1. /\ lpc[c] # "off" /\ martaSocket = c /\ lsock[c] = c /\ lpc[c] # "work"
          /\ lpc[c] = "answer" => toFs[c] = <<>>
      BY <1>6, <1>a DEF AnswerFails, ListenFails, OneRequest, Reads, OneListener
    <2>2. /\ lreq' = [lreq EXCEPT ![c] = NoRequest] /\ lres' = [lres EXCEPT ![c] = "no"]
          /\ UNCHANGED <<toFs, toMarta, results>>
      BY <1>6 DEF AnswerFails, ListenFails, End, Again
    <2>3. \/ /\ lpc' = [lpc EXCEPT ![c] = "off"] /\ martaSocket' = NoConn
             /\ lsock' = [lsock EXCEPT ![c] = NoConn]
          \/ /\ lpc' = [lpc EXCEPT ![c] = "recv"] /\ martaSocket' = c
             /\ lsock' = [lsock EXCEPT ![c] = c]
      BY <1>6, <2>1 DEF AnswerFails, ListenFails, End, Again
    <2>4. OneListener'
      BY <1>0, <1>a, <2>1, <2>3 DEF OneListener
    <2>5. OneRequest'
      BY <1>0, <1>a, <2>2, <2>3 DEF OneRequest, Reads
    <2>6. ASSUME NEW j \in Job, fsSocket \in Conn, Lone(fsSocket, j)
          PROVE  Lone(fsSocket, j)'
      <3>1. lpc'[c] \in {"off", "recv"} /\ \A l \in Conn \ {c} : lpc'[l] = lpc[l]
        BY <1>0, <2>3
      <3>2. CASE fsSocket = c
        BY <1>0, <2>1, <2>2, <2>6, <3>1, <3>2
        DEF Lone, Quiet, Asked, Served, Answered, AskOf, Reads
      <3>3. CASE fsSocket # c
        BY <1>0, <2>2, <2>6, <3>1, <3>3
        DEF Lone, Quiet, Asked, Served, Answered, AskOf, Reads
      <3> QED BY <3>2, <3>3
    <2>7. fsSocket \in Conn /\ Quiet(fsSocket) => Quiet(fsSocket)'
      BY <1>0, <2>2, <2>3 DEF Quiet, Reads
    <2>8. Wire'
      BY <1>a, <2>6, <2>7 DEF Wire, Types, TypeOK
    <2>9. Held' = Held
      BY <1>0, <2>1, <2>2, <2>3 DEF Held, CopyOf
    <2>10. NotStored' /\ OneCopy' /\ NoResult'
      BY <1>a, <2>2, <2>9 DEF NotStored, OneCopy, NoResult
    <2> QED BY <2>4, <2>5, <2>8, <2>10
  <1> QED
    BY <1>1, <1>2, <1>3, <1>4, <1>5, <1>6 DEF Acceptor, Listener

\* So Link is kept as long as martaSocket is not taken twice.
LEMMA StepLink == Types /\ Link /\ [Next]_vars /\ Followed' => Link'
  <1> SUFFICES ASSUME Types, Link, [Next]_vars, ~twice' PROVE Link'
    BY DEF Followed
  <1>1. CASE UNCHANGED vars
    BY <1>1, LinkStays DEF linkVars, vars, martaVars, wireVars, listenVars
  <1>2. ASSUME NEW c \in Conn,
               TooFewNodes(c) \/ Admit(c) \/ Acceptor(c) \/ Listener(c) \/ Breaks(c)
        PROVE  Link'
    <2>1. UNCHANGED <<pc, asks, fsSocket>>
      BY <1>2 DEF TooFewNodes, Admit, Acceptor, Listener, Breaks, Refuse, Accept, SetMarta,
                  Listen, Work, SendAnswer, AnswerFails, ListenFails, Accepts, Listens,
                  martaVars
    <2> QED BY <1>2, <2>1, FileSystemLink
  <1> QED
    BY <1>1, <1>2, MartaLink DEF Next

\* Each step is one of FSService, or none that it sees.
LEMMA StepImplements ==
    Types /\ Link /\ Link' /\ [Next]_vars => [Service!Next]_<<asks, results, answer>>
  <1> SUFFICES ASSUME Types, Link, [Next]_vars,
                      ~UNCHANGED <<asks, results, answer>>
               PROVE  Service!Next
    OBVIOUS
  <1>0. /\ asks \in [Job -> Kind \cup {"no"}] /\ answer \in [Job -> Found \cup {"no"}]
        /\ \A j \in Job : asks[j] = "no" <=> pc[j] = "idle"
    BY DEF Types, TypeOK, Local
  <1>1. ASSUME NEW j \in Job, NEW kind \in Kind, Ask(j, kind)
        PROVE  Service!Next
    <2>1. Service!Ask(j, kind)
      BY <1>0, <1>1 DEF Ask, Service!Ask
    <2> QED BY <2>1 DEF Service!Next, Kind
  <1>2. ASSUME NEW j \in Job, Recv(j)
        PROVE  Service!Next
    <2>1. fsSocket \in Conn /\ toMarta[fsSocket] # <<>>
      BY <1>2 DEF Recv, Types, TypeOK
    <2>2. Answered(fsSocket, j)
      BY <1>2, <2>1, FSLinkAssumption
      DEF Recv, Link, Wire, Lone, Quiet, Asked, Served, Types, OneHolder, Waits
    <2>3. PICK p \in Answer : toMarta[fsSocket] = <<p>> /\ p.result \in results[j]
      BY <2>2 DEF Answered
    <2>4. Service!Get(j, p.result) /\ p.result \in Found
      BY <1>2, <2>3, OnePacket DEF Recv, Service!Get, Answer, Found
    <2> QED BY <2>4 DEF Service!Next, Found
  <1>3. ASSUME NEW l \in Conn, Work(l)
        PROVE  Service!Next
    <2>1. lpc[l] = "work" /\ lreq[l] \in Request
      BY <1>3 DEF Work, Types, Local
    <2>2. PICK j \in Job, kind \in Kind : lreq[l] = [job |-> j, kind |-> kind]
      BY <2>1 DEF Request
    <2>3. PICK r \in Service!Result(kind) :
              results' = IF asks[j] # kind THEN results ELSE [results EXCEPT ![j] = @ \cup {r}]
      <3>1. lreq[l].job = j /\ lreq[l].kind = kind
        BY <2>2
      <3> QED BY <1>3, <3>1 DEF Work
    <2>4. asks[j] = kind /\ UNCHANGED <<asks, answer>>
      BY <1>3, <2>3 DEF Work, Listens, martaVars
    <2>5. asks[j] = "copy" => results[j] = {}
      <3>1. asks[j] = "copy" => l \in Held[j]
        BY <2>1, <2>2, <2>4 DEF Held, CopyOf
      <3> QED BY <3>1 DEF Link, Copies, NotStored
    <2>6. Service!Find(j, r) /\ r \in Found
      BY <2>3, <2>4, <2>5, Kinds DEF Service!Find, Kind
    <2> QED BY <2>6 DEF Service!Next, Found
  <1>4. \/ \E j \in Job : Recv(j) \/ \E kind \in Kind : Ask(j, kind)
        \/ \E l \in Conn : Work(l)
    <2>1. ASSUME NEW j \in Job,
                 Lock(j) \/ Send(j) \/ SendFails(j) \/ RecvFails(j) \/ Reconnect(j)
          PROVE  UNCHANGED <<asks, results, answer>>
      BY <2>1 DEF Lock, Send, SendFails, RecvFails, Reconnect, Lost
    <2>2. ASSUME NEW c \in Conn,
                 \/ TooFewNodes(c) \/ Admit(c) \/ Acceptor(c) \/ Breaks(c)
                 \/ Listen(c) \/ SendAnswer(c) \/ AnswerFails(c) \/ ListenFails(c)
          PROVE  UNCHANGED <<asks, results, answer>>
      BY <2>2 DEF TooFewNodes, Admit, Acceptor, Breaks, Refuse, Accept, SetMarta, Listen,
                  SendAnswer, AnswerFails, ListenFails, Accepts, Listens, martaVars
    <2>3. ~UNCHANGED vars
      BY DEF vars, martaVars
    <2> QED BY <2>1, <2>2, <2>3 DEF Next, JobStep, Listener
  <1> QED BY <1>1, <1>2, <1>3, <1>4

\* While martaSocket is not taken by two connections, the answer a job gets is a result
\* found for what it asked since it asked, and its final result is stored at most once,
\* however the connection is lost and made again.
THEOREM Implements == Spec /\ []Followed => ServiceSpec
  <1>1. Init => Service!Init
    BY DEF Init, Service!Init
  <1> QED
    BY <1>1, InitTypes, InitLink, StepTypes, StepLink, StepImplements, PTL
    DEF Spec, ServiceSpec, Service!Spec
==============================================================================
