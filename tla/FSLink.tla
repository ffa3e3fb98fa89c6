------------------------------- MODULE FSLink -------------------------------
(***************************************************************************)
(* The connection between MaRTA and the file system: FSConnection.c of     *)
(* src/MaRTA, connections.c and connections_marta.c of src/FileSystem.     *)
(*                                                                         *)
(* The threads of the jobs share one socket under MFileSystem and make the *)
(* connection again when it is lost; the file system has a thread for its  *)
(* listener, one for each connection it accepts and one that listens to    *)
(* MaRTA, all with the global martaSocket.  What is asked and answered is  *)
(* in FSService, which this module implements.                             *)
(***************************************************************************)
EXTENDS Integers, Sequences, FiniteSets

CONSTANTS
    Job,      \* the jobs of MaRTA, a thread each
    Conn,     \* connections: one is used again when both ends have forgotten it
    NoConn,   \* a socket of -1
    MaxBreaks \* bound on the connections the network breaks

ASSUME FSLinkAssumption == Conn # {} /\ NoConn \notin Conn /\ MaxBreaks \in Nat

VARIABLES
    pc, asks, answer, \* of each job: where it is, what it asks, its last answer
    fsSocket,         \* MaRTA's end
    up,               \* the connections that work
    toFs, toMarta,    \* the packets on their way on each
    acc,              \* where the threads that accept each connection are
    martaSocket,      \* the file system's end
    lpc, lsock, lreq, \* of each listening thread, by the connection that started it:
                      \* where it is, the socket it reads, the request it has
    lres,             \* and the result it has found
    breaks,
    results,          \* history: the results found for each job since it asked
    twice             \* history: a connection took the place of another in martaSocket

martaVars  == <<pc, asks, answer, fsSocket>>
wireVars   == <<up, toFs, toMarta>>
listenVars == <<martaSocket, lpc, lsock, lreq, lres>>
vars == <<martaVars, wireVars, acc, listenVars, breaks, results, twice>>

Service == INSTANCE FSService
             WITH Job <- Job, asks <- asks, results <- results, answer <- answer
Kind == Service!Kind
Request == [job : Job, kind : Kind]
Answer  == [job : Job, result : Service!Result("blocks") \cup Service!Result("copy")]
NoRequest == [job |-> "none", kind |-> "none"]

\* Every variable has its type.
TypeOK ==
    /\ pc \in [Job -> {"idle", "lock", "send", "recv", "sendAgain", "recvAgain", "strand"}]
    /\ asks \in [Job -> Kind \cup {"no"}]
    /\ fsSocket \in Conn \cup {NoConn} /\ martaSocket \in Conn \cup {NoConn}
    /\ up \subseteq Conn /\ toFs \in [Conn -> Seq(Request)] /\ toMarta \in [Conn -> Seq(Answer)]
    /\ acc \in [Conn -> {"no", "shaken", "check", "set"}]
    /\ lpc \in [Conn -> {"off", "recv", "work", "answer"}]
    /\ lsock \in [Conn -> Conn \cup {NoConn}] /\ lreq \in [Conn -> Request \cup {NoRequest}]
    /\ breaks \in 0 .. MaxBreaks

\* After initFSConnection.
Init ==
    /\ pc = [j \in Job |-> "idle"]
    /\ asks = [j \in Job |-> "no"] /\ answer = [j \in Job |-> "no"]
    /\ fsSocket = (CHOOSE c \in Conn : TRUE) /\ up = {fsSocket} /\ martaSocket = NoConn
    /\ toFs = [c \in Conn |-> <<>>] /\ toMarta = [c \in Conn |-> <<>>]
    /\ acc = [c \in Conn |-> IF c = fsSocket THEN "shaken" ELSE "no"]
    /\ lpc = [c \in Conn |-> "off"]
    /\ lsock = [c \in Conn |-> NoConn] /\ lreq = [c \in Conn |-> NoRequest]
    /\ lres = [c \in Conn |-> "no"]
    /\ breaks = MaxBreaks /\ results = [j \in Job |-> {}] /\ twice = FALSE

----------------------------------------------------------------------------
(* MaRTA: requestFileBlocks and copyFinalTemporal.                          *)

Marta == UNCHANGED <<acc, listenVars, breaks, twice>>
Goto(j, label) == pc' = [pc EXCEPT ![j] = label]
Close(c) == up' = up \ {c}

Ask(j, kind) ==
    /\ Marta /\ pc[j] = "idle" /\ Goto(j, "lock")
    /\ asks' = [asks EXCEPT ![j] = kind] /\ answer' = [answer EXCEPT ![j] = "no"]
    /\ UNCHANGED <<fsSocket, wireVars, results>>

\* MFileSystem, held until the answer.
Lock(j) ==
    /\ Marta /\ pc[j] = "lock" /\ \A i \in Job : pc[i] \in {"idle", "lock"}
    /\ Goto(j, "send")
    /\ UNCHANGED <<asks, answer, fsSocket, wireVars, results>>

\* The packet leaves; on a broken connection it may be lost without an error.
Send(j) ==
    /\ Marta /\ pc[j] = "send" /\ fsSocket # NoConn /\ Goto(j, "recv")
    /\ toFs' = IF fsSocket \notin up THEN toFs
               ELSE [toFs EXCEPT ![fsSocket] = Append(@, [job |-> j, kind |-> asks[j]])]
    /\ UNCHANGED <<asks, answer, fsSocket, up, toMarta, results>>

\* FSConnectionLost: the socket is closed, to connect again.
Lost(j, label) ==
    /\ Close(fsSocket) /\ fsSocket' = NoConn /\ Goto(j, label)
    /\ UNCHANGED <<asks, answer, toFs, toMarta, results>>

SendFails(j) == Marta /\ pc[j] = "send" /\ fsSocket \notin up /\ Lost(j, "sendAgain")

\* A mutant of RecvFails: the copy is asked for again too.
RecvFailsAgain(j) ==
    Marta /\ pc[j] \in {"recv", "strand"} /\ fsSocket \notin up /\ Lost(j, "sendAgain")

\* The request for the blocks is sent again, that for the copy is not.
RecvFails(j) ==
    /\ Marta /\ pc[j] \in {"recv", "strand"} /\ fsSocket \notin up
    /\ Lost(j, IF asks[j] = "blocks" THEN "sendAgain" ELSE "recvAgain")

\* The next packet, whatever it answers.
Recv(j) ==
    /\ Marta /\ pc[j] \in {"recv", "strand"} /\ fsSocket # NoConn /\ toMarta[fsSocket] # <<>>
    /\ answer' = [answer EXCEPT ![j] = Head(toMarta[fsSocket]).result]
    /\ toMarta' = [toMarta EXCEPT ![fsSocket] = Tail(@)]
    /\ asks' = [asks EXCEPT ![j] = "no"] /\ results' = [results EXCEPT ![j] = {}]
    /\ Goto(j, "idle")
    /\ UNCHANGED <<fsSocket, up, toFs>>

\* connectFS, until the handshake of the listener succeeds.
Forgotten(c) ==
    /\ c \notin {fsSocket, martaSocket} /\ acc[c] = "no" /\ lpc[c] = "off"
    /\ \A l \in Conn : lsock[l] # c

Reconnect(j) ==
    /\ pc[j] \in {"sendAgain", "recvAgain"} /\ \E c \in Conn : Forgotten(c)
    /\ LET c == CHOOSE d \in Conn : Forgotten(d)
       IN  /\ fsSocket' = c /\ up' = up \cup {c} /\ acc' = [acc EXCEPT ![c] = "shaken"]
           /\ toFs' = [toFs EXCEPT ![c] = <<>>] /\ toMarta' = [toMarta EXCEPT ![c] = <<>>]
    /\ UNCHANGED <<asks, answer, listenVars, breaks, results, twice>>
    /\ Goto(j, IF pc[j] = "sendAgain" THEN "send" ELSE "strand")

----------------------------------------------------------------------------
(* The file system: connections_listenerThread and connections_marta_accept. *)

Accepts == UNCHANGED <<martaVars, toFs, toMarta, lreq, lres, breaks, results>>

\* Fewer nodes are active than the configuration asks for.
TooFewNodes(c) ==
    /\ Accepts /\ acc[c] = "shaken" /\ acc' = [acc EXCEPT ![c] = "no"] /\ Close(c)
    /\ UNCHANGED <<martaSocket, lpc, lsock, twice>>

Admit(c) ==
    /\ Accepts /\ acc[c] = "shaken" /\ acc' = [acc EXCEPT ![c] = "check"]
    /\ UNCHANGED <<up, martaSocket, lpc, lsock, twice>>

\* Another MaRTA is connected: often this one, whose thread has not ended.
Refuse(c) ==
    /\ Accepts /\ acc[c] = "check" /\ martaSocket # NoConn
    /\ acc' = [acc EXCEPT ![c] = "no"] /\ Close(c)
    /\ UNCHANGED <<martaSocket, lpc, lsock, twice>>

Accept(c) ==
    /\ Accepts /\ acc[c] = "check" /\ martaSocket = NoConn
    /\ acc' = [acc EXCEPT ![c] = "set"]
    /\ UNCHANGED <<up, martaSocket, lpc, lsock, twice>>

\* The global socket is set, and the thread that listens to it starts.
SetMarta(c) ==
    /\ Accepts /\ acc[c] = "set" /\ acc' = [acc EXCEPT ![c] = "no"]
    /\ martaSocket' = c /\ twice' = (twice \/ martaSocket # NoConn)
    /\ lpc' = [lpc EXCEPT ![c] = "recv"] /\ lsock' = [lsock EXCEPT ![c] = c]
    /\ UNCHANGED up

----------------------------------------------------------------------------
(* connections_marta_listenActions.                                         *)

Listens == UNCHANGED <<martaVars, acc, breaks, twice>>

Listen(l) ==
    /\ Listens /\ lpc[l] = "recv" /\ lsock[l] # NoConn /\ toFs[lsock[l]] # <<>>
    /\ lreq' = [lreq EXCEPT ![l] = Head(toFs[lsock[l]])]
    /\ toFs' = [toFs EXCEPT ![lsock[l]] = Tail(@)]
    /\ lpc' = [lpc EXCEPT ![l] = "work"]
    /\ UNCHANGED <<up, toMarta, martaSocket, lsock, lres, results>>

\* connections_marta_sendFileBlocks looks for the blocks, and copyFinalResult stores
\* the file.
Work(l) ==
    /\ Listens /\ lpc[l] = "work" /\ lpc' = [lpc EXCEPT ![l] = "answer"]
    /\ \E r \in Service!Result(lreq[l].kind) :
         /\ lres' = [lres EXCEPT ![l] = r]
         /\ results' = IF asks[lreq[l].job] # lreq[l].kind THEN results
                       ELSE [results EXCEPT ![lreq[l].job] = @ \cup {r}]
    /\ UNCHANGED <<wireVars, martaSocket, lsock, lreq>>

\* A thread that ends closes the socket that is there, and forgets it.
End(l) ==
    /\ Close(martaSocket) /\ martaSocket' = NoConn
    /\ lpc' = [lpc EXCEPT ![l] = "off"] /\ lsock' = [lsock EXCEPT ![l] = NoConn]
    /\ lreq' = [lreq EXCEPT ![l] = NoRequest] /\ lres' = [lres EXCEPT ![l] = "no"]

Again(l) ==
    /\ lpc' = [lpc EXCEPT ![l] = "recv"] /\ lsock' = [lsock EXCEPT ![l] = martaSocket]
    /\ lreq' = [lreq EXCEPT ![l] = NoRequest] /\ lres' = [lres EXCEPT ![l] = "no"]

\* The answer goes to the socket that is there now.
SendAnswer(l) ==
    /\ Listens /\ lpc[l] = "answer" /\ martaSocket # NoConn /\ Again(l)
    /\ toMarta' = IF martaSocket \notin up THEN toMarta
                  ELSE [toMarta EXCEPT ![martaSocket] =
                            Append(@, [job |-> lreq[l].job, result |-> lres[l]])]
    /\ UNCHANGED <<up, toFs, martaSocket, results>>

\* An error ends the thread after a request for blocks, not after a copy.
AnswerFails(l) ==
    /\ Listens /\ lpc[l] = "answer" /\ martaSocket \notin up
    /\ IF lreq[l].kind = "blocks" THEN End(l) ELSE Again(l) /\ UNCHANGED <<up, martaSocket>>
    /\ UNCHANGED <<toFs, toMarta, results>>

\* A mutant of ListenFails: the socket is closed and not forgotten.
ListenForgets(l) ==
    /\ Listens /\ lpc[l] = "recv" /\ lsock[l] \notin up /\ Close(martaSocket)
    /\ lpc' = [lpc EXCEPT ![l] = "off"] /\ lsock' = [lsock EXCEPT ![l] = NoConn]
    /\ UNCHANGED <<lreq, lres, martaSocket, toFs, toMarta, results>>

ListenFails(l) ==
    /\ Listens /\ lpc[l] = "recv" /\ lsock[l] \notin up /\ End(l)
    /\ UNCHANGED <<toFs, toMarta, results>>

\* The network breaks a connection; what is on its way may still arrive.
Breaks(c) ==
    /\ c \in up /\ breaks > 0 /\ breaks' = breaks - 1 /\ Close(c)
    /\ UNCHANGED <<martaVars, toFs, toMarta, acc, listenVars, results, twice>>

----------------------------------------------------------------------------
JobStep(j) ==
    Send(j) \/ SendFails(j) \/ Recv(j) \/ RecvFails(j) \/ Reconnect(j)
Acceptor(c) == Refuse(c) \/ Accept(c) \/ SetMarta(c)
Listener(l) == Listen(l) \/ Work(l) \/ SendAnswer(l) \/ AnswerFails(l) \/ ListenFails(l)

Next ==
    \/ \E j \in Job : Lock(j) \/ JobStep(j) \/ \E kind \in Kind : Ask(j, kind)
    \/ \E c \in Conn : TooFewNodes(c) \/ Admit(c) \/ Acceptor(c) \/ Listener(c) \/ Breaks(c)

\* Threads run, a mutex is given to each that waits, and the nodes are enough again and
\* again.
Spec ==
    /\ Init /\ [][Next]_vars
    /\ \A j \in Job : WF_vars(JobStep(j)) /\ SF_vars(Lock(j))
    /\ \A c \in Conn : SF_vars(Admit(c)) /\ WF_vars(Acceptor(c)) /\ WF_vars(Listener(c))

----------------------------------------------------------------------------
(* Properties. *)

\* Each job gets an answer to what it asked, found after it asked, and a final result is
\* stored at most once: FSService, while martaSocket is not taken by two connections.
ServiceSpec == Service!Spec

\* A job that asks is answered, unless some job waits on a connection on which it has
\* not asked.
Stranded == \E j \in Job : pc[j] \in {"recvAgain", "strand"}
EveryAskEnds == \A j \in Job : []<>(pc[j] = "idle" \/ Stranded \/ twice)

\* Where the runs stop.
Followed == ~twice
=============================================================================
