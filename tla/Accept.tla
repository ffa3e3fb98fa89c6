------------------------------- MODULE Accept -------------------------------
(***************************************************************************)
(* How MaRTA takes jobs in: the listener and its handshakes, the thread of *)
(* each job up to its planning, the counter the jobs take their numbers    *)
(* from, and the names of temporary files, made of the time, the number of *)
(* the job and that of the map or reduce.  All threads make the text of    *)
(* the time in the one static buffer of asctime.                           *)
(***************************************************************************)
EXTENDS Integers, Sequences, FiniteSets

CONSTANTS
    Jobs,      \* processes of src/Job that connect
    Others,    \* processes that connect and give another name
    Silents,   \* processes that connect and do not answer
    Temps,     \* the maps and reduces of a job
    Width,     \* the values of a uint16_t
    NoClient,
    MaxNames, MaxTime, MaxLost  \* bounds: names of a job, seconds, processes lost

Clients == Jobs \cup Others \cup Silents

ASSUME AcceptAssumption ==
    /\ Jobs \cap (Others \cup Silents) = {} /\ Others \cap Silents = {}
    /\ NoClient \notin Clients /\ Width \in Nat \ {0, 1}
    /\ MaxNames \in Nat /\ MaxTime \in Nat /\ MaxLost \in Nat

VARIABLES
    client,    \* what each process has done: "start", "queued", "greeted", "named",
               \* "welcomed" and, for a job, "asked"
    lost,      \* the processes that ended
    queue,     \* the connections not accepted yet
    served,    \* the client the listener shakes hands with
    thread,    \* where the thread of a job is: "none", "count", "read", "recv",
               \* "plan", "edit", "copy", "planned", "gone"
    cantJobs, id,  \* the counter, and the number each job got
    buffer,    \* the text of asctime: its time, and whether it is one word
    names,     \* the names a job gave to its temporary files
    now,       \* the clock
    aborted,   \* MaRTA stopped
    counted, seen,  \* history: the jobs in the order of their counts, and how many
                    \* had counted when each took its number
    touched    \* history: the threads that found another's text in the buffer

clientVars == <<client, lost, queue>>
threadVars == <<thread, cantJobs, id, buffer, names, counted, seen, touched>>
vars == <<clientVars, served, threadVars, now, aborted>>

Init ==
    /\ client = [c \in Clients |-> "start"] /\ lost = {} /\ queue = <<>> /\ served = NoClient
    /\ thread = [j \in Jobs |-> "none"] /\ cantJobs = 0 /\ id = [j \in Jobs |-> 0]
    /\ buffer = [at |-> 0, word |-> TRUE] /\ names = [j \in Jobs |-> <<>>]
    /\ now = 0 /\ aborted = FALSE
    /\ counted = <<>> /\ seen = [j \in Jobs |-> 0] /\ touched = {}

----------------------------------------------------------------------------
(* The processes that connect: conectarMarta and atenderMarta in a job.     *)

At(c, stage) == client[c] = stage /\ c \notin lost
Goes(c, stage) == client' = [client EXCEPT ![c] = stage]

Connect(c) ==
    /\ At(c, "start") /\ ~aborted /\ Goes(c, "queued") /\ queue' = Append(queue, c)
    /\ UNCHANGED <<lost, served, threadVars, now, aborted>>

\* _check_handshake of MaRTA's name, and the name of the process itself.
GiveName(c) ==
    /\ At(c, "greeted") /\ c \notin Silents /\ Goes(c, "named")
    /\ UNCHANGED <<lost, queue, served, threadVars, now, aborted>>

\* serializeConfigMaRTA, after the welcome.
Ask(j) ==
    /\ At(j, "welcomed") /\ Goes(j, "asked")
    /\ UNCHANGED <<lost, queue, served, threadVars, now, aborted>>

\* A process ends, or its connection breaks; what it has sent may still arrive.
Lose(c) ==
    /\ c \notin lost /\ Cardinality(lost) < MaxLost /\ lost' = lost \cup {c}
    /\ UNCHANGED <<client, queue, served, threadVars, now, aborted>>

----------------------------------------------------------------------------
(* listenJobs: one handshake at a time.                                     *)

Greet ==
    /\ ~aborted /\ served = NoClient /\ queue # <<>>
    /\ served' = Head(queue) /\ queue' = Tail(queue) /\ Goes(Head(queue), "greeted")
    /\ UNCHANGED <<lost, threadVars, now, aborted>>

Free == served' = NoClient /\ UNCHANGED <<lost, queue, now, aborted>>

\* The name of a job: it is welcomed, and gets a thread.
Welcome ==
    /\ ~aborted /\ served \in Jobs /\ client[served] = "named" /\ Goes(served, "welcomed")
    /\ thread' = [thread EXCEPT ![served] = "count"]
    /\ Free /\ UNCHANGED <<cantJobs, id, buffer, names, counted, seen, touched>>

\* Mutant of Forget: the listener waits for the name it wants.
ForgetLost ==
    /\ ~aborted /\ served \in lost /\ Free /\ UNCHANGED <<client, threadVars>>

\* Another name, or a connection that breaks: it is forgotten, and not closed.
Forget ==
    /\ ~aborted /\ served # NoClient
    /\ \/ served \in lost
       \/ served \in Others /\ client[served] = "named"
    /\ Free /\ UNCHANGED <<client, threadVars>>

----------------------------------------------------------------------------
(* acceptJob, a thread per job.                                             *)

InThread(j, here, there) ==
    /\ ~aborted /\ thread[j] = here /\ thread' = [thread EXCEPT ![j] = there]
    /\ UNCHANGED <<clientVars, served, now>>

\* Under McantJobs.
Count(j) ==
    /\ InThread(j, "count", "read")
    /\ cantJobs' = (cantJobs + 1) % Width /\ counted' = Append(counted, j)
    /\ UNCHANGED <<id, buffer, names, aborted, seen, touched>>

\* After it was released, for the call of desserializeJob.
TakeNumber(j) ==
    /\ InThread(j, "read", "recv")
    /\ id' = [id EXCEPT ![j] = cantJobs] /\ seen' = [seen EXCEPT ![j] = Len(counted)]
    /\ UNCHANGED <<cantJobs, buffer, names, aborted, counted, touched>>

RecvRequest(j) ==
    /\ client[j] = "asked" /\ InThread(j, "recv", "plan")
    /\ UNCHANGED <<cantJobs, id, buffer, names, aborted, counted, seen, touched>>

\* The request does not come, whole: a pointer that was not set, or was freed already,
\* is freed.
RequestLost(j) ==
    /\ j \in lost /\ InThread(j, "recv", "gone") /\ aborted' \in BOOLEAN
    /\ UNCHANGED <<cantJobs, id, buffer, names, counted, seen, touched>>

----------------------------------------------------------------------------
(* setTempMapName and setTempReduceName, with getTime, whenever the thread  *)
(* plans a map or a reduce.                                                 *)

WriteTime(j) ==
    /\ Len(names[j]) < MaxNames /\ InThread(j, "plan", "edit")
    /\ buffer' = [at |-> now, word |-> FALSE] /\ touched' = touched \cup (Jobs \ {j})
    /\ UNCHANGED <<cantJobs, id, names, aborted, counted, seen>>

\* Mutant of EditTime: the loop leaves the blanks before the day.
EditSome(j) ==
    /\ InThread(j, "edit", "copy") /\ touched' = touched \ {j}
    /\ UNCHANGED <<buffer, cantJobs, id, names, aborted, counted, seen>>

\* Its blanks and colons become dashes.
EditTime(j) ==
    /\ InThread(j, "edit", "copy")
    /\ buffer' = [buffer EXCEPT !.word = TRUE] /\ touched' = touched \ {j}
    /\ UNCHANGED <<cantJobs, id, names, aborted, counted, seen>>

CopyTime(j) ==
    /\ InThread(j, "copy", "plan")
    /\ \E t \in Temps :
         names' = [names EXCEPT ![j] = Append(@,
                     [at |-> buffer.at, word |-> buffer.word, id |-> id[j], of |-> t])]
    /\ UNCHANGED <<cantJobs, id, buffer, aborted, counted, seen, touched>>

\* Mutant of Planned: the counter is of the jobs that are planned now.
PlannedLess(j) ==
    /\ InThread(j, "plan", "planned") /\ cantJobs' = (cantJobs - 1) % Width
    /\ UNCHANGED <<id, buffer, names, aborted, counted, seen, touched>>

\* The planning ends; the rest of the thread is in Marta.
Planned(j) ==
    /\ InThread(j, "plan", "planned")
    /\ UNCHANGED <<cantJobs, id, buffer, names, aborted, counted, seen, touched>>

----------------------------------------------------------------------------
Tick ==
    /\ now < MaxTime /\ now' = now + 1
    /\ UNCHANGED <<clientVars, served, threadVars, aborted>>

\* MaRTA stopped, or waits for connections or for a process that does not answer.
Waiting == UNCHANGED vars

Listener == Greet \/ Welcome \/ Forget
Job(j) == GiveName(j) \/ Ask(j)
Thread(j) ==
    \/ Count(j) \/ TakeNumber(j) \/ RecvRequest(j) \/ RequestLost(j)
    \/ WriteTime(j) \/ EditTime(j) \/ CopyTime(j) \/ Planned(j)

Next ==
    \/ Listener \/ Tick \/ Waiting
    \/ \E c \in Clients : Connect(c) \/ GiveName(c) \/ Lose(c)
    \/ \E j \in Jobs : Ask(j) \/ Thread(j)

Fairness ==
    /\ WF_vars(Listener)
    /\ \A j \in Jobs : WF_vars(Job(j)) /\ WF_vars(Thread(j))
    /\ \A c \in Others : WF_vars(GiveName(c))

Spec == Init /\ [][Next]_vars /\ Fairness

----------------------------------------------------------------------------
(* Properties. *)

Stages == {"start", "queued", "greeted", "named", "welcomed", "asked"}
Places == {"none", "count", "read", "recv", "plan", "edit", "copy", "planned", "gone"}
Text == [at : 0 .. MaxTime, word : BOOLEAN]
Name == [at : 0 .. MaxTime, word : BOOLEAN, id : 0 .. Width - 1, of : Temps]

\* Types; the counter stays a uint16_t (MaRTA.c:12).
TypeOK ==
    /\ client \in [Clients -> Stages] /\ lost \subseteq Clients
    /\ queue \in Seq(Clients) /\ served \in Clients \cup {NoClient}
    /\ thread \in [Jobs -> Places]
    /\ cantJobs \in 0 .. Width - 1 /\ id \in [Jobs -> 0 .. Width - 1]
    /\ buffer \in Text /\ names \in [Jobs -> Seq(Name)]
    /\ now \in 0 .. MaxTime /\ aborted \in BOOLEAN
    /\ counted \in Seq(Jobs) /\ seen \in [Jobs -> Nat] /\ touched \subseteq Jobs

\* The numbers of a and b were taken together: b counted after a and before a took its own.
Together(a, b) ==
    \E m, n \in DOMAIN counted : counted[m] = a /\ counted[n] = b /\ m < n /\ n <= seen[a]

\* Two jobs give one name to a file only if one counted between the other's count and
\* its reading of the counter, or after as many jobs as a uint16_t has values
\* (JobConnection.c:19).
NamesTellApart ==
    Len(counted) <= Width =>
        \A a, b \in Jobs :
            a # b /\ ~Together(a, b) /\ ~Together(b, a) =>
                \A m \in DOMAIN names[a], n \in DOMAIN names[b] : names[a][m] # names[b][n]

\* The text a thread is about to copy, and so a name, is one word unless another thread
\* has begun to write its own since (job.c:17).
NamesAreWords == \A j \in Jobs : thread[j] = "copy" /\ j \notin touched => buffer.word

Held == served \in Silents /\ served \notin lost
Over(j) == thread[j] \in {"planned", "gone"} \/ j \in lost \/ aborted

\* A job that connects is taken in and planned whatever others connect, unless one of them
\* holds the listener for ever (Connection.c:26).
EveryJobIsTaken == []<>~Held => \A j \in Jobs : client[j] = "queued" ~> Over(j)
=============================================================================
