---------------------------- MODULE Accept_proofs ----------------------------
(***************************************************************************)
(* Proofs about Accept, for any number of jobs and other processes, of     *)
(* names and of seconds: its types, which jobs may give one name to their  *)
(* files, and which names are not one word.                                *)
(***************************************************************************)
EXTENDS Accept, TLAPS

\* The operators on sequences that the model uses.
LEMMA Queues ==
    ASSUME NEW S, NEW q \in Seq(S)
    PROVE  /\ \A e \in S : Append(q, e) \in Seq(S)
           /\ q # <<>> => Head(q) \in S /\ Tail(q) \in Seq(S)
           /\ <<>> \in Seq(S)
  BY SMT

\* Init gives the variables values of their types.
LEMMA InitTypes == Init => TypeOK
  <1> SUFFICES ASSUME Init PROVE TypeOK
    OBVIOUS
  <1> USE AcceptAssumption
  <1>1. queue \in Seq(Clients) /\ counted \in Seq(Jobs)
    BY Queues DEF Init
  <1>2. names \in [Jobs -> Seq(Name)]
    BY Queues DEF Init
  <1>3. buffer \in Text
    BY DEF Init, Text
  <1>4. /\ client \in [Clients -> Stages] /\ thread \in [Jobs -> Places]
        /\ id \in [Jobs -> 0 .. Width - 1] /\ seen \in [Jobs -> Nat]
    BY DEF Init, Stages, Places
  <1>5. cantJobs \in 0 .. Width - 1 /\ now \in 0 .. MaxTime
    BY DEF Init
  <1>6. lost \subseteq Clients /\ served \in Clients \cup {NoClient} /\ touched \subseteq Jobs
    BY DEF Init
  <1>7. aborted \in BOOLEAN
    BY DEF Init
  <1> QED BY <1>1, <1>2, <1>3, <1>4, <1>5, <1>6, <1>7 DEF TypeOK

\* Every step keeps the types.
LEMMA StepTypes == TypeOK /\ [Next]_vars => TypeOK'
  <1> SUFFICES ASSUME TypeOK, [Next]_vars PROVE TypeOK'
    OBVIOUS
  <1> USE AcceptAssumption
  <1>1. ASSUME NEW c \in Clients, Connect(c) PROVE TypeOK'
    BY <1>1, Queues DEF Connect, At, Goes, threadVars, TypeOK, Stages
  <1>2. ASSUME NEW c \in Clients, GiveName(c) PROVE TypeOK'
    BY <1>2 DEF GiveName, At, Goes, threadVars, TypeOK, Stages
  <1>3. ASSUME NEW c \in Clients, Lose(c) PROVE TypeOK'
    BY <1>3 DEF Lose, threadVars, TypeOK
  <1>4. ASSUME NEW j \in Jobs, Ask(j) PROVE TypeOK'
    BY <1>4 DEF Ask, At, Goes, threadVars, TypeOK, Stages
  <1>5. CASE Greet
    BY <1>5, Queues DEF Greet, Goes, threadVars, TypeOK, Stages
  <1>6. CASE Welcome
    BY <1>6 DEF Welcome, Free, Goes, TypeOK, Stages, Places
  <1>7. CASE Forget
    BY <1>7 DEF Forget, Free, threadVars, TypeOK
  <1>8. ASSUME NEW j \in Jobs, Thread(j) PROVE TypeOK'
    <2>1. CASE Count(j)
      BY <2>1, Queues DEF Count, InThread, clientVars, TypeOK, Places
    <2>2. CASE TakeNumber(j)
      BY <2>2 DEF TakeNumber, InThread, clientVars, TypeOK, Places
    <2>3. CASE RecvRequest(j) \/ RequestLost(j) \/ Planned(j)
      BY <2>3 DEF RecvRequest, RequestLost, Planned, InThread, clientVars, TypeOK, Places
    <2>4. CASE WriteTime(j)
      BY <2>4 DEF WriteTime, InThread, clientVars, TypeOK, Places, Text
    <2>6. CASE EditTime(j)
      <3>1. buffer' \in Text
        BY <2>6 DEF EditTime, TypeOK, Text
      <3> QED BY <2>6, <3>1 DEF EditTime, InThread, clientVars, TypeOK, Places
    <2>5. CASE CopyTime(j)
      <3>1. PICK t \in Temps :
              names' = [names EXCEPT ![j] = Append(@,
                          [at |-> buffer.at, word |-> buffer.word, id |-> id[j], of |-> t])]
        BY <2>5 DEF CopyTime
      <3>2. [at |-> buffer.at, word |-> buffer.word, id |-> id[j], of |-> t] \in Name
        BY DEF TypeOK, Text, Name
      <3>3. names' \in [Jobs -> Seq(Name)]
        BY <3>1, <3>2, Queues DEF TypeOK
      <3> QED BY <2>5, <3>3 DEF CopyTime, InThread, clientVars, TypeOK, Places
    <2> QED BY <1>8, <2>1, <2>2, <2>3, <2>4, <2>5, <2>6 DEF Thread
  <1>9. CASE Tick
    BY <1>9 DEF Tick, clientVars, threadVars, TypeOK
  <1>10. CASE UNCHANGED vars
    BY <1>10 DEF vars, clientVars, threadVars, TypeOK
  <1> QED
    BY <1>1, <1>2, <1>3, <1>4, <1>5, <1>6, <1>7, <1>8, <1>9, <1>10 DEF Next, Listener, Waiting

\* Types: the variables keep their types, and the counter its width (MaRTA.c:12).
THEOREM TypeCorrect == Spec => []TypeOK
  <1>1. Init => TypeOK
    BY InitTypes
  <1>2. TypeOK /\ [Next]_vars => TypeOK'
    BY StepTypes
  <1> QED BY <1>1, <1>2, PTL DEF Spec

----------------------------------------------------------------------------
\* The text that goes in a name is one word, without the blanks that would break a command
\* of the shell, unless another thread began to write meanwhile (job.c:17).
THEOREM Words == Spec => []NamesAreWords
  <1>1. Init => NamesAreWords
    BY DEF Init, NamesAreWords
  <1>2. TypeOK /\ NamesAreWords /\ [Next]_vars => NamesAreWords'
    <2> SUFFICES ASSUME TypeOK, NamesAreWords, [Next]_vars, NEW k \in Jobs,
                        thread'[k] = "copy", k \notin touched'
                 PROVE  buffer'.word
      BY DEF NamesAreWords
    <2>1. ASSUME NEW j \in Jobs, WriteTime(j) PROVE FALSE
      BY <2>1 DEF WriteTime, InThread, TypeOK
    <2>2. ASSUME NEW j \in Jobs, EditTime(j) PROVE buffer'.word
      BY <2>2 DEF EditTime, TypeOK, Text
    <2>3. ASSUME NEW j \in Jobs, Thread(j), ~WriteTime(j), ~EditTime(j) PROVE buffer'.word
      <3>1. UNCHANGED <<buffer, touched>>
        BY <2>3 DEF Thread, Count, TakeNumber, RecvRequest, RequestLost, CopyTime, Planned
      <3>2. thread[k] = "copy"
        BY <2>3 DEF Thread, Count, TakeNumber, RecvRequest, RequestLost, CopyTime, Planned,
                    InThread, TypeOK
      <3> QED BY <3>1, <3>2 DEF NamesAreWords
    <2>4. CASE Welcome
      BY <2>4 DEF Welcome, TypeOK, NamesAreWords
    <2>5. CASE UNCHANGED <<thread, buffer, touched>>
      BY <2>5 DEF NamesAreWords
    <2> QED
      BY <2>1, <2>2, <2>3, <2>4, <2>5
      DEF Next, Listener, Tick, Waiting, Greet, Forget, Connect, GiveName, Lose, Ask,
          vars, threadVars
  <1>3. Init => TypeOK
    BY InitTypes
  <1>4. TypeOK /\ [Next]_vars => TypeOK'
    BY StepTypes
  <1> QED BY <1>1, <1>2, <1>3, <1>4, PTL DEF Spec

----------------------------------------------------------------------------
(* The numbers of the jobs.                                                 *)

\* A connection waits once, and a thread is of a job that was welcomed.
Queued ==
    /\ \A m \in DOMAIN queue : client[queue[m]] = "queued"
    /\ \A m, n \in DOMAIN queue : queue[m] = queue[n] => m = n
Accepted == \A j \in Jobs : thread[j] # "none" => client[j] \in {"welcomed", "asked"}

\* A job counts once.
CountedOnce ==
    /\ \A m, n \in DOMAIN counted : counted[m] = counted[n] => m = n
    /\ \A j \in Jobs :
         thread[j] \in {"none", "count"} <=> \A m \in DOMAIN counted : counted[m] # j

\* The counter after n jobs, while they are not more than its values.
Number(n) == IF n = Width THEN 0 ELSE n
Numbered(j) == thread[j] \notin {"none", "count", "read"}

\* The number of a job is that of a moment after it counted.
Numbers ==
    /\ Len(counted) <= Width => cantJobs = Number(Len(counted))
    /\ \A j \in Jobs : Numbered(j) =>
         /\ seen[j] <= Len(counted)
         /\ \A m \in DOMAIN counted : counted[m] = j => m <= seen[j]
         /\ Len(counted) <= Width => id[j] = Number(seen[j])

\* Names have the number of their job.
Named ==
    \A j \in Jobs : \A n \in DOMAIN names[j] : Numbered(j) /\ names[j][n].id = id[j]

Once == Queued /\ Accepted /\ CountedOnce
Inv == TypeOK /\ Once /\ Numbers /\ Named

\* The remainder of a division by Width.
LEMMA NextNumber ==
    ASSUME NEW x \in 0 .. Width - 1
    PROVE  (x + 1) % Width = IF x + 1 = Width THEN 0 ELSE x + 1
  <1> USE AcceptAssumption
  <1>1. CASE x + 1 = Width
    BY <1>1
  <1>2. CASE x + 1 < Width
    BY <1>2
  <1> QED BY <1>1, <1>2

\* Only a welcome and the threads change what the threads share.
LEMMA ThreadSteps ==
    [Next]_vars => Welcome \/ (\E j \in Jobs : Thread(j)) \/ UNCHANGED threadVars
  <1> SUFFICES ASSUME [Next]_vars
               PROVE  Welcome \/ (\E j \in Jobs : Thread(j)) \/ UNCHANGED threadVars
    OBVIOUS
  <1>1. CASE Greet \/ Forget \/ Tick
    BY <1>1 DEF Greet, Forget, Tick
  <1>2. CASE Waiting \/ UNCHANGED vars
    BY <1>2 DEF Waiting, vars
  <1>3. ASSUME NEW c \in Clients, Connect(c) \/ GiveName(c) \/ Lose(c)
        PROVE  UNCHANGED threadVars
    BY <1>3 DEF Connect, GiveName, Lose
  <1>4. ASSUME NEW j \in Jobs, Ask(j) PROVE UNCHANGED threadVars
    BY <1>4 DEF Ask
  <1> QED BY <1>1, <1>2, <1>3, <1>4 DEF Next, Listener

\* The queue of connections, as processes connect and are greeted.
LEMMA StepQueued == TypeOK /\ Queued /\ [Next]_vars => Queued'
  <1> SUFFICES ASSUME TypeOK, Queued, [Next]_vars PROVE Queued'
    OBVIOUS
  <1>1. ASSUME NEW c \in Clients, Connect(c) PROVE Queued'
    <2>1. \A m \in DOMAIN queue : queue[m] \in Clients /\ queue[m] # c
      BY <1>1 DEF Connect, At, Queued, TypeOK
    <2>2. /\ Len(queue') = Len(queue) + 1 /\ DOMAIN queue' = 1 .. Len(queue) + 1
          /\ \A m \in 1 .. Len(queue) : queue'[m] = queue[m]
          /\ queue'[Len(queue) + 1] = c
      BY <1>1 DEF Connect, TypeOK
    <2>3. client' = [client EXCEPT ![c] = "queued"] /\ client \in [Clients -> Stages]
      BY <1>1 DEF Connect, Goes, TypeOK
    <2>4. \A m \in DOMAIN queue : client[queue[m]] = "queued"
      BY DEF Queued
    <2>5. \A m \in DOMAIN queue' : client'[queue'[m]] = "queued"
      <3> SUFFICES ASSUME NEW m \in DOMAIN queue' PROVE client'[queue'[m]] = "queued"
        OBVIOUS
      <3>1. CASE m \in 1 .. Len(queue)
        <4>1. m \in DOMAIN queue /\ queue'[m] = queue[m]
          BY <2>2, <3>1 DEF TypeOK
        <4> QED BY <2>1, <2>3, <2>4, <4>1
      <3>2. CASE m = Len(queue) + 1
        BY <2>2, <2>3, <3>2
      <3>3. Len(queue) \in Nat
        BY DEF TypeOK
      <3> QED BY <2>2, <3>1, <3>2, <3>3
    <2>6. \A m, n \in DOMAIN queue : queue[m] = queue[n] => m = n
      BY DEF Queued
    <2>7. Len(queue) \in Nat /\ DOMAIN queue = 1 .. Len(queue)
      BY DEF TypeOK
    <2>8. \A m, n \in DOMAIN queue' : queue'[m] = queue'[n] => m = n
      BY <2>1, <2>2, <2>6, <2>7
    <2> QED BY <2>5, <2>8 DEF Queued
  <1>2. ASSUME NEW c \in Clients, client[c] # "queued", NEW s \in Stages, Goes(c, s),
               UNCHANGED queue
        PROVE  Queued'
    BY <1>2 DEF Goes, Queued, TypeOK
  <1>3. CASE Greet
    <2>1. /\ Len(queue) > 0 /\ DOMAIN queue' = 1 .. Len(queue) - 1
          /\ \A m \in 1 .. Len(queue) - 1 : queue'[m] = queue[m + 1]
          /\ Head(queue) = queue[1]
      BY <1>3 DEF Greet, TypeOK
    <2>2. ASSUME NEW m \in DOMAIN queue'
          PROVE  /\ m + 1 \in DOMAIN queue /\ queue'[m] = queue[m + 1]
                 /\ queue[m + 1] \in Clients /\ queue[m + 1] # Head(queue)
      <3>1. m \in 1 .. Len(queue) - 1 /\ Len(queue) \in Nat /\ DOMAIN queue = 1 .. Len(queue)
        BY <2>1 DEF TypeOK
      <3>2. m + 1 \in DOMAIN queue /\ 1 \in DOMAIN queue /\ m + 1 # 1
        BY <3>1
      <3>3. queue[m + 1] # queue[1]
        BY <3>2 DEF Queued
      <3>4. queue[m + 1] \in Clients
        BY <3>2 DEF TypeOK
      <3> QED BY <2>1, <3>1, <3>2, <3>3, <3>4
    <2>3. \A m \in DOMAIN queue' : client'[queue'[m]] = "queued"
      BY <1>3, <2>2 DEF Greet, Goes, Queued, TypeOK
    <2>4. \A m, n \in DOMAIN queue' : queue'[m] = queue'[n] => m = n
      <3> SUFFICES ASSUME NEW m \in DOMAIN queue', NEW n \in DOMAIN queue',
                          queue'[m] = queue'[n]
                   PROVE  m = n
        OBVIOUS
      <3>1. m + 1 = n + 1
        BY <2>2 DEF Queued
      <3>2. m \in Nat /\ n \in Nat
        BY <2>1
      <3> QED BY <3>1, <3>2
    <2> QED BY <2>3, <2>4 DEF Queued
  <1>4. CASE UNCHANGED <<client, queue>>
    BY <1>4 DEF Queued
  <1>5. ASSUME NEW j \in Jobs, Thread(j) PROVE UNCHANGED <<client, queue>>
    BY <1>5 DEF Thread, Count, TakeNumber, RecvRequest, RequestLost, WriteTime, EditTime,
                CopyTime, Planned, InThread, clientVars
  <1>6. CASE Welcome
    BY <1>2, <1>6 DEF Welcome, Free, Clients, Stages
  <1>7. ASSUME NEW c \in Clients, GiveName(c) PROVE Queued'
    BY <1>2, <1>7 DEF GiveName, At, Stages
  <1>8. ASSUME NEW j \in Jobs, Ask(j) PROVE Queued'
    BY <1>2, <1>8 DEF Ask, At, Stages, Clients
  <1> QED
    BY <1>1, <1>3, <1>4, <1>5, <1>6, <1>7, <1>8
    DEF Next, Listener, Forget, Free, Lose, Tick, Waiting, vars, clientVars

\* A process that is welcomed has no thread yet.
LEMMA StepAccepted == TypeOK /\ Queued /\ Accepted /\ [Next]_vars => Accepted'
  <1> SUFFICES ASSUME TypeOK, Queued, Accepted, [Next]_vars PROVE Accepted'
    OBVIOUS
  <1>1. ASSUME NEW c \in Clients, client[c] \notin {"welcomed", "asked"}, NEW s \in Stages,
               Goes(c, s), UNCHANGED thread
        PROVE  Accepted'
    BY <1>1 DEF Goes, Accepted, TypeOK, Clients
  <1>2. ASSUME NEW c \in Clients, Connect(c) \/ GiveName(c) PROVE Accepted'
    BY <1>1, <1>2 DEF Connect, GiveName, At, Stages, threadVars
  <1>3. CASE Greet
    <2>1. Head(queue) \in Clients /\ client[Head(queue)] = "queued"
      BY <1>3 DEF Greet, Queued, TypeOK
    <2> QED BY <1>1, <1>3, <2>1 DEF Greet, Stages, threadVars
  <1>4. CASE Welcome
    BY <1>4 DEF Welcome, Goes, Accepted, TypeOK, Clients
  <1>5. ASSUME NEW j \in Jobs, Ask(j) PROVE Accepted'
    BY <1>5 DEF Ask, At, Goes, Accepted, TypeOK, Clients, threadVars
  <1>6. ASSUME NEW j \in Jobs, Thread(j) PROVE Accepted'
    <2>1. /\ client' = client /\ thread[j] # "none"
          /\ \E s \in Places : thread' = [thread EXCEPT ![j] = s]
      BY <1>6 DEF Thread, Count, TakeNumber, RecvRequest, RequestLost, WriteTime, EditTime,
                  CopyTime, Planned, InThread, clientVars, Places
    <2> QED BY <2>1 DEF Accepted, TypeOK
  <1>7. CASE UNCHANGED <<client, thread>>
    BY <1>7 DEF Accepted
  <1> QED
    BY <1>2, <1>3, <1>4, <1>5, <1>6, <1>7
    DEF Next, Listener, Forget, Free, Lose, Tick, Waiting, vars, clientVars, threadVars

\* A thread counts once.
LEMMA StepCounted == TypeOK /\ Queued /\ Accepted /\ CountedOnce /\ [Next]_vars => CountedOnce'
  <1> SUFFICES ASSUME TypeOK, Accepted, CountedOnce, [Next]_vars PROVE CountedOnce'
    OBVIOUS
  <1>1. ASSUME NEW j \in Jobs, Count(j) PROVE CountedOnce'
    <2>1. thread[j] = "count" /\ thread' = [thread EXCEPT ![j] = "read"]
      BY <1>1 DEF Count, InThread
    <2>2. /\ Len(counted) \in Nat /\ DOMAIN counted = 1 .. Len(counted)
          /\ DOMAIN counted' = 1 .. Len(counted) + 1
          /\ \A m \in 1 .. Len(counted) : counted'[m] = counted[m]
          /\ counted'[Len(counted) + 1] = j
      BY <1>1 DEF Count, TypeOK
    <2>3. \A m \in DOMAIN counted : counted[m] # j
      BY <2>1 DEF CountedOnce
    <2>4. \A m, n \in DOMAIN counted' : counted'[m] = counted'[n] => m = n
      BY <2>2, <2>3 DEF CountedOnce
    <2>5. \A k \in Jobs :
            thread'[k] \in {"none", "count"} <=> \A m \in DOMAIN counted' : counted'[m] # k
      <3> SUFFICES ASSUME NEW k \in Jobs
                   PROVE  thread'[k] \in {"none", "count"}
                            <=> \A m \in DOMAIN counted' : counted'[m] # k
        OBVIOUS
      <3>1. CASE k = j
        <4>1. thread'[k] = "read"
          BY <2>1, <3>1 DEF TypeOK
        <4>2. Len(counted) + 1 \in DOMAIN counted' /\ counted'[Len(counted) + 1] = k
          BY <2>2, <3>1
        <4> QED BY <4>1, <4>2
      <3>2. CASE k # j
        <4>1. thread'[k] = thread[k]
          BY <2>1, <3>2 DEF TypeOK
        <4>2. (\A m \in DOMAIN counted' : counted'[m] # k)
                <=> \A m \in DOMAIN counted : counted[m] # k
          BY <2>2, <3>2
        <4> QED BY <4>1, <4>2 DEF CountedOnce
      <3> QED BY <3>1, <3>2
    <2> QED BY <2>4, <2>5 DEF CountedOnce
  <1>2. CASE Welcome
    BY <1>2 DEF Welcome, Accepted, CountedOnce, TypeOK
  <1>3. ASSUME NEW j \in Jobs, Thread(j), ~Count(j) PROVE CountedOnce'
    <2>1. /\ counted' = counted /\ thread[j] \notin {"none", "count"}
          /\ \E s \in Places \ {"none", "count"} : thread' = [thread EXCEPT ![j] = s]
      <3>1. \E h \in Places \ {"none", "count"}, s \in Places \ {"none", "count"} :
              InThread(j, h, s)
        <4>1. {"read", "recv", "plan", "edit", "copy", "planned", "gone"}
                \subseteq Places \ {"none", "count"}
          BY DEF Places
        <4> QED
          BY <1>3, <4>1 DEF Thread, TakeNumber, RecvRequest, RequestLost, WriteTime,
                            EditTime, CopyTime, Planned
      <3>2. counted' = counted
        BY <1>3 DEF Thread, TakeNumber, RecvRequest, RequestLost, WriteTime, EditTime,
                    CopyTime, Planned
      <3> QED BY <3>1, <3>2 DEF InThread
    <2>2. thread \in [Jobs -> Places]
      BY DEF TypeOK
    <2> QED BY <2>1, <2>2 DEF CountedOnce
  <1>4. CASE UNCHANGED <<thread, counted>>
    BY <1>4 DEF CountedOnce
  <1>5. CASE UNCHANGED threadVars
    BY <1>4, <1>5 DEF threadVars
  <1>6. ASSUME NEW j \in Jobs, Thread(j) PROVE CountedOnce'
    BY <1>1, <1>3, <1>6
  <1> QED BY <1>2, <1>5, <1>6, ThreadSteps

\* The counter, and the numbers taken from it.
LEMMA StepNumbers == TypeOK /\ Once /\ Numbers /\ [Next]_vars => Numbers'
  <1> SUFFICES ASSUME TypeOK, Once, Numbers, [Next]_vars PROVE Numbers'
    OBVIOUS
  <1> USE AcceptAssumption
  <1>1. ASSUME NEW j \in Jobs, Count(j) PROVE Numbers'
    <2>1. /\ Len(counted) \in Nat /\ DOMAIN counted = 1 .. Len(counted)
          /\ Len(counted') = Len(counted) + 1 /\ DOMAIN counted' = 1 .. Len(counted) + 1
          /\ \A m \in 1 .. Len(counted) : counted'[m] = counted[m]
          /\ counted'[Len(counted) + 1] = j
      BY <1>1 DEF Count, TypeOK
    <2>2. Len(counted') <= Width => cantJobs' = Number(Len(counted'))
      <3> SUFFICES ASSUME Len(counted) + 1 <= Width
                   PROVE  cantJobs' = Number(Len(counted) + 1)
        BY <2>1
      <3>1. cantJobs = Len(counted) /\ cantJobs \in 0 .. Width - 1
        <4>1. Len(counted) <= Width /\ Len(counted) # Width
          <5>1. \A k, w \in Nat : k + 1 <= w => k <= w /\ k # w
            OBVIOUS
          <5> QED BY <2>1, <5>1
        <4>2. cantJobs = Number(Len(counted))
          BY <4>1 DEF Numbers
        <4> QED BY <4>1, <4>2 DEF Number, TypeOK
      <3>2. cantJobs' = (cantJobs + 1) % Width
        BY <1>1 DEF Count
      <3> QED BY <3>1, <3>2, NextNumber DEF Number
    <2>3. ASSUME NEW k \in Jobs, Numbered(k)'
          PROVE  /\ seen'[k] <= Len(counted')
                 /\ \A m \in DOMAIN counted' : counted'[m] = k => m <= seen'[k]
                 /\ Len(counted') <= Width => id'[k] = Number(seen'[k])
      <3>1. k # j /\ Numbered(k) /\ seen' = seen /\ id' = id
        BY <1>1, <2>3 DEF Count, InThread, Numbered, TypeOK
      <3>2. seen[k] \in Nat
        BY DEF TypeOK
      <3> QED BY <2>1, <3>1, <3>2 DEF Numbers
    <2> QED BY <2>2, <2>3 DEF Numbers, Number
  <1>2. ASSUME NEW j \in Jobs, TakeNumber(j) PROVE Numbers'
    <2>1. /\ Len(counted) \in Nat /\ DOMAIN counted = 1 .. Len(counted)
          /\ UNCHANGED <<counted, cantJobs>>
      BY <1>2 DEF TakeNumber, TypeOK
    <2>2. /\ seen'[j] = Len(counted) /\ id'[j] = cantJobs
          /\ \A k \in Jobs : k # j => /\ seen'[k] = seen[k] /\ id'[k] = id[k]
                                      /\ thread'[k] = thread[k]
      BY <1>2 DEF TakeNumber, InThread, TypeOK
    <2>3. Len(counted) <= Width => cantJobs = Number(Len(counted))
      BY DEF Numbers
    <2>4. ASSUME NEW k \in Jobs, Numbered(k)'
          PROVE  /\ seen'[k] <= Len(counted)
                 /\ \A m \in DOMAIN counted : counted[m] = k => m <= seen'[k]
                 /\ Len(counted) <= Width => id'[k] = Number(seen'[k])
      <3>1. CASE k = j
        BY <2>1, <2>2, <2>3, <3>1
      <3>2. CASE k # j
        BY <2>2, <2>4, <3>2 DEF Numbers, Numbered
      <3> QED BY <3>1, <3>2
    <2> QED BY <2>1, <2>3, <2>4 DEF Numbers, Number
  <1>3. ASSUME NEW j \in Jobs, Thread(j), ~Count(j), ~TakeNumber(j), ~Planned(j)
        PROVE  Numbers'
    <2>1. /\ UNCHANGED <<counted, cantJobs, seen, id>> /\ Numbered(j)
          /\ \E s \in Places : thread' = [thread EXCEPT ![j] = s]
      BY <1>3 DEF Thread, RecvRequest, RequestLost, WriteTime, EditTime, CopyTime,
                  InThread, Places, Numbered
    <2> QED BY <2>1 DEF Numbers, Number, Numbered, TypeOK
  <1>4. ASSUME NEW j \in Jobs, Planned(j) PROVE Numbers'
    BY <1>4 DEF Planned, InThread, Numbers, Number, Numbered, TypeOK
  <1>5. CASE Welcome
    BY <1>5 DEF Welcome, Numbers, Number, Numbered, TypeOK
  <1>6. CASE UNCHANGED threadVars
    BY <1>6 DEF threadVars, Numbers, Number, Numbered
  <1>7. ASSUME NEW j \in Jobs, Thread(j) PROVE Numbers'
    BY <1>1, <1>2, <1>3, <1>4, <1>7
  <1> QED BY <1>5, <1>6, <1>7, ThreadSteps

\* A name is made with the number its job has, which does not change.
LEMMA StepNamed == TypeOK /\ Once /\ Named /\ [Next]_vars => Named'
  <1> SUFFICES ASSUME TypeOK, Once, Named, [Next]_vars PROVE Named'
    OBVIOUS
  <1>1. ASSUME NEW j \in Jobs, CopyTime(j) PROVE Named'
    <2>1. PICK t \in Temps :
            names' = [names EXCEPT ![j] = Append(@,
                        [at |-> buffer.at, word |-> buffer.word, id |-> id[j], of |-> t])]
      BY <1>1 DEF CopyTime
    <2>2. /\ id' = id /\ Numbered(j) /\ Numbered(j)'
          /\ \A k \in Jobs : k # j => thread'[k] = thread[k]
      BY <1>1 DEF CopyTime, InThread, Numbered, TypeOK
    <2> DEFINE name == [at |-> buffer.at, word |-> buffer.word, id |-> id[j], of |-> t]
    <2>3. /\ names'[j] = Append(names[j], name) /\ name.id = id[j]
          /\ \A k \in Jobs : k # j => names'[k] = names[k]
      BY <2>1 DEF TypeOK
    <2> HIDE DEF name
    <2>4. ASSUME NEW n \in DOMAIN names'[j] PROVE names'[j][n].id = id[j]
      <3>1. /\ names[j] \in Seq(Name) /\ Len(names[j]) \in Nat
            /\ DOMAIN names[j] = 1 .. Len(names[j])
        BY DEF TypeOK
      <3>2. CASE n = Len(names[j]) + 1
        BY <2>3, <3>1, <3>2
      <3>3. CASE n # Len(names[j]) + 1
        <4>1. n \in DOMAIN names[j] /\ names'[j][n] = names[j][n]
          BY <2>3, <2>4, <3>1, <3>3
        <4> QED BY <4>1 DEF Named
      <3> QED BY <3>2, <3>3
    <2>5. ASSUME NEW k \in Jobs, NEW n \in DOMAIN names'[k], k # j
          PROVE  Numbered(k)' /\ names'[k][n].id = id'[k]
      BY <2>2, <2>3, <2>5 DEF Named, Numbered
    <2> QED BY <2>2, <2>4, <2>5 DEF Named
  <1>2. ASSUME NEW j \in Jobs, TakeNumber(j) PROVE Named'
    <2>1. /\ names' = names /\ ~Numbered(j)
          /\ \A k \in Jobs : k # j => thread'[k] = thread[k] /\ id'[k] = id[k]
      BY <1>2 DEF TakeNumber, InThread, Numbered, TypeOK
    <2> QED BY <2>1 DEF Named, Numbered
  <1>3. ASSUME NEW j \in Jobs, Thread(j), ~CopyTime(j), ~TakeNumber(j) PROVE Named'
    <2>1. /\ UNCHANGED <<names, id>> /\ (Numbered(j) => Numbered(j)')
          /\ \A k \in Jobs : k # j => thread'[k] = thread[k]
      BY <1>3 DEF Thread, Count, RecvRequest, RequestLost, WriteTime, EditTime, Planned,
                  InThread, Numbered, TypeOK
    <2> QED BY <2>1 DEF Named, Numbered
  <1>4. CASE Welcome
    <2>1. /\ UNCHANGED <<names, id>> /\ ~Numbered(served)
          /\ \A k \in Jobs : k # served => thread'[k] = thread[k]
      BY <1>4 DEF Welcome, Once, Accepted, Numbered, TypeOK
    <2> QED BY <2>1 DEF Named, Numbered
  <1>5. CASE UNCHANGED threadVars
    BY <1>5 DEF threadVars, Named, Numbered
  <1>6. ASSUME NEW j \in Jobs, Thread(j) PROVE Named'
    BY <1>1, <1>2, <1>3, <1>6
  <1> QED BY <1>4, <1>5, <1>6, ThreadSteps

\* A job that counts later, when the earlier has its number, gets another.
LEMMA OtherNumber ==
    ASSUME Inv, Len(counted) <= Width, NEW a \in Jobs, NEW b \in Jobs,
           Numbered(a), Numbered(b), ~Together(a, b),
           NEW m \in DOMAIN counted, NEW n \in DOMAIN counted,
           counted[m] = a, counted[n] = b, m < n
    PROVE  id[a] # id[b]
  <1>1. /\ m \in Nat /\ n \in Nat /\ m >= 1 /\ Len(counted) \in Nat
        /\ seen[a] \in Nat /\ seen[b] \in Nat
    <2>1. counted \in Seq(Jobs) /\ seen \in [Jobs -> Nat]
      BY DEF Inv, TypeOK
    <2> QED BY <2>1
  <1>2. m <= seen[a] /\ n <= seen[b] /\ seen[b] <= Width
    BY <1>1, AcceptAssumption DEF Inv, Numbers
  <1>3. seen[a] < n
    BY <1>1 DEF Together
  <1>4. id[a] = Number(seen[a]) /\ id[b] = Number(seen[b])
    BY DEF Inv, Numbers
  <1> QED BY <1>1, <1>2, <1>3, <1>4, AcceptAssumption DEF Number

\* Jobs with a number give different names unless they took it together.
LEMMA NamesApart == Inv => NamesTellApart
  <1> SUFFICES ASSUME Inv, Len(counted) <= Width, NEW a \in Jobs, NEW b \in Jobs, a # b,
                      ~Together(a, b), ~Together(b, a),
                      NEW p \in DOMAIN names[a], NEW q \in DOMAIN names[b]
               PROVE  names[a][p] # names[b][q]
    BY DEF NamesTellApart
  <1>1. /\ Numbered(a) /\ Numbered(b)
        /\ names[a][p].id = id[a] /\ names[b][q].id = id[b]
    BY DEF Inv, Named
  <1>2. PICK m \in DOMAIN counted, n \in DOMAIN counted : counted[m] = a /\ counted[n] = b
    BY <1>1 DEF Inv, Once, CountedOnce, Numbered
  <1>3. m \in Nat /\ n \in Nat /\ m # n
    <2>1. DOMAIN counted = 1 .. Len(counted)
      BY DEF Inv, TypeOK
    <2>2. m \in Nat /\ n \in Nat
      BY <2>1
    <2> QED BY <1>2, <2>2
  <1>4. id[a] # id[b]
    <2>1. CASE m < n
      BY <1>1, <1>2, <2>1, OtherNumber
    <2>2. CASE n < m
      BY <1>1, <1>2, <2>2, OtherNumber
    <2> QED BY <1>3, <2>1, <2>2
  <1> QED BY <1>1, <1>4

\* Two jobs give one name to a file only if one counted between the other's count and
\* its reading of the counter (JobConnection.c:19), until the counter has gone round.
THEOREM NamesDiffer == Spec => []NamesTellApart
  <1>1. Init => Inv
    <2> SUFFICES ASSUME Init PROVE Inv
      OBVIOUS
    <2>1. Once
      BY DEF Init, Once, Queued, Accepted, CountedOnce
    <2>2. Numbers /\ Named
      BY AcceptAssumption DEF Init, Numbers, Number, Numbered, Named
    <2> QED BY <2>1, <2>2, InitTypes DEF Inv
  <1>2. Inv /\ [Next]_vars => Inv'
    BY StepTypes, StepQueued, StepAccepted, StepCounted, StepNumbers, StepNamed DEF Inv, Once
  <1> QED BY <1>1, <1>2, NamesApart, PTL DEF Spec
=============================================================================
