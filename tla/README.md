# Sachida: a distributed file system with MapReduce, in TLA+

The models, checks and proofs of this directory are about the C program in `src/`: a file
system spread over nodes (the MDFS) and a scheduler that runs maps and reduces where the blocks
are. This file is the inventory of the system, the account of what is modelled, checked and
proved, and the plan of what is left. `PROJECT.json` lists the same things for tools: components,
runs, mutants, the map from definitions to source lines, findings, hazards and theorems.

## 1. Inventory

Four programs talk over TCP (`src/utils/socket.c`: a packet is a size and then its contents; no
receive has a time limit, so a call ends with a packet or with the loss of the connection).

| program | state | operations | threads |
|---|---|---|---|
| **FileSystem** `src/FileSystem/src` | a database with a document per file (path, copies of each block), per node (bitmap of used blocks) and per directory; the connections with the nodes, *active* or *standby*; a mutex per node | console: `cp`, `rm`, `cpb`, `rmb`, `format`, `mv`, `rename`, `mkdir`, `enablen`, `disablen` ...; for MaRTA: where the blocks of a file are, copy a final result | console; listener; a thread per node that connects, which becomes a checker of that connection; the thread of MaRTA; a sender per block copy |
| **MaRTA** `src/MaRTA/src` | the table of nodes (active flag, list of maps, counter of reduces); per job its files, maps, reduces and the results awaited | plan and replan maps, plan reduces with or without combiner, ask for the copy of the result | a thread per job; `Mnodes` protects the table, `MFileSystem` the exchanges with the file system |
| **Nodo** `src/Nodo/src` | a mapped file of blocks; temporary files | store and send blocks; run a map; gather files and run a reduce; send a temporary file to another node | file system connection; listener; a thread per connection; a thread per file that a reduce gathers |
| **Job** `src/Job/src` | the orders it carries out | receive an order, have the node do it, send the result | a thread per order; `Msockmarta` protects the socket of MaRTA |

How they interact: a job sends its files to MaRTA, which asks the file system for the nodes that
hold each block, chooses nodes and sends orders to the job. The job connects to the node of each
order and passes the result on. A reduce makes its node fetch files from other nodes. The
result is copied by the file system, which fetches it from the node, cuts it into blocks and
stores each on three nodes (`FILESYSTEM_BLOCK_COPIES`).

What is hard, and the properties that make each part correct:

* **MaRTA.** Results come in any order, fail, and are replanned from *inside* the receive loop
  (`rePlanMap` calls `recvResult`), so the number of packets still to come is spread over nested
  calls. The table of nodes is shared by all jobs, and `removeMapNode` takes off an entry by its
  block number, whoever added it. Another job's bad result may deactivate a node that was just
  chosen. *Correct* means: a loop waits for what was ordered and no more; the final reduce joins
  each map once, in spite of fallen nodes; a job that ends with OK had all its blocks mapped;
  every job ends; the load of a node is what it carries out.
* **MaRTA, accepting jobs.** The listener shakes hands with one process at a time; a job's thread reads the
  counter after it gave its lock back, and names files with the text all threads make in one static buffer. *Correct*
  means: a job that connects is taken in; files of two jobs have two names; a name is one word.
* **File system, blocks.** The console, MaRTA's thread and the nodes that connect change the same
  documents with no lock, and read and write bitmaps whole. A block is sent with no answer. *Correct*
  means: no two blocks in one place; the bitmap marks what documents name; copies of a block are in
  different nodes; what a dead node costs is bounded.
* **File system, connections.** Two dictionaries with two locks, node mutexes created on first use,
  a checker that follows a name instead of a connection. *Correct* means: a connection is freed once and
  not found afterwards; the two packets of a `set` go together; an answer is for the thread that
  waits for it; an exchange ends whatever breaks.
* **MaRTA and the file system.** One socket for all jobs, made again when it breaks, while the other end
  may not have noticed. *Correct* means: an answer is to what the job asked, found since it asked; a
  result is stored once; a job that asks is answered.
* **Texts and packets.** A file is cut at line ends; a packet arrives in pieces, or a part of it. *Correct*
  means: the cut loses nothing and ends; what is read back is what was stored; a block changes no other.
* **File system, directories.** `mv` and `rename` check nothing that `mkdir` and `cp` check;
  `rm -r` walks a tree that MaRTA's thread may be adding to. *Correct* means: what could be reached from
  the root still can; `rm -r` removes what was asked, no more, and ends; the prompt names the directory.
* **Nodo.** A reduce gathers files with threads that share a flag and the name of the node to
  blame; files are copied as strings from a mapping. *Correct* means: a reduce that says OK joined every
  file; the node blamed is one that failed; a node does not stop because of what a file holds.
* **Job.** Threads share a socket, nodes are lost, and the process may end at any time. *Correct*
  means: packets are whole, every order gets its result.
* **Aside.** `src/Ejemplos`, `src/FileSystem/mongotests`, `src/Job/scripts`, the tests, installers
  and build files are not part of the running system.

## 2. Modules

| module | what it is | code |
|---|---|---|
| `Marta` | the scheduler: the threads of the jobs and the table of nodes | `src/MaRTA/src` |
| `Marta_proofs` | its types, orders and results, load and reduce counters, what a result joins, what one job covers | |
| `Accept` | how jobs connect and are taken in, their numbers and the names of their files | `Connection.c`, `JobConnection.c`, `structs/job.c` of MaRTA; `src/Job/src/marta/marta.c`; `socket.c` |
| `Accept_proofs` | its types, numbers and names | |
| `FSService` | what the file system promises to the jobs (abstract) | |
| `FSLink` | the connection between MaRTA and the file system, which implements it | `FSConnection.c`, `connections.c`, `connections_marta.c` |
| `FSLink_proofs` | its types, one job at a time, and the refinement | |
| `BlockStore` | documents, bitmaps, blocks and connections of nodes | `filesystem.c`, `connections_node.c`, `structs/node.c`, `mongo_*.c`, `console.c` |
| `BlockStore_proofs` | its types, the copies of a block in different nodes; places, bitmaps and what a death spoils when the console is alone | |
| `DirectoryTree` | directories, files, paths and the prompt | `filesystem.c`, `console.c`, `mongo_dir.c`, `mongo_file.c` |
| `DirectoryTree_proofs` | its types, what `rm -r` removes, what stays within reach, the prompt, what the process ends by | |
| `NodeLink` | the connection between the file system and a node | `connections_node.c`, `connections_fs.c`, `node.c` |
| `NodeLink_proofs` | its types, who owns a connection, what the blocks hold, whose the answers are | |
| `Transfer` | cutting a text, its packets, the bytes of a node's space, joining | `filesystem.c`, `socket.c`, `node.c` |
| `Transfer_proofs` | the cut, the blocks beside, the text that comes back | |
| `Worker` | the threads of a job's orders and of the nodes that do them | `src/Job/src/marta/marta.c`, `src/Nodo/src/connections/*`, `src/Nodo/src/node.c` |
| `Worker_proofs` | its types, the socket of MaRTA, the files of a reduce, the nodes blamed | |
| `MCMarta`, `MCAccept`, `MCFSLink`, `MCBlockStore`, `MCDirectoryTree`, `MCNodeLink`, `MCTransfer`, `MCWorker` | instances for TLC | |

The programs meet only through packets, so each module has its neighbours as an environment: in
`Marta` a job answers an order in any order and with any result, or is lost, and the file system
names whatever active holders there are; in `Worker` an order comes when the results it needs
were sent, as MaRTA does it; in `BlockStore` and `DirectoryTree` the thread of MaRTA stores a result at
any time. Where the two sides of a connection share enough to be wrong together, one module has
both: `FSLink` (MaRTA and the file system), `NodeLink` (the file system and a node), `Transfer` (the bytes
of both), `Worker` (a job and the nodes). `Marta` takes an exchange with the file system as one step
that gives an answer to what was asked; `FSService` states that promise, and `FSLink` is shown to
keep it, up to the case named below.

### Marta

A step is one critical section of `Mnodes`, one exchange with the file system, one packet
received, or a stretch of code on the thread's own variables. `pc[j]` is where the thread of job
`j` is; nested calls are flattened, with `caller` for who asked for a replan:
`request`/`apply` = `requestFileBlocks` before and after `MFileSystem` is released; `plan`, `add`,
`unplan` = the walk of `planMaps`, where `list_add` on the node's list runs after `Mnodes` was
released; `wait`, `deact` = `recvResult` in the map phase and the deactivation of a node after
a bad result; `redo` = maps run again because a reduce failed (`rePlanMapsFromNode`, and the list
of fallen nodes of `combinerReducePlanning`); `pick`, `notify`, `waitred`, `deactred`, `pickfinal` =
the reduces; `copy` = `copyFinalTemporal`; `free` = `freeJob`, a map at a time.
`load[n][b]` counts the entries for block `b` in `node->maps` (a list of numbers, with repeats);
`pending` and `orders` are what was ordered and not answered; `await` is how many packets the
enclosing loops will still receive. Lists are sets: the order in which one is walked is left
open, and so are ties between equally loaded nodes.

### Accept

The thread of a job up to its planning, which `Marta` takes from there. `client[c]` is how far a process is
(`queued`, `greeted`, `named`, `welcomed`, `asked`), `served` the one the listener shakes hands with, `thread[j]` where
`acceptJob` is. `Count` is the critical section of `McantJobs` and `TakeNumber` the reading after it. A name is made in three
steps: `WriteTime` (`asctime`), `EditTime` (the loop that puts dashes), `CopyTime` (`strcat` into the name). Each is a loop over
the buffer; taken whole, they already let another thread in between, and a partly edited text would be one that is not a
word too. Of a text and a name the model keeps the second and whether it is one `word`. `RequestLost` frees what was
not set or was freed already (`JobConnection.c:58`), so MaRTA may stop (`aborted`). `counted`, `seen` and `touched` are
history. `Others` are refused, `Silents` connect and say nothing.

### FSService and FSLink

`FSService` has the jobs, what each asks, the results found for it since it asked (one at most for a
copy) and the answer it got. `FSLink` has the same variables among its own, so the refinement is
`INSTANCE FSService` with no substitution; `results` is a history variable.

A step of `FSLink` is one packet sent or received, one test or assignment of the global `martaSocket`, or
the taking of `MFileSystem`. `pc[j]`: `lock` waits for the mutex; `send`, `recv` = the exchange;
`sendAgain` and `recvAgain` = `FSConnectionLost` and `connectFS` before, for the blocks, the request is
sent again, or, for a copy, only the receive is (`strand`). In the file system each connection has an
accepting thread (`shaken`, `check`, `set`: the handshake, the test of `martaSocket`, its
assignment) and a listening one (`recv`, `work`, `answer`), which reads the socket `lsock` it began to read
and answers on the `martaSocket` of that moment. A packet sent on a broken connection is lost with or
without an error; what was on its way may still arrive. Connections are used again when both ends
have forgotten them, so a small set gives any number of reconnections.

### BlockStore

A step is one operation of the database, one block sent or fetched, or a stretch of local code.
`used[n]` is the bitmap in the document of node `n`, `snap[t]` a thread's copy of the bitmaps,
read whole (`ReadNodes`) and written whole (`SaveBits`); `copies[f]` the copies a document
names; `disk` what a node really holds: a block of the file that a given thread stored at a path,
or stale data. `joining` and `pulls` are where the accepting thread of a node is in
`filesystem_addNode`. `failed` is the flag the senders set, and `JoinSenders` where it is read. Reading
memory after `file_free` (`filesystem.c:626`) is a nondeterministic outcome in `SaveFile`, the
crash included.

### DirectoryTree

`dirs` and `files` are the two collections, functions from the identities in use to a name and a
parent; `Root` has no document. A path is resolved in one step, as only the console changes directories;
`resolveDirPath` takes its steps one at a time, and keeps with the place reached the length of the prompt and whether
the code writes before the buffer or reads a document that is not there (`risk`). Commands that look first
and write later take two steps (`mkdir`, `cp`, `format`), with MaRTA's thread in between; that thread
walks its path a directory at a time. `stack` holds the calls of `filesystem_deleteDir` under way with
the lists each has read. `doomed`, `mark` and `stale` are history. The blocks of the files are in
`BlockStore`.

### NodeLink

There is one node, since nodes share nothing but the lock of each dictionary: `active` and `standby` are
what the dictionaries hold for it, `hand` the connection that `enablen` or `disablen` took out of one
and has not yet put into the other, `freed` those whose memory was released. `mutex`, `made`, `owner` and
`mine` are the mutex in `nodesMutex`, those ever made for the node, who holds each and the one each thread
found. A step is one critical section of a dictionary, one packet, or the taking of the mutex. Threads:
the console and MaRTA's (`sendBlock`, `getBlock`, `getFileContent`), a checker per connection
(`checkAlive`), an accepting thread per connection (`acc`), and the node's own thread (`link`, the block
`want`ed by `setBlockFromPacket`, `disk`). A thread that uses a freed connection may find in it its own
socket, any other or none (`Socket`).

### Transfer

One text, cut by the loop of `getBlocksFromStr` a turn at a time; then each piece is sent, stored in a
place of the node and read back. Bytes are characters, digits of the size or zero; `send` and `recv` take as
many as they like; the connection may be lost anywhere, in the middle of a size too, and
`setBlockFromPacket` writes its zero all the same. `Base` and `BlockSize` are scaled down.

### Worker

`jpc[o]` is the thread of order `o` in the job, `thread[o]` the thread of its connection in the
node: for a reduce, the files not asked for, those being fetched, those got, `failed` and
`nodeIdFailed`. An order also stands for the temporary file it leaves (the names tell orders
apart), of which the model keeps what trips a reader: `plain`, `empty` (its `mmap` fails and is not
checked) or `page` (it fills its last page, so nothing ends the string and the copy may or may not
stop the process). `page` has the behaviours of `plain` and of a crash, so the passing run uses it. A
node that blames itself sends `node_config->name` and frees it: from then on its name (`named`) may
compare or read as anything, or abort the process. `result` is what the thread of the job passes on. Two
facts of the code shape the model: a failed handshake is not told from a good one (the result is
never 0), but what follows fails, so a result is still sent; and the exit status of a routine is not
looked at (`system(...) != -1`, `pclose` ignored), so "ok" means that it was run.

## 3. Runs

Every run that passes is exhaustive over its instance. Each property has a mutant in `PROJECT.json`: a
plausible bug in one definition, under which TLC finds that property violated in the same run.

| run | instance | shows |
|---|---|---|
| `marta_solo` | 1 job without combiner; files of 2 and 1 blocks; 3 nodes, each block on 2; 2 faults | the thread ends whatever fails; OK covers all files |
| `marta_combiner` | the same job with combiner | partial reduces and fallen nodes: awaits match orders; each map is joined once; a node for the final reduce always exists; the thread ends |
| `marta_duo` | 2 jobs (one with combiner) that share a block; 2 nodes; 2 faults | the shared load lists and counters under every interleaving; the final reduce still joins each map once |
| `fs_link` | 2 jobs, 3 connections that are used again, 2 breaks | `FSLink` implements `FSService`; a job that asks is answered, but for the stranded copy |
| `store_console` | the console; a path of 2 blocks, 2 copies; 3 nodes of 2 blocks, 2 known at the start; a fault and a move | places, bitmaps and what a death costs |
| `store_marta` | console and MaRTA's thread; a path of 1 block; 2 nodes that say they are new when they connect | `cpb` never puts two copies in one node |
| `store_race` | the smallest instance of the finding of section 6 | the one run that TLC must find violated |
| `tree` | 2 names of different length, 7 paths, 2 directories and 1 file ever made, one path for MaRTA's results | what is out of reach is what `mv` put there; `rm -r` is exact and ends; the prompt |
| `node_link` | the console; 2 connections, each with its checker; 2 blocks, 2 moves, 1 packet on its way | owners of connections; data and blocks; answers and threads; exchanges end; a broken connection does not stay active while one checks |
| `transfer` | every text of up to 6 characters, one of them a newline; blocks of 4 bytes; 3 places | the cut, the text that comes back, the blocks beside |
| `accept` | 2 jobs, a process refused and a silent one; a counter of 2 values; 1 name per job, 2 seconds; a loss | a job is taken in; names of two jobs; names are words |
| `worker` | a job with combiner over 2 blocks: 2 maps, 2 partial reduces, a map and a partial reduce planned again after a failure, the final reduce; 2 nodes; a death and 2 refused calls | packets whole, no file missing from an OK reduce, blame on nodes that failed, every order answered |

**Why the bounds are enough.** *Marta*: with each block on two of three nodes, one fault makes a map
move and two leave a block with no node, so all the paths of the planning are taken; a fault is a bad
result, a node that drops, a copy that fails or a lost job, and a failed reduce that makes maps run
again needs just one. Two jobs are enough for what they share, the table of nodes, and one block in
common with two nodes is the case where entries of the lists are confused. One job has three maps
so that a final reduce has two files of one node and one of another. `marta_duo` states
safety only, and not `OkCoversFiles`, which two jobs violate (section 6). *FSLink*: two breaks let a
connection be lost again while the first loss is being repaired, and three connections let MaRTA hold one,
the file system another and a third be refused. *BlockStore*: two
blocks of two copies fill two nodes of two blocks, so a second store fails for lack of room
half way through its plan; a third node makes `cpb` have a choice. One path in `store_console` makes
every command meet the same document; two paths are used where two stores must both succeed
(`store_race`). `MaxMoves` bounds connections and `disablen`, which the checks need once: a second
one repeats the first with other nodes. `UsedAreReferenced` and `NoSharedPlace` are checked for
the console alone, because with MaRTA's thread they fail as `store_race` shows. *DirectoryTree*: two
directories are the least where one goes inside the other, a loop of two included, and where `rm -r` has a
call inside a call; one file is the console's or MaRTA's, and names of two lengths make `rename` change
the prompt. `MaxPrompt` only stops `cd` in a loop of directories. *NodeLink*: two connections are an old one and a
new one; the console competes with two checkers for the mutex; one packet on its way makes a sender wait for the node.
MaRTA's thread does with a node what the console does, and with it the run is longer than it should be; the three
safety properties are proved for any number of threads. *Accept*: two jobs are the least that share the counter and the
buffer, and the counter of two values goes round with them; the silent process and the refused one come before, between
or after; one loss is of any of them, at any time. *Transfer*: six characters and blocks of four
give an empty text, one that ends at a boundary, a piece that fills its block, a line that is too long, and up to
three pieces. *Worker*: the order graph is the smallest where a reduce has inputs of two nodes, of its own node only, and
is planned again; two refused calls let a failure happen in a node already blamed; a death and
a file that fills its page let both nodes of a reduce fail.

**Where runs stop.** The runs of `NodeLink` and `FSLink` have `CONSTRAINT Followed`. It is the
negation of the two (or one) states after which the code promises nothing: two mutexes were made for one
node, or a connection was used after it was freed (`NodeLink`); `martaSocket` was taken twice (`FSLink`).
TLC still generates and checks the states where this happens, and the properties say that nothing is claimed from there on
(`~Followed` or `twice` in them, as in the theorems); it does not go on from them. These states are not rare or
artificial: they are listed under "Also seen".
`NodeLink_proofs!Forgotten` holds with no such condition.

**Symmetry** is used in the runs of `MCBlockStore` only, which check safety. Its constants distinguish
no node among `n1`, `n2` (or none of the three in `store_race`): `Known` and `NewNodes` are
unions of orbits, and no action or property names a node.

**Fairness.** `Marta` and `Worker` have weak fairness for each thread: the threads of a process are
scheduled by the system, and a receive ends because the other end answers or the connection
breaks. That is why `WF_vars(Thread(j))` covers receiving: an order stays pending until the job's
thread answers it or the job is lost, and `EveryOrderAnswered` of `Worker` is the check of that
promise on the other side. A mutex is taken once per thread (`Msockmarta`), or for a single step
(`Mnodes`, `MFileSystem`), so no thread needs strong fairness. That the file system answers is an
assumption of `Marta`: see `EveryAskEnds` for when it does not. `NodeReturns`, `RecvOrder`,
faults, deaths and `JobEnds` have no fairness. `FSLink` has weak fairness for what each thread does and strong
for `Lock` (each job that waits gets `MFileSystem` in the end) and for `Admit` (again and again there are
enough nodes for MaRTA to be accepted; without it nothing would be answered). `Accept` has weak fairness for
the listener, each job, each thread and the answer of a refused process; none for `Lose`, nor for a silent one, so that one may
hold the listener for ever (`Held`), and `EveryJobIsTaken` says what follows if none does. `NodeLink` has weak
fairness for the node and for the second half of `enablen` and `disablen`, and strong for a thread's exchange and a
checker's turn, as they compete with each other for the mutex and the checker gives it back and takes it again for
ever, and for a probe that fails, of whichever checker: a dead connection does not swallow all that is sent without an error.
`Breaks`, `NodeConnects`, the accepting threads, and the commands have none. `DirectoryTree` has weak fairness for
the removal under way, and `Transfer` for the cutting. `BlockStore` has no liveness property.

**Deadlock** is checked in every run but `fs_link` and `transfer`. A copy whose connection is lost leaves its
job waiting for an answer nobody will send, with `MFileSystem`, and every other job behind it: in `FSLink` everything may
stop (`EveryAskEnds` says that this is the only way). `Transfer` ends when its text is back, or when it
failed. Elsewhere, where the system may rest for ever (all jobs served, a process that
crashed, a job that ended), the specifications have an explicit stuttering step: `Waiting`, `Crashed`, `Ended`.

## 4. Proofs

TLAPS checks these for every number of jobs, maps, nodes, orders, connections, blocks and faults. The only
assumptions are the constants' (`MartaAssumption`, `AcceptAssumption`, `WorkerAssumption`, `FSLinkAssumption`, `LinkAssumption`,
`BlockStoreAssumption`, `TreeAssumption`, `TransferAssumption`), which TLC evaluates in the runs, and the hypotheses written in
some theorems: `Alone` of `BlockStore` (the console is the only thread that stores, and no node that connects again says it is
new), `OneJob` and `HasFiles` of `Marta` (one job at a time, and its files have blocks). The runs `store_console` and
`marta_solo` satisfy them, `store_race` shows what happens without the first, and section 6 without `OneJob`.

| theorem | states | argument |
|---|---|---|
| `Marta_proofs!TypeCorrect` | `[]TypeOK` and `[]Locals` | `TypeOK` alone is not inductive: the node chosen in one step is indexed in the next. `Locals` says which local variables are set at each `pc` (a map in hand, a node selected, a node fallen). |
| `Marta_proofs!OrdersAwaited` | `[]AwaitsMatchOrders` | `await` is changed by code that runs far from where packets are read, so the invariant must say, phase by phase, which of a job's maps and reduces are ordered. `Books` (`MapBook` and `ReduceBook` for each job) does: while planning, the ordered maps are the planned ones; a map in hand to be ordered again is not pending; while reduces run no map is pending; what a loop awaits is what is to be ordered and what is ordered. `OtherBooks` proves that a thread leaves the books of other jobs alone, `OwnBooks` goes action by action. |
| `Marta_proofs!NoPhantomWork` | `[]NoPhantomMaps` | The list of a node may miss entries but never has one too many. An entry is added when a map is ordered (`Books`: it was not pending, so the count of running maps grows) and every step that ends an order removes one entry if there is any (`RemoveLowers`). |
| `Marta_proofs!ReducesAreCovered` | `[]ReducesCovered` | With `Books`: a reduce is ordered once, so a decrement always answers an increment. |
| `Marta_proofs!FinalJoinsOnce` | `[]FinalJoinsEachMapOnce` | `Results`, on top of `Books`: what `partials` and `temps` hold follows from the phase. Before the first reduces, and after `EndRedo` cleans, both are empty (`FreshBook`; an empty list of fallen nodes tells a first wait for maps from one that repeats them); while a partial reduce is ordered, or the final one is chosen, the partials are the maps where they are (`Parted`); while a final one is ordered, its files are of each planned map, once (`JoinedOnce`); and a planned map is done, ordered, or the one whose bad result is in hand (`DoneBook`). No map moves while a reduce is ordered, as `Books` says. |
| `Marta_proofs!OneJobCoversFiles` | `OneJob` implies `[]OkCoversFiles` | `CoverBook`, on top of `Books`. Only the thread of the job deactivates nodes, and it does not while it plans, so each block it was told of still has an active node and none is skipped (`unplan` is never reached). When the plan ends every block has its map, and it keeps it until the job is freed. |
| `Marta_proofs!OneJobNeverCrashes` | `OneJob` and `HasFiles` imply `[]NeverCrashes` | `ServeBook`, on top of `CoverBook` and `Results`: while the job waits and while it chooses nodes for reduces, some active node has a map of it (`Serves`). A node that falls takes maps with it, which are planned again on active nodes before the next choice, or the job fails. |
| `FSLink_proofs!TypeCorrect` | `[](TypeOK /\ OneHolder)` | `Local` adds what each thread has at each place: a job between its request and its answer asks for something, a listener that works has a request. `OneHolder` is `MFileSystem`. |
| `FSLink_proofs!Implements` | `Spec /\ []Followed => ServiceSpec` | The answer a job reads must be its own, though nothing in the packet says so. `Link` says why it is: on the connection MaRTA holds there is nothing, or one request, at work, or one answer found since, of the one job that waits for it (`Wire`); while `martaSocket` was not taken twice, one thread listens, on the connection in it (`OneListener`), and a request on its way is alone (`OneRequest`); the request of a copy is sent once, so while it is in the queue or at work nothing was found for it (`Copies`). The refinement then goes action by action: `Work` is `Find`, `Recv` is `Get`, all the others stutter. |
| `BlockStore_proofs!TypeCorrect` | `[]TypeOK` | In parts by what they are about (`Typed`). A full node is never asked for a free block, and a set of naturals that is not empty has a least one (`LeastNatural`), so `FirstFree` is a block of the node. |
| `BlockStore_proofs!CopiesApart` | `[]CopiesInDifferentNodes` | `Safe`, of each thread: the copies planned so far are in different nodes and of earlier blocks than the next; only the console does anything but store; while it copies a block, the file keeps its document (only the console takes one away) and the document names no copy of the block that was not read at the start (only the console adds one). So the node `cpb` chooses is still one without a copy when the document is saved. |
| `BlockStore_proofs!NothingOverwritten` | `Alone` implies `[]NoSharedPlace` | A plan is made on bitmaps read long before they are saved, so the invariant has to say what they and the database miss meanwhile. `Books`: a place is named once, or promised once (`Promised`: planned, or about to be set free), never both; at every `pc` the bitmaps mark what documents name and what is `Marked` for the command under way (`Exact`: while the bitmaps are saved one by one, the copies of the plan in the nodes already saved); the bitmaps read are those marks with the plan (`BitsRead`). A lemma for each group of actions. |
| `BlockStore_proofs!NothingLost` | `Alone` implies `[]UsedAreReferenced` | The same `Books`: when no command runs nothing is `Marked`, so `Exact` is the property. |
| `BlockStore_proofs!NothingSpoilsAlive` | `Alone` implies `[]OnlyDeathsSpoil` | `Sound`, on top of `Books`: what a document names (`DocsHold`), and what the command under way has sent and will name unless it knows it failed (`RunHolds`), is on the disk, or its node is dead now. A block sent does not touch what documents name because a place promised is named by none (`Books`), and a block is lost without notice only when its node is still active and already dead: any other failure sets `failed`. A node that comes back after it died would break `Put`, hence `Steady`: nobody moved, or nobody died. |
| `BlockStore_proofs!DeathsSpoilTheirs` | `Alone` implies `[]DeathsSpoilOneCopy` | The same `Sound`: a wrong copy is in a known node that is dead, of which there are no more than faults (`Faults`), and the wrong copies of a block are in different nodes (`Apart`, from `CopiesApart`), so there are no more of them (`SpreadCount`, an injection). |
| `DirectoryTree_proofs!TypeCorrect` | `[]TypeOK` | With `OnPath`: MaRTA's thread has a name left to look at. A path leads to a place there is, or nowhere, by its shortest prefix that does not (`Resolved`). |
| `DirectoryTree_proofs!RemovalExact` | `RemovalIsExact` | `Removal`: the calls under way go down from the first directory, no directory twice, and what each has listed is still there (`Frames`). Whatever is to be removed was listed, has a call, or is under a directory no call has come to (`Await`), so a directory goes when none is in it and no file but later ones (`NothingLeft`). At the end each directory left has its parent among those left; `Tree` says that no such set misses the first directory, so none is left. That is where the loops `mv` can make matter: what `Under` gives is under the directory, however it closes (`Rooted`). |
| `DirectoryTree_proofs!ReachIsKept` | `NothingGetsLost` | What can be reached is the least set that has the root and is closed (`Least`). It grows with a new directory (`InsideGrows`), keeps what it has when one moves to a place within reach and not inside itself (`InsideKept`), and loses only the directory that goes when none is in it (`InsideWithout`), which is what `NothingLeft` says of a removal. |
| `DirectoryTree_proofs!PromptTells` | `[]PromptTellsWhere` | `Here`: while the prompt is not stale, the current directory is within reach of the root, or gone, and the prompt has its path's length. A place within reach is at the end of a chain from the root (`ChainTo`) that has no directory twice, so is no longer than `MaxDirs` (`ChainShort`, an injection), and from there on `PathLength` counts the same whatever the depth it is given (`Settled`). So a path is its parent's, a slash and a name (`PathStep`), which is what `GoUp` and `GoDown` edit (`RightStep`). A step of another kind leaves a set of places as they are, with all that is above them, and the current directory in it (`HereKept`); `cwd <= dborn` says that a new directory does not take the place of one that is gone. |
| `DirectoryTree_proofs!CrashesJustified` | `[]CrashesNeedMoves` | With `Here`: a path from a right start stays right, and a right place has its parent and a prompt long enough for "..". A call that finds its directory on the stack is of a directory under itself, as each call is under those before it (`CallsNest`). |
| `Transfer_proofs!CutsAreExact` | `[]CutIsExact` | `CutBook`: each piece starts where the one before ended, ends at the end of a line and fits; the next one starts at `i`. |
| `Transfer_proofs!OthersKept` | `[]OthersAreKept` | `StreamBook`: what was received, what is on its way and what is not sent make up one packet, so the size that is read is the piece's; places differ (`PlaceBook`); hence the address and the zero after the data are in the block of the piece (`SpaceBook`). All this until some piece fills its block. |
| `Transfer_proofs!TextIsBack` | `[]TextComesBack` | `SpaceBook` (a block that was set holds its piece and a zero) and `ContentBook` (what was read back is the text up to the end of a piece), from `CutBook`: pieces put together are a beginning of the text. |
| `NodeLink_proofs!TypeCorrect` | `[]TypeOK` | With finer types: only commands, data and probes are sent; a thread in its exchange has an operation. |
| `NodeLink_proofs!Forgotten` | `[]FreedAreForgotten` | `Ownership`: the property, and that a connection not yet put in a dictionary (`acc` before `add`) is in none and was never freed. With it each removal from a dictionary is of the last reference to be found there. This holds in every behaviour, the races of section 6 included: what they do is let a *thread* use what was freed. |
| `NodeLink_proofs!BlocksKeep` | `[]BlocksKeepTheirData` | `OneMutex`: while one was made, its owner is the one actor past the lock. `Flow`: the node's connection is the only one that may work (`OneLink`); a `set` on its way is followed by its data, or is the last packet and its thread is about to send that data, or the connection is lost (`Paired`, `Halfway`); so is one the node has read (`Wanted`); and blocks are `Whole`. |
| `NodeLink_proofs!Answered` | `[]AnswersAreAwaited` | `Asked`, on top of `Flow`: while the connection works, each `get` on its way, and each answer, is of a thread that waits there, so with `OneMutex` there is one at most of both. A thread that asks holds the mutex, so nothing is outstanding (`QuietAsked`); a node that waits for a block reads its data and not a `get` (`Wanted`). |
| `Accept_proofs!TypeCorrect` | `[]TypeOK` | Inductive as it stands. |
| `Accept_proofs!NamesDiffer` | `[]NamesTellApart` | `Once`: a process is in the queue once, so it gets one thread and counts once (`Queued`, `Accepted`, `CountedOnce`). `Numbers`: until the counter goes round it is how many counted, and a job's number how many had when it read (`seen`), itself included. So two jobs with one number were within each other's reading (`OtherNumber`), and a name has its job's number (`Named`). |
| `Accept_proofs!Words` | `[]NamesAreWords` | By `WriteTime` and `EditTime`: only the first breaks a word, and it touches every other thread. |
| `Worker_proofs!TypeCorrect` | `[]TypeOK` | Action by action; the threads of a node that stops by `KilledType`. |
| `Worker_proofs!PacketsWhole` | `[]PacketsAreWhole` | `Held`: a thread that is writing holds `Msockmarta`. |
| `Worker_proofs!ReducesJoinEveryPart` | `[]OkJoinsEveryPart` | `Gathered`: while no thread failed, the files to ask for, being fetched and got are together all the inputs; a reduce that runs has got them all; a result is good only when the node has answered. |
| `Worker_proofs!OnlyFaultyAreBlamed` | `[]BlamedNodesFailed` | `Blamed`: beside the results, the node a thread has noted failed, and so did a node that does not run, the node of a thread that was killed, and the node itself once its thread misses a file and has nobody to name (`OwnFailureBlames`). A node that failed is one for ever (`BlameStays`). |

Only model-checked: liveness (`EveryJobEnds`, `EveryOrderAnswered`, `EveryAskEnds`, `EveryExchangeEnds`,
`BrokenIsNoticed`, `EveryJobIsTaken`, `EveryRemovalEnds`, `CuttingEnds`), which is out of the prover's reach.
The induction theorems of the library take an operator and cannot be instantiated here. Where a number bounds what is
claimed (the steps of a path, the depth of a directory, the calls of a removal, the free blocks of a node, the pieces of a text), the proofs take the least
number for which it would be false instead (`LeastNatural`); and what a recursive function is (`Resolving`, `LengthsAre`) follows
from its having a part up to each number.
The types of `Worker`, `FSLink`, `NodeLink` and `Accept` are proved, and their runs do not check them again.

## 5. What is left out

* Contents of files beyond `Transfer`, and the computation of routines. What is said of a result is which
  maps it joins; of a block, which block of which store it is.
* `Marta`: the loss of the file system's connection (an exchange is one step that succeeds, which is
  what `FSLink` is about) and the numbers of jobs (jobs are distinct values; `Accept` has the numbers). Jobs do not come again: each has one thread,
  there from the start.
* `Accept`: jobs and maps from number 1000 on, whose digits do not fit (`job.c:32`); the stop of MaRTA by a signal; what is in
  the request. A job's thread ends its planning at any time.
* `FSLink`: the thread of the listener is folded in the handshake (`acc` begins at `shaken`), so that a client which
  connects and says nothing holds it is not seen; what a node is asked while a result is stored is in `BlockStore`.
* `BlockStore`: `enablen` and `disablen` are single steps, and node mutexes and the checkers are folded in the steps
  that use them, all of which `NodeLink` takes apart; the order in which blocks are read for `catb`, `md5sum` and `ll` changes nothing.
* `DirectoryTree`: a path of `cd` is resolved while no other thread changes directories, which is so. Contents of the
  prompt: its length stands for it.
* `NodeLink`: several nodes; shutdown, where the dictionaries are destroyed under the threads. A `get` is answered in one packet.
* `Transfer`: widths. `numBlock * BLOCK_SIZE` fits in an `int` and files are smaller than 2 GB.
* `Worker`: the locks of a node's blocks (one thread of the node uses them) and `node_setBlock`, which nothing calls;
  a connection refused for lack of resources in the job itself is only covered by `ConnectionBreaks`.
* The database driver: an operation on one document is atomic. That the threads share one client, which the
  driver forbids, has no behaviour one could state.

**Not modelled**: configuration,
logging, printing and parsing of commands, which keep no state; `src/Ejemplos`, `src/FileSystem/mongotests`,
prototypes, scripts and tests, which are not part of the running system.

## 6. Findings

`store_race`: the console and MaRTA's result, stored at once, get the same blocks (`filesystem.c:824`), and one file
overwrites the other.

**Also seen** while modelling. The models have each of these behaviours, except where it is said that they
leave it out; none contradicts something the repository states plainly enough for a run of its own, and the
properties are stated so as to hold with them.

* *Planning.* A map that is planned again is ordered without joining its new node's list (`MapPlanning.c:99`; the
  list is described at `node.h:12`): a node looks less busy than it is. With two jobs, a block whose node another job deactivates between the
  check at `MapPlanning.c:72` and the selection at `:58` is skipped, and the job ends with OK; and the other job may deactivate the
  last node with a partial result, when `selectedNode` is read all the same (`ReducePlanning.c:180`). A job lost while a reduce
  is ordered leaves the counter of reduces one too high for ever (`job.c:185-193`); it is never too low.
* *Accepting jobs.* Two jobs accepted together may get one number (`JobConnection.c:19`), and then one's temporary files the
  names of the other's. A thread may copy a text that another has just written, with the blanks of `asctime` (`job.c:17`). A process that
  connects and says nothing keeps all jobs out (`Connection.c:26`), and the socket of a refused one is not closed. A job lost
  before its request has arrived may stop MaRTA (`JobConnection.c:58`). A job does not notice that its handshake failed
  (`src/Job/src/marta/marta.c:29`).
* *MaRTA and the file system.* A copy whose connection is lost is never answered (`FSConnection.c:180`), and every job waits
  behind it. Two connections accepted at once both see `martaSocket` at -1 (`connections_marta.c:27`), and from then on a job may take another's
  answer. The handshake is inside the listener's loop (`connections.c:41`), so a client that says nothing keeps all others out; left out.
* *Nodes.* A node that says it is new while a file is being stored on it ends up in the document of that file with none of its
  blocks (`filesystem.c:191`). An error on an old connection removes the connection that is active now, by the node's name
  (`connections_node.c:361`), as does accepting a new one, while another thread may be using it. A connection that
  `disablen` puts back takes the place of one accepted meanwhile. Two threads may make two mutexes for one node
  (`connections_node.c:47`), and then a block may be written with the data of another. `getBlock` compares `0 > SOCKET_ERROR_NONE`
  (`connections_node.c:267`), so the error of its send is never seen; `EveryExchangeEnds` shows that it still ends.
* *Blocks.* A piece that fills its block has its zero written in the next one (`node.c:206`), which then reads as empty, and is itself read
  past its end. A line longer than a block, or an empty line before one of a block's length, makes the cutting loop for ever. A file that ends
  at a boundary is given an empty block more. From block 103 on `numBlock * BLOCK_SIZE` overflows (`node.c:180,189,201,291`), as does
  the index of the loop for files of 2 GB; left out.
* *Directories.* `mv` of a directory into itself makes it unreachable, and `rm -r` inside it calls itself until the stack ends. After `mv` or
  `rename` above the current directory, `cd ..` may write before the buffer of the prompt (`filesystem.c:342`) or read a document that is not there. `mkdir a/b`
  makes a directory no path can name, as the name is taken whole; left out (names are of `Name`). A file and a directory may have the same name
  and parent, after `mv`, `rename` or a result of MaRTA that arrives between the check and the save. `rm -r` with no argument reads past
  the arguments; left out.
* *Workers.* A map with no output leaves an empty file, and the node that reads it for a reduce stops (`node.c:165`). A node that
  fails a reduce by itself frees its own name (`connections_job.c:260`) and next time may blame any.
* *Database.* One `mongoc_client` is shared by all threads (`mongo.c:18`), which its library does not allow; left out.

## 7. Plan

Done: the scheduler, the accepting of jobs, the worker, the block store, the connections of MaRTA and of the nodes, the directory tree and
the transfer of blocks. What a next step would take, most important first:

1. The composition of two jobs of `Marta` with `FSLink` in place of the exchange in one step, now that `FSService` states what is between them.
2. An abstract service of jobs (a job is accepted, worked on, and ends with one outcome that is justified) that `Marta`
   implements under a refinement mapping, and one of orders and results that `Worker` implements and `Marta` assumes.
3. `Accept` and `Marta` together: files of two jobs with one name on a node, and what a reduce then joins.
