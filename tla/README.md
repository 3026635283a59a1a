# Verification of the distributed-systems course projects

This directory holds TLA+ specifications of the programs of the repository, TLC
configurations that check them on small instances, and TLAPS proofs of the results
that matter most for every size. Paths below are relative to `src/`; *lsp* stands for
`project-2/src/example.com/lsp`, *lspnet* for `project-2/src/example.com/lspnet`,
*mapreduce* for `project-3/src/mapreduce`, *bitcoin* for
`project-2/src/example.com/bitcoin`, *p1* and *clist* for those directories of
`project-1/src/example.com`.

## The system

The repository is four independent Go programs and one shared helper.

| part | state | operations | how it interacts |
|---|---|---|---|
| LSP client (*lsp*/client_impl.go) | connection ID, channels `incoming`, `tmsg`, `rmsg`, `err`, maps `tbuffer`, `rbuffer`, counters `tsq`, `rsq`, a status | NewClient, Read, Write, Close; goroutines `receiver`, `handler` | UDP packets; the application through channels; Close and the goroutines through the status |
| LSP server (*lsp*/server_impl.go) | map of connections, `lastConnID`, channels `incoming`, `outgoing`, `rmsg`, `err`, `cls`, `bcls`, a status; per connection what a client has | Read, Write, CloseConn, Close; goroutines `receiver`, `handle`, one `handleClient` per connection | as above; `handle` routes between the channels |
| lspnet | drop, shorten and lengthen percentages | read, write | below LSP, on UDP |
| MapReduce master (*mapreduce*/master.go, mapreduce.go) | job channels, done channels and counters, `reduceStart`, registered workers | Register, RunMaster, RunWorker (one goroutine per worker), KillWorkers, Merge, CleanupRegistration | RPCs to the workers; the shared file system |
| MapReduce worker (*mapreduce*/worker.go, common.go) | `nRPC`, `nJobs`, a listener | DoJob, Shutdown, the accept loop | RPCs from the master; files |
| MapReduce job functions (*mapreduce*/mapreduce.go) | files | Split, DoMap, DoReduce, Merge, RunSingle | called by master, workers and RunSingle |
| Bitcoin scheduler (*bitcoin*/server) | `freeMiners`, `miners`, `pendingRequests`, `tasks`, four channels and `trigger` | goroutines `receive` and `schedule`: join, request, result, loss of a connection | over LSP |
| Bitcoin miner and client (*bitcoin*/miner, client) | the range being mined; the question asked | join, mine, reply; ask, print, give up | over LSP |
| key-value server (*p1*) | list of clients, each with channels `req` and `res`; the store | Start, Close, Count; goroutines `listen`, `dispatch`, and per client `receiver` and `sender` | TCP; the concurrent list |
| concurrent list (*clist*) | a list, a channel that is its mutex | PushBack, Remove, Len, Iter | `dispatch` iterates over it while others push and remove |
| unbounded channel (bufchan) | list, mutex, condition | Append, Remove, AsyncRemove, Inspect | used by nothing here |

What is hard in them, and what makes each correct:

* **LSP.** Packets are lost, repeated, reordered, shortened and lengthened, while five
  goroutines share channels and a status that each of them reads and writes without
  holding a lock across the two. It is correct when a reader gets a prefix of what was
  written, when a message is forgotten only after the peer has it, when neither buffer
  outgrows the window, when a connection ID belongs to one client, and when closing
  loses nothing and returns.
* **MapReduce.** Workers leave after a number of RPCs, with a job waiting in the backlog
  of their listener or half done; jobs go back to channels that other goroutines have
  just found empty; the phases are separated by counters only. It is correct when no job
  is lost or given to two workers, when reduce reads only complete files, when the output
  comes from complete results, and when the master finishes.
* **Bitcoin.** Miners and clients come and go, and the scheduler learns of a loss, a join, a
  result and a request through four channels that it reads in any order. Work moves only
  when something was put into `trigger`. It is correct when no part of a request is lost or
  done twice, when `freeMiners` is exactly the miners without work, when free miners and
  pending parts never wait for each other, when an answer is the least hash of what was
  tried, and when no client is forgotten.
* **Key-value server.** `dispatch` holds the mutex of the list nearly all the time, takes
  answers from one iteration to the next, and drops what a slow client has no room for. It
  is correct when all clients see the same answers in the same order, when answers follow
  the sets, and when nobody waits for ever.
* **Unbounded channel.** Signal wakes one goroutine, and what it was woken for may be gone
  when it gets the mutex. It is correct when it is a FIFO queue in which no Remove sleeps
  beside elements.

## Modules

| module | what it is |
|---|---|
| `LspEndpoint` | what `client` and `clientInfo` have in common: fields, network, the cases of the handler's select |
| `LspClient`, `LspServer` | the rest of each side, one action per step of a goroutine or call |
| `LspStream` | abstract: what the API promises, reliable ordered streams |
| `Lsp` | clients, server and network together; the safety properties and the refinement mapping |
| `LspInv` | the inductive invariants of `Lsp`: connections, data, acknowledgements, lengths, closing |
| `LspConnProofs`, `LspDataProofs`, `LspWindowProofs`, `LspCloseProofs` | the proofs, each resting on the ones before it |
| `MCLsp`, `LspClaims` | instances for TLC; what comments and tests say and the code does not do |
| `MrWorker` | workers, RPCs, and the files jobs write, complete or not |
| `MapReduce` | the master, composed with the workers; properties |
| `MCMapReduce`, `MapReduceClaims` | instances for TLC; claims that do not hold |
| `MapReduceProofs` | the proofs about `MapReduce`, with their inductive invariant |
| `MrFiles` | RunSingle with the contents of the files, against a reference result |
| `BtcConn` | an LSP connection as the Bitcoin programs see it: two ordered streams that may break |
| `BtcMiner`, `BtcServer` | the miner with its arithmetic; `receive` and `schedule` |
| `Bitcoin` | server, miners and clients together; properties |
| `MCBitcoin` | an instance for TLC: hashes, logarithms, questions |
| `BitcoinProofs` | the proofs about `Bitcoin`, with their inductive invariants |
| `CList` | the concurrent list, step by step through Iter |
| `KvServer` | the key-value server over `CList`; properties |
| `KvProofs` | proofs about the key-value server |
| `Fifo` | abstract: what the unbounded channel promises |
| `BufChan` | the unbounded channel around its mutex and condition; the refinement mapping |
| `BufChanProofs` | its proofs |

Definitions marked *Mutant* are wrong variants of the definition that follows: each
property is violated when the variant takes its place, which shows that it depends on
the code it is about.

### LSP: state and actions

An endpoint is a client or the connection ID of a `clientInfo`; its fields are functions
over the endpoints with the names of the Go fields. A message is a record; its payload is
a model value, with `fit` telling whether its length is what `Size` says. `tbuffer` and
`rbuffer` are sets of messages, as each Go map has its sequence number as the key.

The network is a set of packets. A packet that is sent is in the set until it is received
(it stays if `Duplicating`) or lost. As it is a set, packets are reordered for free, and
a packet sent again while a copy is in flight is one packet; `Duplicating` makes up for
that. The fault injection of `lspnet` is applied on receipt (`Received`).

Each goroutine is a disjunct of its own: the application's calls (`ClientAppStep`,
`ServerAppStep`), the receivers, `handle`, and the handler of each endpoint. A select is
one action per case. The loop that moves data from `rbuffer` to `rmsg` can block on a full
channel, so it is a state of its own (`hpc = "deliver"`) with one step per element. Close
of the client takes one step per read or write of the status, because the handler may
change it in between.

A channel of capacity `n` is a sequence of at most `n + 1` elements: a sender that blocks
has put its element into the one place too many, and does nothing else until the place is
free again. So capacity 0 in a configuration still passes messages, one at a time, and
exercises the blocking that the capacities of the code (1000 and more) make rare.

`written[e]` and `delivered[e]` are histories: what was accepted for sending at `e`, and
what its handler gave to `rmsg`. Nothing reads them but properties and the bounds on writes.

### MapReduce: state and actions

`call[<<w, m>>]` is the state of the one RPC of method `m` the master may have open to worker
`w`: dialled (in the listener's backlog), serving, replied, or failed. `common.go` says
calls should be assumed to time out; `call` has no timeout, so a call fails only when the
worker is not listening, when its listener closes with the connection in the backlog,
or, if `Process` holds, when it exits while serving. `Process` distinguishes how
`main/wc.go` runs a worker (a process, whose jobs die with it) from how the tests do (a
goroutine, whose jobs run on).

The accept loop has separate steps for Accept, for `nJobs += 1` and for the test of
`nRPC`, as `Worker.Shutdown` runs beside it and writes both variables. DoMap has two steps
per output file (created, closed), DoReduce one per input file and two for the result, so
that a crash or another worker can come between any two. `jobs`, `done` and `count` hold
the two channels of jobs, the two of results and the two counters, by phase. The reply of
DoJob is always OK, so the branch of RunWorker for one that is not has no action.

`Finishes` says that the master gets to DoneChannel unless a job is left over when every
RunWorker goroutine has returned; `ClaimOneFailure` shows that this does happen with a
worker still there.

`MapReduce` takes the splits as given. `MrFiles` models what `Split` makes of an input: a
line is a sequence of words, a word a key with the value Map emits, and Reduce returns the
list of its values, so that a value lost, doubled or out of order shows in the result.

### Bitcoin: state and actions

`schedule` is the only goroutine that touches the four structures, so one case of its
select is one step, split by the outcomes of its tests (`TriggerIdle`, `TriggerLost`,
`TriggerAssign`; `ResultIgnored`, `HandleResult`; `LostBusy`, `LostFree`, `LostOther`).
`receive` is a step per message. What LSP gives its users is `BtcConn`: Write never returns
an error, so the branch of `schedule` for one has no action, and what is written to a broken
connection is gone; Read of the server picks a message or a loss at random, so a loss can be
read before data that came first. A process that ends (a miner that panics, a client that
printed its answer) loses its connection some time later (`BreakDead`); that of a live miner
may break as well (`BreakLive`). A live client whose connection breaks prints
"Disconnected", which is `ClientGivesUp`.

`split[c]` is a history: the parts the request of `c` was cut into. Arithmetic is modulo
`Word`, as the code computes with `uint64`. A goroutine of the miner is its result (`Scan`); the
results are merged in any order (`MinerReply`).

### Key-value server: state and actions

The two loops of `dispatch` are `dpc`; the element a loop works on is `cur`, and `range
res` is `next`. Iter's goroutine takes the mutex, sends each element when the consumer is
ready, closes its channel, and only then releases the mutex: four steps, so `dispatch` may
call Iter again before the release. PushBack, Remove and Len do nothing that others could
observe between taking and releasing the mutex, and are one step. A request is its command
and key with a tag; a request that a client has begun and not finished is none yet.

### Unbounded channel: state and actions

`pc[t]` says where goroutine `t` is in its call: before Lock, inside, in Wait, signalled, or
at the deferred Unlock. Signal may wake any waiting goroutine. In the refinement, a call
takes effect when its body runs.

## Runs

| run | instance | shows |
|---|---|---|
| `LspUp` | 1 client, window 2, 3 writes | `AckedReceived`, `WindowBound`, `ReceiverWindow`: three writes fill the window and move it |
| `LspClientClose` | 1 client, window 2, 2 writes of 2 payloads, Close | `InOrder`: two different payloads can overtake each other; `CloseFlushes`, with one write in flight and one in `tmsg` |
| `LspCloses` | Close at both ends and CloseConn, 1 server write; payloads shortened, lengthened, or too long for the read buffer | `TypeOK`, `CloseFlushes`, `NothingCorrupt` |
| `LspServerClose` | Server.Close, a write still in `outgoing`, 2 connection IDs | `CloseWaits`; `OneConnection` with repeated and late connects; `StreamSpec`: Lsp implements `LspStream` |
| `LspLive` | 1 client, 1 write, fair | `Delivery` |
| `MrJobs` | 2 worker processes, 1 exits after 3 RPCs; 3 map, 3 reduce jobs; fair | `TypeOK`, `JobsConserved`, `ReduceReadsAll`, `OutputComplete`, `Finishes` |
| `MrFiles` | 3 map and 2 reduce jobs, inputs of up to 6 lines with 2 keys, every hash | `Result`, `SplitBound` |
| `Bitcoin` | 2 miners, 2 clients asking up to 16 and up to 2, 1 broken connection | `TypeOK`, `PartsConserved`, `FreeListExact`, `Awake`, `AnswerLeast`, `Served` |
| `KvServer` | 2 clients, 1 key, 2 requests, channels of 1 place, 1 client goes away; fair | `TypeOK`, `SameAnswers`, `ReadsFollowSets`, `Handled`, `Unblocked`, no deadlock |
| `BufChan` | 3 goroutines with 2 calls each, 2 values; fair | `TypeOK`, `NoLostWakeup`, `RemoveReturns`; `FifoSpec`: BufChan implements `Fifo` |

`LspUp` and `LspClientClose` send from the client only and the other runs from the server
only or not at all: the two directions share no variable of an endpoint, and one at a time
keeps a run below two minutes. One client is enough for `OneConnection`, which is proved for
any number of them. `EpochLimit` is 2, the
least that tells an epoch that sends again from the one that gives up. Three RPCs let the
worker that exits do so in the map phase or, if the other one did the map jobs, in the
reduce phase. Six lines is the least that makes the wrong rounding of `nchunk` visible.
Deadlock is checked for `KvServer`, where `dispatch` always has something to do. It is not
checked elsewhere, since those systems may come to rest: all applications have closed,
workers wait for connections that do not come, a Remove waits for an Append.

In `Bitcoin`, a question of up to 16 is cut into two parts (`Big` is 8 in place of 10000, and
`Log10` is chosen to match), each of them mined by two goroutines; its least hash is at the
upper end of the range, where an off-by-one would miss it. A question of up to 2 makes every
miner panic that gets it, so that a part goes from miner to miner, and both miners are lost
when nobody breaks a connection. One more connection breaks at any moment, with a result, a
join or a part on its way. No step of the system can be repeated for ever, so every fair
behaviour comes to rest, and `Served`, which says what holds then, is an invariant.

In `KvServer`, a place in each channel is enough for both to be full: a receiver waits, and a
response is dropped. Two requests are a set and a get, of one client or of two, or two gets
that are answered in one round or in two. In `BufChan`, three goroutines are the least for an
AsyncRemove that comes between a Signal and the goroutine it woke while another one sleeps.

`MrJobs` takes the workers as processes: a worker that is a goroutine is the same model
with fewer failures, as its jobs run on when its accept loop has ended.

### Claims that do not hold

Each of these runs violates one sentence of the repository's comments or tests; the
findings in `PROJECT.json` quote it.

| run | what the code does |
|---|---|
| `ClaimCloseReturns` | get and set of the status in Close are two steps; the handler's `handlerClosed` in between is overwritten, and Close waits for ever |
| `ClaimOneFailure` | the setting of TestOneFailure can hang: RunWorker's `default: return`, then a failed reduce job comes back |

Further disagreements are visible in the models, without a run of their own:

* *lsp*/client_impl.go:38 has NewClient return an error if no ack comes for K epochs; the
  handler ends without telling NewClient, which waits for ever (`capp` stays "connecting").
* *lsp*/server_api.go:31 has Close wait for pending messages; without a connection there are
  none, but handle looks at the status only after it received from `cls`, and Close never
  returns.
* *lsp*/client_api.go:13 has Read return the loss of the connection when no message waits;
  the select of `Read` picks either (`ClientReadData`, `ClientReadError`).
* *lsp*/client_api.go:23 has Close block until everything is acknowledged; a read error of
  the receiver (`ClientOversize`, `ClientRefused`) lets it return before.
* *lsp*/server_api.go:31 has Close wait for the messages of each client; a connection given
  to CloseConn is out of the map at once (`HandleCls`), and Close does not wait for it.
* *lsp*/server_api.go:20 says Write does not block; handle, with the `tmsg` of a connection full,
  waits for its handleClient, and if that gives up meanwhile handle waits for ever and the
  server serves nobody (the guard of `handle`'s steps on full channels).
* *lsp*/lsp5_test.go:124 says the server truncates long messages; a payload longer than
  `Size` is delivered whole (`HandleData`).
* *mapreduce*/worker.go:43 says the shutdown RPC is not counted; the reply is filled in
  before the decrement, so it may be (`Shutdown` after `Count`).
* *mapreduce*/worker.go:36 is told to shut down; it sets `nRPC` to 1 after the accept loop has
  already counted this connection, and the loop waits for another one (`Check`, `Accept`).
* *mapreduce*/mapreduce.go:24 has one split for each map job; a short input, or one with few
  lines, gives fewer, and DoMap ends the program (`pc = "fatal"` in `MrFiles`).
* *mapreduce*/mapreduce.go:162 splits the bytes of the file; from a line of more than 64K on
  everything is dropped (`Scan`).
* *p1*/interface.go:23 has Close end all connections and goroutines; it closes the listener
  and nothing else (`Close`).

And some behaviour no comment speaks of, which `Served` and `Awake` have to allow for:

* A miner whose loss is read before its Join is kept for ever (`Ghost`); a part it is given
  is never done.
* A part of a lost client is dropped at the cost of a trigger (`TriggerLost`), and a free miner
  and another client's part may be left waiting for each other.
* A request makes one trigger however many parts it has, so with miners already free its
  parts are done one after the other.
* A range of one or two nonces makes the miner divide by zero (`MinerRead`), and the part goes on
  to the next miner: a question of up to 2 ends all of them.
* The miner leaves out the rest of the division of its range by the number of goroutines
  (`Tried`), a range up to 2^64 - 1 never ends (`MinerReply`), and with more free miners than
  nonces a part's upper bound may be below its lower one (`Parts`). The result of an empty part
  has hash 0, which is less than any other and then counts as "none yet": the results before
  it are forgotten. `AnswerLeast` is about requests that were cut well (`CutWell`).
* Requests of a client that goes away may never be handled: `Handled` is about the others.

### Fairness

`Delivery` and the LSP claims of liveness use `FairSpec` of `MCLsp`. Goroutines that can
go on do (weak fairness: Go's scheduler), for the receiver, the handlers' messages, the
timers and the calls that have started. The handler's `default` case and the cases of
`handle` are strongly fair: select picks a ready case at random, and the timer or an
incoming message cannot win for ever. Applications keep reading but never have to write or
close. The network is fair to a data packet: sent for ever to a receiver that keeps
reading, it arrives (`FairLoss`); otherwise a loss of 100 percent refutes any delivery.
`Finishes` and the MapReduce claim need only weak fairness: each goroutine goes on, and
the workers are started.

`Handled` and `Unblocked` of `KvServer` let dispatch, Iter and the receivers go on. A PushBack
or Remove is strongly fair: a Go channel serves blocked senders in the order they came, so
the next Iter cannot take the mutex before them again and again. Nothing is assumed of the
clients, nor of the senders, which a client that does not read holds up. `RemoveReturns` lets the
holder of the mutex go on, and takes Lock to be strongly fair: `sync.Mutex` hands itself to
a goroutine that has waited for a millisecond.

## Proofs

TLAPS proves the following for all values of the constants that satisfy the named
assumptions, which are:

* `EndpointAssumption`, `ClientAssumption`, `ServerAssumption` of LSP: positive window and
  epoch limit, capacities, addresses that are not connection IDs;
* `WorkerAssumption` of MapReduce: finitely many workers, at least one job of each phase, a
  positive number of RPCs for the workers that leave;
* `MinerAssumption`, `ServerAssumption` and `BitcoinAssumption`: finitely many miners, none of
  which is a client, questions within a word, positive hashes and logarithms, and values for
  "no client" and "no task" that are neither;
* `KvAssumption`: channels with at least one place, and `None` is no client;
* `BufChanAssumption`: finitely many goroutines, and `Nil` is neither one of them nor a value.

TLC's bounds on writes, connections and lost connections are constants too, so the
theorems hold for each value of them. Most properties are not inductive; the invariants
that make them so are named below, and TLC has checked each of them on the instances of the
runs before it was proved.

### LSP

* `LspConnProofs!TypeCorrect`: `Spec => []TypeOK`. `TypeOK` says that `epochCount` never exceeds
  `EpochLimit`, which is inductive only together with `EpochOK`: a handler still in its
  loop has not reached the limit.
* `LspConnProofs!ConnectionsDistinct`: `Spec => []OneConnection`. A client takes its ID from
  an ack, so `ConnInv` says of every ack on its way to a client, in the network
  (`NetRoute`) or in its channel (`IncomingRoute`), that it names a connection made for that
  client; and of the server that IDs not given out yet belong to nobody (`ConnOK`).
* `LspDataProofs!ReadsInOrder`: `Spec => []InOrder`. `DataInv` follows a datum on its way:
  in `tbuffer`, in the network, in the server's and the endpoint's `incoming`, in `rbuffer`
  and in what was delivered, the datum numbered `n` is the `n`-th payload that the peer
  accepted (`Sound`), and `tmsg` is the rest of what was accepted (`TmsgOK`). It needs
  `ConnInv`, for a datum would otherwise be sound for a different peer after a client
  learns its ID, and `TypeInv`. `InOrder` then follows because `rsq` is one more than the
  number of payloads delivered.
* `LspWindowProofs!WindowKept`: `Spec => []WindowBound`. Sending needs an open window, so the
  bound is inductive but for NewClient, which puts the connect message, number 0, into
  `tbuffer`; `Fresh` says that the client has used no number before, and with `ConnInv` that
  its handler has not run.
* `LspWindowProofs!AcksSound`, `ReceiverBounded`: `Spec => []AckedReceived` and
  `Spec => []ReceiverWindow`. `AckInv` says of every ack of a datum, in the network and in both
  `incoming` channels, that the endpoint which sent it has the datum and has left the
  delivery loop which the datum started (`Reached`), and that a number a sender has used is
  still in `tbuffer` or was acknowledged so (`ForgottenAcks`). Acks are sent after the
  loop, so `DeliveryOK` says what the loop has left to do. The receiver's bound follows: the datum
  expected next, if it was sent, is still in the sender's `tbuffer`, and `WindowBound` limits
  the numbers beyond it.
* `LspCloseProofs!OnlyWhole`: `Spec => []NothingCorrupt`. `IntactInv` follows lengths through
  the channels: what does not fit the read buffer ends the receiver before it gets there,
  and a shortened payload is dropped before `rbuffer`.
* `LspCloseProofs!ClosesFlushed`: `Spec => []CloseFlushes`. A handler grants a close only with an
  empty `tbuffer` (`Drained`), so by `AckInv` everything it sent was received and, as the
  acks came after the delivery loop, delivered. For a client also `tmsg` is empty, and its
  application writes no more (`Quit`).
* `LspCloseProofs!CloseAwaitsAll`: `Spec => []CloseWaits` if `"CloseConn" \notin ServerOps`. `WaitInv`:
  without CloseConn only a handleClient that has ended puts itself into `cls`. With
  CloseConn the property is false, as said above.
* `LspCloseProofs!ImplementsStreams`: `Spec => StreamSpec`. The streams of a client exist once it knows
  its ID, so the step in which it learns the ID has to leave them empty (`DataInv`, with
  `Linked`); an accepted write and a delivery are each one step of one stream, `InOrder` makes a
  delivery the next element, and the invariants of closing make a granted close an end of the
  stream with nothing left in it. All other steps stutter.

### MapReduce

`MapReduceProofs!TypeCorrect`, `NoJobLost`, `ReducersReadAll`, `MergesAll`: `TypeOK`, `JobsConserved`,
`ReduceReadsAll` and `OutputComplete`. The inductive `Inv` consists of

* `HoldOK`: a RunWorker goroutine holds a job of its phase exactly while its DoJob call is open;
* `PlaceOK`, `CountOK`: a job is in one place, and the places add up to the number of jobs;
* `PhaseOK`: what `reduceStart` and the master's position say about the counters;
* `KillOK`: KillWorkers calls each worker once, so the number of jobs it reads is not negative;
* `FilesOK`: how far a worker is with the files of its job, and that the files of a job that is
  neither waiting nor held are complete.

The step that counts is `MapDone` for the last map job: `CountOK` then leaves no map job waiting or
held, so every map output is complete and nobody is left to open one again. The bounds of
the channels in `TypeOK` follow from `CountOK`.

### Bitcoin

`BitcoinProofs!TypeCorrect`, `FreeMinersExact`, `NoPartLost`, `SchedulerAwake`: `TypeOK`,
`FreeListExact`, `PartsConserved` and `Awake`. The three properties of the scheduler would be
inductive if messages came once; `Inv` adds that they do. `JoinsOnce`: a miner whose Join is on its way, in its
connection or in `joins`, is not known yet; a second Join would put a miner twice into
`freeMiners`. `AsksOnce`: a client whose request is on its way has no task; a second one would
overwrite the count of the first. Most of the work is counting: what adding, removing or moving one element
of `freeMiners` or `pendingRequests`, or changing one miner's assignment, does to the cardinalities
in `PartsLeft`. `Awake` needs that a client of which a part was dropped stays one until its
task ends, and that the miner which becomes free at that moment makes a trigger.

`AnswersLeast`, `NobodyForgotten`: `AnswerLeast` and `Served`. Neither follows from the tables of the
scheduler: both depend on what is in the connections, in the miners and in the channels. `Work`, inductive
together with `Inv`, follows a part to a miner and back:

* `MinersOK`: of the request to a miner, its mining, its reply and its result in the channel there is one at
  a time (`OneAtATime`), none when the scheduler takes the miner to be free (`Idle`), and one as
  long as a busy miner's process and connection last (`Working`); it is about the part that `miners`
  records for it, and what is found is the least of that part (`Carries`);
* `ReportsOnce`: a miner has one result in the channel at most, so none is counted for a later part;
* `OpenOK`, `TasksOK`: a part of a request is pending or with a miner (`OpenParts`), or the task's `min` is no
  greater than any hash of it (`Covers`); and `min` is a hash of the request with its nonce (`Genuine`). As
  `PartsConserved` says, the last result leaves no part open, so `min` covers all of them;
* `ClientsOK`: a connected client that waits has a request on its way, a task, or an answer on its way, and
  every answer on its way is the least. A client is marked lost only when its connection is
  (`LossOK`), so no answer is withheld from one that waits.

What a miner finds is proved from its arithmetic: the goroutines' bounds are multiples of the quotient, so
each nonce of `Tried` is between two of them (`BoundsShare`), and the least of the goroutines' results is
the least of all (`RepliesLeast`). `Served` is proved by cases: a part that is left is with a busy miner, which
then is a ghost, or pending, and then `Awake` and `FreeListExact` leave the cases of `Hopeless`.

### Key-value server

`KvProofs!TypeCorrect`, `AnswersToAll`, `ReadsInOrder`: `TypeOK`, `SameAnswers` and `ReadsFollowSets`.
The inductive `Inv` has two halves. The first follows an answer to the clients:

* `ListOK`: a client is in the list once, from PushBack until its receiver's deferred Remove; before
  that nothing was given to it. Remove takes the first occurrence only, so "once" matters;
* `LoopOK`: where Iter is while `dispatch` works on an element;
* `RoundOK`: the answers of this round are the last ones of the log;
* `GivenOK`: what was given to a client goes up to the answer that is due to it (`Due`): the last one
  before the round in the collect loop and until Iter comes to the client in the broadcast loop,
  one by one while `dispatch` works on it, all of them afterwards. Iter gives up the mutex
  when it has handed over the last element, so that client may leave the list while
  `dispatch` still works on it; it is entitled to the rest of the round all the same (`Entitled`),
  and another client that is pushed at that time has nothing yet.

The second follows a request to the store:

* `RequestsOK`: a client's requests are, in this order, those handled (`Taken`), those in `req`, and the
  one its receiver holds;
* `AppliedOK`: exactly the sets handled are applied, once, and the store has the last of each key;
* `AnsweredOK`: an answer has a value that was applied, no older than what its client set before and
  than what was answered before. It is inductive because applying another set does not change
  the position of an earlier one, values being distinct, and an answer gets the last.

### Unbounded channel

`BufChanProofs!TypeCorrect`, `WakeupsKept`, `ImplementsFifo`: `TypeOK`, `NoLostWakeup` and
`FifoSpec`. `CallOK` says what a goroutine has to do with where it
is: one that is outside has no call, only one that returns has a value, only a Remove
sleeps. `NoLostWakeup` is inductive with it, as an Append adds one element and one woken
goroutine, and a Remove takes one of each away. In the refinement Lock and Wait are
hidden, and every body is the effect of its call.

The proofs have one step per action, and below it one per conjunct the action can disturb;
what several actions share is in lemmas about the operators of the models.

### Only model-checked

* The liveness properties `Delivery`, `Finishes`, `Handled`, `Unblocked` and `RemoveReturns`, and the claims
  that need fairness: TLAPS has no support for ENABLED.
* `Result` and `SplitBound` of `MrFiles`: they say what folds over sequences compute, which needs
  induction over data.
* That `Bitcoin` comes to rest, where `Served` applies: liveness, and argued above only for the instance.

## Not modelled

The JSON encoding, logging, file names, command lines and the
configuration of `lspnet` are left out: no property depends on them. The port runners and
`midterm.go` have no state worth modelling. `CleanupFiles` only deletes what is done with.

## Plan

1. LSP: modelled, checked, its safety and its refinement of the streams proved.
2. MapReduce: master, workers, job functions; modelled and checked, the safety of master and
   workers proved.
3. Bitcoin: scheduler, miners and clients over connections that break; modelled and checked, its
   safety proved.
4. The key-value server with the concurrent list, and the unbounded channel against a FIFO;
   modelled and checked, the safety of both and the refinement of the FIFO proved.
