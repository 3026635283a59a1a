------------------------------ MODULE Bitcoin -------------------------------
(***************************************************************************)
(* The Bitcoin system of project 2: the server, its miners, and clients    *)
(* (bitcoin/client/client.go) that ask one question each.                  *)
(***************************************************************************)
EXTENDS BtcServer

CONSTANTS
  Uppers,   \* Uppers[c]: the maxNonce c may ask for
  MaxLost   \* bound: connections of live processes that break

Nonce == 0 .. Word - 1
Finding == [hash : Nat, nonce : Nonce]

\* Connection IDs are distinct, and nil is no task.
ASSUME BitcoinAssumption ==
  /\ IsFiniteSet(Miners) /\ Miners \cap Clients = {} /\ Nobody \notin Clients
  /\ Uppers \in [Clients -> SUBSET Nonce]
  /\ MaxLost \in Nat
  /\ NoTask \notin [client : Clients \cup {Nobody}, lower : Nonce, upper : Nonce]
  /\ NoTask \notin [lost : BOOLEAN, min : Finding, miners : Nat]

VARIABLES
  cpc,     \* cpc[c]: "start", "waiting", "answered" or "disconnected"
  asked,   \* maxNonce
  answer,  \* what the client printed
  lost     \* connections of live processes that broke

clientVars == <<cpc, asked, answer>>
vars == <<connVars, minerVars, serverVars, clientVars, lost>>

Init ==
  /\ ConnInit /\ MinerInit /\ ServerInit
  /\ cpc = [c \in Clients |-> "start"]
  /\ asked = [c \in Clients |-> 0]
  /\ answer = [c \in Clients |-> Unset]
  /\ lost = 0

-----------------------------------------------------------------------------
(* The client *)

ClientAsk(c, u) ==
  /\ cpc[c] = "start"
  /\ Connect(c, Request(c, 0, u))
  /\ cpc' = [cpc EXCEPT ![c] = "waiting"]
  /\ asked' = [asked EXCEPT ![c] = u]
  /\ UNCHANGED <<minerVars, serverVars, answer, lost>>

\* `case m := <-recv`
ClientResult(c) ==
  /\ cpc[c] = "waiting" /\ toPeer[c] # <<>>
  /\ answer' = [answer EXCEPT ![c] = [hash |-> Head(toPeer[c]).hash, nonce |-> Head(toPeer[c]).nonce]]
  /\ cpc' = [cpc EXCEPT ![c] = "answered"]
  /\ toPeer' = [toPeer EXCEPT ![c] = Tail(@)]
  /\ UNCHANGED <<link, toServer, lossRead, minerVars, serverVars, asked, lost>>

\* `case <-tout`, after two seconds, and `case <-errc`
ClientGivesUp(c) ==
  /\ cpc[c] = "waiting"
  /\ cpc' = [cpc EXCEPT ![c] = "disconnected"]
  /\ UNCHANGED <<connVars, minerVars, serverVars, asked, answer, lost>>

Alive(p) == IF p \in Miners THEN mpc[p] # "dead" ELSE cpc[p] = "waiting"

\* the server no longer hears from a process that has ended
BreakDead(p) ==
  /\ ~Alive(p) /\ Break(p)
  /\ UNCHANGED <<minerVars, serverVars, clientVars, lost>>

BreakLive(p) ==
  /\ Alive(p) /\ lost < MaxLost /\ Break(p)
  /\ lost' = lost + 1
  /\ UNCHANGED <<minerVars, serverVars, clientVars>>

-----------------------------------------------------------------------------
ByMiner(A) == A /\ UNCHANGED <<serverVars, clientVars, lost>>
ByServer(A) == A /\ UNCHANGED <<clientVars, lost>>

Next ==
  \/ \E m \in Miners :
       \/ ByMiner(MinerJoin(m))
       \/ ByMiner(MinerRead(m))
       \/ ByMiner(MinerReply(m))
       \/ ByMiner(MinerLost(m))
       \/ BreakLive(m)
  \/ \E c \in Clients :
       \/ \E u \in Uppers[c] : ClientAsk(c, u)
       \/ ClientResult(c)
       \/ ClientGivesUp(c)
  \/ \E p \in Peers :
       \/ BreakDead(p)
       \/ ByServer(Receive(p))
       \/ ByServer(ReceiveError(p))
  \/ ByServer(HandleRequest)
  \/ ByServer(TriggerIdle)
  \/ ByServer(TriggerLost)
  \/ ByServer(TriggerAssign)
  \/ ByServer(HandleJoin)
  \/ ByServer(ResultIgnored)
  \/ ByServer(HandleResult)
  \/ ByServer(LostBusy)
  \/ ByServer(LostFree)
  \/ ByServer(LostOther)

Spec == Init /\ [][Next]_vars

-----------------------------------------------------------------------------
(* Properties *)

Part == [client : Clients, lower : Nonce, upper : Nonce]
Message(p) ==
  IF p \in Clients THEN [type : {"Request"}, data : {p}, lower : Nonce, upper : Nonce]
  ELSE {Join} \cup [type : {"Result"}, hash : Nat, nonce : Nonce]

\* The state is well typed; only miners are in the lists of miners, only clients have
\* tasks, and a task that exists waits for at least one part.
TypeOK ==
  /\ link \in [Peers -> {"none", "up", "down"}] /\ lossRead \in [Peers -> BOOLEAN]
  /\ \A p \in Peers : toServer[p] \in Seq(Message(p))
  /\ \A m \in Miners :
       toPeer[m] \in Seq([type : {"Request"}, data : Clients, lower : Nonce, upper : Nonce])
  /\ \A c \in Clients : toPeer[c] \in Seq([type : {"Result"}, hash : Nat, nonce : Nonce])
  /\ mpc \in [Miners -> {"start", "read", "mine", "dead"}]
  /\ joins \in Seq(Miners) /\ requests \in Seq([id : Clients, upper : Nonce])
  /\ results \in Seq([id : Miners, hash : Nat, nonce : Nonce]) /\ errors \in Seq(Peers)
  /\ trigger \in 0 .. ChanCap
  /\ freeMiners \in Seq(Miners) /\ pendingRequests \in Seq(Part)
  /\ miners \in [Miners -> {NoTask} \cup [client : Clients \cup {Nobody}, lower : Nonce, upper : Nonce]]
  /\ tasks \in [Clients -> {NoTask} \cup [lost : BOOLEAN, min : Finding, miners : Nat \ {0}]]
  /\ cpc \in [Clients -> {"start", "waiting", "answered", "disconnected"}]
  /\ asked \in [Clients -> Nonce] /\ answer \in [Clients -> Finding]

BusyWith(c) == {m \in Miners : Busy(m) /\ miners[m].client = c}

PendingOf(c) == {i \in 1 .. Len(pendingRequests) : pendingRequests[i].client = c}

\* The parts of c's request that are pending or with a miner.
PartsLeft(c) == Cardinality(BusyWith(c)) + Cardinality(PendingOf(c))

\* No part of a request is lost or done twice: the count a task waits for is the number
\* of its parts that are pending or with a miner, whichever miners come, go and are
\* heard of late.  A task with parts is never nil where schedule looks at it.
PartsConserved ==
  \A c \in Clients :
    IF tasks[c] = NoTask THEN PartsLeft(c) = 0
    ELSE /\ tasks[c].miners >= PartsLeft(c)
         /\ ~tasks[c].lost => tasks[c].miners = PartsLeft(c)

\* c was lost, and a part of its request was dropped: from pendingRequests, or with the
\* miner that had it.
PartDropped(c) == tasks[c] # NoTask /\ tasks[c].lost /\ tasks[c].miners > PartsLeft(c)

\* freeMiners has every known miner without work, once, and nobody else.
FreeListExact ==
  /\ \A i, j \in 1 .. Len(freeMiners) : freeMiners[i] = freeMiners[j] => i = j
  /\ ToSet(freeMiners) = {m \in Miners : miners[m] # NoTask /\ ~Busy(m)}

\* The scheduler does not fall asleep: while a miner is free and a part is pending, a
\* trigger is on its way or a busy miner will make one.  (A part of a lost client that is
\* dropped uses up a trigger, or a busy miner, without making another trigger.)
Awake ==
  freeMiners # <<>> /\ pendingRequests # <<>> =>
    \/ trigger > 0
    \/ \E m \in Miners : Busy(m)
    \/ \E c \in Clients : PartDropped(c)

\* The nonces a miner tries for part p: what is left when the goroutines share the range
\* equally is not tried.
Tried(p) == IF Goroutines(p) = 0 THEN {} ELSE p.lower .. p.upper - (Size(p) % Goroutines(p))

\* The request of c was cut into parts that are not empty.  (With more free miners than
\* the range has room for, the last parts are empty or begin beyond their end.)
CutWell(c) == \A p \in split[c] : p.lower < p.upper

\* What the parts of c's request were tried with.
Nonces(c) == UNION {Tried(p) : p \in split[c]}

\* r is the least hash of message d and the nonces, with its nonce.
LeastIn(r, d, nonces) ==
  /\ r.nonce \in nonces
  /\ r.hash = Hash[d][r.nonce]
  /\ \A n \in nonces : r.hash <= Hash[d][n]

\* The answer a client prints is the least hash of all nonces its parts were tried with,
\* and belongs to the nonce printed with it.
AnswerLeast ==
  \A c \in Clients : cpc[c] = "answered" /\ CutWell(c) => LeastIn(answer[c], c, Nonces(c))

\* m was lost, and the server learned it before it handled m's Join: it keeps m for ever.
Ghost(m) == link[m] = "down" /\ ~lossRead[m] /\ miners[m] # NoTask /\ m \notin ToSet(errors)

\* What keeps a client waiting: nobody mines, a part is with a ghost, or the trigger for
\* its part was lost with a part of a lost client.
Hopeless ==
  \/ \A m \in Miners : mpc[m] \in {"start", "dead"} \/ link[m] = "down"
  \/ \E m \in Miners : Ghost(m) /\ Busy(m)
  \/ \E c \in Clients : PartDropped(c)

\* No process, channel or connection has anything left to do.
Quiet ==
  /\ \A p \in Peers : toServer[p] = <<>> /\ ~lossRead[p]
  /\ joins = <<>> /\ requests = <<>> /\ results = <<>> /\ errors = <<>> /\ trigger = 0
  /\ \A m \in Miners : mpc[m] # "mine" /\ (mpc[m] = "read" => toPeer[m] = <<>> /\ link[m] = "up")
  /\ \A m \in Miners : mpc[m] = "dead" => link[m] # "up"
  /\ \A c \in Clients : cpc[c] = "waiting" => toPeer[c] = <<>> /\ link[c] = "up"

\* No client is forgotten: when the system comes to rest, a client that still waits has
\* no miner that could help it, or is a victim of a ghost or of a lost client.
Served == Quiet => (\A c \in Clients : cpc[c] # "waiting") \/ Hopeless
=============================================================================
