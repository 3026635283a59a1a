----------------------------- MODULE BtcServer ------------------------------
(***************************************************************************)
(* The server (bitcoin/server/server.go).  `receive` sorts what Read       *)
(* returns into four channels; `schedule` is a select over these and over  *)
(* `trigger`, a channel to itself: one trigger lets one pending part of a  *)
(* request go to one free miner.                                           *)
(***************************************************************************)
EXTENDS BtcMiner, SequencesExt

CONSTANTS
  Big,      \* 10000: a request up to more than this is cut into Log10 parts
  Log10,    \* Log10[x]: math.Floor(math.Log10(x)), for x > Big
  ChanCap,  \* the capacity of the five channels, 1024
  NoTask    \* Go's nil

ASSUME ServerAssumption ==
  /\ Big \in Nat
  /\ Log10 \in [Big + 1 .. Word - 1 -> Nat \ {0}]
  /\ ChanCap \in Nat \ {0}

VARIABLES
  joins, requests, results, errors,
  trigger,          \* the number of values in the channel
  freeMiners,
  miners,           \* miners[m]: the part m has; client Nobody when it is free; NoTask: none
  pendingRequests,
  tasks,            \* tasks[c], or NoTask
  split             \* history: the parts a client's request was cut into

chanVars == <<joins, requests, results, errors>>
schedVars == <<trigger, freeMiners, miners, pendingRequests, tasks, split>>
serverVars == <<chanVars, schedVars>>

\* clientID 0: no connection has it, as LSP's IDs count up from 73.
Nobody == 0

Free == [client |-> Nobody, lower |-> 0, upper |-> 0]

\* startServer
ServerInit ==
  /\ joins = <<>> /\ requests = <<>> /\ results = <<>> /\ errors = <<>>
  /\ trigger = 0
  /\ freeMiners = <<>>
  /\ miners = [m \in Miners |-> NoTask]
  /\ pendingRequests = <<>>
  /\ tasks = [c \in Clients |-> NoTask]
  /\ split = [c \in Clients |-> {}]

-----------------------------------------------------------------------------
(* receive *)

\* Read returns a message: it goes to the channel of its type.
Receive(p) ==
  /\ toServer[p] # <<>>
  /\ LET m == Head(toServer[p]) IN
     \/ /\ m.type = "Join" /\ Len(joins) < ChanCap
        /\ joins' = Append(joins, p)
        /\ UNCHANGED <<requests, results>>
     \/ /\ m.type = "Request" /\ Len(requests) < ChanCap
        /\ requests' = Append(requests, [id |-> p, upper |-> m.upper])
        /\ UNCHANGED <<joins, results>>
     \/ /\ m.type = "Result" /\ Len(results) < ChanCap
        /\ results' = Append(results, [id |-> p, hash |-> m.hash, nonce |-> m.nonce])
        /\ UNCHANGED <<joins, requests>>
  /\ toServer' = [toServer EXCEPT ![p] = Tail(@)]
  /\ UNCHANGED <<link, toPeer, lossRead, minerVars, errors, schedVars>>

\* Read returns an error: p is lost.
ReceiveError(p) ==
  /\ lossRead[p] /\ Len(errors) < ChanCap
  /\ lossRead' = [lossRead EXCEPT ![p] = FALSE]
  /\ errors' = Append(errors, p)
  /\ UNCHANGED <<link, toServer, toPeer, minerVars, joins, requests, results, schedVars>>

-----------------------------------------------------------------------------
(* schedule *)

\* `trigger <- struct{}{}`: when the channel is full, schedule waits for itself for ever.
Trigger ==
  /\ trigger < ChanCap
  /\ trigger' = trigger + 1

Stride(upper) ==
  LET s == IF upper > Big THEN Log10[upper] ELSE 1
  IN IF s < Len(freeMiners) THEN Len(freeMiners) ELSE s

Lesser(a, b) == IF b > a THEN a ELSE b

\* the parts of a request, each up to the first nonce of the next
Parts(r) ==
  LET stride == Stride(r.upper)
      step == (r.upper + stride - 1) \div stride
  IN [i \in 1 .. stride |->
       [client |-> r.id, lower |-> ((i - 1) * step) % Word, upper |-> Lesser(r.upper, (i * step) % Word)]]

\* `case r := <-srv.requests`
HandleRequest ==
  /\ requests # <<>>
  /\ LET r == Head(requests) IN
     /\ tasks' = [tasks EXCEPT ![r.id] = [lost |-> FALSE, min |-> Unset, miners |-> Stride(r.upper)]]
     /\ pendingRequests' = pendingRequests \o Parts(r)
     /\ split' = [split EXCEPT ![r.id] = ToSet(Parts(r))]
  /\ Trigger
  /\ requests' = Tail(requests)
  /\ UNCHANGED <<connVars, minerVars, joins, results, errors, freeMiners, miners>>

\* `case <-trigger` with nothing to do
TriggerIdle ==
  /\ trigger > 0 /\ (freeMiners = <<>> \/ pendingRequests = <<>>)
  /\ trigger' = trigger - 1
  /\ UNCHANGED <<connVars, minerVars, chanVars, freeMiners, miners, pendingRequests, tasks, split>>

\* ... with a part of a lost client's request, which is dropped
TriggerLost ==
  /\ trigger > 0 /\ freeMiners # <<>> /\ pendingRequests # <<>>
  /\ tasks[Head(pendingRequests).client].lost
  /\ trigger' = trigger - 1
  /\ pendingRequests' = Tail(pendingRequests)
  /\ UNCHANGED <<connVars, minerVars, chanVars, freeMiners, miners, tasks, split>>

\* ... with a part that goes to a free miner
TriggerAssign ==
  /\ trigger > 0 /\ freeMiners # <<>> /\ pendingRequests # <<>>
  /\ LET r == Head(pendingRequests)
         m == Head(freeMiners)
     IN /\ ~tasks[r.client].lost
        /\ toPeer' = Written(toPeer, m, Request(r.client, r.lower, r.upper))
        /\ miners' = [miners EXCEPT ![m] = r]
  /\ trigger' = trigger - 1
  /\ pendingRequests' = Tail(pendingRequests)
  /\ freeMiners' = Tail(freeMiners)
  /\ UNCHANGED <<link, toServer, lossRead, minerVars, chanVars, tasks, split>>

\* a miner joins
AddMiner(id) ==
  /\ freeMiners' = <<id>> \o freeMiners
  /\ miners' = [miners EXCEPT ![id] = Free]
  /\ joins' = Tail(joins)
  /\ UNCHANGED <<connVars, minerVars, requests, results, errors, pendingRequests, tasks, split>>

\* Mutant: no trigger for a miner that joins.
HandleJoinSilent == joins # <<>> /\ AddMiner(Head(joins)) /\ UNCHANGED trigger

\* `case id := <-srv.joins`
HandleJoin == joins # <<>> /\ AddMiner(Head(joins)) /\ Trigger

Busy(m) == miners[m] # NoTask /\ miners[m].client # Nobody

\* `case r := <-srv.results` from a miner that is not known, or not busy
ResultIgnored ==
  /\ results # <<>> /\ ~Busy(Head(results).id)
  /\ results' = Tail(results)
  /\ UNCHANGED <<connVars, minerVars, joins, requests, errors, schedVars>>

\* Mutant: the count is looked at before it is decremented.
LastPartLate(t) == t.miners = 0

\* `task.miners == 0`, once this result is counted
LastPart(t) == t.miners = 1

\* ... from a busy miner: the last result of a task is answered to its client
HandleResult ==
  /\ results # <<>> /\ Busy(Head(results).id)
  /\ LET r == Head(results)
         c == miners[r.id].client
         t == tasks[c]
         min == Least(t.min, r)
         last == LastPart(t)
     IN /\ tasks' = [tasks EXCEPT ![c] =
                       IF last THEN NoTask ELSE [t EXCEPT !.miners = @ - 1, !.min = min]]
        /\ toPeer' = IF last /\ ~t.lost THEN Written(toPeer, c, Result(min.hash, min.nonce)) ELSE toPeer
        /\ miners' = [miners EXCEPT ![r.id].client = Nobody]
        /\ freeMiners' = Append(freeMiners, r.id)
  /\ Trigger
  /\ results' = Tail(results)
  /\ UNCHANGED <<link, toServer, lossRead, minerVars, joins, requests, errors, pendingRequests, split>>

\* Mutant: the part of a lost miner is not given to another one.
RequeueDropped(r) == UNCHANGED pendingRequests

\* the part of a lost miner is the next to be done
Requeue(r) == pendingRequests' = <<r>> \o pendingRequests

\* `case e := <-srv.errors`, a miner that works for a client
LoseBusy(e) ==
  /\ e \in Miners /\ Busy(e) /\ ~tasks[miners[e].client].lost
  /\ Requeue(miners[e])
  /\ miners' = [miners EXCEPT ![e] = NoTask]
  /\ errors' = Tail(errors)
  /\ UNCHANGED <<connVars, minerVars, joins, requests, results, freeMiners, tasks, split>>

\* Mutant: no trigger for the part of a lost miner.
LostBusySilent == errors # <<>> /\ LoseBusy(Head(errors)) /\ UNCHANGED trigger

\* ... whose part goes back to the front of the queue, with a trigger for it
LostBusy == errors # <<>> /\ LoseBusy(Head(errors)) /\ Trigger

\* Mutant: a lost miner stays among the free ones.
FreeWithoutKept(e) == freeMiners

\* The loop over freeMiners ends at the first miner it removes, as Remove unlinks it.
FreeWithout(e) == RemoveFirstMatch(freeMiners, LAMBDA m : m = e \/ miners[m] = NoTask)

\* ... a free miner, or one that works for a lost client
LostFree ==
  /\ errors # <<>> /\ Head(errors) \in Miners
  /\ LET e == Head(errors) IN
     /\ miners[e] # NoTask
     /\ Busy(e) => tasks[miners[e].client].lost
     /\ miners' = [miners EXCEPT ![e] = NoTask]
     /\ freeMiners' = FreeWithout(e)
  /\ errors' = Tail(errors)
  /\ UNCHANGED <<connVars, minerVars, joins, requests, results, trigger, pendingRequests, tasks, split>>

\* ... a client with a task, or somebody unknown
LostOther ==
  /\ errors # <<>>
  /\ LET e == Head(errors) IN
     /\ e \in Miners => miners[e] = NoTask
     /\ tasks' = IF e \in Clients /\ tasks[e] # NoTask THEN [tasks EXCEPT ![e].lost = TRUE] ELSE tasks
  /\ errors' = Tail(errors)
  /\ UNCHANGED <<connVars, minerVars, joins, requests, results, trigger, freeMiners, miners>>
  /\ UNCHANGED <<pendingRequests, split>>
=============================================================================
