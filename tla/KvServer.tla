------------------------------ MODULE KvServer ------------------------------
(***************************************************************************)
(* The key-value server of project 1 (p1/server.go and kv.go): `listen`    *)
(* accepts connections, each has a `receiver` and a `sender` goroutine,    *)
(* and `dispatch` goes round the list of clients: it takes one request     *)
(* from each, and then sends the answers of the round to all of them.      *)
(*                                                                         *)
(* A request is tagged with its client and number, a response with its     *)
(* number among all responses; the values set are the tags of the requests *)
(* that set them.  sent, log and applied are histories for the properties. *)
(***************************************************************************)
EXTENDS CList, FiniteSets, Functions

CONSTANTS
  Clients,   \* client connections
  Keys,
  ReqCap,    \* capacity of client.req (500)
  ResCap,    \* capacity of client.res (500)
  MaxReq,    \* bound: the requests all clients make
  MaxGone    \* bound: the clients that go away

ASSUME KvAssumption ==
  /\ None \notin Clients
  /\ ReqCap \in Nat \ {0} /\ ResCap \in Nat \ {0} /\ MaxReq \in Nat /\ MaxGone \in Nat

VARIABLES
  lopen,    \* the listener is open
  new,      \* the connection listen has accepted and not yet pushed
  conn,     \* conn[c]: "none", "open", "closed" by the client
  rpc,      \* receiver(c): "off", "read", at "send" with its last request, "remove", "ended"
  req,      \* c.req
  res,      \* c.res
  out,      \* what sender(c) has taken from c.res
  store,    \* kvstore
  dpc,      \* dispatch: in its "collect" or its "broadcast" loop
  round,    \* dispatch's res
  next,     \* the position of r in `range res`
  sent, log, applied,
  dropped   \* a response to c was dropped because c.res was full

listenVars == <<lopen, new, conn>>
dispatchVars == <<store, dpc, round, next, log, applied>>
kvVars == <<listenVars, rpc, req, res, out, dispatchVars, sent, dropped>>
vars == <<clistVars, kvVars>>

\* the number of requests made
Made == FoldFunction(LAMBDA s, n : Len(s) + n, 0, sent)

Requests(c) ==
  {[client |-> c, n |-> Len(sent[c]) + 1, command |-> m, key |-> k] : m \in {"get", "set"}, k \in Keys}

\* New and Start
Init ==
  /\ CListInit
  /\ lopen = TRUE
  /\ new = None
  /\ conn = [c \in Clients |-> "none"]
  /\ rpc = [c \in Clients |-> "off"]
  /\ req = [c \in Clients |-> <<>>]
  /\ res = [c \in Clients |-> <<>>]
  /\ out = [c \in Clients |-> <<>>]
  /\ store = [k \in Keys |-> <<>>]
  /\ dpc = "collect"
  /\ round = <<>>
  /\ next = 1
  /\ sent = [c \in Clients |-> <<>>]
  /\ log = <<>>
  /\ applied = [k \in Keys |-> <<>>]
  /\ dropped = [c \in Clients |-> FALSE]
-----------------------------------------------------------------------------
(* listen, Close, and what the clients do *)

\* Accept returns a connection
Accept(c) ==
  /\ new = None /\ lopen /\ conn[c] = "none"
  /\ conn' = [conn EXCEPT ![c] = "open"]
  /\ new' = c
  /\ UNCHANGED <<clistVars, lopen, rpc, req, res, out, dispatchVars, sent, dropped>>

\* the client is put into the list, and its goroutines start
ListenPush ==
  /\ new # None
  /\ PushBack(new)
  /\ rpc' = [rpc EXCEPT ![new] = "read"]
  /\ new' = None
  /\ UNCHANGED <<lopen, conn, req, res, out, dispatchVars, sent, dropped>>

\* Close closes the listener and nothing else; Accept fails and listen ends
Close ==
  /\ lopen
  /\ lopen' = FALSE
  /\ UNCHANGED <<clistVars, new, conn, rpc, req, res, out, dispatchVars, sent, dropped>>

\* a client goes away
Disconnect(c) ==
  /\ conn[c] = "open" /\ Cardinality({d \in Clients : conn[d] = "closed"}) < MaxGone
  /\ conn' = [conn EXCEPT ![c] = "closed"]
  /\ UNCHANGED <<clistVars, lopen, new, rpc, req, res, out, dispatchVars, sent, dropped>>

-----------------------------------------------------------------------------
(* receiver(c) and sender(c) *)

\* A request has arrived.  One whose command is unknown is passed over in the same
\* loop; what the client had sent before it went away may still arrive.
ReceiverRead(c, r) ==
  /\ rpc[c] = "read" /\ Made < MaxReq
  /\ sent' = [sent EXCEPT ![c] = Append(@, r)]
  /\ rpc' = [rpc EXCEPT ![c] = "send"]
  /\ UNCHANGED <<clistVars, listenVars, req, res, out, dispatchVars, dropped>>

\* the request last read goes into c.req, which is q then
PutRequest(c, q) ==
  /\ rpc[c] = "send"
  /\ req' = [req EXCEPT ![c] = q]
  /\ rpc' = [rpc EXCEPT ![c] = "read"]
  /\ UNCHANGED <<clistVars, listenVars, res, out, dispatchVars, sent, dropped>>

\* Mutant: the oldest request makes room for a new one.
ReceiverSendOver(c) ==
  LET q == Append(req[c], sent[c][Len(sent[c])])
  IN PutRequest(c, IF Len(q) > ReqCap THEN Tail(q) ELSE q)

\* `c.req <- &request{...}` waits while the channel is full
ReceiverSend(c) == Len(req[c]) < ReqCap /\ PutRequest(c, Append(req[c], sent[c][Len(sent[c])]))

\* ReadBytes returns an error, between two requests or inside one
ReceiverError(c) ==
  /\ rpc[c] = "read" /\ conn[c] = "closed"
  /\ rpc' = [rpc EXCEPT ![c] = "remove"]
  /\ UNCHANGED <<clistVars, listenVars, req, res, out, dispatchVars, sent, dropped>>

\* the deferred kvs.clients.Remove(c)
ReceiverRemove(c) ==
  /\ rpc[c] = "remove"
  /\ Remove(c)
  /\ rpc' = [rpc EXCEPT ![c] = "ended"]
  /\ UNCHANGED <<listenVars, req, res, out, dispatchVars, sent, dropped>>

\* `r := <-c.res`, and the response is written.  A client that reads slowly, or not at
\* all, delays this step for any time; the goroutine of a client that is gone goes on.
SenderTake(c) ==
  /\ res[c] # <<>>
  /\ out' = [out EXCEPT ![c] = Append(@, Head(res[c]))]
  /\ res' = [res EXCEPT ![c] = Tail(@)]
  /\ UNCHANGED <<clistVars, listenVars, rpc, req, dispatchVars, sent, dropped>>

-----------------------------------------------------------------------------
(* dispatch *)

IterStep ==
  /\ IterLock \/ IterSend \/ IterClose \/ IterUnlock
  /\ UNCHANGED kvVars

get(key) == store[key]

set(key, value) == store' = [store EXCEPT ![key] = value]

\* a request is taken from cur's channel and handled
Collect ==
  /\ dpc = "collect" /\ cur # None /\ req[cur] # <<>>
  /\ LET r == Head(req[cur])
         answer == [id |-> Len(log) + 1, to |-> r, value |-> get(r.key)]
     IN \/ /\ r.command = "get"
           /\ round' = Append(round, answer)
           /\ log' = Append(log, answer)
           /\ UNCHANGED <<store, applied>>
        \/ /\ r.command = "set"
           /\ set(r.key, <<r.client, r.n>>)
           /\ applied' = [applied EXCEPT ![r.key] = Append(@, <<r.client, r.n>>)]
           /\ UNCHANGED <<round, log>>
  /\ req' = [req EXCEPT ![cur] = Tail(@)]
  /\ cur' = None
  /\ UNCHANGED <<items, mutex, iter, pos, listenVars, rpc, res, out, dpc, next, sent, dropped>>

\* `default: continue`
CollectNothing ==
  /\ dpc = "collect" /\ cur # None /\ req[cur] = <<>>
  /\ cur' = None
  /\ UNCHANGED <<items, mutex, iter, pos, kvVars>>

\* the channel of Iter is closed: the loop over it ends, and another one begins
Turn(loop, r) ==
  /\ cur = None /\ iter = "done"
  /\ dpc' = loop
  /\ round' = r
  /\ iter' = "start"
  /\ UNCHANGED <<items, mutex, pos, cur, listenVars, rpc, req, res, out, store, next>>
  /\ UNCHANGED <<sent, log, applied, dropped>>

\* the answers, if there are any, go to a second Iter
CollectEnd == dpc = "collect" /\ Turn(IF round = <<>> THEN "collect" ELSE "broadcast", round)

\* Mutant: room is looked for only once, before the first response of the round.
FullAtFirst(c) == next = 1 /\ Len(res[c]) >= ResCap

\* the send would wait: `default`
Full(c) == Len(res[c]) >= ResCap

\* One response to cur, dropped when its channel is full: `break` only leaves the
\* select, so the responses that follow are tried as well
Broadcast ==
  /\ dpc = "broadcast" /\ cur # None
  /\ res' = IF Full(cur) THEN res ELSE [res EXCEPT ![cur] = Append(@, round[next])]
  /\ dropped' = IF Full(cur) THEN [dropped EXCEPT ![cur] = TRUE] ELSE dropped
  /\ next' = IF next = Len(round) THEN 1 ELSE next + 1
  /\ cur' = IF next = Len(round) THEN None ELSE cur
  /\ UNCHANGED <<items, mutex, iter, pos, listenVars, rpc, req, out, store, dpc, round>>
  /\ UNCHANGED <<sent, log, applied>>

\* Mutant: `res` is declared outside of the loop.
BroadcastEndKept == dpc = "broadcast" /\ Turn("collect", round)

\* the next turn of the outer loop, with an empty res
BroadcastEnd == dpc = "broadcast" /\ Turn("collect", <<>>)

Dispatch == Collect \/ CollectNothing \/ CollectEnd \/ Broadcast \/ BroadcastEnd

Next ==
  \/ \E c \in Clients :
       \/ Accept(c)
       \/ Disconnect(c)
       \/ \E r \in Requests(c) : ReceiverRead(c, r)
       \/ ReceiverSend(c)
       \/ ReceiverError(c)
       \/ ReceiverRemove(c)
       \/ SenderTake(c)
  \/ ListenPush
  \/ Close
  \/ IterStep
  \/ Collect
  \/ CollectNothing
  \/ CollectEnd
  \/ Broadcast
  \/ BroadcastEnd

\* Every goroutine runs.  Those who wait to send on the channel cl.mutex queue in the
\* order they came, so a Remove or a PushBack that meets a free mutex again and again
\* gets it, though the next Iter always wants it too.
Fairness ==
  /\ WF_vars(Dispatch \/ IterStep)
  /\ SF_vars(ListenPush)
  /\ \A c \in Clients :
       WF_vars(ReceiverSend(c)) /\ WF_vars(ReceiverError(c)) /\ SF_vars(ReceiverRemove(c))

Spec == Init /\ [][Next]_vars /\ Fairness

-----------------------------------------------------------------------------
(* Properties *)

Tags == Clients \X Nat

\* The state is well typed; no channel holds more than its capacity, and an Iter goroutine
\* that sends has the mutex.
TypeOK ==
  /\ items \in Seq(Clients) /\ cur \in Clients \cup {None} /\ pos \in Nat
  /\ mutex \in {"free", "iter", "closed"} /\ iter \in {"start", "on", "done"}
  /\ iter = "on" <=> mutex = "iter"
  /\ lopen \in BOOLEAN /\ new \in Clients \cup {None}
  /\ conn \in [Clients -> {"none", "open", "closed"}]
  /\ rpc \in [Clients -> {"off", "read", "send", "remove", "ended"}]
  /\ \A c \in Clients : Len(req[c]) <= ReqCap /\ Len(res[c]) <= ResCap
  /\ store \in [Keys -> Tags \cup {<<>>}]
  /\ dpc \in {"collect", "broadcast"} /\ next \in 1 .. Len(round) + 1

\* The responses the server has given to the sender of c, in order.
Given(c) == out[c] \o res[c]

\* Every client in the list gets every answer, to whomever it is, once and in the order
\* dispatch computed them; only a full c.res makes a gap.  Clients come and go between
\* and during the two loops of a round.
SameAnswers ==
  \A c \in Clients :
    LET g == Given(c) IN
    /\ \A i \in 1 .. Len(g) - 1 : g[i].id < g[i + 1].id
    /\ ~dropped[c] => \A i \in 1 .. Len(g) - 1 : g[i + 1].id = g[i].id + 1
    /\ ~dropped[c] /\ InList(c) /\ dpc = "collect" /\ g # <<>> => g[Len(g)].id = Len(log) - Len(round)

\* The sets of key k that client c sent before its n-th request.
SetsBefore(c, n, k) == {i \in 1 .. n - 1 : sent[c][i].command = "set" /\ sent[c][i].key = k}

\* Where the set that wrote v is among the sets applied to key k; 0 for the initial value.
Position(k, v) == CHOOSE i \in 0 .. Len(applied[k]) : IF i = 0 THEN v = <<>> ELSE applied[k][i] = v

\* What is answered follows the sets: a get sees its own client's earlier sets (or later
\* ones), and no client reads a key backwards.
ReadsFollowSets ==
  /\ \A i \in 1 .. Len(log) :
       LET r == log[i].to IN
       \A n \in SetsBefore(r.client, r.n, r.key) :
          /\ \E j \in 1 .. Len(applied[r.key]) : applied[r.key][j] = <<r.client, n>>
          /\ Position(r.key, <<r.client, n>>) <= Position(r.key, log[i].value)
  /\ \A i, j \in 1 .. Len(log) :
       i < j /\ log[i].to.key = log[j].to.key =>
          Position(log[i].to.key, log[i].value) <= Position(log[i].to.key, log[j].value)

\* Every request that is read is handled, unless its client goes away: dispatch always
\* gets the list again, and a full c.req drains.
Handled ==
  \A c \in Clients :
    rpc[c] = "send" \/ req[c] # <<>> ~> (rpc[c] # "send" /\ req[c] = <<>>) \/ conn[c] = "closed"

\* A client that went away leaves the list, and Count can return, though dispatch has
\* the list's mutex almost all the time.
Unblocked ==
  /\ \A c \in Clients : conn[c] = "closed" ~> rpc[c] = "ended" /\ ~InList(c)
  /\ []<>LenReturns
=============================================================================
