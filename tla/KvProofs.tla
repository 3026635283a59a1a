----------------------------- MODULE KvProofs ------------------------------
(***************************************************************************)
(* Proofs about the key-value server, for any clients, keys, capacities of *)
(* the channels and number of requests, and clients that go away whenever  *)
(* they like.                                                              *)
(*                                                                         *)
(* SameAnswers rests on how far dispatch has come with each client in its  *)
(* second loop (Due), though the list may change between the end of Iter   *)
(* and the end of the loop.  ReadsFollowSets rests on the order of each    *)
(* client's requests from the connection to the store (Taken).             *)
(***************************************************************************)
EXTENDS KvServer, SequenceTheorems, TLAPS

-----------------------------------------------------------------------------
(* The inductive invariant *)

Elements(s) == {s[i] : i \in 1 .. Len(s)}

Distinct(s) == \A i, j \in 1 .. Len(s) : s[i] = s[j] => i = j

Request == [client : Clients, n : Nat, command : {"get", "set"}, key : Keys]

Value == Tags \cup {<<>>}

Response == [id : Nat, to : Request, value : Value]

ListTypes ==
  /\ items \in Seq(Clients) /\ cur \in Clients \cup {None} /\ pos \in Nat
  /\ mutex \in {"free", "iter", "closed"} /\ iter \in {"start", "on", "done"}
  /\ iter = "on" <=> mutex = "iter"

ConnTypes ==
  /\ lopen \in BOOLEAN /\ new \in Clients \cup {None}
  /\ conn \in [Clients -> {"none", "open", "closed"}]
  /\ rpc \in [Clients -> {"off", "read", "send", "remove", "ended"}]

ReqTypes ==
  /\ sent \in [Clients -> Seq(Request)] /\ req \in [Clients -> Seq(Request)]
  /\ \A c \in Clients : Len(req[c]) <= ReqCap

ResTypes ==
  /\ res \in [Clients -> Seq(Response)] /\ out \in [Clients -> Seq(Response)]
  /\ \A c \in Clients : Len(res[c]) <= ResCap
  /\ dropped \in [Clients -> BOOLEAN]

StoreTypes == store \in [Keys -> Value] /\ applied \in [Keys -> Seq(Tags)]

RoundTypes ==
  /\ round \in Seq(Response) /\ log \in Seq(Response)
  /\ dpc \in {"collect", "broadcast"} /\ next \in 1 .. Len(round) + 1

Types == ListTypes /\ ConnTypes /\ ReqTypes /\ ResTypes /\ StoreTypes /\ RoundTypes

\* A client is in the list once, from the time listen pushes it until its receiver
\* removes it; before that nothing was given to it.
ListOK ==
  /\ Distinct(items)
  /\ \A c \in Clients :
       /\ InList(c) <=> rpc[c] \in {"read", "send", "remove"}
       /\ rpc[c] = "off" => out[c] = <<>> /\ res[c] = <<>> /\ cur # c
       /\ conn[c] = "none" => rpc[c] = "off" /\ new # c
       /\ new = c => rpc[c] = "off"

\* Iter and the loop that receives from it.
LoopOK ==
  /\ iter = "start" => cur = None
  /\ iter = "on" => pos \in 1 .. Len(items) + 1
  /\ iter = "on" /\ cur # None => pos > 1 /\ cur = items[pos - 1]
  /\ cur = None \/ dpc = "collect" => next = 1
  /\ dpc = "broadcast" => next <= Len(round)

\* The number of the last answer that was broadcast before this round.
Base == Len(log) - Len(round)

RoundOK ==
  /\ \A i \in 1 .. Len(log) : log[i].id = i
  /\ Len(round) <= Len(log)
  /\ \A j \in 1 .. Len(round) : round[j] = log[Base + j]

\* Iter has yet to come to c.
Ahead(c) == iter = "start" \/ (iter = "on" /\ \E i \in pos .. Len(items) : items[i] = c)

\* The number of the last answer that was due to c.
Due(c) ==
  IF dpc = "collect" THEN Base
  ELSE IF c = cur THEN Base + next - 1
  ELSE IF Ahead(c) THEN Base ELSE Len(log)

\* The answers g are numbered upwards, without a gap if none was dropped.
Upwards(g, gaps) ==
  /\ \A i \in 1 .. Len(g) - 1 : g[i].id < g[i + 1].id
  /\ ~gaps => \A i \in 1 .. Len(g) - 1 : g[i + 1].id = g[i].id + 1

LastGiven(c) == Given(c)[Len(Given(c))].id

\* c gets the answers of the round, though it may leave the list while dispatch works on it.
Entitled(c) == InList(c) \/ c = cur

\* The answers given to c go up to the one that is due.
GivenTo(c) ==
  /\ Upwards(Given(c), dropped[c])
  /\ Given(c) # <<>> => LastGiven(c) <= Due(c) /\ (~dropped[c] /\ Entitled(c) => LastGiven(c) = Due(c))

GivenOK == \A c \in Clients : GivenTo(c)

\* The requests of c that dispatch has handled.
Taken(c) == Len(sent[c]) - Len(req[c]) - (IF rpc[c] = "send" THEN 1 ELSE 0)

\* What is in the channel of c follows in the order it was read.
RequestsOf(c) ==
  /\ Taken(c) >= 0
  /\ \A i \in 1 .. Len(sent[c]) : sent[c][i].client = c /\ sent[c][i].n = i
  /\ \A j \in 1 .. Len(req[c]) : req[c][j] = sent[c][Taken(c) + j]

RequestsOK == \A c \in Clients : RequestsOf(c)

\* The value the p-th set applied has written; the initial one for p = 0.
ValueAt(s, p) == IF p = 0 THEN <<>> ELSE s[p]

\* The sets of c that were handled are applied.
SetsApplied(c) ==
  \A i \in 1 .. Taken(c) : sent[c][i].command = "set" => <<c, i>> \in Elements(applied[sent[c][i].key])

\* What was applied to k was handled, once, and the last of it is in the store.
KeyOK(k) ==
  /\ Distinct(applied[k])
  /\ \A c \in Clients : \A i \in Nat : <<c, i>> \in Elements(applied[k]) => i \in 1 .. Taken(c)
  /\ store[k] = ValueAt(applied[k], Len(applied[k]))

AppliedOK == (\A c \in Clients : SetsApplied(c)) /\ (\A k \in Keys : KeyOK(k))

\* v was the value of k at some time.
Known(k, v) == v = <<>> \/ v \in Elements(applied[k])

\* The answer a was right.
AnswerOK(a) ==
  /\ a.to.n \in 1 .. Taken(a.to.client)
  /\ Known(a.to.key, a.value)
  /\ \A n \in SetsBefore(a.to.client, a.to.n, a.to.key) :
       /\ <<a.to.client, n>> \in Elements(applied[a.to.key])
       /\ Position(a.to.key, <<a.to.client, n>>) <= Position(a.to.key, a.value)

\* b, which was answered later than a, is not older.
NotOlder(a, b) == a.to.key = b.to.key => Position(a.to.key, a.value) <= Position(a.to.key, b.value)

AnsweredOK ==
  /\ \A i \in 1 .. Len(log) : AnswerOK(log[i])
  /\ \A i, j \in 1 .. Len(log) : i < j => NotOlder(log[i], log[j])

Inv == Types /\ ListOK /\ LoopOK /\ RoundOK /\ GivenOK /\ RequestsOK /\ AppliedOK /\ AnsweredOK

-----------------------------------------------------------------------------
(* Sequences *)

LEMMA RemovedAt ==
  ASSUME NEW S, NEW s \in Seq(S), NEW i \in 1 .. Len(s)
  PROVE  /\ Seqs!RemoveAt(s, i) \in Seq(S) /\ Len(Seqs!RemoveAt(s, i)) = Len(s) - 1
         /\ \A j \in 1 .. Len(s) - 1 : Seqs!RemoveAt(s, i)[j] = s[IF j < i THEN j ELSE j + 1]
<1>1. PICK n \in Nat : n = Len(s)
  OBVIOUS
<1> DEFINE a == SubSeq(s, 1, i - 1)
           b == SubSeq(s, i + 1, n)
<1>2. a \in Seq(S) /\ Len(a) = i - 1 /\ \A j \in 1 .. i - 1 : a[j] = s[j]
  BY <1>1
<1>3. b \in Seq(S) /\ Len(b) = n - i /\ \A j \in 1 .. n - i : b[j] = s[i + j]
  BY <1>1
<1>4. Seqs!RemoveAt(s, i) = a \o b
  BY <1>1 DEF Seqs!RemoveAt
<1> HIDE DEF a, b
<1>5. a \o b \in Seq(S) /\ Len(a \o b) = n - 1
  BY <1>1, <1>2, <1>3
<1>6. \A j \in 1 .. n - 1 : (a \o b)[j] = s[IF j < i THEN j ELSE j + 1]
  <2> TAKE j \in 1 .. n - 1
  <2>1. CASE j < i
    BY <1>1, <1>2, <1>3, <2>1
  <2>2. CASE ~(j < i)
    <3>1. j - (i - 1) \in 1 .. n - i /\ (a \o b)[j] = b[j - (i - 1)]
      BY <1>1, <1>2, <1>3, <2>2
    <3>2. i + (j - (i - 1)) = j + 1
      BY <1>1
    <3> QED BY <1>3, <2>2, <3>1, <3>2
  <2> QED BY <2>1, <2>2
<1> QED BY <1>1, <1>4, <1>5, <1>6

\* Remove takes v, and only v, out of a list that has it once.
LEMMA RemovedFirst ==
  ASSUME NEW S, NEW s \in Seq(S), NEW v, Distinct(s)
  PROVE  /\ Seqs!RemoveFirst(s, v) \in Seq(S) /\ Distinct(Seqs!RemoveFirst(s, v))
         /\ Elements(Seqs!RemoveFirst(s, v)) = Elements(s) \ {v}
<1>1. CASE \E i \in 1 .. Len(s) : s[i] = v
  <2>1. PICK k \in 1 .. Len(s) : s[k] = v
    BY <1>1
  <2>2. Seqs!RemoveFirst(s, v) = Seqs!RemoveAt(s, k)
    <3> DEFINE I == {i \in 1 .. Len(s) : s[i] = v}
    <3>1. Seqs!RemoveFirst(s, v) = Seqs!RemoveAt(s, IF I # {} THEN Seqs!Min(I) ELSE 0)
      BY <1>1 DEF Seqs!RemoveFirst, Seqs!SelectInSeq
    <3>2. I = {k}
      BY <2>1 DEF Distinct
    <3>3. Seqs!Min({k}) = k
      BY DEF Seqs!Min
    <3> HIDE DEF I
    <3> QED BY <3>1, <3>2, <3>3
  <2>3. PICK n \in Nat : n = Len(s)
    OBVIOUS
  <2>4. PICK t \in Seq(S) : t = Seqs!RemoveAt(s, k)
    BY RemovedAt
  <2>5. Len(t) = n - 1 /\ \A j \in 1 .. n - 1 : t[j] = s[IF j < k THEN j ELSE j + 1]
    BY <2>3, <2>4, RemovedAt
  <2> DEFINE at(j) == IF j < k THEN j ELSE j + 1
  <2>6. /\ \A j \in 1 .. n - 1 : at(j) \in 1 .. n /\ at(j) # k /\ t[j] = s[at(j)]
        /\ \A i, j \in 1 .. n - 1 : at(i) = at(j) => i = j
    BY <2>3, <2>5
  <2>7. \A i \in 1 .. n : i # k => \E j \in 1 .. n - 1 : at(j) = i
    <3> TAKE i \in 1 .. n
    <3>1. CASE i < k
      <4>1. i \in 1 .. n - 1 /\ at(i) = i
        BY <2>3, <3>1
      <4> QED BY <4>1
    <3>2. CASE i > k
      <4>1. i - 1 \in 1 .. n - 1 /\ at(i - 1) = i
        BY <2>3, <3>2
      <4> QED BY <4>1
    <3> QED BY <2>3, <3>1, <3>2
  <2> HIDE DEF at
  <2>d. \A i, j \in 1 .. n : s[i] = s[j] => i = j
    BY <2>3 DEF Distinct
  <2>8. \A i, j \in 1 .. n - 1 : t[i] = t[j] => i = j
    <3> TAKE i, j \in 1 .. n - 1
    <3>1. t[i] = s[at(i)] /\ t[j] = s[at(j)] /\ at(i) \in 1 .. n /\ at(j) \in 1 .. n
      BY <2>6
    <3> QED BY <2>6, <2>d, <3>1
  <2>9. \A x : (\E i \in 1 .. Len(t) : t[i] = x) <=> x # v /\ \E i \in 1 .. Len(s) : s[i] = x
    <3> TAKE x
    <3>1. ASSUME NEW j \in 1 .. n - 1, t[j] = x PROVE x # v /\ \E i \in 1 .. n : s[i] = x
      <4>1. at(j) \in 1 .. n /\ at(j) # k /\ s[at(j)] = x
        BY <2>6, <3>1
      <4> QED BY <2>1, <2>3, <2>d, <4>1
    <3>2. ASSUME NEW i \in 1 .. n, s[i] = x, x # v PROVE \E j \in 1 .. n - 1 : t[j] = x
      <4>1. i # k
        BY <2>1, <3>2
      <4>2. PICK j \in 1 .. n - 1 : at(j) = i
        BY <2>7, <4>1
      <4> QED BY <2>6, <3>2, <4>2
    <3> QED BY <2>3, <2>5, <3>1, <3>2
  <2>10. Len(t) = n - 1 /\ t = Seqs!RemoveFirst(s, v)
    BY <2>2, <2>4, <2>5
  <2>11. Distinct(t) /\ Elements(t) = Elements(s) \ {v}
    <3>1. Distinct(t)
      BY <2>5, <2>8 DEF Distinct
    <3>2. \A x : x \in Elements(t) <=> x \in Elements(s) /\ x # v
      BY <2>9, Zenon DEF Elements
    <3> QED BY <3>1, <3>2
  <2> QED BY <2>4, <2>10, <2>11
<1>2. CASE ~ \E i \in 1 .. Len(s) : s[i] = v
  <2>1. Seqs!RemoveFirst(s, v) = s
    BY <1>2 DEF Seqs!RemoveFirst
  <2> QED BY <1>2, <2>1 DEF Elements
<1> QED BY <1>1, <1>2

-----------------------------------------------------------------------------
(* Types *)

LEMMA TypesInit == ASSUME KvAssumption, Init PROVE Types
<1> USE DEF KvAssumption, Init
<1>1. ListTypes
  BY DEF ListTypes, CListInit
<1>2. ConnTypes /\ ReqTypes /\ ResTypes
  BY DEF ConnTypes, ReqTypes, ResTypes
<1>3. StoreTypes /\ RoundTypes
  BY DEF StoreTypes, RoundTypes, Value
<1> QED BY <1>1, <1>2, <1>3 DEF Types

\* What is left alone keeps its type.
LEMMA ListTypesKept == ASSUME ListTypes, UNCHANGED clistVars PROVE ListTypes'
BY DEF ListTypes, clistVars

LEMMA ConnTypesKept == ASSUME ConnTypes, UNCHANGED <<listenVars, rpc>> PROVE ConnTypes'
BY DEF ConnTypes, listenVars

LEMMA ReqTypesKept == ASSUME ReqTypes, UNCHANGED <<sent, req>> PROVE ReqTypes'
BY DEF ReqTypes

LEMMA ResTypesKept == ASSUME ResTypes, UNCHANGED <<res, out, dropped>> PROVE ResTypes'
BY DEF ResTypes

LEMMA StoreTypesKept == ASSUME StoreTypes, UNCHANGED <<store, applied>> PROVE StoreTypes'
BY DEF StoreTypes

LEMMA RoundTypesKept == ASSUME RoundTypes, UNCHANGED <<round, log, dpc, next>> PROVE RoundTypes'
BY DEF RoundTypes

\* The steps of the list.
LEMMA IterTypes == ASSUME KvAssumption, Inv, IterStep PROVE Types'
<1>0. Types /\ LoopOK
  BY DEF Inv
<1>1. ListTypes'
  <2> USE <1>0 DEF IterStep, Types, ListTypes
  <2>1. CASE IterLock
    BY <2>1 DEF IterLock, IterLockAt
  <2>2. CASE IterSend
    <3>1. pos \in 1 .. Len(items) /\ items[pos] \in Clients
      BY <2>2 DEF IterSend, LoopOK
    <3> QED BY <2>2, <3>1 DEF IterSend
  <2>3. CASE IterClose
    BY <2>3 DEF IterClose
  <2>4. CASE IterUnlock
    BY <2>4 DEF IterUnlock
  <2> QED BY <2>1, <2>2, <2>3, <2>4
<1>2. UNCHANGED <<listenVars, rpc, sent, req, res, out, dropped, store, applied, round, log, dpc, next>>
  BY DEF IterStep, kvVars, dispatchVars
<1> QED BY <1>0, <1>1, <1>2, ConnTypesKept, ReqTypesKept, ResTypesKept, StoreTypesKept, RoundTypesKept DEF Types

\* A request that is read is the next of its client.
LEMMA ReadRequest ==
  ASSUME Types, NEW c \in Clients, NEW r \in Requests(c)
  PROVE  r \in Request /\ r.client = c /\ r.n = Len(sent[c]) + 1
<1>1. PICK n \in Nat : n = Len(sent[c]) + 1
  BY DEF Types, ReqTypes
<1>2. PICK m \in {"get", "set"}, k \in Keys : r = [client |-> c, n |-> n, command |-> m, key |-> k]
  BY <1>1 DEF Requests
<1> QED BY <1>1, <1>2 DEF Request

\* A receiver that sends has read a request.
LEMMA LastRequest ==
  ASSUME Types, RequestsOK, NEW c \in Clients, rpc[c] = "send"
  PROVE  /\ Len(sent[c]) \in Nat /\ Len(req[c]) \in Nat /\ Len(sent[c]) >= Len(req[c]) + 1
         /\ sent[c][Len(sent[c])] \in Request
<1>1. PICK s \in Seq(Request), q \in Seq(Request) : s = sent[c] /\ q = req[c]
  BY DEF Types, ReqTypes
<1>2. Len(s) - Len(q) - 1 >= 0
  BY <1>1 DEF RequestsOK, RequestsOf, Taken
<1> QED BY <1>1, <1>2

\* The receivers and the senders.
LEMMA ClientTypes ==
  ASSUME KvAssumption, Inv, NEW c \in Clients,
         \/ Accept(c) \/ Disconnect(c) \/ \E r \in Requests(c) : ReceiverRead(c, r)
         \/ ReceiverSend(c) \/ ReceiverError(c) \/ ReceiverRemove(c) \/ SenderTake(c)
  PROVE  Types'
<1>0. /\ Types /\ ListOK /\ RequestsOK
      /\ ListTypes /\ ConnTypes /\ ReqTypes /\ ResTypes /\ StoreTypes /\ RoundTypes
  BY DEF Inv, Types
<1>k. /\ UNCHANGED <<store, applied>> => StoreTypes'
      /\ UNCHANGED <<round, log, dpc, next>> => RoundTypes'
      /\ UNCHANGED clistVars => ListTypes'
      /\ UNCHANGED <<listenVars, rpc>> => ConnTypes'
      /\ UNCHANGED <<sent, req>> => ReqTypes'
      /\ UNCHANGED <<res, out, dropped>> => ResTypes'
  BY <1>0, ListTypesKept, ConnTypesKept, ReqTypesKept, ResTypesKept, StoreTypesKept, RoundTypesKept
<1>1. CASE Accept(c)
  <2>1. ConnTypes'
    BY <1>0, <1>1 DEF Accept, ConnTypes
  <2> QED BY <1>k, <1>1, <2>1 DEF Accept, dispatchVars, Types
<1>2. CASE Disconnect(c)
  <2>1. ConnTypes'
    BY <1>0, <1>2 DEF Disconnect, ConnTypes
  <2> QED BY <1>k, <1>2, <2>1 DEF Disconnect, dispatchVars, Types
<1>3. ASSUME NEW r \in Requests(c), ReceiverRead(c, r) PROVE Types'
  <2>1. ConnTypes'
    BY <1>0, <1>3 DEF ReceiverRead, ConnTypes, listenVars
  <2>2. r \in Request
    BY <1>0, ReadRequest
  <2>3. PICK s \in Seq(Request) : s = sent[c]
    BY <1>0 DEF ReqTypes
  <2>4. sent' = [sent EXCEPT ![c] = Append(s, r)] /\ Append(s, r) \in Seq(Request)
    BY <1>3, <2>2, <2>3 DEF ReceiverRead
  <2>5. ReqTypes'
    BY <1>0, <1>3, <2>4 DEF ReceiverRead, ReqTypes
  <2> QED BY <1>k, <1>3, <2>1, <2>5 DEF ReceiverRead, dispatchVars, Types
<1>4. CASE ReceiverSend(c)
  <2>1. PICK r \in Request : r = sent[c][Len(sent[c])]
    BY <1>0, <1>4, LastRequest DEF ReceiverSend, PutRequest
  <2>2. PICK q \in Seq(Request) : q = req[c]
    BY <1>0 DEF ReqTypes
  <2>3. Append(q, r) \in Seq(Request) /\ Len(Append(q, r)) <= ReqCap
    BY <1>4, <2>1, <2>2 DEF ReceiverSend, KvAssumption
  <2>4. req' = [req EXCEPT ![c] = Append(q, r)]
    BY <1>4, <2>1, <2>2 DEF ReceiverSend, PutRequest
  <2>5. ReqTypes'
    BY <1>0, <1>4, <2>3, <2>4 DEF ReceiverSend, PutRequest, ReqTypes
  <2>6. ConnTypes'
    BY <1>0, <1>4 DEF ReceiverSend, PutRequest, ConnTypes, listenVars
  <2> QED BY <1>k, <1>4, <2>5, <2>6 DEF ReceiverSend, PutRequest, dispatchVars, Types
<1>5. CASE ReceiverError(c)
  <2>1. ConnTypes'
    BY <1>0, <1>5 DEF ReceiverError, ConnTypes, listenVars
  <2> QED BY <1>k, <1>5, <2>1 DEF ReceiverError, dispatchVars, Types
<1>6. CASE ReceiverRemove(c)
  <2>1. items' \in Seq(Clients)
    BY <1>0, <1>6, RemovedFirst DEF ReceiverRemove, Remove, ListOK, ListTypes
  <2>2. ListTypes'
    BY <1>0, <1>6, <2>1 DEF ReceiverRemove, Remove, ListTypes
  <2>3. ConnTypes'
    BY <1>0, <1>6 DEF ReceiverRemove, ConnTypes, listenVars
  <2> QED BY <1>k, <1>6, <2>2, <2>3 DEF ReceiverRemove, dispatchVars, Types
<1>7. CASE SenderTake(c)
  <2>1. PICK q \in Seq(Response), o \in Seq(Response) : q = res[c] /\ o = out[c]
    BY <1>0 DEF ResTypes
  <2>2. q # <<>> /\ Len(q) <= ResCap
    BY <1>0, <1>7, <2>1 DEF SenderTake, ResTypes
  <2>3. Tail(q) \in Seq(Response) /\ Append(o, Head(q)) \in Seq(Response) /\ Len(Tail(q)) <= ResCap
    BY <2>1, <2>2 DEF KvAssumption
  <2>4. res' = [res EXCEPT ![c] = Tail(q)] /\ out' = [out EXCEPT ![c] = Append(o, Head(q))]
    BY <1>0, <1>7, <2>1 DEF SenderTake, ResTypes
  <2>5. ResTypes'
    BY <1>0, <1>7, <2>3, <2>4 DEF SenderTake, ResTypes
  <2> QED BY <1>k, <1>7, <2>5 DEF SenderTake, dispatchVars, Types
<1> QED BY <1>1, <1>2, <1>3, <1>4, <1>5, <1>6, <1>7

LEMMA ListenTypes == ASSUME KvAssumption, Inv, ListenPush \/ Close PROVE Types'
<1>0. ListTypes /\ ConnTypes /\ ReqTypes /\ ResTypes /\ StoreTypes /\ RoundTypes
  BY DEF Inv, Types
<1>1. ReqTypes' /\ ResTypes' /\ StoreTypes' /\ RoundTypes'
  BY <1>0, ReqTypesKept, ResTypesKept, StoreTypesKept, RoundTypesKept DEF ListenPush, Close, dispatchVars
<1>2. CASE ListenPush
  <2>1. ListTypes' /\ ConnTypes'
    BY <1>0, <1>2 DEF ListenPush, PushBack, ListTypes, ConnTypes
  <2> QED BY <1>1, <2>1 DEF Types
<1>3. CASE Close
  <2>1. ListTypes' /\ ConnTypes'
    BY <1>0, <1>3, ListTypesKept DEF Close, ConnTypes
  <2> QED BY <1>1, <2>1 DEF Types
<1> QED BY <1>2, <1>3

\* What dispatch takes from the channel of a client.
LEMMA HeadRequest ==
  ASSUME Types, NEW c \in Clients, req[c] # <<>>
  PROVE  /\ Head(req[c]) \in Request /\ Tail(req[c]) \in Seq(Request)
         /\ Len(Tail(req[c])) = Len(req[c]) - 1 /\ Len(req[c]) \in Nat \ {0}
         /\ Head(req[c]).client \in Clients /\ Head(req[c]).key \in Keys /\ Head(req[c]).n \in Nat
         /\ Head(req[c]) = req[c][1]
         /\ \A j \in 1 .. Len(req[c]) - 1 : Tail(req[c])[j] = req[c][j + 1]
<1>1. PICK q \in Seq(Request) : q = req[c]
  BY DEF Types, ReqTypes
<1>2. PICK r \in Request : r = Head(q)
  BY <1>1
<1>3. r.client \in Clients /\ r.key \in Keys /\ r.n \in Nat
  BY DEF Request
<1>4. /\ Tail(q) \in Seq(Request) /\ Len(Tail(q)) = Len(q) - 1 /\ Len(q) \in Nat \ {0} /\ r = q[1]
      /\ \A j \in 1 .. Len(q) - 1 : Tail(q)[j] = q[j + 1]
  BY <1>1, <1>2
<1> QED BY <1>1, <1>2, <1>3, <1>4

\* The answer to it.
Answered(r) == [id |-> Len(log) + 1, to |-> r, value |-> get(r.key)]

LEMMA AnswerTyped ==
  ASSUME Types, NEW r \in Request
  PROVE  /\ Answered(r) \in Response /\ Answered(r).id = Len(log) + 1 /\ Answered(r).to = r
         /\ Answered(r).value = store[r.key]
<1>1. PICK n \in Nat : n = Len(log) + 1
  BY DEF Types, RoundTypes
<1>2. PICK v \in Value : v = store[r.key]
  BY DEF Types, StoreTypes, Request
<1>3. Answered(r) = [id |-> n, to |-> r, value |-> v]
  BY <1>1, <1>2 DEF Answered, get
<1> QED BY <1>1, <1>2, <1>3 DEF Response

\* The cases of Collect.
CollectGet(r) ==
  /\ r.command = "get"
  /\ round' = Append(round, Answered(r))
  /\ log' = Append(log, Answered(r))
  /\ UNCHANGED <<store, applied>>

CollectSet(r) ==
  /\ r.command = "set"
  /\ store' = [store EXCEPT ![r.key] = <<r.client, r.n>>]
  /\ applied' = [applied EXCEPT ![r.key] = Append(applied[r.key], <<r.client, r.n>>)]
  /\ UNCHANGED <<round, log>>

LEMMA Collected ==
  ASSUME KvAssumption, Types, Collect
  PROVE  /\ cur \in Clients /\ req[cur] # <<>> /\ dpc = "collect"
         /\ CollectGet(Head(req[cur])) \/ CollectSet(Head(req[cur]))
         /\ req' = [req EXCEPT ![cur] = Tail(req[cur])]
         /\ cur' = None
         /\ UNCHANGED <<items, mutex, iter, pos, listenVars, rpc, res, out, dpc, next, sent, dropped>>
<1>1. cur \in Clients /\ req[cur] # <<>>
  BY DEF Collect, Types, ListTypes
<1>2. Head(req[cur]).key \in Keys
  BY <1>1, HeadRequest
<1> QED BY <1>1, <1>2 DEF Collect, Types, ReqTypes, StoreTypes, CollectGet, CollectSet, Answered, set

LEMMA CollectTypes == ASSUME KvAssumption, Inv, Collect PROVE Types'
<1>0. Types /\ ListTypes /\ ConnTypes /\ ReqTypes /\ ResTypes /\ StoreTypes /\ RoundTypes
  BY DEF Inv, Types
<1>1. PICK c \in Clients, r \in Request : c = cur /\ r = Head(req[c]) /\ req[c] # <<>>
  BY <1>0, Collected, HeadRequest
<1>2. PICK q \in Seq(Request) : q = Tail(req[c])
  BY <1>0, <1>1, HeadRequest
<1>3. Len(q) <= ReqCap
  <2>1. Len(req[c]) <= ReqCap /\ Len(q) = Len(req[c]) - 1 /\ Len(req[c]) \in Nat
    BY <1>0, <1>1, <1>2, HeadRequest DEF ReqTypes
  <2> QED BY <2>1 DEF KvAssumption
<1>4. req' = [req EXCEPT ![c] = q] /\ cur' = None /\ (CollectGet(r) \/ CollectSet(r))
      /\ UNCHANGED <<items, mutex, iter, pos, listenVars, rpc, res, out, dpc, next, sent, dropped>>
  BY <1>0, <1>1, <1>2, Collected
<1>5. ListTypes' /\ ConnTypes' /\ ResTypes'
  BY <1>0, <1>4, ConnTypesKept, ResTypesKept DEF ListTypes
<1>6. ReqTypes'
  BY <1>0, <1>3, <1>4 DEF ReqTypes
<1>7. CASE CollectGet(r)
  <2>1. PICK a \in Response : a = Answered(r)
    BY <1>0, AnswerTyped
  <2>2. RoundTypes'
    BY <1>0, <1>4, <1>7, <2>1 DEF CollectGet, RoundTypes
  <2> QED BY <1>0, <1>5, <1>6, <1>7, <2>2, StoreTypesKept DEF CollectGet, Types
<1>8. CASE CollectSet(r)
  <2>1. PICK k \in Keys, d \in Clients, n \in Nat : k = r.key /\ d = r.client /\ n = r.n
    BY DEF Request
  <2>2. PICK v \in Tags : v = <<d, n>>
    BY DEF Tags
  <2>3. store' = [store EXCEPT ![k] = v] /\ applied' = [applied EXCEPT ![k] = Append(applied[k], v)]
    BY <1>8, <2>1, <2>2 DEF CollectSet
  <2>4. Append(applied[k], v) \in Seq(Tags) /\ v \in Value
    BY <1>0 DEF StoreTypes, Value
  <2>5. StoreTypes'
    BY <1>0, <2>3, <2>4 DEF StoreTypes
  <2> QED BY <1>0, <1>4, <1>5, <1>6, <1>8, <2>5, RoundTypesKept DEF CollectSet, Types
<1> QED BY <1>4, <1>7, <1>8

\* One answer to cur.
LEMMA Broadcasts ==
  ASSUME KvAssumption, Inv, Broadcast
  PROVE  /\ cur \in Clients /\ dpc = "broadcast" /\ next \in 1 .. Len(round) /\ Len(round) \in Nat
         /\ round[next] \in Response
         /\ \/ /\ Len(res[cur]) < ResCap /\ UNCHANGED dropped
               /\ res' = [res EXCEPT ![cur] = Append(res[cur], round[next])]
            \/ UNCHANGED res /\ dropped' = [dropped EXCEPT ![cur] = TRUE]
<1>1. Types /\ LoopOK
  BY DEF Inv
<1>2. cur \in Clients /\ Len(round) \in Nat /\ dpc = "broadcast"
  BY <1>1 DEF Broadcast, Types, ListTypes, RoundTypes
<1>3. next \in 1 .. Len(round)
  BY <1>1, <1>2 DEF LoopOK, Types, RoundTypes
<1>4. round[next] \in Response
  BY <1>1, <1>3 DEF Types, RoundTypes
<1>5. Len(res[cur]) \in Nat /\ res[cur] \in Seq(Response)
  BY <1>1, <1>2 DEF Types, ResTypes
<1>6. CASE Full(cur)
  BY <1>2, <1>3, <1>4, <1>6 DEF Broadcast
<1>7. CASE ~Full(cur)
  <2>1. Len(res[cur]) < ResCap
    BY <1>5, <1>7 DEF Full, KvAssumption
  <2>2. UNCHANGED dropped /\ res' = [res EXCEPT ![cur] = Append(res[cur], round[next])]
    BY <1>1, <1>2, <1>7 DEF Broadcast, Types, ResTypes
  <2> QED BY <1>2, <1>3, <1>4, <2>1, <2>2
<1> QED BY <1>6, <1>7

LEMMA BroadcastTypes == ASSUME KvAssumption, Inv, Broadcast PROVE Types'
<1>0. ListTypes /\ ConnTypes /\ ReqTypes /\ ResTypes /\ StoreTypes /\ RoundTypes
  BY DEF Inv, Types
<1>1. PICK c \in Clients, n \in Nat : c = cur /\ n = Len(round) /\ next \in 1 .. n
  BY Broadcasts
<1>2. ConnTypes' /\ ReqTypes' /\ StoreTypes'
  BY <1>0, ConnTypesKept, ReqTypesKept, StoreTypesKept DEF Broadcast
<1>3. next' \in 1 .. n /\ cur' \in Clients \cup {None}
  BY <1>1 DEF Broadcast
<1>4. RoundTypes' /\ ListTypes'
  BY <1>0, <1>1, <1>3 DEF Broadcast, RoundTypes, ListTypes
<1>5. ResTypes'
  <2>1. PICK q \in Seq(Response), a \in Response : q = res[c] /\ a = round[next]
    BY <1>0, <1>1, Broadcasts DEF ResTypes
  <2>2. CASE Len(q) < ResCap /\ UNCHANGED dropped /\ res' = [res EXCEPT ![c] = Append(q, a)]
    <3>1. Append(q, a) \in Seq(Response) /\ Len(Append(q, a)) <= ResCap
      BY <2>2 DEF KvAssumption
    <3> QED BY <1>0, <2>2, <3>1 DEF ResTypes, Broadcast
  <2>3. CASE UNCHANGED res /\ dropped' = [dropped EXCEPT ![c] = TRUE]
    BY <1>0, <2>3 DEF ResTypes, Broadcast
  <2> QED BY <1>1, <2>1, <2>2, <2>3, Broadcasts
<1> QED BY <1>2, <1>4, <1>5 DEF Types

\* The end of a loop, and an empty channel of requests.
LEMMA TurnTypes == ASSUME KvAssumption, Inv, CollectNothing \/ CollectEnd \/ BroadcastEnd PROVE Types'
<1>0. ListTypes /\ ConnTypes /\ ReqTypes /\ ResTypes /\ StoreTypes /\ RoundTypes /\ LoopOK
  BY DEF Inv, Types
<1>1. ConnTypes' /\ ReqTypes' /\ ResTypes' /\ StoreTypes'
  BY <1>0, ConnTypesKept, ReqTypesKept, ResTypesKept, StoreTypesKept
     DEF CollectNothing, CollectEnd, BroadcastEnd, Turn, kvVars, dispatchVars
<1>2. RoundTypes'
  <2>1. CASE CollectNothing
    BY <1>0, <2>1, RoundTypesKept DEF CollectNothing, kvVars, dispatchVars
  <2>2. CASE CollectEnd
    BY <1>0, <2>2 DEF RoundTypes, CollectEnd, Turn
  <2>3. CASE BroadcastEnd
    BY <1>0, <2>3 DEF RoundTypes, LoopOK, BroadcastEnd, Turn
  <2> QED BY <2>1, <2>2, <2>3
<1>3. ListTypes'
  BY <1>0 DEF ListTypes, CollectNothing, CollectEnd, BroadcastEnd, Turn
<1> QED BY <1>1, <1>2, <1>3 DEF Types

LEMMA TypesNext == ASSUME KvAssumption, Inv, [Next]_vars PROVE Types'
<1>1. CASE UNCHANGED vars
  <2>1. ListTypes /\ ConnTypes /\ ReqTypes /\ ResTypes /\ StoreTypes /\ RoundTypes
    BY DEF Inv, Types
  <2> QED BY <1>1, <2>1, ListTypesKept, ConnTypesKept, ReqTypesKept, ResTypesKept, StoreTypesKept, RoundTypesKept
             DEF vars, kvVars, dispatchVars, Types
<1> QED BY <1>1, IterTypes, ClientTypes, ListenTypes, CollectTypes, BroadcastTypes, TurnTypes DEF Next

-----------------------------------------------------------------------------
(* The list and the goroutines of its clients *)

LEMMA ListInit == ASSUME KvAssumption, Init PROVE ListOK
BY DEF KvAssumption, Init, CListInit, ListOK, InList, Distinct

\* The steps of the goroutines of client c.
LEMMA ListClient ==
  ASSUME KvAssumption, Inv, NEW c \in Clients,
         \/ Accept(c) \/ Disconnect(c) \/ \E r \in Requests(c) : ReceiverRead(c, r)
         \/ ReceiverSend(c) \/ ReceiverError(c) \/ SenderTake(c)
  PROVE  ListOK'
<1>0. ListOK /\ ConnTypes /\ ResTypes
  BY DEF Inv, Types
<1>i. UNCHANGED <<items, cur>>
  BY DEF Accept, Disconnect, ReceiverRead, ReceiverSend, PutRequest, ReceiverError, SenderTake, clistVars
<1>j. \A d : InList(d)' <=> InList(d)
  BY <1>i DEF InList
<1>1. CASE Accept(c)
  BY <1>0, <1>1, <1>i, <1>j DEF Accept, ListOK, ConnTypes
<1>2. CASE Disconnect(c)
  BY <1>0, <1>2, <1>i, <1>j DEF Disconnect, ListOK, ConnTypes
<1>3. CASE \E r \in Requests(c) : ReceiverRead(c, r)
  BY <1>0, <1>3, <1>i, <1>j DEF ReceiverRead, ListOK, ConnTypes, listenVars
<1>4. CASE ReceiverSend(c)
  BY <1>0, <1>4, <1>i, <1>j DEF ReceiverSend, PutRequest, ListOK, ConnTypes, listenVars
<1>5. CASE ReceiverError(c)
  BY <1>0, <1>5, <1>i, <1>j DEF ReceiverError, ListOK, ConnTypes, listenVars
<1>6. CASE SenderTake(c)
  <2>1. rpc[c] # "off" /\ UNCHANGED <<rpc, conn, new>>
    BY <1>0, <1>6 DEF SenderTake, ListOK, listenVars
  <2>2. \A d \in Clients : d # c => out'[d] = out[d] /\ res'[d] = res[d]
    BY <1>0, <1>6 DEF SenderTake, ResTypes
  <2> QED BY <1>0, <1>i, <1>j, <2>1, <2>2 DEF ListOK
<1> QED BY <1>1, <1>2, <1>3, <1>4, <1>5, <1>6

LEMMA ListPush == ASSUME KvAssumption, Inv, ListenPush PROVE ListOK'
<1>0. ListOK /\ ConnTypes /\ ListTypes
  BY DEF Inv, Types
<1>1. PICK c \in Clients, n \in Nat, s \in Seq(Clients) : c = new /\ s = items /\ n = Len(s)
  BY <1>0 DEF ListenPush, ConnTypes, ListTypes
<1>2. rpc[c] = "off" /\ ~InList(c)
  BY <1>0, <1>1 DEF ListOK
<1>3. items' = Append(s, c) /\ rpc' = [rpc EXCEPT ![c] = "read"] /\ new' = None
      /\ UNCHANGED <<conn, out, res, cur>>
  BY <1>1 DEF ListenPush, PushBack
<1>4. Len(items') = n + 1 /\ items'[n + 1] = c /\ \A i \in 1 .. n : items'[i] = s[i]
  BY <1>1, <1>3
<1>5. \A i \in 1 .. n : s[i] # c
  BY <1>1, <1>2 DEF InList
<1>6. \A i, j \in 1 .. n : s[i] = s[j] => i = j
  BY <1>0, <1>1 DEF ListOK, Distinct
<1>7. \A i, j \in 1 .. Len(items') : items'[i] = items'[j] => i = j
  <2> SUFFICES ASSUME NEW i \in 1 .. n + 1, NEW j \in 1 .. n + 1, items'[i] = items'[j] PROVE i = j
    BY <1>4
  <2> QED BY <1>4, <1>5, <1>6
<1>8. \A d : InList(d)' <=> d = c \/ InList(d)
  BY <1>1, <1>4 DEF InList
<1>9. ASSUME NEW d \in Clients
      PROVE  /\ InList(d)' <=> rpc'[d] \in {"read", "send", "remove"}
             /\ rpc'[d] = "off" => out'[d] = <<>> /\ res'[d] = <<>> /\ cur' # d
             /\ conn'[d] = "none" => rpc'[d] = "off" /\ new' # d
             /\ new' = d => rpc'[d] = "off"
  BY <1>0, <1>1, <1>3, <1>8 DEF ListOK, ConnTypes, KvAssumption
<1> QED BY <1>7, <1>9 DEF ListOK, Distinct

LEMMA ListRemove == ASSUME KvAssumption, Inv, NEW c \in Clients, ReceiverRemove(c) PROVE ListOK'
<1>0. ListOK /\ ConnTypes /\ ListTypes
  BY DEF Inv, Types
<1>1. Distinct(items') /\ Elements(items') = Elements(items) \ {c}
  BY <1>0, RemovedFirst DEF ListTypes, ListOK, ReceiverRemove, Remove
<1>2. \A x : InList(x)' <=> x # c /\ InList(x)
  BY <1>1 DEF InList, Elements
<1>3. ASSUME NEW d \in Clients
      PROVE  /\ InList(d)' <=> rpc'[d] \in {"read", "send", "remove"}
             /\ rpc'[d] = "off" => out'[d] = <<>> /\ res'[d] = <<>> /\ cur' # d
             /\ conn'[d] = "none" => rpc'[d] = "off" /\ new' # d
             /\ new' = d => rpc'[d] = "off"
  BY <1>0, <1>2 DEF ListOK, ConnTypes, ReceiverRemove, Remove, listenVars
<1> QED BY <1>1, <1>3 DEF ListOK

\* dispatch and Iter.
LEMMA ListLoop ==
  ASSUME KvAssumption, Inv, IterStep \/ Dispatch
  PROVE  ListOK'
<1>0. ListOK /\ Types /\ ListTypes /\ LoopOK /\ ResTypes
  BY DEF Inv, Types
<1>i. UNCHANGED <<items, rpc, conn, new, out>>
  BY DEF IterStep, IterLock, IterLockAt, IterSend, IterClose, IterUnlock, kvVars, listenVars,
         Dispatch, Collect, CollectNothing, CollectEnd, BroadcastEnd, Turn, Broadcast
<1>j. \A d : InList(d)' <=> InList(d)
  BY <1>i DEF InList
<1>k. cur \in Clients => rpc[cur] # "off"
  BY <1>0 DEF ListOK
<1>1. CASE UNCHANGED res
  <2>1. \/ cur' = cur \/ cur' = None
        \/ cur' \in Clients /\ InList(cur')
    <3>1. CASE IterSend
      <4>1. pos \in 1 .. Len(items)
        BY <1>0, <3>1 DEF IterSend, LoopOK
      <4> QED BY <1>0, <3>1, <4>1 DEF IterSend, InList, ListTypes
    <3> QED BY <3>1 DEF IterStep, IterLock, IterLockAt, IterClose, IterUnlock,
               Dispatch, Collect, CollectNothing, CollectEnd, BroadcastEnd, Turn, Broadcast
  <2>2. \A d \in Clients : rpc[d] = "off" => cur' # d
    BY <1>0, <2>1 DEF ListOK, KvAssumption
  <2> QED BY <1>0, <1>1, <1>i, <1>j, <2>2 DEF ListOK
<1>2. CASE Broadcast
  <2>1. PICK c \in Clients : c = cur
    BY <1>2, Broadcasts
  <2>2. \A d \in Clients : d # c => res'[d] = res[d]
    BY <1>0, <1>2, <2>1 DEF Broadcast, ResTypes
  <2>3. cur' = c \/ cur' = None
    BY <1>2, <2>1 DEF Broadcast
  <2> QED BY <1>0, <1>i, <1>j, <1>k, <2>1, <2>2, <2>3 DEF ListOK, KvAssumption
<1> QED BY <1>1, <1>2 DEF IterStep, kvVars, Dispatch, Collect, CollectNothing, CollectEnd, BroadcastEnd, Turn

LEMMA ListNext == ASSUME KvAssumption, Inv, [Next]_vars PROVE ListOK'
<1>1. CASE UNCHANGED <<items, rpc, out, res, cur, conn, new>>
  BY <1>1 DEF Inv, ListOK, InList
<1> QED BY <1>1, ListClient, ListPush, ListRemove, ListLoop
        DEF Next, Dispatch, Close, vars, clistVars, kvVars, listenVars

-----------------------------------------------------------------------------
(* Iter and the loops of dispatch *)

LEMMA LoopInit == ASSUME Init PROVE LoopOK
BY DEF Init, CListInit, LoopOK

LEMMA LoopKept ==
  ASSUME Inv, UNCHANGED <<iter, cur, pos, next, dpc, round>>, UNCHANGED items \/ mutex = "free"
  PROVE  LoopOK'
BY DEF Inv, LoopOK, Types, ListTypes

LEMMA LoopIter == ASSUME KvAssumption, Inv, IterStep PROVE LoopOK'
<1>0. LoopOK /\ ListTypes /\ RoundTypes
  BY DEF Inv, Types
<1>i. UNCHANGED <<items, next, dpc, round>>
  BY DEF IterStep, IterLock, IterLockAt, IterSend, IterClose, IterUnlock, kvVars, dispatchVars
<1>1. CASE IterLock
  BY <1>0, <1>1, <1>i DEF IterLock, IterLockAt, LoopOK, ListTypes
<1>2. CASE IterSend
  BY <1>0, <1>2, <1>i DEF IterSend, LoopOK, ListTypes, KvAssumption
<1>3. CASE IterClose
  BY <1>0, <1>3, <1>i DEF IterClose, LoopOK
<1>4. CASE IterUnlock
  BY <1>0, <1>4, <1>i DEF IterUnlock, LoopOK
<1> QED BY <1>1, <1>2, <1>3, <1>4 DEF IterStep

LEMMA LoopDispatch == ASSUME KvAssumption, Inv, Dispatch PROVE LoopOK'
<1>0. LoopOK /\ ListTypes /\ RoundTypes /\ Types
  BY DEF Inv, Types
<1>1. CASE Collect
  BY <1>0, <1>1, Collected DEF LoopOK
<1>2. CASE CollectNothing
  BY <1>0, <1>2 DEF CollectNothing, LoopOK, kvVars, dispatchVars
<1>3. CASE CollectEnd
  BY <1>0, <1>3 DEF CollectEnd, Turn, LoopOK, RoundTypes
<1>4. CASE Broadcast
  <2>1. PICK n \in Nat : n = Len(round) /\ next \in 1 .. n
    BY <1>4, Broadcasts
  <2> QED BY <1>0, <1>4, <2>1 DEF Broadcast, LoopOK
<1>5. CASE BroadcastEnd
  BY <1>0, <1>5 DEF BroadcastEnd, Turn, LoopOK
<1> QED BY <1>1, <1>2, <1>3, <1>4, <1>5 DEF Dispatch

LEMMA LoopNext == ASSUME KvAssumption, Inv, [Next]_vars PROVE LoopOK'
<1>1. CASE \E c \in Clients : ReceiverRemove(c)
  BY <1>1, LoopKept DEF ReceiverRemove, Remove, dispatchVars
<1>2. CASE ListenPush
  BY <1>2, LoopKept DEF ListenPush, PushBack, dispatchVars
<1>3. CASE UNCHANGED <<items, iter, cur, pos, next, dpc, round>>
  BY <1>3, LoopKept
<1> QED BY <1>1, <1>2, <1>3, LoopIter, LoopDispatch
        DEF Next, Dispatch, Accept, Disconnect, ReceiverRead, ReceiverSend, PutRequest, ReceiverError,
            SenderTake, Close, vars, clistVars, kvVars, dispatchVars

-----------------------------------------------------------------------------
(* The answers of a round *)

LEMMA RoundInit == ASSUME Init PROVE RoundOK
BY DEF Init, RoundOK, Base

\* A get adds its answer to the log and to the round.
LEMMA RoundGet ==
  ASSUME Types, RoundOK, NEW r \in Request, CollectGet(r)
  PROVE  /\ RoundOK' /\ Base' = Base
         /\ Len(log') = Len(log) + 1 /\ Len(round') = Len(round) + 1
         /\ log'[Len(log) + 1] = Answered(r)
         /\ \A i \in 1 .. Len(log) : log'[i] = log[i]
<1>1. PICK l \in Seq(Response), q \in Seq(Response), a \in Response :
        l = log /\ q = round /\ a = Answered(r) /\ a.id = Len(l) + 1
  BY AnswerTyped DEF Types, RoundTypes
<1>2. log' = Append(l, a) /\ round' = Append(q, a)
  BY <1>1 DEF CollectGet
<1>3. PICK m \in Nat, n \in Nat : m = Len(l) /\ n = Len(q) /\ n <= m
  BY <1>1 DEF RoundOK
<1>4. /\ Len(log') = m + 1 /\ Len(round') = n + 1 /\ log'[m + 1] = a /\ round'[n + 1] = a
      /\ \A i \in 1 .. m : log'[i] = l[i]
      /\ \A i \in 1 .. n : round'[i] = q[i]
  BY <1>1, <1>2, <1>3
<1>5. Base = m - n /\ Base' = m - n
  BY <1>1, <1>3, <1>4 DEF Base
<1>6. /\ \A i \in 1 .. m : l[i].id = i
      /\ \A j \in 1 .. n : q[j] = l[m - n + j]
  BY <1>1, <1>3, <1>5 DEF RoundOK
<1>7. \A i \in 1 .. m + 1 : log'[i].id = i
  BY <1>1, <1>3, <1>4, <1>6
<1>8. ASSUME NEW j \in 1 .. n + 1 PROVE round'[j] = log'[m - n + j]
  <2>1. CASE j = n + 1
    BY <1>3, <1>4, <2>1
  <2>2. CASE j \in 1 .. n
    <3>1. m - n + j \in 1 .. m
      BY <1>3, <2>2
    <3> QED BY <1>4, <1>6, <2>2, <3>1
  <2> QED BY <1>3, <2>1, <2>2
<1> QED BY <1>1, <1>3, <1>4, <1>5, <1>7, <1>8 DEF RoundOK

LEMMA RoundNext == ASSUME KvAssumption, Inv, [Next]_vars PROVE RoundOK'
<1>0. RoundOK /\ Types /\ RoundTypes
  BY DEF Inv, Types
<1>1. CASE UNCHANGED <<round, log>>
  BY <1>0, <1>1 DEF RoundOK, Base
<1>2. CASE Collect
  <2>1. PICK r \in Request : CollectGet(r) \/ CollectSet(r)
    BY <1>0, <1>2, Collected, HeadRequest
  <2> QED BY <1>0, <1>1, <2>1, RoundGet DEF CollectSet
<1>3. CASE BroadcastEnd
  BY <1>0, <1>3 DEF BroadcastEnd, Turn, RoundOK, Base, RoundTypes
<1> QED BY <1>1, <1>2, <1>3
        DEF Next, Accept, Disconnect, ReceiverRead, ReceiverSend, PutRequest, ReceiverError, ReceiverRemove,
            SenderTake, ListenPush, Close, IterStep, CollectNothing, CollectEnd, Turn, Broadcast,
            vars, kvVars, dispatchVars

-----------------------------------------------------------------------------
(* The answers given to a client *)

LEMMA GivenInit == ASSUME Init PROVE GivenOK
<1> SUFFICES ASSUME NEW c \in Clients PROVE GivenTo(c)
  BY DEF GivenOK
<1>1. Given(c) = <<>>
  BY DEF Init, Given
<1> QED BY <1>1 DEF GivenTo, Upwards

LEMMA GivenTyped ==
  ASSUME Types, NEW c \in Clients
  PROVE  Given(c) \in Seq(Response) /\ (Given(c) # <<>> => LastGiven(c) \in Nat)
<1>1. PICK a \in Seq(Response), b \in Seq(Response) : a = out[c] /\ b = res[c]
  BY DEF Types, ResTypes
<1>2. PICK g \in Seq(Response) : g = a \o b
  BY <1>1, ConcatProperties
<1>3. ASSUME g # <<>> PROVE g[Len(g)] \in Response
  BY <1>3
<1> QED BY <1>1, <1>2, <1>3 DEF Given, LastGiven, Response

\* What is due is a number, and only grows with the log.
LEMMA DueTyped ==
  ASSUME Types, RoundOK, NEW c \in Clients
  PROVE  /\ Base \in Nat /\ Due(c) \in Int /\ Len(log) \in Nat /\ Len(round) \in Nat /\ next \in Nat
         /\ Base + Len(round) = Len(log)
<1>1. Len(log) \in Nat /\ Len(round) \in Nat /\ Len(round) <= Len(log) /\ next \in Nat
  BY DEF Types, RoundTypes, RoundOK
<1> QED BY <1>1 DEF Base, Due

\* Nothing is given to c, and what was due is due, or c is no longer in the list.
LEMMA GivenKept ==
  ASSUME Types, GivenOK, RoundOK, NEW c \in Clients, Given(c)' = Given(c), dropped'[c] = dropped[c],
         NEW d \in Int, d = Due(c)', Due(c) <= d,
         Entitled(c)' /\ Given(c) # <<>> => Entitled(c) /\ Due(c) = d
  PROVE  GivenTo(c)'
<1>1. LastGiven(c)' = LastGiven(c)
  BY DEF LastGiven
<1>2. Upwards(Given(c), dropped[c])
  BY DEF GivenOK, GivenTo
<1>3. Upwards(Given(c)', dropped'[c])
  BY <1>2
<1>4. PICK e \in Int : e = Due(c)
  BY DueTyped
<1>5. ASSUME Given(c) # <<>>
      PROVE  LastGiven(c) <= d /\ (~dropped[c] /\ Entitled(c)' => LastGiven(c) = d)
  <2>1. LastGiven(c) \in Nat
    BY <1>5, GivenTyped
  <2>2. LastGiven(c) <= e /\ (~dropped[c] /\ Entitled(c) => LastGiven(c) = e)
    BY <1>4, <1>5 DEF GivenOK, GivenTo
  <2>3. e <= d
    BY <1>4
  <2> QED BY <1>4, <1>5, <2>1, <2>2, <2>3
<1>6. Given(c)' # <<>> => LastGiven(c)' <= Due(c)' /\ (~dropped'[c] /\ Entitled(c)' => LastGiven(c)' = Due(c)')
  BY <1>1, <1>5
<1> QED BY <1>3, <1>6 DEF GivenTo

\* The sender takes an answer from the channel: the answers given stay the same.
LEMMA GivenTaken ==
  ASSUME Inv, NEW c \in Clients, SenderTake(c), NEW d \in Clients
  PROVE  Given(d)' = Given(d)
<1>0. ResTypes
  BY DEF Inv, Types
<1>1. CASE d # c
  BY <1>0, <1>1 DEF SenderTake, ResTypes, Given
<1>2. CASE d = c
  <2>1. PICK a \in Seq(Response), b \in Seq(Response) : a = out[c] /\ b = res[c]
    BY <1>0 DEF ResTypes
  <2>2. b # <<>> /\ out'[c] = Append(a, Head(b)) /\ res'[c] = Tail(b)
    BY <1>0, <2>1 DEF SenderTake, ResTypes
  <2>3. PICK h \in Response, t \in Seq(Response) : h = Head(b) /\ t = Tail(b)
    BY <2>2, HeadTailProperties
  <2>6. b = <<h>> \o t
    <3>1. Len(b) \in Nat \ {0} /\ Len(t) = Len(b) - 1 /\ h = b[1] /\ \A i \in 1 .. Len(b) - 1 : t[i] = b[i + 1]
      BY <2>2, <2>3
    <3>2. <<h>> \in Seq(Response) /\ Len(<<h>>) = 1 /\ <<h>>[1] = h
      OBVIOUS
    <3>3. PICK u \in Seq(Response) : u = <<h>> \o t
      BY <3>2, ConcatProperties
    <3>4. Len(u) = Len(b)
      BY <3>1, <3>2, <3>3
    <3>5. ASSUME NEW i \in 1 .. Len(b) PROVE b[i] = u[i]
      <4>1. CASE i = 1
        BY <3>1, <3>2, <3>3, <4>1
      <4>2. CASE i # 1
        <5>1. i - 1 \in 1 .. Len(b) - 1 /\ (i - 1) + 1 = i
          BY <3>1, <4>2
        <5>2. u[i] = t[i - 1]
          BY <3>1, <3>2, <3>3, <5>1
        <5> QED BY <3>1, <5>1, <5>2
      <4> QED BY <4>1, <4>2
    <3> QED BY <3>3, <3>4, <3>5, SeqEqual
  <2>4. Append(a, h) \o t = a \o (<<h>> \o t)
    BY ConcatAssociative, AppendIsConcat
  <2>5. Append(a, Head(b)) \o Tail(b) = a \o b
    BY <2>3, <2>4, <2>6
  <2> QED BY <1>2, <2>1, <2>2, <2>5 DEF Given
<1> QED BY <1>1, <1>2

\* Steps in which nobody is given anything, and what is due is due.
LEMMA GivenStays ==
  ASSUME Inv, Types', RoundOK', UNCHANGED dropped, \A c \in Clients : Given(c)' = Given(c),
         \A c \in Clients : /\ Due(c) <= Due(c)'
                            /\ Entitled(c)' /\ Given(c) # <<>> => Entitled(c) /\ Due(c) = Due(c)'
  PROVE  GivenOK'
<1> SUFFICES ASSUME NEW c \in Clients PROVE GivenTo(c)'
  BY DEF GivenOK
<1>1. Due(c)' \in Int
  <2>1. Len(log') \in Nat /\ Len(round') \in Nat /\ next' \in Nat
    BY DEF Types, RoundTypes
  <2> QED BY <2>1 DEF Due, Base
<1>2. PICK d \in Int : d = Due(c)'
  BY <1>1
<1> QED BY <1>2, GivenKept DEF Inv

\* The goroutines of the clients, and listen.
LEMMA GivenClient ==
  ASSUME KvAssumption, Inv, Types', RoundOK',
         \/ \E c \in Clients : SenderTake(c) \/ ReceiverRemove(c)
         \/ ListenPush
  PROVE  GivenOK'
<1>0. Types /\ ListTypes /\ ListOK /\ RoundOK
  BY DEF Inv, Types
<1>1. UNCHANGED <<dropped, dpc, cur, next, log, round, iter, pos>>
  BY DEF SenderTake, ReceiverRemove, Remove, ListenPush, PushBack, clistVars, dispatchVars
<1>2. \A d \in Clients : Given(d)' = Given(d)
  BY GivenTaken DEF ReceiverRemove, ListenPush, Given
<1>3. ASSUME NEW d \in Clients, iter = "on" PROVE UNCHANGED items
  BY <1>0, <1>3 DEF ListTypes, SenderTake, ReceiverRemove, Remove, ListenPush, PushBack, clistVars
<1>4. ASSUME NEW d \in Clients PROVE Ahead(d)' <=> Ahead(d)
  BY <1>1, <1>3 DEF Ahead
<1>5. ASSUME NEW d \in Clients PROVE Due(d)' = Due(d) /\ Due(d) <= Due(d)'
  <2>1. Due(d)' = Due(d)
    BY <1>1, <1>4 DEF Due, Base
  <2> QED BY <1>0, <2>1, DueTyped
<1>6. ASSUME NEW d \in Clients, InList(d)', Given(d) # <<>> PROVE InList(d)
  <2>1. rpc[d] # "off"
    <3>1. rpc[d] = "off" => out[d] \o res[d] = <<>>
      BY <1>0 DEF ListOK
    <3> QED BY <1>6, <3>1 DEF Given
  <2>2. CASE \E c \in Clients : SenderTake(c)
    BY <1>6, <2>2 DEF SenderTake, clistVars, InList
  <2>3. CASE \E c \in Clients : ReceiverRemove(c)
    <3>1. PICK c \in Clients : ReceiverRemove(c)
      BY <2>3
    <3>2. Elements(items') = Elements(items) \ {c}
      BY <1>0, <3>1, RemovedFirst DEF ListTypes, ListOK, ReceiverRemove, Remove
    <3> QED BY <1>6, <3>2 DEF InList, Elements
  <2>4. CASE ListenPush
    <3>1. PICK s \in Seq(Clients), n \in Clients : s = items /\ n = new /\ items' = Append(s, n)
      BY <1>0, <2>4 DEF ListTypes, ListenPush, PushBack, Inv, Types, ConnTypes
    <3>2. d # n
      BY <1>0, <2>1, <3>1 DEF ListOK
    <3>3. PICK i \in 1 .. Len(items') : items'[i] = d
      BY <1>6 DEF InList
    <3>4. i \in 1 .. Len(s) /\ s[i] = d
      BY <3>1, <3>2, <3>3
    <3> QED BY <3>1, <3>4 DEF InList
  <2> QED BY <2>2, <2>3, <2>4
<1>7. ASSUME NEW d \in Clients, Entitled(d)', Given(d) # <<>> PROVE Entitled(d)
  BY <1>1, <1>6, <1>7 DEF Entitled
<1> QED BY <1>1, <1>2, <1>5, <1>7, GivenStays

\* The steps of Iter.
LEMMA GivenIter == ASSUME KvAssumption, Inv, Types', RoundOK', IterStep PROVE GivenOK'
<1>0. Types /\ ListTypes /\ ListOK /\ RoundOK /\ LoopOK
  BY DEF Inv, Types
<1>1. UNCHANGED <<items, dropped, dpc, next, log, round, res, out>>
  BY DEF IterStep, kvVars, dispatchVars, IterLock, IterLockAt, IterSend, IterClose, IterUnlock
<1>2. \A d \in Clients : Given(d)' = Given(d) /\ (InList(d)' <=> InList(d))
  BY <1>1 DEF Given, InList
<1>3. \A d \in Clients : d # None
  BY DEF KvAssumption
<1>4. PICK n \in Nat, s \in Seq(Clients) : s = items /\ n = Len(s)
  BY <1>0 DEF ListTypes
<1>5. ASSUME NEW d \in Clients
      PROVE  Due(d) <= Due(d)' /\ (Entitled(d) => Due(d) = Due(d)')
  <2>0. PICK b \in Nat, l \in Nat : b = Base /\ l = Len(log) /\ b <= l /\ Due(d) \in Int
    BY <1>0, DueTyped
  <2>1. Base' = b /\ Len(log') = l
    BY <1>1, <2>0 DEF Base
  <2>2. CASE IterLock
    <3>1. Ahead(d) /\ cur = None /\ cur' = None
      BY <1>0, <2>2 DEF IterLock, IterLockAt, Ahead, LoopOK
    <3>2. InList(d) => Ahead(d)'
      BY <1>1, <2>2 DEF IterLock, IterLockAt, Ahead, InList
    <3> QED BY <1>1, <1>3, <2>0, <2>1, <3>1, <3>2 DEF Due, Entitled
  <2>3. CASE IterSend
    <3>1. pos \in 1 .. n /\ cur = None /\ cur' = s[pos] /\ pos' = pos + 1 /\ iter = "on" /\ iter' = "on" /\ next = 1
      BY <1>0, <1>4, <2>3 DEF IterSend, LoopOK
    <3>2. CASE d = s[pos]
      <4>1. Ahead(d)
        BY <1>4, <3>1, <3>2 DEF Ahead
      <4>2. Due(d)' = b
        BY <1>1, <2>1, <3>1, <3>2 DEF Due
      <4>3. Due(d) = b
        BY <1>3, <2>0, <3>1, <4>1 DEF Due
      <4> QED BY <4>2, <4>3
    <3>3. CASE d # s[pos]
      <4>1. Ahead(d)' <=> Ahead(d)
        <5>1. \A i \in pos .. n : s[i] = d => i \in pos + 1 .. n
          BY <3>1, <3>3
        <5>2. \A i \in pos + 1 .. n : i \in pos .. n
          BY <3>1
        <5> QED BY <1>1, <1>4, <3>1, <5>1, <5>2 DEF Ahead
      <4>2. Due(d)' = Due(d)
        BY <1>1, <1>3, <2>0, <2>1, <3>1, <3>3, <4>1 DEF Due
      <4> QED BY <2>0, <4>2
    <3> QED BY <3>2, <3>3
  <2>4. CASE IterClose
    <3>1. ~Ahead(d) /\ ~Ahead(d)' /\ UNCHANGED cur
      BY <1>0, <1>1, <2>4 DEF IterClose, Ahead, ListTypes
    <3> QED BY <1>1, <2>0, <2>1, <3>1 DEF Due
  <2>5. CASE IterUnlock
    <3>1. Due(d)' = Due(d)
      BY <1>1, <2>5 DEF IterUnlock, Due, Base, Ahead
    <3> QED BY <2>0, <3>1
  <2> QED BY <2>2, <2>3, <2>4, <2>5 DEF IterStep
<1>6. ASSUME NEW d \in Clients, Entitled(d)' PROVE Entitled(d)
  <2>1. IterSend => InList(cur')
    BY <1>0 DEF IterSend, InList, LoopOK, ListTypes
  <2> QED BY <1>2, <1>6, <2>1 DEF Entitled, IterStep, IterLock, IterLockAt, IterClose, IterUnlock
<1> QED BY <1>1, <1>2, <1>5, <1>6, GivenStays

\* dispatch, but for Broadcast.
LEMMA GivenCollect ==
  ASSUME KvAssumption, Inv, Types', RoundOK', Collect \/ CollectNothing \/ CollectEnd \/ BroadcastEnd
  PROVE  GivenOK'
<1>0. Types /\ ListTypes /\ RoundOK /\ LoopOK /\ RoundTypes
  BY DEF Inv, Types
<1>1. UNCHANGED <<items, dropped, res, out>>
  BY DEF Collect, CollectNothing, CollectEnd, BroadcastEnd, Turn, kvVars, dispatchVars
<1>2. \A d \in Clients : Given(d)' = Given(d) /\ (InList(d)' <=> InList(d))
  BY <1>1 DEF Given, InList
<1>3. \A d \in Clients : d # None
  BY DEF KvAssumption
<1>4. ASSUME NEW d \in Clients PROVE Due(d)' = Due(d)
  <2>1. CASE Collect
    <3>1. PICK r \in Request : CollectGet(r) \/ CollectSet(r)
      BY <1>0, <2>1, Collected, HeadRequest
    <3>2. dpc = "collect" /\ dpc' = "collect"
      BY <1>0, <2>1, Collected
    <3>3. Base' = Base
      BY <1>0, <3>1, RoundGet DEF CollectSet, Base
    <3> QED BY <3>2, <3>3 DEF Due
  <2>2. CASE CollectNothing
    BY <2>2 DEF CollectNothing, kvVars, dispatchVars, Due, Base
  <2>3. CASE CollectEnd
    BY <1>3, <2>3 DEF CollectEnd, Turn, Due, Base, Ahead
  <2>4. CASE BroadcastEnd
    <3>1. Due(d) = Len(log)
      BY <1>3, <2>4 DEF BroadcastEnd, Turn, Due, Ahead
    <3>2. Base' = Len(log)
      BY <1>0, <2>4 DEF BroadcastEnd, Turn, Base, RoundTypes
    <3> QED BY <2>4, <3>1, <3>2 DEF BroadcastEnd, Turn, Due
  <2> QED BY <2>1, <2>2, <2>3, <2>4
<1>5. ASSUME NEW d \in Clients PROVE Due(d) <= Due(d)'
  BY <1>0, <1>4, DueTyped
<1>6. ASSUME NEW d \in Clients, Entitled(d)' PROVE Entitled(d)
  BY <1>2, <1>3, <1>6 DEF Entitled, Collect, CollectNothing, CollectEnd, BroadcastEnd, Turn
<1> QED BY <1>1, <1>2, <1>4, <1>5, <1>6, GivenStays

\* An answer follows the ones that were given.
LEMMA UpwardsAppend ==
  ASSUME NEW g \in Seq(Response), NEW a \in Response, NEW gaps \in BOOLEAN, Upwards(g, gaps),
         NEW d \in Int, a.id = d + 1, g # <<>> => g[Len(g)].id <= d /\ (~gaps => g[Len(g)].id = d)
  PROVE  Upwards(Append(g, a), gaps)
<1>1. PICK n \in Nat : n = Len(g)
  OBVIOUS
<1>2. PICK h \in Seq(Response) : h = Append(g, a)
  BY AppendProperties
<1>3. Len(h) = n + 1 /\ h[n + 1] = a /\ \A i \in 1 .. n : h[i] = g[i]
  BY <1>1, <1>2
<1>4. \A i \in 1 .. n - 1 : g[i].id < g[i + 1].id /\ (~gaps => g[i + 1].id = g[i].id + 1)
  BY <1>1 DEF Upwards
<1>5. ASSUME NEW i \in 1 .. n PROVE h[i].id < h[i + 1].id /\ (~gaps => h[i + 1].id = h[i].id + 1)
  <2>1. CASE i = n
    <3>1. g # <<>> /\ g[n] \in Response /\ h[i] = g[n] /\ h[i + 1] = a
      BY <1>1, <1>3, <2>1
    <3>2. g[n].id \in Nat
      BY <3>1 DEF Response
    <3> QED BY <1>1, <3>1, <3>2
  <2>2. CASE i # n
    <3>1. i \in 1 .. n - 1 /\ i + 1 \in 1 .. n
      BY <2>2
    <3> QED BY <1>3, <1>4, <3>1
  <2> QED BY <2>1, <2>2
<1>6. (n + 1) - 1 = n
  OBVIOUS
<1> QED BY <1>2, <1>3, <1>5, <1>6 DEF Upwards

\* Once the last answer of a round went to cur, everything is due to it.
LEMMA DueNext ==
  ASSUME KvAssumption, Inv, Broadcast, NEW c \in Clients, c = cur
  PROVE  /\ Due(c) = Base + next - 1 /\ Due(c)' = Base + next
         /\ \A d \in Clients : d # c => Due(d)' = Due(d)
<1>0. Types /\ ListTypes /\ ListOK /\ RoundOK /\ LoopOK
  BY DEF Inv, Types
<1>1. PICK n \in Nat, b \in Nat : n = Len(round) /\ b = Base /\ next \in 1 .. n /\ dpc = "broadcast" /\ Len(log) = b + n
  BY <1>0, DueTyped, Broadcasts
<1>2. /\ UNCHANGED <<items, iter, pos, log, round, dpc>>
      /\ next' = IF next = n THEN 1 ELSE next + 1
      /\ cur' = IF next = n THEN None ELSE c
  BY <1>1 DEF Broadcast
<1>3. Base' = b /\ Len(log') = b + n
  BY <1>1, <1>2 DEF Base
<1>4. \A d \in Clients : (Ahead(d)' <=> Ahead(d)) /\ d # None
  BY <1>2 DEF Ahead, KvAssumption
<1>5. ~Ahead(c)
  <2>1. iter # "start"
    BY <1>0 DEF LoopOK, KvAssumption
  <2>2. ASSUME iter = "on", NEW i \in pos .. Len(items), items[i] = c PROVE FALSE
    <3>1. pos - 1 \in 1 .. Len(items) /\ items[pos - 1] = c /\ i \in 1 .. Len(items) /\ i # pos - 1
      BY <1>0, <2>2 DEF LoopOK, KvAssumption, ListTypes
    <3> QED BY <1>0, <2>2, <3>1 DEF ListOK, Distinct
  <2> QED BY <2>1, <2>2 DEF Ahead
<1>6. Due(c) = Base + next - 1
  BY <1>1 DEF Due
<1>7. Due(c)' = Base + next
  <2>1. CASE next = n
    BY <1>1, <1>2, <1>3, <1>4, <1>5, <2>1 DEF Due
  <2>2. CASE next # n
    <3>1. Due(c)' = b + (next + 1) - 1
      BY <1>1, <1>2, <1>3, <2>2 DEF Due
    <3> QED BY <1>1, <3>1
  <2> QED BY <2>1, <2>2
<1>8. \A d \in Clients : d # c => Due(d)' = Due(d)
  BY <1>1, <1>2, <1>3, <1>4 DEF Due
<1> QED BY <1>6, <1>7, <1>8

LEMMA GivenBroadcast == ASSUME KvAssumption, Inv, Types', RoundOK', Broadcast PROVE GivenOK'
<1>0. Types /\ ResTypes /\ RoundOK /\ GivenOK
  BY DEF Inv, Types
<1>1. PICK c \in Clients, n \in Nat, b \in Nat :
        c = cur /\ n = Len(round) /\ b = Base /\ next \in 1 .. n /\ Len(log) = b + n
  BY <1>0, DueTyped, Broadcasts
<1>2. UNCHANGED <<items, out>>
  BY DEF Broadcast
<1>3. \A d \in Clients : Entitled(d)' => Entitled(d)
  BY <1>1, <1>2 DEF InList, Entitled, Broadcast, KvAssumption
<1>4. PICK e \in Int : e = Due(c) /\ e = b + next - 1 /\ Due(c)' = e + 1
  BY <1>1, DueNext
<1>5. ASSUME NEW d \in Clients, d # c PROVE GivenTo(d)'
  <2>1. Given(d)' = Given(d) /\ dropped'[d] = dropped[d]
    BY <1>0, <1>1, <1>2, <1>5 DEF Broadcast, ResTypes, Given
  <2>2. PICK x \in Int : x = Due(d) /\ x = Due(d)'
    BY <1>0, <1>1, <1>5, DueNext, DueTyped
  <2>3. Due(d) <= x /\ (Entitled(d)' /\ Given(d) # <<>> => Entitled(d) /\ Due(d) = x)
    BY <1>3, <2>2
  <2> QED BY <1>0, <2>1, <2>2, <2>3, GivenKept
<1>6. PICK g \in Seq(Response), o \in Seq(Response), q \in Seq(Response), a \in Response :
        g = Given(c) /\ o = out[c] /\ q = res[c] /\ a = round[next] /\ g = o \o q
  BY <1>0, <1>1, GivenTyped, Broadcasts DEF ResTypes, Given
<1>7. ASSUME UNCHANGED dropped, res' = [res EXCEPT ![c] = Append(q, a)] PROVE GivenTo(c)'
  <2>1. Given(c)' = o \o Append(q, a)
    BY <1>0, <1>2, <1>6, <1>7 DEF Given, ResTypes
  <2>2. o \o Append(q, a) = Append(g, a)
    <3>1. <<a>> \in Seq(Response)
      OBVIOUS
    <3>2. o \o (q \o <<a>>) = (o \o q) \o <<a>>
      BY <3>1, ConcatAssociative
    <3> QED BY <1>6, <3>2, AppendIsConcat
  <2>3. a.id = e + 1
    <3>1. b + next \in 1 .. Len(log)
      BY <1>0, <1>1
    <3>2. a = log[b + next]
      BY <1>0, <1>1, <1>6 DEF RoundOK
    <3>3. log[b + next].id = b + next
      BY <1>0, <3>1 DEF RoundOK
    <3> QED BY <1>1, <1>4, <3>2, <3>3
  <2>4. Upwards(g, dropped[c]) /\ dropped[c] \in BOOLEAN
    BY <1>0, <1>6 DEF GivenOK, GivenTo, ResTypes
  <2>5. g # <<>> => g[Len(g)].id <= e /\ (~dropped[c] => g[Len(g)].id = e)
    BY <1>0, <1>1, <1>4, <1>6 DEF GivenOK, GivenTo, LastGiven, Entitled
  <2>6. Upwards(Append(g, a), dropped[c])
    BY <2>3, <2>4, <2>5, UpwardsAppend
  <2>7. LastGiven(c)' = e + 1
    <3>1. Append(g, a)[Len(Append(g, a))] = a
      BY AppendProperties
    <3> QED BY <2>1, <2>2, <2>3, <3>1 DEF LastGiven
  <2> QED BY <1>4, <1>7, <2>1, <2>2, <2>6, <2>7 DEF GivenTo
<1>8. ASSUME UNCHANGED res, dropped' = [dropped EXCEPT ![c] = TRUE] PROVE GivenTo(c)'
  <2>1. Given(c)' = g /\ dropped'[c] = TRUE
    BY <1>0, <1>2, <1>6, <1>8 DEF Given, ResTypes
  <2>2. Upwards(g, TRUE)
    BY <1>0, <1>6 DEF GivenOK, GivenTo, Upwards
  <2>3. g # <<>> => LastGiven(c) \in Nat /\ LastGiven(c) <= e /\ LastGiven(c)' = LastGiven(c)
    BY <1>0, <1>4, <1>6, <2>1, GivenTyped DEF GivenOK, GivenTo, LastGiven
  <2>4. Upwards(Given(c)', dropped'[c])
    BY <2>1, <2>2
  <2>5. Given(c)' # <<>> => LastGiven(c)' <= Due(c)'
    BY <1>4, <2>1, <2>3
  <2> QED BY <2>1, <2>4, <2>5 DEF GivenTo
<1>9. GivenTo(c)'
  BY <1>1, <1>6, <1>7, <1>8, Broadcasts
<1> QED BY <1>5, <1>9 DEF GivenOK

LEMMA GivenNext == ASSUME KvAssumption, Inv, [Next]_vars PROVE GivenOK'
<1>0. Types' /\ RoundOK'
  BY TypesNext, RoundNext
<1>1. CASE UNCHANGED <<items, cur, iter, pos, next, dpc, round, log, out, res, dropped>>
  <2>1. \A c \in Clients : /\ Given(c)' = Given(c) /\ Due(c)' = Due(c) /\ (Entitled(c)' <=> Entitled(c))
                           /\ LastGiven(c)' = LastGiven(c)
    BY <1>1 DEF Given, Due, Base, Ahead, Entitled, InList, LastGiven
  <2>2. ASSUME NEW c \in Clients PROVE GivenTo(c)'
    <3>1. GivenTo(c)
      BY DEF Inv, GivenOK
    <3> QED BY <1>1, <2>1, <3>1 DEF GivenTo
  <2> QED BY <2>2 DEF GivenOK
<1> QED BY <1>0, <1>1, GivenClient, GivenIter, GivenCollect, GivenBroadcast
        DEF Next, Accept, Disconnect, ReceiverRead, ReceiverSend, PutRequest, ReceiverError, Close,
            vars, clistVars, kvVars, dispatchVars

-----------------------------------------------------------------------------
(* The requests of a client, from the connection to the store *)

LEMMA RequestsInit == ASSUME Init PROVE RequestsOK
BY DEF Init, RequestsOK, RequestsOf, Taken

LEMMA TakenTyped ==
  ASSUME Types, RequestsOK, NEW c \in Clients
  PROVE  /\ Taken(c) \in Nat /\ Len(sent[c]) \in Nat /\ Len(req[c]) \in Nat
         /\ Taken(c) + Len(req[c]) <= Len(sent[c])
<1>1. PICK m \in Nat, n \in Nat : m = Len(sent[c]) /\ n = Len(req[c])
  BY DEF Types, ReqTypes
<1>2. PICK k \in {0, 1} : k = IF rpc[c] = "send" THEN 1 ELSE 0
  OBVIOUS
<1>3. Taken(c) = m - n - k /\ m - n - k >= 0
  BY <1>1, <1>2 DEF RequestsOK, RequestsOf, Taken
<1> QED BY <1>1, <1>3

\* Steps that leave the requests of a client alone.
LEMMA RequestsKept ==
  ASSUME RequestsOK, NEW c \in Clients, sent'[c] = sent[c], req'[c] = req[c],
         rpc'[c] = "send" <=> rpc[c] = "send"
  PROVE  Taken(c)' = Taken(c) /\ RequestsOf(c)'
<1>1. Taken(c)' = Taken(c)
  BY DEF Taken
<1> QED BY <1>1 DEF RequestsOK, RequestsOf

\* The receiver reads a request of c.
LEMMA RequestsRead ==
  ASSUME Inv, NEW c \in Clients, NEW r \in Requests(c), ReceiverRead(c, r)
  PROVE  /\ RequestsOf(c)' /\ Taken(c)' = Taken(c) /\ Len(sent[c]) <= Len(sent'[c])
         /\ \A i \in 1 .. Len(sent[c]) : sent'[c][i] = sent[c][i]
<1>0. Types /\ RequestsOK /\ ReqTypes /\ ConnTypes
  BY DEF Inv, Types
<1>1. PICK m \in Nat, n \in Nat, t \in Nat : m = Len(sent[c]) /\ n = Len(req[c]) /\ t = Taken(c) /\ t + n <= m
  BY <1>0, TakenTyped
<1>2. PICK s \in Seq(Request) : s = sent[c]
  BY <1>0 DEF ReqTypes
<1>3. r \in Request /\ r.client = c /\ r.n = m + 1
  BY <1>0, <1>1, ReadRequest
<1>4. sent'[c] = Append(s, r) /\ req'[c] = req[c] /\ rpc[c] = "read" /\ rpc'[c] = "send"
  BY <1>0, <1>2 DEF ReceiverRead, ReqTypes, ConnTypes
<1>5. Len(sent'[c]) = m + 1 /\ sent'[c][m + 1] = r /\ \A i \in 1 .. m : sent'[c][i] = s[i]
  BY <1>1, <1>2, <1>3, <1>4
<1>6. t = m - n - 0
  BY <1>1, <1>4 DEF Taken
<1>7. Taken(c)' = t
  <2>1. Taken(c)' = (m + 1) - n - 1
    BY <1>1, <1>4, <1>5 DEF Taken
  <2> QED BY <1>6, <2>1
<1>8. \A i \in 1 .. m : s[i].client = c /\ s[i].n = i
  BY <1>0, <1>1, <1>2 DEF RequestsOK, RequestsOf
<1>9. \A i \in 1 .. m + 1 : sent'[c][i].client = c /\ sent'[c][i].n = i
  BY <1>3, <1>5, <1>8
<1>10. ASSUME NEW j \in 1 .. n PROVE req'[c][j] = sent'[c][t + j]
  <2>1. t + j \in 1 .. m
    BY <1>1
  <2>2. req[c][j] = s[t + j]
    BY <1>0, <1>1, <1>2 DEF RequestsOK, RequestsOf
  <2> QED BY <1>4, <1>5, <2>1, <2>2
<1> QED BY <1>1, <1>2, <1>4, <1>5, <1>7, <1>9, <1>10 DEF RequestsOf

\* The receiver puts it into the channel.
LEMMA RequestsSend ==
  ASSUME Inv, NEW c \in Clients, ReceiverSend(c)
  PROVE  RequestsOf(c)' /\ Taken(c)' = Taken(c) /\ sent'[c] = sent[c]
<1>0. Types /\ RequestsOK /\ ReqTypes /\ ConnTypes
  BY DEF Inv, Types
<1>1. PICK m \in Nat, n \in Nat, t \in Nat : m = Len(sent[c]) /\ n = Len(req[c]) /\ t = Taken(c) /\ t + n <= m
  BY <1>0, TakenTyped
<1>2. PICK q \in Seq(Request), r \in Request : q = req[c] /\ r = sent[c][m]
  BY <1>0, <1>1, LastRequest DEF ReqTypes, ReceiverSend, PutRequest
<1>3. req'[c] = Append(q, r) /\ sent'[c] = sent[c] /\ rpc[c] = "send" /\ rpc'[c] = "read"
  BY <1>0, <1>1, <1>2 DEF ReceiverSend, PutRequest, ReqTypes, ConnTypes
<1>4. Len(req'[c]) = n + 1 /\ req'[c][n + 1] = r /\ \A j \in 1 .. n : req'[c][j] = q[j]
  BY <1>1, <1>2, <1>3
<1>5. t = m - n - 1
  BY <1>1, <1>3 DEF Taken
<1>6. Taken(c)' = t
  <2>1. Taken(c)' = m - (n + 1) - 0
    BY <1>1, <1>3, <1>4 DEF Taken
  <2> QED BY <1>5, <2>1
<1>7. ASSUME NEW j \in 1 .. n + 1 PROVE req'[c][j] = sent'[c][t + j]
  <2>1. CASE j = n + 1
    <3>1. t + j = m
      BY <1>5, <2>1
    <3> QED BY <1>2, <1>3, <1>4, <2>1, <3>1
  <2>2. CASE j \in 1 .. n
    BY <1>0, <1>1, <1>2, <1>3, <1>4, <2>2 DEF RequestsOK, RequestsOf
  <2> QED BY <2>1, <2>2
<1>8. \A i \in 1 .. m : sent'[c][i].client = c /\ sent'[c][i].n = i
  BY <1>0, <1>1, <1>3 DEF RequestsOK, RequestsOf
<1>9. \A i \in 1 .. Len(sent'[c]) : sent'[c][i].client = c /\ sent'[c][i].n = i
  BY <1>1, <1>3, <1>8
<1>10. \A j \in 1 .. Len(req'[c]) : req'[c][j] = sent'[c][Taken(c)' + j]
  BY <1>4, <1>6, <1>7
<1>11. Taken(c)' >= 0
  BY <1>1, <1>6
<1>12. RequestsOf(c)'
  BY <1>9, <1>10, <1>11 DEF RequestsOf
<1> QED BY <1>1, <1>3, <1>6, <1>12

\* dispatch takes the oldest request of c, which is the next to be taken.
LEMMA RequestsCollect ==
  ASSUME KvAssumption, Inv, Collect, NEW c \in Clients, c = cur
  PROVE  /\ RequestsOf(c)' /\ Taken(c)' = Taken(c) + 1 /\ UNCHANGED sent
         /\ Taken(c) + 1 \in 1 .. Len(sent[c])
         /\ Head(req[c]) = sent[c][Taken(c) + 1]
         /\ Head(req[c]).client = c /\ Head(req[c]).n = Taken(c) + 1
         /\ \A d \in Clients : d # c => RequestsOf(d)' /\ Taken(d)' = Taken(d)
<1>0. Types /\ RequestsOK /\ ReqTypes /\ ConnTypes
  BY DEF Inv, Types
<1>1. PICK m \in Nat, n \in Nat, t \in Nat : m = Len(sent[c]) /\ n = Len(req[c]) /\ t = Taken(c) /\ t + n <= m
  BY <1>0, TakenTyped
<1>2. PICK q \in Seq(Request) : q = req[c] /\ q # <<>> /\ UNCHANGED <<sent, rpc>> /\ req' = [req EXCEPT ![c] = Tail(q)]
  BY <1>0, Collected DEF ReqTypes
<1>3. /\ Head(q) = q[1] /\ n >= 1 /\ Len(Tail(q)) = n - 1
      /\ \A j \in 1 .. n - 1 : Tail(q)[j] = q[j + 1]
  BY <1>0, <1>1, <1>2, HeadRequest
<1>4. req'[c] = Tail(q) /\ \A d \in Clients : d # c => req'[d] = req[d]
  BY <1>0, <1>2 DEF ReqTypes
<1>5. \A j \in 1 .. n : q[j] = sent[c][t + j]
  BY <1>0, <1>1, <1>2 DEF RequestsOK, RequestsOf
<1>6. \A i \in 1 .. m : sent[c][i].client = c /\ sent[c][i].n = i
  BY <1>0, <1>1 DEF RequestsOK, RequestsOf
<1>7. t + 1 \in 1 .. m /\ q[1] = sent[c][t + 1]
  BY <1>1, <1>3, <1>5
<1>8. Taken(c)' = t + 1
  <2>1. PICK k \in {0, 1} : k = IF rpc[c] = "send" THEN 1 ELSE 0
    OBVIOUS
  <2>2. t = m - n - k /\ Taken(c)' = m - (n - 1) - k
    BY <1>1, <1>2, <1>3, <1>4, <2>1 DEF Taken
  <2> QED BY <2>2
<1>9. ASSUME NEW j \in 1 .. n - 1 PROVE req'[c][j] = sent'[c][t + 1 + j]
  <2>1. j + 1 \in 1 .. n /\ t + (j + 1) = t + 1 + j
    BY <1>1
  <2>2. q[j + 1] = sent[c][t + (j + 1)]
    BY <1>5, <2>1
  <2> QED BY <1>2, <1>3, <1>4, <2>1, <2>2
<1>10. RequestsOf(c)'
  <2>1. \A i \in 1 .. Len(sent'[c]) : sent'[c][i].client = c /\ sent'[c][i].n = i
    BY <1>1, <1>2, <1>6
  <2>2. Len(req'[c]) = n - 1
    BY <1>3, <1>4
  <2>3. \A j \in 1 .. Len(req'[c]) : req'[c][j] = sent'[c][Taken(c)' + j]
    BY <1>8, <1>9, <2>2
  <2>4. Taken(c)' >= 0
    BY <1>1, <1>8
  <2> QED BY <2>1, <2>3, <2>4 DEF RequestsOf
<1>11. ASSUME NEW d \in Clients, d # c PROVE RequestsOf(d)' /\ Taken(d)' = Taken(d)
  BY <1>0, <1>2, <1>4, <1>11, RequestsKept
<1> QED BY <1>1, <1>2, <1>3, <1>6, <1>7, <1>8, <1>10, <1>11

\* All steps but Collect.
OtherStep ==
  \/ \E c \in Clients :
       \/ Accept(c) \/ Disconnect(c) \/ \E r \in Requests(c) : ReceiverRead(c, r)
       \/ ReceiverSend(c) \/ ReceiverError(c) \/ ReceiverRemove(c) \/ SenderTake(c)
  \/ ListenPush \/ Close \/ IterStep \/ CollectNothing \/ CollectEnd \/ Broadcast \/ BroadcastEnd
  \/ UNCHANGED vars

LEMMA RequestsOther ==
  ASSUME KvAssumption, Inv, OtherStep, NEW c \in Clients
  PROVE  /\ RequestsOf(c)' /\ Taken(c)' = Taken(c) /\ Len(sent[c]) <= Len(sent'[c])
         /\ \A i \in 1 .. Len(sent[c]) : sent'[c][i] = sent[c][i]
<1>0. RequestsOK /\ ReqTypes /\ ConnTypes /\ ListOK
  BY DEF Inv, Types
<1>1. Len(sent[c]) \in Nat
  BY <1>0 DEF ReqTypes
<1>2. CASE sent'[c] = sent[c] /\ req'[c] = req[c] /\ (rpc'[c] = "send" <=> rpc[c] = "send")
  BY <1>0, <1>1, <1>2, RequestsKept
<1>3. CASE \E r \in Requests(c) : ReceiverRead(c, r)
  BY <1>3, RequestsRead
<1>4. CASE ReceiverSend(c)
  BY <1>1, <1>4, RequestsSend
<1>5. ASSUME NEW d \in Clients, d # c,
             \/ Accept(d) \/ Disconnect(d) \/ \E r \in Requests(d) : ReceiverRead(d, r)
             \/ ReceiverSend(d) \/ ReceiverError(d) \/ ReceiverRemove(d) \/ SenderTake(d)
      PROVE  sent'[c] = sent[c] /\ req'[c] = req[c] /\ rpc'[c] = rpc[c]
  BY <1>0, <1>5 DEF ReqTypes, ConnTypes, Accept, Disconnect, ReceiverRead, ReceiverSend, PutRequest, ReceiverError,
                    ReceiverRemove, SenderTake
<1>6. ASSUME Accept(c) \/ Disconnect(c) \/ ReceiverError(c) \/ ReceiverRemove(c) \/ SenderTake(c)
      PROVE  sent'[c] = sent[c] /\ req'[c] = req[c] /\ (rpc'[c] = "send" <=> rpc[c] = "send")
  BY <1>0, <1>6 DEF ConnTypes, Accept, Disconnect, ReceiverError, ReceiverRemove, SenderTake
<1>7. ASSUME ListenPush
      PROVE  sent'[c] = sent[c] /\ req'[c] = req[c] /\ (rpc'[c] = "send" <=> rpc[c] = "send")
  BY <1>0, <1>7 DEF ConnTypes, ListenPush, ListOK
<1>8. ASSUME Close \/ IterStep \/ CollectNothing \/ CollectEnd \/ Broadcast \/ BroadcastEnd \/ UNCHANGED vars
      PROVE  UNCHANGED <<sent, req, rpc>>
  BY <1>8 DEF Close, IterStep, CollectNothing, CollectEnd, Broadcast, BroadcastEnd, Turn, vars, kvVars
<1> QED BY <1>2, <1>3, <1>4, <1>5, <1>6, <1>7, <1>8 DEF OtherStep

LEMMA Steps == ASSUME [Next]_vars PROVE Collect \/ OtherStep
BY DEF Next, OtherStep

LEMMA RequestsNext == ASSUME KvAssumption, Inv, [Next]_vars PROVE RequestsOK'
<1>1. CASE OtherStep
  BY <1>1, RequestsOther DEF RequestsOK
<1>2. CASE Collect
  <2>1. cur \in Clients
    BY <1>2, Collected DEF Inv
  <2> QED BY <1>2, <2>1, RequestsCollect DEF RequestsOK
<1> QED BY <1>1, <1>2, Steps

-----------------------------------------------------------------------------
(* What is applied, and in which order *)

LEMMA AppendElements ==
  ASSUME NEW S, NEW s \in Seq(S), NEW x \in S
  PROVE  /\ Elements(Append(s, x)) = Elements(s) \cup {x}
         /\ Distinct(s) /\ x \notin Elements(s) => Distinct(Append(s, x))
<1>1. PICK n \in Nat : n = Len(s)
  OBVIOUS
<1>2. PICK t \in Seq(S) : t = Append(s, x)
  BY AppendProperties
<1>3. Len(t) = n + 1 /\ t[n + 1] = x /\ \A i \in 1 .. n : t[i] = s[i]
  BY <1>1, <1>2
<1>4. ASSUME NEW y PROVE y \in Elements(t) <=> y \in Elements(s) \/ y = x
  <2>1. ASSUME NEW i \in 1 .. n + 1, y = t[i] PROVE y \in Elements(s) \/ y = x
    BY <1>1, <1>3, <2>1 DEF Elements
  <2>2. ASSUME NEW i \in 1 .. n, y = s[i] PROVE y \in Elements(t)
    BY <1>3, <2>2 DEF Elements
  <2>3. x \in Elements(t)
    BY <1>3 DEF Elements
  <2> QED BY <1>1, <1>3, <2>1, <2>2, <2>3 DEF Elements
<1>5. ASSUME Distinct(s), x \notin Elements(s) PROVE Distinct(t)
  <2>1. \A i \in 1 .. n : s[i] # x
    BY <1>1, <1>5 DEF Elements
  <2>2. ASSUME NEW i \in 1 .. n + 1, NEW j \in 1 .. n + 1, t[i] = t[j] PROVE i = j
    BY <1>1, <1>3, <1>5, <2>1, <2>2 DEF Distinct
  <2> QED BY <1>3, <2>2 DEF Distinct
<1> QED BY <1>2, <1>4, <1>5

LEMMA AppliedInit == ASSUME Init PROVE AppliedOK
<1>1. ASSUME NEW c \in Clients PROVE SetsApplied(c)
  <2>1. Taken(c) = 0
    <3>1. sent[c] = <<>> /\ req[c] = <<>> /\ rpc[c] # "send"
      BY DEF Init
    <3>2. Taken(c) = Len(sent[c]) - Len(req[c]) - 0 /\ Len(sent[c]) = 0 /\ Len(req[c]) = 0
      BY <3>1 DEF Taken
    <3> QED BY <3>2
  <2> QED BY <2>1 DEF SetsApplied
<1>2. ASSUME NEW k \in Keys PROVE KeyOK(k)
  <2>1. applied[k] = <<>> /\ store[k] = <<>>
    BY DEF Init
  <2> QED BY <2>1 DEF KeyOK, Distinct, Elements, ValueAt
<1> QED BY <1>1, <1>2 DEF AppliedOK

\* Steps that do not touch the store.
LEMMA StoreOther == ASSUME OtherStep PROVE UNCHANGED <<store, applied, log>>
BY DEF OtherStep, Accept, Disconnect, ReceiverRead, ReceiverSend, PutRequest, ReceiverError, ReceiverRemove,
       SenderTake, ListenPush, Close, IterStep, CollectNothing, CollectEnd, Broadcast, BroadcastEnd, Turn,
       vars, kvVars, dispatchVars

LEMMA AppliedOther == ASSUME KvAssumption, Inv, OtherStep PROVE AppliedOK'
<1>0. Types /\ RequestsOK /\ AppliedOK
  BY DEF Inv
<1>1. UNCHANGED <<store, applied>>
  BY StoreOther
<1>2. \A c \in Clients : Taken(c)' = Taken(c)
  BY RequestsOther
<1>3. ASSUME NEW c \in Clients PROVE SetsApplied(c)'
  <2>1. PICK t \in Nat : t = Taken(c) /\ t = Taken(c)'
    BY <1>0, <1>2, TakenTyped
  <2>2. t <= Len(sent[c]) /\ Len(sent[c]) \in Nat
    <3>1. PICK m \in Nat, n \in Nat : m = Len(sent[c]) /\ n = Len(req[c]) /\ t + n <= m
      BY <1>0, <2>1, TakenTyped
    <3> QED BY <3>1
  <2>3. \A i \in 1 .. t : sent'[c][i] = sent[c][i]
    BY <2>2, RequestsOther
  <2>4. SetsApplied(c)
    BY <1>0 DEF AppliedOK
  <2> QED BY <1>1, <2>1, <2>3, <2>4 DEF SetsApplied
<1>4. ASSUME NEW k \in Keys PROVE KeyOK(k)'
  <2>1. KeyOK(k)
    BY <1>0 DEF AppliedOK
  <2> QED BY <1>1, <1>2, <2>1 DEF KeyOK
<1> QED BY <1>3, <1>4 DEF AppliedOK

\* A set writes a value that was never written before.
LEMMA NewTag ==
  ASSUME KvAssumption, Inv, Collect
  PROVE  \E c \in Clients, t \in Nat, r \in Request :
           /\ t = Taken(c) /\ Taken(c)' = t + 1 /\ UNCHANGED sent /\ \A d \in Clients : d # c => Taken(d)' = Taken(d)
           /\ CollectGet(r) \/ CollectSet(r)
           /\ r = sent[c][t + 1] /\ r.client = c /\ r.n = t + 1 /\ r.key \in Keys /\ <<c, t + 1>> \in Tags
           /\ \A k \in Keys : <<c, t + 1>> \notin Elements(applied[k])
<1>0. Types /\ RequestsOK /\ AppliedOK
  BY DEF Inv
<1>1. PICK c \in Clients, r \in Request : c = cur /\ r = Head(req[c]) /\ (CollectGet(r) \/ CollectSet(r))
  BY <1>0, Collected, HeadRequest
<1>2. PICK t \in Nat : t = Taken(c)
  BY <1>0, TakenTyped
<1>3. /\ Taken(c)' = t + 1 /\ UNCHANGED sent /\ \A d \in Clients : d # c => Taken(d)' = Taken(d)
      /\ r = sent[c][t + 1] /\ r.client = c /\ r.n = t + 1
  BY <1>1, <1>2, RequestsCollect
<1>4. r.key \in Keys /\ <<c, t + 1>> \in Tags
  BY DEF Request, Tags
<1>5. ASSUME NEW k \in Keys, <<c, t + 1>> \in Elements(applied[k]) PROVE FALSE
  <2>1. t + 1 \in 1 .. t
    BY <1>0, <1>2, <1>5 DEF AppliedOK, KeyOK
  <2> QED BY <2>1
<1> QED BY <1>1, <1>2, <1>3, <1>4, <1>5

LEMMA AppliedCollect == ASSUME KvAssumption, Inv, Collect PROVE AppliedOK'
<1>0. Types /\ RequestsOK /\ AppliedOK /\ StoreTypes
  BY DEF Inv, Types
<1>1. PICK c \in Clients, t \in Nat, r \in Request :
           /\ t = Taken(c) /\ Taken(c)' = t + 1 /\ UNCHANGED sent /\ \A d \in Clients : d # c => Taken(d)' = Taken(d)
           /\ CollectGet(r) \/ CollectSet(r)
           /\ r = sent[c][t + 1] /\ r.client = c /\ r.n = t + 1 /\ r.key \in Keys /\ <<c, t + 1>> \in Tags
           /\ \A k \in Keys : <<c, t + 1>> \notin Elements(applied[k])
  BY NewTag
<1>2. \A d \in Clients : Taken(d) \in Nat /\ Taken(d)' \in Nat /\ Taken(d) <= Taken(d)'
  BY <1>0, <1>1, TakenTyped
<1>s. \A d \in Clients : \A i \in 1 .. Taken(d) : i \in 1 .. Len(sent[d]) /\ sent[d][i].key \in Keys
  <2> TAKE d \in Clients
  <2>1. PICK s \in Seq(Request) : s = sent[d] /\ Taken(d) <= Len(s)
    BY <1>0, TakenTyped DEF Types, ReqTypes
  <2> TAKE i \in 1 .. Taken(d)
  <2>2. i \in 1 .. Len(s) /\ s[i] \in Request
    BY <1>2, <2>1
  <2> QED BY <2>1, <2>2 DEF Request
<1>3. ASSUME NEW d \in Clients, NEW i \in 1 .. Taken(d)', i \notin 1 .. Taken(d) PROVE d = c /\ i = t + 1
  BY <1>1, <1>2, <1>3
<1>4. CASE CollectGet(r)
  <2>1. UNCHANGED <<store, applied>> /\ sent[c][t + 1].command # "set"
    BY <1>1, <1>4 DEF CollectGet
  <2>2. ASSUME NEW d \in Clients PROVE SetsApplied(d)'
    <3>1. SetsApplied(d)
      BY <1>0 DEF AppliedOK
    <3> QED BY <1>1, <1>3, <2>1, <3>1 DEF SetsApplied
  <2>3. ASSUME NEW k \in Keys PROVE KeyOK(k)'
    <3>1. KeyOK(k)
      BY <1>0 DEF AppliedOK
    <3>2. \A d \in Clients : \A i \in 1 .. Taken(d) : i \in 1 .. Taken(d)'
      BY <1>2
    <3> QED BY <2>1, <3>1, <3>2 DEF KeyOK
  <2> QED BY <2>2, <2>3 DEF AppliedOK
<1>5. CASE CollectSet(r)
  <2>1. PICK v \in Tags, q \in Keys : v = <<c, t + 1>> /\ q = r.key
    BY <1>1
  <2>2. /\ store' = [store EXCEPT ![q] = v] /\ applied' = [applied EXCEPT ![q] = Append(applied[q], v)]
        /\ v \notin Elements(applied[q]) /\ applied[q] \in Seq(Tags)
    BY <1>0, <1>1, <1>5, <2>1 DEF CollectSet, StoreTypes
  <2>3. /\ applied'[q] = Append(applied[q], v) /\ store'[q] = v
        /\ \A k \in Keys : k # q => applied'[k] = applied[k] /\ store'[k] = store[k]
    BY <1>0, <2>2 DEF StoreTypes
  <2>4. Elements(applied'[q]) = Elements(applied[q]) \cup {v}
    BY <2>2, <2>3, AppendElements
  <2>5. ASSUME NEW d \in Clients PROVE SetsApplied(d)'
    <3>1. SetsApplied(d)
      BY <1>0 DEF AppliedOK
    <3>2. ASSUME NEW i \in 1 .. Taken(d)', sent[d][i].command = "set"
          PROVE  <<d, i>> \in Elements(applied'[sent[d][i].key])
      <4>1. CASE i \in 1 .. Taken(d)
        <5>1. sent[d][i].key \in Keys /\ <<d, i>> \in Elements(applied[sent[d][i].key])
          BY <1>s, <3>1, <3>2, <4>1 DEF SetsApplied
        <5> QED BY <2>3, <2>4, <5>1
      <4>2. CASE i \notin 1 .. Taken(d)
        <5>1. d = c /\ i = t + 1
          BY <1>3, <4>2
        <5>2. sent[d][i].key = q /\ <<d, i>> = v
          BY <1>1, <2>1, <5>1
        <5> QED BY <2>4, <5>2
      <4> QED BY <4>1, <4>2
    <3> QED BY <1>1, <3>2 DEF SetsApplied
  <2>6. ASSUME NEW k \in Keys PROVE KeyOK(k)'
    <3>1. KeyOK(k)
      BY <1>0 DEF AppliedOK
    <3>2. \A d \in Clients : \A i \in 1 .. Taken(d) : i \in 1 .. Taken(d)'
      BY <1>2
    <3>3. CASE k # q
      BY <2>3, <3>1, <3>2, <3>3 DEF KeyOK
    <3>4. CASE k = q
      <4>1. Distinct(applied'[k])
        BY <2>2, <2>3, <3>1, <3>4, AppendElements DEF KeyOK
      <4>2. ASSUME NEW d \in Clients, NEW i \in Nat, <<d, i>> \in Elements(applied'[k]) PROVE i \in 1 .. Taken(d)'
        <5>1. CASE <<d, i>> \in Elements(applied[k])
          BY <3>1, <3>2, <5>1 DEF KeyOK
        <5>2. CASE <<d, i>> = v
          <6>1. d = c /\ i = t + 1
            BY <2>1, <5>2
          <6> QED BY <1>1, <6>1
        <5> QED BY <2>4, <3>4, <4>2, <5>1, <5>2
      <4>3. store'[k] = ValueAt(applied'[k], Len(applied'[k]))
        <5>1. Len(applied[q]) \in Nat /\ Len(applied'[q]) = Len(applied[q]) + 1 /\ applied'[q][Len(applied[q]) + 1] = v
          BY <2>2, <2>3
        <5> QED BY <2>3, <3>4, <5>1 DEF ValueAt
      <4> QED BY <4>1, <4>2, <4>3 DEF KeyOK
    <3> QED BY <3>3, <3>4
  <2> QED BY <2>5, <2>6 DEF AppliedOK
<1> QED BY <1>1, <1>4, <1>5

LEMMA AppliedNext == ASSUME KvAssumption, Inv, [Next]_vars PROVE AppliedOK'
BY Steps, AppliedOther, AppliedCollect

-----------------------------------------------------------------------------
(* What is answered *)

\* The position of a value among the sets that were applied.
PositionIn(s, v) == CHOOSE i \in 0 .. Len(s) : IF i = 0 THEN v = <<>> ELSE s[i] = v

LEMMA PositionIs ==
  ASSUME NEW s \in Seq(Tags), Distinct(s), NEW p \in 0 .. Len(s)
  PROVE  PositionIn(s, ValueAt(s, p)) = p
<1>1. PICK n \in Nat : n = Len(s)
  OBVIOUS
<1>2. \A i \in 1 .. n : s[i] # <<>>
  <2> TAKE i \in 1 .. n
  <2>1. PICK a \in Clients, b \in Nat : s[i] = <<a, b>>
    BY <1>1 DEF Tags
  <2> QED BY <2>1
<1> DEFINE v == ValueAt(s, p)
           at(i) == IF i = 0 THEN v = <<>> ELSE s[i] = v
<1>3. at(p)
  BY DEF ValueAt
<1>4. ASSUME NEW i \in 0 .. n, at(i) PROVE i = p
  <2>1. CASE p = 0
    BY <1>1, <1>2, <1>4, <2>1 DEF ValueAt
  <2>2. CASE p # 0
    <3>1. p \in 1 .. n /\ v = s[p]
      BY <1>1, <2>2 DEF ValueAt
    <3>2. i # 0
      BY <1>2, <1>4, <3>1
    <3> QED BY <1>1, <1>4, <3>1, <3>2 DEF Distinct
  <2> QED BY <2>1, <2>2
<1>5. PositionIn(s, v) = CHOOSE i \in 0 .. n : at(i)
  BY <1>1 DEF PositionIn
<1> HIDE DEF at, v
<1>6. PositionIn(s, v) = p
  BY <1>1, <1>3, <1>4, <1>5
<1> QED BY <1>6 DEF v

\* Values that were applied have a position; it does not change when another set is applied.
LEMMA PositionKnown ==
  ASSUME NEW s \in Seq(Tags), Distinct(s), NEW v, v = <<>> \/ v \in Elements(s)
  PROVE  PositionIn(s, v) \in 0 .. Len(s) /\ v = ValueAt(s, PositionIn(s, v))
<1>1. Len(s) \in Nat
  OBVIOUS
<1>2. PICK p \in 0 .. Len(s) : v = ValueAt(s, p)
  <2>1. CASE v = <<>>
    BY <1>1, <2>1 DEF ValueAt
  <2>2. CASE v \in Elements(s)
    BY <1>1, <2>2 DEF ValueAt, Elements
  <2> QED BY <2>1, <2>2
<1>3. PositionIn(s, v) = p
  BY <1>2, PositionIs
<1> QED BY <1>2, <1>3

LEMMA PositionKept ==
  ASSUME NEW s \in Seq(Tags), Distinct(s), NEW x \in Tags, x \notin Elements(s),
         NEW v, v = <<>> \/ v \in Elements(s)
  PROVE  PositionIn(Append(s, x), v) = PositionIn(s, v)
<1>1. PICK n \in Nat : n = Len(s)
  OBVIOUS
<1>2. PICK p \in 0 .. n : p = PositionIn(s, v) /\ v = ValueAt(s, p)
  BY <1>1, PositionKnown
<1>3. PICK t \in Seq(Tags) : t = Append(s, x)
  BY AppendProperties
<1>4. Len(t) = n + 1 /\ \A i \in 1 .. n : t[i] = s[i]
  BY <1>1, <1>3
<1>5. Distinct(t)
  BY <1>3, AppendElements
<1>6. p \in 0 .. Len(t) /\ v = ValueAt(t, p)
  BY <1>1, <1>2, <1>4 DEF ValueAt
<1>7. PositionIn(t, v) = p
  BY <1>5, <1>6, PositionIs
<1> QED BY <1>2, <1>3, <1>7

\* The values of a key.
LEMMA PositionTyped ==
  ASSUME Types, AppliedOK, NEW k \in Keys, NEW v, Known(k, v)
  PROVE  /\ Position(k, v) = PositionIn(applied[k], v)
         /\ Position(k, v) \in 0 .. Len(applied[k]) /\ Len(applied[k]) \in Nat
<1>1. applied[k] \in Seq(Tags) /\ Distinct(applied[k])
  BY DEF Types, StoreTypes, AppliedOK, KeyOK
<1>2. Position(k, v) = PositionIn(applied[k], v)
  BY DEF Position, PositionIn
<1>3. PositionIn(applied[k], v) \in 0 .. Len(applied[k])
  BY <1>1, PositionKnown DEF Known
<1> QED BY <1>1, <1>2, <1>3

\* The value in the store is the last.
LEMMA StorePosition ==
  ASSUME Types, AppliedOK, NEW k \in Keys
  PROVE  Known(k, store[k]) /\ Position(k, store[k]) = Len(applied[k])
<1>1. PICK s \in Seq(Tags), n \in Nat : s = applied[k] /\ Distinct(s) /\ n = Len(s)
  BY DEF Types, StoreTypes, AppliedOK, KeyOK
<1>2. store[k] = ValueAt(s, n)
  BY <1>1 DEF AppliedOK, KeyOK
<1>3. PositionIn(s, ValueAt(s, n)) = n
  BY <1>1, PositionIs
<1>4. ValueAt(s, n) = <<>> \/ ValueAt(s, n) \in Elements(s)
  BY <1>1 DEF ValueAt, Elements
<1> QED BY <1>1, <1>2, <1>3, <1>4, PositionTyped DEF Known

LEMMA AnsweredInit == ASSUME Init PROVE AnsweredOK
<1>1. log = <<>>
  BY DEF Init
<1> QED BY <1>1 DEF AnsweredOK

\* The client, number and key of an answer.
LEMMA AnswerParts ==
  ASSUME NEW a \in Response
  PROVE  a.to \in Request /\ a.to.client \in Clients /\ a.to.n \in Nat /\ a.to.key \in Keys
<1>1. a.to \in Request
  BY DEF Response
<1> QED BY <1>1 DEF Request

\* The sets before a request that was handled stay what they were.
LEMMA SetsBeforeKept ==
  ASSUME Types, RequestsOK, NEW c \in Clients, NEW n \in 1 .. Taken(c), NEW k \in Keys,
         \A i \in 1 .. Len(sent[c]) : sent'[c][i] = sent[c][i]
  PROVE  SetsBefore(c, n, k)' = SetsBefore(c, n, k)
<1>1. PICK m \in Nat, q \in Nat, t \in Nat : m = Len(sent[c]) /\ q = Len(req[c]) /\ t = Taken(c) /\ t + q <= m
  BY TakenTyped
<1>2. \A i \in 1 .. n - 1 : sent'[c][i] = sent[c][i]
  BY <1>1
<1> QED BY <1>2 DEF SetsBefore

\* An answer stays right while values keep their positions.
LEMMA AnswerKept ==
  ASSUME Types, RequestsOK, NEW a \in Response, AnswerOK(a),
         \A c \in Clients : Taken(c)' \in Nat /\ Taken(c) \in Nat /\ Taken(c) <= Taken(c)',
         \A c \in Clients : \A i \in 1 .. Len(sent[c]) : sent'[c][i] = sent[c][i],
         \A k \in Keys : Elements(applied[k]) \subseteq Elements(applied'[k]),
         \A k \in Keys : \A v : Known(k, v) => Position(k, v)' = Position(k, v)
  PROVE  AnswerOK(a)'
<1>1. PICK c \in Clients, n \in Nat, k \in Keys : c = a.to.client /\ n = a.to.n /\ k = a.to.key
  BY AnswerParts
<1>2. n \in 1 .. Taken(c) /\ Known(k, a.value)
  BY <1>1 DEF AnswerOK
<1>3. n \in 1 .. Taken(c)'
  BY <1>2
<1>4. SetsBefore(c, n, k)' = SetsBefore(c, n, k)
  BY <1>2, SetsBeforeKept
<1>5. Known(k, a.value)' /\ Position(k, a.value)' = Position(k, a.value)
  BY <1>2 DEF Known
<1>6. ASSUME NEW i \in SetsBefore(c, n, k)
      PROVE  /\ <<c, i>> \in Elements(applied'[k])
             /\ Position(k, <<c, i>>)' <= Position(k, a.value)'
  <2>1. <<c, i>> \in Elements(applied[k]) /\ Position(k, <<c, i>>) <= Position(k, a.value)
    BY <1>1, <1>6 DEF AnswerOK
  <2>2. Position(k, <<c, i>>)' = Position(k, <<c, i>>)
    BY <2>1 DEF Known
  <2> QED BY <1>5, <2>1, <2>2
<1> QED BY <1>1, <1>3, <1>4, <1>5, <1>6 DEF AnswerOK

LEMMA NotOlderKept ==
  ASSUME NEW a \in Response, NEW b \in Response, AnswerOK(a), AnswerOK(b), NotOlder(a, b),
         \A k \in Keys : \A v : Known(k, v) => Position(k, v)' = Position(k, v)
  PROVE  NotOlder(a, b)'
<1>1. ASSUME a.to.key = b.to.key
      PROVE  Position(a.to.key, a.value)' <= Position(a.to.key, b.value)'
  <2>1. PICK k \in Keys : k = a.to.key /\ k = b.to.key
    BY <1>1, AnswerParts
  <2>2. Known(k, a.value) /\ Known(k, b.value)
    BY <2>1 DEF AnswerOK
  <2>3. Position(k, a.value)' = Position(k, a.value) /\ Position(k, b.value)' = Position(k, b.value)
    BY <2>2
  <2>4. Position(k, a.value) <= Position(k, b.value)
    BY <2>1 DEF NotOlder
  <2> QED BY <2>1, <2>3, <2>4
<1> QED BY <1>1 DEF NotOlder

\* What was answered stays right in every step.
LEMMA AnswersKept ==
  ASSUME KvAssumption, Inv, [Next]_vars
  PROVE  /\ \A a \in Response : AnswerOK(a) => AnswerOK(a)'
         /\ \A a, b \in Response : AnswerOK(a) /\ AnswerOK(b) /\ NotOlder(a, b) => NotOlder(a, b)'
<1>0. Types /\ RequestsOK /\ AppliedOK /\ StoreTypes /\ ReqTypes
  BY DEF Inv, Types
<1>1. \A c \in Clients : Taken(c)' \in Nat /\ Taken(c) \in Nat /\ Taken(c) <= Taken(c)'
  <2> TAKE c \in Clients
  <2>1. PICK t \in Nat : t = Taken(c)
    BY <1>0, TakenTyped
  <2>2. CASE OtherStep
    BY <2>1, <2>2, RequestsOther
  <2>3. CASE Collect
    <3>1. PICK d \in Clients, u \in Nat :
            u = Taken(d) /\ Taken(d)' = u + 1 /\ \A e \in Clients : e # d => Taken(e)' = Taken(e)
      BY <2>3, NewTag
    <3> QED BY <2>1, <3>1
  <2> QED BY <2>2, <2>3, Steps
<1>2. \A c \in Clients : \A i \in 1 .. Len(sent[c]) : sent'[c][i] = sent[c][i]
  <2>1. CASE Collect
    BY <2>1, NewTag
  <2> QED BY <2>1, Steps, RequestsOther
<1>3. ASSUME NEW k \in Keys
      PROVE  /\ Elements(applied[k]) \subseteq Elements(applied'[k])
             /\ \A v : Known(k, v) => Position(k, v)' = Position(k, v)
  <2>1. CASE applied'[k] = applied[k]
    <3>1. \A v : Position(k, v)' = Position(k, v)
      BY <2>1 DEF Position
    <3> QED BY <2>1, <3>1
  <2>2. ASSUME NEW x \in Tags, x \notin Elements(applied[k]), applied'[k] = Append(applied[k], x)
        PROVE  /\ Elements(applied[k]) \subseteq Elements(applied'[k])
               /\ \A v : Known(k, v) => Position(k, v)' = Position(k, v)
    <3>1. PICK s \in Seq(Tags) : s = applied[k] /\ Distinct(s)
      BY <1>0 DEF StoreTypes, AppliedOK, KeyOK
    <3>2. Elements(s) \subseteq Elements(Append(s, x))
      BY AppendElements
    <3>3. ASSUME NEW v, Known(k, v) PROVE Position(k, v)' = Position(k, v)
      <4>1. v = <<>> \/ v \in Elements(s)
        BY <3>1, <3>3 DEF Known
      <4>2. Position(k, v) = PositionIn(s, v) /\ Position(k, v)' = PositionIn(Append(s, x), v)
        BY <2>2, <3>1 DEF Position, PositionIn
      <4> QED BY <2>2, <3>1, <4>1, <4>2, PositionKept
    <3> QED BY <2>2, <3>1, <3>2, <3>3
  <2>3. CASE OtherStep
    BY <2>1, <2>3, StoreOther
  <2>4. CASE Collect
    <3>1. PICK c \in Clients, t \in Nat, r \in Request :
             /\ CollectGet(r) \/ CollectSet(r)
             /\ r.client = c /\ r.n = t + 1 /\ r.key \in Keys /\ <<c, t + 1>> \in Tags
             /\ \A q \in Keys : <<c, t + 1>> \notin Elements(applied[q])
      BY <2>4, NewTag
    <3>2. CASE CollectGet(r)
      BY <2>1, <3>2 DEF CollectGet
    <3>3. CASE CollectSet(r)
      <4>1. PICK x \in Tags : x = <<c, t + 1>> /\ x \notin Elements(applied[k])
        BY <3>1
      <4>2. applied' = [applied EXCEPT ![r.key] = Append(applied[r.key], x)]
        BY <3>1, <3>3, <4>1 DEF CollectSet
      <4>3. CASE k = r.key
        <5>1. applied'[k] = Append(applied[k], x)
          BY <1>0, <4>2, <4>3 DEF StoreTypes
        <5> QED BY <2>2, <4>1, <5>1
      <4>4. CASE k # r.key
        BY <1>0, <2>1, <4>2, <4>4 DEF StoreTypes
      <4> QED BY <4>3, <4>4
    <3> QED BY <3>1, <3>2, <3>3
  <2> QED BY <2>3, <2>4, Steps
<1>4. ASSUME NEW a \in Response, AnswerOK(a) PROVE AnswerOK(a)'
  BY <1>0, <1>1, <1>2, <1>3, <1>4, AnswerKept
<1>5. ASSUME NEW a \in Response, NEW b \in Response, AnswerOK(a), AnswerOK(b), NotOlder(a, b) PROVE NotOlder(a, b)'
  BY <1>3, <1>5, NotOlderKept
<1> QED BY <1>4, <1>5

\* A new answer sees the sets its client made before, and all that was answered.
LEMMA NewAnswer ==
  ASSUME KvAssumption, Inv, Collect, NEW r \in Request, r = Head(req[cur]), CollectGet(r),
         NEW a \in Response, a = Answered(r)
  PROVE  /\ AnswerOK(a)'
         /\ \A b \in Response : AnswerOK(b)' => NotOlder(b, a)'
<1>0. Types /\ RequestsOK /\ AppliedOK /\ StoreTypes /\ ReqTypes
  BY DEF Inv, Types
<1>1. PICK c \in Clients, t \in Nat : c = cur /\ t = Taken(c)
  BY <1>0, Collected, TakenTyped
<1>2. /\ Taken(c)' = t + 1 /\ UNCHANGED sent
      /\ r = sent[c][t + 1] /\ r.client = c /\ r.n = t + 1
  BY <1>1, RequestsCollect
<1>3. PICK k \in Keys : k = r.key
  BY DEF Request
<1>4. a.to = r /\ a.value = store[k] /\ UNCHANGED <<store, applied>>
  BY <1>0, <1>3, AnswerTyped DEF CollectGet
<1>p. \A v : (Known(k, v)' <=> Known(k, v)) /\ Position(k, v)' = Position(k, v)
  BY <1>4 DEF Known, Position
<1>5. Known(k, a.value)' /\ Position(k, a.value)' = Len(applied[k])
  BY <1>0, <1>4, <1>p, StorePosition
<1>6. ASSUME NEW b \in Response, AnswerOK(b)' PROVE NotOlder(b, a)'
  <2>1. ASSUME b.to.key = k PROVE Position(k, b.value)' <= Position(k, a.value)'
    <3>1. Known(k, b.value)'
      BY <1>6, <2>1 DEF AnswerOK
    <3>2. Position(k, b.value)' \in 0 .. Len(applied[k]) /\ Len(applied[k]) \in Nat
      BY <1>0, <1>p, <3>1, PositionTyped
    <3> QED BY <1>5, <3>2
  <2> QED BY <1>3, <1>4, <2>1 DEF NotOlder
<1>7. ASSUME NEW i \in SetsBefore(c, t + 1, k)'
      PROVE  <<c, i>> \in Elements(applied'[k]) /\ Position(k, <<c, i>>)' <= Position(k, a.value)'
  <2>1. i \in 1 .. t /\ sent[c][i].command = "set" /\ sent[c][i].key = k
    BY <1>2, <1>7 DEF SetsBefore
  <2>2. <<c, i>> \in Elements(applied[k])
    BY <1>0, <1>1, <2>1 DEF AppliedOK, SetsApplied
  <2>3. Known(k, <<c, i>>)
    BY <2>2 DEF Known
  <2>4. Position(k, <<c, i>>)' \in 0 .. Len(applied[k]) /\ Len(applied[k]) \in Nat
    BY <1>0, <1>p, <2>3, PositionTyped
  <2> QED BY <1>4, <1>5, <2>2, <2>4
<1>8. AnswerOK(a)'
  <2>1. a.to.n \in 1 .. Taken(c)' /\ a.to.client = c /\ a.to.key = k /\ a.to.n = t + 1
    BY <1>2, <1>3, <1>4
  <2> QED BY <1>5, <1>7, <2>1 DEF AnswerOK
<1> QED BY <1>6, <1>8

LEMMA AnsweredNext == ASSUME KvAssumption, Inv, [Next]_vars PROVE AnsweredOK'
<1>0. Types /\ RoundTypes /\ AnsweredOK
  BY DEF Inv, Types
<1>1. PICK l \in Seq(Response), n \in Nat : l = log /\ n = Len(l)
  BY <1>0 DEF RoundTypes
<1>2. /\ \A i \in 1 .. n : l[i] \in Response /\ AnswerOK(l[i])
      /\ \A i, j \in 1 .. n : i < j => NotOlder(l[i], l[j])
  BY <1>0, <1>1 DEF AnsweredOK
<1>3. /\ \A i \in 1 .. n : AnswerOK(l[i])'
      /\ \A i, j \in 1 .. n : i < j => NotOlder(l[i], l[j])'
  BY <1>2, AnswersKept
<1>4. CASE log' = log
  BY <1>1, <1>3, <1>4 DEF AnsweredOK
<1>5. ASSUME NEW r \in Request, Collect, r = Head(req[cur]), CollectGet(r) PROVE AnsweredOK'
  <2>1. PICK a \in Response : a = Answered(r)
    BY <1>0, AnswerTyped
  <2>2. AnswerOK(a)' /\ \A i \in 1 .. n : NotOlder(l[i], a)'
    BY <1>0, <1>2, <1>3, <1>5, <2>1, NewAnswer
  <2>3. PICK m \in Seq(Response) : m = Append(l, a) /\ log' = m
    BY <1>1, <1>5, <2>1, AppendProperties DEF CollectGet
  <2>4. Len(m) = n + 1 /\ m[n + 1] = a /\ \A i \in 1 .. n : m[i] = l[i]
    BY <1>1, <2>3
  <2>5. ASSUME NEW i \in 1 .. n + 1 PROVE AnswerOK(m[i])'
    <3>1. i \in 1 .. n \/ i = n + 1
      OBVIOUS
    <3> QED BY <1>3, <2>2, <2>4, <3>1
  <2>6. ASSUME NEW i \in 1 .. n + 1, NEW j \in 1 .. n + 1, i < j PROVE NotOlder(m[i], m[j])'
    <3>1. i \in 1 .. n /\ (j \in 1 .. n \/ j = n + 1)
      BY <2>6
    <3> QED BY <1>3, <2>2, <2>4, <2>6, <3>1
  <2> QED BY <2>3, <2>4, <2>5, <2>6 DEF AnsweredOK
<1>6. CASE OtherStep
  BY <1>4, <1>6, StoreOther
<1>7. CASE Collect
  <2>1. PICK r \in Request : r = Head(req[cur]) /\ (CollectGet(r) \/ CollectSet(r))
    BY <1>0, <1>7, Collected, HeadRequest
  <2> QED BY <1>4, <1>5, <1>7, <2>1 DEF CollectSet
<1> QED BY <1>6, <1>7, Steps

-----------------------------------------------------------------------------
(* The theorems *)

LEMMA InvInit == ASSUME KvAssumption, Init PROVE Inv
BY TypesInit, ListInit, LoopInit, RoundInit, GivenInit, RequestsInit, AppliedInit, AnsweredInit DEF Inv

LEMMA InvNext == ASSUME KvAssumption, Inv, [Next]_vars PROVE Inv'
BY TypesNext, ListNext, LoopNext, RoundNext, GivenNext, RequestsNext, AppliedNext, AnsweredNext DEF Inv

LEMMA Invariance == Spec => []Inv
BY KvAssumption, InvInit, InvNext, PTL DEF Spec

\* Whatever the clients do and whenever they come and go, no channel holds more than its
\* capacity, and the goroutine of Iter has the list's mutex while it sends.
THEOREM TypeCorrect == Spec => []TypeOK
<1>1. Inv => TypeOK
  BY DEF Inv, Types, ListTypes, ConnTypes, ReqTypes, ResTypes, StoreTypes, RoundTypes, Value, TypeOK
<1> QED BY <1>1, Invariance, PTL

\* The broadcast loop gives every client in the list every answer, once and in the order
\* dispatch computed them, with a gap only where c.res was full: a list that changes
\* between Iter's close and the end of the round does not disturb it.
THEOREM AnswersToAll == Spec => []SameAnswers
<1>1. ASSUME Inv PROVE SameAnswers
  <2>1. ASSUME NEW c \in Clients PROVE GivenTo(c)
    BY <1>1 DEF Inv, GivenOK
  <2>2. \A c \in Clients : dpc = "collect" => Due(c) = Len(log) - Len(round)
    BY DEF Due, Base
  <2> QED BY <2>1, <2>2 DEF GivenTo, Upwards, LastGiven, Entitled, SameAnswers
<1> QED BY <1>1, Invariance, PTL

\* A get sees the sets its own client made before, however many requests wait in the
\* channels, and no answer shows an older value of a key than one before it did.
THEOREM ReadsInOrder == Spec => []ReadsFollowSets
<1>1. ASSUME Inv PROVE ReadsFollowSets
  <2>1. ASSUME NEW i \in 1 .. Len(log) PROVE AnswerOK(log[i])
    BY <1>1 DEF Inv, AnsweredOK
  <2>2. ASSUME NEW i \in 1 .. Len(log), NEW j \in 1 .. Len(log), i < j PROVE NotOlder(log[i], log[j])
    BY <1>1, <2>2 DEF Inv, AnsweredOK
  <2>3. ASSUME NEW k, NEW v, v \in Elements(applied[k]) PROVE \E j \in 1 .. Len(applied[k]) : applied[k][j] = v
    BY <2>3 DEF Elements
  <2> QED BY <2>1, <2>2, <2>3 DEF AnswerOK, NotOlder, ReadsFollowSets
<1> QED BY <1>1, Invariance, PTL
=============================================================================
