-------------------------------- MODULE Lsp --------------------------------
(***************************************************************************)
(* Clients and the server of the Live Sequence Protocol together, over the *)
(* network: the specification and what it has to guarantee.                *)
(***************************************************************************)
EXTENDS LspClient, LspServer

vars == <<endpointVars, clientVars, serverVars>>

EndpointTypeOK ==
  /\ net \subseteq [from: Clients \cup {Server}, to: Clients \cup {Server}, msg: Message]
  /\ sock \in [Clients \cup {Server} -> {"open", "closed"}]
  /\ id \in [Endpoints -> ConnID]
  /\ addr \in [ConnIDs -> Clients \cup {Server}]
  /\ incoming \in [Endpoints -> Seq(Message)]
  /\ tbuffer \in [Endpoints -> SUBSET Message]
  /\ tmsg \in [Endpoints -> Seq(Payload)]
  /\ tsq \in [Endpoints -> Nat]
  /\ rbuffer \in [Endpoints -> SUBSET [seq: Nat, data: Payload, fit: Fit]]
  /\ rsq \in [Endpoints -> Nat]
  /\ epochCount \in [Endpoints -> 0 .. EpochLimit]
  /\ status \in [Endpoints -> Status]
  /\ hpc \in [Endpoints -> HandlerPc]
  /\ ackSeq \in [Endpoints -> Nat]
  /\ written \in [Endpoints -> Seq(Payload)]
  /\ delivered \in [Endpoints -> Seq([data: Payload, fit: Fit])]

\* Every variable of the clients, of the server and of the network has its type:
\* in particular a client's connection ID is -1 or one the server has given out,
\* and nothing but data with a payload is buffered for delivery.
TypeOK == EndpointTypeOK /\ ClientTypeOK /\ ServerTypeOK

\* The fields of an endpoint have the values its constructor gives them; a client
\* uses sequence number 0 for the connect message.
EndpointInit ==
  /\ net = {}
  /\ sock = [h \in Clients \cup {Server} |-> "open"]
  /\ id = [e \in Endpoints |-> IF e \in Clients THEN -1 ELSE e]
  /\ addr = [i \in ConnIDs |-> Server]
  /\ incoming = [e \in Endpoints |-> <<>>]
  /\ tbuffer = [e \in Endpoints |-> {}]
  /\ tmsg = [e \in Endpoints |-> <<>>]
  /\ tsq = [e \in Endpoints |-> 1]
  /\ rbuffer = [e \in Endpoints |-> {}]
  /\ rsq = [e \in Endpoints |-> 1]
  /\ epochCount = [e \in Endpoints |-> 0]
  /\ status = [e \in Endpoints |-> "notClosing"]
  /\ hpc = [e \in Endpoints |-> "off"]
  /\ ackSeq = [e \in Endpoints |-> 0]
  /\ written = [e \in Endpoints |-> <<>>]
  /\ delivered = [e \in Endpoints |-> <<>>]

Init == EndpointInit /\ ClientInit /\ ServerInit

ClientStep(c) == ClientAppStep(c) \/ ClientReceiverStep(c) \/ ClientHandlerStep(c)

ServerStep ==
  \/ ServerAppStep
  \/ ServerReceiverStep
  \/ HandleStep
  \/ \E i \in ConnIDs : ConnStep(i)

Next ==
  \/ \E c \in Clients : ClientStep(c) /\ UNCHANGED serverVars
  \/ ServerStep /\ UNCHANGED clientVars
  \/ LosePacket /\ UNCHANGED <<sock, id, addr, incoming, txVars, rxVars, ctlVars,
                               clientVars, serverVars>>

Spec == Init /\ [][Next]_vars

\* Goroutines keep running, the timers keep ticking, applications that listen
\* keep reading.  No application has to write or to close.
ByClient(A) == A /\ UNCHANGED serverVars

ByServer(A) == A /\ UNCHANGED clientVars

ClientFairness(c) ==
  /\ WF_vars(ByClient(NewClientReturns(c)))
  /\ WF_vars(ByClient(ClientReadData(c)))
  /\ WF_vars(ByClient(ClientCloseSet(c) \/ ClientCloseSocket(c) \/ ClientCloseReturns(c)))
  /\ WF_vars(ByClient(ClientSocketClosed(c)))
  /\ WF_vars(ByClient(ClientHandlerExit(c) \/ ClientShortData(c) \/ ClientData(c)
                       \/ ClientDeliver(c) \/ ClientEndDelivery(c) \/ ClientAck(c)))
  /\ WF_vars(ByClient(ClientEpoch(c) \/ ClientLost(c)))
  /\ SF_vars(ByClient(ClientTransmit(c)))

ConnFairness(i) ==
  /\ WF_vars(ByServer(ConnExit(i) \/ ConnShortData(i) \/ ConnData(i) \/ ConnDeliver(i)
                       \/ ConnEndDelivery(i) \/ ConnAck(i) \/ ConnReport(i)))
  /\ WF_vars(ByServer(ConnEpoch(i) \/ ConnTimeout(i)))
  /\ SF_vars(ByServer(ConnTransmit(i) \/ ConnIdle(i)))

ServerFairness ==
  /\ WF_vars(ByServer(ServerReadData))
  /\ WF_vars(ByServer(ServerReadError))
  /\ WF_vars(ByServer(ServerCloseSocket \/ ServerCloseReturns))
  /\ WF_vars(ByServer(ServerSocketClosed))
  /\ WF_vars(ByServer(HandleDuplicateConnect \/ HandleConnect \/ HandleRoute))
  /\ SF_vars(ByServer(HandleOutgoing))
  /\ SF_vars(ByServer(HandleCls))

\* p is a packet to the server: sent again and again to a receiver that keeps
\* reading, it is received in the end.
FairLoss(p) ==
  (([]<>(p \in net)) /\ ([]<>ServerReceiverReady)) => []<><<ByServer(ServerReceive(p))>>_vars

-----------------------------------------------------------------------------
\* The payloads of what e has been given to Read.
Data(e) == [k \in 1 .. Len(delivered[e]) |-> delivered[e][k].data]

IsPrefixOf(s, t) == Len(s) <= Len(t) /\ \A k \in 1 .. Len(s) : s[k] = t[k]

\* The two ends of every established connection, in both directions.
Links == {<<c, id[c]>> : c \in {d \in Clients : id[d] # -1}}

Pairs == Links \cup {<<l[2], l[1]>> : l \in Links}

\* What one end hands to its application is what the application at the other
\* end wrote, each payload once and in the order of the writes, whatever the
\* network loses, repeats and reorders (the rbuffer/rsq logic of both handlers).
\* An endpoint without a peer delivers nothing.
InOrder ==
  /\ \A p \in Pairs : IsPrefixOf(Data(p[2]), written[p[1]])
  /\ \A e \in Endpoints : (\A p \in Pairs : p[2] # e) => delivered[e] = <<>>

\* A payload shorter than its Size field is never delivered, and neither is a
\* payload that ReadMessage cannot read.
NothingCorrupt ==
  \A e \in Endpoints : \A k \in 1 .. Len(delivered[e]) :
     delivered[e][k].fit # "short" /\ delivered[e][k].data \notin Oversize

\* e has the datum with sequence number n: delivered or buffered.
Has(e, n) == n < rsq[e] \/ \E r \in rbuffer[e] : r.seq = n

\* A sender forgets a message (deletes it from tbuffer) only when the receiver
\* has it, delivered or buffered.
AckedReceived ==
  \A p \in Pairs : \A n \in 1 .. (tsq[p[1]] - 1) :
     (\A m \in tbuffer[p[1]] : m.seq # n) => Has(p[2], n)

\* The sliding window, at the sender: less than WindowSize messages follow the
\* oldest unacknowledged one, so tbuffer never outgrows the window.
WindowBound ==
  \A e \in Endpoints : \A m \in tbuffer[e] : m.seq < tsq[e] /\ tsq[e] - m.seq <= WindowSize

\* The sliding window, at the receiver: nothing beyond the window of the next
\* expected sequence number is ever buffered.
ReceiverWindow ==
  \A p \in Pairs : \A r \in rbuffer[p[2]] : r.seq < rsq[p[2]] + WindowSize

\* A handler that ends because of a requested close has seen all it was given to
\* send reach the peer's rmsg channel: nothing is in flight and nothing waits in
\* the peer's buffer.
CloseFlushes ==
  \A p \in Pairs : hpc[p[1]] = "done" =>
     /\ Data(p[2]) = SubSeq(written[p[1]], 1, tsq[p[1]] - 1)
     /\ p[1] \in Clients => Data(p[2]) = written[p[1]]

\* Connection IDs are never shared: an ID names the client whose connect created
\* it, and at most one connection of an address is in the server's map.
OneConnection ==
  /\ \A l \in Links : addr[l[2]] = l[1]
  /\ \A i, j \in clients : addr[i] = addr[j] => i = j

\* A closing server that has returned from handle leaves no handleClient behind,
\* if CloseConn has not been called.
CloseWaits ==
  shandle = "dead" => \A i \in ConnIDs : hpc[i] \notin {"loop", "deliver"}

-----------------------------------------------------------------------------
\* The two streams of a client's connection.
Streams == Clients \X {"up", "down"}

Writer(s) == IF s[2] = "up" THEN s[1] ELSE id[s[1]]

Reader(s) == IF s[2] = "up" THEN id[s[1]] ELSE s[1]

streamSent     == [s \in Streams |-> IF Writer(s) = -1 THEN <<>> ELSE written[Writer(s)]]
streamReceived == [s \in Streams |-> IF Reader(s) = -1 THEN <<>> ELSE Data(Reader(s))]
streamFinished == [s \in Streams |-> Writer(s) # -1 /\ hpc[Writer(s)] = "done"]

Stream == INSTANCE LspStream
            WITH sent <- streamSent, received <- streamReceived, finished <- streamFinished

\* The system implements reliable ordered streams.
StreamSpec == Stream!Spec
=============================================================================
