-------------------------- MODULE LspWindowProofs --------------------------
(***************************************************************************)
(* The sliding window: the sender never overruns it, an acknowledgement    *)
(* tells the truth, and so the receiver's buffer is bounded by it too.     *)
(***************************************************************************)
EXTENDS LspDataProofs

\* WindowBound is inductive but for NewClient, which puts the connect message
\* (number 0) into tbuffer: it relies on the client not having sent anything.
Fresh == \A c \in Clients : capp[c] = "new" => tsq[c] = 1

WindowInv == WindowBound /\ Fresh

-----------------------------------------------------------------------------
\* Nothing is sent, and messages may be forgotten.
LEMMA NothingSent ==
  ASSUME WindowInv, UNCHANGED tsq,
         \A e \in Endpoints : tbuffer'[e] \subseteq tbuffer[e],
         \A c \in Clients : capp'[c] = "new" => capp[c] = "new"
  PROVE  WindowInv'
<1>1. WindowBound'
  BY DEF WindowInv, WindowBound
<1>2. Fresh'
  BY DEF WindowInv, Fresh
<1> QED BY <1>1, <1>2 DEF WindowInv

\* An open window has room for one more message.
LEMMA TransmitWindow ==
  ASSUME EndpointAssumption, TypeInv, ConnInv, WindowInv, UNCHANGED capp,
         NEW e \in Endpoints, Transmit(e)
  PROVE  WindowInv'
<1>1. PICK n, x : n = tsq[e] /\ x = NewData(id[e], n, Head(tmsg[e]))
  OBVIOUS
<1>2. /\ tbuffer' = [tbuffer EXCEPT ![e] = @ \cup {x}]
      /\ tsq' = [tsq EXCEPT ![e] = @ + 1]
      /\ hpc[e] = "loop"
      /\ WindowOpen(e)
  BY <1>1 DEF Transmit, CanTransmit, AtSelect
<1>3. tsq \in [Endpoints -> Nat] /\ tbuffer \in [Endpoints -> SUBSET Message]
  BY DEF TypeInv, TypeOK, EndpointTypeOK
<1>4. n \in Nat /\ tsq'[e] = n + 1 /\ tbuffer'[e] = tbuffer[e] \cup {x}
  BY <1>1, <1>2, <1>3
<1>5. x.seq = n
  BY <1>1 DEF NewData
<1>6. WindowSize \in Nat /\ WindowSize >= 1
  BY DEF EndpointAssumption
<1>7. ASSUME NEW d \in Endpoints, NEW m \in tbuffer'[d]
      PROVE  m.seq < tsq'[d] /\ tsq'[d] - m.seq <= WindowSize
  <2>1. CASE d # e
    <3>1. tbuffer'[d] = tbuffer[d] /\ tsq'[d] = tsq[d]
      BY <1>2, <1>3, <2>1
    <3> QED BY <1>7, <3>1 DEF WindowInv, WindowBound
  <2>2. CASE d = e /\ m = x
    <3>1. m.seq = n /\ tsq'[d] = n + 1
      BY <1>4, <1>5, <2>2
    <3> QED BY <1>4, <1>6, <3>1
  <2>3. CASE d = e /\ m \in tbuffer[e]
    <3>1. m.seq < n
      BY <1>1, <2>3 DEF WindowInv, WindowBound
    <3>2. n - m.seq < WindowSize
      BY <1>1, <1>2, <2>3 DEF WindowOpen
    <3>3. m.seq \in Nat /\ tsq'[d] = n + 1
      BY <1>3, <1>4, <2>3, MessageFields
    <3> QED BY <1>4, <1>6, <3>1, <3>2, <3>3
  <2> QED BY <1>4, <1>7, <2>1, <2>2, <2>3
<1>8. Fresh'
  <2>1. ASSUME NEW c \in Clients, capp[c] = "new" PROVE tsq'[c] = 1
    <3>1. c # e /\ c \in Endpoints
      BY <1>2, <2>1 DEF ConnInv, AppOK, Endpoints
    <3>2. tsq'[c] = tsq[c]
      BY <1>2, <1>3, <3>1
    <3> QED BY <2>1, <3>2 DEF WindowInv, Fresh
  <2> QED BY <2>1 DEF Fresh
<1> QED BY <1>7, <1>8 DEF WindowInv, WindowBound

\* An acknowledgement only removes messages.
LEMMA AckWindow ==
  ASSUME TypeInv, WindowInv, UNCHANGED capp, NEW e \in Endpoints, HandleAck(e)
  PROVE  WindowInv'
<1>1. UNCHANGED tsq
  BY DEF HandleAck
<1>2. PICK n : n = Head(incoming[e]).seq
  OBVIOUS
<1>3. tbuffer' = [tbuffer EXCEPT ![e] = {m \in @ : m.seq # n}]
  BY <1>2 DEF HandleAck
<1>4. \A d \in Endpoints : tbuffer'[d] \subseteq tbuffer[d]
  BY <1>3 DEF TypeInv, TypeOK, EndpointTypeOK
<1> QED BY <1>1, <1>4, NothingSent

\* The connect message is the oldest of the window's first messages.
LEMMA NewClientWindow ==
  ASSUME EndpointAssumption, TypeInv, WindowInv, NEW c \in Clients, NewClient(c)
  PROVE  WindowInv'
<1>1. /\ capp[c] = "new"
      /\ capp' = [capp EXCEPT ![c] = "connecting"]
      /\ tbuffer' = [tbuffer EXCEPT ![c] = {NewConnect}]
      /\ UNCHANGED tsq
  BY DEF NewClient
<1>2. capp \in [Clients -> ClientApp] /\ tbuffer \in [Endpoints -> SUBSET Message] /\ c \in Endpoints
  BY DEF TypeInv, TypeOK, EndpointTypeOK, ClientTypeOK, Endpoints
<1>3. tsq'[c] = 1
  BY <1>1 DEF WindowInv, Fresh
<1>4. NewConnect.seq = 0
  BY DEF NewConnect
<1>5. ASSUME NEW d \in Endpoints, NEW m \in tbuffer'[d]
      PROVE  m.seq < tsq'[d] /\ tsq'[d] - m.seq <= WindowSize
  <2>1. CASE d = c
    <3>1. m.seq = 0 /\ tsq'[d] = 1
      BY <1>1, <1>2, <1>3, <1>4, <1>5, <2>1
    <3> QED BY <3>1 DEF EndpointAssumption
  <2>2. CASE d # c
    <3>1. tbuffer'[d] = tbuffer[d] /\ tsq'[d] = tsq[d]
      BY <1>1, <1>2, <2>2
    <3> QED BY <1>5, <3>1 DEF WindowInv, WindowBound
  <2> QED BY <2>1, <2>2
<1>6. Fresh'
  BY <1>1, <1>2 DEF WindowInv, Fresh
<1> QED BY <1>5, <1>6 DEF WindowInv, WindowBound

-----------------------------------------------------------------------------
\* Every other step leaves tbuffer and tsq alone.
LEMMA ClientWindow ==
  ASSUME EndpointAssumption, TypeInv, ConnInv, WindowInv, NEW c \in Clients, ClientStep(c)
  PROVE  WindowInv'
<1>0. c \in Endpoints
  BY DEF Endpoints
<1>1. CASE NewClient(c)
  BY <1>1, NewClientWindow
<1>2. CASE NewClientReturns(c) \/ ClientCloseGet(c) \/ ClientCloseSet(c) \/ ClientCloseReturns(c)
  <2>1. UNCHANGED <<tbuffer, tsq>>
    BY <1>2 DEF NewClientReturns, ClientCloseGet, ClientCloseSet, ClientCloseReturns,
                endpointVars, txVars
  <2>2. \E s \in ClientApp \ {"new"} : capp' = [capp EXCEPT ![c] = s]
    BY <1>2 DEF NewClientReturns, ClientCloseGet, ClientCloseSet, ClientCloseReturns, ClientApp
  <2>3. \A d \in Clients : capp'[d] = "new" => capp[d] = "new"
    BY <2>2 DEF TypeInv, TypeOK, ClientTypeOK
  <2> QED BY <2>1, <2>3, NothingSent
<1>3. CASE \/ ClientReadData(c) \/ ClientReadError(c) \/ ClientCloseSocket(c)
           \/ \E p \in Payload : ClientWrite(c, p)
  <2>1. UNCHANGED <<tbuffer, tsq, capp>>
    BY <1>3 DEF ClientReadData, ClientReadError, ClientCloseSocket, ClientWrite,
                endpointVars, txVars, clientVars
  <2> QED BY <2>1, NothingSent
<1>4. CASE ClientReceiverStep(c)
  <2>1. UNCHANGED <<tbuffer, tsq, capp>>
    BY <1>4 DEF ClientReceiverStep, ClientReceive, ClientSocketClosed, ClientOversize,
                ClientRefused, ReceiverError, txVars, clientVars
  <2> QED BY <2>1, NothingSent
<1>5. CASE ClientHandlerExit(c) \/ ClientShortData(c) \/ ClientData(c) \/ ClientDeliver(c)
           \/ ClientEndDelivery(c) \/ ClientEpoch(c) \/ ClientLost(c)
  <2>1. UNCHANGED <<tbuffer, tsq, capp>>
    BY <1>5 DEF ClientHandlerExit, ClientShortData, ClientData, ClientDeliver, ClientEndDelivery,
                ClientEpoch, ClientLost, HandleShortData, HandleData, DeliverNext, EndDelivery,
                Epoch, txVars, clientVars
  <2> QED BY <2>1, NothingSent
<1>6. CASE ClientAck(c)
  <2>1. HandleAck(c) /\ UNCHANGED capp
    BY <1>6 DEF ClientAck, clientVars
  <2> QED BY <1>0, <2>1, AckWindow
<1>7. CASE ClientTransmit(c)
  <2>1. Transmit(c) /\ UNCHANGED capp
    BY <1>7 DEF ClientTransmit, clientVars
  <2> QED BY <1>0, <2>1, TransmitWindow
<1> QED
  BY <1>1, <1>2, <1>3, <1>4, <1>5, <1>6, <1>7
     DEF ClientStep, ClientAppStep, ClientHandlerStep

LEMMA ServerWindow ==
  ASSUME EndpointAssumption, TypeInv, ConnInv, WindowInv, ServerStep, UNCHANGED clientVars
  PROVE  WindowInv'
<1>0. UNCHANGED capp
  BY DEF clientVars
<1>1. CASE ServerAppStep
  <2>1. UNCHANGED <<tbuffer, tsq>>
    BY <1>1 DEF ServerAppStep, ServerReadData, ServerReadError, ServerWrite, CloseConn, ServerClose,
                ServerCloseSocket, ServerCloseReturns, endpointVars, txVars
  <2> QED BY <1>0, <2>1, NothingSent
<1>2. CASE ServerReceiverStep
  <2>1. UNCHANGED <<tbuffer, tsq>>
    BY <1>2 DEF ServerReceiverStep, ServerReceive, ServerSocketClosed, endpointVars, txVars
  <2> QED BY <1>0, <2>1, NothingSent
<1>3. CASE HandleStep
  <2>1. UNCHANGED <<tbuffer, tsq>>
    BY <1>3 DEF HandleStep, HandleDuplicateConnect, HandleConnect, HandleRoute, HandleOutgoing,
                HandleCls, endpointVars, txVars
  <2> QED BY <1>0, <2>1, NothingSent
<1>4. ASSUME NEW i \in ConnIDs, ConnStep(i) PROVE WindowInv'
  <2>0. i \in Endpoints
    BY DEF Endpoints
  <2>1. CASE ConnAck(i)
    <3>1. HandleAck(i)
      BY <2>1 DEF ConnAck
    <3> QED BY <1>0, <2>0, <3>1, AckWindow
  <2>2. CASE ConnTransmit(i)
    <3>1. Transmit(i)
      BY <2>2 DEF ConnTransmit
    <3> QED BY <1>0, <2>0, <3>1, TransmitWindow
  <2>3. CASE ConnExit(i) \/ ConnShortData(i) \/ ConnData(i) \/ ConnDeliver(i) \/ ConnEndDelivery(i)
             \/ ConnEpoch(i) \/ ConnTimeout(i) \/ ConnReport(i) \/ ConnIdle(i)
    <3>1. UNCHANGED <<tbuffer, tsq>>
      BY <2>3 DEF ConnExit, ConnShortData, ConnData, ConnDeliver, ConnEndDelivery, ConnEpoch,
                  ConnTimeout, ConnReport, ConnIdle, HandleShortData, HandleData, DeliverNext,
                  EndDelivery, Epoch, txVars
    <3> QED BY <1>0, <3>1, NothingSent
  <2> QED BY <1>4, <2>1, <2>2, <2>3 DEF ConnStep
<1> QED BY <1>1, <1>2, <1>3, <1>4 DEF ServerStep

-----------------------------------------------------------------------------
LEMMA WindowInit == ASSUME Init PROVE WindowInv
<1>1. /\ tbuffer = [e \in Endpoints |-> {}]
      /\ tsq = [e \in Endpoints |-> 1]
  BY DEF Init, EndpointInit
<1>2. WindowBound
  BY <1>1 DEF WindowBound
<1>3. Fresh
  BY <1>1 DEF Fresh, Endpoints
<1> QED BY <1>2, <1>3 DEF WindowInv

LEMMA WindowNext ==
  ASSUME EndpointAssumption, TypeInv, ConnInv, WindowInv, [Next]_vars PROVE WindowInv'
<1>1. ASSUME NEW c \in Clients, ClientStep(c) PROVE WindowInv'
  BY <1>1, ClientWindow
<1>2. CASE ServerStep /\ UNCHANGED clientVars
  BY <1>2, ServerWindow
<1>3. CASE LosePacket /\ UNCHANGED <<sock, id, addr, incoming, txVars, rxVars, ctlVars,
                                     clientVars, serverVars>>
  <2>1. UNCHANGED <<tbuffer, tsq, capp>>
    BY <1>3 DEF txVars, clientVars
  <2> QED BY <2>1, NothingSent
<1>4. CASE UNCHANGED vars
  <2>1. UNCHANGED <<tbuffer, tsq, capp>>
    BY <1>4 DEF vars, endpointVars, txVars, clientVars
  <2> QED BY <2>1, NothingSent
<1> QED BY <1>1, <1>2, <1>3, <1>4 DEF Next

\* The sliding window holds for every WindowSize: each unacknowledged message, the
\* connect message of a client included, has been numbered and is at most a window
\* behind the next number (minUnAcked in client.handler and clientInfo.handleClient).
THEOREM WindowKept == Spec => []WindowBound
<1>1. Init => TypeInv /\ ConnInv /\ WindowInv
  BY TypeInit, ConnInit, WindowInit, EndpointAssumption
<1>2. TypeInv /\ ConnInv /\ WindowInv /\ [Next]_vars => (TypeInv /\ ConnInv /\ WindowInv)'
  BY TypeNext, ConnNext, WindowNext, EndpointAssumption
<1>3. WindowInv => WindowBound
  BY DEF WindowInv
<1> QED BY <1>1, <1>2, <1>3, PTL DEF Spec

-----------------------------------------------------------------------------
\* Nothing is sent on half a connection.
LEMMA UnlinkedSilent ==
  ASSUME TypeInv, DataInv, NEW e \in Endpoints, ~Linked(e)
  PROVE  tsq[e] = 1
<1>1. Unsent(e)
  BY DEF DataInv, TmsgOK
<1>2. written[e] = <<>> /\ tsq[e] >= 1 /\ Len(written[e]) = tsq[e] - 1 + Len(tmsg[e])
  BY <1>1 DEF Unsent
<1>3. tsq[e] \in Nat /\ tmsg[e] \in Seq(Payload)
  BY DEF TypeInv, TypeOK, EndpointTypeOK
<1>4. Len(written[e]) = 0 /\ Len(tmsg[e]) \in Nat
  BY <1>2, <1>3
<1> QED BY <1>2, <1>3, <1>4

\* An acknowledgement stays true as long as no endpoint takes back what it has.
AcksKept ==
  /\ Growing
  /\ \A e \in Endpoints : \A n \in Nat : n # 0 /\ Acked(e, n) => Acked(e, n)'

LEMMA ReachedStable ==
  ASSUME EndpointAssumption, TypeInv, ConnInv, AcksKept, NEW e \in Endpoints, NEW n \in Nat, n # 0,
         Reached(e, n)
  PROVE  Reached(e, n)'
<1>1. PICK q \in Endpoints : q = Peer(e) /\ Linked(e) /\ Acked(q, n)
  BY PeerPeer DEF Reached
<1>2. Linked(e)' /\ Peer(e)' = q
  BY <1>1, LinkedStable DEF AcksKept
<1>3. Acked(q, n)'
  BY <1>1 DEF AcksKept
<1>4. Acked(Peer(e), n)'
  BY <1>2, <1>3 DEF Acked, Has
<1> QED BY <1>2, <1>4 DEF Reached

LEMMA SincomingType ==
  ASSUME TypeInv
  PROVE  \A a \in Elems(sincoming) : a.from \in Clients \cup {Server} /\ a.msg \in Message
<1> DEFINE SIn == [from: Clients \cup {Server}, msg: Message]
<1>1. sincoming \in Seq(SIn)
  BY DEF TypeInv, TypeOK, ServerTypeOK
<1>2. \A a \in SIn : a.from \in Clients \cup {Server} /\ a.msg \in Message
  OBVIOUS
<1> HIDE DEF SIn
<1> QED BY <1>1, <1>2, ElemsType

LEMMA IncomingType ==
  ASSUME TypeInv, NEW e \in Endpoints
  PROVE  \A m \in Elems(incoming[e]) : m \in Message
<1>1. incoming[e] \in Seq(Message)
  BY DEF TypeInv, TypeOK, EndpointTypeOK
<1> QED BY <1>1, ElemsType

\* Where acknowledgements are kept, they stay true when the new ones are true.
LEMMA AckKeep ==
  ASSUME EndpointAssumption, TypeInv, ConnInv, DataInv, AckInv, AcksKept,
         \A p \in net' : p \in net \/ AckPacket(p)',
         \A a \in Elems(sincoming') : a \in Elems(sincoming) \/
            (a.msg.type = "Ack" /\ a.msg.seq # 0 =>
               a.msg.conn \in ConnIDs /\ Reached(a.msg.conn, a.msg.seq)'),
         \A e \in Endpoints : \A m \in Elems(incoming'[e]) : m \in Elems(incoming[e]) \/
            (m.type = "Ack" /\ m.seq # 0 => Reached(e, m.seq)')
  PROVE  NetAcks' /\ SincomingAcks' /\ IncomingAcks'
<1>e. Clients \subseteq Endpoints /\ ConnIDs \subseteq Endpoints
  BY DEF Endpoints
<1>1. NetAcks'
  <2> SUFFICES ASSUME NEW p \in net', p \in net PROVE AckPacket(p)'
    BY DEF NetAcks
  <2>1. AckPacket(p) /\ p.to \in Clients \cup {Server} /\ p.msg \in Message
    BY DEF AckInv, NetAcks, TypeInv, TypeOK, EndpointTypeOK
  <2>2. p.msg.seq \in Nat
    BY <2>1, MessageFields
  <2>3. CASE p.msg.type = "Ack" /\ p.msg.seq # 0 /\ p.to = Server
    <3>1. p.msg.conn \in ConnIDs /\ Reached(p.msg.conn, p.msg.seq)
      BY <2>1, <2>3 DEF AckPacket
    <3>2. Reached(p.msg.conn, p.msg.seq)'
      BY <1>e, <2>2, <2>3, <3>1, ReachedStable
    <3> QED BY <2>3, <3>1, <3>2 DEF AckPacket
  <2>4. CASE p.msg.type = "Ack" /\ p.msg.seq # 0 /\ p.to # Server
    <3>1. p.to \in Endpoints /\ Reached(p.to, p.msg.seq)
      BY <1>e, <2>1, <2>4 DEF AckPacket
    <3>2. Reached(p.to, p.msg.seq)'
      BY <2>2, <2>4, <3>1, ReachedStable
    <3> QED BY <2>4, <3>2 DEF AckPacket
  <2>5. CASE p.msg.type # "Ack" \/ p.msg.seq = 0
    BY <2>5 DEF AckPacket
  <2> QED BY <2>3, <2>4, <2>5
<1>2. SincomingAcks'
  <2>1. \A a \in Elems(sincoming) : a.msg.seq \in Nat
    BY SincomingType, MessageFields
  <2>2. \A a \in Elems(sincoming) : a.msg.type = "Ack" /\ a.msg.seq # 0 =>
           a.msg.conn \in ConnIDs /\ Reached(a.msg.conn, a.msg.seq)'
    BY <1>e, <2>1, ReachedStable DEF AckInv, SincomingAcks
  <2> QED BY <2>2 DEF SincomingAcks
<1>3. IncomingAcks'
  <2>1. \A e \in Endpoints : \A m \in Elems(incoming[e]) : m.seq \in Nat
    BY IncomingType, MessageFields
  <2>2. \A e \in Endpoints : \A m \in Elems(incoming[e]) :
           m.type = "Ack" /\ m.seq # 0 => Reached(e, m.seq)'
    BY <2>1, ReachedStable DEF AckInv, IncomingAcks
  <2> QED BY <2>2 DEF IncomingAcks
<1> QED BY <1>1, <1>2, <1>3

\* The numbers e has used stay kept or acknowledged.
LEMMA ForgottenKeep ==
  ASSUME EndpointAssumption, TypeInv, ConnInv, DataInv, AckInv, AcksKept, NEW e \in Endpoints,
         tsq'[e] = tsq[e], \A n \in Nat : n # 0 /\ Kept(e, n) => Kept(e, n)' \/ Reached(e, n)'
  PROVE  \A n \in 1 .. (tsq'[e] - 1) : Kept(e, n)' \/ Reached(e, n)'
<1> SUFFICES ASSUME NEW n \in 1 .. (tsq[e] - 1) PROVE Kept(e, n)' \/ Reached(e, n)'
  OBVIOUS
<1>1. n \in Nat /\ n # 0
  BY DEF TypeInv, TypeOK, EndpointTypeOK
<1>2. Kept(e, n) \/ Reached(e, n)
  BY DEF AckInv, ForgottenAcks
<1> QED BY <1>1, <1>2, ReachedStable

-----------------------------------------------------------------------------
\* The receiving side: the sender's state does not change.
LEMMA ReceiverKeep ==
  ASSUME EndpointAssumption, TypeInv, ConnInv, DataInv, AckInv,
         UNCHANGED <<id, addr, written, tsq, tbuffer, sincoming>>,
         \A e \in Endpoints : Elems(incoming'[e]) \subseteq Elems(incoming[e]),
         \A e \in Endpoints : \A n \in Nat : n # 0 /\ Acked(e, n) => Acked(e, n)',
         \A p \in net' : p \in net \/ AckPacket(p)',
         DeliveryOK'
  PROVE  AckInv'
<1>1. Growing
  BY SameGrows
<1>2. AcksKept
  BY <1>1 DEF AcksKept
<1>3. NetAcks' /\ SincomingAcks' /\ IncomingAcks'
  BY <1>2, AckKeep
<1>4. \A e, n : Kept(e, n) => Kept(e, n)'
  BY DEF Kept
<1>5. \A e \in Endpoints : \A n \in 1 .. (tsq'[e] - 1) : Kept(e, n)' \/ Reached(e, n)'
  BY <1>2, <1>4, ForgottenKeep
<1> QED BY <1>3, <1>5 DEF AckInv, ForgottenAcks, NoAckKept

\* What a connected endpoint acknowledges, its peer may forget.
LEMMA AckOut ==
  ASSUME EndpointAssumption, TypeInv, ConnInv, UNCHANGED <<id, addr>>, NEW e \in Endpoints, Linked(e),
         NEW n, Acked(e, n)', NEW p, p = Outbound(e, NewAck(id[e], n))
  PROVE  AckPacket(p)'
<1>1. p.msg.seq = n /\ p.msg.conn = id[e] /\ p.to = IF e \in Clients THEN Server ELSE addr[e]
  BY DEF Outbound, NewAck
<1>2. PICK q \in Endpoints : q = Peer(e) /\ Linked(q) /\ Peer(q) = e
  BY PeerPeer
<1>3. Linked(q)' /\ Peer(q)' = e
  BY <1>2 DEF Linked, Peer
<1>4. Acked(Peer(q), n)'
  BY <1>3 DEF Acked, Has
<1>5. Reached(q, n)'
  BY <1>3, <1>4 DEF Reached
<1>6. CASE e \in Clients
  <2>1. q = p.msg.conn /\ p.msg.conn \in ConnIDs
    BY <1>1, <1>2, <1>6 DEF Peer, Linked, TypeInv, TypeOK, EndpointTypeOK, ConnID
  <2> QED BY <1>1, <1>5, <1>6, <2>1 DEF AckPacket
<1>7. CASE e \notin Clients
  <2>1. q = addr[e] /\ addr[e] # Server
    BY <1>2, <1>7, Kinds DEF Peer, Linked
  <2> QED BY <1>1, <1>5, <1>7, <2>1 DEF AckPacket
<1> QED BY <1>6, <1>7

LEMMA SendsAck ==
  ASSUME EndpointAssumption, TypeInv, ConnInv, UNCHANGED <<id, addr>>, NEW e \in Endpoints, Linked(e),
         NEW n, Acked(e, n)', WriteMessages(e, {NewAck(id[e], n)})
  PROVE  \A p \in net' : p \in net \/ AckPacket(p)'
<1>1. \A p \in net' : p \in net \/ p = Outbound(e, NewAck(id[e], n))
  BY DEF WriteMessages
<1> QED BY <1>1, AckOut

\* A datum is stored; it is acknowledged at once unless it starts the delivery loop.
LEMMA HandleDataAck ==
  ASSUME EndpointAssumption, TypeInv, ConnInv, DataInv, AckInv, NEW e \in Endpoints, HandleData(e),
         UNCHANGED sincoming
  PROVE  AckInv'
<1>t. EndpointTypeOK
  BY DEF TypeInv, TypeOK
<1>0. PICK m : m = Head(incoming[e])
  OBVIOUS
<1>1. /\ UNCHANGED <<id, addr, written, tsq, tbuffer, rsq>>
      /\ Dequeue(e, "Data") /\ hpc[e] = "loop"
  BY DEF HandleData, txVars, Dequeue, AtSelect
<1>2. /\ \A d \in Endpoints : Elems(incoming'[d]) \subseteq Elems(incoming[d])
      /\ m \in Elems(incoming[e]) /\ m.type = "Data" /\ m \in Message
  BY <1>0, <1>1, <1>t, DequeueElems DEF Dequeue
<1>3. Sound(e, m.seq, m.data)
  BY <1>2 DEF DataInv, IncomingOK
<1>4. Linked(e) /\ m.seq \in Nat /\ m.seq # 0
  BY <1>2, <1>3, MessageFields DEF Sound, Sent
<1> DEFINE r1 == [seq |-> m.seq, data |-> m.data, fit |-> m.fit]
<1>5. /\ rbuffer' = [rbuffer EXCEPT ![e] = IF \E r \in @ : r.seq = m.seq THEN @ ELSE @ \cup {r1}]
      /\ IF m.seq = rsq[e]
         THEN /\ hpc' = [hpc EXCEPT ![e] = "deliver"]
              /\ ackSeq' = [ackSeq EXCEPT ![e] = m.seq]
              /\ UNCHANGED net
         ELSE /\ WriteMessages(e, {NewAck(id[e], m.seq)})
              /\ UNCHANGED <<hpc, ackSeq>>
  BY <1>0 DEF HandleData, SaveData
<1>6. r1.seq = m.seq
  OBVIOUS
<1> HIDE DEF r1
<1>7. /\ \A d \in Endpoints : d # e => rbuffer'[d] = rbuffer[d] /\ hpc'[d] = hpc[d] /\ ackSeq'[d] = ackSeq[d]
      /\ rbuffer'[e] = rbuffer[e] \/ rbuffer'[e] = rbuffer[e] \cup {r1}
      /\ \E r \in rbuffer'[e] : r.seq = m.seq
      /\ IF m.seq = rsq[e] THEN hpc'[e] = "deliver" /\ ackSeq'[e] = m.seq ELSE hpc'[e] = "loop"
  BY <1>1, <1>5, <1>6, <1>t DEF EndpointTypeOK
<1>8. \A r \in rbuffer[e] : r.seq # rsq[e]
  BY <1>1 DEF AckInv, DeliveryOK
<1>9. rsq[e] \in Nat
  BY <1>t DEF EndpointTypeOK
<1>10. \A d \in Endpoints : \A n \in Nat : n # 0 /\ Acked(d, n) => Acked(d, n)'
  <2> SUFFICES ASSUME NEW d \in Endpoints, NEW n \in Nat, Acked(d, n) PROVE Acked(d, n)'
    OBVIOUS
  <2>1. CASE d # e
    BY <1>1, <1>7, <2>1 DEF Acked, Has
  <2>2. CASE d = e
    <3>1. Has(e, n)'
      BY <1>1, <1>7, <2>2 DEF Acked, Has
    <3>2. n # rsq[e]
      BY <1>8, <1>9, <2>2 DEF Acked, Has
    <3> QED BY <1>7, <2>2, <3>1, <3>2 DEF Acked
  <2> QED BY <2>1, <2>2
<1>11. DeliveryOK'
  <2>1. ASSUME NEW d \in Endpoints, d # e
        PROVE  IF hpc'[d] = "deliver" THEN ackSeq'[d] \in 1 .. rsq'[d] /\ Has(d, ackSeq[d])'
                                      ELSE \A r \in rbuffer'[d] : r.seq # rsq'[d]
    BY <1>1, <1>7, <2>1 DEF AckInv, DeliveryOK, Has
  <2>2. IF hpc'[e] = "deliver" THEN ackSeq'[e] \in 1 .. rsq'[e] /\ Has(e, ackSeq[e])'
                               ELSE \A r \in rbuffer'[e] : r.seq # rsq'[e]
    BY <1>1, <1>4, <1>6, <1>7, <1>8, <1>9 DEF Has
  <2> QED BY <2>1, <2>2 DEF DeliveryOK
<1>12. \A p \in net' : p \in net \/ AckPacket(p)'
  <2>1. CASE m.seq = rsq[e]
    BY <1>5, <2>1
  <2>2. CASE m.seq # rsq[e]
    <3>1. Acked(e, m.seq)'
      BY <1>7, <2>2 DEF Acked, Has
    <3> QED BY <1>1, <1>4, <1>5, <2>2, <3>1, SendsAck
  <2> QED BY <2>1, <2>2
<1> QED BY <1>1, <1>2, <1>10, <1>11, <1>12, ReceiverKeep

\* A delivered datum is still one that e has.
LEMMA DeliverAck ==
  ASSUME EndpointAssumption, TypeInv, ConnInv, DataInv, AckInv, NEW e \in Endpoints,
         NEW r \in rbuffer[e], DeliverNext(e, r), UNCHANGED sincoming
  PROVE  AckInv'
<1>t. EndpointTypeOK
  BY DEF TypeInv, TypeOK
<1>1. /\ UNCHANGED <<id, addr, written, tsq, tbuffer, net, incoming, hpc, ackSeq>>
      /\ rbuffer' = [rbuffer EXCEPT ![e] = {q \in @ : q.seq # r.seq}]
      /\ rsq' = [rsq EXCEPT ![e] = @ + 1]
      /\ r.seq = rsq[e] /\ hpc[e] = "deliver"
  BY DEF DeliverNext, txVars, ctlVars
<1>2. /\ rsq[e] \in Nat /\ rsq'[e] = rsq[e] + 1
      /\ \A q \in rbuffer[e] : q.seq = rsq[e] \/ q \in rbuffer'[e]
      /\ \A d \in Endpoints : d # e => rsq'[d] = rsq[d] /\ rbuffer'[d] = rbuffer[d]
  BY <1>1, <1>t DEF EndpointTypeOK
<1>3. \A d \in Endpoints : \A n \in Nat : Has(d, n) => Has(d, n)'
  <2> SUFFICES ASSUME NEW d \in Endpoints, NEW n \in Nat, Has(d, n) PROVE Has(d, n)'
    OBVIOUS
  <2>1. CASE d # e
    BY <1>2, <2>1 DEF Has
  <2>2. CASE d = e
    BY <1>2, <2>2 DEF Has
  <2> QED BY <2>1, <2>2
<1>4. \A d \in Endpoints : \A n \in Nat : n # 0 /\ Acked(d, n) => Acked(d, n)'
  BY <1>1, <1>3 DEF Acked
<1>5. DeliveryOK'
  <2>1. ASSUME NEW d \in Endpoints, d # e
        PROVE  IF hpc'[d] = "deliver" THEN ackSeq'[d] \in 1 .. rsq'[d] /\ Has(d, ackSeq[d])'
                                      ELSE \A q \in rbuffer'[d] : q.seq # rsq'[d]
    BY <1>1, <1>2, <2>1 DEF AckInv, DeliveryOK, Has
  <2>2. ackSeq[e] \in 1 .. rsq[e] /\ Has(e, ackSeq[e]) /\ ackSeq[e] \in Nat /\ rsq[e] \in Nat
    BY <1>1, <1>t DEF AckInv, DeliveryOK, EndpointTypeOK
  <2>3. hpc'[e] = "deliver" /\ ackSeq'[e] \in 1 .. rsq'[e] /\ Has(e, ackSeq[e])'
    BY <1>1, <1>2, <1>3, <2>2 DEF Has
  <2> QED BY <2>1, <2>3 DEF DeliveryOK
<1> QED BY <1>1, <1>4, <1>5, ReceiverKeep

\* At the end of the loop the datum that started it is acknowledged.
LEMMA EndDeliveryAck ==
  ASSUME EndpointAssumption, TypeInv, ConnInv, DataInv, AckInv, NEW e \in Endpoints, EndDelivery(e),
         UNCHANGED sincoming
  PROVE  AckInv'
<1>t. EndpointTypeOK
  BY DEF TypeInv, TypeOK
<1>1. /\ UNCHANGED <<id, addr, written, tsq, tbuffer, incoming, rbuffer, rsq, ackSeq>>
      /\ hpc[e] = "deliver"
      /\ \A r \in rbuffer[e] : r.seq # rsq[e]
      /\ hpc' = [hpc EXCEPT ![e] = "loop"]
      /\ WriteMessages(e, {NewAck(id[e], ackSeq[e])})
  BY DEF EndDelivery, txVars, rxVars
<1>2. hpc'[e] = "loop" /\ \A d \in Endpoints : d # e => hpc'[d] = hpc[d]
  BY <1>1, <1>t DEF EndpointTypeOK
<1>3. ackSeq[e] \in 1 .. rsq[e] /\ Has(e, ackSeq[e]) /\ ackSeq[e] \in Nat /\ rsq[e] \in Nat
  BY <1>1, <1>t DEF AckInv, DeliveryOK, EndpointTypeOK
<1>4. \A d \in Endpoints : \A n \in Nat : n # 0 /\ Acked(d, n) => Acked(d, n)'
  BY <1>1, <1>2 DEF Acked, Has
<1>5. DeliveryOK'
  <2>1. ASSUME NEW d \in Endpoints, d # e
        PROVE  IF hpc'[d] = "deliver" THEN ackSeq'[d] \in 1 .. rsq'[d] /\ Has(d, ackSeq[d])'
                                      ELSE \A q \in rbuffer'[d] : q.seq # rsq'[d]
    BY <1>1, <1>2, <2>1 DEF AckInv, DeliveryOK, Has
  <2>2. hpc'[e] # "deliver" /\ \A q \in rbuffer'[e] : q.seq # rsq'[e]
    BY <1>1, <1>2
  <2> QED BY <2>1, <2>2 DEF DeliveryOK
<1>6. Linked(e)
  <2>1. CASE ackSeq[e] < rsq[e]
    <3>1. Delivered(e)
      BY DEF DataInv, DeliveredOK
    <3>2. ackSeq[e] \in 1 .. Len(delivered[e])
      <4>1. Len(delivered[e]) \in Nat /\ rsq[e] = Len(delivered[e]) + 1
        BY <1>t, <3>1 DEF Delivered, EndpointTypeOK
      <4> QED BY <1>3, <2>1, <4>1
    <3> QED BY <3>1, <3>2 DEF Delivered, Sound
  <2>2. CASE \E r \in rbuffer[e] : r.seq = ackSeq[e]
    BY <2>2 DEF DataInv, RbufferOK, Sound
  <2> QED BY <1>3, <2>1, <2>2 DEF Has
<1>7. \A p \in net' : p \in net \/ AckPacket(p)'
  <2>1. Acked(e, ackSeq[e])'
    BY <1>1, <1>2, <1>3 DEF Acked, Has
  <2>2. ackSeq'[e] = ackSeq[e]
    BY <1>1
  <2>3. PICK n : n = ackSeq[e]
    OBVIOUS
  <2>4. Acked(e, n)'
    BY <2>1, <2>2, <2>3 DEF Acked, Has
  <2> QED BY <1>1, <1>6, <2>3, <2>4, SendsAck
<1> QED BY <1>1, <1>4, <1>5, <1>7, ReceiverKeep
-----------------------------------------------------------------------------
\* The sending side: the receiver's state does not change, and nothing but
\* heartbeats and data is sent.
LEMMA SenderKeep ==
  ASSUME EndpointAssumption, TypeInv, ConnInv, DataInv, AckInv, Growing,
         UNCHANGED <<rsq, rbuffer, ackSeq>>,
         \A e \in Endpoints : hpc'[e] = "deliver" <=> hpc[e] = "deliver",
         \A p \in net' : p \in net \/ p.msg.type # "Ack" \/ p.msg.seq = 0,
         Elems(sincoming') \subseteq Elems(sincoming),
         \A e \in Endpoints : Elems(incoming'[e]) \subseteq Elems(incoming[e])
  PROVE  AcksKept /\ NetAcks' /\ SincomingAcks' /\ IncomingAcks' /\ DeliveryOK'
<1>1. AcksKept
  BY DEF AcksKept, Acked, Has
<1>2. \A p \in net' : p \in net \/ AckPacket(p)'
  BY DEF AckPacket
<1>3. NetAcks' /\ SincomingAcks' /\ IncomingAcks'
  BY <1>1, <1>2, AckKeep
<1>4. DeliveryOK'
  BY DEF AckInv, DeliveryOK, Has
<1> QED BY <1>1, <1>3, <1>4

\* An acknowledged message is forgotten.
LEMMA HandleAckAck ==
  ASSUME EndpointAssumption, TypeInv, ConnInv, DataInv, AckInv, NEW e \in Endpoints, HandleAck(e),
         Growing, UNCHANGED sincoming
  PROVE  AckInv'
<1>t. EndpointTypeOK
  BY DEF TypeInv, TypeOK
<1>0. PICK m : m = Head(incoming[e])
  OBVIOUS
<1>1. /\ UNCHANGED <<net, tsq, rbuffer, rsq, hpc, ackSeq>>
      /\ Dequeue(e, "Ack")
      /\ tbuffer' = [tbuffer EXCEPT ![e] = {x \in @ : x.seq # m.seq}]
  BY <1>0 DEF HandleAck, rxVars
<1>2. /\ \A d \in Endpoints : Elems(incoming'[d]) \subseteq Elems(incoming[d])
      /\ m \in Elems(incoming[e]) /\ m.type = "Ack"
  BY <1>0, <1>1, <1>t, DequeueElems DEF Dequeue
<1>3. AcksKept /\ NetAcks' /\ SincomingAcks' /\ IncomingAcks' /\ DeliveryOK'
  BY <1>1, <1>2, SenderKeep
<1>4. \A d \in Endpoints : \A n \in Nat : n # 0 /\ Kept(d, n) => Kept(d, n)' \/ Reached(d, n)'
  <2> SUFFICES ASSUME NEW d \in Endpoints, NEW n \in Nat, n # 0, Kept(d, n)
               PROVE  Kept(d, n)' \/ Reached(d, n)'
    OBVIOUS
  <2>1. CASE d = e /\ n = m.seq
    <3>1. Reached(d, n)
      BY <1>2, <2>1 DEF AckInv, IncomingAcks
    <3> QED BY <1>3, <3>1, ReachedStable
  <2>2. CASE ~(d = e /\ n = m.seq)
    BY <1>1, <1>t, <2>2 DEF Kept, EndpointTypeOK
  <2> QED BY <2>1, <2>2
<1>5. \A d \in Endpoints : \A n \in 1 .. (tsq'[d] - 1) : Kept(d, n)' \/ Reached(d, n)'
  BY <1>1, <1>3, <1>4, ForgottenKeep
<1>6. NoAckKept'
  BY <1>1, <1>t DEF AckInv, NoAckKept, EndpointTypeOK
<1> QED BY <1>3, <1>5, <1>6 DEF AckInv, ForgottenAcks

\* A new number is kept.
LEMMA TransmitAck ==
  ASSUME EndpointAssumption, TypeInv, ConnInv, DataInv, AckInv, NEW e \in Endpoints, Transmit(e),
         UNCHANGED sincoming
  PROVE  AckInv'
<1>t. EndpointTypeOK
  BY DEF TypeInv, TypeOK
<1>0. PICK x : x = NewData(id[e], tsq[e], Head(tmsg[e]))
  OBVIOUS
<1>1. /\ UNCHANGED <<id, addr, incoming, written, rbuffer, rsq, hpc, ackSeq>>
      /\ tbuffer' = [tbuffer EXCEPT ![e] = @ \cup {x}]
      /\ WriteMessages(e, {x})
      /\ tsq' = [tsq EXCEPT ![e] = @ + 1]
  BY <1>0 DEF Transmit, rxVars
<1>2. x.type = "Data" /\ x.seq = tsq[e]
  BY <1>0 DEF NewData
<1>3. tsq \in [Endpoints -> Nat] /\ tbuffer \in [Endpoints -> SUBSET Message]
  BY <1>t DEF EndpointTypeOK
<1>4. Growing
  BY <1>1, <1>3 DEF Growing
<1>5. \A p \in net' : p \in net \/ p.msg.type # "Ack"
  BY <1>1, <1>2 DEF WriteMessages, Outbound
<1>6. AcksKept /\ NetAcks' /\ SincomingAcks' /\ IncomingAcks' /\ DeliveryOK'
  BY <1>1, <1>4, <1>5, SenderKeep
<1>7. \A d \in Endpoints : \A n : Kept(d, n) => Kept(d, n)'
  BY <1>1, <1>3 DEF Kept
<1>8. ASSUME NEW d \in Endpoints, NEW n \in 1 .. (tsq'[d] - 1)
      PROVE  Kept(d, n)' \/ Reached(d, n)'
  <2>1. CASE d # e
    <3>1. tsq'[d] = tsq[d]
      BY <1>1, <1>3, <2>1
    <3> QED BY <1>6, <1>7, <1>8, <3>1, ForgottenKeep
  <2>2. CASE d = e /\ n = tsq[e]
    BY <1>1, <1>2, <1>3, <2>2 DEF Kept
  <2>3. CASE d = e /\ n # tsq[e]
    <3>1. n \in 1 .. (tsq[e] - 1) /\ n \in Nat /\ n # 0
      BY <1>1, <1>3, <1>8, <2>3
    <3>2. Kept(e, n) \/ Reached(e, n)
      BY <3>1 DEF AckInv, ForgottenAcks
    <3> QED BY <1>6, <1>7, <2>3, <3>1, <3>2, ReachedStable
  <2> QED BY <2>1, <2>2, <2>3
<1>9. NoAckKept'
  BY <1>1, <1>2, <1>3 DEF AckInv, NoAckKept
<1> QED BY <1>6, <1>8, <1>9 DEF AckInv, ForgottenAcks

\* Everything else that leaves the unacknowledged messages and their numbers alone.
LEMMA OtherAck ==
  ASSUME EndpointAssumption, TypeInv, ConnInv, DataInv, AckInv, Growing,
         UNCHANGED <<tbuffer, tsq, rsq, rbuffer, ackSeq>>,
         \A e \in Endpoints : hpc'[e] = "deliver" <=> hpc[e] = "deliver",
         \A p \in net' : p \in net \/ p.msg.type # "Ack" \/ p.msg.seq = 0,
         Elems(sincoming') \subseteq Elems(sincoming),
         \A e \in Endpoints : Elems(incoming'[e]) \subseteq Elems(incoming[e])
  PROVE  AckInv'
<1>1. AcksKept /\ NetAcks' /\ SincomingAcks' /\ IncomingAcks' /\ DeliveryOK'
  BY SenderKeep
<1>2. \A e, n : Kept(e, n) => Kept(e, n)'
  BY DEF Kept
<1>3. \A e \in Endpoints : \A n \in 1 .. (tsq'[e] - 1) : Kept(e, n)' \/ Reached(e, n)'
  BY <1>1, <1>2, ForgottenKeep
<1> QED BY <1>1, <1>3 DEF AckInv, ForgottenAcks, NoAckKept
\* A message moves on: from the network to a receiver's queue, or from there to a
\* handler's.
LEMMA ArriveAck ==
  ASSUME EndpointAssumption, TypeInv, ConnInv, DataInv, AckInv, net' \subseteq net,
         UNCHANGED <<id, addr, txVars, rxVars, ctlVars>>,
         \A a \in Elems(sincoming') : a \in Elems(sincoming) \/
            (a.msg.type = "Ack" /\ a.msg.seq # 0 =>
               a.msg.conn \in ConnIDs /\ Reached(a.msg.conn, a.msg.seq)),
         \A e \in Endpoints : \A m \in Elems(incoming'[e]) : m \in Elems(incoming[e]) \/
            (m.type = "Ack" /\ m.seq # 0 => Reached(e, m.seq))
  PROVE  AckInv'
<1>0. UNCHANGED <<id, addr, tbuffer, tsq, written, rbuffer, rsq, hpc, ackSeq>>
  BY DEF txVars, rxVars, ctlVars
<1>1. Growing
  BY <1>0, SameGrows
<1>2. AcksKept
  BY <1>0, <1>1 DEF AcksKept, Acked, Has
<1>3. \A e, n : Reached(e, n)' = Reached(e, n)
  BY <1>0 DEF Reached, Linked, Peer, Acked, Has
<1>4. NetAcks' /\ SincomingAcks' /\ IncomingAcks'
  <2>1. \A a \in Elems(sincoming') : a \in Elems(sincoming) \/
           (a.msg.type = "Ack" /\ a.msg.seq # 0 =>
              a.msg.conn \in ConnIDs /\ Reached(a.msg.conn, a.msg.seq)')
    BY <1>3
  <2>2. \A e \in Endpoints : \A m \in Elems(incoming'[e]) : m \in Elems(incoming[e]) \/
           (m.type = "Ack" /\ m.seq # 0 => Reached(e, m.seq)')
    BY <1>3
  <2> QED BY <1>2, <2>1, <2>2, AckKeep
<1>5. ForgottenAcks'
  BY <1>0, <1>3 DEF AckInv, ForgottenAcks, Kept
<1>6. NoAckKept' /\ DeliveryOK'
  BY <1>0 DEF AckInv, NoAckKept, DeliveryOK, Has
<1> QED BY <1>4, <1>5, <1>6 DEF AckInv

\* A step of an application or of the timers: no handler moves in or out of the
\* delivery loop.
LEMMA IdleAck ==
  ASSUME EndpointAssumption, TypeInv, ConnInv, DataInv, AckInv, net' \subseteq net,
         UNCHANGED <<id, addr, tbuffer, tsq, rxVars, ackSeq, sincoming, incoming>>,
         \A e \in Endpoints : \A n \in 1 .. Len(written[e]) : written'[e][n] = written[e][n],
         \A e \in Endpoints : hpc'[e] = "deliver" <=> hpc[e] = "deliver"
  PROVE  AckInv'
<1>1. UNCHANGED <<rbuffer, rsq>>
  BY DEF rxVars
<1>2. Growing
  BY DEF Growing, TypeInv, TypeOK, EndpointTypeOK
<1> QED BY <1>1, <1>2, OtherAck

-----------------------------------------------------------------------------
LEMMA ClientAppAck ==
  ASSUME EndpointAssumption, TypeInv, ConnInv, DataInv, WindowInv, AckInv, NEW c \in Clients,
         ClientAppStep(c), UNCHANGED serverVars
  PROVE  AckInv'
<1>0. c \in Endpoints
  BY DEF Endpoints
<1>s. UNCHANGED sincoming
  BY DEF serverVars
<1>t. EndpointTypeOK
  BY DEF TypeInv, TypeOK
<1>1. CASE NewClient(c)
  <2>1. /\ UNCHANGED <<id, addr, incoming, tsq, written, rbuffer, rsq, ackSeq>>
        /\ capp[c] = "new"
        /\ tbuffer' = [tbuffer EXCEPT ![c] = {NewConnect}]
        /\ WriteMessages(c, {NewConnect})
        /\ hpc' = [hpc EXCEPT ![c] = "loop"]
    BY <1>1 DEF NewClient, rxVars
  <2>2. hpc[c] = "off" /\ tsq[c] = 1
    BY <2>1 DEF ConnInv, AppOK, WindowInv, Fresh
  <2>3. Growing
    BY <2>1, SameGrows
  <2>4. \A p \in net' : p \in net \/ p.msg.seq = 0
    BY <2>1 DEF WriteMessages, Outbound, NewConnect
  <2>5. \A e \in Endpoints : hpc'[e] = "deliver" <=> hpc[e] = "deliver"
    BY <2>1, <2>2, <1>t DEF EndpointTypeOK
  <2>6. AcksKept /\ NetAcks' /\ SincomingAcks' /\ IncomingAcks' /\ DeliveryOK'
    BY <1>s, <2>1, <2>3, <2>4, <2>5, SenderKeep
  <2>7. ASSUME NEW d \in Endpoints, NEW n \in 1 .. (tsq'[d] - 1)
        PROVE  Kept(d, n)' \/ Reached(d, n)'
    <3>1. CASE d = c
      BY <2>1, <2>2, <2>7, <3>1
    <3>2. CASE d # c
      <4>1. \A k : Kept(d, k) => Kept(d, k)'
        BY <2>1, <3>2, <1>t DEF Kept, EndpointTypeOK
      <4>2. tsq'[d] = tsq[d]
        BY <2>1
      <4> QED BY <2>6, <2>7, <4>1, <4>2, ForgottenKeep
    <3> QED BY <3>1, <3>2
  <2>8. NoAckKept'
    BY <1>t, <2>1 DEF AckInv, NoAckKept, NewConnect, EndpointTypeOK
  <2> QED BY <2>6, <2>7, <2>8 DEF AckInv, ForgottenAcks
<1>2. CASE NewClientReturns(c) \/ ClientReadData(c) \/ ClientReadError(c) \/ ClientCloseGet(c)
  <2>1. UNCHANGED <<net, id, addr, incoming, txVars, rxVars, ctlVars>>
    BY <1>2 DEF NewClientReturns, ClientReadData, ClientReadError, ClientCloseGet, endpointVars
  <2> QED BY <1>s, <2>1, ArriveAck
<1>3. ASSUME NEW p \in Payload, ClientWrite(c, p) PROVE AckInv'
  <2>1. UNCHANGED <<net, id, addr, incoming, tbuffer, tsq, rxVars, hpc, ackSeq>>
    BY <1>3 DEF ClientWrite, ctlVars
  <2>2. written' = [written EXCEPT ![c] = Append(@, p)]
    BY <1>3 DEF ClientWrite
  <2>3. \A e \in Endpoints : \A n \in 1 .. Len(written[e]) : written'[e][n] = written[e][n]
    BY <1>0, <1>t, <2>2 DEF EndpointTypeOK
  <2> QED BY <1>s, <2>1, <2>3, IdleAck
<1>4. CASE ClientCloseSet(c) \/ ClientCloseReturns(c) \/ ClientCloseSocket(c)
  <2>1. UNCHANGED <<net, id, addr, incoming, tbuffer, tsq, written, rxVars, hpc, ackSeq>>
    BY <1>4 DEF ClientCloseSet, ClientCloseReturns, ClientCloseSocket, txVars, ctlVars
  <2> QED BY <1>s, <2>1, IdleAck
<1> QED BY <1>1, <1>2, <1>3, <1>4 DEF ClientAppStep

LEMMA ClientReceiverAck ==
  ASSUME EndpointAssumption, TypeInv, ConnInv, DataInv, AckInv, NEW c \in Clients,
         ClientReceiverStep(c), UNCHANGED serverVars
  PROVE  AckInv'
<1>0. c \in Endpoints /\ c # Server
  BY Kinds DEF Endpoints
<1>s. UNCHANGED sincoming
  BY DEF serverVars
<1>1. ASSUME NEW p \in net, ClientReceive(c, p) PROVE AckInv'
  <2>1. UNCHANGED <<id, addr, txVars, rxVars, ctlVars>> /\ net' \subseteq net
    BY <1>1, ConsumeType DEF ClientReceive
  <2>2. PICK m \in Received(p) : incoming' = [incoming EXCEPT ![c] = Append(@, m)]
    BY <1>1 DEF ClientReceive
  <2>3. p \in Packet /\ p.to = c
    BY <1>1 DEF ClientReceive, TypeInv, TypeOK, EndpointTypeOK, Packet
  <2>4. m.type = "Ack" /\ m.seq # 0 => Reached(c, m.seq)
    <3>1. m.type = p.msg.type /\ m.seq = p.msg.seq
      BY <2>2, <2>3, ReceivedFields
    <3>2. AckPacket(p)
      BY DEF AckInv, NetAcks
    <3> QED BY <1>0, <2>3, <3>1, <3>2 DEF AckPacket
  <2>5. Elems(Append(incoming[c], m)) = Elems(incoming[c]) \cup {m}
    BY <1>0, ElemsAppend DEF TypeInv, TypeOK, EndpointTypeOK
  <2>6. \A d \in Endpoints : \A x \in Elems(incoming'[d]) : x \in Elems(incoming[d]) \/ (d = c /\ x = m)
    BY <2>2, <2>5 DEF TypeInv, TypeOK, EndpointTypeOK
  <2> QED BY <1>s, <2>1, <2>4, <2>6, ArriveAck
<1>2. ASSUME ReceiverError(c), net' \subseteq net PROVE AckInv'
  <2>1. UNCHANGED <<id, addr, incoming, tbuffer, tsq, written, rxVars, hpc, ackSeq>>
    BY <1>2 DEF ReceiverError, txVars
  <2> QED BY <1>s, <1>2, <2>1, IdleAck
<1> QED
  BY <1>1, <1>2, ConsumeType
     DEF ClientReceiverStep, ClientSocketClosed, ClientOversize, ClientRefused

\* Retransmissions and heartbeats acknowledge nothing.
LEMMA EpochAck ==
  ASSUME EndpointAssumption, TypeInv, ConnInv, DataInv, AckInv, NEW e \in Endpoints, NEW extra,
         \A m \in extra : m.type # "Ack" \/ m.seq = 0, Epoch(e, extra),
         UNCHANGED sincoming
  PROVE  AckInv'
<1>1. /\ UNCHANGED <<id, addr, incoming, tbuffer, tsq, written, rbuffer, rsq, hpc, ackSeq>>
      /\ WriteMessages(e, extra \cup tbuffer[e])
  BY DEF Epoch, txVars, rxVars
<1>2. Growing
  BY <1>1, SameGrows
<1>3. \A p \in net' : p \in net \/ p.msg.type # "Ack" \/ p.msg.seq = 0
  BY <1>1 DEF WriteMessages, Outbound, AckInv, NoAckKept
<1> QED BY <1>1, <1>2, <1>3, OtherAck
LEMMA ClientHandlerAck ==
  ASSUME EndpointAssumption, TypeInv, ConnInv, DataInv, AckInv, NEW c \in Clients,
         ClientHandlerStep(c), UNCHANGED serverVars
  PROVE  AckInv'
<1>0. c \in Endpoints
  BY DEF Endpoints
<1>s. UNCHANGED sincoming
  BY DEF serverVars
<1>t. EndpointTypeOK
  BY DEF TypeInv, TypeOK
<1>1. CASE ClientHandlerExit(c) \/ ClientLost(c)
  <2>1. UNCHANGED <<net, id, addr, incoming, tbuffer, tsq, written, rxVars, ackSeq>>
    BY <1>1 DEF ClientHandlerExit, ClientLost, txVars
  <2>2. hpc[c] = "loop" /\ \E s \in {"done", "lost"} : hpc' = [hpc EXCEPT ![c] = s]
    BY <1>1 DEF ClientHandlerExit, ClientLost
  <2>3. \A e \in Endpoints : hpc'[e] = "deliver" <=> hpc[e] = "deliver"
    BY <1>0, <1>t, <2>2 DEF EndpointTypeOK
  <2> QED BY <1>s, <2>1, <2>3, IdleAck
<1>2. CASE ClientShortData(c)
  <2>1. UNCHANGED <<net, id, addr, tbuffer, tsq, written, rbuffer, rsq, hpc, ackSeq>> /\ Dequeue(c, "Data")
    BY <1>2 DEF ClientShortData, HandleShortData, txVars, rxVars
  <2>2. \A d \in Endpoints : Elems(incoming'[d]) \subseteq Elems(incoming[d])
    BY <1>0, <1>t, <2>1, DequeueElems
  <2>3. Growing
    BY <2>1, SameGrows
  <2> QED BY <1>s, <2>1, <2>2, <2>3, OtherAck
<1>3. CASE ClientData(c)
  BY <1>0, <1>s, <1>3, HandleDataAck DEF ClientData
<1>4. CASE ClientDeliver(c)
  <2>1. PICK r \in rbuffer[c] : DeliverNext(c, r)
    BY <1>4 DEF ClientDeliver
  <2> QED BY <1>0, <1>s, <2>1, DeliverAck
<1>5. CASE ClientEndDelivery(c)
  BY <1>0, <1>s, <1>5, EndDeliveryAck DEF ClientEndDelivery
<1>6. CASE ClientAck(c)
  <2>1. HandleAck(c)
    BY <1>6 DEF ClientAck
  <2>2. UNCHANGED <<addr, tsq, written>>
    BY <2>1 DEF HandleAck
  <2>3. \A d \in Clients : id[d] # -1 => id'[d] = id[d]
    BY <1>0, <1>6, <1>t DEF ClientAck, EndpointTypeOK, Endpoints
  <2>4. Growing
    BY <1>t, <2>2, <2>3 DEF Growing, EndpointTypeOK
  <2> QED BY <1>0, <1>s, <2>1, <2>4, HandleAckAck
<1>7. CASE ClientEpoch(c)
  <2>1. PICK extra : (\A m \in extra : m.type # "Ack" \/ m.seq = 0) /\ Epoch(c, extra)
    BY <1>7 DEF ClientEpoch, Heartbeat, NewConnect, NewAck
  <2> QED BY <1>0, <1>s, <2>1, EpochAck
<1>8. CASE ClientTransmit(c)
  BY <1>0, <1>s, <1>8, TransmitAck DEF ClientTransmit
<1> QED BY <1>1, <1>2, <1>3, <1>4, <1>5, <1>6, <1>7, <1>8 DEF ClientHandlerStep

LEMMA ServerAppAck ==
  ASSUME EndpointAssumption, TypeInv, ConnInv, DataInv, AckInv, ServerAppStep
  PROVE  AckInv'
<1>1. UNCHANGED <<net, id, addr, incoming, txVars, rxVars, ctlVars, sincoming>>
  BY DEF ServerAppStep, ServerReadData, ServerReadError, ServerWrite, CloseConn, ServerClose,
         ServerCloseSocket, ServerCloseReturns, endpointVars, serverVars
<1> QED BY <1>1, ArriveAck

LEMMA ServerReceiverAck ==
  ASSUME EndpointAssumption, TypeInv, ConnInv, DataInv, AckInv, ServerReceiverStep
  PROVE  AckInv'
<1>1. ASSUME NEW p \in net, ServerReceive(p) PROVE AckInv'
  <2> DEFINE am(m) == [from |-> p.from, msg |-> m]
             SIn == [from: Clients \cup {Server}, msg: Message]
  <2>1. UNCHANGED <<id, addr, incoming, txVars, rxVars, ctlVars>> /\ net' \subseteq net
    BY <1>1, ConsumeType DEF ServerReceive
  <2>2. PICK m \in Received(p) : sincoming' = Append(sincoming, am(m))
    BY <1>1 DEF ServerReceive
  <2>3. p \in Packet /\ p.to = Server
    BY <1>1 DEF ServerReceive, TypeInv, TypeOK, EndpointTypeOK, Packet
  <2>4. m.type = "Ack" /\ m.seq # 0 => m.conn \in ConnIDs /\ Reached(m.conn, m.seq)
    <3>1. m.type = p.msg.type /\ m.conn = p.msg.conn /\ m.seq = p.msg.seq
      BY <2>2, <2>3, ReceivedFields
    <3>2. AckPacket(p)
      BY DEF AckInv, NetAcks
    <3> QED BY <2>3, <3>1, <3>2 DEF AckPacket
  <2>5. am(m).msg = m
    OBVIOUS
  <2>6. sincoming \in Seq(SIn)
    BY DEF TypeInv, TypeOK, ServerTypeOK
  <2> HIDE DEF am, SIn
  <2>7. Elems(sincoming') = Elems(sincoming) \cup {am(m)}
    BY <2>2, <2>6, ElemsAppend
  <2> QED BY <2>1, <2>4, <2>5, <2>7, ArriveAck
<1>2. CASE ServerSocketClosed
  <2>1. UNCHANGED <<net, id, addr, incoming, txVars, rxVars, ctlVars, sincoming>>
    BY <1>2 DEF ServerSocketClosed, endpointVars
  <2> QED BY <2>1, ArriveAck
<1> QED BY <1>1, <1>2 DEF ServerReceiverStep

LEMMA HandleStepAck ==
  ASSUME EndpointAssumption, TypeInv, ConnInv, DataInv, AckInv, HandleStep
  PROVE  AckInv'
<1>t. EndpointTypeOK
  BY DEF TypeInv, TypeOK
<1>1. CASE HandleDuplicateConnect
  <2>1. UNCHANGED <<net, id, addr, incoming, txVars, rxVars, ctlVars>>
    BY <1>1 DEF HandleDuplicateConnect, endpointVars
  <2>2. Elems(sincoming') \subseteq Elems(sincoming)
    BY <1>1, ArrivedElems DEF HandleDuplicateConnect
  <2> QED BY <2>1, <2>2, ArriveAck
<1>2. CASE HandleConnect
  <2>1. PICK i, a : i = lastConnID /\ a = Head(sincoming).from
    OBVIOUS
  <2>2. UNCHANGED <<id, incoming, tbuffer, tsq, written, rbuffer, rsq, ackSeq>>
    BY <1>2 DEF HandleConnect, txVars, rxVars
  <2>3. /\ Arrived("Connect")
        /\ i \in ConnIDs /\ i \in Int
        /\ addr' = [addr EXCEPT ![i] = a]
        /\ hpc' = [hpc EXCEPT ![i] = "loop"]
        /\ net' = net \cup {[from |-> Server, to |-> a, msg |-> NewAck(i, 0)]}
    BY <1>2, <2>1, Kinds DEF HandleConnect
  <2>4. Elems(sincoming') \subseteq Elems(sincoming)
    BY <2>3, ArrivedElems
  <2>5. addr[i] = Server /\ hpc[i] = "off"
    BY <2>1, <2>3 DEF ConnInv, ConnOK
  <2>6. \A j \in ConnIDs : addr[j] \in Clients => addr'[j] = addr[j]
    BY <1>t, <2>3, <2>5, Kinds DEF EndpointTypeOK
  <2>7. Growing
    BY <1>t, <2>2, <2>6 DEF Growing, EndpointTypeOK
  <2>8. \A e \in Endpoints : hpc'[e] = "deliver" <=> hpc[e] = "deliver"
    BY <1>t, <2>3, <2>5 DEF EndpointTypeOK
  <2>9. \A p \in net' : p \in net \/ p.msg.seq = 0
    BY <2>3 DEF NewAck
  <2> QED BY <2>2, <2>4, <2>7, <2>8, <2>9, OtherAck
<1>3. CASE HandleRoute
  <2> DEFINE m == Head(sincoming).msg
  <2>1. UNCHANGED <<net, id, addr, txVars, rxVars, ctlVars>>
    BY <1>3 DEF HandleRoute
  <2>2. /\ Elems(sincoming') \subseteq Elems(sincoming)
        /\ Head(sincoming) \in Elems(sincoming)
    BY <1>3, ArrivedElems DEF HandleRoute
  <2>3. m.type = "Ack" /\ m.seq # 0 => Reached(m.conn, m.seq)
    BY <2>2 DEF AckInv, SincomingAcks
  <2>4. incoming' = incoming \/ (m.conn \in clients /\ incoming' = [incoming EXCEPT ![m.conn] = Append(@, m)])
    BY <1>3 DEF HandleRoute
  <2>5. m.conn \in clients => m.conn \in Endpoints
    BY DEF TypeInv, TypeOK, ServerTypeOK, Endpoints
  <2> HIDE DEF m
  <2>6. \A d \in Endpoints : \A x \in Elems(incoming'[d]) : x \in Elems(incoming[d]) \/ (d = m.conn /\ x = m)
    <3>1. CASE incoming' = incoming
      BY <3>1
    <3>2. CASE m.conn \in clients /\ incoming' = [incoming EXCEPT ![m.conn] = Append(@, m)]
      <4>1. Elems(Append(incoming[m.conn], m)) = Elems(incoming[m.conn]) \cup {m}
        BY <1>t, <2>5, <3>2, ElemsAppend DEF EndpointTypeOK
      <4> QED BY <1>t, <3>2, <4>1 DEF EndpointTypeOK
    <3> QED BY <2>4, <3>1, <3>2
  <2> QED BY <2>1, <2>2, <2>3, <2>6, ArriveAck
<1>4. CASE HandleOutgoing
  <2>1. PICK w : w = Head(outgoing)
    OBVIOUS
  <2>2. UNCHANGED <<net, id, addr, incoming, sincoming, tbuffer, tsq, rxVars, hpc, ackSeq>>
    BY <1>4 DEF HandleOutgoing, ctlVars
  <2>3. \/ UNCHANGED written
        \/ written' = [written EXCEPT ![w.conn] = Append(@, w.data)]
    BY <1>4, <2>1 DEF HandleOutgoing
  <2>4. w \in Elems(outgoing)
    <3> DEFINE W == [conn: ConnIDs, data: Payload]
    <3>1. outgoing \in Seq(W)
      BY DEF TypeInv, TypeOK, ServerTypeOK
    <3>2. outgoing # <<>>
      BY <1>4 DEF HandleOutgoing
    <3> HIDE DEF W
    <3> QED BY <2>1, <3>1, <3>2, ElemsTail
  <2>5. w.data \in Payload
    BY <2>4, OutgoingType
  <2>6. \A e \in Endpoints : \A n \in 1 .. Len(written[e]) : written'[e][n] = written[e][n]
    <3>1. CASE UNCHANGED written
      BY <3>1
    <3>2. CASE written' = [written EXCEPT ![w.conn] = Append(@, w.data)]
      <4>1. PICK i, x : i = w.conn /\ x = w.data
        OBVIOUS
      <4>2. written \in [Endpoints -> Seq(Payload)] /\ x \in Payload
        BY <1>t, <2>5, <4>1 DEF EndpointTypeOK
      <4>3. written' = [written EXCEPT ![i] = Append(@, x)]
        BY <3>2, <4>1
      <4> QED BY <4>2, <4>3
    <3> QED BY <2>3, <3>1, <3>2
  <2> QED BY <2>2, <2>6, IdleAck
<1>5. CASE HandleCls
  <2>1. UNCHANGED <<net, id, addr, incoming, sincoming, tbuffer, tsq, written, rxVars, hpc, ackSeq>>
    BY <1>5 DEF HandleCls, txVars
  <2> QED BY <2>1, IdleAck
<1> QED BY <1>1, <1>2, <1>3, <1>4, <1>5 DEF HandleStep

LEMMA ConnStepAck ==
  ASSUME EndpointAssumption, TypeInv, ConnInv, DataInv, AckInv, NEW i \in ConnIDs, ConnStep(i)
  PROVE  AckInv'
<1>0. i \in Endpoints
  BY DEF Endpoints
<1>s. UNCHANGED sincoming
  BY DEF ConnStep, ConnExit, ConnShortData, ConnData, ConnDeliver, ConnEndDelivery, ConnAck, ConnEpoch,
         ConnTimeout, ConnReport, ConnTransmit, ConnIdle, serverVars
<1>t. EndpointTypeOK
  BY DEF TypeInv, TypeOK
<1>1. CASE ConnExit(i) \/ ConnTimeout(i) \/ ConnReport(i)
  <2>1. UNCHANGED <<net, id, addr, incoming, tbuffer, tsq, written, rxVars, ackSeq>>
    BY <1>1 DEF ConnExit, ConnTimeout, ConnReport, txVars
  <2>2. hpc[i] \in {"loop", "report"} /\ \E s \in {"done", "report", "lost"} : hpc' = [hpc EXCEPT ![i] = s]
    BY <1>1 DEF ConnExit, ConnTimeout, ConnReport
  <2>3. \A e \in Endpoints : hpc'[e] = "deliver" <=> hpc[e] = "deliver"
    BY <1>0, <1>t, <2>2 DEF EndpointTypeOK
  <2> QED BY <1>s, <2>1, <2>3, IdleAck
<1>2. CASE ConnIdle(i)
  <2>1. UNCHANGED <<net, id, addr, incoming, tbuffer, tsq, written, rxVars, hpc, ackSeq>>
    BY <1>2 DEF ConnIdle, txVars
  <2> QED BY <1>s, <2>1, IdleAck
<1>3. CASE ConnShortData(i)
  <2>1. UNCHANGED <<net, id, addr, tbuffer, tsq, written, rbuffer, rsq, hpc, ackSeq>> /\ Dequeue(i, "Data")
    BY <1>3 DEF ConnShortData, HandleShortData, txVars, rxVars
  <2>2. \A d \in Endpoints : Elems(incoming'[d]) \subseteq Elems(incoming[d])
    BY <1>0, <1>t, <2>1, DequeueElems
  <2>3. Growing
    BY <2>1, SameGrows
  <2> QED BY <1>s, <2>1, <2>2, <2>3, OtherAck
<1>4. CASE ConnData(i)
  BY <1>0, <1>s, <1>4, HandleDataAck DEF ConnData
<1>5. CASE ConnDeliver(i)
  <2>1. PICK r \in rbuffer[i] : DeliverNext(i, r)
    BY <1>5 DEF ConnDeliver
  <2> QED BY <1>0, <1>s, <2>1, DeliverAck
<1>6. CASE ConnEndDelivery(i)
  BY <1>0, <1>s, <1>6, EndDeliveryAck DEF ConnEndDelivery
<1>7. CASE ConnAck(i)
  <2>1. HandleAck(i) /\ UNCHANGED id
    BY <1>7 DEF ConnAck
  <2>2. Growing
    BY <2>1, SameGrows DEF HandleAck
  <2> QED BY <1>0, <1>s, <2>1, <2>2, HandleAckAck
<1>8. CASE ConnEpoch(i)
  <2>1. \A m \in Heartbeat(i) : m.seq = 0
    BY DEF Heartbeat, NewAck
  <2>2. Epoch(i, Heartbeat(i))
    BY <1>8 DEF ConnEpoch
  <2> QED BY <1>0, <1>s, <2>1, <2>2, EpochAck
<1>9. CASE ConnTransmit(i)
  BY <1>0, <1>s, <1>9, TransmitAck DEF ConnTransmit
<1> QED BY <1>1, <1>2, <1>3, <1>4, <1>5, <1>6, <1>7, <1>8, <1>9 DEF ConnStep

-----------------------------------------------------------------------------
\* AckInv is inductive, relative to the invariants before it.
LEMMA AckInit == ASSUME EndpointAssumption, Init PROVE AckInv
<1> USE DEF Init, EndpointInit, ServerInit
<1>1. NetAcks /\ SincomingAcks /\ IncomingAcks
  BY ElemsEmpty DEF NetAcks, SincomingAcks, IncomingAcks
<1>2. NoAckKept
  BY DEF NoAckKept
<1>3. ForgottenAcks
  BY DEF ForgottenAcks
<1>4. DeliveryOK
  BY DEF DeliveryOK
<1> QED BY <1>1, <1>2, <1>3, <1>4 DEF AckInv

LEMMA AckNext ==
  ASSUME EndpointAssumption, TypeInv, ConnInv, DataInv, WindowInv, AckInv, [Next]_vars
  PROVE  AckInv'
<1>1. ASSUME NEW c \in Clients, ClientStep(c), UNCHANGED serverVars PROVE AckInv'
  BY <1>1, ClientAppAck, ClientReceiverAck, ClientHandlerAck DEF ClientStep
<1>2. CASE ServerStep
  BY <1>2, ServerAppAck, ServerReceiverAck, HandleStepAck, ConnStepAck DEF ServerStep
<1>3. CASE LosePacket /\ UNCHANGED <<sock, id, addr, incoming, txVars, rxVars, ctlVars,
                                     clientVars, serverVars>>
  <2>1. net' \subseteq net
    BY <1>3 DEF LosePacket
  <2>2. UNCHANGED sincoming
    BY <1>3 DEF serverVars
  <2> QED BY <1>3, <2>1, <2>2, ArriveAck
<1>4. CASE UNCHANGED vars
  <2>1. UNCHANGED <<net, id, addr, sincoming, incoming, txVars, rxVars, ctlVars>>
    BY <1>4 DEF vars, endpointVars, serverVars
  <2> QED BY <2>1, ArriveAck
<1> QED BY <1>1, <1>2, <1>3, <1>4 DEF Next
-----------------------------------------------------------------------------
\* The pairs are the endpoints that are each other's peers.
LEMMA PairLinked ==
  ASSUME EndpointAssumption, TypeInv, ConnInv, NEW p \in Pairs
  PROVE  /\ p[1] \in Endpoints /\ Linked(p[1]) /\ Peer(p[1]) = p[2]
         /\ p[2] \in Endpoints /\ Linked(p[2]) /\ Peer(p[2]) = p[1]
<1>1. ASSUME NEW c \in Clients, id[c] # -1
      PROVE  /\ c \in Endpoints /\ Linked(c) /\ Peer(c) = id[c]
             /\ id[c] \in Endpoints /\ Linked(id[c]) /\ Peer(id[c]) = c
  <2>1. c \in Endpoints /\ Linked(c) /\ Peer(c) = id[c]
    BY <1>1 DEF Endpoints, Linked, Peer
  <2> QED BY <2>1, PeerPeer
<1> QED BY <1>1 DEF Pairs, Links

\* The datum that started b's delivery loop is not acknowledged: a keeps it.
LEMMA LoopKept ==
  ASSUME EndpointAssumption, TypeInv, ConnInv, DataInv, AckInv, NEW a \in Endpoints, NEW b \in Endpoints,
         Linked(a), Peer(a) = b, Linked(b), Peer(b) = a, hpc[b] = "deliver"
  PROVE  Kept(a, ackSeq[b]) /\ ackSeq[b] \in 1 .. rsq[b]
<1>1. ackSeq[b] \in 1 .. rsq[b] /\ Has(b, ackSeq[b]) /\ rsq[b] \in Nat /\ tsq[a] \in Nat
  BY DEF AckInv, DeliveryOK, TypeInv, TypeOK, EndpointTypeOK
<1>2. ackSeq[b] \in 1 .. (tsq[a] - 1)
  <2>1. CASE ackSeq[b] < rsq[b]
    <3>1. Delivered(b)
      BY DEF DataInv, DeliveredOK
    <3>2. Len(delivered[b]) \in Nat /\ rsq[b] = Len(delivered[b]) + 1
      BY <3>1 DEF Delivered, TypeInv, TypeOK, EndpointTypeOK
    <3>3. ackSeq[b] \in 1 .. Len(delivered[b])
      BY <1>1, <2>1, <3>2
    <3> QED BY <3>1, <3>3 DEF Delivered, Sound, Sent
  <2>2. CASE \E r \in rbuffer[b] : r.seq = ackSeq[b]
    BY <2>2 DEF DataInv, RbufferOK, Sound, Sent
  <2> QED BY <1>1, <2>1, <2>2 DEF Has
<1>3. ~Reached(a, ackSeq[b])
  BY DEF Reached, Acked
<1> QED BY <1>1, <1>2, <1>3 DEF AckInv, ForgottenAcks

LEMMA AckImplies ==
  ASSUME EndpointAssumption, TypeInv, ConnInv, DataInv, WindowInv, AckInv
  PROVE  AckedReceived /\ ReceiverWindow
<1> SUFFICES ASSUME NEW p \in Pairs
             PROVE  /\ \A n \in 1 .. (tsq[p[1]] - 1) :
                          (\A m \in tbuffer[p[1]] : m.seq # n) => Has(p[2], n)
                    /\ \A r \in rbuffer[p[2]] : r.seq < rsq[p[2]] + WindowSize
  BY DEF AckedReceived, ReceiverWindow
<1>1. PICK a \in Endpoints, b \in Endpoints :
         a = p[1] /\ b = p[2] /\ Linked(a) /\ Peer(a) = b /\ Linked(b) /\ Peer(b) = a
  BY PairLinked
<1>2. \A n \in 1 .. (tsq[a] - 1) : Kept(a, n) \/ Acked(b, n)
  BY <1>1 DEF AckInv, ForgottenAcks, Reached
<1>3. \A n \in 1 .. (tsq[a] - 1) : (\A m \in tbuffer[a] : m.seq # n) => Has(b, n)
  BY <1>2 DEF Kept, Acked
<1>t. /\ tsq[a] \in Nat /\ rsq[b] \in Nat /\ WindowSize \in Nat /\ WindowSize >= 1
      /\ tbuffer[a] \subseteq Message
  BY DEF TypeInv, TypeOK, EndpointTypeOK, EndpointAssumption
<1>4. rsq[b] >= 1
  <2>1. rsq[b] = Len(delivered[b]) + 1 /\ Len(delivered[b]) \in Nat
    BY DEF DataInv, DeliveredOK, Delivered, TypeInv, TypeOK, EndpointTypeOK
  <2> QED BY <2>1
<1>5. \A n \in Nat : Kept(a, n) => tsq[a] - n <= WindowSize
  BY DEF WindowInv, WindowBound, Kept
<1>6. ASSUME NEW r \in rbuffer[b] PROVE r.seq < rsq[b] + WindowSize
  <2>1. r.seq \in 1 .. (tsq[a] - 1)
    BY <1>1, <1>6 DEF DataInv, RbufferOK, Sound, Sent
  <2>2. PICK k \in Nat : k <= rsq[b] /\ (r.seq >= rsq[b] + WindowSize => Kept(a, k))
    <3>1. CASE hpc[b] = "deliver"
      <4>1. Kept(a, ackSeq[b]) /\ ackSeq[b] \in 1 .. rsq[b]
        BY <1>1, <3>1, LoopKept
      <4> QED BY <1>t, <4>1
    <3>2. CASE hpc[b] # "deliver"
      <4>1. ~Has(b, rsq[b])
        BY <1>t, <3>2 DEF AckInv, DeliveryOK, Has
      <4>2. r.seq >= rsq[b] + WindowSize => rsq[b] \in 1 .. (tsq[a] - 1)
        BY <1>4, <1>t, <2>1
      <4> QED BY <1>2, <1>t, <4>1, <4>2 DEF Acked
    <3> QED BY <3>1, <3>2
  <2> QED BY <1>5, <1>t, <2>1, <2>2
<1> QED BY <1>1, <1>3, <1>6

\* The invariants of the connections, the data and the window together.
Safe == TypeInv /\ ConnInv /\ DataInv /\ WindowInv /\ AckInv

LEMMA SafeInit == Init => Safe
BY TypeInit, ConnInit, DataInit, WindowInit, AckInit, EndpointAssumption DEF Safe

LEMMA SafeNext == Safe /\ [Next]_vars => Safe'
<1> SUFFICES ASSUME TypeInv, ConnInv, DataInv, WindowInv, AckInv, [Next]_vars PROVE Safe'
  BY DEF Safe
<1>1. TypeInv' /\ ConnInv'
  BY TypeNext, ConnNext, EndpointAssumption
<1>2. DataInv' /\ WindowInv'
  BY <1>1, DataNext, WindowNext, EndpointAssumption
<1>3. AckInv'
  BY AckNext, EndpointAssumption
<1> QED BY <1>1, <1>2, <1>3 DEF Safe

\* No datum is forgotten too early: what a sender has deleted from tbuffer its peer
\* has stored or delivered, however late, often or in whatever order the acknowledgements
\* of handleClient and handler arrive.
THEOREM AcksSound == Spec => []AckedReceived
<1>1. Safe => AckedReceived
  BY AckImplies, EndpointAssumption DEF Safe
<1> QED BY <1>1, SafeInit, SafeNext, PTL DEF Spec

\* The receiver's buffer is bounded by the sender's window: rbuffer never holds a
\* datum a window or more beyond rsq, although neither handler checks it.
THEOREM ReceiverBounded == Spec => []ReceiverWindow
<1>1. Safe => ReceiverWindow
  BY AckImplies, EndpointAssumption DEF Safe
<1> QED BY <1>1, SafeInit, SafeNext, PTL DEF Spec
=============================================================================
