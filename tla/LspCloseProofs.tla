--------------------------- MODULE LspCloseProofs ---------------------------
(***************************************************************************)
(* Closing: what a granted close guarantees, and the streams that clients  *)
(* and server implement together.                                          *)
(***************************************************************************)
EXTENDS LspWindowProofs

\* The step leaves e's part of the connection alone.
Untouched(e) ==
  /\ id'[e] = id[e]
  /\ hpc'[e] = hpc[e]
  /\ status'[e] = status[e]
  /\ tbuffer'[e] = tbuffer[e]
  /\ tmsg'[e] = tmsg[e]
  /\ written'[e] = written[e]
  /\ rbuffer'[e] = rbuffer[e]
  /\ delivered'[e] = delivered[e]

\* A client's step touches its own endpoint only, a handleClient's its connection.
LEMMA ClientFrame ==
  ASSUME EndpointAssumption, TypeInv, NEW c \in Clients, ClientStep(c)
  PROVE  /\ UNCHANGED addr
         /\ \A d \in Endpoints : d # c => Untouched(d)
         /\ \A d \in Clients : d # c => capp'[d] = capp[d]
<1>0. c \in Endpoints
  BY DEF Endpoints
<1> USE DEF TypeInv, TypeOK, EndpointTypeOK, ClientTypeOK, endpointVars, clientVars, txVars, rxVars, ctlVars,
            Untouched
<1>1. CASE ClientAppStep(c)
  <2>1. CASE NewClient(c)
    BY <1>0, <2>1 DEF NewClient
  <2>2. CASE NewClientReturns(c) \/ ClientReadData(c) \/ ClientReadError(c) \/ ClientCloseGet(c)
    BY <1>0, <2>2 DEF NewClientReturns, ClientReadData, ClientReadError, ClientCloseGet
  <2>3. CASE \E p \in Payload : ClientWrite(c, p)
    BY <1>0, <2>3 DEF ClientWrite
  <2>4. CASE ClientCloseSet(c) \/ ClientCloseReturns(c) \/ ClientCloseSocket(c)
    BY <1>0, <2>4 DEF ClientCloseSet, ClientCloseReturns, ClientCloseSocket
  <2> QED BY <1>1, <2>1, <2>2, <2>3, <2>4 DEF ClientAppStep
<1>2. CASE ClientReceiverStep(c)
  BY <1>0, <1>2 DEF ClientReceiverStep, ClientReceive, ClientSocketClosed, ClientOversize, ClientRefused,
                    ReceiverError
<1>3. CASE ClientHandlerStep(c)
  <2>1. CASE ClientHandlerExit(c) \/ ClientLost(c)
    BY <1>0, <2>1 DEF ClientHandlerExit, ClientLost
  <2>2. CASE ClientShortData(c)
    BY <1>0, <2>2 DEF ClientShortData, HandleShortData
  <2>3. CASE ClientData(c)
    BY <1>0, <2>3 DEF ClientData, HandleData, SaveData
  <2>4. CASE ClientDeliver(c)
    BY <1>0, <2>4 DEF ClientDeliver, DeliverNext
  <2>5. CASE ClientEndDelivery(c)
    BY <1>0, <2>5 DEF ClientEndDelivery, EndDelivery
  <2>6. CASE ClientAck(c)
    BY <1>0, <2>6 DEF ClientAck, HandleAck
  <2>7. CASE ClientEpoch(c)
    BY <1>0, <2>7 DEF ClientEpoch, Epoch
  <2>8. CASE ClientTransmit(c)
    BY <1>0, <2>8 DEF ClientTransmit, Transmit
  <2> QED BY <1>3, <2>1, <2>2, <2>3, <2>4, <2>5, <2>6, <2>7, <2>8 DEF ClientHandlerStep
<1> QED BY <1>1, <1>2, <1>3 DEF ClientStep

LEMMA ConnFrame ==
  ASSUME EndpointAssumption, TypeInv, NEW i \in ConnIDs, ConnStep(i)
  PROVE  /\ UNCHANGED <<id, addr, written>>
         /\ \A d \in Endpoints : d # i => Untouched(d)
<1>0. i \in Endpoints
  BY DEF Endpoints
<1> USE DEF TypeInv, TypeOK, EndpointTypeOK, txVars, rxVars, ctlVars, Untouched
<1>1. CASE ConnExit(i) \/ ConnTimeout(i) \/ ConnReport(i) \/ ConnIdle(i)
  BY <1>0, <1>1 DEF ConnExit, ConnTimeout, ConnReport, ConnIdle, SeeBroadcast
<1>2. CASE ConnShortData(i)
  BY <1>0, <1>2 DEF ConnShortData, HandleShortData
<1>3. CASE ConnData(i)
  BY <1>0, <1>3 DEF ConnData, HandleData, SaveData
<1>4. CASE ConnDeliver(i)
  BY <1>0, <1>4 DEF ConnDeliver, DeliverNext
<1>5. CASE ConnEndDelivery(i)
  BY <1>0, <1>5 DEF ConnEndDelivery, EndDelivery
<1>6. CASE ConnAck(i)
  BY <1>0, <1>6 DEF ConnAck, HandleAck
<1>7. CASE ConnEpoch(i)
  BY <1>0, <1>7 DEF ConnEpoch, Epoch
<1>8. CASE ConnTransmit(i)
  BY <1>0, <1>8 DEF ConnTransmit, Transmit, SeeBroadcast
<1> QED BY <1>1, <1>2, <1>3, <1>4, <1>5, <1>6, <1>7, <1>8 DEF ConnStep
\* handle touches no client.
LEMMA HandleFrame ==
  ASSUME EndpointAssumption, TypeInv, HandleStep
  PROVE  /\ UNCHANGED <<id, tbuffer, rbuffer, delivered>>
         /\ \A c \in Clients : Untouched(c)
<1>0. Clients \cap ConnIDs = {} /\ Clients \subseteq Endpoints
  BY Kinds DEF Endpoints
<1> USE DEF TypeInv, TypeOK, EndpointTypeOK, ServerTypeOK, endpointVars, txVars, rxVars, ctlVars, Untouched
<1>1. CASE HandleDuplicateConnect
  BY <1>1 DEF HandleDuplicateConnect
<1>2. CASE HandleConnect
  BY <1>0, <1>2 DEF HandleConnect
<1>3. CASE HandleRoute
  BY <1>3 DEF HandleRoute
<1>4. CASE HandleOutgoing
  <2>1. PICK i : i = Head(outgoing).conn
    OBVIOUS
  <2>2. PICK x : x = Head(outgoing).data
    OBVIOUS
  <2>3. /\ UNCHANGED <<id, tbuffer, rbuffer, delivered, hpc, status>>
        /\ IF i \in clients THEN /\ tmsg' = [tmsg EXCEPT ![i] = Append(@, x)]
                                /\ written' = [written EXCEPT ![i] = Append(@, x)]
                           ELSE UNCHANGED <<tmsg, written>>
    BY <1>4, <2>1, <2>2 DEF HandleOutgoing
  <2>4. i \in clients => i \notin Clients
    BY <1>0
  <2> QED BY <1>0, <2>3, <2>4
<1>5. CASE HandleCls
  <2>1. PICK i : i = Head(cls)
    OBVIOUS
  <2>2. /\ UNCHANGED <<id, txVars, rxVars, hpc>>
        /\ status' = status \/ (i \in clients /\ status' = [status EXCEPT ![i] = "startClosing"])
    BY <1>5, <2>1 DEF HandleCls
  <2>3. i \in clients => i \notin Clients
    BY <1>0
  <2> QED BY <1>0, <2>2, <2>3
<1> QED BY <1>1, <1>2, <1>3, <1>4, <1>5 DEF HandleStep

\* The server's application and receiver touch no endpoint.
LEMMA ServerFrame ==
  ASSUME ServerAppStep \/ ServerReceiverStep
  PROVE  UNCHANGED <<id, addr, txVars, rxVars, ctlVars, incoming>>
BY DEF ServerAppStep, ServerReadData, ServerReadError, ServerWrite, CloseConn, ServerClose,
       ServerCloseSocket, ServerCloseReturns, ServerReceiverStep, ServerReceive, ServerSocketClosed,
       endpointVars

-----------------------------------------------------------------------------
\* Nothing is stored or delivered but what was read whole.
LEMMA IntactKeep ==
  ASSUME IntactInv, UNCHANGED delivered,
         \A a \in Elems(sincoming') : a \in Elems(sincoming) \/ a.msg.data \notin Oversize,
         \A e \in Endpoints : \A m \in Elems(incoming'[e]) :
            m \in Elems(incoming[e]) \/ m.data \notin Oversize,
         \A e \in Endpoints : \A r \in rbuffer'[e] :
            r \in rbuffer[e] \/ (r.fit # "short" /\ r.data \notin Oversize)
  PROVE  IntactInv'
<1>1. NothingCorrupt'
  BY DEF IntactInv, NothingCorrupt
<1> QED BY <1>1 DEF IntactInv

LEMMA DataIntact ==
  ASSUME EndpointTypeOK, IntactInv, NEW e \in Endpoints, HandleData(e), UNCHANGED sincoming
  PROVE  IntactInv'
<1>0. PICK m : m = Head(incoming[e])
  OBVIOUS
<1> DEFINE r1 == [seq |-> m.seq, data |-> m.data, fit |-> m.fit]
<1>1. /\ Dequeue(e, "Data") /\ UNCHANGED delivered /\ m.fit # "short"
      /\ rbuffer' = [rbuffer EXCEPT ![e] = IF \E r \in @ : r.seq = m.seq THEN @ ELSE @ \cup {r1}]
  BY <1>0 DEF HandleData, SaveData
<1>2. /\ \A d \in Endpoints : Elems(incoming'[d]) \subseteq Elems(incoming[d])
      /\ m \in Elems(incoming[e])
  BY <1>0, <1>1, DequeueElems
<1>3. m.data \notin Oversize
  BY <1>2 DEF IntactInv
<1>4. r1.fit = m.fit /\ r1.data = m.data
  OBVIOUS
<1> HIDE DEF r1
<1>5. \A d \in Endpoints : \A r \in rbuffer'[d] : r \in rbuffer[d] \/ r = r1
  BY <1>1 DEF EndpointTypeOK
<1> QED BY <1>1, <1>2, <1>3, <1>4, <1>5, IntactKeep

LEMMA DeliverIntact ==
  ASSUME EndpointTypeOK, IntactInv, NEW e \in Endpoints, NEW r \in rbuffer[e], DeliverNext(e, r),
         UNCHANGED sincoming
  PROVE  IntactInv'
<1> DEFINE x == [data |-> r.data, fit |-> r.fit]
           D == [data: Payload, fit: Fit]
<1>1. /\ rbuffer' = [rbuffer EXCEPT ![e] = {q \in @ : q.seq # r.seq}]
      /\ delivered' = [delivered EXCEPT ![e] = Append(@, x)]
      /\ UNCHANGED incoming
  BY DEF DeliverNext
<1>2. x.data = r.data /\ x.fit = r.fit /\ x \in D
  BY DEF EndpointTypeOK
<1>3. delivered \in [Endpoints -> Seq(D)]
  BY DEF EndpointTypeOK
<1> HIDE DEF x, D
<1>4. x.fit # "short" /\ x.data \notin Oversize
  BY <1>2 DEF IntactInv
<1>5. \A d \in Endpoints : rbuffer'[d] \subseteq rbuffer[d]
  BY <1>1 DEF EndpointTypeOK
<1>6. NothingCorrupt'
  <2> SUFFICES ASSUME NEW d \in Endpoints, NEW k \in 1 .. Len(delivered'[d])
               PROVE  delivered'[d][k].fit # "short" /\ delivered'[d][k].data \notin Oversize
    BY DEF NothingCorrupt
  <2>1. CASE d = e /\ k = Len(delivered[e]) + 1
    <3>1. delivered'[d][k] = x
      BY <1>1, <1>2, <1>3, <2>1
    <3> QED BY <1>4, <3>1
  <2>2. CASE ~(d = e /\ k = Len(delivered[e]) + 1)
    <3>1. k \in 1 .. Len(delivered[d]) /\ delivered'[d][k] = delivered[d][k]
      BY <1>1, <1>2, <1>3, <2>2
    <3> QED BY <3>1 DEF IntactInv, NothingCorrupt
  <2> QED BY <2>1, <2>2
<1> QED BY <1>1, <1>5, <1>6 DEF IntactInv

LEMMA ClientIntact ==
  ASSUME EndpointAssumption, TypeInv, IntactInv, NEW c \in Clients, ClientStep(c), UNCHANGED serverVars
  PROVE  IntactInv'
<1>0. c \in Endpoints /\ EndpointTypeOK /\ UNCHANGED sincoming
  BY DEF Endpoints, TypeInv, TypeOK, serverVars
<1>1. CASE ClientAppStep(c)
  <2>1. UNCHANGED <<incoming, rbuffer, delivered>>
    BY <1>1 DEF ClientAppStep, NewClient, NewClientReturns, ClientReadData, ClientReadError, ClientWrite,
                ClientCloseGet, ClientCloseSet, ClientCloseSocket, ClientCloseReturns, endpointVars, rxVars
  <2> QED BY <1>0, <2>1, IntactKeep
<1>2. ASSUME NEW p \in net, ClientReceive(c, p) PROVE IntactInv'
  <2>1. UNCHANGED <<rbuffer, delivered>> /\ p.msg.data \notin Oversize
    BY <1>2 DEF ClientReceive, rxVars
  <2>2. PICK m \in Received(p) : incoming' = [incoming EXCEPT ![c] = Append(@, m)]
    BY <1>2 DEF ClientReceive
  <2>3. p \in Packet
    BY <1>0 DEF EndpointTypeOK, Packet
  <2>4. m.data \notin Oversize
    BY <2>1, <2>3, ReceivedFields
  <2>5. Elems(Append(incoming[c], m)) = Elems(incoming[c]) \cup {m}
    BY <1>0, ElemsAppend DEF EndpointTypeOK
  <2>6. \A d \in Endpoints : \A x \in Elems(incoming'[d]) : x \in Elems(incoming[d]) \/ x = m
    BY <1>0, <2>2, <2>5 DEF EndpointTypeOK
  <2> QED BY <1>0, <2>1, <2>4, <2>6, IntactKeep
<1>3. CASE ReceiverError(c)
  <2>1. UNCHANGED <<incoming, rbuffer, delivered>>
    BY <1>3 DEF ReceiverError, rxVars
  <2> QED BY <1>0, <2>1, IntactKeep
<1>4. CASE ClientHandlerExit(c) \/ ClientEndDelivery(c) \/ ClientEpoch(c) \/ ClientLost(c)
           \/ ClientTransmit(c)
  <2>1. UNCHANGED <<incoming, rbuffer, delivered>>
    BY <1>4 DEF ClientHandlerExit, ClientEndDelivery, EndDelivery, ClientEpoch, Epoch, ClientLost,
                ClientTransmit, Transmit, rxVars
  <2> QED BY <1>0, <2>1, IntactKeep
<1>5. CASE ClientShortData(c) \/ ClientAck(c)
  <2>1. UNCHANGED <<rbuffer, delivered>> /\ \E t : Dequeue(c, t)
    BY <1>5 DEF ClientShortData, HandleShortData, ClientAck, HandleAck, rxVars
  <2>2. \A d \in Endpoints : Elems(incoming'[d]) \subseteq Elems(incoming[d])
    BY <1>0, <2>1, DequeueElems
  <2> QED BY <1>0, <2>1, <2>2, IntactKeep
<1>6. CASE ClientData(c)
  BY <1>0, <1>6, DataIntact DEF ClientData
<1>7. CASE ClientDeliver(c)
  BY <1>0, <1>7, DeliverIntact DEF ClientDeliver
<1> QED
  BY <1>1, <1>2, <1>3, <1>4, <1>5, <1>6, <1>7
     DEF ClientStep, ClientReceiverStep, ClientSocketClosed, ClientOversize, ClientRefused,
         ClientHandlerStep

LEMMA ServerIntact ==
  ASSUME EndpointAssumption, TypeInv, ConnInv, IntactInv, ServerStep
  PROVE  IntactInv'
<1>t. EndpointTypeOK
  BY DEF TypeInv, TypeOK
<1>1. CASE ServerAppStep \/ ServerSocketClosed
  <2>1. UNCHANGED <<incoming, rbuffer, delivered, sincoming>>
    BY <1>1 DEF ServerAppStep, ServerReadData, ServerReadError, ServerWrite, CloseConn, ServerClose,
                ServerCloseSocket, ServerCloseReturns, ServerSocketClosed, endpointVars, rxVars, serverVars
  <2> QED BY <2>1, IntactKeep
<1>2. ASSUME NEW p \in net, ServerReceive(p) PROVE IntactInv'
  <2> DEFINE am(m) == [from |-> p.from, msg |-> m]
             SIn == [from: Clients \cup {Server}, msg: Message]
  <2>1. UNCHANGED <<incoming, rbuffer, delivered>> /\ p.msg.data \notin Oversize
    BY <1>2 DEF ServerReceive, rxVars
  <2>2. PICK m \in Received(p) : sincoming' = Append(sincoming, am(m))
    BY <1>2 DEF ServerReceive
  <2>3. p \in Packet
    BY <1>t DEF EndpointTypeOK, Packet
  <2>4. m.data \notin Oversize
    BY <2>1, <2>3, ReceivedFields
  <2>5. am(m).msg = m
    OBVIOUS
  <2>6. sincoming \in Seq(SIn)
    BY DEF TypeInv, TypeOK, ServerTypeOK
  <2> HIDE DEF am, SIn
  <2>7. Elems(sincoming') = Elems(sincoming) \cup {am(m)}
    BY <2>2, <2>6, ElemsAppend
  <2> QED BY <2>1, <2>4, <2>5, <2>7, IntactKeep
<1>3. CASE HandleDuplicateConnect \/ HandleConnect
  <2>1. UNCHANGED <<incoming, rbuffer, delivered>> /\ Arrived("Connect")
    BY <1>3 DEF HandleDuplicateConnect, HandleConnect, endpointVars, rxVars
  <2>2. Elems(sincoming') \subseteq Elems(sincoming)
    BY <2>1, ArrivedElems
  <2> QED BY <2>1, <2>2, IntactKeep
<1>4. CASE HandleRoute
  <2> DEFINE m == Head(sincoming).msg
  <2>1. UNCHANGED <<rbuffer, delivered>> /\ Arrived("other")
    BY <1>4 DEF HandleRoute, rxVars
  <2>2. /\ Elems(sincoming') \subseteq Elems(sincoming)
        /\ Head(sincoming) \in Elems(sincoming)
    BY <2>1, ArrivedElems
  <2>3. m.data \notin Oversize
    BY <2>2 DEF IntactInv
  <2>4. incoming' = incoming \/ (m.conn \in clients /\ incoming' = [incoming EXCEPT ![m.conn] = Append(@, m)])
    BY <1>4 DEF HandleRoute
  <2>5. m.conn \in clients => m.conn \in Endpoints
    BY DEF TypeInv, TypeOK, ServerTypeOK, Endpoints
  <2> HIDE DEF m
  <2>6. \A d \in Endpoints : \A x \in Elems(incoming'[d]) : x \in Elems(incoming[d]) \/ x = m
    <3>1. CASE incoming' = incoming
      BY <3>1
    <3>2. CASE m.conn \in clients /\ incoming' = [incoming EXCEPT ![m.conn] = Append(@, m)]
      <4>1. Elems(Append(incoming[m.conn], m)) = Elems(incoming[m.conn]) \cup {m}
        BY <1>t, <2>5, <3>2, ElemsAppend DEF EndpointTypeOK
      <4> QED BY <1>t, <3>2, <4>1 DEF EndpointTypeOK
    <3> QED BY <2>4, <3>1, <3>2
  <2> QED BY <2>1, <2>2, <2>3, <2>6, IntactKeep
<1>5. CASE HandleOutgoing \/ HandleCls
  <2>1. UNCHANGED <<incoming, rbuffer, delivered, sincoming>>
    BY <1>5 DEF HandleOutgoing, HandleCls, rxVars
  <2> QED BY <2>1, IntactKeep
<1>6. ASSUME NEW i \in ConnIDs, ConnStep(i) PROVE IntactInv'
  <2>0. i \in Endpoints
    BY DEF Endpoints
  <2>s. UNCHANGED sincoming
    BY <1>6 DEF ConnStep, ConnExit, ConnShortData, ConnData, ConnDeliver, ConnEndDelivery, ConnAck,
                ConnEpoch, ConnTimeout, ConnReport, ConnTransmit, ConnIdle, serverVars
  <2>1. CASE ConnExit(i) \/ ConnEndDelivery(i) \/ ConnEpoch(i) \/ ConnTimeout(i) \/ ConnReport(i)
             \/ ConnTransmit(i) \/ ConnIdle(i)
    <3>1. UNCHANGED <<incoming, rbuffer, delivered>>
      BY <2>1 DEF ConnExit, ConnEndDelivery, EndDelivery, ConnEpoch, Epoch, ConnTimeout, ConnReport,
                  ConnTransmit, Transmit, ConnIdle, rxVars
    <3> QED BY <2>s, <3>1, IntactKeep
  <2>2. CASE ConnShortData(i) \/ ConnAck(i)
    <3>1. UNCHANGED <<rbuffer, delivered>> /\ \E t : Dequeue(i, t)
      BY <2>2 DEF ConnShortData, HandleShortData, ConnAck, HandleAck, rxVars
    <3>2. \A d \in Endpoints : Elems(incoming'[d]) \subseteq Elems(incoming[d])
      BY <1>t, <2>0, <3>1, DequeueElems
    <3> QED BY <2>s, <3>1, <3>2, IntactKeep
  <2>3. CASE ConnData(i)
    BY <1>t, <2>0, <2>3, <2>s, DataIntact DEF ConnData
  <2>4. CASE ConnDeliver(i)
    BY <1>t, <2>0, <2>4, <2>s, DeliverIntact DEF ConnDeliver
  <2> QED BY <1>6, <2>1, <2>2, <2>3, <2>4 DEF ConnStep
<1> QED
  BY <1>1, <1>2, <1>3, <1>4, <1>5, <1>6 DEF ServerStep, ServerReceiverStep, HandleStep

LEMMA IntactInit == Init => IntactInv
<1> SUFFICES ASSUME Init PROVE IntactInv
  OBVIOUS
<1> USE DEF Init, EndpointInit, ServerInit
<1>1. NothingCorrupt
  BY DEF NothingCorrupt
<1> QED BY <1>1, ElemsEmpty DEF IntactInv

LEMMA IntactNext ==
  ASSUME EndpointAssumption, TypeInv, ConnInv, IntactInv, [Next]_vars
  PROVE  IntactInv'
<1>1. ASSUME NEW c \in Clients, ClientStep(c), UNCHANGED serverVars PROVE IntactInv'
  BY <1>1, ClientIntact
<1>2. CASE ServerStep
  BY <1>2, ServerIntact
<1>3. CASE UNCHANGED <<incoming, rxVars, serverVars>>
  <2>1. UNCHANGED <<incoming, rbuffer, delivered, sincoming>>
    BY <1>3 DEF rxVars, serverVars
  <2> QED BY <2>1, IntactKeep
<1> QED BY <1>1, <1>2, <1>3 DEF Next, vars, endpointVars

\* A datum that was shortened on the way, or whose packet is longer than the buffer
\* of ReadMessage, is never handed to an application, at either end.
THEOREM OnlyWhole == Spec => []NothingCorrupt
<1>1. TypeInv /\ ConnInv /\ IntactInv /\ [Next]_vars => (TypeInv /\ ConnInv /\ IntactInv)'
  BY TypeNext, ConnNext, IntactNext, EndpointAssumption
<1>2. Init => TypeInv /\ ConnInv /\ IntactInv
  BY TypeInit, ConnInit, IntactInit, EndpointAssumption
<1>3. IntactInv => NothingCorrupt
  BY DEF IntactInv
<1> QED BY <1>1, <1>2, <1>3, PTL DEF Spec

-----------------------------------------------------------------------------
\* What a granted close leaves behind.
LEMMA CloseKeep ==
  ASSUME CloseInv,
         \A e \in Endpoints : hpc'[e] = "done" => hpc[e] = "done",
         UNCHANGED <<tbuffer, capp>>,
         \A c \in Clients : Untouched(c)
  PROVE  CloseInv'
BY DEF CloseInv, Drained, Quit, Untouched

LEMMA OwnClose ==
  ASSUME EndpointAssumption, TypeInv, ConnInv, CloseInv, NEW c \in Clients, ClientStep(c)
  PROVE  /\ hpc'[c] = "done" => tbuffer'[c] = {} /\ tmsg'[c] = <<>>
         /\ status'[c] = "startClosing" \/ hpc'[c] = "done" => capp'[c] \in {"closing", "closed"}
<1>0. /\ c \in Endpoints
      /\ hpc[c] = "done" => tbuffer[c] = {} /\ tmsg[c] = <<>>
      /\ status[c] = "startClosing" \/ hpc[c] = "done" => capp[c] \in {"closing", "closed"}
      /\ capp[c] = "new" => hpc[c] = "off"
  BY DEF Endpoints, CloseInv, Drained, Quit, ConnInv, AppOK
<1> USE DEF TypeInv, TypeOK, EndpointTypeOK, ClientTypeOK, endpointVars, clientVars, txVars, rxVars, ctlVars
<1>1. CASE ClientAppStep(c)
  <2>1. CASE NewClient(c)
    BY <1>0, <2>1 DEF NewClient
  <2>2. CASE NewClientReturns(c) \/ ClientReadData(c) \/ ClientReadError(c) \/ ClientCloseGet(c)
    BY <1>0, <2>2 DEF NewClientReturns, ClientReadData, ClientReadError, ClientCloseGet
  <2>3. CASE \E p \in Payload : ClientWrite(c, p)
    BY <1>0, <2>3 DEF ClientWrite
  <2>4. CASE ClientCloseSet(c) \/ ClientCloseReturns(c) \/ ClientCloseSocket(c)
    BY <1>0, <2>4 DEF ClientCloseSet, ClientCloseReturns, ClientCloseSocket
  <2> QED BY <1>1, <2>1, <2>2, <2>3, <2>4 DEF ClientAppStep
<1>2. CASE ClientReceiverStep(c)
  BY <1>0, <1>2 DEF ClientReceiverStep, ClientReceive, ClientSocketClosed, ClientOversize, ClientRefused,
                    ReceiverError
<1>3. CASE ClientHandlerStep(c)
  <2>1. CASE ClientHandlerExit(c) \/ ClientLost(c)
    BY <1>0, <2>1 DEF ClientHandlerExit, CloseReady, ClientLost
  <2>2. CASE ClientShortData(c) \/ ClientData(c)
    BY <1>0, <2>2 DEF ClientShortData, HandleShortData, ClientData, HandleData, Dequeue, AtSelect
  <2>3. CASE ClientDeliver(c) \/ ClientEndDelivery(c)
    BY <1>0, <2>3 DEF ClientDeliver, DeliverNext, ClientEndDelivery, EndDelivery
  <2>4. CASE ClientAck(c)
    BY <1>0, <2>4 DEF ClientAck, HandleAck, Dequeue, AtSelect
  <2>5. CASE ClientEpoch(c)
    BY <1>0, <2>5 DEF ClientEpoch, Epoch, AtSelect
  <2>6. CASE ClientTransmit(c)
    BY <1>0, <2>6 DEF ClientTransmit, Transmit, AtSelect
  <2> QED BY <1>3, <2>1, <2>2, <2>3, <2>4, <2>5, <2>6 DEF ClientHandlerStep
<1> QED BY <1>1, <1>2, <1>3 DEF ClientStep

LEMMA ConnClose ==
  ASSUME EndpointAssumption, TypeInv, CloseInv, NEW i \in ConnIDs, ConnStep(i)
  PROVE  hpc'[i] = "done" => tbuffer'[i] = {}
<1>0. i \in Endpoints /\ (hpc[i] = "done" => tbuffer[i] = {})
  BY DEF Endpoints, CloseInv, Drained
<1> USE DEF TypeInv, TypeOK, EndpointTypeOK, txVars, rxVars, ctlVars
<1>1. CASE ConnExit(i) \/ ConnTimeout(i) \/ ConnReport(i) \/ ConnIdle(i)
  BY <1>0, <1>1 DEF ConnExit, CloseReady, ConnTimeout, ConnReport, ConnIdle, SeeBroadcast
<1>2. CASE ConnShortData(i) \/ ConnData(i)
  BY <1>0, <1>2 DEF ConnShortData, HandleShortData, ConnData, HandleData, Dequeue, AtSelect
<1>3. CASE ConnDeliver(i) \/ ConnEndDelivery(i)
  BY <1>0, <1>3 DEF ConnDeliver, DeliverNext, ConnEndDelivery, EndDelivery
<1>4. CASE ConnAck(i)
  BY <1>0, <1>4 DEF ConnAck, HandleAck, Dequeue, AtSelect
<1>5. CASE ConnEpoch(i)
  BY <1>0, <1>5 DEF ConnEpoch, Epoch, AtSelect
<1>6. CASE ConnTransmit(i)
  BY <1>0, <1>6 DEF ConnTransmit, Transmit, AtSelect
<1> QED BY <1>1, <1>2, <1>3, <1>4, <1>5, <1>6 DEF ConnStep

LEMMA CloseInit == Init => CloseInv
BY DEF Init, EndpointInit, ClientInit, CloseInv, Drained, Quit, Endpoints

LEMMA CloseNext ==
  ASSUME EndpointAssumption, TypeInv, ConnInv, CloseInv, [Next]_vars
  PROVE  CloseInv'
<1>k. Clients \cap ConnIDs = {} /\ Endpoints = Clients \cup ConnIDs
  BY Kinds DEF Endpoints
<1>1. ASSUME NEW c \in Clients, ClientStep(c) PROVE CloseInv'
  <2>1. /\ \A d \in Endpoints : d # c => Untouched(d)
        /\ \A d \in Clients : d # c => capp'[d] = capp[d]
    BY <1>1, ClientFrame
  <2>2. /\ hpc'[c] = "done" => tbuffer'[c] = {} /\ tmsg'[c] = <<>>
        /\ status'[c] = "startClosing" \/ hpc'[c] = "done" => capp'[c] \in {"closing", "closed"}
    BY <1>1, OwnClose
  <2>3. Drained'
    BY <2>1, <2>2 DEF Drained, CloseInv, Untouched
  <2>4. Quit'
    BY <1>k, <2>1, <2>2 DEF Quit, CloseInv, Untouched
  <2> QED BY <2>3, <2>4 DEF CloseInv
<1>2. ASSUME NEW i \in ConnIDs, ConnStep(i), UNCHANGED clientVars PROVE CloseInv'
  <2>1. \A d \in Endpoints : d # i => Untouched(d)
    BY <1>2, ConnFrame
  <2>2. hpc'[i] = "done" => tbuffer'[i] = {}
    BY <1>2, ConnClose
  <2>3. Drained'
    BY <2>1, <2>2 DEF Drained, CloseInv, Untouched
  <2>4. Quit'
    BY <1>k, <1>2, <2>1, <2>2 DEF Quit, CloseInv, Untouched, clientVars
  <2> QED BY <2>3, <2>4 DEF CloseInv
<1>3. CASE HandleStep /\ UNCHANGED clientVars
  <2>1. UNCHANGED tbuffer /\ \A c \in Clients : Untouched(c)
    BY <1>3, HandleFrame
  <2>2. hpc' = hpc \/ \E i \in ConnIDs : hpc' = [hpc EXCEPT ![i] = "loop"]
    BY <1>3 DEF HandleStep, HandleDuplicateConnect, HandleConnect, HandleRoute, HandleOutgoing, HandleCls,
                endpointVars, ctlVars
  <2>3. \A e \in Endpoints : hpc'[e] = "done" => hpc[e] = "done"
    BY <2>2 DEF TypeInv, TypeOK, EndpointTypeOK
  <2> QED BY <1>3, <2>1, <2>3, CloseKeep DEF clientVars
<1>4. CASE UNCHANGED <<id, txVars, rxVars, ctlVars, clientVars>>
  <2>1. \A e \in Endpoints : Untouched(e)
    BY <1>4 DEF txVars, rxVars, ctlVars, Untouched
  <2> QED BY <1>4, <1>k, <2>1, CloseKeep DEF txVars, ctlVars, clientVars
<1>5. CASE (ServerAppStep \/ ServerReceiverStep) /\ UNCHANGED clientVars
  BY <1>4, <1>5, ServerFrame
<1> QED BY <1>1, <1>2, <1>3, <1>4, <1>5 DEF Next, ServerStep, vars, endpointVars

\* An endpoint that waits for no acknowledgement has had everything it sent delivered.
LEMMA Flushed ==
  ASSUME EndpointAssumption, TypeInv, ConnInv, DataInv, AckInv, NEW a \in Endpoints, NEW b \in Endpoints,
         Linked(a), Peer(a) = b, Linked(b), Peer(b) = a, tbuffer[a] = {}
  PROVE  rsq[b] = tsq[a] /\ Data(b) = SubSeq(written[a], 1, tsq[a] - 1)
<1>t. /\ tsq[a] \in Nat /\ rsq[b] \in Nat /\ written[a] \in Seq(Payload)
      /\ delivered[b] \in Seq([data: Payload, fit: Fit])
  BY DEF TypeInv, TypeOK, EndpointTypeOK
<1>d. /\ rsq[b] = Len(delivered[b]) + 1
      /\ \A k \in 1 .. Len(delivered[b]) : k \in 1 .. (tsq[a] - 1) /\ delivered[b][k].data = written[a][k]
  BY DEF DataInv, DeliveredOK, Delivered, Sound, Sent
<1>u. /\ tsq[a] >= 1
      /\ Len(written[a]) >= tsq[a] - 1
  <2>1. tmsg[a] \in Seq(Payload) /\ Unsent(a)
    BY DEF DataInv, TmsgOK, TypeInv, TypeOK, EndpointTypeOK
  <2>2. Len(tmsg[a]) \in Nat
    BY <2>1
  <2> QED BY <1>t, <2>1, <2>2 DEF Unsent
<1>1. hpc[b] # "deliver"
  BY LoopKept DEF Kept
<1>2. \A n \in 1 .. (tsq[a] - 1) : Has(b, n)
  BY DEF AckInv, ForgottenAcks, Kept, Reached, Acked
<1>3. ~Has(b, rsq[b])
  BY <1>1, <1>t DEF AckInv, DeliveryOK, Has
<1>4. rsq[b] >= tsq[a]
  <2>1. Len(delivered[b]) \in Nat
    BY <1>t
  <2> QED BY <1>2, <1>3, <1>d, <1>t, <2>1
<1>5. rsq[b] = tsq[a]
  <2>1. Len(delivered[b]) \in Nat
    BY <1>t
  <2>2. CASE Len(delivered[b]) = 0
    BY <1>4, <1>d, <1>t, <1>u, <2>2
  <2>3. CASE Len(delivered[b]) > 0
    <3>1. Len(delivered[b]) \in 1 .. (tsq[a] - 1)
      BY <1>d, <2>1, <2>3
    <3> QED BY <1>4, <1>d, <1>t, <2>1, <3>1
  <2> QED BY <2>1, <2>2, <2>3
<1>6. Data(b) = SubSeq(written[a], 1, tsq[a] - 1)
  <2>1. Len(delivered[b]) = tsq[a] - 1
    BY <1>5, <1>d, <1>t
  <2>2. SubSeq(written[a], 1, tsq[a] - 1) = [k \in 1 .. (tsq[a] - 1) |-> written[a][k]]
    BY <1>t, <1>u
  <2> QED BY <1>d, <2>1, <2>2 DEF Data
<1> QED BY <1>5, <1>6

LEMMA CloseImplies ==
  ASSUME EndpointAssumption, TypeInv, ConnInv, DataInv, AckInv, CloseInv
  PROVE  CloseFlushes
<1> SUFFICES ASSUME NEW p \in Pairs, hpc[p[1]] = "done"
             PROVE  /\ Data(p[2]) = SubSeq(written[p[1]], 1, tsq[p[1]] - 1)
                    /\ p[1] \in Clients => Data(p[2]) = written[p[1]]
  BY DEF CloseFlushes
<1>1. PICK a \in Endpoints, b \in Endpoints :
         a = p[1] /\ b = p[2] /\ Linked(a) /\ Peer(a) = b /\ Linked(b) /\ Peer(b) = a
  BY PairLinked
<1>2. tbuffer[a] = {} /\ (a \in Clients => tmsg[a] = <<>>)
  BY <1>1 DEF CloseInv, Drained, Quit
<1>3. Data(b) = SubSeq(written[a], 1, tsq[a] - 1)
  BY <1>1, <1>2, Flushed
<1>4. ASSUME a \in Clients PROVE Data(b) = written[a]
  <2>1. written[a] \in Seq(Payload) /\ tsq[a] \in Nat /\ Len(tmsg[a]) = 0
    BY <1>2, <1>4 DEF TypeInv, TypeOK, EndpointTypeOK
  <2>2. Len(written[a]) = tsq[a] - 1
    BY <2>1 DEF DataInv, TmsgOK, Unsent
  <2> QED BY <1>3, <2>1, <2>2
<1> QED BY <1>1, <1>3, <1>4

\* A close is granted only when all has arrived: when handler or handleClient ends on
\* request, whatever it was given to send is in the peer's rmsg channel.
THEOREM ClosesFlushed == Spec => []CloseFlushes
<1>1. Safe /\ CloseInv /\ [Next]_vars => (Safe /\ CloseInv)'
  BY SafeNext, CloseNext, EndpointAssumption DEF Safe
<1>2. Init => Safe /\ CloseInv
  BY SafeInit, CloseInit
<1>3. Safe /\ CloseInv => CloseFlushes
  BY CloseImplies, EndpointAssumption DEF Safe
<1> QED BY <1>1, <1>2, <1>3, PTL DEF Spec

-----------------------------------------------------------------------------
\* What handle waits for.
Running(i) == hpc[i] \in {"loop", "deliver"}

Ended(i) == hpc[i] \in {"report", "done", "lost"}

LEMMA WaitKeep ==
  ASSUME EndpointAssumption, TypeInv, WaitInv, UNCHANGED <<clients, shandle>>,
         \A i \in ConnIDs : Running(i)' => Running(i),
         \A i \in ConnIDs : Ended(i) => Ended(i)',
         \A i \in Elems(cls') : i \in Elems(cls) \/ Ended(i)'
  PROVE  WaitInv'
<1>1. Elems(cls) \subseteq ConnIDs
  BY ElemsType DEF TypeInv, TypeOK, ServerTypeOK
<1> QED BY <1>1 DEF WaitInv, Running, Ended

\* A handleClient step: it keeps running, or it has ended and asks to be forgotten.
LEMMA ConnWait ==
  ASSUME EndpointAssumption, TypeInv, WaitInv, NEW i \in ConnIDs, ConnStep(i)
  PROVE  WaitInv'
<1>0. i \in Endpoints /\ \A j \in ConnIDs : j \in Endpoints
  BY DEF Endpoints
<1>t. hpc \in [Endpoints -> HandlerPc] /\ cls \in Seq(ConnIDs)
  BY DEF TypeInv, TypeOK, EndpointTypeOK, ServerTypeOK
<1>1. CASE ConnExit(i) \/ ConnTimeout(i)
  <2>1. PICK s \in {"done", "report"} : hpc' = [hpc EXCEPT ![i] = s]
    BY <1>1 DEF ConnExit, ConnTimeout
  <2>2. cls' = Append(cls, i) /\ UNCHANGED <<clients, shandle>>
    BY <1>1 DEF ConnExit, ConnTimeout
  <2>3. Elems(cls') = Elems(cls) \cup {i}
    BY <1>t, <2>2, ElemsAppend
  <2>4. /\ \A j \in ConnIDs : Running(j)' => Running(j)
        /\ \A j \in ConnIDs : Ended(j) => Ended(j)'
        /\ Ended(i)'
    BY <1>0, <1>t, <2>1 DEF Running, Ended
  <2> QED BY <2>2, <2>3, <2>4, WaitKeep
<1>2. CASE ~(ConnExit(i) \/ ConnTimeout(i))
  <2>1. UNCHANGED <<clients, shandle, cls>>
    BY <1>2 DEF ConnStep, ConnShortData, ConnData, ConnDeliver, ConnEndDelivery, ConnAck, ConnEpoch,
                ConnReport, ConnTransmit, ConnIdle, serverVars
  <2>2. \/ hpc' = hpc
        \/ Running(i) /\ \E s \in {"loop", "deliver"} : hpc' = [hpc EXCEPT ![i] = s]
        \/ hpc[i] = "report" /\ hpc' = [hpc EXCEPT ![i] = "lost"]
    BY <1>2 DEF ConnStep, ConnShortData, HandleShortData, ConnData, HandleData, Dequeue, AtSelect,
                ConnDeliver, DeliverNext, ConnEndDelivery, EndDelivery, ConnAck, HandleAck, ConnEpoch, Epoch,
                ConnReport, ConnTransmit, Transmit, ConnIdle, ctlVars, Running
  <2>3. /\ \A j \in ConnIDs : Running(j)' => Running(j)
        /\ \A j \in ConnIDs : Ended(j) => Ended(j)'
    BY <1>0, <1>t, <2>2 DEF Running, Ended
  <2> QED BY <2>1, <2>3, WaitKeep
<1> QED BY <1>1, <1>2

\* handle starts a handleClient when it puts the connection into the map, and takes
\* it out of the map when the handleClient has ended.
LEMMA HandleWait ==
  ASSUME EndpointAssumption, TypeInv, ConnInv, WaitInv, HandleStep
  PROVE  WaitInv'
<1>0. \A j \in ConnIDs : j \in Endpoints
  BY DEF Endpoints
<1>t. hpc \in [Endpoints -> HandlerPc] /\ cls \in Seq(ConnIDs)
  BY DEF TypeInv, TypeOK, EndpointTypeOK, ServerTypeOK
<1>1. CASE HandleDuplicateConnect \/ HandleRoute \/ HandleOutgoing
  <2>1. UNCHANGED <<clients, shandle, cls, hpc>>
    BY <1>1 DEF HandleDuplicateConnect, HandleRoute, HandleOutgoing, endpointVars, ctlVars
  <2> QED BY <2>1, WaitKeep DEF Running, Ended
<1>2. CASE HandleConnect
  <2>1. PICK i \in ConnIDs : /\ i = lastConnID
                             /\ clients' = clients \cup {i}
                             /\ hpc' = [hpc EXCEPT ![i] = "loop"]
                             /\ shandle = "run" /\ UNCHANGED <<shandle, cls>>
    BY <1>2 DEF HandleConnect, Arrived, HandleReady
  <2>2. hpc[i] = "off"
    <3>1. ~(i < lastConnID)
      BY <2>1 DEF TypeInv, TypeOK, ServerTypeOK, FirstConnID, EndpointAssumption
    <3> QED BY <3>1 DEF ConnInv, ConnOK
  <2>3. Elems(cls) \subseteq ConnIDs
    BY <1>t, ElemsType
  <2> QED BY <1>0, <1>t, <2>1, <2>2, <2>3 DEF WaitInv
<1>3. CASE HandleCls
  <2>1. PICK i : i = Head(cls)
    OBVIOUS
  <2>2. /\ cls # <<>> /\ cls' = Tail(cls)
        /\ clients' = clients \ {i}
        /\ UNCHANGED hpc
        /\ shandle' = "dead" => clients' = {} \/ shandle = "dead"
        /\ shandle = "run"
    BY <1>3, <2>1 DEF HandleCls, HandleReady
  <2>3. i \in Elems(cls) /\ Elems(cls') \subseteq Elems(cls)
    BY <1>t, <2>1, <2>2, ElemsTail
  <2> QED BY <2>2, <2>3 DEF WaitInv
<1> QED BY <1>1, <1>2, <1>3 DEF HandleStep

LEMMA WaitInit == Init => WaitInv
<1> SUFFICES ASSUME Init PROVE WaitInv
  OBVIOUS
<1>1. cls = <<>> /\ shandle = "run"
  BY DEF Init, ServerInit
<1>2. \A i \in ConnIDs : hpc[i] = "off"
  BY DEF Init, EndpointInit, Endpoints
<1> QED BY <1>1, <1>2, ElemsEmpty DEF WaitInv

LEMMA WaitNext ==
  ASSUME EndpointAssumption, "CloseConn" \notin ServerOps, TypeInv, ConnInv, WaitInv, [Next]_vars
  PROVE  WaitInv'
<1>0. Clients \cap ConnIDs = {} /\ \A i \in ConnIDs : i \in Endpoints
  BY Kinds DEF Endpoints
<1>1. ASSUME NEW c \in Clients, ClientStep(c), UNCHANGED serverVars PROVE WaitInv'
  <2>1. \A i \in ConnIDs : Untouched(i)
    BY <1>0, <1>1, ClientFrame
  <2>2. UNCHANGED <<clients, shandle, cls>>
    BY <1>1 DEF serverVars
  <2> QED BY <2>1, <2>2, WaitKeep DEF Untouched, Running, Ended
<1>2. CASE ServerAppStep \/ ServerReceiverStep
  <2>1. UNCHANGED hpc
    BY <1>2, ServerFrame DEF ctlVars
  <2>2. UNCHANGED <<clients, shandle, cls>>
    BY <1>2 DEF ServerAppStep, ServerReadData, ServerReadError, ServerWrite, CloseConn, ServerClose,
                ServerCloseSocket, ServerCloseReturns, ServerReceiverStep, ServerReceive,
                ServerSocketClosed, serverVars
  <2> QED BY <2>1, <2>2, WaitKeep DEF Running, Ended
<1>3. CASE HandleStep
  BY <1>3, HandleWait
<1>4. ASSUME NEW i \in ConnIDs, ConnStep(i) PROVE WaitInv'
  BY <1>4, ConnWait
<1>5. CASE UNCHANGED <<ctlVars, serverVars>>
  BY <1>5, WaitKeep DEF ctlVars, serverVars, Running, Ended
<1> QED BY <1>1, <1>2, <1>3, <1>4, <1>5 DEF Next, ServerStep, vars, endpointVars

\* Close waits for everyone: when handle returns, no handleClient is left in its loop,
\* provided the application has not called CloseConn, which takes a connection out of
\* the map while its handleClient goes on.
THEOREM CloseAwaitsAll ==
  ASSUME "CloseConn" \notin ServerOps PROVE Spec => []CloseWaits
<1>1. TypeInv /\ ConnInv /\ WaitInv /\ [Next]_vars => (TypeInv /\ ConnInv /\ WaitInv)'
  BY TypeNext, ConnNext, WaitNext, EndpointAssumption
<1>2. Init => TypeInv /\ ConnInv /\ WaitInv
  BY TypeInit, ConnInit, WaitInit, EndpointAssumption
<1>3. WaitInv => CloseWaits
  BY DEF WaitInv, CloseWaits
<1> QED BY <1>1, <1>2, <1>3, PTL DEF Spec

-----------------------------------------------------------------------------
(***************************************************************************)
(* The streams.  A linked endpoint writes one stream and reads another.    *)
(***************************************************************************)
OutStream(e) == IF e \in Clients THEN <<e, "up">> ELSE <<addr[e], "down">>

InStream(e) == IF e \in Clients THEN <<e, "down">> ELSE <<addr[e], "up">>

SentOn(s) == IF Writer(s) = -1 THEN <<>> ELSE written[Writer(s)]

ReceivedOn(s) == IF Reader(s) = -1 THEN <<>> ELSE Data(Reader(s))

FinishedOn(s) == Writer(s) # -1 /\ hpc[Writer(s)] = "done"

LEMMA StreamFields ==
  /\ streamSent = [s \in Streams |-> SentOn(s)]
  /\ streamReceived = [s \in Streams |-> ReceivedOn(s)]
  /\ streamFinished = [s \in Streams |-> FinishedOn(s)]
  /\ streamSent' = [s \in Streams |-> SentOn(s)']
  /\ streamReceived' = [s \in Streams |-> ReceivedOn(s)']
  /\ streamFinished' = [s \in Streams |-> FinishedOn(s)']
BY DEF Streams, streamSent, streamReceived, streamFinished, SentOn, ReceivedOn, FinishedOn

LEMMA StreamEnds ==
  ASSUME EndpointAssumption, TypeInv, ConnInv, NEW s \in Streams
  PROVE  /\ Writer(s) \in Endpoints \cup {-1}
         /\ Reader(s) \in Endpoints \cup {-1}
         /\ s[1] \in Clients
         /\ s = <<s[1], s[2]>> /\ s[2] \in {"up", "down"}
<1>1. /\ s[1] \in Clients /\ s[2] \in {"up", "down"} /\ s = <<s[1], s[2]>>
  BY DEF Streams
<1>2. s[1] \in Endpoints /\ id[s[1]] \in Endpoints \cup {-1}
  BY <1>1 DEF Endpoints, TypeInv, TypeOK, EndpointTypeOK, ConnID
<1> QED BY <1>1, <1>2 DEF Writer, Reader

LEMMA LinkedStreams ==
  ASSUME EndpointAssumption, TypeInv, ConnInv, NEW e \in Endpoints, Linked(e)
  PROVE  /\ OutStream(e) \in Streams /\ Writer(OutStream(e)) = e /\ Reader(OutStream(e)) = Peer(e)
         /\ InStream(e) \in Streams /\ Reader(InStream(e)) = e /\ Writer(InStream(e)) = Peer(e)
         /\ e # -1 /\ Peer(e) # -1
         /\ \A s \in Streams : Writer(s) = e => s = OutStream(e)
         /\ \A s \in Streams : Reader(s) = e => s = InStream(e)
<1>0. Clients \cap ConnIDs = {} /\ -1 \notin ConnIDs /\ -1 \notin Clients /\ Endpoints = Clients \cup ConnIDs
  BY Kinds DEF Endpoints
<1>p. Peer(e) \in Endpoints /\ e # -1 /\ Peer(e) # -1
  BY <1>0, PeerPeer
<1>i. \A c \in Clients : id[c] # -1 => id[c] \in ConnIDs /\ addr[id[c]] = c
  BY <1>0 DEF ConnInv, IdOK, TypeInv, TypeOK, EndpointTypeOK, ConnID
<1>1. CASE e \in Clients
  <2>1. /\ OutStream(e) = <<e, "up">> /\ InStream(e) = <<e, "down">> /\ Peer(e) = id[e]
        /\ <<e, "up">> \in Streams /\ <<e, "down">> \in Streams
    BY <1>1 DEF OutStream, InStream, Peer, Streams
  <2>2. ASSUME NEW s \in Streams, Writer(s) = e PROVE s = <<e, "up">>
    BY <1>0, <1>1, <1>i, <1>p, <2>2, StreamEnds DEF Writer
  <2>3. ASSUME NEW s \in Streams, Reader(s) = e PROVE s = <<e, "down">>
    BY <1>0, <1>1, <1>i, <1>p, <2>3, StreamEnds DEF Reader
  <2> QED BY <1>p, <2>1, <2>2, <2>3 DEF Writer, Reader
<1>2. CASE e \notin Clients
  <2>1. /\ addr[e] \in Clients /\ id[addr[e]] = e /\ Peer(e) = addr[e]
        /\ OutStream(e) = <<addr[e], "down">> /\ InStream(e) = <<addr[e], "up">>
        /\ <<addr[e], "up">> \in Streams /\ <<addr[e], "down">> \in Streams
    BY <1>2 DEF OutStream, InStream, Peer, Linked, Streams
  <2>2. ASSUME NEW s \in Streams, Writer(s) = e PROVE s = <<addr[e], "down">>
    BY <1>0, <1>2, <1>i, <1>p, <2>2, StreamEnds DEF Writer
  <2>3. ASSUME NEW s \in Streams, Reader(s) = e PROVE s = <<addr[e], "up">>
    BY <1>0, <1>2, <1>i, <1>p, <2>3, StreamEnds DEF Reader
  <2> QED BY <1>p, <2>1, <2>2, <2>3 DEF Writer, Reader
<1> QED BY <1>1, <1>2

\* Before the ends know each other nothing is written or delivered.
LEMMA Unlinked ==
  ASSUME TypeInv, DataInv, NEW e \in Endpoints, ~Linked(e)
  PROVE  written[e] = <<>> /\ delivered[e] = <<>> /\ Data(e) = <<>>
<1>1. written[e] = <<>>
  BY DEF DataInv, TmsgOK, Unsent
<1>2. delivered[e] \in Seq([data: Payload, fit: Fit])
  BY DEF TypeInv, TypeOK, EndpointTypeOK
<1>3. \A k \in 1 .. Len(delivered[e]) : FALSE
  BY DEF DataInv, DeliveredOK, Delivered, Sound
<1>4. Len(delivered[e]) = 0
  BY <1>2, <1>3
<1>5. delivered[e] = <<>>
  BY <1>2, <1>4
<1>6. Data(e) = <<>>
  BY <1>4 DEF Data
<1> QED BY <1>1, <1>5, <1>6

\* The steps the streams do not see.
LEMMA StreamStutter ==
  ASSUME EndpointAssumption, TypeInv, ConnInv, UNCHANGED <<id, written, delivered>>,
         \A e \in Endpoints : hpc'[e] = "done" <=> hpc[e] = "done"
  PROVE  UNCHANGED Stream!streamVars
<1> SUFFICES ASSUME NEW s \in Streams
             PROVE  SentOn(s)' = SentOn(s) /\ ReceivedOn(s)' = ReceivedOn(s)
                    /\ FinishedOn(s)' = FinishedOn(s)
  BY StreamFields DEF Stream!streamVars
<1>1. Writer(s)' = Writer(s) /\ Reader(s)' = Reader(s)
  BY DEF Writer, Reader
<1>2. Writer(s) # -1 => Writer(s) \in Endpoints
  BY StreamEnds
<1> QED BY <1>1, <1>2 DEF SentOn, ReceivedOn, FinishedOn, Data

\* The application at e writes.
LEMMA WriteStep ==
  ASSUME EndpointAssumption, TypeInv, ConnInv, NEW e \in Endpoints, Linked(e), NEW p \in Payload,
         written' = [written EXCEPT ![e] = Append(@, p)], UNCHANGED <<id, delivered, hpc>>
  PROVE  Stream!Next
<1>1. PICK s \in Streams : /\ s = OutStream(e) /\ Writer(s) = e /\ e # -1
                           /\ \A t \in Streams : Writer(t) = e => t = s
  BY LinkedStreams
<1>2. \A t \in Streams : Writer(t)' = Writer(t) /\ Reader(t)' = Reader(t)
  BY DEF Writer, Reader
<1>3. \A t \in Streams : ReceivedOn(t)' = ReceivedOn(t) /\ FinishedOn(t)' = FinishedOn(t)
  BY <1>2 DEF ReceivedOn, FinishedOn, Data
<1>4. written \in [Endpoints -> Seq(Payload)]
  BY DEF TypeInv, TypeOK, EndpointTypeOK
<1>5. SentOn(s)' = Append(SentOn(s), p)
  BY <1>1, <1>2, <1>4 DEF SentOn
<1>6. ASSUME NEW t \in Streams, t # s PROVE SentOn(t)' = SentOn(t)
  <2>1. Writer(t) # e /\ (Writer(t) # -1 => Writer(t) \in Endpoints)
    BY <1>1, <1>6, StreamEnds
  <2> QED BY <1>2, <1>4, <2>1 DEF SentOn
<1>7. streamSent' = [streamSent EXCEPT ![s] = Append(@, p)]
  BY <1>5, <1>6, StreamFields
<1>8. UNCHANGED <<streamReceived, streamFinished>>
  BY <1>3, StreamFields
<1>9. Stream!Write(s, p)
  BY <1>7, <1>8 DEF Stream!Write
<1> QED BY <1>9 DEF Stream!Next

\* The delivery loop of e hands on a datum.
LEMMA DeliverStep ==
  ASSUME EndpointAssumption, TypeInv, ConnInv, DataInv, AckInv, CloseInv, NEW e \in Endpoints,
         NEW r \in rbuffer[e], DeliverNext(e, r)
  PROVE  Stream!Next
<1>l. Linked(e) /\ Sent(Peer(e), rsq[e], r.data)
  BY DEF DataInv, RbufferOK, Sound, DeliverNext
<1>a. PICK a \in Endpoints : a = Peer(e) /\ Linked(a) /\ Peer(a) = e
  BY <1>l, PeerPeer
<1>1. PICK s \in Streams : /\ s = InStream(e) /\ Reader(s) = e /\ Writer(s) = a /\ e # -1 /\ a # -1
                           /\ \A t \in Streams : Reader(t) = e => t = s
  BY <1>a, <1>l, LinkedStreams
<1> DEFINE x == [data |-> r.data, fit |-> r.fit]
           D == [data: Payload, fit: Fit]
<1>u. UNCHANGED <<id, written, hpc>>
  BY DEF DeliverNext, txVars, ctlVars
<1>2. delivered' = [delivered EXCEPT ![e] = Append(@, x)]
  BY DEF DeliverNext
<1>x. x \in D /\ x.data = r.data
  <2>1. rbuffer \in [Endpoints -> SUBSET [seq: Nat, data: Payload, fit: Fit]]
    BY DEF TypeInv, TypeOK, EndpointTypeOK
  <2>2. r \in [seq: Nat, data: Payload, fit: Fit]
    BY <2>1
  <2> QED BY <2>2
<1>t. /\ delivered \in [Endpoints -> Seq(D)] /\ written[a] \in Seq(Payload)
      /\ tsq[a] \in Nat /\ rsq[e] \in Nat
  BY DEF TypeInv, TypeOK, EndpointTypeOK
<1> HIDE DEF x, D
<1>3. \A t \in Streams : Writer(t)' = Writer(t) /\ Reader(t)' = Reader(t)
  BY <1>u DEF Writer, Reader
<1>4. \A t \in Streams : SentOn(t)' = SentOn(t) /\ FinishedOn(t)' = FinishedOn(t)
  BY <1>3, <1>u DEF SentOn, FinishedOn
<1>5. rsq[e] = Len(delivered[e]) + 1 /\ Len(delivered[e]) \in Nat
  BY <1>t DEF DataInv, DeliveredOK, Delivered
<1>6. /\ rsq[e] \in 1 .. (tsq[a] - 1) /\ rsq[e] <= Len(written[a])
      /\ r.data = written[a][rsq[e]]
  <2>1. tmsg[a] \in Seq(Payload) /\ Len(written[a]) = tsq[a] - 1 + Len(tmsg[a])
    BY DEF DataInv, TmsgOK, Unsent, TypeInv, TypeOK, EndpointTypeOK
  <2>2. Len(tmsg[a]) \in Nat
    BY <2>1
  <2> QED BY <1>a, <1>l, <1>t, <2>1, <2>2 DEF Sent
<1>7. ~FinishedOn(s)
  <2>1. ASSUME hpc[a] = "done" PROVE FALSE
    <3>1. tbuffer[a] = {}
      BY <2>1 DEF CloseInv, Drained
    <3>2. rsq[e] = tsq[a]
      BY <1>a, <1>l, <3>1, Flushed
    <3> QED BY <1>6, <1>t, <3>2
  <2> QED BY <1>1, <2>1 DEF FinishedOn
<1>8. /\ Data(e) \in Seq(Payload) /\ Len(Data(e)) = Len(delivered[e])
      /\ Data(e)' = Append(Data(e), r.data)
  <2>1. \A k \in 1 .. Len(delivered[e]) : delivered[e][k] \in D
    BY <1>t
  <2>2. \A d \in D : d.data \in Payload
    BY DEF D
  <2>3. Data(e) = [k \in 1 .. Len(delivered[e]) |-> delivered[e][k].data]
    BY DEF Data
  <2>4. Data(e)' = [k \in 1 .. Len(delivered'[e]) |-> delivered'[e][k].data]
    BY DEF Data
  <2>5. Data(e) \in Seq(Payload) /\ Len(Data(e)) = Len(delivered[e])
    BY <1>5, <2>1, <2>2, <2>3
  <2>6. /\ Len(delivered'[e]) = Len(delivered[e]) + 1
        /\ \A k \in 1 .. Len(delivered[e]) : delivered'[e][k] = delivered[e][k]
        /\ delivered'[e][Len(delivered[e]) + 1] = x
    BY <1>2, <1>t, <1>x
  <2>7. r.data \in Payload
    BY <1>x, <2>2
  <2>8. Append(Data(e), r.data) =
          [k \in 1 .. (Len(delivered[e]) + 1) |-> IF k <= Len(delivered[e]) THEN Data(e)[k] ELSE r.data]
    BY <2>5, <2>7
  <2>9. \A k \in 1 .. (Len(delivered[e]) + 1) :
          delivered'[e][k].data = IF k <= Len(delivered[e]) THEN Data(e)[k] ELSE r.data
    BY <1>5, <1>x, <2>3, <2>6
  <2> QED BY <2>4, <2>5, <2>6, <2>8, <2>9
<1>9. ReceivedOn(s)' = Append(ReceivedOn(s), SentOn(s)[Len(ReceivedOn(s)) + 1])
      /\ Len(ReceivedOn(s)) < Len(SentOn(s))
  BY <1>1, <1>3, <1>5, <1>6, <1>8, <1>t DEF ReceivedOn, SentOn
<1>10. ASSUME NEW t \in Streams, t # s PROVE ReceivedOn(t)' = ReceivedOn(t)
  <2>1. Reader(t) # e /\ (Reader(t) # -1 => Reader(t) \in Endpoints)
    BY <1>1, <1>10, StreamEnds
  <2> QED BY <1>2, <1>3, <1>t, <2>1 DEF ReceivedOn, Data
<1>11. streamReceived' = [streamReceived EXCEPT ![s] = Append(@, streamSent[s][Len(@) + 1])]
  BY <1>9, <1>10, StreamFields
<1>12. UNCHANGED <<streamSent, streamFinished>>
  BY <1>4, StreamFields
<1>13. Stream!Deliver(s)
  BY <1>7, <1>9, <1>11, <1>12, StreamFields DEF Stream!Deliver
<1> QED BY <1>13 DEF Stream!Next

\* A stream is finished: all its writer was given has been delivered.
LEMMA FinishStep ==
  ASSUME EndpointAssumption, TypeInv, ConnInv, NEW s \in Streams, SentOn(s) = ReceivedOn(s),
         \A t \in Streams : SentOn(t)' = SentOn(t) /\ ReceivedOn(t)' = ReceivedOn(t),
         \A t \in Streams : t # s => FinishedOn(t)' = FinishedOn(t),
         FinishedOn(s)'
  PROVE  Stream!Next
<1>1. streamFinished' = [streamFinished EXCEPT ![s] = TRUE]
  <2>1. FinishedOn(s)' = TRUE
    BY DEF FinishedOn
  <2> QED BY <2>1, StreamFields
<1>2. UNCHANGED <<streamSent, streamReceived>>
  BY StreamFields
<1>3. streamReceived[s] = streamSent[s]
  BY StreamFields
<1>4. Stream!Finish(s)
  BY <1>1, <1>2, <1>3 DEF Stream!Finish
<1> QED BY <1>4 DEF Stream!Next

\* A handler ends on request.  A connection whose client does not know of it carries
\* no stream yet.
LEMMA ExitStep ==
  ASSUME EndpointAssumption, TypeInv, ConnInv, DataInv, AckInv, NEW e \in Endpoints, CloseReady(e),
         e \in Clients => Linked(e),
         hpc' = [hpc EXCEPT ![e] = "done"], UNCHANGED <<id, written, delivered>>
  PROVE  Stream!Next \/ UNCHANGED Stream!streamVars
<1>1. \A t \in Streams : Writer(t)' = Writer(t) /\ Reader(t)' = Reader(t)
  BY DEF Writer, Reader
<1>2. \A t \in Streams : SentOn(t)' = SentOn(t) /\ ReceivedOn(t)' = ReceivedOn(t)
  BY <1>1 DEF SentOn, ReceivedOn, Data
<1>3. hpc \in [Endpoints -> HandlerPc]
  BY DEF TypeInv, TypeOK, EndpointTypeOK
<1>4. ASSUME NEW t \in Streams, Writer(t) # e PROVE FinishedOn(t)' = FinishedOn(t)
  <2>1. Writer(t) # -1 => Writer(t) \in Endpoints
    BY StreamEnds
  <2> QED BY <1>1, <1>3, <1>4, <2>1 DEF FinishedOn
<1>5. CASE Linked(e)
  <2>a. PICK b \in Endpoints : b = Peer(e) /\ Linked(b) /\ Peer(b) = e
    BY <1>5, PeerPeer
  <2>1. PICK s \in Streams : /\ s = OutStream(e) /\ Writer(s) = e /\ Reader(s) = b /\ e # -1 /\ b # -1
                             /\ \A t \in Streams : Writer(t) = e => t = s
    BY <1>5, <2>a, LinkedStreams
  <2>2. tbuffer[e] = {} /\ tmsg[e] = <<>>
    BY DEF CloseReady
  <2>3. Data(b) = SubSeq(written[e], 1, tsq[e] - 1)
    BY <1>5, <2>2, <2>a, Flushed
  <2>4. /\ written[e] \in Seq(Payload) /\ tsq[e] \in Nat /\ Len(tmsg[e]) = 0
    BY <2>2 DEF TypeInv, TypeOK, EndpointTypeOK
  <2>5. Len(written[e]) = tsq[e] - 1
    BY <2>4 DEF DataInv, TmsgOK, Unsent
  <2>6. SentOn(s) = ReceivedOn(s)
    BY <2>1, <2>3, <2>4, <2>5 DEF SentOn, ReceivedOn
  <2>7. FinishedOn(s)'
    BY <1>1, <1>3, <2>1 DEF FinishedOn
  <2> QED BY <1>2, <1>4, <2>1, <2>6, <2>7, FinishStep
<1>6. CASE ~Linked(e)
  <2>1. e \notin Clients /\ e \in ConnIDs /\ -1 \notin ConnIDs
    BY <1>6, Kinds DEF Endpoints
  <2>2. ASSUME NEW t \in Streams, Writer(t) = e PROVE FALSE
    <3>1. t[1] \in Clients /\ id[t[1]] = e
      BY <2>1, <2>2, StreamEnds DEF Writer
    <3>2. addr[e] = t[1]
      BY <2>1, <3>1 DEF ConnInv, IdOK
    <3> QED BY <1>6, <2>1, <3>1, <3>2 DEF Linked
  <2>3. \A t \in Streams : FinishedOn(t)' = FinishedOn(t)
    BY <1>4, <2>2
  <2>4. UNCHANGED Stream!streamVars
    BY <1>2, <2>3, StreamFields DEF Stream!streamVars
  <2> QED BY <2>4
<1> QED BY <1>5, <1>6

\* A client learns its connection ID.  The connection may have been closed before:
\* then its stream to the client is over, and empty.
LEMMA LearnStep ==
  ASSUME EndpointAssumption, TypeInv, ConnInv, DataInv, NEW c \in Clients, id[c] = -1,
         NEW i \in ConnIDs, addr[i] = c, id' = [id EXCEPT ![c] = i],
         UNCHANGED <<written, delivered, hpc>>
  PROVE  Stream!Next \/ UNCHANGED Stream!streamVars
<1>0. c \in Endpoints /\ i \in Endpoints /\ i # -1 /\ i \notin Clients
  BY Kinds DEF Endpoints
<1>1. ~Linked(c) /\ ~Linked(i)
  BY <1>0 DEF Linked
<1>2. written[c] = <<>> /\ Data(c) = <<>> /\ written[i] = <<>> /\ Data(i) = <<>>
  BY <1>0, <1>1, Unlinked
<1>3. id'[c] = i /\ \A d \in Clients : d # c => id'[d] = id[d]
  BY <1>0 DEF TypeInv, TypeOK, EndpointTypeOK, Endpoints
<1>d. \A e : Data(e)' = Data(e)
  BY DEF Data
<1>n. c # -1
  BY Kinds
<1> DEFINE s == <<c, "down">>
<1>s. s \in Streams /\ s[1] = c /\ s[2] = "down"
  BY DEF Streams
<1>4. ASSUME NEW t \in Streams, t[1] # c
      PROVE  SentOn(t)' = SentOn(t) /\ ReceivedOn(t)' = ReceivedOn(t) /\ FinishedOn(t)' = FinishedOn(t)
  <2>1. t[1] \in Clients
    BY StreamEnds
  <2>2. Writer(t)' = Writer(t) /\ Reader(t)' = Reader(t)
    BY <1>3, <1>4, <2>1 DEF Writer, Reader
  <2> QED BY <1>d, <2>2 DEF SentOn, ReceivedOn, FinishedOn
<1>5. ASSUME NEW t \in Streams, t[1] = c, t # s
      PROVE  SentOn(t)' = SentOn(t) /\ ReceivedOn(t)' = ReceivedOn(t) /\ FinishedOn(t)' = FinishedOn(t)
  <2>1. t[2] = "up"
    BY <1>5, StreamEnds
  <2>2. Writer(t) = c /\ Writer(t)' = c /\ Reader(t) = -1 /\ Reader(t)' = i
    BY <1>3, <1>5, <2>1 DEF Writer, Reader
  <2> QED BY <1>0, <1>2, <1>d, <2>2 DEF SentOn, ReceivedOn, FinishedOn
<1>6. /\ SentOn(s)' = SentOn(s) /\ ReceivedOn(s)' = ReceivedOn(s) /\ SentOn(s) = ReceivedOn(s)
      /\ ~FinishedOn(s)
  <2>1. Writer(s) = -1 /\ Writer(s)' = i /\ Reader(s) = c /\ Reader(s)' = c
    BY <1>3, <1>s DEF Writer, Reader
  <2> QED BY <1>0, <1>2, <1>d, <1>n, <2>1 DEF SentOn, ReceivedOn, FinishedOn
<1> HIDE DEF s
<1>7. CASE FinishedOn(s)'
  <2>1. \A t \in Streams : SentOn(t)' = SentOn(t) /\ ReceivedOn(t)' = ReceivedOn(t)
    BY <1>4, <1>5, <1>6
  <2>2. \A t \in Streams : t # s => FinishedOn(t)' = FinishedOn(t)
    BY <1>4, <1>5
  <2> QED BY <1>s, <1>6, <1>7, <2>1, <2>2, FinishStep
<1>8. CASE ~FinishedOn(s)'
  <2>1. FinishedOn(s)' = FinishedOn(s)
    BY <1>6, <1>8 DEF FinishedOn
  <2>2. \A t \in Streams : SentOn(t)' = SentOn(t) /\ ReceivedOn(t)' = ReceivedOn(t)
                           /\ FinishedOn(t)' = FinishedOn(t)
    BY <1>4, <1>5, <1>6, <2>1
  <2>3. UNCHANGED Stream!streamVars
    BY <2>2, StreamFields DEF Stream!streamVars
  <2> QED BY <2>3
<1> QED BY <1>7, <1>8

LEMMA ClientStream ==
  ASSUME EndpointAssumption, TypeInv, ConnInv, DataInv, AckInv, CloseInv, NEW c \in Clients, ClientStep(c)
  PROVE  Stream!Next \/ UNCHANGED Stream!streamVars
<1>0. c \in Endpoints /\ hpc \in [Endpoints -> HandlerPc]
  BY DEF Endpoints, TypeInv, TypeOK, EndpointTypeOK
<1>1. CASE ClientAppStep(c)
  <2>1. CASE NewClient(c)
    <3>1. UNCHANGED <<id, written, delivered>> /\ hpc' = [hpc EXCEPT ![c] = "loop"] /\ hpc[c] = "off"
      BY <2>1 DEF NewClient, rxVars, ConnInv, AppOK
    <3>2. \A e \in Endpoints : hpc'[e] = "done" <=> hpc[e] = "done"
      BY <1>0, <3>1
    <3> QED BY <3>1, <3>2, StreamStutter
  <2>2. ASSUME NEW p \in Payload, ClientWrite(c, p) PROVE Stream!Next
    <3>1. /\ written' = [written EXCEPT ![c] = Append(@, p)] /\ UNCHANGED <<id, delivered, hpc>>
          /\ capp[c] = "open"
      BY <2>2 DEF ClientWrite, rxVars, ctlVars
    <3>2. Linked(c)
      BY <3>1 DEF ConnInv, AppOK, Linked
    <3> QED BY <1>0, <3>1, <3>2, WriteStep
  <2>3. CASE \/ NewClientReturns(c) \/ ClientReadData(c) \/ ClientReadError(c) \/ ClientCloseGet(c)
             \/ ClientCloseSet(c) \/ ClientCloseSocket(c) \/ ClientCloseReturns(c)
    <3>1. UNCHANGED <<id, written, delivered, hpc>>
      BY <2>3 DEF NewClientReturns, ClientReadData, ClientReadError, ClientCloseGet, ClientCloseSet,
                  ClientCloseSocket, ClientCloseReturns, endpointVars, txVars, rxVars, ctlVars
    <3> QED BY <3>1, StreamStutter
  <2> QED BY <1>1, <2>1, <2>2, <2>3 DEF ClientAppStep
<1>2. CASE ClientReceiverStep(c)
  <2>1. UNCHANGED <<id, written, delivered, hpc>>
    BY <1>2 DEF ClientReceiverStep, ClientReceive, ClientSocketClosed, ClientOversize, ClientRefused,
                ReceiverError, txVars, rxVars, ctlVars
  <2> QED BY <2>1, StreamStutter
<1>3. CASE ClientHandlerExit(c)
  <2>1. /\ hpc' = [hpc EXCEPT ![c] = "done"] /\ UNCHANGED <<id, written, delivered>>
        /\ CloseReady(c)
    BY <1>3 DEF ClientHandlerExit, txVars, rxVars
  <2>2. Linked(c)
    BY <2>1 DEF CloseReady, CloseInv, Quit, ConnInv, AppOK, Linked
  <2> QED BY <1>0, <2>1, <2>2, ExitStep
<1>4. CASE ClientDeliver(c)
  <2>1. PICK r \in rbuffer[c] : DeliverNext(c, r)
    BY <1>4 DEF ClientDeliver
  <2> QED BY <1>0, <2>1, DeliverStep
<1>5. CASE ClientAck(c)
  <2>1. HandleAck(c) /\ UNCHANGED <<addr, written, delivered, hpc>>
    BY <1>5 DEF ClientAck, HandleAck, rxVars
  <2>2. CASE id' = id
    BY <2>1, <2>2, StreamStutter
  <2>3. CASE id' # id
    <3>1. PICK m : m = Head(incoming[c])
      OBVIOUS
    <3>2. m \in Elems(incoming[c])
      BY <1>0, <2>1, <3>1, DequeueElems DEF HandleAck, TypeInv, TypeOK
    <3>3. id[c] = -1 /\ id' = [id EXCEPT ![c] = m.conn]
      BY <1>5, <2>3, <3>1 DEF ClientAck
    <3>4. m.conn \in ConnIDs /\ addr[m.conn] = c
      BY <3>2 DEF ConnInv, IncomingRoute, ToClient
    <3> QED BY <2>1, <3>3, <3>4, LearnStep
  <2> QED BY <2>2, <2>3
<1>6. CASE \/ ClientShortData(c) \/ ClientData(c) \/ ClientEndDelivery(c) \/ ClientEpoch(c)
           \/ ClientLost(c) \/ ClientTransmit(c)
  <2>1. UNCHANGED <<id, written, delivered>>
    BY <1>6 DEF ClientShortData, HandleShortData, ClientData, HandleData, ClientEndDelivery, EndDelivery,
                ClientEpoch, Epoch, ClientLost, ClientTransmit, Transmit, txVars, rxVars
  <2>2. \/ UNCHANGED hpc
        \/ hpc[c] \in {"loop", "deliver"} /\ \E s \in {"loop", "deliver", "lost"} : hpc' = [hpc EXCEPT ![c] = s]
    BY <1>6 DEF ClientShortData, HandleShortData, ClientData, HandleData, Dequeue, AtSelect,
                ClientEndDelivery, EndDelivery, ClientEpoch, Epoch, ClientLost, ClientTransmit, Transmit
  <2>3. \A e \in Endpoints : hpc'[e] = "done" <=> hpc[e] = "done"
    BY <1>0, <2>2
  <2> QED BY <2>1, <2>3, StreamStutter
<1> QED BY <1>1, <1>2, <1>3, <1>4, <1>5, <1>6 DEF ClientStep, ClientHandlerStep

LEMMA ServerStream ==
  ASSUME EndpointAssumption, TypeInv, ConnInv, DataInv, AckInv, CloseInv, ServerStep
  PROVE  Stream!Next \/ UNCHANGED Stream!streamVars
<1>0. hpc \in [Endpoints -> HandlerPc]
  BY DEF TypeInv, TypeOK, EndpointTypeOK
<1>1. CASE ServerAppStep \/ ServerReceiverStep
  <2>1. UNCHANGED <<id, written, delivered, hpc>>
    BY <1>1, ServerFrame DEF txVars, rxVars, ctlVars
  <2> QED BY <2>1, StreamStutter
<1>2. CASE HandleDuplicateConnect \/ HandleRoute \/ HandleCls
  <2>1. UNCHANGED <<id, written, delivered, hpc>>
    BY <1>2 DEF HandleDuplicateConnect, HandleRoute, HandleCls, endpointVars, txVars, rxVars, ctlVars
  <2> QED BY <2>1, StreamStutter
<1>3. CASE HandleConnect
  <2>1. PICK i \in ConnIDs : /\ i = lastConnID /\ hpc' = [hpc EXCEPT ![i] = "loop"]
                             /\ UNCHANGED <<id, written, delivered>>
    BY <1>3 DEF HandleConnect, txVars, rxVars
  <2>2. hpc[i] = "off"
    <3>1. ~(i < lastConnID)
      BY <2>1 DEF TypeInv, TypeOK, ServerTypeOK, FirstConnID, EndpointAssumption
    <3> QED BY <3>1 DEF ConnInv, ConnOK
  <2>3. \A e \in Endpoints : hpc'[e] = "done" <=> hpc[e] = "done"
    BY <1>0, <2>1, <2>2
  <2> QED BY <2>1, <2>3, StreamStutter
<1>4. CASE HandleOutgoing
  <2>1. PICK i : i = Head(outgoing).conn
    OBVIOUS
  <2>2. PICK x : x = Head(outgoing).data
    OBVIOUS
  <2>3. /\ UNCHANGED <<id, delivered, hpc>> /\ outgoing # <<>>
        /\ IF i \in clients THEN written' = [written EXCEPT ![i] = Append(@, x)] ELSE UNCHANGED written
    BY <1>4, <2>1, <2>2 DEF HandleOutgoing, rxVars, ctlVars
  <2>4. Head(outgoing) \in Elems(outgoing)
    BY <2>3, ElemsTail DEF TypeInv, TypeOK, ServerTypeOK
  <2>5. i \in Endpoints /\ x \in Payload /\ Linked(i)
    BY <2>1, <2>2, <2>4, OutgoingType DEF Endpoints, DataInv, OutgoingOK
  <2> QED BY <2>3, <2>5, WriteStep, StreamStutter
<1>5. ASSUME NEW i \in ConnIDs, ConnStep(i) PROVE Stream!Next \/ UNCHANGED Stream!streamVars
  <2>0. i \in Endpoints /\ i \notin Clients
    BY Kinds DEF Endpoints
  <2>1. CASE ConnExit(i)
    <3>1. /\ hpc' = [hpc EXCEPT ![i] = "done"] /\ UNCHANGED <<id, written, delivered>>
          /\ CloseReady(i)
      BY <2>1 DEF ConnExit, txVars, rxVars
    <3> QED BY <2>0, <3>1, ExitStep
  <2>2. CASE ConnDeliver(i)
    <3>1. PICK r \in rbuffer[i] : DeliverNext(i, r)
      BY <2>2 DEF ConnDeliver
    <3> QED BY <2>0, <3>1, DeliverStep
  <2>3. CASE \/ ConnShortData(i) \/ ConnData(i) \/ ConnEndDelivery(i) \/ ConnAck(i) \/ ConnEpoch(i)
             \/ ConnTimeout(i) \/ ConnReport(i) \/ ConnTransmit(i) \/ ConnIdle(i)
    <3>1. UNCHANGED <<id, written, delivered>>
      BY <2>3 DEF ConnShortData, HandleShortData, ConnData, HandleData, ConnEndDelivery, EndDelivery, ConnAck,
                  HandleAck, ConnEpoch, Epoch, ConnTimeout, ConnReport, ConnTransmit, Transmit, ConnIdle,
                  txVars, rxVars
    <3>2. \/ UNCHANGED hpc
          \/ /\ hpc[i] \in {"loop", "deliver", "report"}
             /\ \E s \in {"loop", "deliver", "report", "lost"} : hpc' = [hpc EXCEPT ![i] = s]
      BY <2>3 DEF ConnShortData, HandleShortData, ConnData, HandleData, Dequeue, AtSelect, ConnEndDelivery,
                  EndDelivery, ConnAck, HandleAck, ConnEpoch, Epoch, ConnTimeout, ConnReport, ConnTransmit,
                  Transmit, ConnIdle
    <3>3. \A e \in Endpoints : hpc'[e] = "done" <=> hpc[e] = "done"
      BY <1>0, <2>0, <3>2
    <3> QED BY <3>1, <3>3, StreamStutter
  <2> QED BY <1>5, <2>1, <2>2, <2>3 DEF ConnStep
<1> QED BY <1>1, <1>2, <1>3, <1>4, <1>5 DEF ServerStep, HandleStep

LEMMA StreamNext == Safe /\ CloseInv /\ [Next]_vars => [Stream!Next]_(Stream!streamVars)
<1> SUFFICES ASSUME TypeInv, ConnInv, DataInv, AckInv, CloseInv, [Next]_vars
             PROVE  Stream!Next \/ UNCHANGED Stream!streamVars
  BY DEF Safe
<1>1. ASSUME NEW c \in Clients, ClientStep(c) PROVE Stream!Next \/ UNCHANGED Stream!streamVars
  BY <1>1, ClientStream, EndpointAssumption
<1>2. CASE ServerStep
  BY <1>2, ServerStream, EndpointAssumption
<1>3. CASE UNCHANGED <<id, txVars, rxVars, ctlVars>>
  BY <1>3, StreamStutter, EndpointAssumption DEF txVars, rxVars, ctlVars
<1> QED BY <1>1, <1>2, <1>3 DEF Next, vars, endpointVars

LEMMA StreamInit == Init => Stream!Init
<1> SUFFICES ASSUME Init PROVE Stream!Init
  OBVIOUS
<1>1. /\ \A e \in Endpoints : written[e] = <<>> /\ hpc[e] = "off" /\ delivered[e] = <<>>
      /\ \A c \in Clients : id[c] = -1 /\ c \in Endpoints
  BY DEF Init, EndpointInit, Endpoints
<1>2. \A c \in Clients : Data(c) = <<>>
  BY <1>1 DEF Data
<1>3. ASSUME NEW s \in Streams PROVE SentOn(s) = <<>> /\ ReceivedOn(s) = <<>> /\ FinishedOn(s) = FALSE
  <2>1. s[1] \in Clients
    BY DEF Streams
  <2> QED BY <1>1, <1>2, <2>1 DEF SentOn, ReceivedOn, FinishedOn, Writer, Reader
<1> QED BY <1>3, StreamFields DEF Stream!Init

\* Clients and server together implement reliable ordered streams, for any number of
\* clients and connections, any window and any loss, duplication and reordering: each
\* step of the goroutines writes to, delivers from or finishes one stream, or is not seen.
THEOREM ImplementsStreams == Spec => StreamSpec
<1>1. Safe /\ CloseInv /\ [Next]_vars => (Safe /\ CloseInv)'
  BY SafeNext, CloseNext, EndpointAssumption DEF Safe
<1>2. Init => Safe /\ CloseInv
  BY SafeInit, CloseInit
<1> QED BY <1>1, <1>2, StreamInit, StreamNext, PTL DEF Spec, StreamSpec, Stream!Spec
=============================================================================
