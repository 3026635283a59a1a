--------------------------- MODULE LspConnProofs ---------------------------
(***************************************************************************)
(* Type correctness of Lsp, for every number of clients, connections and   *)
(* writes, every window and every channel capacity; and ConnInv is         *)
(* inductive: connection IDs are never shared.                             *)
(***************************************************************************)
EXTENDS LspInv, TLAPS

\* A handler that is still running has not reached the epoch limit; without this
\* the bound on epochCount in TypeOK is not inductive.
EpochOK == \A e \in Endpoints : hpc[e] \in {"off", "loop", "deliver"} => epochCount[e] < EpochLimit

TypeInv == TypeOK /\ EpochOK

Packet == [from: Clients \cup {Server}, to: Clients \cup {Server}, msg: Message]

-----------------------------------------------------------------------------
(* Types *)

LEMMA AppendType ==
  ASSUME NEW S, NEW s \in Seq(S), NEW x \in S
  PROVE  Append(s, x) \in Seq(S)
OBVIOUS

LEMMA HeadTailType ==
  ASSUME NEW S, NEW s \in Seq(S), s # <<>>
  PROVE  Head(s) \in S /\ Tail(s) \in Seq(S)
OBVIOUS

\* Messages the handlers build are messages.
LEMMA NewMessageType ==
  /\ NewConnect \in Message
  /\ \A i \in ConnID, n \in Nat : NewAck(i, n) \in Message
  /\ \A i \in ConnID, n \in Nat, p \in Payload : NewData(i, n, p) \in Message
BY DEF NewConnect, NewAck, NewData, Message, DataMsg, AckMsg, Fit

\* The fields of a message, by its type.
LEMMA MessageFields ==
  ASSUME NEW m \in Message
  PROVE  /\ m.seq \in Nat
         /\ m.type \in {"Connect", "Data", "Ack"}
         /\ m.type = "Data" => m \in DataMsg
         /\ m.type = "Ack" => m \in AckMsg
BY DEF Message, DataMsg, AckMsg, NewConnect

\* A network fault leaves a message a message.
LEMMA ReceivedType ==
  ASSUME EndpointAssumption, NEW p \in Packet, NEW m \in Received(p)
  PROVE  m \in Message
BY MessageFields DEF EndpointAssumption, Received, Packet, Message, DataMsg, Fit

\* What an endpoint sends is a packet.
LEMMA WriteMessagesType ==
  ASSUME EndpointTypeOK, NEW e \in Endpoints, NEW ms, ms \subseteq Message, WriteMessages(e, ms)
  PROVE  net' \subseteq Packet
BY DEF EndpointTypeOK, WriteMessages, Outbound, Host, Endpoints, Packet

\* Reading a packet only shrinks the network.
LEMMA ConsumeType ==
  ASSUME NEW p, Consume(p)
  PROVE  net' \subseteq net
BY DEF Consume

-----------------------------------------------------------------------------
\* Each case of the select statement keeps the types.
LEMMA HandleShortDataType ==
  ASSUME EndpointAssumption, EndpointTypeOK, EpochOK, NEW e \in Endpoints, HandleShortData(e)
  PROVE  EndpointTypeOK' /\ EpochOK'
<1>1. incoming' \in [Endpoints -> Seq(Message)]
  BY DEF HandleShortData, Dequeue, EndpointTypeOK
<1>2. epochCount' \in [Endpoints -> 0 .. EpochLimit] /\ EpochOK'
  BY DEF HandleShortData, Dequeue, EndpointTypeOK, EndpointAssumption, EpochOK
<1>3. UNCHANGED <<net, sock, id, addr, txVars, rxVars, status, hpc, ackSeq>>
  BY DEF HandleShortData
<1> QED
  BY <1>1, <1>2, <1>3 DEF EndpointTypeOK, txVars, rxVars

LEMMA HandleDataType ==
  ASSUME EndpointAssumption, EndpointTypeOK, EpochOK, NEW e \in Endpoints, HandleData(e)
  PROVE  EndpointTypeOK' /\ EpochOK'
<1> DEFINE m == Head(incoming[e])
<1>1. m \in DataMsg
  BY MessageFields DEF HandleData, Dequeue, EndpointTypeOK
<1>2. net' \subseteq Packet
  <2>1. CASE m.seq = rsq[e]
    BY <2>1 DEF HandleData, EndpointTypeOK, Packet
  <2>2. CASE m.seq # rsq[e]
    <3>1. {NewAck(id[e], m.seq)} \subseteq Message
      BY <1>1, NewMessageType DEF EndpointTypeOK, DataMsg
    <3>2. WriteMessages(e, {NewAck(id[e], m.seq)})
      BY <2>2 DEF HandleData
    <3> QED BY <3>1, <3>2, WriteMessagesType
  <2> QED BY <2>1, <2>2
<1>3. rbuffer' \in [Endpoints -> SUBSET [seq: Nat, data: Payload, fit: Fit]]
  BY <1>1 DEF HandleData, SaveData, EndpointTypeOK, DataMsg
<1>4. incoming' \in [Endpoints -> Seq(Message)]
  BY DEF HandleData, Dequeue, EndpointTypeOK
<1>5. /\ epochCount' = [epochCount EXCEPT ![e] = 0]
      /\ hpc' = hpc \/ hpc' = [hpc EXCEPT ![e] = "deliver"]
      /\ ackSeq' = ackSeq \/ ackSeq' = [ackSeq EXCEPT ![e] = m.seq]
  BY DEF HandleData, Dequeue
<1>7. epochCount' \in [Endpoints -> 0 .. EpochLimit]
  BY <1>5 DEF EndpointTypeOK, EndpointAssumption
<1>8. hpc' \in [Endpoints -> HandlerPc]
  BY <1>5 DEF EndpointTypeOK, HandlerPc
<1>9. ackSeq' \in [Endpoints -> Nat]
  <2>1. m.seq \in Nat
    BY <1>1 DEF DataMsg
  <2> QED BY <2>1, <1>5 DEF EndpointTypeOK
<1>10. EpochOK'
  <2> SUFFICES ASSUME NEW d \in Endpoints, hpc'[d] \in {"off", "loop", "deliver"}
               PROVE  epochCount'[d] < EpochLimit
    BY DEF EpochOK
  <2>1. epochCount \in [Endpoints -> 0 .. EpochLimit] /\ hpc \in [Endpoints -> HandlerPc]
    BY DEF EndpointTypeOK
  <2>2. CASE d = e
    <3>1. epochCount'[d] = 0
      BY <1>5, <2>1, <2>2
    <3> QED BY <3>1 DEF EndpointAssumption
  <2>3. CASE d # e
    <3>1. epochCount'[d] = epochCount[d] /\ hpc'[d] = hpc[d]
      BY <1>5, <2>1, <2>3
    <3> QED BY <3>1 DEF EpochOK
  <2> QED BY <2>2, <2>3
<1>6. UNCHANGED <<sock, id, addr, tbuffer, tmsg, tsq, written, rsq, delivered, status>>
  BY DEF HandleData, txVars
<1>11. /\ sock' \in [Clients \cup {Server} -> {"open", "closed"}]
       /\ id' \in [Endpoints -> ConnID]
       /\ addr' \in [ConnIDs -> Clients \cup {Server}]
       /\ tbuffer' \in [Endpoints -> SUBSET Message]
       /\ tmsg' \in [Endpoints -> Seq(Payload)]
       /\ tsq' \in [Endpoints -> Nat]
       /\ written' \in [Endpoints -> Seq(Payload)]
       /\ rsq' \in [Endpoints -> Nat]
       /\ delivered' \in [Endpoints -> Seq([data: Payload, fit: Fit])]
       /\ status' \in [Endpoints -> Status]
  BY <1>6 DEF EndpointTypeOK
<1>12. EndpointTypeOK'
  BY <1>2, <1>3, <1>4, <1>7, <1>8, <1>9, <1>11, Zenon DEF EndpointTypeOK, Packet
<1> QED BY <1>10, <1>12

LEMMA DeliverNextType ==
  ASSUME EndpointTypeOK, EpochOK, NEW e \in Endpoints, NEW r \in rbuffer[e], DeliverNext(e, r)
  PROVE  /\ EndpointTypeOK' /\ EpochOK'
         /\ [data |-> r.data, fit |-> r.fit] \in [data: Payload, fit: Fit]
<1>1. [data |-> r.data, fit |-> r.fit] \in [data: Payload, fit: Fit]
  BY DEF EndpointTypeOK
<1>2. rbuffer' \in [Endpoints -> SUBSET [seq: Nat, data: Payload, fit: Fit]]
  BY DEF DeliverNext, EndpointTypeOK
<1>3. rsq' \in [Endpoints -> Nat]
  BY DEF DeliverNext, EndpointTypeOK
<1>4. delivered' \in [Endpoints -> Seq([data: Payload, fit: Fit])]
  <2> DEFINE D == [data: Payload, fit: Fit]
             d == [data |-> r.data, fit |-> r.fit]
  <2>1. d \in D
    BY <1>1
  <2>2. delivered' = [delivered EXCEPT ![e] = Append(@, d)]
    BY DEF DeliverNext
  <2>3. delivered \in [Endpoints -> Seq(D)]
    BY DEF EndpointTypeOK
  <2> HIDE DEF D, d
  <2>4. delivered' \in [Endpoints -> Seq(D)]
    BY <2>1, <2>2, <2>3, AppendType
  <2> QED BY <2>4 DEF D
<1>5. UNCHANGED <<net, sock, id, addr, incoming, tbuffer, tmsg, tsq, written,
                  epochCount, status, hpc, ackSeq>>
  BY DEF DeliverNext, txVars, ctlVars
<1>6. EpochOK'
  BY <1>5 DEF EpochOK
<1> QED
  BY <1>1, <1>2, <1>3, <1>4, <1>5, <1>6 DEF EndpointTypeOK

LEMMA EndDeliveryType ==
  ASSUME EndpointTypeOK, EpochOK, NEW e \in Endpoints, EndDelivery(e)
  PROVE  EndpointTypeOK' /\ EpochOK'
<1>1. net' \subseteq Packet
  <2>1. {NewAck(id[e], ackSeq[e])} \subseteq Message
    BY NewMessageType DEF EndpointTypeOK
  <2> QED BY <2>1, WriteMessagesType DEF EndDelivery
<1>2. hpc' \in [Endpoints -> HandlerPc]
  BY DEF EndDelivery, EndpointTypeOK, HandlerPc
<1>3. UNCHANGED <<sock, id, addr, incoming, txVars, rxVars, epochCount, status, ackSeq>>
  BY DEF EndDelivery
<1>4. EpochOK'
  BY <1>3 DEF EndDelivery, EpochOK, EndpointTypeOK
<1> QED
  BY <1>1, <1>2, <1>3, <1>4 DEF EndpointTypeOK, Packet, txVars, rxVars

\* HandleAck leaves id to its callers.
LEMMA HandleAckType ==
  ASSUME EndpointAssumption, EndpointTypeOK, EpochOK, NEW e \in Endpoints, HandleAck(e),
         id' \in [Endpoints -> ConnID]
  PROVE  EndpointTypeOK' /\ EpochOK'
<1>1. incoming' \in [Endpoints -> Seq(Message)]
  BY DEF HandleAck, Dequeue, EndpointTypeOK
<1>2. epochCount' = [epochCount EXCEPT ![e] = 0]
  BY DEF HandleAck, Dequeue
<1>3. epochCount' \in [Endpoints -> 0 .. EpochLimit]
  BY <1>2 DEF EndpointTypeOK, EndpointAssumption
<1>4. tbuffer' \in [Endpoints -> SUBSET Message]
  BY DEF HandleAck, EndpointTypeOK
<1>5. UNCHANGED <<net, sock, addr, tmsg, tsq, written, rxVars, status, hpc, ackSeq>>
  BY DEF HandleAck
<1>6. EpochOK'
  BY <1>2, <1>5 DEF EpochOK, EndpointTypeOK, EndpointAssumption
<1> QED
  BY <1>1, <1>3, <1>4, <1>5, <1>6 DEF EndpointTypeOK, rxVars

\* Transmit leaves status to its callers.
LEMMA TransmitType ==
  ASSUME EndpointTypeOK, EpochOK, NEW e \in Endpoints, Transmit(e),
         status' \in [Endpoints -> Status]
  PROVE  EndpointTypeOK' /\ EpochOK'
<1> DEFINE m == NewData(id[e], tsq[e], Head(tmsg[e]))
<1>1. m \in Message
  <2>1. Head(tmsg[e]) \in Payload
    BY DEF Transmit, CanTransmit, EndpointTypeOK
  <2> QED BY <2>1, NewMessageType DEF EndpointTypeOK
<1>2. /\ tbuffer' = [tbuffer EXCEPT ![e] = @ \cup {m}]
      /\ WriteMessages(e, {m})
  BY DEF Transmit
<1>3. net' \subseteq Packet
  BY <1>1, <1>2, WriteMessagesType
<1>4. tbuffer' \in [Endpoints -> SUBSET Message]
  BY <1>1, <1>2 DEF EndpointTypeOK
<1>5. tmsg' \in [Endpoints -> Seq(Payload)]
  BY DEF Transmit, CanTransmit, EndpointTypeOK
<1>6. tsq' \in [Endpoints -> Nat]
  BY DEF Transmit, EndpointTypeOK
<1>7. UNCHANGED <<sock, id, addr, incoming, written, rxVars, epochCount, hpc, ackSeq>>
  BY DEF Transmit
<1>8. EpochOK'
  BY <1>7 DEF EpochOK
<1> QED
  BY <1>3, <1>4, <1>5, <1>6, <1>7, <1>8 DEF EndpointTypeOK, Packet, rxVars

LEMMA EpochType ==
  ASSUME EndpointTypeOK, EndpointAssumption, EpochOK, NEW e \in Endpoints,
         NEW extra, extra \subseteq Message, Epoch(e, extra)
  PROVE  EndpointTypeOK' /\ EpochOK'
<1>1. net' \subseteq Packet
  <2>1. extra \cup tbuffer[e] \subseteq Message
    BY DEF EndpointTypeOK
  <2> QED BY <2>1, WriteMessagesType DEF Epoch
<1>2. epochCount[e] + 1 < EpochLimit
  BY DEF Epoch, AtSelect, EpochOK, EndpointTypeOK, EndpointAssumption
<1>3. epochCount' = [epochCount EXCEPT ![e] = @ + 1]
  BY DEF Epoch
<1>4. epochCount' \in [Endpoints -> 0 .. EpochLimit]
  BY <1>2, <1>3 DEF EndpointTypeOK, EndpointAssumption
<1>5. UNCHANGED <<sock, id, addr, incoming, txVars, rxVars, status, hpc, ackSeq>>
  BY DEF Epoch
<1>6. EpochOK'
  BY <1>2, <1>3, <1>5 DEF EpochOK, EndpointTypeOK
<1> QED
  BY <1>1, <1>4, <1>5, <1>6 DEF EndpointTypeOK, Packet, txVars, rxVars

LEMMA HeartbeatType ==
  ASSUME EndpointTypeOK, NEW e \in Endpoints
  PROVE  Heartbeat(e) \subseteq Message
BY NewMessageType DEF Heartbeat, EndpointTypeOK

\* Steps that leave an endpoint, the client or the server alone.
LEMMA Frame ==
  /\ EndpointTypeOK /\ EpochOK /\ UNCHANGED endpointVars => EndpointTypeOK' /\ EpochOK'
  /\ ClientTypeOK /\ UNCHANGED clientVars => ClientTypeOK'
  /\ ServerTypeOK /\ UNCHANGED serverVars => ServerTypeOK'
<1>1. EndpointTypeOK /\ EpochOK /\ UNCHANGED endpointVars => EndpointTypeOK' /\ EpochOK'
  BY DEF EndpointTypeOK, EpochOK, endpointVars, txVars, rxVars, ctlVars
<1>2. ClientTypeOK /\ UNCHANGED clientVars => ClientTypeOK'
  BY DEF ClientTypeOK, clientVars
<1>3. ServerTypeOK /\ UNCHANGED serverVars => ServerTypeOK'
  BY DEF ServerTypeOK, serverVars
<1> QED BY <1>1, <1>2, <1>3

-----------------------------------------------------------------------------
\* The client's goroutines keep the types.
LEMMA ClientStepType ==
  ASSUME EndpointAssumption, EndpointTypeOK, EpochOK, ClientTypeOK,
         NEW c \in Clients, ClientStep(c)
  PROVE  EndpointTypeOK' /\ EpochOK' /\ ClientTypeOK'
<1>0. c \in Endpoints
  BY DEF Endpoints
<1>1. CASE NewClient(c)
  <2>1. net' \subseteq Packet
    BY <1>0, <1>1, NewMessageType, WriteMessagesType DEF NewClient
  <2>2. tbuffer' \in [Endpoints -> SUBSET Message]
    BY <1>0, <1>1, NewMessageType DEF NewClient, EndpointTypeOK
  <2>3. hpc' \in [Endpoints -> HandlerPc]
    BY <1>0, <1>1 DEF NewClient, EndpointTypeOK, HandlerPc
  <2>4. epochCount' \in [Endpoints -> 0 .. EpochLimit]
    BY <1>0, <1>1 DEF NewClient, EndpointTypeOK, EndpointAssumption
  <2>5. UNCHANGED <<sock, id, addr, incoming, tmsg, tsq, written, rxVars, status,
                    ackSeq, rmsg, cerr>>
    BY <1>1 DEF NewClient
  <2>6. EpochOK'
    BY <1>0, <1>1 DEF NewClient, EpochOK, EndpointTypeOK, EndpointAssumption
  <2>7. ClientTypeOK'
    BY <1>1, <2>5 DEF NewClient, ClientTypeOK, ClientApp
  <2> QED
    BY <2>1, <2>2, <2>3, <2>4, <2>5, <2>6, <2>7 DEF EndpointTypeOK, Packet, rxVars
\* Steps of the application and the receiver that do not touch the endpoint.
<1>2. CASE \/ NewClientReturns(c) \/ ClientReadData(c) \/ ClientReadError(c) \/ ClientCloseGet(c)
  <2>1. UNCHANGED endpointVars
    BY <1>2 DEF NewClientReturns, ClientReadData, ClientReadError, ClientCloseGet
  <2>2. ClientTypeOK'
    <3>1. CASE NewClientReturns(c)
      BY <3>1 DEF NewClientReturns, ClientTypeOK, ClientApp
    <3>4. CASE ClientCloseGet(c)
      <4>1. capp' \in [Clients -> ClientApp]
        BY <3>4 DEF ClientCloseGet, ClientTypeOK, ClientApp
      <4> QED BY <4>1, <3>4 DEF ClientCloseGet, ClientTypeOK
    <3>2. CASE ClientReadData(c)
      <4> DEFINE D == [data: Payload, fit: Fit]
      <4>1. rmsg \in [Clients -> Seq(D)]
        BY DEF ClientTypeOK
      <4>2. rmsg[c] # <<>> /\ rmsg' = [rmsg EXCEPT ![c] = Tail(@)]
        BY <3>2 DEF ClientReadData
      <4> HIDE DEF D
      <4>3. rmsg' \in [Clients -> Seq(D)]
        BY <4>1, <4>2, HeadTailType
      <4>4. UNCHANGED <<capp, cerr, creceiver>>
        BY <3>2 DEF ClientReadData
      <4> QED BY <4>3, <4>4 DEF ClientTypeOK, D
    <3>3. CASE ClientReadError(c)
      BY <3>3 DEF ClientReadError, ClientTypeOK
    <3> QED BY <1>2, <3>1, <3>2, <3>3, <3>4
  <2> QED BY <2>1, <2>2, Frame
<1>3. ASSUME NEW p \in Payload, ClientWrite(c, p)
      PROVE  EndpointTypeOK' /\ EpochOK' /\ ClientTypeOK'
  <2>1. tmsg' \in [Endpoints -> Seq(Payload)] /\ written' \in [Endpoints -> Seq(Payload)]
    BY <1>0, <1>3, AppendType DEF ClientWrite, EndpointTypeOK
  <2>2. UNCHANGED <<net, sock, id, addr, incoming, tbuffer, tsq, rxVars, ctlVars, clientVars>>
    BY <1>3 DEF ClientWrite
  <2>3. EpochOK'
    BY <2>2 DEF EpochOK, ctlVars
  <2> QED
    BY <2>1, <2>2, <2>3, Frame DEF EndpointTypeOK, rxVars, ctlVars
\* Steps that write the status or close the socket.
<1>4. CASE ClientCloseSet(c) \/ ClientCloseReturns(c)
  <2>1. status' \in [Endpoints -> Status]
    <3>1. status \in [Endpoints -> Status]
      BY DEF EndpointTypeOK
    <3>2. \E s \in Status : status' = [status EXCEPT ![c] = s]
      BY <1>4 DEF ClientCloseSet, ClientCloseReturns, Status
    <3> QED BY <1>0, <3>1, <3>2
  <2>2. UNCHANGED <<net, sock, id, addr, incoming, txVars, rxVars, epochCount, hpc, ackSeq>>
    BY <1>4 DEF ClientCloseSet, ClientCloseReturns
  <2>3. EpochOK'
    BY <2>2 DEF EpochOK
  <2>4. ClientTypeOK'
    BY <1>4 DEF ClientCloseSet, ClientCloseReturns, ClientTypeOK, ClientApp
  <2> QED
    BY <2>1, <2>2, <2>3, <2>4 DEF EndpointTypeOK, txVars, rxVars
<1>5. CASE ClientCloseSocket(c)
  <2>1. sock' \in [Clients \cup {Server} -> {"open", "closed"}]
    BY <1>5 DEF ClientCloseSocket, EndpointTypeOK
  <2>2. UNCHANGED <<net, id, addr, incoming, txVars, rxVars, ctlVars, clientVars>>
    BY <1>5 DEF ClientCloseSocket
  <2>3. EpochOK'
    BY <2>2 DEF EpochOK, ctlVars
  <2> QED
    BY <2>1, <2>2, <2>3, Frame DEF EndpointTypeOK, txVars, rxVars, ctlVars
<1>6. ASSUME NEW p \in net, ClientReceive(c, p)
      PROVE  EndpointTypeOK' /\ EpochOK' /\ ClientTypeOK'
  <2>1. p \in Packet
    BY DEF EndpointTypeOK, Packet
  <2>2. PICK m \in Received(p) : incoming' = [incoming EXCEPT ![c] = Append(@, m)]
    BY <1>6 DEF ClientReceive
  <2>3. incoming' \in [Endpoints -> Seq(Message)]
    BY <1>0, <2>1, <2>2, ReceivedType, AppendType DEF EndpointTypeOK
  <2>4. net' \subseteq Packet
    BY <1>6, ConsumeType DEF ClientReceive, EndpointTypeOK, Packet
  <2>5. UNCHANGED <<sock, id, addr, txVars, rxVars, ctlVars, clientVars>>
    BY <1>6 DEF ClientReceive
  <2>6. EpochOK'
    BY <2>5 DEF EpochOK, ctlVars
  <2> QED
    BY <2>3, <2>4, <2>5, <2>6, Frame DEF EndpointTypeOK, Packet, txVars, rxVars, ctlVars
<1>7. ASSUME ReceiverError(c), net' \subseteq net
      PROVE  EndpointTypeOK' /\ EpochOK' /\ ClientTypeOK'
  <2>1. status' \in [Endpoints -> Status]
    BY <1>0, <1>7 DEF ReceiverError, EndpointTypeOK, Status
  <2>2. UNCHANGED <<sock, id, addr, incoming, txVars, rxVars, epochCount, hpc, ackSeq>>
    BY <1>7 DEF ReceiverError
  <2>3. EpochOK'
    BY <2>2 DEF EpochOK
  <2>4. ClientTypeOK'
    BY <1>7 DEF ReceiverError, ClientTypeOK
  <2> QED
    BY <1>7, <2>1, <2>2, <2>3, <2>4 DEF EndpointTypeOK, txVars, rxVars
<1>8. CASE ClientSocketClosed(c) \/ ClientRefused(c) \/ \E p \in net : ClientOversize(c, p)
  <2>1. ReceiverError(c) /\ net' \subseteq net
    BY <1>8, ConsumeType DEF ClientSocketClosed, ClientRefused, ClientOversize
  <2> QED BY <1>7, <2>1
\* The handler.
<1>9. CASE ClientHandlerExit(c)
  <2>1. status' \in [Endpoints -> Status]
    BY <1>0, <1>9 DEF ClientHandlerExit, EndpointTypeOK, Status
  <2>2. hpc' \in [Endpoints -> HandlerPc]
    BY <1>0, <1>9 DEF ClientHandlerExit, EndpointTypeOK, HandlerPc
  <2>3. UNCHANGED <<net, sock, id, addr, incoming, txVars, rxVars, epochCount, ackSeq, clientVars>>
    BY <1>9 DEF ClientHandlerExit
  <2>4. EpochOK'
    BY <1>0, <1>9, <2>3 DEF ClientHandlerExit, EpochOK, EndpointTypeOK
  <2> QED
    BY <2>1, <2>2, <2>3, <2>4, Frame DEF EndpointTypeOK, txVars, rxVars
<1>10. CASE ClientShortData(c) \/ ClientData(c) \/ ClientEndDelivery(c)
  BY <1>0, <1>10, HandleShortDataType, HandleDataType, EndDeliveryType, Frame
     DEF ClientShortData, ClientData, ClientEndDelivery
<1>11. CASE ClientDeliver(c)
  <2> DEFINE d(r) == [data |-> r.data, fit |-> r.fit]
  <2>1. PICK r \in rbuffer[c] : DeliverNext(c, r) /\ rmsg' = [rmsg EXCEPT ![c] = Append(@, d(r))]
    BY <1>11 DEF ClientDeliver
  <2>2. EndpointTypeOK' /\ EpochOK' /\ d(r) \in [data: Payload, fit: Fit]
    BY <1>0, <2>1, DeliverNextType
  <2> HIDE DEF d
  <2>3. rmsg' \in [Clients -> Seq([data: Payload, fit: Fit])]
    BY <2>1, <2>2, AppendType DEF ClientTypeOK
  <2>4. UNCHANGED <<capp, cerr, creceiver>>
    BY <1>11 DEF ClientDeliver
  <2> QED BY <2>2, <2>3, <2>4 DEF ClientTypeOK
<1>12. CASE ClientAck(c)
  <2>1. Head(incoming[c]) \in AckMsg
    BY <1>0, <1>12, MessageFields DEF ClientAck, HandleAck, Dequeue, EndpointTypeOK
  <2>2. id' \in [Endpoints -> ConnID]
    <3>1. id' = id \/ id' = [id EXCEPT ![c] = Head(incoming[c]).conn]
      BY <1>12 DEF ClientAck
    <3>2. Head(incoming[c]).conn \in ConnID
      BY <2>1 DEF AckMsg
    <3> QED BY <3>1, <3>2 DEF EndpointTypeOK
  <2> QED BY <1>0, <1>12, <2>2, HandleAckType, Frame DEF ClientAck
<1>13. CASE ClientEpoch(c)
  <2>1. (IF id[c] = -1 THEN {NewConnect} ELSE Heartbeat(c)) \subseteq Message
    BY <1>0, NewMessageType, HeartbeatType
  <2> QED BY <1>0, <1>13, <2>1, EpochType, Frame DEF ClientEpoch
<1>14. CASE ClientLost(c)
  <2>1. status' \in [Endpoints -> Status]
    BY <1>0, <1>14 DEF ClientLost, EndpointTypeOK, Status
  <2>2. hpc' \in [Endpoints -> HandlerPc]
    BY <1>0, <1>14 DEF ClientLost, EndpointTypeOK, HandlerPc
  <2>3. epochCount' \in [Endpoints -> 0 .. EpochLimit]
    BY <1>0, <1>14 DEF ClientLost, EndpointTypeOK, EndpointAssumption
  <2>4. UNCHANGED <<net, sock, id, addr, incoming, txVars, rxVars, ackSeq>>
    BY <1>14 DEF ClientLost
  <2>5. EpochOK'
    BY <1>0, <1>14 DEF ClientLost, EpochOK, EndpointTypeOK
  <2>6. ClientTypeOK'
    BY <1>14 DEF ClientLost, ClientTypeOK
  <2> QED
    BY <2>1, <2>2, <2>3, <2>4, <2>5, <2>6 DEF EndpointTypeOK, txVars, rxVars
<1>15. CASE ClientTransmit(c)
  <2>1. status' \in [Endpoints -> Status]
    BY <1>15 DEF ClientTransmit, EndpointTypeOK
  <2> QED BY <1>0, <1>15, <2>1, TransmitType, Frame DEF ClientTransmit
<1> QED
  BY <1>1, <1>2, <1>3, <1>4, <1>5, <1>6, <1>8, <1>9, <1>10, <1>11, <1>12, <1>13, <1>14, <1>15
     DEF ClientStep, ClientAppStep, ClientReceiverStep, ClientHandlerStep

-----------------------------------------------------------------------------
\* The server's goroutines keep the types.
LEMMA ServerAppType ==
  ASSUME EndpointAssumption, EndpointTypeOK, EpochOK, ServerTypeOK, ServerAppStep
  PROVE  EndpointTypeOK' /\ EpochOK' /\ ServerTypeOK'
<1>1. CASE ServerReadData \/ ServerReadError
  <2>1. UNCHANGED endpointVars
    BY <1>1 DEF ServerReadData, ServerReadError
  <2>2. ServerTypeOK'
    <3>1. CASE ServerReadData
      BY <3>1 DEF ServerReadData, ServerTypeOK
    <3>2. CASE ServerReadError
      BY <3>2 DEF ServerReadError, ServerTypeOK
    <3> QED BY <1>1, <3>1, <3>2
  <2> QED BY <2>1, <2>2, Frame
<1>2. ASSUME NEW i \in ConnIDs, NEW p \in Payload, ServerWrite(i, p)
      PROVE  EndpointTypeOK' /\ EpochOK' /\ ServerTypeOK'
  <2> DEFINE w == [conn |-> i, data |-> p]
  <2>1. w \in [conn: ConnIDs, data: Payload]
    OBVIOUS
  <2>2. outgoing' = Append(outgoing, w)
    BY <1>2 DEF ServerWrite
  <2> HIDE DEF w
  <2>3. outgoing' \in Seq([conn: ConnIDs, data: Payload])
    BY <2>1, <2>2, AppendType DEF ServerTypeOK
  <2>4. UNCHANGED endpointVars
    BY <1>2 DEF ServerWrite
  <2>5. UNCHANGED <<clients, lastConnID, sincoming, srmsg, serr, cls, bcls,
                    sstatus, sapp, shandle, sreceiver>>
    BY <1>2 DEF ServerWrite
  <2> QED BY <2>3, <2>4, <2>5, Frame DEF ServerTypeOK
<1>3. ASSUME NEW i \in ConnIDs, CloseConn(i)
      PROVE  EndpointTypeOK' /\ EpochOK' /\ ServerTypeOK'
  <2>1. cls' \in Seq(ConnIDs)
    BY <1>3, AppendType DEF CloseConn, ServerTypeOK
  <2>2. UNCHANGED endpointVars
    BY <1>3 DEF CloseConn
  <2> QED BY <1>3, <2>1, <2>2, Frame DEF CloseConn, ServerTypeOK
<1>4. CASE ServerClose \/ ServerCloseReturns
  <2>1. UNCHANGED endpointVars
    BY <1>4 DEF ServerClose, ServerCloseReturns
  <2>2. ServerTypeOK'
    BY <1>4 DEF ServerClose, ServerCloseReturns, ServerTypeOK, Status
  <2> QED BY <2>1, <2>2, Frame
<1>5. CASE ServerCloseSocket
  <2>1. sock' \in [Clients \cup {Server} -> {"open", "closed"}]
    BY <1>5 DEF ServerCloseSocket, EndpointTypeOK
  <2>2. UNCHANGED <<net, id, addr, incoming, txVars, rxVars, ctlVars, serverVars>>
    BY <1>5 DEF ServerCloseSocket
  <2>3. EpochOK'
    BY <2>2 DEF EpochOK, ctlVars
  <2> QED
    BY <2>1, <2>2, <2>3, Frame DEF EndpointTypeOK, txVars, rxVars, ctlVars
<1> QED
  BY <1>1, <1>2, <1>3, <1>4, <1>5 DEF ServerAppStep

LEMMA ServerReceiverType ==
  ASSUME EndpointAssumption, EndpointTypeOK, EpochOK, ServerTypeOK, ServerReceiverStep
  PROVE  EndpointTypeOK' /\ EpochOK' /\ ServerTypeOK'
<1>1. ASSUME NEW p \in net, ServerReceive(p)
      PROVE  EndpointTypeOK' /\ EpochOK' /\ ServerTypeOK'
  <2> DEFINE am(m) == [from |-> p.from, msg |-> m]
  <2>1. p \in Packet
    BY DEF EndpointTypeOK, Packet
  <2>2. PICK m \in Received(p) : sincoming' = Append(sincoming, am(m))
    BY <1>1 DEF ServerReceive
  <2>3. am(m) \in [from: Clients \cup {Server}, msg: Message]
    BY <2>1, <2>2, ReceivedType DEF Packet
  <2> HIDE DEF am
  <2>4. sincoming' \in Seq([from: Clients \cup {Server}, msg: Message])
    BY <2>2, <2>3, AppendType DEF ServerTypeOK
  <2>5. net' \subseteq Packet
    BY <1>1, ConsumeType DEF ServerReceive, EndpointTypeOK, Packet
  <2>6. UNCHANGED <<sock, id, addr, incoming, txVars, rxVars, ctlVars, clients, lastConnID, outgoing,
                    srmsg, serr, cls, bcls, sstatus, sapp, shandle, sreceiver>>
    BY <1>1 DEF ServerReceive
  <2>7. EpochOK'
    BY <2>6 DEF EpochOK, ctlVars
  <2>8. EndpointTypeOK'
    BY <2>5, <2>6 DEF EndpointTypeOK, Packet, txVars, rxVars, ctlVars
  <2>9. ServerTypeOK'
    BY <2>4, <2>6 DEF ServerTypeOK
  <2> QED BY <2>7, <2>8, <2>9
<1>2. CASE ServerSocketClosed
  <2>1. UNCHANGED endpointVars
    BY <1>2 DEF ServerSocketClosed
  <2>2. ServerTypeOK'
    BY <1>2 DEF ServerSocketClosed, ServerTypeOK, Status
  <2> QED BY <2>1, <2>2, Frame
<1> QED BY <1>1, <1>2 DEF ServerReceiverStep

LEMMA HandleStepType ==
  ASSUME EndpointAssumption, EndpointTypeOK, EpochOK, ServerTypeOK, HandleStep
  PROVE  EndpointTypeOK' /\ EpochOK' /\ ServerTypeOK'
<1>0. ConnIDs \subseteq Endpoints
  BY DEF Endpoints
<1> DEFINE SIn == [from: Clients \cup {Server}, msg: Message]
<1>a. ASSUME NEW t, Arrived(t)
      PROVE  sincoming' \in Seq(SIn) /\ Head(sincoming) \in SIn
  <2>1. sincoming \in Seq(SIn)
    BY DEF ServerTypeOK
  <2>2. sincoming # <<>> /\ sincoming' = Tail(sincoming)
    BY <1>a DEF Arrived
  <2> HIDE DEF SIn
  <2> QED BY <2>1, <2>2, HeadTailType
<1>1. CASE HandleDuplicateConnect
  <2>1. UNCHANGED endpointVars
    BY <1>1 DEF HandleDuplicateConnect
  <2>2. UNCHANGED <<clients, lastConnID, outgoing, srmsg, serr, cls, bcls,
                    sstatus, sapp, shandle, sreceiver>>
    BY <1>1 DEF HandleDuplicateConnect
  <2>3. sincoming' \in Seq(SIn)
    BY <1>1, <1>a DEF HandleDuplicateConnect
  <2>4. ServerTypeOK'
    BY <2>2, <2>3 DEF ServerTypeOK
  <2> QED BY <2>1, <2>4, Frame
<1>2. CASE HandleConnect
  <2> DEFINE i == lastConnID
             a == Head(sincoming).from
  <2>1. i \in ConnIDs /\ i \in Endpoints /\ i \in ConnID /\ i + 1 \in FirstConnID .. (FirstConnID + MaxConns)
    BY <1>0, <1>2 DEF HandleConnect, ServerTypeOK, ConnIDs, FirstConnID, ConnID, EndpointAssumption
  <2>2. sincoming' \in Seq(SIn) /\ a \in Clients \cup {Server}
    <3>1. Arrived("Connect")
      BY <1>2 DEF HandleConnect
    <3> QED BY <3>1, <1>a
  <2>3. net' \subseteq Packet
    <3>1. NewAck(i, 0) \in Message
      BY <2>1, NewMessageType
    <3>2. [from |-> Server, to |-> a, msg |-> NewAck(i, 0)] \in Packet
      BY <2>2, <3>1 DEF Packet
    <3> QED BY <1>2, <3>2 DEF HandleConnect, EndpointTypeOK, Packet
  <2>4. addr' \in [ConnIDs -> Clients \cup {Server}]
    BY <1>2, <2>1, <2>2 DEF HandleConnect, EndpointTypeOK
  <2>5. hpc' \in [Endpoints -> HandlerPc]
    BY <1>2, <2>1 DEF HandleConnect, EndpointTypeOK, HandlerPc
  <2>6. epochCount' \in [Endpoints -> 0 .. EpochLimit]
    BY <1>2, <2>1 DEF HandleConnect, EndpointTypeOK, EndpointAssumption
  <2>7. UNCHANGED <<sock, id, incoming, txVars, rxVars, status, ackSeq,
                    outgoing, srmsg, serr, cls, bcls, sstatus, sapp, shandle, sreceiver>>
    BY <1>2 DEF HandleConnect
  <2>8. EpochOK'
    BY <1>2, <2>1 DEF HandleConnect, EpochOK, EndpointTypeOK, EndpointAssumption
  <2>9. clients' \subseteq ConnIDs /\ lastConnID' = i + 1
    BY <1>2, <2>1 DEF HandleConnect, ServerTypeOK
  <2>10. EndpointTypeOK'
    BY <2>3, <2>4, <2>5, <2>6, <2>7 DEF EndpointTypeOK, Packet, txVars, rxVars
  <2>11. ServerTypeOK'
    BY <2>1, <2>2, <2>7, <2>9 DEF ServerTypeOK
  <2> QED BY <2>8, <2>10, <2>11
<1>3. CASE HandleRoute
  <2> DEFINE m == Head(sincoming).msg
  <2>1. sincoming' \in Seq(SIn) /\ m \in Message
    <3>1. Arrived("other")
      BY <1>3 DEF HandleRoute
    <3> QED BY <3>1, <1>a
  <2>2. incoming' = incoming \/ (m.conn \in clients /\ incoming' = [incoming EXCEPT ![m.conn] = Append(@, m)])
    BY <1>3 DEF HandleRoute
  <2>3. incoming' \in [Endpoints -> Seq(Message)]
    <3>1. CASE m.conn \in clients
      <4>1. m.conn \in Endpoints
        BY <1>0, <3>1 DEF ServerTypeOK
      <4>2. Append(incoming[m.conn], m) \in Seq(Message)
        BY <2>1, <4>1, AppendType DEF EndpointTypeOK
      <4> QED BY <2>2, <4>1, <4>2 DEF EndpointTypeOK
    <3>2. CASE m.conn \notin clients
      BY <2>2, <3>2 DEF EndpointTypeOK
    <3> QED BY <3>1, <3>2
  <2>4. UNCHANGED <<net, sock, id, addr, txVars, rxVars, ctlVars, clients, lastConnID, outgoing,
                    srmsg, serr, cls, bcls, sstatus, sapp, shandle, sreceiver>>
    BY <1>3 DEF HandleRoute
  <2>5. EpochOK'
    BY <2>4 DEF EpochOK, ctlVars
  <2>6. EndpointTypeOK'
    BY <2>3, <2>4 DEF EndpointTypeOK, txVars, rxVars, ctlVars
  <2>7. ServerTypeOK'
    BY <2>1, <2>4 DEF ServerTypeOK
  <2> QED BY <2>5, <2>6, <2>7
<1>4. CASE HandleOutgoing
  <2> DEFINE w == Head(outgoing)
  <2>1. w \in [conn: ConnIDs, data: Payload] /\ outgoing' \in Seq([conn: ConnIDs, data: Payload])
    <3> DEFINE W == [conn: ConnIDs, data: Payload]
    <3>1. outgoing \in Seq(W)
      BY DEF ServerTypeOK
    <3>2. outgoing # <<>> /\ outgoing' = Tail(outgoing)
      BY <1>4 DEF HandleOutgoing
    <3> HIDE DEF W
    <3>3. w \in W /\ outgoing' \in Seq(W)
      BY <3>1, <3>2, HeadTailType
    <3> QED BY <3>3 DEF W
  <2>2. \/ tmsg' = tmsg /\ written' = written
        \/ /\ tmsg' = [tmsg EXCEPT ![w.conn] = Append(@, w.data)]
           /\ written' = [written EXCEPT ![w.conn] = Append(@, w.data)]
    BY <1>4 DEF HandleOutgoing
  <2>3. w.conn \in Endpoints /\ w.data \in Payload
    BY <1>0, <2>1
  <2> HIDE DEF w
  <2>4. tmsg' \in [Endpoints -> Seq(Payload)] /\ written' \in [Endpoints -> Seq(Payload)]
    <3>1. CASE tmsg' = tmsg /\ written' = written
      BY <3>1 DEF EndpointTypeOK
    <3>2. CASE /\ tmsg' = [tmsg EXCEPT ![w.conn] = Append(@, w.data)]
               /\ written' = [written EXCEPT ![w.conn] = Append(@, w.data)]
      <4>1. /\ Append(tmsg[w.conn], w.data) \in Seq(Payload)
            /\ Append(written[w.conn], w.data) \in Seq(Payload)
        BY <2>3, AppendType DEF EndpointTypeOK
      <4> QED BY <2>3, <3>2, <4>1 DEF EndpointTypeOK
    <3> QED BY <2>2, <3>1, <3>2
  <2>5. UNCHANGED <<net, sock, id, addr, incoming, tbuffer, tsq, rxVars, ctlVars, clients, lastConnID,
                    sincoming, srmsg, serr, cls, bcls, sstatus, sapp, shandle, sreceiver>>
    BY <1>4 DEF HandleOutgoing
  <2>6. EpochOK'
    BY <2>5 DEF EpochOK, ctlVars
  <2>7. EndpointTypeOK'
    BY <2>4, <2>5 DEF EndpointTypeOK, rxVars, ctlVars
  <2>8. ServerTypeOK'
    BY <2>1, <2>5 DEF ServerTypeOK
  <2> QED BY <2>6, <2>7, <2>8
<1>5. CASE HandleCls
  <2> DEFINE i == Head(cls)
  <2>1. i \in ConnIDs /\ cls' \in Seq(ConnIDs) /\ clients' \subseteq ConnIDs
    BY <1>5 DEF HandleCls, ServerTypeOK
  <2>2. status' \in [Endpoints -> Status]
    <3>1. status' = status \/ status' = [status EXCEPT ![i] = "startClosing"]
      BY <1>5 DEF HandleCls
    <3> QED BY <1>0, <2>1, <3>1 DEF EndpointTypeOK, Status
  <2>3. sstatus' \in Status /\ shandle' \in {"run", "dead"}
    BY <1>5 DEF HandleCls, ServerTypeOK, Status
  <2>4. UNCHANGED <<net, sock, id, addr, incoming, txVars, rxVars, epochCount, hpc, ackSeq, lastConnID,
                    sincoming, outgoing, srmsg, serr, bcls, sapp, sreceiver>>
    BY <1>5 DEF HandleCls
  <2>5. EpochOK'
    BY <2>4 DEF EpochOK
  <2>6. EndpointTypeOK'
    BY <2>2, <2>4 DEF EndpointTypeOK, txVars, rxVars
  <2>7. ServerTypeOK'
    BY <2>1, <2>3, <2>4 DEF ServerTypeOK
  <2> QED BY <2>5, <2>6, <2>7
<1> QED
  BY <1>1, <1>2, <1>3, <1>4, <1>5 DEF HandleStep

LEMMA ConnStepType ==
  ASSUME EndpointAssumption, EndpointTypeOK, EpochOK, ServerTypeOK,
         NEW i \in ConnIDs, ConnStep(i)
  PROVE  EndpointTypeOK' /\ EpochOK' /\ ServerTypeOK'
<1>0. i \in Endpoints
  BY DEF Endpoints
<1>1. CASE ConnExit(i)
  <2>1. status' \in [Endpoints -> Status]
    BY <1>0, <1>1 DEF ConnExit, EndpointTypeOK, Status
  <2>2. hpc' \in [Endpoints -> HandlerPc]
    BY <1>0, <1>1 DEF ConnExit, EndpointTypeOK, HandlerPc
  <2>3. cls' \in Seq(ConnIDs)
    BY <1>1, AppendType DEF ConnExit, ServerTypeOK
  <2>4. UNCHANGED <<net, sock, id, addr, incoming, txVars, rxVars, epochCount, ackSeq, clients,
                    lastConnID, sincoming, outgoing, srmsg, serr, bcls, sstatus, sapp, shandle,
                    sreceiver>>
    BY <1>1 DEF ConnExit
  <2>5. EpochOK'
    BY <1>0, <1>1, <2>4 DEF ConnExit, EpochOK, EndpointTypeOK
  <2>6. EndpointTypeOK'
    BY <2>1, <2>2, <2>4 DEF EndpointTypeOK, txVars, rxVars
  <2>7. ServerTypeOK'
    BY <2>3, <2>4 DEF ServerTypeOK
  <2> QED BY <2>5, <2>6, <2>7
<1>2. CASE ConnShortData(i) \/ ConnData(i) \/ ConnEndDelivery(i)
  BY <1>0, <1>2, HandleShortDataType, HandleDataType, EndDeliveryType, Frame
     DEF ConnShortData, ConnData, ConnEndDelivery
<1>3. CASE ConnDeliver(i)
  <2> DEFINE d(r) == [conn |-> i, data |-> r.data, fit |-> r.fit]
             D == [conn: ConnIDs, data: Payload, fit: Fit]
  <2>1. PICK r \in rbuffer[i] : DeliverNext(i, r) /\ srmsg' = Append(srmsg, d(r))
    BY <1>3 DEF ConnDeliver
  <2>2. EndpointTypeOK' /\ EpochOK'
    BY <1>0, <2>1, DeliverNextType
  <2>3. d(r) \in D
    BY <1>0 DEF EndpointTypeOK
  <2>4. srmsg \in Seq(D)
    BY DEF ServerTypeOK
  <2> HIDE DEF d, D
  <2>5. srmsg' \in Seq(D)
    BY <2>1, <2>3, <2>4, AppendType
  <2>6. UNCHANGED <<clients, lastConnID, sincoming, outgoing, serr, cls, bcls,
                    sstatus, sapp, shandle, sreceiver>>
    BY <1>3 DEF ConnDeliver
  <2> QED BY <2>2, <2>5, <2>6 DEF ServerTypeOK, D
<1>4. CASE ConnAck(i)
  <2>1. id' \in [Endpoints -> ConnID]
    BY <1>4 DEF ConnAck, EndpointTypeOK
  <2> QED BY <1>0, <1>4, <2>1, HandleAckType, Frame DEF ConnAck
<1>5. CASE ConnEpoch(i)
  BY <1>0, <1>5, HeartbeatType, EpochType, Frame DEF ConnEpoch
<1>6. CASE ConnTimeout(i)
  <2>1. epochCount' \in [Endpoints -> 0 .. EpochLimit]
    BY <1>0, <1>6 DEF ConnTimeout, EndpointTypeOK, EndpointAssumption
  <2>2. hpc' \in [Endpoints -> HandlerPc]
    BY <1>0, <1>6 DEF ConnTimeout, EndpointTypeOK, HandlerPc
  <2>3. cls' \in Seq(ConnIDs)
    BY <1>6, AppendType DEF ConnTimeout, ServerTypeOK
  <2>4. UNCHANGED <<net, sock, id, addr, incoming, txVars, rxVars, status, ackSeq, clients,
                    lastConnID, sincoming, outgoing, srmsg, serr, bcls, sstatus, sapp, shandle,
                    sreceiver>>
    BY <1>6 DEF ConnTimeout
  <2>5. EpochOK'
    BY <1>0, <1>6 DEF ConnTimeout, EpochOK, EndpointTypeOK
  <2>6. EndpointTypeOK'
    BY <2>1, <2>2, <2>4 DEF EndpointTypeOK, txVars, rxVars
  <2>7. ServerTypeOK'
    BY <2>3, <2>4 DEF ServerTypeOK
  <2> QED BY <2>5, <2>6, <2>7
<1>7. CASE ConnReport(i)
  <2>1. status' \in [Endpoints -> Status]
    BY <1>0, <1>7 DEF ConnReport, EndpointTypeOK, Status
  <2>2. hpc' \in [Endpoints -> HandlerPc]
    BY <1>0, <1>7 DEF ConnReport, EndpointTypeOK, HandlerPc
  <2>3. serr' \in Seq(ConnIDs)
    BY <1>7, AppendType DEF ConnReport, ServerTypeOK
  <2>4. UNCHANGED <<net, sock, id, addr, incoming, txVars, rxVars, epochCount, ackSeq, clients,
                    lastConnID, sincoming, outgoing, srmsg, cls, bcls, sstatus, sapp, shandle,
                    sreceiver>>
    BY <1>7 DEF ConnReport
  <2>5. EpochOK'
    BY <1>0, <1>7, <2>4 DEF ConnReport, EpochOK, EndpointTypeOK
  <2>6. EndpointTypeOK'
    BY <2>1, <2>2, <2>4 DEF EndpointTypeOK, txVars, rxVars
  <2>7. ServerTypeOK'
    BY <2>3, <2>4 DEF ServerTypeOK
  <2> QED BY <2>5, <2>6, <2>7
<1>8. ASSUME SeeBroadcast(i)
      PROVE  status' \in [Endpoints -> Status]
  <2>1. status' = status \/ status' = [status EXCEPT ![i] = "startClosing"]
    BY <1>8 DEF SeeBroadcast
  <2> QED BY <1>0, <2>1 DEF EndpointTypeOK, Status
<1>9. CASE ConnTransmit(i)
  BY <1>0, <1>8, <1>9, TransmitType, Frame DEF ConnTransmit
<1>10. CASE ConnIdle(i)
  <2>1. UNCHANGED <<net, sock, id, addr, incoming, txVars, rxVars, epochCount, hpc, ackSeq, serverVars>>
    BY <1>10 DEF ConnIdle
  <2>2. status' \in [Endpoints -> Status]
    BY <1>8, <1>10 DEF ConnIdle
  <2>3. EpochOK'
    BY <2>1 DEF EpochOK
  <2> QED BY <2>1, <2>2, <2>3, Frame DEF EndpointTypeOK, txVars, rxVars
<1> QED
  BY <1>1, <1>2, <1>3, <1>4, <1>5, <1>6, <1>7, <1>9, <1>10 DEF ConnStep

-----------------------------------------------------------------------------
\* TypeInv is inductive.
LEMMA TypeInit == ASSUME EndpointAssumption, Init PROVE TypeInv
<1> USE DEF Init, EndpointInit, ClientInit, ServerInit
<1>1. EndpointTypeOK
  BY DEF EndpointTypeOK, EndpointAssumption, Endpoints, ConnID, Status, HandlerPc
<1>2. ClientTypeOK
  BY DEF ClientTypeOK, ClientApp
<1>3. ServerTypeOK
  <2>1. FirstConnID \in FirstConnID .. (FirstConnID + MaxConns)
    BY DEF EndpointAssumption, FirstConnID
  <2>2. \A S : <<>> \in Seq(S)
    OBVIOUS
  <2> QED BY <2>1, <2>2 DEF ServerTypeOK, Status
<1>4. EpochOK
  BY DEF EpochOK, EndpointAssumption
<1> QED BY <1>1, <1>2, <1>3, <1>4 DEF TypeInv, TypeOK

LEMMA TypeNext == ASSUME EndpointAssumption, TypeInv, [Next]_vars PROVE TypeInv'
<1> USE DEF TypeInv, TypeOK
<1>1. ASSUME NEW c \in Clients, ClientStep(c), UNCHANGED serverVars PROVE TypeInv'
  BY <1>1, ClientStepType, Frame
<1>2. CASE ServerStep /\ UNCHANGED clientVars
  BY <1>2, ServerAppType, ServerReceiverType, HandleStepType, ConnStepType, Frame DEF ServerStep
<1>3. CASE LosePacket /\ UNCHANGED <<sock, id, addr, incoming, txVars, rxVars, ctlVars,
                                     clientVars, serverVars>>
  <2>1. net' \subseteq net
    BY <1>3 DEF LosePacket
  <2>2. EndpointTypeOK'
    BY <1>3, <2>1 DEF EndpointTypeOK, txVars, rxVars, ctlVars
  <2>3. EpochOK'
    BY <1>3 DEF EpochOK, ctlVars
  <2> QED BY <1>3, <2>2, <2>3, Frame
<1>4. CASE UNCHANGED vars
  BY <1>4, Frame DEF vars
<1> QED BY <1>1, <1>2, <1>3, <1>4 DEF Next

\* Type correctness: whatever the clients, the server's goroutines and the network
\* do, every field keeps its type; a client's connection ID is -1 or an ID the
\* server hands out, only data messages with a payload are buffered for delivery,
\* and no handler counts beyond EpochLimit (client_impl.go, server_impl.go).
THEOREM TypeCorrect == Spec => []TypeOK
<1>1. Init => TypeInv
  BY TypeInit, EndpointAssumption
<1>2. TypeInv /\ [Next]_vars => TypeInv'
  BY TypeNext, EndpointAssumption
<1>3. TypeInv => TypeOK
  BY DEF TypeInv
<1> QED BY <1>1, <1>2, <1>3, PTL DEF Spec

-----------------------------------------------------------------------------
(* Connection IDs *)

\* Constants, spelled out for the provers: clients are not numbers.
LEMMA Kinds ==
  ASSUME EndpointAssumption
  PROVE  /\ ConnIDs \subseteq Int
         /\ Clients \cap ConnIDs = {}
         /\ Server \notin Clients
         /\ -1 \notin ConnIDs
         /\ -1 \notin Clients
BY DEF EndpointAssumption, ConnIDs, FirstConnID

\* The elements of a channel after a send and after a receive.
LEMMA ElemsAppend ==
  ASSUME NEW S, NEW s \in Seq(S), NEW x
  PROVE  Elems(Append(s, x)) = Elems(s) \cup {x}
BY DEF Elems

LEMMA ElemsTail ==
  ASSUME NEW S, NEW s \in Seq(S), s # <<>>
  PROVE  Head(s) \in Elems(s) /\ Elems(Tail(s)) \subseteq Elems(s)
BY DEF Elems

LEMMA ElemsType ==
  ASSUME NEW S, NEW s \in Seq(S)
  PROVE  Elems(s) \subseteq S
BY DEF Elems

LEMMA ElemsEmpty == Elems(<<>>) = {}
BY DEF Elems

\* The case m := <-incoming takes one element out of e's channel.
LEMMA DequeueElems ==
  ASSUME EndpointTypeOK, NEW e \in Endpoints, NEW t, Dequeue(e, t)
  PROVE  /\ Head(incoming[e]) \in Elems(incoming[e])
         /\ Head(incoming[e]) \in Message
         /\ \A d \in Endpoints : Elems(incoming'[d]) \subseteq Elems(incoming[d])
<1>1. incoming[e] \in Seq(Message) /\ incoming[e] # <<>>
  BY DEF EndpointTypeOK, Dequeue
<1>2. incoming' = [incoming EXCEPT ![e] = Tail(@)] /\ incoming \in [Endpoints -> Seq(Message)]
  BY DEF Dequeue, EndpointTypeOK
<1>3. Head(incoming[e]) \in Elems(incoming[e]) /\ Elems(Tail(incoming[e])) \subseteq Elems(incoming[e])
  BY <1>1, ElemsTail
<1>4. ASSUME NEW d \in Endpoints PROVE Elems(incoming'[d]) \subseteq Elems(incoming[d])
  BY <1>2, <1>3
<1> QED BY <1>1, <1>3, <1>4, HeadTailType

-----------------------------------------------------------------------------
\* A message an endpoint may send: a connection sends data and acks in its name.
Sendable(e, m) == e \in ConnIDs => m.type # "Connect" /\ m.conn = e

\* A step of e's handler that sends sendable messages and may take a message from
\* its channel keeps everything but IdOK and AppOK, which depend on id and capp.
LEMMA HandlerConn ==
  ASSUME EndpointAssumption, TypeInv, ConnInv, NEW e \in Endpoints, hpc[e] # "off",
         UNCHANGED <<addr, lastConnID, sincoming>>,
         clients' \subseteq clients,
         \A d \in Endpoints : d # e => hpc'[d] = hpc[d],
         \A d \in Endpoints : Elems(incoming'[d]) \subseteq Elems(incoming[d]),
         \A d \in ConnIDs : \A m \in tbuffer'[d] :
            m \in tbuffer[d] \/ (d = e /\ m.type = "Data" /\ m.conn = e),
         \A p \in net' : p \in net \/ \E m \in Message : Sendable(e, m) /\ p = Outbound(e, m)
  PROVE  ConnOK' /\ NetRoute' /\ IncomingRoute' /\ SincomingRoute'
<1>1. ConnOK'
  <2>1. \A i \in ConnIDs : IF i < lastConnID THEN addr[i] \in Clients
                                             ELSE addr[i] = Server /\ hpc'[i] = "off"
    <3>1. ConnIDs \subseteq Endpoints
      BY DEF Endpoints
    <3>2. \A i \in ConnIDs : IF i < lastConnID THEN addr[i] \in Clients
                                               ELSE addr[i] = Server /\ hpc[i] = "off"
      BY DEF ConnInv, ConnOK
    <3> QED BY <3>1, <3>2
  <2>2. \A i \in clients' : i < lastConnID
    BY DEF ConnInv, ConnOK
  <2>3. \A i, j \in clients' : addr[i] = addr[j] => i = j
    BY DEF ConnInv, ConnOK
  <2>4. \A i \in ConnIDs : \A m \in tbuffer'[i] : m.type = "Data" /\ m.conn = i
    BY DEF ConnInv, ConnOK
  <2> QED BY <2>1, <2>2, <2>3, <2>4 DEF ConnOK
<1>2. NetRoute'
  <2> SUFFICES ASSUME NEW p \in net'
               PROVE  (IF p.to = Server THEN p.from \in Clients ELSE ToClient(p.to, p.msg))'
    BY DEF NetRoute
  <2>1. CASE p \in net
    BY <2>1 DEF ConnInv, NetRoute, ToClient
  <2>2. CASE p \notin net
    <3>1. PICK m \in Message : Sendable(e, m) /\ p = Outbound(e, m)
      BY <2>2
    <3>2. CASE e \in Clients
      BY <3>1, <3>2 DEF Outbound, Host
    <3>3. CASE e \in ConnIDs /\ e \notin Clients
      <4>1. addr[e] \in Clients
        BY <3>3 DEF ConnInv, ConnOK
      <4>2. p.to = addr[e] /\ p.msg = m
        BY <3>1, <3>3 DEF Outbound
      <4>3. m.type # "Connect" /\ m.conn = e
        BY <3>1, <3>3 DEF Sendable
      <4> QED BY <3>3, <4>1, <4>2, <4>3, Kinds DEF ToClient
    <3> QED BY <3>2, <3>3 DEF Endpoints
  <2> QED BY <2>1, <2>2
<1>3. IncomingRoute'
  BY DEF ConnInv, IncomingRoute, ToClient, Endpoints
<1>4. SincomingRoute'
  BY DEF ConnInv, SincomingRoute
<1> QED BY <1>1, <1>2, <1>3, <1>4

\* ... and the rest, when it leaves id and capp alone.
LEMMA HandlerIdApp ==
  ASSUME EndpointAssumption, TypeInv, ConnInv, NEW e \in Endpoints, hpc[e] # "off",
         UNCHANGED <<id, addr, capp>>,
         \A d \in Endpoints : d # e => hpc'[d] = hpc[d]
  PROVE  IdOK' /\ AppOK'
<1>1. IdOK'
  BY DEF ConnInv, IdOK
<1>2. AppOK'
  BY DEF ConnInv, AppOK, Endpoints
<1> QED BY <1>1, <1>2

-----------------------------------------------------------------------------
\* What e's own code builds is sendable.
LEMMA OwnSendable ==
  ASSUME TypeInv, ConnInv, NEW e \in Endpoints
  PROVE  /\ \A n \in Nat : Sendable(e, NewAck(id[e], n))
         /\ \A n \in Nat, p \in Payload : Sendable(e, NewData(id[e], n, p))
         /\ \A m \in Heartbeat(e) : Sendable(e, m)
         /\ \A m \in tbuffer[e] : Sendable(e, m)
<1>1. e \in ConnIDs => id[e] = e
  BY DEF ConnInv, IdOK
<1>2. \A n \in Nat : Sendable(e, NewAck(id[e], n))
  BY <1>1 DEF Sendable, NewAck
<1>3. \A n \in Nat, p \in Payload : Sendable(e, NewData(id[e], n, p))
  BY <1>1 DEF Sendable, NewData
<1>4. \A m \in tbuffer[e] : Sendable(e, m)
  BY DEF Sendable, ConnInv, ConnOK
<1> QED BY <1>2, <1>3, <1>4 DEF Heartbeat

LEMMA Sends ==
  ASSUME NEW e \in Endpoints, NEW ms, ms \subseteq Message, WriteMessages(e, ms),
         \A m \in ms : Sendable(e, m)
  PROVE  \A p \in net' : p \in net \/ \E m \in Message : Sendable(e, m) /\ p = Outbound(e, m)
BY DEF WriteMessages

\* The cases of the select statement.
LEMMA SelectConn ==
  ASSUME EndpointAssumption, TypeInv, ConnInv, NEW e \in Endpoints,
         UNCHANGED <<lastConnID, sincoming, clients>>,
         \/ HandleShortData(e)
         \/ HandleData(e)
         \/ \E r \in rbuffer[e] : DeliverNext(e, r)
         \/ EndDelivery(e)
         \/ HandleAck(e)
         \/ Transmit(e)
         \/ \E extra \in SUBSET Message : (\A m \in extra : Sendable(e, m)) /\ Epoch(e, extra)
  PROVE  /\ ConnOK' /\ NetRoute' /\ IncomingRoute' /\ SincomingRoute'
         /\ hpc[e] # "off" /\ UNCHANGED addr
         /\ \A d \in Endpoints : d # e => hpc'[d] = hpc[d]
<1> DEFINE SentOnly == \A p \in net' : p \in net \/ \E m \in Message : Sendable(e, m) /\ p = Outbound(e, m)
           HpcOnly  == \A d \in Endpoints : d # e => hpc'[d] = hpc[d]
           InOnly   == \A d \in Endpoints : Elems(incoming'[d]) \subseteq Elems(incoming[d])
           TbOnly   == \A d \in ConnIDs : \A m \in tbuffer'[d] :
                          m \in tbuffer[d] \/ (d = e /\ m.type = "Data" /\ m.conn = e)
<1>t. EndpointTypeOK
  BY DEF TypeInv, TypeOK
<1>e. ConnIDs \subseteq Endpoints
  BY DEF Endpoints
<1>1. CASE HandleShortData(e)
  <2>1. UNCHANGED <<addr, net, hpc, tbuffer>> /\ hpc[e] # "off" /\ Dequeue(e, "Data")
    BY <1>1 DEF HandleShortData, txVars, Dequeue, AtSelect
  <2>2. InOnly
    BY <2>1, <1>t, DequeueElems
  <2>3. SentOnly /\ HpcOnly /\ TbOnly
    BY <2>1
  <2> QED BY <2>1, <2>2, <2>3, HandlerConn
<1>2. CASE HandleData(e)
  <2> DEFINE m == Head(incoming[e])
  <2>1. UNCHANGED <<addr, tbuffer>> /\ hpc[e] # "off" /\ Dequeue(e, "Data")
    BY <1>2 DEF HandleData, txVars, Dequeue, AtSelect
  <2>2. InOnly /\ m \in Message
    BY <2>1, <1>t, DequeueElems
  <2>3. HpcOnly
    BY <1>2, <1>t DEF HandleData, EndpointTypeOK
  <2>4. SentOnly
    <3>1. CASE net' = net
      BY <3>1
    <3>2. CASE WriteMessages(e, {NewAck(id[e], m.seq)})
      <4>1. m.seq \in Nat /\ id[e] \in ConnID
        BY <1>t, <2>2, MessageFields DEF EndpointTypeOK
      <4>2. {NewAck(id[e], m.seq)} \subseteq Message
        BY <4>1, NewMessageType
      <4>3. \A x \in {NewAck(id[e], m.seq)} : Sendable(e, x)
        BY <4>1, OwnSendable
      <4> QED BY <3>2, <4>2, <4>3, Sends
    <3> QED BY <1>2, <3>1, <3>2 DEF HandleData
  <2>5. TbOnly
    BY <2>1
  <2> QED BY <2>1, <2>2, <2>3, <2>4, <2>5, HandlerConn
<1>3. CASE \E r \in rbuffer[e] : DeliverNext(e, r)
  <2>1. UNCHANGED <<addr, net, incoming, hpc, tbuffer>> /\ hpc[e] # "off"
    BY <1>3 DEF DeliverNext, txVars, ctlVars
  <2>2. InOnly /\ SentOnly /\ HpcOnly /\ TbOnly
    BY <2>1
  <2> QED BY <2>1, <2>2, HandlerConn
<1>4. CASE EndDelivery(e)
  <2>1. UNCHANGED <<addr, incoming, tbuffer>> /\ hpc[e] # "off"
    BY <1>4 DEF EndDelivery, txVars
  <2>2. HpcOnly
    BY <1>4, <1>t DEF EndDelivery, EndpointTypeOK
  <2>3. SentOnly
    <3>1. ackSeq[e] \in Nat /\ id[e] \in ConnID
      BY <1>t DEF EndpointTypeOK
    <3>2. {NewAck(id[e], ackSeq[e])} \subseteq Message
      BY <3>1, NewMessageType
    <3>3. \A x \in {NewAck(id[e], ackSeq[e])} : Sendable(e, x)
      BY <3>1, OwnSendable
    <3>4. WriteMessages(e, {NewAck(id[e], ackSeq[e])})
      BY <1>4 DEF EndDelivery
    <3> QED BY <3>2, <3>3, <3>4, Sends
  <2>4. InOnly /\ TbOnly
    BY <2>1
  <2> QED BY <2>1, <2>2, <2>3, <2>4, HandlerConn
<1>5. CASE HandleAck(e)
  <2>1. UNCHANGED <<addr, net, hpc>> /\ hpc[e] # "off" /\ Dequeue(e, "Ack")
    BY <1>5 DEF HandleAck, Dequeue, AtSelect
  <2>2. InOnly
    BY <2>1, <1>t, DequeueElems
  <2>3. TbOnly
    BY <1>5, <1>t, <1>e DEF HandleAck, EndpointTypeOK
  <2>4. SentOnly /\ HpcOnly
    BY <2>1
  <2> QED BY <2>1, <2>2, <2>3, <2>4, HandlerConn
<1>6. CASE Transmit(e)
  <2> DEFINE m == NewData(id[e], tsq[e], Head(tmsg[e]))
  <2>1. UNCHANGED <<addr, incoming, hpc>> /\ hpc[e] # "off"
    BY <1>6 DEF Transmit, AtSelect
  <2>2. tbuffer' = [tbuffer EXCEPT ![e] = @ \cup {m}] /\ WriteMessages(e, {m})
    BY <1>6 DEF Transmit
  <2>3. Head(tmsg[e]) \in Payload /\ id[e] \in ConnID /\ tsq[e] \in Nat
    BY <1>6, <1>t DEF Transmit, CanTransmit, EndpointTypeOK
  <2>4. m \in Message /\ Sendable(e, m)
    BY <2>3, NewMessageType, OwnSendable
  <2>5. m.type = "Data" /\ m.conn = id[e]
    BY DEF NewData
  <2> HIDE DEF m
  <2>6. SentOnly
    <3>1. {m} \subseteq Message /\ \A x \in {m} : Sendable(e, x)
      BY <2>4
    <3> QED BY <2>2, <3>1, Sends
  <2>7. TbOnly
    BY <1>e, <1>t, <2>2, <2>5 DEF EndpointTypeOK, ConnInv, IdOK
  <2>8. InOnly /\ HpcOnly
    BY <2>1
  <2> QED BY <2>1, <2>6, <2>7, <2>8, HandlerConn
<1>7. ASSUME NEW extra \in SUBSET Message, \A m \in extra : Sendable(e, m), Epoch(e, extra)
      PROVE  /\ ConnOK' /\ NetRoute' /\ IncomingRoute' /\ SincomingRoute'
             /\ hpc[e] # "off" /\ UNCHANGED addr /\ HpcOnly
  <2>1. UNCHANGED <<addr, incoming, hpc, tbuffer>> /\ hpc[e] # "off"
    BY <1>7 DEF Epoch, AtSelect, txVars
  <2>2. WriteMessages(e, extra \cup tbuffer[e])
    BY <1>7 DEF Epoch
  <2>3. extra \cup tbuffer[e] \subseteq Message
    BY <1>t DEF EndpointTypeOK
  <2>4. \A m \in extra \cup tbuffer[e] : Sendable(e, m)
    BY <1>7, OwnSendable
  <2>5. SentOnly
    BY <2>2, <2>3, <2>4, Sends
  <2>6. InOnly /\ HpcOnly /\ TbOnly
    BY <2>1
  <2> QED BY <2>1, <2>5, <2>6, HandlerConn
<1> QED BY <1>1, <1>2, <1>3, <1>4, <1>5, <1>6, <1>7

\* A step that sends nothing, starts and ends no handler and makes no connection.
LEMMA QuietConn ==
  ASSUME TypeInv, ConnInv, UNCHANGED <<id, addr, hpc, lastConnID, tbuffer>>,
         net' \subseteq net, clients' \subseteq clients,
         \A c \in Clients : \A m \in Elems(incoming'[c]) : m \in Elems(incoming[c]) \/ ToClient(c, m),
         \A a \in Elems(sincoming') : a \in Elems(sincoming) \/ a.from \in Clients,
         \A c \in Clients : /\ capp'[c] = "new" => capp[c] = "new"
                            /\ capp'[c] \notin {"new", "connecting"} =>
                                 capp[c] \notin {"new", "connecting"} \/ id[c] # -1
  PROVE  ConnInv'
<1>1. IdOK'
  BY DEF ConnInv, IdOK
<1>2. ConnOK'
  BY DEF ConnInv, ConnOK
<1>3. NetRoute'
  BY DEF ConnInv, NetRoute, ToClient
<1>4. IncomingRoute'
  BY DEF ConnInv, IncomingRoute, ToClient
<1>5. SincomingRoute'
  BY DEF ConnInv, SincomingRoute
<1>6. AppOK'
  BY DEF ConnInv, AppOK
<1> QED BY <1>1, <1>2, <1>3, <1>4, <1>5, <1>6 DEF ConnInv

\* A length fault changes neither the type nor the connection of a message.
LEMMA ReceivedFields ==
  ASSUME NEW p \in Packet, NEW m \in Received(p)
  PROVE  m.type = p.msg.type /\ m.conn = p.msg.conn /\ m.seq = p.msg.seq /\ m.data = p.msg.data
<1>1. CASE m = p.msg
  BY <1>1
<1>2. CASE \E f \in Faults : p.msg.type = "Data" /\ m = [p.msg EXCEPT !.fit = f]
  <2>1. p.msg \in DataMsg
    BY <1>2, MessageFields DEF Packet
  <2> QED BY <1>2, <2>1 DEF DataMsg
<1> QED BY <1>1, <1>2 DEF Received

-----------------------------------------------------------------------------
\* The client's goroutines.
LEMMA ClientAppConn ==
  ASSUME EndpointAssumption, TypeInv, ConnInv, NEW c \in Clients, ClientAppStep(c), UNCHANGED serverVars
  PROVE  ConnInv'
<1>0. c \in Endpoints /\ c \notin ConnIDs
  BY Kinds DEF Endpoints
<1>s. UNCHANGED <<lastConnID, sincoming, clients>>
  BY DEF serverVars
<1>1. CASE NewClient(c)
  <2>1. UNCHANGED <<id, addr, incoming>> /\ WriteMessages(c, {NewConnect})
    BY <1>1 DEF NewClient
  <2>2. tbuffer' = [tbuffer EXCEPT ![c] = {NewConnect}]
    BY <1>1 DEF NewClient
  <2>3. hpc' = [hpc EXCEPT ![c] = "loop"]
    BY <1>1 DEF NewClient
  <2>4. capp[c] = "new" /\ capp' = [capp EXCEPT ![c] = "connecting"]
    BY <1>1 DEF NewClient
  <2>5. IdOK'
    BY <2>1 DEF ConnInv, IdOK
  <2>6. ConnOK'
    <3>1. \A i \in ConnIDs : tbuffer'[i] = tbuffer[i] /\ hpc'[i] = hpc[i]
      BY <1>0, <2>2, <2>3 DEF TypeInv, TypeOK, EndpointTypeOK, Endpoints
    <3> QED BY <3>1, <2>1, <1>s DEF ConnInv, ConnOK
  <2>7. NetRoute'
    <3>1. \A p \in net' : p \in net \/ p = Outbound(c, NewConnect)
      BY <2>1 DEF WriteMessages
    <3>2. Outbound(c, NewConnect).to = Server /\ Outbound(c, NewConnect).from = c
      BY DEF Outbound, Host
    <3> QED BY <3>1, <3>2, <2>1 DEF ConnInv, NetRoute, ToClient
  <2>8. IncomingRoute' /\ SincomingRoute'
    BY <2>1, <1>s DEF ConnInv, IncomingRoute, SincomingRoute, ToClient
  <2>9. AppOK'
    BY <2>1, <2>3, <2>4 DEF ConnInv, AppOK, TypeInv, TypeOK, ClientTypeOK, EndpointTypeOK, Endpoints
  <2> QED BY <2>5, <2>6, <2>7, <2>8, <2>9 DEF ConnInv
<1>2. CASE NewClientReturns(c) \/ ClientCloseGet(c)
  <2>1. UNCHANGED <<id, addr, hpc, tbuffer, net, incoming>>
    BY <1>2 DEF NewClientReturns, ClientCloseGet, endpointVars, ctlVars, txVars
  <2>2. \A d \in Clients : /\ capp'[d] = "new" => capp[d] = "new"
                           /\ capp'[d] \notin {"new", "connecting"} =>
                                capp[d] \notin {"new", "connecting"} \/ id[d] # -1
    BY <1>2 DEF NewClientReturns, ClientCloseGet, TypeInv, TypeOK, ClientTypeOK
  <2> QED BY <1>s, <2>1, <2>2, QuietConn
<1>3. CASE ClientReadData(c) \/ ClientReadError(c)
  <2>1. UNCHANGED <<id, addr, hpc, tbuffer, net, incoming, capp>>
    BY <1>3 DEF ClientReadData, ClientReadError, endpointVars, ctlVars, txVars
  <2> QED BY <1>s, <2>1, QuietConn
<1>4. ASSUME NEW p \in Payload, ClientWrite(c, p) PROVE ConnInv'
  <2>1. UNCHANGED <<id, addr, hpc, tbuffer, net, incoming, capp>>
    BY <1>4 DEF ClientWrite, ctlVars, clientVars
  <2> QED BY <1>s, <2>1, QuietConn
<1>5. CASE ClientCloseSet(c) \/ ClientCloseReturns(c)
  <2>1. UNCHANGED <<id, addr, hpc, tbuffer, net, incoming>>
    BY <1>5 DEF ClientCloseSet, ClientCloseReturns, txVars
  <2>2. \A d \in Clients : /\ capp'[d] = "new" => capp[d] = "new"
                           /\ capp'[d] \notin {"new", "connecting"} =>
                                capp[d] \notin {"new", "connecting"} \/ id[d] # -1
    BY <1>5 DEF ClientCloseSet, ClientCloseReturns, TypeInv, TypeOK, ClientTypeOK
  <2> QED BY <1>s, <2>1, <2>2, QuietConn
<1>6. CASE ClientCloseSocket(c)
  <2>1. UNCHANGED <<id, addr, hpc, tbuffer, net, incoming, capp>>
    BY <1>6 DEF ClientCloseSocket, txVars, ctlVars, clientVars
  <2> QED BY <1>s, <2>1, QuietConn
<1> QED BY <1>1, <1>2, <1>3, <1>4, <1>5, <1>6 DEF ClientAppStep

LEMMA ClientReceiverConn ==
  ASSUME EndpointAssumption, TypeInv, ConnInv, NEW c \in Clients, ClientReceiverStep(c),
         UNCHANGED serverVars
  PROVE  ConnInv'
<1>0. c \in Endpoints
  BY DEF Endpoints
<1>s. UNCHANGED <<lastConnID, sincoming, clients>>
  BY DEF serverVars
<1>1. ASSUME NEW p \in net, ClientReceive(c, p) PROVE ConnInv'
  <2>1. UNCHANGED <<id, addr, hpc, tbuffer, capp>> /\ net' \subseteq net
    BY <1>1, ConsumeType DEF ClientReceive, ctlVars, clientVars, txVars
  <2>2. PICK m \in Received(p) : incoming' = [incoming EXCEPT ![c] = Append(@, m)]
    BY <1>1 DEF ClientReceive
  <2>3. p \in Packet
    BY DEF TypeInv, TypeOK, EndpointTypeOK, Packet
  <2>4. ToClient(c, p.msg)
    BY <1>1, Kinds DEF ClientReceive, ConnInv, NetRoute
  <2>5. ToClient(c, m)
    BY <2>2, <2>3, <2>4, ReceivedFields DEF ToClient
  <2>6. Elems(Append(incoming[c], m)) = Elems(incoming[c]) \cup {m}
    BY <1>0, ElemsAppend DEF TypeInv, TypeOK, EndpointTypeOK
  <2>7. \A d \in Clients : \A x \in Elems(incoming'[d]) : x \in Elems(incoming[d]) \/ ToClient(d, x)
    BY <2>2, <2>5, <2>6 DEF TypeInv, TypeOK, EndpointTypeOK, Endpoints
  <2> QED BY <1>s, <2>1, <2>7, QuietConn
<1>2. ASSUME ReceiverError(c), net' \subseteq net PROVE ConnInv'
  <2>1. UNCHANGED <<id, addr, hpc, tbuffer, incoming, capp>>
    BY <1>2 DEF ReceiverError, txVars
  <2> QED BY <1>s, <1>2, <2>1, QuietConn
<1> QED
  BY <1>1, <1>2, ConsumeType
     DEF ClientReceiverStep, ClientSocketClosed, ClientOversize, ClientRefused

\* A handler that leaves its loop: only hpc of what ConnInv speaks of changes.
LEMMA HandlerEnds ==
  ASSUME EndpointAssumption, TypeInv, ConnInv, NEW e \in Endpoints, hpc[e] # "off",
         UNCHANGED <<net, id, addr, incoming, tbuffer, capp, lastConnID, sincoming, clients>>,
         \A d \in Endpoints : d # e => hpc'[d] = hpc[d]
  PROVE  ConnInv'
<1>1. ConnOK' /\ NetRoute' /\ IncomingRoute' /\ SincomingRoute'
  BY HandlerConn
<1>2. IdOK' /\ AppOK'
  BY HandlerIdApp
<1> QED BY <1>1, <1>2 DEF ConnInv

LEMMA ClientHandlerConn ==
  ASSUME EndpointAssumption, TypeInv, ConnInv, NEW c \in Clients, ClientHandlerStep(c),
         UNCHANGED serverVars
  PROVE  ConnInv'
<1>0. c \in Endpoints /\ c \notin ConnIDs
  BY Kinds DEF Endpoints
<1>s. UNCHANGED <<lastConnID, sincoming, clients>>
  BY DEF serverVars
<1>1. CASE ClientHandlerExit(c) \/ ClientLost(c)
  <2>1. UNCHANGED <<net, id, addr, incoming, tbuffer, capp>> /\ hpc[c] # "off"
    BY <1>1 DEF ClientHandlerExit, ClientLost, txVars, clientVars
  <2>2. \A d \in Endpoints : d # c => hpc'[d] = hpc[d]
    BY <1>1 DEF ClientHandlerExit, ClientLost, TypeInv, TypeOK, EndpointTypeOK
  <2> QED BY <1>0, <1>s, <2>1, <2>2, HandlerEnds
<1>2. CASE ClientAck(c)
  <2> DEFINE m == Head(incoming[c])
  <2>1. HandleAck(c) /\ Dequeue(c, "Ack") /\ UNCHANGED capp
    BY <1>2 DEF ClientAck, HandleAck, clientVars
  <2>2. /\ ConnOK' /\ NetRoute' /\ IncomingRoute' /\ SincomingRoute'
        /\ hpc[c] # "off" /\ UNCHANGED addr
        /\ \A d \in Endpoints : d # c => hpc'[d] = hpc[d]
    BY <1>0, <1>s, <2>1, SelectConn
  <2>3. ToClient(c, m)
    BY <1>0, <2>1, DequeueElems DEF TypeInv, TypeOK, ConnInv, IncomingRoute
  <2>4. id' = id \/ (id[c] = -1 /\ id' = [id EXCEPT ![c] = m.conn])
    BY <1>2 DEF ClientAck
  <2>5. IdOK'
    <3>1. \A i \in ConnIDs : id'[i] = i
      BY <1>0, <2>4 DEF ConnInv, IdOK, TypeInv, TypeOK, EndpointTypeOK, Endpoints
    <3>2. \A d \in Clients : d # c => id'[d] = id[d]
      BY <2>4 DEF TypeInv, TypeOK, EndpointTypeOK, Endpoints
    <3>3. id'[c] = id[c] \/ id'[c] = m.conn
      BY <1>0, <2>4 DEF TypeInv, TypeOK, EndpointTypeOK
    <3>4. addr[m.conn] = c
      BY <2>3 DEF ToClient
    <3> HIDE DEF m
    <3>5. \A d \in Clients : id'[d] # -1 => addr[id'[d]] = d
      BY <3>2, <3>3, <3>4 DEF ConnInv, IdOK
    <3> QED BY <2>2, <3>1, <3>5 DEF IdOK
  <2>6. AppOK'
    <3>1. \A d \in Clients : id[d] # -1 => id'[d] # -1
      BY <1>0, <2>4 DEF TypeInv, TypeOK, EndpointTypeOK, Endpoints
    <3> QED BY <2>1, <2>2, <3>1 DEF ConnInv, AppOK, Endpoints
  <2> QED BY <2>2, <2>5, <2>6 DEF ConnInv
<1>3. CASE ClientShortData(c) \/ ClientData(c) \/ ClientDeliver(c) \/ ClientEndDelivery(c)
           \/ ClientTransmit(c) \/ ClientEpoch(c)
  <2>1. UNCHANGED <<id, capp>>
    BY <1>3 DEF ClientShortData, ClientData, ClientDeliver, ClientEndDelivery, ClientTransmit,
                ClientEpoch, HandleShortData, HandleData, DeliverNext, EndDelivery, Transmit, Epoch,
                clientVars
  <2>2. \A m \in Message : Sendable(c, m)
    BY <1>0 DEF Sendable
  <2>3. \/ HandleShortData(c) \/ HandleData(c)
        \/ \E r \in rbuffer[c] : DeliverNext(c, r)
        \/ EndDelivery(c) \/ Transmit(c)
        \/ \E extra \in SUBSET Message : (\A m \in extra : Sendable(c, m)) /\ Epoch(c, extra)
    <3>1. CASE ClientEpoch(c)
      <4>1. PICK extra \in SUBSET Message : Epoch(c, extra)
        BY <1>0, <3>1, NewMessageType, HeartbeatType DEF ClientEpoch, TypeInv, TypeOK
      <4> QED BY <2>2, <4>1
    <3>2. CASE ClientDeliver(c)
      BY <3>2 DEF ClientDeliver
    <3> QED
      BY <1>3, <3>1, <3>2 DEF ClientShortData, ClientData, ClientEndDelivery, ClientTransmit
  <2>4. /\ ConnOK' /\ NetRoute' /\ IncomingRoute' /\ SincomingRoute'
        /\ hpc[c] # "off" /\ UNCHANGED addr
        /\ \A d \in Endpoints : d # c => hpc'[d] = hpc[d]
    BY <1>0, <1>s, <2>3, SelectConn
  <2>5. IdOK' /\ AppOK'
    BY <1>0, <2>1, <2>4, HandlerIdApp
  <2> QED BY <2>4, <2>5 DEF ConnInv
<1> QED BY <1>1, <1>2, <1>3 DEF ClientHandlerStep

-----------------------------------------------------------------------------
\* The server's goroutines.
LEMMA ServerAppConn ==
  ASSUME TypeInv, ConnInv, ServerAppStep, UNCHANGED clientVars
  PROVE  ConnInv'
<1>1. UNCHANGED <<net, id, addr, hpc, tbuffer, incoming>>
  <2>1. CASE ServerCloseSocket
    BY <2>1 DEF ServerCloseSocket, ctlVars, txVars
  <2>2. CASE ~ServerCloseSocket
    <3>1. UNCHANGED endpointVars
      BY <2>2 DEF ServerAppStep, ServerReadData, ServerReadError, ServerWrite, CloseConn,
                  ServerClose, ServerCloseReturns
    <3> QED BY <3>1 DEF endpointVars, ctlVars, txVars
  <2> QED BY <2>1, <2>2
<1>2. UNCHANGED <<lastConnID, sincoming, clients>>
  BY DEF ServerAppStep, ServerReadData, ServerReadError, ServerWrite, CloseConn, ServerClose,
         ServerCloseSocket, ServerCloseReturns, serverVars
<1>3. UNCHANGED capp
  BY DEF clientVars
<1> QED BY <1>1, <1>2, <1>3, QuietConn

LEMMA ServerReceiverConn ==
  ASSUME EndpointAssumption, TypeInv, ConnInv, ServerReceiverStep, UNCHANGED clientVars
  PROVE  ConnInv'
<1>c. UNCHANGED capp
  BY DEF clientVars
<1>1. ASSUME NEW p \in net, ServerReceive(p) PROVE ConnInv'
  <2> DEFINE am(m) == [from |-> p.from, msg |-> m]
             SIn == [from: Clients \cup {Server}, msg: Message]
  <2>1. UNCHANGED <<id, addr, hpc, tbuffer, incoming, lastConnID, clients>> /\ net' \subseteq net
    BY <1>1, ConsumeType DEF ServerReceive, ctlVars, txVars
  <2>2. PICK m \in Received(p) : sincoming' = Append(sincoming, am(m))
    BY <1>1 DEF ServerReceive
  <2>3. am(m).from \in Clients
    BY <1>1 DEF ServerReceive, ConnInv, NetRoute
  <2>4. sincoming \in Seq(SIn)
    BY DEF TypeInv, TypeOK, ServerTypeOK
  <2> HIDE DEF am, SIn
  <2>5. Elems(sincoming') = Elems(sincoming) \cup {am(m)}
    BY <2>2, <2>4, ElemsAppend
  <2> QED BY <1>c, <2>1, <2>3, <2>5, QuietConn
<1>2. CASE ServerSocketClosed
  <2>1. UNCHANGED <<net, id, addr, hpc, tbuffer, incoming, lastConnID, clients, sincoming>>
    BY <1>2 DEF ServerSocketClosed, endpointVars, ctlVars, txVars
  <2> QED BY <1>c, <2>1, QuietConn
<1> QED BY <1>1, <1>2 DEF ServerReceiverStep

LEMMA ArrivedElems ==
  ASSUME TypeInv, ConnInv, NEW t, Arrived(t)
  PROVE  /\ Head(sincoming) \in Elems(sincoming)
         /\ Head(sincoming).from \in Clients
         /\ Head(sincoming).msg \in Message
         /\ Elems(sincoming') \subseteq Elems(sincoming)
<1> DEFINE SIn == [from: Clients \cup {Server}, msg: Message]
<1>1. sincoming \in Seq(SIn)
  BY DEF TypeInv, TypeOK, ServerTypeOK
<1>2. sincoming # <<>> /\ sincoming' = Tail(sincoming)
  BY DEF Arrived
<1>5. \A a \in SIn : a.msg \in Message
  OBVIOUS
<1> HIDE DEF SIn
<1>3. Head(sincoming) \in Elems(sincoming) /\ Elems(sincoming') \subseteq Elems(sincoming)
  BY <1>1, <1>2, ElemsTail
<1>4. Head(sincoming) \in SIn
  BY <1>1, <1>2, HeadTailType
<1> QED BY <1>3, <1>4, <1>5 DEF ConnInv, SincomingRoute

LEMMA HandleConn ==
  ASSUME EndpointAssumption, TypeInv, ConnInv, HandleStep, UNCHANGED clientVars
  PROVE  ConnInv'
<1>c. UNCHANGED capp
  BY DEF clientVars
<1>1. CASE HandleDuplicateConnect
  <2>1. UNCHANGED <<net, id, addr, hpc, tbuffer, incoming, lastConnID, clients>>
    BY <1>1 DEF HandleDuplicateConnect, endpointVars, ctlVars, txVars
  <2>2. Elems(sincoming') \subseteq Elems(sincoming)
    BY <1>1, ArrivedElems DEF HandleDuplicateConnect
  <2> QED BY <1>c, <2>1, <2>2, QuietConn
<1>2. CASE HandleConnect
  <2> DEFINE i == lastConnID
             a == Head(sincoming).from
             ack == [from |-> Server, to |-> a, msg |-> NewAck(i, 0)]
  <2>1. Arrived("Connect") /\ i \in ConnIDs /\ i \in Int
    BY <1>2, Kinds DEF HandleConnect
  <2>2. a \in Clients /\ Elems(sincoming') \subseteq Elems(sincoming)
    BY <2>1, ArrivedElems
  <2>3. /\ clients' = clients \cup {i}
        /\ lastConnID' = i + 1
        /\ addr' = [addr EXCEPT ![i] = a]
        /\ hpc' = [hpc EXCEPT ![i] = "loop"]
        /\ net' = net \cup {ack}
        /\ \A j \in clients : addr[j] # a
    BY <1>2 DEF HandleConnect
  <2>4. UNCHANGED <<id, incoming, tbuffer>>
    BY <1>2 DEF HandleConnect, txVars
  <2>5. addr[i] = Server
    BY <2>1 DEF ConnInv, ConnOK
  <2>6. \A j \in ConnIDs : j # i => addr'[j] = addr[j] /\ hpc'[j] = hpc[j]
    BY <2>3 DEF TypeInv, TypeOK, EndpointTypeOK, Endpoints
  <2>7. addr'[i] = a
    BY <2>1, <2>3 DEF TypeInv, TypeOK, EndpointTypeOK
  \* Nobody was told of the new ID before.
  <2>8. \A d \in Clients, m \in Message : ToClient(d, m) => ToClient(d, m)'
    BY <2>5, <2>6, Kinds DEF ToClient
  <2>9. IdOK'
    <3>1. \A d \in Clients : id[d] # -1 => id[d] \in ConnIDs /\ id[d] # i
      BY <2>5, Kinds DEF ConnInv, IdOK, TypeInv, TypeOK, EndpointTypeOK, Endpoints, ConnID
    <3> QED BY <2>4, <2>6, <3>1 DEF ConnInv, IdOK
  <2>10. ConnOK'
    <3>0. ConnIDs \subseteq Int /\ clients \subseteq ConnIDs /\ clients' \subseteq ConnIDs
      BY <2>1, <2>3, Kinds DEF TypeInv, TypeOK, ServerTypeOK
    <3>1. \A j \in ConnIDs : IF j < i + 1 THEN addr'[j] \in Clients ELSE addr'[j] = Server /\ hpc'[j] = "off"
      BY <3>0, <2>1, <2>2, <2>6, <2>7 DEF ConnInv, ConnOK
    <3>2. \A j \in clients' : j < i + 1
      BY <3>0, <2>1, <2>3 DEF ConnInv, ConnOK
    <3>3. \A j, k \in clients' : addr'[j] = addr'[k] => j = k
      <4>1. \A j \in clients : j # i
        BY <2>1 DEF ConnInv, ConnOK
      <4> QED BY <3>0, <4>1, <2>3, <2>6, <2>7 DEF ConnInv, ConnOK
    <3>4. \A j \in ConnIDs : \A m \in tbuffer'[j] : m.type = "Data" /\ m.conn = j
      BY <2>4 DEF ConnInv, ConnOK
    <3> QED BY <2>3, <3>1, <3>2, <3>3, <3>4 DEF ConnOK
  <2>11. NetRoute'
    <3> SUFFICES ASSUME NEW p \in net'
                 PROVE  (IF p.to = Server THEN p.from \in Clients ELSE ToClient(p.to, p.msg))'
      BY DEF NetRoute
    <3>1. CASE p \in net
      <4>1. p.to \in Clients \cup {Server} /\ p.msg \in Message
        BY <3>1 DEF TypeInv, TypeOK, EndpointTypeOK
      <4> QED BY <3>1, <4>1, <2>8 DEF ConnInv, NetRoute
    <3>2. CASE p = ack
      <4>1. p.to = a /\ p.msg.type = "Ack" /\ p.msg.conn = i
        BY <3>2 DEF NewAck
      <4> QED BY <4>1, <2>1, <2>2, <2>7, Kinds DEF ToClient
    <3> QED BY <2>3, <3>1, <3>2
  <2>12. IncomingRoute'
    <3>1. \A d \in Clients : \A m \in Elems(incoming[d]) : m \in Message
      BY DEF Elems, TypeInv, TypeOK, EndpointTypeOK, Endpoints
    <3> QED BY <2>4, <2>8, <3>1 DEF ConnInv, IncomingRoute
  <2>13. SincomingRoute'
    BY <2>2 DEF ConnInv, SincomingRoute
  <2>14. AppOK'
    <3>1. \A d \in Clients : hpc'[d] = hpc[d]
      BY <2>1, <2>3, Kinds DEF TypeInv, TypeOK, EndpointTypeOK, Endpoints
    <3> QED BY <1>c, <2>4, <3>1 DEF ConnInv, AppOK
  <2> QED BY <2>9, <2>10, <2>11, <2>12, <2>13, <2>14 DEF ConnInv
<1>3. CASE HandleRoute
  <2> DEFINE m == Head(sincoming).msg
  <2>1. Arrived("other") /\ UNCHANGED <<net, id, addr, hpc, tbuffer, lastConnID, clients>>
    BY <1>3 DEF HandleRoute, ctlVars, txVars
  <2>2. Elems(sincoming') \subseteq Elems(sincoming)
    BY <2>1, ArrivedElems
  <2>3. \A d \in Clients : incoming'[d] = incoming[d]
    <3>1. incoming' = incoming \/ (m.conn \in clients /\ incoming' = [incoming EXCEPT ![m.conn] = Append(@, m)])
      BY <1>3 DEF HandleRoute
    <3>2. m.conn \in clients => m.conn \notin Clients
      BY Kinds DEF TypeInv, TypeOK, ServerTypeOK
    <3> HIDE DEF m
    <3> QED BY <3>1, <3>2 DEF TypeInv, TypeOK, EndpointTypeOK, Endpoints
  <2> QED BY <1>c, <2>1, <2>2, <2>3, QuietConn
<1>4. CASE HandleOutgoing
  <2>1. UNCHANGED <<net, id, addr, hpc, tbuffer, incoming, lastConnID, clients, sincoming>>
    BY <1>4 DEF HandleOutgoing, ctlVars
  <2> QED BY <1>c, <2>1, QuietConn
<1>5. CASE HandleCls
  <2>1. UNCHANGED <<net, id, addr, hpc, tbuffer, incoming, lastConnID, sincoming>> /\ clients' \subseteq clients
    BY <1>5 DEF HandleCls, txVars
  <2> QED BY <1>c, <2>1, QuietConn
<1> QED BY <1>1, <1>2, <1>3, <1>4, <1>5 DEF HandleStep

LEMMA ConnStepConn ==
  ASSUME EndpointAssumption, TypeInv, ConnInv, NEW i \in ConnIDs, ConnStep(i), UNCHANGED clientVars
  PROVE  ConnInv'
<1>0. i \in Endpoints
  BY DEF Endpoints
<1>c. UNCHANGED capp
  BY DEF clientVars
<1>1. CASE ConnExit(i) \/ ConnTimeout(i) \/ ConnReport(i)
  <2>1. UNCHANGED <<net, id, addr, incoming, tbuffer, lastConnID, sincoming, clients>> /\ hpc[i] # "off"
    BY <1>1 DEF ConnExit, ConnTimeout, ConnReport, txVars
  <2>2. \A d \in Endpoints : d # i => hpc'[d] = hpc[d]
    BY <1>1 DEF ConnExit, ConnTimeout, ConnReport, TypeInv, TypeOK, EndpointTypeOK
  <2> QED BY <1>0, <1>c, <2>1, <2>2, HandlerEnds
<1>2. CASE ConnIdle(i)
  <2>1. UNCHANGED <<net, id, addr, incoming, tbuffer, hpc, lastConnID, sincoming, clients>>
    BY <1>2 DEF ConnIdle, txVars, serverVars
  <2> QED BY <1>c, <2>1, QuietConn
<1>3. CASE ConnShortData(i) \/ ConnData(i) \/ ConnDeliver(i) \/ ConnEndDelivery(i) \/ ConnAck(i)
           \/ ConnTransmit(i) \/ ConnEpoch(i)
  <2>1. UNCHANGED id
    BY <1>3 DEF ConnShortData, ConnData, ConnDeliver, ConnEndDelivery, ConnAck, ConnTransmit, ConnEpoch,
                HandleShortData, HandleData, DeliverNext, EndDelivery, Transmit, Epoch
  <2>2. UNCHANGED <<lastConnID, sincoming, clients>>
    BY <1>3 DEF ConnShortData, ConnData, ConnDeliver, ConnEndDelivery, ConnAck, ConnTransmit, ConnEpoch,
                serverVars
  <2>3. \/ HandleShortData(i) \/ HandleData(i)
        \/ \E r \in rbuffer[i] : DeliverNext(i, r)
        \/ EndDelivery(i) \/ HandleAck(i) \/ Transmit(i)
        \/ \E extra \in SUBSET Message : (\A m \in extra : Sendable(i, m)) /\ Epoch(i, extra)
    <3>1. CASE ConnEpoch(i)
      <4>1. Heartbeat(i) \in SUBSET Message /\ Epoch(i, Heartbeat(i))
        BY <1>0, <3>1, HeartbeatType DEF ConnEpoch, TypeInv, TypeOK
      <4>2. \A m \in Heartbeat(i) : Sendable(i, m)
        BY <1>0, OwnSendable
      <4> QED BY <4>1, <4>2
    <3>2. CASE ConnDeliver(i)
      BY <3>2 DEF ConnDeliver
    <3> QED
      BY <1>3, <3>1, <3>2 DEF ConnShortData, ConnData, ConnEndDelivery, ConnAck, ConnTransmit
  <2>4. /\ ConnOK' /\ NetRoute' /\ IncomingRoute' /\ SincomingRoute'
        /\ hpc[i] # "off" /\ UNCHANGED addr
        /\ \A d \in Endpoints : d # i => hpc'[d] = hpc[d]
    BY <1>0, <2>2, <2>3, SelectConn
  <2>5. IdOK' /\ AppOK'
    BY <1>0, <1>c, <2>1, <2>4, HandlerIdApp
  <2> QED BY <2>4, <2>5 DEF ConnInv
<1> QED BY <1>1, <1>2, <1>3 DEF ConnStep

-----------------------------------------------------------------------------
\* ConnInv is inductive, relative to the types.
LEMMA ConnInit == ASSUME EndpointAssumption, Init PROVE ConnInv
<1> USE DEF Init, EndpointInit, ClientInit, ServerInit
<1>1. IdOK
  BY Kinds DEF IdOK, Endpoints
<1>2. ConnOK
  <2>1. \A i \in ConnIDs : ~(i < FirstConnID) /\ i \in Endpoints
    BY DEF ConnIDs, FirstConnID, EndpointAssumption, Endpoints
  <2>2. \A i \in ConnIDs : addr[i] = Server /\ hpc[i] = "off" /\ tbuffer[i] = {}
    BY <2>1
  <2> QED BY <2>1, <2>2 DEF ConnOK
<1>3. NetRoute /\ AppOK
  BY DEF NetRoute, AppOK, Endpoints
<1>4. IncomingRoute /\ SincomingRoute
  BY ElemsEmpty DEF IncomingRoute, SincomingRoute, Endpoints
<1> QED BY <1>1, <1>2, <1>3, <1>4 DEF ConnInv

LEMMA ConnNext == ASSUME EndpointAssumption, TypeInv, ConnInv, [Next]_vars PROVE ConnInv'
<1>1. ASSUME NEW c \in Clients, ClientStep(c), UNCHANGED serverVars PROVE ConnInv'
  BY <1>1, ClientAppConn, ClientReceiverConn, ClientHandlerConn DEF ClientStep
<1>2. CASE ServerStep /\ UNCHANGED clientVars
  BY <1>2, ServerAppConn, ServerReceiverConn, HandleConn, ConnStepConn DEF ServerStep
<1>3. CASE LosePacket /\ UNCHANGED <<sock, id, addr, incoming, txVars, rxVars, ctlVars,
                                     clientVars, serverVars>>
  <2>1. net' \subseteq net
    BY <1>3 DEF LosePacket
  <2>2. UNCHANGED <<id, addr, incoming, hpc, tbuffer, capp, lastConnID, sincoming, clients>>
    BY <1>3 DEF ctlVars, txVars, clientVars, serverVars
  <2> QED BY <2>1, <2>2, QuietConn
<1>4. CASE UNCHANGED vars
  <2>1. UNCHANGED <<net, id, addr, incoming, hpc, tbuffer, capp, lastConnID, sincoming, clients>>
    BY <1>4 DEF vars, endpointVars, ctlVars, txVars, clientVars, serverVars
  <2> QED BY <2>1, QuietConn
<1> QED BY <1>1, <1>2, <1>3, <1>4 DEF Next

LEMMA ConnImplies == ASSUME EndpointAssumption, ConnInv PROVE OneConnection
<1>1. \A c \in Clients : id[c] # -1 => addr[id[c]] = c
  BY DEF ConnInv, IdOK
<1>2. \A i, j \in clients : addr[i] = addr[j] => i = j
  BY DEF ConnInv, ConnOK
<1> QED BY <1>1, <1>2 DEF OneConnection, Links

\* Connections are never mixed up: a client that has learned a connection ID (from
\* an ack) has learned the one handle created for its own address, and s.clients
\* never holds two connections of one address, however connects and acks are
\* repeated, delayed or lost (server_impl.go handle, client_impl.go handler).
THEOREM ConnectionsDistinct == Spec => []OneConnection
<1>1. Init => TypeInv /\ ConnInv
  BY TypeInit, ConnInit, EndpointAssumption
<1>2. TypeInv /\ ConnInv /\ [Next]_vars => (TypeInv /\ ConnInv)'
  BY TypeNext, ConnNext, EndpointAssumption
<1>3. TypeInv /\ ConnInv => OneConnection
  BY ConnImplies, EndpointAssumption
<1> QED BY <1>1, <1>2, <1>3, PTL DEF Spec
=============================================================================
