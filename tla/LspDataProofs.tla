--------------------------- MODULE LspDataProofs ---------------------------
(***************************************************************************)
(* DataInv is inductive: data arrive in order, once and unaltered.         *)
(***************************************************************************)
EXTENDS LspConnProofs

\* The two ends of a connection are each other's peers.
LEMMA PeerPeer ==
  ASSUME EndpointAssumption, TypeInv, ConnInv, NEW e \in Endpoints, Linked(e)
  PROVE  Peer(e) \in Endpoints /\ Linked(Peer(e)) /\ Peer(Peer(e)) = e
<1>1. CASE e \in Clients
  <2>1. id[e] \in ConnIDs /\ addr[id[e]] = e
    BY <1>1 DEF Linked, ConnInv, IdOK, TypeInv, TypeOK, EndpointTypeOK, ConnID
  <2>2. id[e] \notin Clients /\ id[e] \in Endpoints
    BY <2>1, Kinds DEF Endpoints
  <2> QED BY <1>1, <2>1, <2>2 DEF Peer, Linked
<1>2. CASE e \notin Clients
  <2>1. e \in ConnIDs
    BY <1>2 DEF Endpoints
  <2>2. addr[e] \in Clients /\ id[addr[e]] = e
    BY <1>2 DEF Linked
  <2>3. e # -1
    BY <2>1, Kinds
  <2> QED BY <1>2, <2>2, <2>3 DEF Peer, Linked, Endpoints
<1> QED BY <1>1, <1>2

\* What every step respects: IDs and addresses are given once, sequence numbers
\* only grow, and what was written stays.
Growing ==
  /\ \A c \in Clients : id[c] # -1 => id'[c] = id[c]
  /\ \A i \in ConnIDs : addr[i] \in Clients => addr'[i] = addr[i]
  /\ \A e \in Endpoints : tsq[e] <= tsq'[e] /\ tsq'[e] \in Nat
  /\ \A e \in Endpoints : \A n \in 1 .. Len(written[e]) : written'[e][n] = written[e][n]

\* So the connection of two endpoints and the soundness of a datum are stable.
LEMMA LinkedStable ==
  ASSUME EndpointAssumption, TypeInv, Growing, NEW e \in Endpoints, Linked(e)
  PROVE  Linked(e)' /\ Peer(e)' = Peer(e)
<1>1. CASE e \in Clients
  BY <1>1 DEF Growing, Linked, Peer
<1>2. CASE e \notin Clients
  <2>1. e \in ConnIDs /\ e # -1
    BY <1>2, Kinds DEF Endpoints
  <2>2. addr[e] \in Clients /\ id[addr[e]] = e
    BY <1>2 DEF Linked
  <2> QED BY <1>2, <2>1, <2>2 DEF Growing, Linked, Peer
<1> QED BY <1>1, <1>2

LEMMA SentStable ==
  ASSUME TypeInv, DataInv, Growing, NEW e \in Endpoints, NEW n, NEW d, Sent(e, n, d)
  PROVE  Sent(e, n, d)'
<1>1. tsq[e] \in Nat /\ tmsg[e] \in Seq(Payload) /\ written[e] \in Seq(Payload)
  BY DEF TypeInv, TypeOK, EndpointTypeOK
<1>2. tsq[e] - 1 <= Len(written[e])
  BY <1>1 DEF DataInv, TmsgOK, Unsent
<1>3. n \in 1 .. (tsq[e] - 1) /\ d = written[e][n]
  BY DEF Sent
<1>4. n \in 1 .. Len(written[e])
  BY <1>1, <1>2, <1>3
<1>5. written'[e][n] = written[e][n]
  BY <1>4 DEF Growing
<1>6. n \in 1 .. (tsq'[e] - 1)
  BY <1>1, <1>3 DEF Growing
<1> QED BY <1>3, <1>5, <1>6 DEF Sent

LEMMA SoundStable ==
  ASSUME EndpointAssumption, TypeInv, ConnInv, DataInv, Growing, NEW e \in Endpoints, NEW n, NEW d,
         Sound(e, n, d)
  PROVE  Sound(e, n, d)'
<1> DEFINE q == Peer(e)
<1>1. Linked(e) /\ Sent(q, n, d)
  BY DEF Sound
<1>2. q \in Endpoints
  BY <1>1, PeerPeer
<1>3. Linked(e)' /\ Peer(e)' = q
  BY <1>1, LinkedStable
<1> HIDE DEF q
<1>4. n \in 1 .. (tsq'[q] - 1) /\ d = written'[q][n]
  BY <1>1, <1>2, SentStable DEF Sent
<1> QED BY <1>3, <1>4 DEF Sound, Sent

-----------------------------------------------------------------------------
LEMMA OutgoingType ==
  ASSUME TypeInv
  PROVE  \A w \in Elems(outgoing) : w.conn \in ConnIDs /\ w.data \in Payload
<1> DEFINE W == [conn: ConnIDs, data: Payload]
<1>1. outgoing \in Seq(W)
  BY DEF TypeInv, TypeOK, ServerTypeOK
<1>2. \A w \in W : w.conn \in ConnIDs /\ w.data \in Payload
  OBVIOUS
<1> HIDE DEF W
<1> QED BY <1>1, <1>2, ElemsType

\* A queue or buffer keeps only sound data when what is new in it is sound.
LEMMA DataKeep ==
  ASSUME EndpointAssumption, TypeInv, ConnInv, DataInv, ConnInv', Growing,
         \A p \in net' : p \in net \/ SoundPacket(p)',
         \A a \in Elems(sincoming') : a \in Elems(sincoming) \/
            (a.msg.type = "Data" => a.msg.conn \in ConnIDs /\ Sound(a.msg.conn, a.msg.seq, a.msg.data)'),
         \A e \in Endpoints : \A m \in Elems(incoming'[e]) : m \in Elems(incoming[e]) \/
            (m.type = "Data" => Sound(e, m.seq, m.data)'),
         \A e \in Endpoints : \A m \in tbuffer'[e] : m \in tbuffer[e] \/
            (m.type = "Data" => Linked(e)' /\ m.conn = id'[e] /\ Sent(e, m.seq, m.data)'),
         \A e \in Endpoints : \A r \in rbuffer'[e] : r \in rbuffer[e] \/ Sound(e, r.seq, r.data)',
         \A w \in Elems(outgoing') : w \in Elems(outgoing) \/ Linked(w.conn)'
  PROVE  NetOK' /\ SincomingOK' /\ IncomingOK' /\ TbufferOK' /\ RbufferOK' /\ OutgoingOK'
<1>e. Clients \subseteq Endpoints /\ ConnIDs \subseteq Endpoints
  BY DEF Endpoints
<1>1. NetOK'
  <2> SUFFICES ASSUME NEW p \in net', p \in net PROVE SoundPacket(p)'
    BY DEF NetOK
  <2>1. SoundPacket(p) /\ p.to \in Clients \cup {Server}
    BY DEF DataInv, NetOK, TypeInv, TypeOK, EndpointTypeOK
  <2>2. CASE p.msg.type = "Data" /\ p.to = Server
    <3>1. p.msg.conn \in ConnIDs /\ Sound(p.msg.conn, p.msg.seq, p.msg.data)
      BY <2>1, <2>2 DEF SoundPacket
    <3>2. Sound(p.msg.conn, p.msg.seq, p.msg.data)'
      BY <1>e, <3>1, SoundStable
    <3> QED BY <2>2, <3>1, <3>2 DEF SoundPacket
  <2>3. CASE p.msg.type = "Data" /\ p.to # Server
    <3>1. p.to \in Endpoints /\ Sound(p.to, p.msg.seq, p.msg.data)
      BY <1>e, <2>1, <2>3 DEF SoundPacket
    <3>2. Sound(p.to, p.msg.seq, p.msg.data)'
      BY <3>1, SoundStable
    <3> QED BY <2>3, <3>2 DEF SoundPacket
  <2>4. CASE p.msg.type # "Data"
    BY <2>4 DEF SoundPacket
  <2> QED BY <2>2, <2>3, <2>4
<1>2. SincomingOK'
  <2>1. \A a \in Elems(sincoming) : a.msg.type = "Data" =>
           a.msg.conn \in ConnIDs /\ Sound(a.msg.conn, a.msg.seq, a.msg.data)'
    BY <1>e, SoundStable DEF DataInv, SincomingOK
  <2> QED BY <2>1 DEF SincomingOK
<1>3. IncomingOK'
  <2>1. \A e \in Endpoints : \A m \in Elems(incoming[e]) : m.type = "Data" => Sound(e, m.seq, m.data)'
    BY SoundStable DEF DataInv, IncomingOK
  <2> QED BY <2>1 DEF IncomingOK
<1>4. TbufferOK'
  <2> SUFFICES ASSUME NEW e \in Endpoints, NEW m \in tbuffer'[e], m \in tbuffer[e], m.type = "Data"
               PROVE  Linked(e)' /\ m.conn = id'[e] /\ Sent(e, m.seq, m.data)'
    BY DEF TbufferOK
  <2>1. Linked(e) /\ m.conn = id[e] /\ Sent(e, m.seq, m.data)
    BY DEF DataInv, TbufferOK
  <2>2. Linked(e)' /\ Sent(e, m.seq, m.data)'
    BY <2>1, LinkedStable, SentStable
  <2>3. id'[e] = id[e]
    <3>1. CASE e \in Clients
      BY <2>1, <3>1 DEF Linked, Growing
    <3>2. CASE e \in ConnIDs
      BY <3>2 DEF ConnInv, IdOK
    <3> QED BY <3>1, <3>2 DEF Endpoints
  <2> QED BY <2>1, <2>2, <2>3
<1>5. RbufferOK'
  <2>1. \A e \in Endpoints : \A r \in rbuffer[e] : Sound(e, r.seq, r.data)'
    BY SoundStable DEF DataInv, RbufferOK
  <2> QED BY <2>1 DEF RbufferOK
<1>6. OutgoingOK'
  <2>1. \A w \in Elems(outgoing) : w.conn \in ConnIDs
    BY OutgoingType
  <2>2. \A w \in Elems(outgoing) : Linked(w.conn)'
    BY <1>e, <2>1, LinkedStable DEF DataInv, OutgoingOK
  <2> QED BY <2>2 DEF OutgoingOK
<1> QED BY <1>1, <1>2, <1>3, <1>4, <1>5, <1>6

\* Steps that leave an endpoint's streams alone.
LEMMA UnsentKeep ==
  ASSUME EndpointAssumption, TypeInv, DataInv, Growing, NEW e \in Endpoints,
         tmsg'[e] = tmsg[e], tsq'[e] = tsq[e], written'[e] = written[e]
  PROVE  Unsent(e)'
<1>1. Unsent(e)
  BY DEF DataInv, TmsgOK
<1>2. written[e] # <<>> => Linked(e)'
  BY <1>1, LinkedStable DEF Unsent
<1> QED BY <1>1, <1>2 DEF Unsent

LEMMA DeliveredKeep ==
  ASSUME EndpointAssumption, TypeInv, ConnInv, DataInv, Growing, NEW e \in Endpoints,
         rsq'[e] = rsq[e], delivered'[e] = delivered[e]
  PROVE  Delivered(e)'
<1>1. Delivered(e)
  BY DEF DataInv, DeliveredOK
<1>2. \A k \in 1 .. Len(delivered[e]) : Sound(e, k, delivered[e][k].data)'
  BY <1>1, SoundStable DEF Delivered
<1> QED BY <1>1, <1>2 DEF Delivered

LEMMA SameGrows ==
  ASSUME TypeInv, UNCHANGED <<id, addr, tsq, written>>
  PROVE  Growing
BY DEF Growing, TypeInv, TypeOK, EndpointTypeOK

\* A step that numbers, writes and delivers nothing.
LEMMA DataQuiet ==
  ASSUME EndpointAssumption, TypeInv, ConnInv, DataInv, ConnInv',
         UNCHANGED <<id, addr, tmsg, tsq, written, rsq, delivered>>,
         \A p \in net' : p \in net \/ SoundPacket(p),
         \A a \in Elems(sincoming') : a \in Elems(sincoming) \/
            (a.msg.type = "Data" => a.msg.conn \in ConnIDs /\ Sound(a.msg.conn, a.msg.seq, a.msg.data)),
         \A e \in Endpoints : \A m \in Elems(incoming'[e]) : m \in Elems(incoming[e]) \/
            (m.type = "Data" => Sound(e, m.seq, m.data)),
         \A e \in Endpoints : \A m \in tbuffer'[e] : m \in tbuffer[e] \/ m.type # "Data",
         \A e \in Endpoints : \A r \in rbuffer'[e] : r \in rbuffer[e] \/ Sound(e, r.seq, r.data),
         \A w \in Elems(outgoing') : w \in Elems(outgoing) \/ Linked(w.conn)
  PROVE  DataInv'
<1>1. Growing
  BY SameGrows
<1>2. \A e, n, d : Sound(e, n, d)' = Sound(e, n, d)
  BY DEF Sound, Sent, Linked, Peer
<1>3. \A p : SoundPacket(p)' = SoundPacket(p)
  BY DEF SoundPacket, Sound, Sent, Linked, Peer
<1>4. \A e : Linked(e)' = Linked(e)
  BY DEF Linked
<1>5. NetOK' /\ SincomingOK' /\ IncomingOK' /\ TbufferOK' /\ RbufferOK' /\ OutgoingOK'
  <2>1. \A p \in net' : p \in net \/ SoundPacket(p)'
    BY <1>3
  <2>2. \A a \in Elems(sincoming') : a \in Elems(sincoming) \/
           (a.msg.type = "Data" => a.msg.conn \in ConnIDs /\ Sound(a.msg.conn, a.msg.seq, a.msg.data)')
    BY <1>2
  <2>3. \A e \in Endpoints : \A m \in Elems(incoming'[e]) : m \in Elems(incoming[e]) \/
           (m.type = "Data" => Sound(e, m.seq, m.data)')
    BY <1>2
  <2>4. \A e \in Endpoints : \A r \in rbuffer'[e] : r \in rbuffer[e] \/ Sound(e, r.seq, r.data)'
    BY <1>2
  <2>5. \A w \in Elems(outgoing') : w \in Elems(outgoing) \/ Linked(w.conn)'
    BY <1>4
  <2>6. \A e \in Endpoints : \A m \in tbuffer'[e] : m \in tbuffer[e] \/
           (m.type = "Data" => Linked(e)' /\ m.conn = id'[e] /\ Sent(e, m.seq, m.data)')
    OBVIOUS
  <2> QED BY <1>1, <2>1, <2>2, <2>3, <2>4, <2>5, <2>6, DataKeep
<1>6. TmsgOK'
  BY <1>1, UnsentKeep DEF TmsgOK
<1>7. DeliveredOK'
  BY <1>1, DeliveredKeep DEF DeliveredOK
<1> QED BY <1>5, <1>6, <1>7 DEF DataInv

-----------------------------------------------------------------------------
\* What goes out: acks carry no data, and a message of tbuffer is sound for the peer.
LEMMA OutboundSound ==
  ASSUME EndpointAssumption, TypeInv, ConnInv, DataInv, NEW e \in Endpoints, NEW m,
         m.type # "Data" \/ m \in tbuffer[e]
  PROVE  SoundPacket(Outbound(e, m))
<1>1. Outbound(e, m).msg = m /\ Outbound(e, m).to = IF e \in Clients THEN Server ELSE addr[e]
  BY DEF Outbound
<1>2. CASE m.type # "Data"
  BY <1>1, <1>2 DEF SoundPacket
<1>3. CASE m.type = "Data" /\ m \in tbuffer[e]
  <2>1. Linked(e) /\ m.conn = id[e] /\ Sent(e, m.seq, m.data)
    BY <1>3 DEF DataInv, TbufferOK
  <2>2. Peer(e) \in Endpoints /\ Linked(Peer(e)) /\ Peer(Peer(e)) = e
    BY <2>1, PeerPeer
  <2>3. Sound(Peer(e), m.seq, m.data)
    BY <2>1, <2>2 DEF Sound
  <2>4. CASE e \in Clients
    <3>1. Peer(e) = m.conn /\ m.conn \in ConnIDs
      BY <2>1, <2>4 DEF Peer, Linked, TypeInv, TypeOK, EndpointTypeOK, ConnID
    <3> QED BY <1>1, <2>3, <2>4, <3>1 DEF SoundPacket
  <2>5. CASE e \notin Clients
    <3>1. Peer(e) = addr[e] /\ addr[e] # Server
      BY <2>1, <2>5, Kinds DEF Peer, Linked
    <3> QED BY <1>1, <2>3, <2>5, <3>1 DEF SoundPacket
  <2> QED BY <2>4, <2>5
<1> QED BY <1>2, <1>3

LEMMA SendsSound ==
  ASSUME EndpointAssumption, TypeInv, ConnInv, DataInv, NEW e \in Endpoints, NEW ms,
         WriteMessages(e, ms), \A m \in ms : m.type # "Data" \/ m \in tbuffer[e]
  PROVE  \A p \in net' : p \in net \/ SoundPacket(p)
<1>1. \A p \in net' : p \in net \/ \E m \in ms : p = Outbound(e, m)
  BY DEF WriteMessages
<1> QED BY <1>1, OutboundSound

\* The cases of the select that number and deliver nothing.
LEMMA SelectData ==
  ASSUME EndpointAssumption, TypeInv, ConnInv, DataInv, ConnInv', NEW e \in Endpoints,
         UNCHANGED <<sincoming, outgoing>>,
         \/ HandleShortData(e)
         \/ HandleData(e)
         \/ EndDelivery(e)
         \/ HandleAck(e) /\ UNCHANGED id
         \/ \E extra : (\A m \in extra : m.type # "Data") /\ Epoch(e, extra)
  PROVE  DataInv'
<1>t. EndpointTypeOK
  BY DEF TypeInv, TypeOK
<1> DEFINE InOnly == \A d \in Endpoints : Elems(incoming'[d]) \subseteq Elems(incoming[d])
           SentOnly == \A p \in net' : p \in net \/ SoundPacket(p)
<1>a. \A i, n : NewAck(i, n).type # "Data"
  BY DEF NewAck
<1>1. CASE HandleShortData(e)
  <2>1. UNCHANGED <<id, addr, net, tbuffer, tmsg, tsq, written, rbuffer, rsq, delivered>> /\ Dequeue(e, "Data")
    BY <1>1 DEF HandleShortData, txVars, rxVars
  <2>2. InOnly
    BY <2>1, <1>t, DequeueElems
  <2> QED BY <2>1, <2>2, DataQuiet
<1>2. CASE HandleData(e)
  <2> DEFINE m == Head(incoming[e])
  <2>1. UNCHANGED <<id, addr, tbuffer, tmsg, tsq, written, rsq, delivered>> /\ Dequeue(e, "Data")
    BY <1>2 DEF HandleData, txVars
  <2>2. InOnly /\ m \in Elems(incoming[e]) /\ m.type = "Data"
    BY <2>1, <1>t, DequeueElems DEF Dequeue
  <2>3. Sound(e, m.seq, m.data)
    BY <2>2 DEF DataInv, IncomingOK
  <2>4. \A d \in Endpoints : \A r \in rbuffer'[d] : r \in rbuffer[d] \/ Sound(d, r.seq, r.data)
    <3> DEFINE r1 == [seq |-> m.seq, data |-> m.data, fit |-> m.fit]
    <3>1. rbuffer' = [rbuffer EXCEPT ![e] = IF \E r \in @ : r.seq = m.seq THEN @ ELSE @ \cup {r1}]
      BY <1>2 DEF HandleData, SaveData
    <3>2. r1.seq = m.seq /\ r1.data = m.data
      OBVIOUS
    <3>3. \A d \in Endpoints : \A r \in rbuffer'[d] : r \in rbuffer[d] \/ (d = e /\ r = r1)
      BY <3>1, <1>t DEF EndpointTypeOK
    <3> HIDE DEF r1, m
    <3> QED BY <2>3, <3>2, <3>3
  <2>5. SentOnly
    <3>1. CASE net' = net
      BY <3>1
    <3>2. CASE WriteMessages(e, {NewAck(id[e], m.seq)})
      BY <1>a, <3>2, SendsSound
    <3> QED BY <1>2, <3>1, <3>2 DEF HandleData
  <2> HIDE DEF m
  <2> QED BY <2>1, <2>2, <2>4, <2>5, DataQuiet
<1>3. CASE EndDelivery(e)
  <2>1. UNCHANGED <<id, addr, incoming, tbuffer, tmsg, tsq, written, rbuffer, rsq, delivered>>
    BY <1>3 DEF EndDelivery, txVars, rxVars
  <2>2. SentOnly
    <3>1. WriteMessages(e, {NewAck(id[e], ackSeq[e])})
      BY <1>3 DEF EndDelivery
    <3> QED BY <1>a, <3>1, SendsSound
  <2> QED BY <2>1, <2>2, DataQuiet
<1>4. CASE HandleAck(e) /\ UNCHANGED id
  <2>1. UNCHANGED <<id, addr, net, tmsg, tsq, written, rbuffer, rsq, delivered>> /\ Dequeue(e, "Ack")
    BY <1>4 DEF HandleAck, rxVars
  <2>2. InOnly
    BY <2>1, <1>t, DequeueElems
  <2>3. \A d \in Endpoints : tbuffer'[d] \subseteq tbuffer[d]
    BY <1>4, <1>t DEF HandleAck, EndpointTypeOK
  <2> QED BY <2>1, <2>2, <2>3, DataQuiet
<1>5. ASSUME NEW extra, \A m \in extra : m.type # "Data", Epoch(e, extra)
      PROVE  DataInv'
  <2>1. UNCHANGED <<id, addr, incoming, tbuffer, tmsg, tsq, written, rbuffer, rsq, delivered>>
    BY <1>5 DEF Epoch, txVars, rxVars
  <2>2. SentOnly
    <3>1. WriteMessages(e, extra \cup tbuffer[e])
      BY <1>5 DEF Epoch
    <3> QED BY <1>5, <3>1, SendsSound
  <2> QED BY <2>1, <2>2, DataQuiet
<1> QED BY <1>1, <1>2, <1>3, <1>4, <1>5

\* One turn of the delivery loop: the next datum is the next one written.
LEMMA DeliverData ==
  ASSUME EndpointAssumption, TypeInv, ConnInv, DataInv, ConnInv', NEW e \in Endpoints,
         UNCHANGED <<sincoming, outgoing>>, NEW r \in rbuffer[e], DeliverNext(e, r)
  PROVE  DataInv'
<1>t. EndpointTypeOK
  BY DEF TypeInv, TypeOK
<1>1. UNCHANGED <<id, addr, net, incoming, tbuffer, tmsg, tsq, written>>
  BY DEF DeliverNext, txVars
<1>2. Growing
  BY <1>1, SameGrows
<1>3. \A d \in Endpoints : rbuffer'[d] \subseteq rbuffer[d]
  BY <1>t DEF DeliverNext, EndpointTypeOK
<1>4. NetOK' /\ SincomingOK' /\ IncomingOK' /\ TbufferOK' /\ RbufferOK' /\ OutgoingOK'
  BY <1>1, <1>2, <1>3, DataKeep
<1>5. TmsgOK'
  BY <1>1, <1>2, UnsentKeep DEF TmsgOK
<1>6. DeliveredOK'
  <2> DEFINE x == [data |-> r.data, fit |-> r.fit]
             D == [data: Payload, fit: Fit]
  <2>1. x.data = r.data /\ x \in D
    BY <1>t DEF EndpointTypeOK
  <2>2. delivered \in [Endpoints -> Seq(D)] /\ rsq \in [Endpoints -> Nat]
    BY <1>t DEF EndpointTypeOK
  <2>3. /\ delivered' = [delivered EXCEPT ![e] = Append(@, x)]
        /\ rsq' = [rsq EXCEPT ![e] = @ + 1]
        /\ r.seq = rsq[e]
    BY DEF DeliverNext
  <2> HIDE DEF x, D
  <2>4. \A d \in Endpoints : d # e => Delivered(d)'
    BY <1>2, <2>2, <2>3, DeliveredKeep
  <2>5. Delivered(e)
    BY DEF DataInv, DeliveredOK
  <2>6. Sound(e, rsq[e], r.data)
    BY <2>3 DEF DataInv, RbufferOK
  <2>7. \A n, d : Sound(e, n, d)' = Sound(e, n, d)
    BY <1>1 DEF Sound, Sent, Linked, Peer
  <2>8. delivered'[e] = Append(delivered[e], x) /\ rsq'[e] = rsq[e] + 1 /\ delivered[e] \in Seq(D)
    BY <2>2, <2>3
  <2>9. rsq'[e] = Len(delivered'[e]) + 1
    BY <2>5, <2>8 DEF Delivered
  <2>10. \A k \in 1 .. Len(delivered'[e]) : Sound(e, k, delivered'[e][k].data)
    <3> SUFFICES ASSUME NEW k \in 1 .. Len(delivered'[e]) PROVE Sound(e, k, delivered'[e][k].data)
      OBVIOUS
    <3>1. CASE k \in 1 .. Len(delivered[e])
      <4>1. delivered'[e][k] = delivered[e][k]
        BY <2>8, <3>1
      <4> QED BY <2>5, <3>1, <4>1 DEF Delivered
    <3>2. CASE k \notin 1 .. Len(delivered[e])
      <4>1. k = Len(delivered[e]) + 1 /\ delivered'[e][k] = x
        BY <2>8, <3>2
      <4>2. k = rsq[e]
        BY <2>5, <4>1 DEF Delivered
      <4> QED BY <2>1, <2>6, <4>1, <4>2
    <3> QED BY <3>1, <3>2
  <2>11. Delivered(e)'
    BY <2>7, <2>9, <2>10 DEF Delivered
  <2> QED BY <2>4, <2>11 DEF DeliveredOK
<1> QED BY <1>4, <1>5, <1>6 DEF DataInv

\* The next payload gets the next sequence number.
LEMMA TransmitData ==
  ASSUME EndpointAssumption, TypeInv, ConnInv, DataInv, ConnInv', NEW e \in Endpoints,
         UNCHANGED <<sincoming, outgoing>>, Transmit(e)
  PROVE  DataInv'
<1>0. PICK h, n, m : h = Head(tmsg[e]) /\ n = tsq[e] /\ m = NewData(id[e], n, h)
  OBVIOUS
<1>t. EndpointTypeOK
  BY DEF TypeInv, TypeOK
<1>1. UNCHANGED <<id, addr, incoming, written, rbuffer, rsq, delivered>>
  BY DEF Transmit, rxVars
<1>2. /\ tbuffer' = [tbuffer EXCEPT ![e] = @ \cup {m}]
      /\ WriteMessages(e, {m})
      /\ tmsg' = [tmsg EXCEPT ![e] = Tail(@)]
      /\ tsq' = [tsq EXCEPT ![e] = @ + 1]
      /\ tmsg[e] # <<>>
  BY <1>0 DEF Transmit, CanTransmit
<1>3. /\ tsq \in [Endpoints -> Nat]
      /\ tmsg \in [Endpoints -> Seq(Payload)]
      /\ written[e] \in Seq(Payload)
      /\ n = tsq[e] /\ n \in Nat /\ h = Head(tmsg[e])
  BY <1>0, <1>t DEF EndpointTypeOK
<1>4. Growing
  BY <1>1, <1>2, <1>3 DEF Growing
<1>5. Unsent(e)
  BY DEF DataInv, TmsgOK
<1>6. m.type = "Data" /\ m.conn = id[e] /\ m.seq = n /\ m.data = h
  BY <1>0 DEF NewData
<1>7. Linked(e) /\ h = written[e][n] /\ n >= 1
  <2>1. Len(tmsg[e]) >= 1 /\ tmsg[e][1] = h
    BY <1>2, <1>3
  <2>2. written[e] # <<>>
    BY <1>3, <1>5, <2>1 DEF Unsent
  <2>3. tmsg[e][1] = written[e][tsq[e] - 1 + 1] /\ tsq[e] >= 1 /\ Linked(e)
    BY <1>3, <1>5, <2>1, <2>2 DEF Unsent
  <2>4. tsq[e] - 1 + 1 = n
    BY <1>3
  <2> QED BY <1>3, <2>1, <2>3, <2>4
<1>8. Linked(e)' /\ Sent(e, m.seq, m.data)'
  <2>1. Linked(e)'
    BY <1>4, <1>7, LinkedStable
  <2>2. n \in 1 .. (tsq'[e] - 1)
    BY <1>2, <1>3, <1>7
  <2> QED BY <1>1, <1>6, <1>7, <2>1, <2>2 DEF Sent
<1>9. \A p \in net' : p \in net \/ SoundPacket(p)'
  <2>1. \A p \in net' : p \in net \/ p = Outbound(e, m)
    BY <1>2 DEF WriteMessages
  <2> SUFFICES ASSUME NEW p, p = Outbound(e, m) PROVE SoundPacket(p)'
    BY <2>1
  <2>2. p.msg = m /\ p.to = IF e \in Clients THEN Server ELSE addr[e]
    BY DEF Outbound
  <2>3. PICK q \in Endpoints : q = Peer(e) /\ Linked(q) /\ Peer(q) = e
    BY <1>7, PeerPeer
  <2>4. Linked(q)' /\ Peer(q)' = e
    BY <1>4, <2>3, LinkedStable
  <2>5. Sound(q, m.seq, m.data)'
    BY <1>8, <2>4 DEF Sound, Sent
  <2>6. CASE e \in Clients
    <3>1. q = m.conn /\ m.conn \in ConnIDs
      BY <1>6, <1>7, <1>t, <2>3, <2>6 DEF Peer, Linked, EndpointTypeOK, ConnID
    <3> QED BY <2>2, <2>5, <2>6, <3>1 DEF SoundPacket
  <2>7. CASE e \notin Clients
    <3>1. q = addr[e] /\ addr[e] # Server
      BY <1>7, <2>3, <2>7, Kinds DEF Peer, Linked
    <3> QED BY <2>2, <2>5, <2>7, <3>1 DEF SoundPacket
  <2> QED BY <2>6, <2>7
<1>10. \A d \in Endpoints : \A x \in tbuffer'[d] : x \in tbuffer[d] \/
          (x.type = "Data" => Linked(d)' /\ x.conn = id'[d] /\ Sent(d, x.seq, x.data)')
  <2>1. \A d \in Endpoints : \A x \in tbuffer'[d] : x \in tbuffer[d] \/ (d = e /\ x = m)
    BY <1>2, <1>t DEF EndpointTypeOK
  <2> QED BY <1>1, <1>6, <1>8, <2>1
<1>11. NetOK' /\ SincomingOK' /\ IncomingOK' /\ TbufferOK' /\ RbufferOK' /\ OutgoingOK'
  BY <1>1, <1>4, <1>9, <1>10, DataKeep
<1>12. TmsgOK'
  <2>1. \A d \in Endpoints : d # e => Unsent(d)'
    BY <1>1, <1>2, <1>3, <1>4, UnsentKeep
  <2>2. /\ tmsg'[e] = Tail(tmsg[e])
        /\ tsq'[e] = n + 1
        /\ written'[e] = written[e]
        /\ tmsg[e] \in Seq(Payload)
        /\ n \in Nat
    BY <1>1, <1>2, <1>3
  <2>3. Len(tmsg'[e]) = Len(tmsg[e]) - 1
    <3>1. tmsg[e] # <<>>
      BY <1>2
    <3>2. Len(Tail(tmsg[e])) = Len(tmsg[e]) - 1
      BY <2>2, <3>1
    <3> QED BY <2>2, <3>2
  <2>4. Len(written'[e]) = tsq'[e] - 1 + Len(tmsg'[e])
    <3>1. Len(written[e]) = tsq[e] - 1 + Len(tmsg[e])
      BY <1>5 DEF Unsent
    <3> QED BY <1>3, <2>2, <2>3, <3>1
  <2>5. \A k \in 1 .. Len(tmsg'[e]) : tmsg'[e][k] = written'[e][tsq'[e] - 1 + k]
    <3> SUFFICES ASSUME NEW k \in 1 .. Len(tmsg'[e]) PROVE tmsg'[e][k] = written'[e][tsq'[e] - 1 + k]
      OBVIOUS
    <3>1. k + 1 \in 1 .. Len(tmsg[e]) /\ tmsg'[e][k] = tmsg[e][k + 1]
      BY <1>2, <2>2, <2>3
    <3>2. tmsg[e][k + 1] = written[e][tsq[e] - 1 + (k + 1)]
      BY <1>5, <3>1 DEF Unsent
    <3>3. tsq[e] - 1 + (k + 1) = (n + 1) - 1 + k
      BY <1>3, <2>2
    <3> QED BY <2>2, <3>1, <3>2, <3>3
  <2>6. Unsent(e)'
    <3>1. tsq'[e] >= 1
      BY <2>2
    <3> QED BY <1>8, <2>4, <2>5, <3>1, Zenon DEF Unsent
  <2> QED BY <2>1, <2>6 DEF TmsgOK
<1>13. DeliveredOK'
  BY <1>1, <1>4, DeliveredKeep DEF DeliveredOK
<1> QED BY <1>11, <1>12, <1>13 DEF DataInv

\* A payload is accepted by a connected endpoint.
LEMMA WriteData ==
  ASSUME EndpointAssumption, TypeInv, ConnInv, DataInv, ConnInv', NEW e \in Endpoints, Linked(e),
         NEW x \in Payload,
         UNCHANGED <<id, addr, net, sincoming, incoming, tbuffer, tsq, rbuffer, rsq, delivered>>,
         Elems(outgoing') \subseteq Elems(outgoing),
         tmsg' = [tmsg EXCEPT ![e] = Append(@, x)],
         written' = [written EXCEPT ![e] = Append(@, x)]
  PROVE  DataInv'
<1>1. /\ tsq \in [Endpoints -> Nat]
      /\ tmsg \in [Endpoints -> Seq(Payload)]
      /\ written \in [Endpoints -> Seq(Payload)]
  BY DEF TypeInv, TypeOK, EndpointTypeOK
<1>2. written'[e] = Append(written[e], x) /\ tmsg'[e] = Append(tmsg[e], x) /\ tsq'[e] = tsq[e]
  BY <1>1
<1>3. \A d \in Endpoints : d # e => written'[d] = written[d] /\ tmsg'[d] = tmsg[d] /\ tsq'[d] = tsq[d]
  BY <1>1
<1>4. Growing
  <2>1. \A k \in 1 .. Len(written[e]) : written'[e][k] = written[e][k]
    BY <1>1, <1>2
  <2> QED BY <1>1, <1>3, <2>1 DEF Growing
<1>5. NetOK' /\ SincomingOK' /\ IncomingOK' /\ TbufferOK' /\ RbufferOK' /\ OutgoingOK'
  BY <1>4, DataKeep
<1>6. TmsgOK'
  <2>1. \A d \in Endpoints : d # e => Unsent(d)'
    BY <1>3, <1>4, UnsentKeep
  <2>2. Unsent(e) /\ Len(written[e]) = tsq[e] - 1 + Len(tmsg[e])
    BY DEF DataInv, TmsgOK, Unsent
  <2>3. tsq[e] \in Nat /\ tmsg[e] \in Seq(Payload) /\ written[e] \in Seq(Payload)
    BY <1>1
  <2>4. Len(written'[e]) = Len(written[e]) + 1 /\ Len(tmsg'[e]) = Len(tmsg[e]) + 1
    BY <1>2, <2>3
  <2>5. Len(written'[e]) = tsq'[e] - 1 + Len(tmsg'[e])
    BY <1>2, <2>2, <2>3, <2>4 DEF Unsent
  <2>6. \A k \in 1 .. Len(tmsg'[e]) : tmsg'[e][k] = written'[e][tsq'[e] - 1 + k]
    <3> SUFFICES ASSUME NEW k \in 1 .. Len(tmsg'[e]) PROVE tmsg'[e][k] = written'[e][tsq[e] - 1 + k]
      BY <1>2
    <3>1. CASE k \in 1 .. Len(tmsg[e])
      <4>1. tmsg'[e][k] = tmsg[e][k]
        BY <1>2, <2>3, <3>1
      <4>2. tsq[e] - 1 + k \in 1 .. Len(written[e])
        BY <2>2, <2>3, <3>1 DEF Unsent
      <4>3. written'[e][tsq[e] - 1 + k] = written[e][tsq[e] - 1 + k]
        BY <1>2, <2>3, <4>2
      <4> QED BY <2>2, <3>1, <4>1, <4>3 DEF Unsent
    <3>2. CASE k \notin 1 .. Len(tmsg[e])
      <4>1. k = Len(tmsg[e]) + 1 /\ tmsg'[e][k] = x
        BY <1>2, <2>3, <2>4, <3>2
      <4>2. tsq[e] - 1 + k = Len(written[e]) + 1
        BY <2>2, <2>3, <4>1
      <4>3. written'[e][Len(written[e]) + 1] = x
        BY <1>2, <2>3
      <4> QED BY <4>1, <4>2, <4>3
    <3> QED BY <3>1, <3>2
  <2>7. Linked(e)'
    BY <1>4, LinkedStable
  <2>8. Unsent(e)'
    BY <1>2, <2>2, <2>5, <2>6, <2>7 DEF Unsent
  <2> QED BY <2>1, <2>8 DEF TmsgOK
<1>7. DeliveredOK'
  BY <1>4, DeliveredKeep DEF DeliveredOK
<1> QED BY <1>5, <1>6, <1>7 DEF DataInv

\* A step that touches none of the data.
LEMMA DataSame ==
  ASSUME EndpointAssumption, TypeInv, ConnInv, DataInv, ConnInv', net' \subseteq net,
         UNCHANGED <<id, addr, sincoming, incoming, txVars, rxVars, outgoing>>
  PROVE  DataInv'
<1>1. UNCHANGED <<tbuffer, tmsg, tsq, written, rbuffer, rsq, delivered>>
  BY DEF txVars, rxVars
<1> QED BY <1>1, DataQuiet

-----------------------------------------------------------------------------
\* The client's goroutines.
LEMMA ClientAppData ==
  ASSUME EndpointAssumption, TypeInv, ConnInv, DataInv, ConnInv', NEW c \in Clients, ClientAppStep(c),
         UNCHANGED serverVars
  PROVE  DataInv'
<1>0. c \in Endpoints
  BY DEF Endpoints
<1>s. UNCHANGED <<sincoming, outgoing>>
  BY DEF serverVars
<1>1. CASE NewClient(c)
  <2>1. UNCHANGED <<id, addr, incoming, tmsg, tsq, written, rbuffer, rsq, delivered>>
    BY <1>1 DEF NewClient, rxVars
  <2>2. NewConnect.type # "Data"
    BY DEF NewConnect
  <2>3. \A p \in net' : p \in net \/ SoundPacket(p)
    <3>1. WriteMessages(c, {NewConnect})
      BY <1>1 DEF NewClient
    <3> QED BY <1>0, <2>2, <3>1, SendsSound
  <2>4. \A d \in Endpoints : \A m \in tbuffer'[d] : m \in tbuffer[d] \/ m.type # "Data"
    BY <1>1, <2>2 DEF NewClient, TypeInv, TypeOK, EndpointTypeOK
  <2> QED BY <1>s, <2>1, <2>3, <2>4, DataQuiet
<1>2. CASE NewClientReturns(c) \/ ClientReadData(c) \/ ClientReadError(c) \/ ClientCloseGet(c)
  <2>1. UNCHANGED endpointVars
    BY <1>2 DEF NewClientReturns, ClientReadData, ClientReadError, ClientCloseGet
  <2> QED BY <1>s, <2>1, DataSame DEF endpointVars
<1>3. ASSUME NEW p \in Payload, ClientWrite(c, p) PROVE DataInv'
  <2>1. UNCHANGED <<id, addr, net, incoming, tbuffer, tsq, rbuffer, rsq, delivered>>
    BY <1>3 DEF ClientWrite, rxVars
  <2>2. Linked(c)
    BY <1>3 DEF ClientWrite, ConnInv, AppOK, Linked
  <2>3. tmsg' = [tmsg EXCEPT ![c] = Append(@, p)] /\ written' = [written EXCEPT ![c] = Append(@, p)]
    BY <1>3 DEF ClientWrite
  <2> QED BY <1>0, <1>s, <2>1, <2>2, <2>3, WriteData
<1>4. CASE ClientCloseSet(c) \/ ClientCloseReturns(c) \/ ClientCloseSocket(c)
  <2>1. UNCHANGED <<net, id, addr, incoming, txVars, rxVars>>
    BY <1>4 DEF ClientCloseSet, ClientCloseReturns, ClientCloseSocket
  <2> QED BY <1>s, <2>1, DataSame
<1> QED BY <1>1, <1>2, <1>3, <1>4 DEF ClientAppStep

LEMMA ClientReceiverData ==
  ASSUME EndpointAssumption, TypeInv, ConnInv, DataInv, ConnInv', NEW c \in Clients,
         ClientReceiverStep(c), UNCHANGED serverVars
  PROVE  DataInv'
<1>0. c \in Endpoints /\ c # Server
  BY Kinds DEF Endpoints
<1>s. UNCHANGED <<sincoming, outgoing>>
  BY DEF serverVars
<1>1. ASSUME NEW p \in net, ClientReceive(c, p) PROVE DataInv'
  <2>1. UNCHANGED <<id, addr, tbuffer, tmsg, tsq, written, rbuffer, rsq, delivered>> /\ net' \subseteq net
    BY <1>1, ConsumeType DEF ClientReceive, txVars, rxVars
  <2>2. PICK m \in Received(p) : incoming' = [incoming EXCEPT ![c] = Append(@, m)]
    BY <1>1 DEF ClientReceive
  <2>3. p \in Packet /\ p.to = c
    BY <1>1 DEF ClientReceive, TypeInv, TypeOK, EndpointTypeOK, Packet
  <2>4. m.type = "Data" => Sound(c, m.seq, m.data)
    <3>1. m.type = p.msg.type /\ m.seq = p.msg.seq /\ m.data = p.msg.data
      BY <2>2, <2>3, ReceivedFields
    <3>2. SoundPacket(p)
      BY DEF DataInv, NetOK
    <3> QED BY <1>0, <2>3, <3>1, <3>2 DEF SoundPacket
  <2>5. Elems(Append(incoming[c], m)) = Elems(incoming[c]) \cup {m}
    BY <1>0, ElemsAppend DEF TypeInv, TypeOK, EndpointTypeOK
  <2>6. \A d \in Endpoints : \A x \in Elems(incoming'[d]) : x \in Elems(incoming[d]) \/ (d = c /\ x = m)
    BY <2>2, <2>5 DEF TypeInv, TypeOK, EndpointTypeOK
  <2> QED BY <1>s, <2>1, <2>4, <2>6, DataQuiet
<1>2. ASSUME ReceiverError(c), net' \subseteq net PROVE DataInv'
  <2>1. UNCHANGED <<id, addr, incoming, txVars, rxVars>>
    BY <1>2 DEF ReceiverError
  <2> QED BY <1>s, <1>2, <2>1, DataSame
<1> QED
  BY <1>1, <1>2, ConsumeType
     DEF ClientReceiverStep, ClientSocketClosed, ClientOversize, ClientRefused

LEMMA ClientHandlerData ==
  ASSUME EndpointAssumption, TypeInv, ConnInv, DataInv, ConnInv', NEW c \in Clients,
         ClientHandlerStep(c), UNCHANGED serverVars
  PROVE  DataInv'
<1>0. c \in Endpoints
  BY DEF Endpoints
<1>s. UNCHANGED <<sincoming, outgoing>>
  BY DEF serverVars
<1>1. CASE ClientHandlerExit(c) \/ ClientLost(c)
  <2>1. UNCHANGED <<net, id, addr, incoming, txVars, rxVars>>
    BY <1>1 DEF ClientHandlerExit, ClientLost
  <2> QED BY <1>s, <2>1, DataSame
<1>2. CASE ClientShortData(c) \/ ClientData(c) \/ ClientEndDelivery(c)
  BY <1>0, <1>s, <1>2, SelectData DEF ClientShortData, ClientData, ClientEndDelivery
<1>3. CASE ClientEpoch(c)
  <2>1. PICK extra : (\A m \in extra : m.type # "Data") /\ Epoch(c, extra)
    BY <1>3 DEF ClientEpoch, Heartbeat, NewConnect, NewAck
  <2> QED BY <1>0, <1>s, <2>1, SelectData
<1>4. CASE ClientDeliver(c)
  <2>1. PICK r \in rbuffer[c] : DeliverNext(c, r)
    BY <1>4 DEF ClientDeliver
  <2> QED BY <1>0, <1>s, <2>1, DeliverData
<1>5. CASE ClientTransmit(c)
  BY <1>0, <1>s, <1>5, TransmitData DEF ClientTransmit
<1>6. CASE ClientAck(c)
  <2>1. HandleAck(c) /\ Dequeue(c, "Ack")
    BY <1>6 DEF ClientAck, HandleAck
  <2>2. UNCHANGED <<addr, net, tmsg, tsq, written, rbuffer, rsq, delivered>>
    BY <2>1 DEF HandleAck, rxVars
  <2>3. \A d \in Endpoints : Elems(incoming'[d]) \subseteq Elems(incoming[d])
    BY <1>0, <2>1, DequeueElems DEF TypeInv, TypeOK
  <2>4. \A d \in Endpoints : tbuffer'[d] \subseteq tbuffer[d]
    BY <1>0, <2>1 DEF HandleAck, TypeInv, TypeOK, EndpointTypeOK
  <2>5. \A d \in Clients : id[d] # -1 => id'[d] = id[d]
    BY <1>0, <1>6 DEF ClientAck, TypeInv, TypeOK, EndpointTypeOK, Endpoints
  <2>6. Growing
    BY <2>2, <2>5 DEF Growing, TypeInv, TypeOK, EndpointTypeOK
  <2>7. NetOK' /\ SincomingOK' /\ IncomingOK' /\ TbufferOK' /\ RbufferOK' /\ OutgoingOK'
    BY <1>s, <2>2, <2>3, <2>4, <2>6, DataKeep
  <2>8. TmsgOK'
    BY <2>2, <2>6, UnsentKeep DEF TmsgOK
  <2>9. DeliveredOK'
    BY <2>2, <2>6, DeliveredKeep DEF DeliveredOK
  <2> QED BY <2>7, <2>8, <2>9 DEF DataInv
<1> QED BY <1>1, <1>2, <1>3, <1>4, <1>5, <1>6 DEF ClientHandlerStep

-----------------------------------------------------------------------------
\* The server's goroutines.
LEMMA ServerAppData ==
  ASSUME EndpointAssumption, TypeInv, ConnInv, DataInv, ConnInv', ServerAppStep
  PROVE  DataInv'
<1>1. ASSUME NEW i \in ConnIDs, NEW p \in Payload, ServerWrite(i, p) PROVE DataInv'
  <2> DEFINE w == [conn |-> i, data |-> p]
             W == [conn: ConnIDs, data: Payload]
  <2>1. UNCHANGED <<net, id, addr, sincoming, incoming, tbuffer, tmsg, tsq, written, rbuffer, rsq, delivered>>
    BY <1>1 DEF ServerWrite, endpointVars, txVars, rxVars
  <2>2. Linked(i)
    <3>1. PICK c \in Clients : id[c] = i
      BY <1>1 DEF ServerWrite, Known
    <3>2. i # -1 /\ i \notin Clients
      BY Kinds
    <3>3. addr[i] = c
      BY <3>1, <3>2 DEF ConnInv, IdOK
    <3> QED BY <3>1, <3>2, <3>3 DEF Linked
  <2>3. outgoing' = Append(outgoing, w) /\ outgoing \in Seq(W)
    BY <1>1 DEF ServerWrite, TypeInv, TypeOK, ServerTypeOK
  <2>4. w.conn = i
    OBVIOUS
  <2> HIDE DEF w, W
  <2>5. Elems(outgoing') = Elems(outgoing) \cup {w}
    BY <2>3, ElemsAppend
  <2> QED BY <2>1, <2>2, <2>4, <2>5, DataQuiet
<1>2. CASE \/ ServerReadData \/ ServerReadError \/ ServerClose \/ ServerCloseReturns
           \/ \E i \in ConnIDs : CloseConn(i)
  <2>1. UNCHANGED endpointVars
    BY <1>2 DEF ServerReadData, ServerReadError, ServerClose, ServerCloseReturns, CloseConn
  <2>2. UNCHANGED <<sincoming, outgoing>>
    BY <1>2 DEF ServerReadData, ServerReadError, ServerClose, ServerCloseReturns, CloseConn
  <2> QED BY <2>1, <2>2, DataSame DEF endpointVars
<1>3. CASE ServerCloseSocket
  <2>1. UNCHANGED <<net, id, addr, incoming, txVars, rxVars, sincoming, outgoing>>
    BY <1>3 DEF ServerCloseSocket, serverVars
  <2> QED BY <2>1, DataSame
<1> QED BY <1>1, <1>2, <1>3 DEF ServerAppStep

LEMMA ServerReceiverData ==
  ASSUME EndpointAssumption, TypeInv, ConnInv, DataInv, ConnInv', ServerReceiverStep
  PROVE  DataInv'
<1>1. ASSUME NEW p \in net, ServerReceive(p) PROVE DataInv'
  <2> DEFINE am(m) == [from |-> p.from, msg |-> m]
             SIn == [from: Clients \cup {Server}, msg: Message]
  <2>1. UNCHANGED <<id, addr, incoming, tbuffer, tmsg, tsq, written, rbuffer, rsq, delivered, outgoing>>
        /\ net' \subseteq net
    BY <1>1, ConsumeType DEF ServerReceive, txVars, rxVars
  <2>2. PICK m \in Received(p) : sincoming' = Append(sincoming, am(m))
    BY <1>1 DEF ServerReceive
  <2>3. p \in Packet /\ p.to = Server
    BY <1>1 DEF ServerReceive, TypeInv, TypeOK, EndpointTypeOK, Packet
  <2>4. m.type = "Data" => m.conn \in ConnIDs /\ Sound(m.conn, m.seq, m.data)
    <3>1. m.type = p.msg.type /\ m.conn = p.msg.conn /\ m.seq = p.msg.seq /\ m.data = p.msg.data
      BY <2>2, <2>3, ReceivedFields
    <3>2. SoundPacket(p)
      BY DEF DataInv, NetOK
    <3> QED BY <2>3, <3>1, <3>2 DEF SoundPacket
  <2>5. am(m).msg = m
    OBVIOUS
  <2>6. sincoming \in Seq(SIn)
    BY DEF TypeInv, TypeOK, ServerTypeOK
  <2> HIDE DEF am, SIn
  <2>7. Elems(sincoming') = Elems(sincoming) \cup {am(m)}
    BY <2>2, <2>6, ElemsAppend
  <2> QED BY <2>1, <2>4, <2>5, <2>7, DataQuiet
<1>2. CASE ServerSocketClosed
  <2>1. UNCHANGED endpointVars /\ UNCHANGED <<sincoming, outgoing>>
    BY <1>2 DEF ServerSocketClosed
  <2> QED BY <2>1, DataSame DEF endpointVars
<1> QED BY <1>1, <1>2 DEF ServerReceiverStep

LEMMA HandleStepData ==
  ASSUME EndpointAssumption, TypeInv, ConnInv, DataInv, ConnInv', HandleStep
  PROVE  DataInv'
<1>1. CASE HandleDuplicateConnect
  <2>1. UNCHANGED <<net, id, addr, incoming, tbuffer, tmsg, tsq, written, rbuffer, rsq, delivered, outgoing>>
    BY <1>1 DEF HandleDuplicateConnect, endpointVars, txVars, rxVars
  <2>2. Elems(sincoming') \subseteq Elems(sincoming)
    BY <1>1, ArrivedElems DEF HandleDuplicateConnect
  <2> QED BY <2>1, <2>2, DataQuiet
<1>2. CASE HandleConnect
  <2>1. PICK i, a : i = lastConnID /\ a = Head(sincoming).from
    OBVIOUS
  <2>2. UNCHANGED <<id, incoming, tbuffer, tmsg, tsq, written, rbuffer, rsq, delivered, outgoing>>
    BY <1>2 DEF HandleConnect, txVars, rxVars
  <2>3. /\ Arrived("Connect")
        /\ i \in ConnIDs /\ i \in Int
        /\ addr' = [addr EXCEPT ![i] = a]
        /\ net' = net \cup {[from |-> Server, to |-> a, msg |-> NewAck(i, 0)]}
    BY <1>2, <2>1, Kinds DEF HandleConnect
  <2>4. Elems(sincoming') \subseteq Elems(sincoming)
    BY <2>3, ArrivedElems
  <2>5. addr[i] = Server
    BY <2>1, <2>3 DEF ConnInv, ConnOK
  <2>6. \A j \in ConnIDs : addr[j] \in Clients => addr'[j] = addr[j]
    BY <2>3, <2>5, Kinds DEF TypeInv, TypeOK, EndpointTypeOK
  <2>7. Growing
    BY <2>2, <2>6 DEF Growing, TypeInv, TypeOK, EndpointTypeOK
  <2>8. \A p \in net' : p \in net \/ SoundPacket(p)'
    <3>1. \A p \in net' : p \in net \/ p.msg.type = "Ack"
      BY <2>3 DEF NewAck
    <3> QED BY <3>1 DEF SoundPacket
  <2>9. NetOK' /\ SincomingOK' /\ IncomingOK' /\ TbufferOK' /\ RbufferOK' /\ OutgoingOK'
    BY <2>2, <2>4, <2>7, <2>8, DataKeep
  <2>10. TmsgOK'
    BY <2>2, <2>7, UnsentKeep DEF TmsgOK
  <2>11. DeliveredOK'
    BY <2>2, <2>7, DeliveredKeep DEF DeliveredOK
  <2> QED BY <2>9, <2>10, <2>11 DEF DataInv
<1>3. CASE HandleRoute
  <2> DEFINE m == Head(sincoming).msg
  <2>1. UNCHANGED <<net, id, addr, tbuffer, tmsg, tsq, written, rbuffer, rsq, delivered, outgoing>>
    BY <1>3 DEF HandleRoute, txVars, rxVars
  <2>2. /\ Elems(sincoming') \subseteq Elems(sincoming)
        /\ Head(sincoming) \in Elems(sincoming)
        /\ m \in Message
    BY <1>3, ArrivedElems DEF HandleRoute
  <2>3. m.type = "Data" => Sound(m.conn, m.seq, m.data)
    BY <2>2 DEF DataInv, SincomingOK
  <2>4. incoming' = incoming \/ (m.conn \in clients /\ incoming' = [incoming EXCEPT ![m.conn] = Append(@, m)])
    BY <1>3 DEF HandleRoute
  <2>5. m.conn \in clients => m.conn \in Endpoints
    BY DEF TypeInv, TypeOK, ServerTypeOK, Endpoints
  <2> HIDE DEF m
  <2>6. \A d \in Endpoints : \A x \in Elems(incoming'[d]) : x \in Elems(incoming[d]) \/ (d = m.conn /\ x = m)
    <3>1. CASE incoming' = incoming
      BY <3>1
    <3>2. CASE m.conn \in clients /\ incoming' = [incoming EXCEPT ![m.conn] = Append(@, m)]
      <4>1. Elems(Append(incoming[m.conn], m)) = Elems(incoming[m.conn]) \cup {m}
        BY <2>5, <3>2, ElemsAppend DEF TypeInv, TypeOK, EndpointTypeOK
      <4> QED BY <3>2, <4>1 DEF TypeInv, TypeOK, EndpointTypeOK
    <3> QED BY <2>4, <3>1, <3>2
  <2> QED BY <2>1, <2>2, <2>3, <2>6, DataQuiet
<1>4. CASE HandleOutgoing
  <2>1. PICK w : w = Head(outgoing)
    OBVIOUS
  <2>2. UNCHANGED <<net, id, addr, incoming, sincoming, tbuffer, tsq, rbuffer, rsq, delivered>>
    BY <1>4 DEF HandleOutgoing, rxVars
  <2>3. w \in Elems(outgoing) /\ Elems(outgoing') \subseteq Elems(outgoing)
    <3> DEFINE W == [conn: ConnIDs, data: Payload]
    <3>1. outgoing \in Seq(W)
      BY DEF TypeInv, TypeOK, ServerTypeOK
    <3>2. outgoing # <<>> /\ outgoing' = Tail(outgoing)
      BY <1>4 DEF HandleOutgoing
    <3> HIDE DEF W
    <3> QED BY <2>1, <3>1, <3>2, ElemsTail
  <2>4. \/ UNCHANGED <<tmsg, written>>
        \/ /\ tmsg' = [tmsg EXCEPT ![w.conn] = Append(@, w.data)]
           /\ written' = [written EXCEPT ![w.conn] = Append(@, w.data)]
    BY <1>4, <2>1 DEF HandleOutgoing
  <2>5. CASE UNCHANGED <<tmsg, written>>
    BY <2>2, <2>3, <2>5, DataQuiet
  <2>6. CASE /\ tmsg' = [tmsg EXCEPT ![w.conn] = Append(@, w.data)]
             /\ written' = [written EXCEPT ![w.conn] = Append(@, w.data)]
    <3>1. w.conn \in Endpoints /\ w.data \in Payload /\ Linked(w.conn)
      BY <2>3, OutgoingType DEF Endpoints, DataInv, OutgoingOK
    <3> QED BY <2>2, <2>3, <2>6, <3>1, WriteData
  <2> QED BY <2>4, <2>5, <2>6
<1>5. CASE HandleCls
  <2>1. UNCHANGED <<net, id, addr, incoming, txVars, rxVars, sincoming, outgoing>>
    BY <1>5 DEF HandleCls
  <2> QED BY <2>1, DataSame
<1> QED BY <1>1, <1>2, <1>3, <1>4, <1>5 DEF HandleStep

LEMMA ConnStepData ==
  ASSUME EndpointAssumption, TypeInv, ConnInv, DataInv, ConnInv', NEW i \in ConnIDs, ConnStep(i)
  PROVE  DataInv'
<1>0. i \in Endpoints
  BY DEF Endpoints
<1>s. UNCHANGED <<sincoming, outgoing>>
  BY DEF ConnStep, ConnExit, ConnShortData, ConnData, ConnDeliver, ConnEndDelivery, ConnAck, ConnEpoch,
         ConnTimeout, ConnReport, ConnTransmit, ConnIdle, serverVars
<1>1. CASE ConnExit(i) \/ ConnTimeout(i) \/ ConnReport(i) \/ ConnIdle(i)
  <2>1. UNCHANGED <<net, id, addr, incoming, txVars, rxVars>>
    BY <1>1 DEF ConnExit, ConnTimeout, ConnReport, ConnIdle
  <2> QED BY <1>s, <2>1, DataSame
<1>2. CASE ConnShortData(i) \/ ConnData(i) \/ ConnEndDelivery(i) \/ ConnAck(i)
  BY <1>0, <1>s, <1>2, SelectData DEF ConnShortData, ConnData, ConnEndDelivery, ConnAck
<1>3. CASE ConnEpoch(i)
  <2>1. \A m \in Heartbeat(i) : m.type # "Data"
    BY DEF Heartbeat, NewAck
  <2>2. Epoch(i, Heartbeat(i))
    BY <1>3 DEF ConnEpoch
  <2> QED BY <1>0, <1>s, <2>1, <2>2, SelectData
<1>4. CASE ConnDeliver(i)
  <2>1. PICK r \in rbuffer[i] : DeliverNext(i, r)
    BY <1>4 DEF ConnDeliver
  <2> QED BY <1>0, <1>s, <2>1, DeliverData
<1>5. CASE ConnTransmit(i)
  BY <1>0, <1>s, <1>5, TransmitData DEF ConnTransmit
<1> QED BY <1>1, <1>2, <1>3, <1>4, <1>5 DEF ConnStep

-----------------------------------------------------------------------------
\* DataInv is inductive, relative to the types and to ConnInv.
LEMMA DataInit == ASSUME EndpointAssumption, Init PROVE DataInv
<1> USE DEF Init, EndpointInit, ServerInit
<1>1. NetOK /\ SincomingOK /\ OutgoingOK
  BY ElemsEmpty DEF NetOK, SincomingOK, OutgoingOK
<1>2. IncomingOK /\ TbufferOK /\ RbufferOK
  BY ElemsEmpty DEF IncomingOK, TbufferOK, RbufferOK
<1>3. TmsgOK
  BY DEF TmsgOK, Unsent
<1>4. DeliveredOK
  BY DEF DeliveredOK, Delivered
<1> QED BY <1>1, <1>2, <1>3, <1>4 DEF DataInv

LEMMA DataNext ==
  ASSUME EndpointAssumption, TypeInv, ConnInv, DataInv, ConnInv', [Next]_vars
  PROVE  DataInv'
<1>1. ASSUME NEW c \in Clients, ClientStep(c), UNCHANGED serverVars PROVE DataInv'
  BY <1>1, ClientAppData, ClientReceiverData, ClientHandlerData DEF ClientStep
<1>2. CASE ServerStep
  BY <1>2, ServerAppData, ServerReceiverData, HandleStepData, ConnStepData DEF ServerStep
<1>3. CASE LosePacket /\ UNCHANGED <<sock, id, addr, incoming, txVars, rxVars, ctlVars,
                                     clientVars, serverVars>>
  <2>1. net' \subseteq net
    BY <1>3 DEF LosePacket
  <2>2. UNCHANGED <<sincoming, outgoing>>
    BY <1>3 DEF serverVars
  <2> QED BY <1>3, <2>1, <2>2, DataSame
<1>4. CASE UNCHANGED vars
  <2>1. UNCHANGED <<net, id, addr, sincoming, incoming, txVars, rxVars, outgoing>>
    BY <1>4 DEF vars, endpointVars, serverVars
  <2> QED BY <2>1, DataSame
<1> QED BY <1>1, <1>2, <1>3, <1>4 DEF Next

LEMMA DataImplies == ASSUME EndpointAssumption, TypeInv, ConnInv, DataInv PROVE InOrder
<1>1. \A p \in Pairs : p[1] \in Endpoints /\ p[2] \in Endpoints /\ Linked(p[2]) /\ Peer(p[2]) = p[1]
  <2>1. ASSUME NEW c \in Clients, id[c] # -1
        PROVE  /\ c \in Endpoints /\ Linked(c) /\ Peer(c) = id[c]
               /\ id[c] \in Endpoints /\ Linked(id[c]) /\ Peer(id[c]) = c
    <3>1. c \in Endpoints /\ Linked(c) /\ Peer(c) = id[c]
      BY <2>1 DEF Endpoints, Linked, Peer
    <3> QED BY <3>1, PeerPeer
  <2> QED BY <2>1 DEF Pairs, Links
<1>2. ASSUME NEW p \in Pairs PROVE IsPrefixOf(Data(p[2]), written[p[1]])
  <2> DEFINE D == [data: Payload, fit: Fit]
  <2>1. PICK a, b : a = p[1] /\ b = p[2]
    OBVIOUS
  <2>2. a \in Endpoints /\ b \in Endpoints /\ Linked(b) /\ Peer(b) = a
    BY <1>1, <2>1
  <2>3. delivered[b] \in Seq(D) /\ written[a] \in Seq(Payload) /\ tmsg[a] \in Seq(Payload) /\ tsq[a] \in Nat
    BY <2>2 DEF TypeInv, TypeOK, EndpointTypeOK
  <2> HIDE DEF D
  <2>4. \A k \in 1 .. Len(delivered[b]) : k \in 1 .. (tsq[a] - 1) /\ delivered[b][k].data = written[a][k]
    BY <2>2 DEF DataInv, DeliveredOK, Delivered, Sound, Sent
  <2>5. tsq[a] - 1 <= Len(written[a]) /\ tsq[a] >= 1
    BY <2>2, <2>3 DEF DataInv, TmsgOK, Unsent
  <2>6. Len(delivered[b]) \in Nat /\ Len(written[a]) \in Nat
    BY <2>3
  <2>7. Len(delivered[b]) <= Len(written[a])
    <3>1. CASE Len(delivered[b]) = 0
      BY <2>6, <3>1
    <3>2. CASE Len(delivered[b]) # 0
      <4>1. Len(delivered[b]) \in 1 .. Len(delivered[b])
        BY <2>6, <3>2
      <4>2. Len(delivered[b]) \in 1 .. (tsq[a] - 1)
        BY <2>4, <4>1
      <4> QED BY <2>3, <2>5, <2>6, <4>2
    <3> QED BY <3>1, <3>2
  <2>8. Len(Data(b)) = Len(delivered[b]) /\ \A k \in 1 .. Len(delivered[b]) : Data(b)[k] = delivered[b][k].data
    BY <2>6 DEF Data
  <2>9. IsPrefixOf(Data(b), written[a])
    BY <2>4, <2>7, <2>8 DEF IsPrefixOf
  <2> QED BY <2>1, <2>9
<1>3. ASSUME NEW e \in Endpoints, \A p \in Pairs : p[2] # e PROVE delivered[e] = <<>>
  <2>1. ~Linked(e)
    <3>1. CASE e \in Clients
      <4>1. ASSUME id[e] # -1 PROVE FALSE
        <5>1. <<e, id[e]>> \in Links
          BY <3>1, <4>1 DEF Links
        <5>2. PICK l \in Links : l = <<e, id[e]>>
          BY <5>1
        <5>3. <<l[2], l[1]>> \in Pairs
          BY <5>2 DEF Pairs
        <5>4. <<l[2], l[1]>>[2] # e
          BY <1>3, <5>3
        <5> QED BY <5>2, <5>4
      <4> QED BY <3>1, <4>1 DEF Linked
    <3>2. CASE e \notin Clients
      <4>1. e # -1
        BY <3>2, Kinds DEF Endpoints
      <4>2. ASSUME NEW c \in Clients, id[c] = e PROVE FALSE
        <5>1. <<c, id[c]>> \in Links
          BY <4>1, <4>2 DEF Links
        <5>2. <<c, e>> \in Pairs
          BY <4>2, <5>1 DEF Pairs
        <5>3. <<c, e>>[2] # e
          BY <1>3, <5>2
        <5> QED BY <5>3
      <4> QED BY <3>2, <4>2 DEF Linked
    <3> QED BY <3>1, <3>2
  <2> DEFINE D == [data: Payload, fit: Fit]
  <2>2. delivered[e] \in Seq(D)
    BY DEF TypeInv, TypeOK, EndpointTypeOK
  <2> HIDE DEF D
  <2>3. \A k \in 1 .. Len(delivered[e]) : FALSE
    BY <2>1 DEF DataInv, DeliveredOK, Delivered, Sound
  <2>4. Len(delivered[e]) = 0
    <3>1. Len(delivered[e]) \in Nat
      BY <2>2
    <3> QED BY <2>3, <3>1
  <2> QED BY <2>2, <2>4
<1> QED BY <1>2, <1>3 DEF InOrder

\* The safety of LSP: whatever the network loses, repeats, reorders, shortens or
\* lengthens, what an application reads is a prefix of what its peer's application
\* wrote, each payload once, in the order of the writes (the rbuffer/rsq logic of
\* client.handler and clientInfo.handleClient).
THEOREM ReadsInOrder == Spec => []InOrder
<1>1. Init => TypeInv /\ ConnInv /\ DataInv
  BY TypeInit, ConnInit, DataInit, EndpointAssumption
<1>2. TypeInv /\ ConnInv /\ DataInv /\ [Next]_vars => (TypeInv /\ ConnInv /\ DataInv)'
  <2> SUFFICES ASSUME TypeInv, ConnInv, DataInv, [Next]_vars PROVE (TypeInv /\ ConnInv /\ DataInv)'
    OBVIOUS
  <2>1. TypeInv' /\ ConnInv'
    BY TypeNext, ConnNext, EndpointAssumption
  <2>2. DataInv'
    BY <2>1, DataNext, EndpointAssumption
  <2> QED BY <2>1, <2>2
<1>3. TypeInv /\ ConnInv /\ DataInv => InOrder
  BY DataImplies, EndpointAssumption
<1> QED BY <1>1, <1>2, <1>3, PTL DEF Spec
=============================================================================
