---------------------------- MODULE LspEndpoint ----------------------------
(***************************************************************************)
(* The sliding-window endpoint of the Live Sequence Protocol.              *)
(*                                                                         *)
(* The structs `client` (client_impl.go) and `clientInfo` (server_impl.go) *)
(* have the same fields, and the loops of `handler` and `handleClient`     *)
(* treat them alike.  This module holds that common part: the fields, as   *)
(* functions over the endpoints, the network below them, and the cases of  *)
(* the select statement.  LspClient and LspServer add what differs.        *)
(*                                                                         *)
(* An endpoint is a client (also its UDP address) or, on the server, the   *)
(* connection ID of a clientInfo.                                          *)
(*                                                                         *)
(* The definitions marked "Mutant" are wrong variants of the one that      *)
(* follows them; they show that the properties notice the difference.      *)
(***************************************************************************)
EXTENDS Integers, Sequences, FiniteSets

CONSTANTS
  Clients,       \* the NewClient calls; a client is identified with its UDP address
  Server,        \* the server's UDP address
  Payload,       \* what the applications write
  Oversize,      \* payloads whose encoded packet exceeds ReadMessage's 2000-byte buffer
  NoData,        \* the nil Payload of connect and ack messages
  Faults,        \* length faults lspnet injects: a subset of {"short", "long"}
  Duplicating,   \* TRUE: the network may deliver a packet again
  WindowSize,    \* Params.WindowSize
  EpochLimit,    \* Params.EpochLimit
  IncomingCap,   \* capacity of an endpoint's `incoming` (1024)
  TmsgCap,       \* capacity of an endpoint's `tmsg` (1000, 1024)
  MaxConns       \* bound: connections the server accepts

ASSUME EndpointAssumption ==
  /\ WindowSize \in Nat \ {0}
  /\ EpochLimit \in Nat \ {0}
  /\ IncomingCap \in Nat
  /\ TmsgCap \in Nat
  /\ MaxConns \in Nat
  /\ Faults \subseteq {"short", "long"}
  /\ Duplicating \in BOOLEAN
  /\ Oversize \subseteq Payload
  /\ NoData \notin Payload
  /\ Server \notin Clients
  /\ Clients \cap Int = {}

VARIABLES
  net,         \* packets in flight
  sock,        \* the UDP sockets: open, closed
  id,          \* c.id: -1 until a client learns its connection ID
  addr,        \* clientInfo.addr, Server before the connection exists
  incoming,    \* messages queued for the handler
  tbuffer,     \* messages sent and not acknowledged
  tmsg,        \* payloads written and not yet sent
  tsq,         \* next sequence number to send
  rbuffer,     \* data received and not yet delivered
  rsq,         \* next sequence number to deliver
  epochCount,  \* epochs since the last message from the peer
  status,      \* the `status` monitor
  hpc,         \* where the handler goroutine is
  ackSeq,      \* the sequence number the handler will acknowledge after delivering
  written,     \* history: payloads accepted from the application
  delivered    \* history: data handed to the application's rmsg channel

txVars  == <<tbuffer, tmsg, tsq, written>>
rxVars  == <<rbuffer, rsq, delivered>>
ctlVars == <<epochCount, status, hpc, ackSeq>>
endpointVars == <<net, sock, id, addr, incoming, txVars, rxVars, ctlVars>>

-----------------------------------------------------------------------------
FirstConnID == 73
ConnIDs     == FirstConnID .. (FirstConnID + MaxConns - 1)
Endpoints   == Clients \cup ConnIDs

\* How the length of a received payload compares with the Size field.
Fit == {"short", "exact", "long"}

Status == {"notClosing", "startClosing", "handlerClosed", "connectionClosed", "closed"}

HandlerPc == {"off",      \* not started
              "loop",     \* at the top of the for loop
              "deliver",  \* in the loop that fills rmsg
              "report",   \* server only: between s.cls <- and s.err <-
              "done",     \* returned after a requested close
              "lost"}     \* returned after EpochLimit silent epochs

NewConnect == [type |-> "Connect", conn |-> 0, seq |-> 0, data |-> NoData, fit |-> "exact"]

NewData(i, n, p) == [type |-> "Data", conn |-> i, seq |-> n, data |-> p, fit |-> "exact"]

NewAck(i, n) == [type |-> "Ack", conn |-> i, seq |-> n, data |-> NoData, fit |-> "exact"]

ConnID  == ConnIDs \cup {-1}
DataMsg == [type: {"Data"}, conn: ConnID, seq: Nat, data: Payload, fit: Fit]
AckMsg  == [type: {"Ack"}, conn: ConnID, seq: Nat, data: {NoData}, fit: {"exact"}]
Message == {NewConnect} \cup DataMsg \cup AckMsg

-----------------------------------------------------------------------------
\* WriteMessage through e's socket: the packet goes to the server, or to the
\* address of the connection; a closed socket sends nothing.
Host(e) == IF e \in Clients THEN e ELSE Server

Outbound(e, m) ==
  [from |-> Host(e), to |-> IF e \in Clients THEN Server ELSE addr[e], msg |-> m]

WriteMessages(e, ms) ==
  net' = IF sock[Host(e)] = "open" THEN net \cup {Outbound(e, m) : m \in ms} ELSE net

\* What ReadMessage may return for a packet: a data payload can have been
\* shortened or lengthened on the way.
Received(p) ==
  {p.msg} \cup {[p.msg EXCEPT !.fit = f] : f \in IF p.msg.type = "Data" THEN Faults ELSE {}}

\* A packet leaves the network when it is read, unless the network repeats it.
Consume(p) == net' = IF Duplicating THEN net ELSE net \ {p}

\* UDP and lspnet's drop percentages: a packet is never read.  (A duplicating
\* network that never repeats a packet has lost it, so it needs no such step.)
LosePacket ==
  /\ ~Duplicating
  /\ \E p \in net : net' = net \ {p}

-----------------------------------------------------------------------------
\* Mutant: messages in flight are forgotten.
CloseReadyEarly(e) == status[e] = "startClosing" /\ rbuffer[e] = {} /\ tmsg[e] = <<>>

\* Mutant: payloads that were not sent yet are forgotten.
CloseReadyUnsent(e) == status[e] = "startClosing" /\ rbuffer[e] = {} /\ tbuffer[e] = {}

\* The loop's exit condition on a requested close.  A turn of the loop does not
\* look at the status after this check, so a close requested in between is the
\* same as one requested after the turn, but for the timeout (see LspClient).
CloseReady(e) ==
  /\ status[e] = "startClosing"
  /\ tbuffer[e] = {}
  /\ rbuffer[e] = {}
  /\ tmsg[e] = <<>>

AtSelect(e) == hpc[e] = "loop" /\ ~CloseReady(e)

\* Mutant: the window is one too wide.
WindowOpenInclusive(e) ==
  \A n \in {tsq[e]} \cup {m.seq : m \in tbuffer[e]} : tsq[e] - n <= WindowSize

\* Mutant: counts the unacknowledged messages.
WindowOpenByCount(e) == Cardinality(tbuffer[e]) < WindowSize

\* c.tsq - minUnAcked < c.windows, where minUnAcked is the least of tsq and the
\* sequence numbers in tbuffer.
WindowOpen(e) ==
  \A n \in {tsq[e]} \cup {m.seq : m \in tbuffer[e]} : tsq[e] - n < WindowSize

\* case m := <-c.incoming, of the given type.
Dequeue(e, type) ==
  /\ AtSelect(e)
  /\ incoming[e] # <<>>
  /\ Head(incoming[e]).type = type
  /\ incoming' = [incoming EXCEPT ![e] = Tail(@)]
  /\ epochCount' = [epochCount EXCEPT ![e] = 0]

\* A data message with fewer bytes than Size is ignored.
HandleShortData(e) ==
  /\ Dequeue(e, "Data")
  /\ Head(incoming[e]).fit = "short"
  /\ UNCHANGED <<net, sock, id, addr, txVars, rxVars, status, hpc, ackSeq>>

\* c.rbuffer[m.SeqNum] = m.Payload, unless something is stored there already.
SaveData(e, m) ==
  rbuffer' = [rbuffer EXCEPT ![e] =
    IF \E r \in @ : r.seq = m.seq
    THEN @ ELSE @ \cup {[seq |-> m.seq, data |-> m.data, fit |-> m.fit]}]

\* Mutant: the length is not compared with Size.
HandleDataUnchecked(e) ==
  LET m == Head(incoming[e])
  IN /\ Dequeue(e, "Data")
     /\ SaveData(e, m)
     /\ IF m.seq = rsq[e]
        THEN /\ hpc' = [hpc EXCEPT ![e] = "deliver"]
             /\ ackSeq' = [ackSeq EXCEPT ![e] = m.seq]
             /\ UNCHANGED net
        ELSE /\ WriteMessages(e, {NewAck(id[e], m.seq)})
             /\ UNCHANGED <<hpc, ackSeq>>
     /\ UNCHANGED <<sock, id, addr, txVars, rsq, delivered, status>>

\* Any other data message is buffered; the expected one starts the delivery
\* loop, every other one is acknowledged at once.
HandleData(e) ==
  LET m == Head(incoming[e])
  IN /\ Dequeue(e, "Data")
     /\ m.fit # "short"
     /\ SaveData(e, m)
     /\ IF m.seq = rsq[e]
        THEN /\ hpc' = [hpc EXCEPT ![e] = "deliver"]
             /\ ackSeq' = [ackSeq EXCEPT ![e] = m.seq]
             /\ UNCHANGED net
        ELSE /\ WriteMessages(e, {NewAck(id[e], m.seq)})
             /\ UNCHANGED <<hpc, ackSeq>>
     /\ UNCHANGED <<sock, id, addr, txVars, rsq, delivered, status>>

\* Mutant: rsq is not advanced.
DeliverNextStuck(e, r) ==
  /\ hpc[e] = "deliver"
  /\ r \in rbuffer[e]
  /\ r.seq = rsq[e]
  /\ rbuffer' = [rbuffer EXCEPT ![e] = {q \in @ : q.seq # r.seq}]
  /\ delivered' = [delivered EXCEPT ![e] = Append(@, [data |-> r.data, fit |-> r.fit])]
  /\ UNCHANGED <<rsq, net, sock, id, addr, incoming, txVars, ctlVars>>

\* One turn of the delivery loop: the datum with sequence number rsq leaves the
\* buffer; the caller puts it into its rmsg channel.
DeliverNext(e, r) ==
  /\ hpc[e] = "deliver"
  /\ r \in rbuffer[e]
  /\ r.seq = rsq[e]
  /\ rbuffer' = [rbuffer EXCEPT ![e] = {q \in @ : q.seq # r.seq}]
  /\ rsq' = [rsq EXCEPT ![e] = @ + 1]
  /\ delivered' = [delivered EXCEPT ![e] = Append(@, [data |-> r.data, fit |-> r.fit])]
  /\ UNCHANGED <<net, sock, id, addr, incoming, txVars, ctlVars>>

\* The delivery loop ends and the message that started it is acknowledged.
EndDelivery(e) ==
  /\ hpc[e] = "deliver"
  /\ \A r \in rbuffer[e] : r.seq # rsq[e]
  /\ hpc' = [hpc EXCEPT ![e] = "loop"]
  /\ WriteMessages(e, {NewAck(id[e], ackSeq[e])})
  /\ UNCHANGED <<sock, id, addr, incoming, txVars, rxVars, epochCount, status, ackSeq>>

\* Mutant: an acknowledgement also counts for the messages before it.
HandleAckCumulative(e) ==
  /\ Dequeue(e, "Ack")
  /\ tbuffer' = [tbuffer EXCEPT ![e] = {m \in @ : m.seq > Head(incoming[e]).seq}]
  /\ UNCHANGED <<net, sock, addr, tmsg, tsq, written, rxVars, status, hpc, ackSeq>>

\* An acknowledged message is no longer retransmitted.
HandleAck(e) ==
  /\ Dequeue(e, "Ack")
  /\ tbuffer' = [tbuffer EXCEPT ![e] = {m \in @ : m.seq # Head(incoming[e]).seq}]
  /\ UNCHANGED <<net, sock, addr, tmsg, tsq, written, rxVars, status, hpc, ackSeq>>

\* The select's default case sends the next payload if there is one and the
\* window is open; the server's code goes on to look at bcls.
CanTransmit(e) == tmsg[e] # <<>> /\ WindowOpen(e)

Transmit(e) ==
  /\ AtSelect(e)
  /\ incoming[e] = <<>>
  /\ CanTransmit(e)
  /\ LET m == NewData(id[e], tsq[e], Head(tmsg[e]))
     IN /\ tbuffer' = [tbuffer EXCEPT ![e] = @ \cup {m}]
        /\ WriteMessages(e, {m})
  /\ tmsg' = [tmsg EXCEPT ![e] = Tail(@)]
  /\ tsq' = [tsq EXCEPT ![e] = @ + 1]
  /\ UNCHANGED <<sock, id, addr, incoming, written, rxVars, epochCount, hpc, ackSeq>>

\* Mutant: the limit is never noticed.
EpochUnlimited(e, extra) ==
  /\ AtSelect(e)
  /\ epochCount' = [epochCount EXCEPT ![e] = @ + 1]
  /\ WriteMessages(e, extra \cup tbuffer[e])
  /\ UNCHANGED <<sock, id, addr, incoming, txVars, rxVars, status, hpc, ackSeq>>

\* Mutant: nothing is sent again.
EpochSilent(e, extra) ==
  /\ AtSelect(e)
  /\ epochCount[e] + 1 # EpochLimit
  /\ epochCount' = [epochCount EXCEPT ![e] = @ + 1]
  /\ WriteMessages(e, extra)
  /\ UNCHANGED <<sock, id, addr, incoming, txVars, rxVars, status, hpc, ackSeq>>

\* An epoch passes before the limit: everything unacknowledged is sent again,
\* with what the endpoint's own code adds.
Epoch(e, extra) ==
  /\ AtSelect(e)
  /\ epochCount[e] + 1 # EpochLimit
  /\ epochCount' = [epochCount EXCEPT ![e] = @ + 1]
  /\ WriteMessages(e, extra \cup tbuffer[e])
  /\ UNCHANGED <<sock, id, addr, incoming, txVars, rxVars, status, hpc, ackSeq>>

\* No data yet: a heartbeat keeps the peer from giving up.
Heartbeat(e) == IF rsq[e] = 1 /\ rbuffer[e] = {} THEN {NewAck(id[e], 0)} ELSE {}
=============================================================================
