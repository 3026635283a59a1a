----------------------------- MODULE LspServer -----------------------------
(***************************************************************************)
(* The LSP server (server_impl.go): the application's calls, the receiver, *)
(* the handle goroutine that routes between the channels, and one          *)
(* handleClient goroutine per connection.                                  *)
(***************************************************************************)
EXTENDS LspEndpoint

CONSTANTS
  ServerCap,        \* capacity of the server's incoming (10000)
  OutgoingCap,      \* capacity of the server's outgoing (10000)
  ServerRmsgCap,    \* capacity of the server's rmsg (10000)
  ErrCap,           \* capacity of the server's cls and err channels (1024)
  MaxServerWrites,  \* bound: Write calls to one connection
  ServerOps         \* which of "CloseConn" and "Close" the application calls

ASSUME ServerAssumption ==
  /\ ServerCap \in Nat
  /\ OutgoingCap \in Nat
  /\ ServerRmsgCap \in Nat \ {0}
  /\ ErrCap \in Nat \ {0}
  /\ MaxServerWrites \in Nat
  /\ ServerOps \subseteq {"CloseConn", "Close"}

VARIABLES
  clients,     \* keys of the map s.clients
  lastConnID,  \* the ID of the next connection
  sincoming,   \* packets queued for handle
  outgoing,    \* writes queued for handle
  srmsg,       \* data waiting for Read
  serr,        \* loss reports waiting for Read
  cls,         \* connection IDs queued to be closed
  bcls,        \* the broadcast channel has been closed
  sstatus,     \* the server's status monitor
  sapp,        \* the application: open, closing, closed
  shandle,     \* the handle goroutine: run, dead
  sreceiver    \* the receiver goroutine: run, dead

serverVars == <<clients, lastConnID, sincoming, outgoing, srmsg, serr, cls, bcls,
                sstatus, sapp, shandle, sreceiver>>

ServerTypeOK ==
  /\ clients \subseteq ConnIDs
  /\ lastConnID \in FirstConnID .. (FirstConnID + MaxConns)
  /\ sincoming \in Seq([from: Clients \cup {Server}, msg: Message])
  /\ outgoing \in Seq([conn: ConnIDs, data: Payload])
  /\ srmsg \in Seq([conn: ConnIDs, data: Payload, fit: Fit])
  /\ serr \in Seq(ConnIDs)
  /\ cls \in Seq(ConnIDs)
  /\ bcls \in BOOLEAN
  /\ sstatus \in Status
  /\ sapp \in {"open", "closing", "closed"}
  /\ shandle \in {"run", "dead"}
  /\ sreceiver \in {"run", "dead"}

ServerInit ==
  /\ clients = {}
  /\ lastConnID = FirstConnID
  /\ sincoming = <<>>
  /\ outgoing = <<>>
  /\ srmsg = <<>>
  /\ serr = <<>>
  /\ cls = <<>>
  /\ bcls = FALSE
  /\ sstatus = "notClosing"
  /\ sapp = "open"
  /\ shandle = "run"
  /\ sreceiver = "run"

-----------------------------------------------------------------------------
\* The application.  It knows a connection ID from Read or from the client's
\* ConnID, so some client holds it.
Known(i) == \E c \in Clients : id[c] = i

\* A Write to a full outgoing channel blocks the application.
ServerAppReady == sapp = "open" /\ Len(outgoing) <= OutgoingCap

\* Read selects between rmsg and err; either ready case may be taken.
ServerReadData ==
  /\ ServerAppReady
  /\ srmsg # <<>>
  /\ srmsg' = Tail(srmsg)
  /\ UNCHANGED <<endpointVars, clients, lastConnID, sincoming, outgoing, serr, cls, bcls,
                 sstatus, sapp, shandle, sreceiver>>

ServerReadError ==
  /\ ServerAppReady
  /\ serr # <<>>
  /\ serr' = Tail(serr)
  /\ UNCHANGED <<endpointVars, clients, lastConnID, sincoming, outgoing, srmsg, cls, bcls,
                 sstatus, sapp, shandle, sreceiver>>

ServerWrite(i, p) ==
  /\ ServerAppReady
  /\ Known(i)
  /\ Len(written[i]) + Len(outgoing) < MaxServerWrites
  /\ outgoing' = Append(outgoing, [conn |-> i, data |-> p])
  /\ UNCHANGED <<endpointVars, clients, lastConnID, sincoming, srmsg, serr, cls, bcls,
                 sstatus, sapp, shandle, sreceiver>>

CloseConn(i) ==
  /\ "CloseConn" \in ServerOps
  /\ ServerAppReady
  /\ Known(i)
  /\ Len(cls) < ErrCap
  /\ cls' = Append(cls, i)
  /\ UNCHANGED <<endpointVars, clients, lastConnID, sincoming, outgoing, srmsg, serr, bcls,
                 sstatus, sapp, shandle, sreceiver>>

\* Mutant: Close hands a connection to cls itself.
ServerCloseAtOnce ==
  /\ "Close" \in ServerOps
  /\ ServerAppReady
  /\ sapp' = "closing"
  /\ sstatus' = "startClosing"
  /\ bcls' = TRUE
  /\ cls' = IF clients = {} THEN cls ELSE Append(cls, CHOOSE i \in clients : TRUE)
  /\ UNCHANGED <<endpointVars, clients, lastConnID, sincoming, outgoing, srmsg, serr,
                 shandle, sreceiver>>

ServerClose ==
  /\ "Close" \in ServerOps
  /\ ServerAppReady
  /\ sapp' = "closing"
  /\ sstatus' = "startClosing"
  /\ bcls' = TRUE
  /\ UNCHANGED <<endpointVars, clients, lastConnID, sincoming, outgoing, srmsg, serr, cls,
                 shandle, sreceiver>>

ServerCloseSocket ==
  /\ sapp = "closing"
  /\ sstatus = "handlerClosed"
  /\ sock[Server] = "open"
  /\ sock' = [sock EXCEPT ![Server] = "closed"]
  /\ UNCHANGED <<net, id, addr, incoming, txVars, rxVars, ctlVars, serverVars>>

ServerCloseReturns ==
  /\ sapp = "closing"
  /\ sstatus = "connectionClosed"
  /\ sapp' = "closed"
  /\ UNCHANGED <<endpointVars, clients, lastConnID, sincoming, outgoing, srmsg, serr, cls,
                 bcls, sstatus, shandle, sreceiver>>

-----------------------------------------------------------------------------
\* The receiver: like the client's, but an error it was not told to expect only
\* makes it read again, so a packet that does not parse is as good as lost.
ServerReceiverReady == sreceiver = "run" /\ Len(sincoming) <= ServerCap

ServerReceive(p) ==
  /\ ServerReceiverReady
  /\ sock[Server] = "open"
  /\ p \in net
  /\ p.to = Server
  /\ p.msg.data \notin Oversize
  /\ Consume(p)
  /\ \E m \in Received(p) : sincoming' = Append(sincoming, [from |-> p.from, msg |-> m])
  /\ UNCHANGED <<sock, id, addr, incoming, txVars, rxVars, ctlVars, clients, lastConnID, outgoing,
                 srmsg, serr, cls, bcls, sstatus, sapp, shandle, sreceiver>>

ServerSocketClosed ==
  /\ ServerReceiverReady
  /\ sock[Server] = "closed"
  /\ sstatus = "handlerClosed"
  /\ sstatus' = "connectionClosed"
  /\ sreceiver' = "dead"
  /\ UNCHANGED <<endpointVars, clients, lastConnID, sincoming, outgoing, srmsg, serr, cls,
                 bcls, sapp, shandle>>

-----------------------------------------------------------------------------
\* handle.  A send to a connection's full incoming or tmsg channel blocks it:
\* the element waits in that channel's overflow slot and nothing else is routed.
HandleReady ==
  /\ shandle = "run"
  /\ \A i \in ConnIDs : Len(incoming[i]) <= IncomingCap /\ Len(tmsg[i]) <= TmsgCap

Arrived(type) ==
  /\ HandleReady
  /\ sincoming # <<>>
  /\ (Head(sincoming).msg.type = "Connect") = (type = "Connect")
  /\ sincoming' = Tail(sincoming)

\* A connect from an address that has a connection is ignored; the heartbeats of
\* its handleClient repeat the acknowledgement.
HandleDuplicateConnect ==
  /\ Arrived("Connect")
  /\ \E i \in clients : addr[i] = Head(sincoming).from
  /\ UNCHANGED <<endpointVars, clients, lastConnID, outgoing, srmsg, serr, cls, bcls,
                 sstatus, sapp, shandle, sreceiver>>

\* Mutant: a repeated connect makes another connection.
HandleConnectAgain ==
  LET i == lastConnID
      a == Head(sincoming).from
  IN /\ Arrived("Connect")
     /\ i \in ConnIDs
     /\ clients' = clients \cup {i}
     /\ lastConnID' = i + 1
     /\ addr' = [addr EXCEPT ![i] = a]
     /\ hpc' = [hpc EXCEPT ![i] = "loop"]
     /\ epochCount' = [epochCount EXCEPT ![i] = 0]
     /\ net' = net \cup {[from |-> Server, to |-> a, msg |-> NewAck(i, 0)]}
     /\ UNCHANGED <<sock, id, incoming, txVars, rxVars, status, ackSeq,
                    outgoing, srmsg, serr, cls, bcls, sstatus, sapp, shandle, sreceiver>>

\* The new connection takes the next ID, and its first acknowledgement tells the
\* client.
HandleConnect ==
  LET i == lastConnID
      a == Head(sincoming).from
  IN /\ Arrived("Connect")
     /\ \A j \in clients : addr[j] # a
     /\ i \in ConnIDs
     /\ clients' = clients \cup {i}
     /\ lastConnID' = i + 1
     /\ addr' = [addr EXCEPT ![i] = a]
     /\ hpc' = [hpc EXCEPT ![i] = "loop"]
     /\ epochCount' = [epochCount EXCEPT ![i] = 0]
     /\ net' = net \cup {[from |-> Server, to |-> a, msg |-> NewAck(i, 0)]}
     /\ UNCHANGED <<sock, id, incoming, txVars, rxVars, status, ackSeq,
                    outgoing, srmsg, serr, cls, bcls, sstatus, sapp, shandle, sreceiver>>

\* Data and acks go to the connection they name, if it is still in the map.
HandleRoute ==
  LET m == Head(sincoming).msg
  IN /\ Arrived("other")
     /\ incoming' = IF m.conn \in clients
                    THEN [incoming EXCEPT ![m.conn] = Append(@, m)] ELSE incoming
     /\ UNCHANGED <<net, sock, id, addr, txVars, rxVars, ctlVars, clients, lastConnID, outgoing,
                    srmsg, serr, cls, bcls, sstatus, sapp, shandle, sreceiver>>

HandleOutgoing ==
  LET w == Head(outgoing)
  IN /\ HandleReady
     /\ outgoing # <<>>
     /\ outgoing' = Tail(outgoing)
     /\ IF w.conn \in clients
        THEN /\ tmsg' = [tmsg EXCEPT ![w.conn] = Append(@, w.data)]
             /\ written' = [written EXCEPT ![w.conn] = Append(@, w.data)]
        ELSE UNCHANGED <<tmsg, written>>
     /\ UNCHANGED <<net, sock, id, addr, incoming, tbuffer, tsq, rxVars, ctlVars, clients, lastConnID,
                    sincoming, srmsg, serr, cls, bcls, sstatus, sapp, shandle, sreceiver>>

\* A connection leaves the map; when the last one has left a closing server,
\* handle returns.
HandleCls ==
  LET i == Head(cls)
  IN /\ HandleReady
     /\ cls # <<>>
     /\ cls' = Tail(cls)
     /\ clients' = clients \ {i}
     /\ status' = IF i \in clients /\ status[i] = "notClosing"
                  THEN [status EXCEPT ![i] = "startClosing"] ELSE status
     /\ IF clients' = {} /\ sstatus = "startClosing"
        THEN sstatus' = "handlerClosed" /\ shandle' = "dead"
        ELSE UNCHANGED <<sstatus, shandle>>
     /\ UNCHANGED <<net, sock, id, addr, incoming, txVars, rxVars, epochCount, hpc, ackSeq, lastConnID,
                    sincoming, outgoing, srmsg, serr, bcls, sapp, sreceiver>>

-----------------------------------------------------------------------------
\* handleClient, for the connection i.
ConnExit(i) ==
  /\ hpc[i] = "loop"
  /\ CloseReady(i)
  /\ Len(cls) < ErrCap
  /\ status' = [status EXCEPT ![i] = "handlerClosed"]
  /\ cls' = Append(cls, i)
  /\ hpc' = [hpc EXCEPT ![i] = "done"]
  /\ UNCHANGED <<net, sock, id, addr, incoming, txVars, rxVars, epochCount, ackSeq, clients, lastConnID,
                 sincoming, outgoing, srmsg, serr, bcls, sstatus, sapp, shandle, sreceiver>>

ConnShortData(i) == HandleShortData(i) /\ UNCHANGED serverVars

ConnData(i) == HandleData(i) /\ UNCHANGED serverVars

ConnDeliver(i) ==
  /\ Len(srmsg) < ServerRmsgCap
  /\ \E r \in rbuffer[i] :
       /\ DeliverNext(i, r)
       /\ srmsg' = Append(srmsg, [conn |-> i, data |-> r.data, fit |-> r.fit])
  /\ UNCHANGED <<clients, lastConnID, sincoming, outgoing, serr, cls, bcls,
                 sstatus, sapp, shandle, sreceiver>>

ConnEndDelivery(i) == EndDelivery(i) /\ UNCHANGED serverVars

ConnAck(i) == HandleAck(i) /\ UNCHANGED <<id, serverVars>>

ConnEpoch(i) == Epoch(i, Heartbeat(i)) /\ UNCHANGED serverVars

\* The connection is lost: s.cls first, then s.err.
ConnTimeout(i) ==
  /\ hpc[i] = "loop"
  /\ epochCount[i] + 1 = EpochLimit
  /\ Len(cls) < ErrCap
  /\ epochCount' = [epochCount EXCEPT ![i] = @ + 1]
  /\ cls' = Append(cls, i)
  /\ hpc' = [hpc EXCEPT ![i] = "report"]
  /\ UNCHANGED <<net, sock, id, addr, incoming, txVars, rxVars, status, ackSeq, clients, lastConnID,
                 sincoming, outgoing, srmsg, serr, bcls, sstatus, sapp, shandle, sreceiver>>

ConnReport(i) ==
  /\ hpc[i] = "report"
  /\ Len(serr) < ErrCap
  /\ serr' = Append(serr, i)
  /\ status' = [status EXCEPT ![i] = "handlerClosed"]
  /\ hpc' = [hpc EXCEPT ![i] = "lost"]
  /\ UNCHANGED <<net, sock, id, addr, incoming, txVars, rxVars, epochCount, ackSeq, clients, lastConnID,
                 sincoming, outgoing, srmsg, cls, bcls, sstatus, sapp, shandle, sreceiver>>

\* The default case ends with a look at the broadcast channel.
SeeBroadcast(i) ==
  status' = IF bcls /\ status[i] = "notClosing"
            THEN [status EXCEPT ![i] = "startClosing"] ELSE status

ConnTransmit(i) == Transmit(i) /\ SeeBroadcast(i) /\ UNCHANGED serverVars

ConnIdle(i) ==
  /\ AtSelect(i)
  /\ incoming[i] = <<>>
  /\ ~CanTransmit(i)
  /\ bcls /\ status[i] = "notClosing"
  /\ SeeBroadcast(i)
  /\ UNCHANGED <<net, sock, id, addr, incoming, txVars, rxVars, epochCount, hpc, ackSeq, serverVars>>

-----------------------------------------------------------------------------
ServerAppStep ==
  \/ ServerReadData
  \/ ServerReadError
  \/ \E i \in ConnIDs, p \in Payload : ServerWrite(i, p)
  \/ \E i \in ConnIDs : CloseConn(i)
  \/ ServerClose
  \/ ServerCloseSocket
  \/ ServerCloseReturns

ServerReceiverStep == (\E p \in net : ServerReceive(p)) \/ ServerSocketClosed

HandleStep ==
  \/ HandleDuplicateConnect
  \/ HandleConnect
  \/ HandleRoute
  \/ HandleOutgoing
  \/ HandleCls

ConnStep(i) ==
  \/ ConnExit(i)
  \/ ConnShortData(i)
  \/ ConnData(i)
  \/ ConnDeliver(i)
  \/ ConnEndDelivery(i)
  \/ ConnAck(i)
  \/ ConnEpoch(i)
  \/ ConnTimeout(i)
  \/ ConnReport(i)
  \/ ConnTransmit(i)
  \/ ConnIdle(i)
=============================================================================
