----------------------------- MODULE LspClient -----------------------------
(***************************************************************************)
(* The LSP client (client_impl.go): the application's calls, the receiver  *)
(* goroutine and the handler goroutine.                                    *)
(***************************************************************************)
EXTENDS LspEndpoint

CONSTANTS
  RmsgCap,          \* capacity of the client's rmsg channel (1000)
  MaxClientWrites,  \* bound: Write calls of one client
  ClientsClose      \* TRUE: the applications may call Client.Close

ASSUME ClientAssumption ==
  /\ RmsgCap \in Nat \ {0}
  /\ MaxClientWrites \in Nat
  /\ ClientsClose \in BOOLEAN

VARIABLES
  capp,       \* where the application's goroutine is
  rmsg,       \* data waiting for Read
  cerr,       \* the err channel (capacity 1) holds the loss report
  creceiver   \* the receiver goroutine: off, run, dead

clientVars == <<capp, rmsg, cerr, creceiver>>

ClientApp == {"new",         \* NewClient not called
              "connecting",  \* in NewClient, waiting for statusSignal
              "open",        \* NewClient has returned
              "closeSet",    \* in Close, between status.get and status.set
              "closing",     \* in Close's loop
              "closed"}      \* Close has returned

ClientTypeOK ==
  /\ capp \in [Clients -> ClientApp]
  /\ rmsg \in [Clients -> Seq([data: Payload, fit: Fit])]
  /\ cerr \in [Clients -> BOOLEAN]
  /\ creceiver \in [Clients -> {"off", "run", "dead"}]

ClientInit ==
  /\ capp = [c \in Clients |-> "new"]
  /\ rmsg = [c \in Clients |-> <<>>]
  /\ cerr = [c \in Clients |-> FALSE]
  /\ creceiver = [c \in Clients |-> "off"]

-----------------------------------------------------------------------------
\* The application.  A Write to a full tmsg blocks: the payload is in the
\* queue's overflow slot and the application cannot go on.
Blocked(c) == Len(tmsg[c]) > TmsgCap

NewClient(c) ==
  /\ capp[c] = "new"
  /\ capp' = [capp EXCEPT ![c] = "connecting"]
  /\ tbuffer' = [tbuffer EXCEPT ![c] = {NewConnect}]
  /\ WriteMessages(c, {NewConnect})
  /\ hpc' = [hpc EXCEPT ![c] = "loop"]
  /\ epochCount' = [epochCount EXCEPT ![c] = 0]
  /\ creceiver' = [creceiver EXCEPT ![c] = "run"]
  /\ UNCHANGED <<sock, id, addr, incoming, tmsg, tsq, written, rxVars, status, ackSeq,
                 rmsg, cerr>>

\* statusSignal is closed when the handler has set c.id.
NewClientReturns(c) ==
  /\ capp[c] = "connecting"
  /\ id[c] # -1
  /\ capp' = [capp EXCEPT ![c] = "open"]
  /\ UNCHANGED <<endpointVars, rmsg, cerr, creceiver>>

\* Read selects between rmsg and err; either ready case may be taken.
ClientReadData(c) ==
  /\ capp[c] = "open"
  /\ ~Blocked(c)
  /\ rmsg[c] # <<>>
  /\ rmsg' = [rmsg EXCEPT ![c] = Tail(@)]
  /\ UNCHANGED <<endpointVars, capp, cerr, creceiver>>

ClientReadError(c) ==
  /\ capp[c] = "open"
  /\ ~Blocked(c)
  /\ cerr[c]
  /\ cerr' = [cerr EXCEPT ![c] = FALSE]
  /\ UNCHANGED <<endpointVars, capp, rmsg, creceiver>>

ClientWrite(c, p) ==
  /\ capp[c] = "open"
  /\ ~Blocked(c)
  /\ Len(written[c]) < MaxClientWrites
  /\ tmsg' = [tmsg EXCEPT ![c] = Append(@, p)]
  /\ written' = [written EXCEPT ![c] = Append(@, p)]
  /\ UNCHANGED <<net, sock, id, addr, incoming, tbuffer, tsq, rxVars, ctlVars, clientVars>>

\* Close reads the status and sets it in two critical sections.
ClientCloseGet(c) ==
  /\ ClientsClose
  /\ capp[c] = "open"
  /\ ~Blocked(c)
  /\ capp' = [capp EXCEPT ![c] = IF status[c] = "notClosing" THEN "closeSet" ELSE "closing"]
  /\ UNCHANGED <<endpointVars, rmsg, cerr, creceiver>>

ClientCloseSet(c) ==
  /\ capp[c] = "closeSet"
  /\ status' = [status EXCEPT ![c] = "startClosing"]
  /\ capp' = [capp EXCEPT ![c] = "closing"]
  /\ UNCHANGED <<net, sock, id, addr, incoming, txVars, rxVars, epochCount, hpc, ackSeq,
                 rmsg, cerr, creceiver>>

ClientCloseSocket(c) ==
  /\ capp[c] = "closing"
  /\ status[c] = "handlerClosed"
  /\ sock[c] = "open"
  /\ sock' = [sock EXCEPT ![c] = "closed"]
  /\ UNCHANGED <<net, id, addr, incoming, txVars, rxVars, ctlVars, clientVars>>

ClientCloseReturns(c) ==
  /\ capp[c] = "closing"
  /\ status[c] = "connectionClosed"
  /\ status' = [status EXCEPT ![c] = "closed"]
  /\ capp' = [capp EXCEPT ![c] = "closed"]
  /\ UNCHANGED <<net, sock, id, addr, incoming, txVars, rxVars, epochCount, hpc, ackSeq,
                 rmsg, cerr, creceiver>>

-----------------------------------------------------------------------------
\* The receiver.  With incoming full it reads one more packet and then blocks
\* in the send, the message waiting in the overflow slot.
ReceiverReady(c) == creceiver[c] = "run" /\ Len(incoming[c]) <= IncomingCap

ClientReceive(c, p) ==
  /\ ReceiverReady(c)
  /\ sock[c] = "open"
  /\ p \in net
  /\ p.to = c
  /\ p.msg.data \notin Oversize
  /\ Consume(p)
  /\ \E m \in Received(p) : incoming' = [incoming EXCEPT ![c] = Append(@, m)]
  /\ UNCHANGED <<sock, id, addr, txVars, rxVars, ctlVars, clientVars>>

\* An error from ReadMessage ends the receiver of a connected client; before
\* that it only makes the receiver read again.
ReceiverError(c) ==
  /\ ReceiverReady(c)
  /\ id[c] > 0
  /\ creceiver' = [creceiver EXCEPT ![c] = "dead"]
  /\ status' = [status EXCEPT ![c] = "connectionClosed"]
  /\ UNCHANGED <<sock, id, addr, incoming, txVars, rxVars, epochCount, hpc, ackSeq,
                 capp, rmsg, cerr>>

\* The error has one of three causes: Close has closed the socket, a packet too
\* long for the buffer does not parse, or the operating system reports that
\* nobody listens on the server's port.
ClientSocketClosed(c) == sock[c] = "closed" /\ ReceiverError(c) /\ UNCHANGED net

ClientOversize(c, p) ==
  /\ sock[c] = "open"
  /\ p \in net
  /\ p.to = c
  /\ p.msg.data \in Oversize
  /\ Consume(p)
  /\ ReceiverError(c)

ClientRefused(c) ==
  /\ sock[c] = "open"
  /\ sock[Server] = "closed"
  /\ ReceiverError(c)
  /\ UNCHANGED net

-----------------------------------------------------------------------------
\* The handler.
ClientHandlerExit(c) ==
  /\ hpc[c] = "loop"
  /\ CloseReady(c)
  /\ status' = [status EXCEPT ![c] = "handlerClosed"]
  /\ hpc' = [hpc EXCEPT ![c] = "done"]
  /\ UNCHANGED <<net, sock, id, addr, incoming, txVars, rxVars, epochCount, ackSeq, clientVars>>

ClientShortData(c) == HandleShortData(c) /\ UNCHANGED clientVars

ClientData(c) == HandleData(c) /\ UNCHANGED clientVars

ClientDeliver(c) ==
  /\ Len(rmsg[c]) < RmsgCap
  /\ \E r \in rbuffer[c] :
       /\ DeliverNext(c, r)
       /\ rmsg' = [rmsg EXCEPT ![c] = Append(@, [data |-> r.data, fit |-> r.fit])]
  /\ UNCHANGED <<capp, cerr, creceiver>>

ClientEndDelivery(c) == EndDelivery(c) /\ UNCHANGED clientVars

\* The acknowledgement of the connect message carries the connection ID.
ClientAck(c) ==
  /\ HandleAck(c)
  /\ id' = IF /\ id[c] = -1
              /\ \E m \in tbuffer[c] : m.type = "Connect" /\ m.seq = Head(incoming[c]).seq
           THEN [id EXCEPT ![c] = Head(incoming[c]).conn]
           ELSE id
  /\ UNCHANGED clientVars

ClientEpoch(c) ==
  /\ Epoch(c, IF id[c] = -1 THEN {NewConnect} ELSE Heartbeat(c))
  /\ UNCHANGED clientVars

\* The connection is lost.  The timer may win even when a close requested after
\* the check at the top of the loop could be granted.
ClientLost(c) ==
  /\ hpc[c] = "loop"
  /\ epochCount[c] + 1 = EpochLimit
  /\ epochCount' = [epochCount EXCEPT ![c] = @ + 1]
  /\ cerr' = [cerr EXCEPT ![c] = TRUE]
  /\ status' = [status EXCEPT ![c] = "handlerClosed"]
  /\ hpc' = [hpc EXCEPT ![c] = "lost"]
  /\ UNCHANGED <<net, sock, id, addr, incoming, txVars, rxVars, ackSeq,
                 capp, rmsg, creceiver>>

ClientTransmit(c) == Transmit(c) /\ UNCHANGED <<status, clientVars>>

-----------------------------------------------------------------------------
ClientAppStep(c) ==
  \/ NewClient(c)
  \/ NewClientReturns(c)
  \/ ClientReadData(c)
  \/ ClientReadError(c)
  \/ \E p \in Payload : ClientWrite(c, p)
  \/ ClientCloseGet(c)
  \/ ClientCloseSet(c)
  \/ ClientCloseSocket(c)
  \/ ClientCloseReturns(c)

ClientReceiverStep(c) ==
  \/ \E p \in net : ClientReceive(c, p)
  \/ ClientSocketClosed(c)
  \/ \E p \in net : ClientOversize(c, p)
  \/ ClientRefused(c)

ClientHandlerStep(c) ==
  \/ ClientHandlerExit(c)
  \/ ClientShortData(c)
  \/ ClientData(c)
  \/ ClientDeliver(c)
  \/ ClientEndDelivery(c)
  \/ ClientAck(c)
  \/ ClientEpoch(c)
  \/ ClientLost(c)
  \/ ClientTransmit(c)
=============================================================================
