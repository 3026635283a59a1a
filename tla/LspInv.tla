------------------------------- MODULE LspInv -------------------------------
(***************************************************************************)
(* Inductive invariants of Lsp, from which the safety properties follow.   *)
(***************************************************************************)
EXTENDS Lsp

Elems(s) == {s[k] : k \in 1 .. Len(s)}

-----------------------------------------------------------------------------
(***************************************************************************)
(* Connections: who has which ID.  A client takes its ID from an ack, so   *)
(* every ack on its way to a client names a connection made for it.        *)
(***************************************************************************)
ToClient(c, m) == m.type # "Connect" /\ m.conn \in ConnIDs /\ addr[m.conn] = c

IdOK ==
  /\ \A i \in ConnIDs : id[i] = i
  /\ \A c \in Clients : id[c] # -1 => addr[id[c]] = c

ConnOK ==
  /\ \A i \in ConnIDs : IF i < lastConnID THEN addr[i] \in Clients
                                          ELSE addr[i] = Server /\ hpc[i] = "off"
  /\ \A i \in clients : i < lastConnID
  /\ \A i, j \in clients : addr[i] = addr[j] => i = j
  /\ \A i \in ConnIDs : \A m \in tbuffer[i] : m.type = "Data" /\ m.conn = i

NetRoute == \A p \in net : IF p.to = Server THEN p.from \in Clients ELSE ToClient(p.to, p.msg)

IncomingRoute == \A c \in Clients : \A m \in Elems(incoming[c]) : ToClient(c, m)

SincomingRoute == \A a \in Elems(sincoming) : a.from \in Clients

AppOK ==
  \A c \in Clients : /\ capp[c] = "new" => hpc[c] = "off"
                     /\ capp[c] \notin {"new", "connecting"} => id[c] # -1

ConnInv == IdOK /\ ConnOK /\ NetRoute /\ IncomingRoute /\ SincomingRoute /\ AppOK

-----------------------------------------------------------------------------
(***************************************************************************)
(* Data: wherever a datum with sequence number n is kept on its way to e,  *)
(* it is the n-th payload e's peer accepted, and the peer has sent it.     *)
(***************************************************************************)
Peer(e) == IF e \in Clients THEN id[e] ELSE addr[e]

Linked(e) == IF e \in Clients THEN id[e] # -1 ELSE addr[e] \in Clients /\ id[addr[e]] = e

Sent(e, n, d) == n \in 1 .. (tsq[e] - 1) /\ d = written[e][n]

Sound(e, n, d) == Linked(e) /\ Sent(Peer(e), n, d)

SoundPacket(p) ==
  p.msg.type = "Data" =>
    IF p.to = Server THEN p.msg.conn \in ConnIDs /\ Sound(p.msg.conn, p.msg.seq, p.msg.data)
                     ELSE Sound(p.to, p.msg.seq, p.msg.data)

NetOK == \A p \in net : SoundPacket(p)

SincomingOK ==
  \A a \in Elems(sincoming) : a.msg.type = "Data" =>
     a.msg.conn \in ConnIDs /\ Sound(a.msg.conn, a.msg.seq, a.msg.data)

IncomingOK ==
  \A e \in Endpoints : \A m \in Elems(incoming[e]) :
     m.type = "Data" => Sound(e, m.seq, m.data)

TbufferOK ==
  \A e \in Endpoints : \A m \in tbuffer[e] : m.type = "Data" =>
     Linked(e) /\ m.conn = id[e] /\ Sent(e, m.seq, m.data)

RbufferOK == \A e \in Endpoints : \A r \in rbuffer[e] : Sound(e, r.seq, r.data)

\* tmsg is the rest of written that has no sequence number yet.
Unsent(e) ==
  /\ tsq[e] >= 1
  /\ Len(written[e]) = tsq[e] - 1 + Len(tmsg[e])
  /\ \A k \in 1 .. Len(tmsg[e]) : tmsg[e][k] = written[e][tsq[e] - 1 + k]
  /\ written[e] # <<>> => Linked(e)

TmsgOK == \A e \in Endpoints : Unsent(e)

OutgoingOK == \A w \in Elems(outgoing) : Linked(w.conn)

Delivered(e) ==
  /\ rsq[e] = Len(delivered[e]) + 1
  /\ \A k \in 1 .. Len(delivered[e]) : Sound(e, k, delivered[e][k].data)

DeliveredOK == \A e \in Endpoints : Delivered(e)

DataInv == NetOK /\ SincomingOK /\ IncomingOK /\ TbufferOK /\ RbufferOK /\ TmsgOK /\ OutgoingOK
           /\ DeliveredOK
-----------------------------------------------------------------------------
(***************************************************************************)
(* Acknowledgements: an endpoint that has acknowledged a datum has it, and *)
(* has left the delivery loop the datum started.                           *)
(***************************************************************************)
Acked(e, n) == Has(e, n) /\ (hpc[e] = "deliver" => n # ackSeq[e])

\* What e sent with number n, its peer has acknowledged.
Reached(e, n) == Linked(e) /\ Acked(Peer(e), n)

\* Number 0 is the connect message's, and the heartbeats'.
AckPacket(p) ==
  p.msg.type = "Ack" /\ p.msg.seq # 0 =>
    IF p.to = Server THEN p.msg.conn \in ConnIDs /\ Reached(p.msg.conn, p.msg.seq)
                     ELSE Reached(p.to, p.msg.seq)

NetAcks == \A p \in net : AckPacket(p)

SincomingAcks ==
  \A a \in Elems(sincoming) : a.msg.type = "Ack" /\ a.msg.seq # 0 =>
     a.msg.conn \in ConnIDs /\ Reached(a.msg.conn, a.msg.seq)

IncomingAcks ==
  \A e \in Endpoints : \A m \in Elems(incoming[e]) :
     m.type = "Ack" /\ m.seq # 0 => Reached(e, m.seq)

\* What is not acknowledged is kept; acknowledgements themselves are not.
Kept(e, n) == \E m \in tbuffer[e] : m.seq = n

ForgottenAcks ==
  \A e \in Endpoints : \A n \in 1 .. (tsq[e] - 1) : Kept(e, n) \/ Reached(e, n)

NoAckKept == \A e \in Endpoints : \A m \in tbuffer[e] : m.type # "Ack"

\* The delivery loop runs as long as the next datum is there, and was started by
\* a datum that e has.
DeliveryOK ==
  \A e \in Endpoints : IF hpc[e] = "deliver" THEN ackSeq[e] \in 1 .. rsq[e] /\ Has(e, ackSeq[e])
                                             ELSE \A r \in rbuffer[e] : r.seq # rsq[e]

AckInv == NetAcks /\ SincomingAcks /\ IncomingAcks /\ ForgottenAcks /\ NoAckKept /\ DeliveryOK

-----------------------------------------------------------------------------
(***************************************************************************)
(* Lengths: what is too long is not read, what is too short not buffered.  *)
(***************************************************************************)
IntactInv ==
  /\ \A a \in Elems(sincoming) : a.msg.data \notin Oversize
  /\ \A e \in Endpoints : \A m \in Elems(incoming[e]) : m.data \notin Oversize
  /\ \A e \in Endpoints : \A r \in rbuffer[e] : r.fit # "short" /\ r.data \notin Oversize
  /\ NothingCorrupt

-----------------------------------------------------------------------------
(***************************************************************************)
(* Closing: a handler that has granted a close has nothing left to send,   *)
(* and a client's application has stopped writing by then.                 *)
(***************************************************************************)
Drained == \A e \in Endpoints : hpc[e] = "done" => tbuffer[e] = {}

Quit ==
  \A c \in Clients :
    /\ status[c] = "startClosing" \/ hpc[c] = "done" => capp[c] \in {"closing", "closed"}
    /\ hpc[c] = "done" => tmsg[c] = <<>>

CloseInv == Drained /\ Quit

\* Without CloseConn only a handleClient that has ended asks handle to forget it.
WaitInv ==
  /\ \A i \in ConnIDs : hpc[i] \in {"loop", "deliver"} => i \in clients
  /\ \A i \in Elems(cls) : hpc[i] \in {"report", "done", "lost"}
  /\ shandle = "dead" => clients = {}
=============================================================================
