------------------------------ MODULE BtcConn -------------------------------
(***************************************************************************)
(* The connections of the Bitcoin programs, as LSP provides them: a pair   *)
(* of ordered streams per connection, which may break.  Lsp models LSP     *)
(* itself; here is what its users see of it.  Write never returns an       *)
(* error: what is written to a broken connection is dropped.  Read of the  *)
(* server chooses between data and lost connections at random, so the loss *)
(* of a connection may be read before data that arrived earlier.           *)
(***************************************************************************)
EXTENDS Integers, Sequences

CONSTANTS Miners, Clients

Peers == Miners \cup Clients

VARIABLES
  link,      \* link[p]: "none" (not connected yet), "up", "down"
  toServer,  \* toServer[p]: written by p, not yet read by the server
  toPeer,    \* toPeer[p]: written to p by the server, not yet read
  lossRead   \* lossRead[p]: the server has still to read that p is lost

connVars == <<link, toServer, toPeer, lossRead>>

ConnInit ==
  /\ link = [p \in Peers |-> "none"]
  /\ toServer = [p \in Peers |-> <<>>]
  /\ toPeer = [p \in Peers |-> <<>>]
  /\ lossRead = [p \in Peers |-> FALSE]

\* NewClient, and the first message p writes
Connect(p, m) ==
  /\ link[p] = "none"
  /\ link' = [link EXCEPT ![p] = "up"]
  /\ toServer' = [toServer EXCEPT ![p] = <<m>>]
  /\ UNCHANGED <<toPeer, lossRead>>

\* s with m written to p
Written(s, p, m) == IF link[p] = "up" THEN [s EXCEPT ![p] = Append(@, m)] ELSE s

\* p is lost.  What had arrived can still be read, on both sides; the rest is gone.
Break(p) ==
  /\ link[p] = "up"
  /\ link' = [link EXCEPT ![p] = "down"]
  /\ lossRead' = [lossRead EXCEPT ![p] = TRUE]
  /\ \E i \in 0 .. Len(toServer[p]), j \in 0 .. Len(toPeer[p]) :
       /\ toServer' = [toServer EXCEPT ![p] = SubSeq(@, 1, i)]
       /\ toPeer' = [toPeer EXCEPT ![p] = SubSeq(@, 1, j)]
=============================================================================
