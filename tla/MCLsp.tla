------------------------------- MODULE MCLsp -------------------------------
(***************************************************************************)
(* Instances of Lsp for TLC.                                               *)
(***************************************************************************)
EXTENDS Lsp, TLC

CONSTANTS c1, c2, p1, p2

PayloadSymmetry == Permutations({p1, p2})

ClientSymmetry == Permutations({c1, c2})

\* The data packets a client can send.
DataPackets ==
  {[from |-> c, to |-> Server, msg |-> NewData(i, n, p)] :
     c \in Clients, i \in ConnIDs, n \in 1 .. MaxClientWrites, p \in Payload}

FairSpec ==
  /\ Spec
  /\ \A c \in Clients : ClientFairness(c)
  /\ \A i \in ConnIDs : ConnFairness(i)
  /\ ServerFairness
  /\ \A p \in DataPackets : FairLoss(p)

\* Everything a client writes is delivered to the server's application, unless one
\* of the two ends gives the connection up.
Delivery ==
  \A c \in Clients : \A k \in 1 .. MaxClientWrites :
     Len(written[c]) >= k ~> \/ id[c] # -1 /\ Len(delivered[id[c]]) >= k
                             \/ hpc[c] = "lost"
                             \/ id[c] # -1 /\ hpc[id[c]] \in {"report", "lost"}
=============================================================================
