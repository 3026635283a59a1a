------------------------------ MODULE BtcMiner ------------------------------
(***************************************************************************)
(* The miner (bitcoin/miner/miner.go): it joins, and then mines one range  *)
(* of nonces after the other with several goroutines.                      *)
(***************************************************************************)
EXTENDS BtcConn

CONSTANTS
  Word,  \* 2^64: nonces are unsigned integers below it
  Hash,  \* Hash[d][n]: the hash of message d and nonce n
  Log    \* Log[x]: math.Floor(math.Log(x)), for x > 0

\* A hash of 0 (one in 2^64) stands for "none yet" in the code, and is left out.
ASSUME MinerAssumption ==
  /\ Word \in Nat \ {0}
  /\ Hash \in [Clients -> [0 .. Word - 1 -> Nat \ {0}]]
  /\ Log \in [1 .. Word - 1 -> Nat]

VARIABLES
  mpc,   \* mpc[m]: "start", "read", "mine", or "dead": the process has ended
  part   \* the request m mines

minerVars == <<mpc, part>>

Unset == [hash |-> 0, nonce |-> 0]
NoPart == [data |-> 0, lower |-> 0, upper |-> 0]

MinerInit ==
  /\ mpc = [m \in Miners |-> "start"]
  /\ part = [m \in Miners |-> NoPart]

Join == [type |-> "Join"]
Request(d, l, u) == [type |-> "Request", data |-> d, lower |-> l, upper |-> u]
Result(h, n) == [type |-> "Result", hash |-> h, nonce |-> n]

\* The range's length, in unsigned arithmetic.
Size(r) == (r.upper - r.lower) % Word

\* w: the number of goroutines.  The logarithm of an empty range is minus infinity, and
\* the loops over w are not entered.
Goroutines(r) == IF Size(r) = 0 THEN 0 ELSE Log[Size(r)]

\* The first nonce of a range with the least hash.
LeastOf(d, range) ==
  IF range = {} THEN Unset
  ELSE LET n == CHOOSE n \in range : \A k \in range :
                  Hash[d][n] < Hash[d][k] \/ (Hash[d][n] = Hash[d][k] /\ n <= k)
       IN [hash |-> Hash[d][n], nonce |-> n]

\* Mutant: the loop stops before upper.
ScanExclusive(d, lower, upper) == LeastOf(d, lower .. upper - 1)

\* What one goroutine finds, from lower to upper inclusive.
Scan(d, lower, upper) == LeastOf(d, lower .. upper)

\* The bounds of goroutine i.
Bound(r, i) == (r.lower + i * (Size(r) \div Goroutines(r))) % Word

\* `minHash == 0 || minHash > hash`, in the miner and in the server
Least(b, r) == IF b.hash = 0 \/ b.hash > r.hash THEN [hash |-> r.hash, nonce |-> r.nonce] ELSE b

\* joinWithServer
MinerJoin(m) ==
  /\ mpc[m] = "start"
  /\ Connect(m, Join)
  /\ mpc' = [mpc EXCEPT ![m] = "read"]
  /\ UNCHANGED part

\* A request is read, and its goroutines are started.  A range of one or two nonces gives
\* w = 0, and the division by w ends the process.
MinerRead(m) ==
  /\ mpc[m] = "read" /\ toPeer[m] # <<>>
  /\ toPeer' = [toPeer EXCEPT ![m] = Tail(@)]
  /\ LET r == Head(toPeer[m]) IN
     /\ part' = [part EXCEPT ![m] = [data |-> r.data, lower |-> r.lower, upper |-> r.upper]]
     /\ mpc' = [mpc EXCEPT ![m] = IF Goroutines(r) = 0 /\ Size(r) # 0 THEN "dead" ELSE "mine"]
  /\ UNCHANGED <<link, toServer, lossRead>>

\* The results of the goroutines have come in, in any order, and the least of them is
\* written.  That of an empty range has hash 0: it replaces the least so far and is
\* replaced by whatever comes next.  A goroutine whose upper bound is the largest number
\* never ends.
MinerReply(m) ==
  LET p == part[m]
      found == {Scan(p.data, Bound(p, i), Bound(p, i + 1)) : i \in 0 .. Goroutines(p) - 1}
  IN
  /\ mpc[m] = "mine"
  /\ \A i \in 1 .. Goroutines(p) : Bound(p, i) # Word - 1
  /\ \E r \in IF found = {} THEN {Unset} ELSE found :
       /\ Unset \notin found => \A q \in found : r.hash <= q.hash
       /\ toServer' = Written(toServer, m, Result(r.hash, r.nonce))
  /\ mpc' = [mpc EXCEPT ![m] = "read"]
  /\ part' = [part EXCEPT ![m] = NoPart]
  /\ UNCHANGED <<link, toPeer, lossRead>>

\* Read returns an error
MinerLost(m) ==
  /\ mpc[m] = "read" /\ link[m] = "down"
  /\ mpc' = [mpc EXCEPT ![m] = "dead"]
  /\ UNCHANGED <<connVars, part>>
=============================================================================
