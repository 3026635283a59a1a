--------------------------- MODULE BitcoinProofs ---------------------------
(***************************************************************************)
(* Proofs about the Bitcoin system, for every finite set of miners, any    *)
(* clients, ranges and hashes, and connections that break at any time.     *)
(* Inv relates the scheduler's tables to each other; Work, which rests on  *)
(* it, follows each part of a request to a miner and back.                 *)
(***************************************************************************)
EXTENDS Bitcoin, SequenceTheorems, FiniteSetTheorems, WellFoundedInduction, TLAPS

-----------------------------------------------------------------------------
(* The inductive invariant *)

RequestMsg == [type : {"Request"}, data : Clients, lower : Nonce, upper : Nonce]
ResultMsg == [type : {"Result"}, hash : Nat, nonce : Nonce]

\* What the server writes to p.
Answer(p) == IF p \in Miners THEN RequestMsg ELSE ResultMsg

LinkTypes == link \in [Peers -> {"none", "up", "down"}] /\ lossRead \in [Peers -> BOOLEAN]
InTypes == toServer = [p \in Peers |-> toServer[p]] /\ \A p \in Peers : toServer[p] \in Seq(Message(p))
OutTypes == toPeer = [p \in Peers |-> toPeer[p]] /\ \A p \in Peers : toPeer[p] \in Seq(Answer(p))

ConnTypes == LinkTypes /\ InTypes /\ OutTypes

MinerTypes ==
  /\ mpc \in [Miners -> {"start", "read", "mine", "dead"}]
  /\ part = [m \in Miners |-> part[m]]
  /\ \A m \in Miners : mpc[m] = "mine" => part[m] \in [data : Clients, lower : Nonce, upper : Nonce]

ChanTypes ==
  /\ joins \in Seq(Miners) /\ requests \in Seq([id : Clients, upper : Nonce])
  /\ results \in Seq([id : Miners, hash : Nat, nonce : Nonce]) /\ errors \in Seq(Peers)

Asked == [id : Clients, upper : Nonce]
Reported == [id : Miners, hash : Nat, nonce : Nonce]
Assigned == [client : Clients \cup {Nobody}, lower : Nonce, upper : Nonce]
Task == [lost : BOOLEAN, min : Finding, miners : Nat \ {0}]

SchedTypes ==
  /\ trigger \in 0 .. ChanCap
  /\ freeMiners \in Seq(Miners) /\ pendingRequests \in Seq(Part)
  /\ miners \in [Miners -> {NoTask} \cup Assigned]
  /\ tasks \in [Clients -> {NoTask} \cup Task]

ClientTypes ==
  /\ cpc \in [Clients -> {"start", "waiting", "answered", "disconnected"}]
  /\ asked \in [Clients -> Nonce] /\ answer \in [Clients -> Finding]

Types == ConnTypes /\ MinerTypes /\ ChanTypes /\ SchedTypes /\ ClientTypes

Elements(s) == {s[i] : i \in 1 .. Len(s)}

Distinct(s) == \A i, j \in 1 .. Len(s) : s[i] = s[j] => i = j

\* A miner that is not connected, whose Join was not read, or whose Join was not handled,
\* is not known to the scheduler, and it is in one of these states at a time.
JoinsOnce ==
  /\ Distinct(joins)
  /\ \A m \in Miners :
       /\ link[m] = "none" => toServer[m] = <<>> /\ m \notin Elements(joins) /\ miners[m] = NoTask
       /\ \A i \in 1 .. Len(toServer[m]) :
            toServer[m][i].type = "Join" => i = 1 /\ m \notin Elements(joins) /\ miners[m] = NoTask
       /\ m \in Elements(joins) => miners[m] = NoTask

\* The clients whose request waits in its channel.
Askers == {requests[i].id : i \in 1 .. Len(requests)}

\* Likewise, a client asks once.
AsksOnce ==
  /\ \A i, j \in 1 .. Len(requests) : requests[i].id = requests[j].id => i = j
  /\ \A c \in Clients :
       /\ link[c] = "none" => toServer[c] = <<>> /\ c \notin Askers /\ tasks[c] = NoTask
       /\ Len(toServer[c]) <= 1
       /\ toServer[c] # <<>> => c \notin Askers /\ tasks[c] = NoTask
       /\ c \in Askers => tasks[c] = NoTask

\* What the scheduler's own variables say of each other.
Plan == FreeListExact /\ PartsConserved /\ Awake

Inv == Types /\ JoinsOnce /\ AsksOnce /\ Plan

-----------------------------------------------------------------------------
(* Functions, sequences and numbers *)

LEMMA Changed ==
  ASSUME NEW P, NEW f, f = [q \in P |-> f[q]], NEW p \in P, NEW s, NEW g, g = [f EXCEPT ![p] = s]
  PROVE  g = [q \in P |-> g[q]] /\ \A q \in P : g[q] = IF q = p THEN s ELSE f[q]
<1>1. DOMAIN f = P
  OBVIOUS
<1>2. \A q \in P : g[q] = IF q = p THEN s ELSE f[q]
  BY <1>1
<1>3. g = [q \in P |-> IF q = p THEN s ELSE f[q]]
  BY <1>1
<1> QED BY <1>2, <1>3

LEMMA LeastNumber == ASSUME NEW T, T \subseteq Nat, T # {} PROVE \E x \in T : \A y \in T : x <= y
<1>1. IsWellFoundedOn(OpToRel(<, Nat), Nat)
  BY NatLessThanWellFounded
<1>2. PICK x \in T : \A y \in T : ~(<<y, x>> \in OpToRel(<, Nat))
  BY <1>1, WFMin
<1>3. OpToRel(<, Nat) = {r \in Nat \X Nat : r[1] < r[2]}
  BY DEF OpToRel
<1>4. \A y \in T : ~(y < x)
  BY <1>2, <1>3
<1> QED BY <1>4

LEMMA Mod == ASSUME NEW a \in Int, MinerAssumption PROVE a % Word \in Nonce
BY DEF MinerAssumption, Nonce

LEMMA Div == ASSUME NEW a \in Nat, NEW b \in Nat \ {0} PROVE a \div b \in Nat
OBVIOUS

\* Removing the first element of a sequence, and adding one at either end.
LEMMA TailSeq ==
  ASSUME NEW S, NEW s \in Seq(S), s # <<>>
  PROVE  /\ Head(s) \in S /\ Tail(s) \in Seq(S) /\ Len(s) \in Nat /\ Len(s) > 0
         /\ Head(s) = s[1] /\ Len(Tail(s)) = Len(s) - 1
         /\ \A i \in 1 .. Len(Tail(s)) : i + 1 \in 1 .. Len(s) /\ Tail(s)[i] = s[i + 1]
         /\ Elements(s) = {Head(s)} \cup Elements(Tail(s))
         /\ Distinct(s) => Distinct(Tail(s)) /\ Head(s) \notin Elements(Tail(s))
<1>1. /\ Head(s) \in S /\ Tail(s) \in Seq(S) /\ Len(s) \in Nat /\ Len(s) > 0
      /\ Head(s) = s[1] /\ Len(Tail(s)) = Len(s) - 1
      /\ \A i \in 1 .. Len(Tail(s)) : i + 1 \in 1 .. Len(s) /\ Tail(s)[i] = s[i + 1]
  OBVIOUS
<1>2. \A i \in 1 .. Len(s) : i = 1 \/ (i - 1 \in 1 .. Len(Tail(s)) /\ Tail(s)[i - 1] = s[i])
  BY <1>1
<1>3. Elements(s) = {Head(s)} \cup Elements(Tail(s))
  <2>1. Elements(s) \subseteq {Head(s)} \cup Elements(Tail(s))
    BY <1>1, <1>2 DEF Elements
  <2>2. {Head(s)} \cup Elements(Tail(s)) \subseteq Elements(s)
    BY <1>1 DEF Elements
  <2> QED BY <2>1, <2>2
<1>4. ASSUME Distinct(s) PROVE Head(s) \notin Elements(Tail(s))
  BY <1>1, <1>4 DEF Distinct, Elements
<1>5. ASSUME Distinct(s) PROVE Distinct(Tail(s))
  <2> SUFFICES ASSUME NEW i \in 1 .. Len(Tail(s)), NEW j \in 1 .. Len(Tail(s)), Tail(s)[i] = Tail(s)[j]
               PROVE  i = j
    BY DEF Distinct
  <2>1. i + 1 \in 1 .. Len(s) /\ j + 1 \in 1 .. Len(s) /\ s[i + 1] = s[j + 1]
    BY <1>1
  <2>2. i + 1 = j + 1
    BY <1>5, <2>1 DEF Distinct
  <2> QED BY <1>1, <2>2
<1> QED BY <1>1, <1>3, <1>4, <1>5

LEMMA AppendSeq ==
  ASSUME NEW S, NEW s \in Seq(S), NEW x \in S
  PROVE  /\ Append(s, x) \in Seq(S) /\ Len(Append(s, x)) = Len(s) + 1 /\ Len(s) \in Nat
         /\ \A i \in 1 .. Len(s) : Append(s, x)[i] = s[i]
         /\ Append(s, x)[Len(s) + 1] = x
         /\ \A i \in 1 .. Len(Append(s, x)) : i \in 1 .. Len(s) \/ i = Len(s) + 1
         /\ Elements(Append(s, x)) = Elements(s) \cup {x}
         /\ Distinct(s) /\ x \notin Elements(s) => Distinct(Append(s, x))
<1>1. /\ Append(s, x) \in Seq(S) /\ Len(Append(s, x)) = Len(s) + 1 /\ Len(s) \in Nat
      /\ \A i \in 1 .. Len(s) : Append(s, x)[i] = s[i]
      /\ Append(s, x)[Len(s) + 1] = x
      /\ \A i \in 1 .. Len(Append(s, x)) : i \in 1 .. Len(s) \/ i = Len(s) + 1
  OBVIOUS
<1>2. Elements(Append(s, x)) = Elements(s) \cup {x}
  BY <1>1 DEF Elements
<1>3. ASSUME Distinct(s), x \notin Elements(s) PROVE Distinct(Append(s, x))
  BY <1>1, <1>3 DEF Distinct, Elements
<1> QED BY <1>1, <1>2, <1>3

LEMMA ConsSeq ==
  ASSUME NEW S, NEW s \in Seq(S), NEW x \in S
  PROVE  /\ <<x>> \o s \in Seq(S) /\ Len(<<x>> \o s) = Len(s) + 1 /\ Len(s) \in Nat
         /\ <<x>> \o s # <<>> /\ Head(<<x>> \o s) = x /\ Tail(<<x>> \o s) = s
         /\ Elements(<<x>> \o s) = Elements(s) \cup {x}
         /\ Distinct(s) /\ x \notin Elements(s) => Distinct(<<x>> \o s)
<1> DEFINE t == <<x>> \o s
<1>1. /\ t \in Seq(S) /\ Len(t) = Len(s) + 1 /\ Len(s) \in Nat
      /\ t[1] = x /\ \A i \in 1 .. Len(s) : t[i + 1] = s[i]
  OBVIOUS
<1>2. t # <<>> /\ Head(t) = x
  BY <1>1
<1>3. Tail(t) = s
  <2>1. Tail(t) \in Seq(S) /\ Len(Tail(t)) = Len(s) /\ \A i \in 1 .. Len(s) : Tail(t)[i] = t[i + 1]
    BY <1>1, <1>2
  <2> HIDE DEF t
  <2> QED BY <1>1, <2>1, SeqEqual
<1> HIDE DEF t
<1>4. \A i \in 1 .. Len(t) : i = 1 \/ (i - 1 \in 1 .. Len(s) /\ t[i] = s[i - 1])
  BY <1>1
<1>5. \A i \in 1 .. Len(s) : i + 1 \in 1 .. Len(t) /\ t[i + 1] = s[i]
  BY <1>1
<1>6. 1 \in 1 .. Len(t)
  BY <1>1
<1>7. Elements(t) = Elements(s) \cup {x}
  <2>1. \A i \in 1 .. Len(t) : t[i] = x \/ t[i] \in Elements(s)
    BY <1>1, <1>4 DEF Elements
  <2>3. Elements(t) \subseteq Elements(s) \cup {x}
    BY <2>1 DEF Elements
  <2>2. Elements(s) \cup {x} \subseteq Elements(t)
    BY <1>1, <1>5, <1>6 DEF Elements
  <2> QED BY <2>2, <2>3
<1>8. ASSUME Distinct(s), x \notin Elements(s) PROVE Distinct(t)
  <2> SUFFICES ASSUME NEW i \in 1 .. Len(t), NEW j \in 1 .. Len(t), t[i] = t[j] PROVE i = j
    BY DEF Distinct
  <2>1. CASE i = 1 \/ j = 1
    BY <1>1, <1>4, <1>8, <2>1 DEF Elements
  <2>2. CASE i # 1 /\ j # 1
    <3>1. i - 1 \in 1 .. Len(s) /\ j - 1 \in 1 .. Len(s) /\ s[i - 1] = s[j - 1]
      BY <1>4, <2>2
    <3>2. i - 1 = j - 1
      BY <1>8, <3>1 DEF Distinct
    <3> QED BY <1>1, <3>2
  <2> QED BY <2>1, <2>2
<1> QED BY <1>1, <1>2, <1>3, <1>7, <1>8 DEF t

LEMMA RemovedAt ==
  ASSUME NEW S, NEW s \in Seq(S), NEW i \in 1 .. Len(s)
  PROVE  /\ RemoveAt(s, i) \in Seq(S) /\ Len(RemoveAt(s, i)) = Len(s) - 1
         /\ \A j \in 1 .. Len(s) - 1 : RemoveAt(s, i)[j] = IF j < i THEN s[j] ELSE s[j + 1]
<1>1. PICK n \in Nat : n = Len(s)
  OBVIOUS
<1> DEFINE a == SubSeq(s, 1, i - 1)
           b == SubSeq(s, i + 1, n)
<1>2. a \in Seq(S) /\ Len(a) = i - 1 /\ \A j \in 1 .. i - 1 : a[j] = s[j]
  BY <1>1
<1>3. b \in Seq(S) /\ Len(b) = n - i /\ \A j \in 1 .. n - i : b[j] = s[i + j]
  BY <1>1
<1>4. RemoveAt(s, i) = a \o b
  BY <1>1 DEF RemoveAt
<1> HIDE DEF a, b
<1>5. a \o b \in Seq(S) /\ Len(a \o b) = n - 1
  BY <1>1, <1>2, <1>3
<1>6. \A j \in 1 .. n - 1 : (a \o b)[j] = IF j < i THEN s[j] ELSE s[j + 1]
  <2> TAKE j \in 1 .. n - 1
  <2>1. CASE j < i
    BY <1>1, <1>2, <1>3, <2>1
  <2>2. CASE ~(j < i)
    <3>1. j - (i - 1) \in 1 .. n - i /\ (a \o b)[j] = b[j - (i - 1)]
      BY <1>1, <1>2, <1>3, <2>2
    <3>2. i + (j - (i - 1)) = j + 1
      BY <1>1
    <3> QED BY <1>3, <2>2, <3>1, <3>2
  <2> QED BY <2>1, <2>2
<1> QED BY <1>1, <1>4, <1>5, <1>6

\* Removing the only place of an element.
LEMMA RemovedElement ==
  ASSUME NEW S, NEW s \in Seq(S), Distinct(s), NEW k \in 1 .. Len(s)
  PROVE  Distinct(RemoveAt(s, k)) /\ Elements(RemoveAt(s, k)) = Elements(s) \ {s[k]}
<1>1. PICK n \in Nat : n = Len(s)
  OBVIOUS
<1>2. PICK t \in Seq(S) : t = RemoveAt(s, k)
  BY RemovedAt
<1>3. Len(t) = n - 1 /\ \A j \in 1 .. n - 1 : t[j] = IF j < k THEN s[j] ELSE s[j + 1]
  BY <1>1, <1>2, RemovedAt
<1>4. \A i \in 1 .. n : i = k \/ (i < k /\ i \in 1 .. n - 1 /\ t[i] = s[i])
                        \/ (i - 1 \in 1 .. n - 1 /\ t[i - 1] = s[i])
  <2> TAKE i \in 1 .. n
  <2>1. CASE i > k
    <3>1. i - 1 \in 1 .. n - 1 /\ ~(i - 1 < k) /\ (i - 1) + 1 = i
      BY <1>1, <2>1
    <3> QED BY <1>3, <3>1
  <2>2. CASE i < k
    <3>1. i \in 1 .. n - 1
      BY <1>1, <2>2
    <3> QED BY <1>3, <2>2, <3>1
  <2> QED BY <1>1, <2>1, <2>2
<1> DEFINE at(j) == IF j < k THEN j ELSE j + 1
<1>5. \A j \in 1 .. n - 1 : at(j) \in 1 .. n /\ at(j) # k /\ t[j] = s[at(j)]
  BY <1>1, <1>3
<1>6. \A i, j \in 1 .. n - 1 : at(i) = at(j) => i = j
  BY <1>1
<1> HIDE DEF at
<1>7. Distinct(t)
  BY <1>1, <1>3, <1>5, <1>6 DEF Distinct
<1>8. \A j \in 1 .. n - 1 : t[j] # s[k]
  BY <1>1, <1>5 DEF Distinct
<1>9. Elements(t) = Elements(s) \ {s[k]}
  <2>1. Elements(t) \subseteq Elements(s) \ {s[k]}
    BY <1>1, <1>3, <1>5, <1>8 DEF Elements
  <2>2. Elements(s) \ {s[k]} \subseteq Elements(t)
    BY <1>1, <1>3, <1>4 DEF Elements
  <2> QED BY <2>1, <2>2
<1> QED BY <1>2, <1>7, <1>9

LEMMA IdsOf == ASSUME NEW u PROVE {u[i].id : i \in 1 .. Len(u)} = {e.id : e \in Elements(u)}
BY DEF Elements

LEMMA Product == ASSUME NEW a \in Nat, NEW b \in Nat, NEW s \in Nat, a <= b PROVE a * s <= b * s
OBVIOUS

LEMMA Quotient ==
  ASSUME NEW a \in Nat, NEW b \in Nat \ {0}
  PROVE  /\ a \div b \in Nat /\ a % b \in 0 .. b - 1
         /\ a = b * (a \div b) + (a % b)
OBVIOUS

LEMMA Remainder == ASSUME NEW a \in Nat, NEW w \in Nat \ {0}, a < w PROVE a % w = a
OBVIOUS

\* k lies in one of g strides of length s.
LEMMA InStride ==
  ASSUME NEW g \in Nat \ {0}, NEW s \in Nat, NEW k \in Nat, k <= g * s
  PROVE  \E i \in 0 .. g - 1 : i * s <= k /\ k <= (i + 1) * s
<1>1. CASE s = 0
  <2>1. g * s = 0 /\ 0 * s = 0 /\ (0 + 1) * s = 0 /\ 0 \in 0 .. g - 1
    BY <1>1
  <2>2. k = 0
    BY <2>1
  <2> QED BY <2>1, <2>2
<1>2. CASE s # 0 /\ k = g * s
  <2>1. g - 1 \in 0 .. g - 1 /\ (g - 1) + 1 = g /\ g - 1 \in Nat /\ g - 1 <= g
    OBVIOUS
  <2>2. (g - 1) * s <= g * s
    BY <2>1, Product
  <2>3. g * s \in Nat
    OBVIOUS
  <2> QED BY <1>2, <2>1, <2>2, <2>3
<1>3. CASE s # 0 /\ k # g * s
  <2>1. PICK i \in Nat, j \in 0 .. s - 1 : i = k \div s /\ j = k % s /\ k = s * i + j
    BY <1>3, Quotient
  <2>2. i < g
    <3> SUFFICES ASSUME g <= i PROVE FALSE
      OBVIOUS
    <3>1. g * s <= i * s
      BY Product
    <3>2. s * i = i * s /\ i * s \in Nat /\ g * s \in Nat
      OBVIOUS
    <3> QED BY <1>3, <2>1, <3>1, <3>2
  <2>3. i * s <= k /\ k <= (i + 1) * s
    <3>1. s * i = i * s /\ (i + 1) * s = i * s + s /\ i * s \in Nat
      OBVIOUS
    <3> QED BY <2>1, <3>1
  <2> QED BY <2>2, <2>3
<1> QED BY <1>1, <1>2, <1>3

-----------------------------------------------------------------------------
(* Counting parts *)

\* Where the parts of c are in s.
Places(s, c) == {i \in 1 .. Len(s) : s[i].client = c}

LEMMA PlacesFinite ==
  ASSUME NEW s \in Seq(Part), NEW c
  PROVE  IsFiniteSet(Places(s, c)) /\ Cardinality(Places(s, c)) \in Nat
<1>1. Len(s) \in Nat
  OBVIOUS
<1>2. IsFiniteSet(1 .. Len(s))
  BY <1>1, FS_Interval
<1>3. Places(s, c) \in SUBSET (1 .. Len(s))
  BY DEF Places
<1> QED BY <1>2, <1>3, FS_Subset, FS_CardinalityType

\* A set of numbers, moved by one.
LEMMA Shifted ==
  ASSUME NEW R, R \subseteq Nat, IsFiniteSet(R), NEW V, V = {i + 1 : i \in R}
  PROVE  Cardinality(V) = Cardinality(R) /\ IsFiniteSet(V)
<1>1. PICK f \in [R -> Nat] : \A i \in R : f[i] = i + 1
  <2>1. [i \in R |-> i + 1] \in [R -> Nat]
    OBVIOUS
  <2> QED BY <2>1
<1>2. f \in [R -> V] /\ \A x, y \in R : f[x] = f[y] => x = y
  BY <1>1
<1>3. \A y \in V : \E x \in R : f[x] = y
  BY <1>1
<1>4. f \in Bijection(R, V)
  BY <1>2, <1>3 DEF Bijection, Injection, IsInjective, Surjection
<1>5. ExistsBijection(R, V)
  BY <1>4 DEF ExistsBijection
<1> QED BY <1>5, FS_Bijection

LEMMA PlacesTail ==
  ASSUME NEW s \in Seq(Part), s # <<>>, NEW c
  PROVE  Cardinality(Places(s, c)) = Cardinality(Places(Tail(s), c)) + IF Head(s).client = c THEN 1 ELSE 0
<1> DEFINE R == Places(Tail(s), c)
           V == {i + 1 : i \in R}
<1>1. /\ Tail(s) \in Seq(Part) /\ Len(s) \in Nat /\ Len(s) > 0 /\ Head(s) = s[1] /\ Len(Tail(s)) = Len(s) - 1
      /\ \A i \in 1 .. Len(Tail(s)) : i + 1 \in 1 .. Len(s) /\ Tail(s)[i] = s[i + 1]
  BY TailSeq
<1>2. PICK n \in Nat : n = Len(s) /\ n > 0
  BY <1>1
<1>3. R \subseteq 1 .. n - 1 /\ \A i \in R : i \in Nat
  BY <1>1, <1>2 DEF Places
<1>4. IsFiniteSet(R) /\ Cardinality(R) \in Nat
  BY <1>1, PlacesFinite
<1>5. \A i \in 1 .. n - 1 : i \in R <=> i + 1 \in Places(s, c)
  BY <1>1, <1>2 DEF Places
<1>6. Places(s, c) \subseteq 1 .. n /\ (1 \in Places(s, c) <=> Head(s).client = c)
  BY <1>1, <1>2 DEF Places
<1>7. Cardinality(V) = Cardinality(R) /\ IsFiniteSet(V)
  <2>1. R \subseteq Nat
    BY <1>3
  <2> HIDE DEF R
  <2> QED BY <1>4, <2>1, Shifted
<1>8. 1 \notin V
  BY <1>3
<1>9. \A i \in 1 .. n : i # 1 => (i \in V <=> i \in Places(s, c))
  <2> TAKE i \in 1 .. n
  <2> SUFFICES ASSUME i # 1 PROVE i \in V <=> i \in Places(s, c)
    OBVIOUS
  <2>1. i - 1 \in 1 .. n - 1 /\ (i - 1) + 1 = i
    BY <1>2
  <2>2. i \in V <=> i - 1 \in R
    BY <1>3, <2>1
  <2> HIDE DEF V, R
  <2> QED BY <1>5, <2>1, <2>2
<1>10. V \subseteq 1 .. n
  BY <1>2, <1>3
<1>11. 1 \in 1 .. n
  BY <1>2
<1> HIDE DEF V, R
<1>12. CASE Head(s).client = c
  <2>1. Places(s, c) = V \cup {1}
    BY <1>6, <1>9, <1>10, <1>11, <1>12
  <2> QED BY <1>4, <1>7, <1>8, <1>12, <2>1, FS_AddElement DEF R
<1>13. CASE Head(s).client # c
  <2>2. 1 \notin Places(s, c)
    BY <1>6, <1>13
  <2>3. \A i \in 1 .. n : i \in V <=> i \in Places(s, c)
    BY <1>8, <1>9, <2>2
  <2>1. Places(s, c) = V
    BY <1>6, <1>10, <2>3
  <2> QED BY <1>4, <1>7, <1>13, <2>1 DEF R
<1> QED BY <1>12, <1>13

\* All parts of t are d's.
LEMMA PlacesConcat ==
  ASSUME NEW s \in Seq(Part), NEW t \in Seq(Part), NEW c, NEW d,
         \A i \in 1 .. Len(t) : t[i].client = d, Cardinality(Places(s, d)) = 0
  PROVE  Cardinality(Places(s \o t, c)) = IF c = d THEN Len(t) ELSE Cardinality(Places(s, c))
<1>1. PICK m \in Nat, n \in Nat : m = Len(s) /\ n = Len(t)
  OBVIOUS
<1>2. PICK u \in Seq(Part) : u = s \o t
  <2>1. s \o t \in Seq(Part)
    OBVIOUS
  <2> QED BY <2>1
<1>3. Len(u) = m + n /\ \A i \in 1 .. m : u[i] = s[i]
  BY <1>1, <1>2
<1>4. \A i \in m + 1 .. m + n : i - m \in 1 .. n /\ u[i] = t[i - m]
  BY <1>1, <1>2
<1>5. \A i \in m + 1 .. m + n : u[i].client = d
  <2> TAKE i \in m + 1 .. m + n
  <2>1. PICK j \in 1 .. n : j = i - m
    BY <1>4
  <2>2. u[i] = t[j]
    BY <1>4, <2>1
  <2>3. t[j].client = d
    BY <1>1
  <2> QED BY <2>2, <2>3
<1>6. \A i \in 1 .. m : s[i].client # d
  <2>1. Places(s, d) = {}
    BY PlacesFinite, FS_EmptySet
  <2> QED BY <1>1, <2>1 DEF Places
<1>7. \A i \in 1 .. m + n : i \in 1 .. m \/ i \in m + 1 .. m + n
  BY <1>1
<1>8. CASE c = d
  <2>1. Places(u, c) = m + 1 .. m + n
    BY <1>1, <1>3, <1>5, <1>6, <1>7, <1>8 DEF Places
  <2>2. Cardinality(m + 1 .. m + n) = n
    <3>1. Cardinality(m + 1 .. m + n) = IF m + 1 > m + n THEN 0 ELSE (m + n) - (m + 1) + 1
      BY FS_Interval
    <3> QED BY <3>1
  <2> QED BY <1>1, <1>2, <1>8, <2>1, <2>2
<1>9. CASE c # d
  <2>1. Places(u, c) = Places(s, c)
    BY <1>1, <1>3, <1>5, <1>6, <1>7, <1>9 DEF Places
  <2> QED BY <1>2, <1>9, <2>1
<1> QED BY <1>8, <1>9

-----------------------------------------------------------------------------
(* Entries of the scheduler's tables *)

LEMMA Freed ==
  ASSUME NEW y \in Assigned
  PROVE  [y EXCEPT !.client = Nobody] \in Assigned /\ [y EXCEPT !.client = Nobody].client = Nobody
BY DEF Assigned

LEMMA Counted ==
  ASSUME NEW t \in Task, NEW f \in Finding, t.miners # 1, NEW u, u = [t EXCEPT !.miners = @ - 1, !.min = f]
  PROVE  u \in Task /\ u.miners = t.miners - 1 /\ u.lost = t.lost
<1>1. PICK k \in Nat \ {0} : k = t.miners - 1
  BY DEF Task
<1>2. u = [t EXCEPT !.miners = k, !.min = f]
  BY <1>1
<1>3. [t EXCEPT !.miners = k, !.min = f] \in Task
  BY DEF Task
<1>4. [t EXCEPT !.miners = k, !.min = f].miners = k /\ [t EXCEPT !.miners = k, !.min = f].lost = t.lost
  BY DEF Task
<1> QED BY <1>1, <1>2, <1>3, <1>4

LEMMA LostTask ==
  ASSUME NEW t \in Task, NEW u, u = [t EXCEPT !.lost = TRUE]
  PROVE  u \in Task /\ u.miners = t.miners /\ u.lost = TRUE
BY DEF Task

-----------------------------------------------------------------------------
(* What the programs compute *)

LEMMA UnsetFound == MinerAssumption => Unset \in Finding
BY DEF MinerAssumption, Unset, Finding, Nonce

LEMMA LeastOfFound ==
  ASSUME MinerAssumption, NEW d \in Clients, NEW range, range \subseteq Nonce
  PROVE  LeastOf(d, range) \in Finding
<1>1. CASE range = {}
  BY <1>1, UnsetFound DEF LeastOf
<1>2. CASE range # {}
  <2>1. PICK h \in [Nonce -> Nat] : h = Hash[d]
    BY DEF MinerAssumption, Nonce
  <2>7. \A n \in range : n \in Nat /\ h[n] \in Nat
    BY <2>1 DEF Nonce, MinerAssumption
  <2> DEFINE T == {h[n] : n \in range}
             U(x) == {n \in range : h[n] = x}
  <2>2. PICK x \in T : \A y \in T : x <= y
    <3>1. T \subseteq Nat /\ T # {}
      BY <1>2, <2>7
    <3> HIDE DEF T
    <3> QED BY <3>1, LeastNumber
  <2>3. PICK n \in U(x) : \A k \in U(x) : n <= k
    <3>1. U(x) \subseteq Nat /\ U(x) # {}
      BY <2>2, <2>7
    <3> HIDE DEF U, T
    <3> QED BY <3>1, LeastNumber
  <2>4. \A k \in range : h[n] < h[k] \/ (h[n] = h[k] /\ n <= k)
    <3> TAKE k \in range
    <3>1. h[n] = x /\ x \in Nat /\ h[k] \in Nat /\ x <= h[k]
      BY <2>2, <2>3, <2>7
    <3>2. h[k] = x => n <= k
      BY <2>3
    <3> QED BY <3>1, <3>2
  <2> DEFINE IsLeast(m) == \A k \in range : h[m] < h[k] \/ (h[m] = h[k] /\ m <= k)
             best == CHOOSE m \in range : IsLeast(m)
  <2>5. best \in range
    BY <2>3, <2>4
  <2>6. LeastOf(d, range) = [hash |-> h[best], nonce |-> best]
    BY <1>2, <2>1 DEF LeastOf
  <2> HIDE DEF best
  <2> QED BY <2>1, <2>5, <2>6 DEF Finding
<1> QED BY <1>1, <1>2

LEMMA GoroutinesNat ==
  ASSUME MinerAssumption, NEW r \in [data : Clients, lower : Nonce, upper : Nonce]
  PROVE  Size(r) \in Nonce /\ Goroutines(r) \in Nat
<1>1. Size(r) \in Nonce
  BY Mod DEF Size, Nonce, MinerAssumption
<1>2. CASE Size(r) = 0
  BY <1>1, <1>2 DEF Goroutines
<1>3. CASE Size(r) # 0
  BY <1>1, <1>3 DEF Goroutines, Nonce, MinerAssumption
<1> QED BY <1>1, <1>2, <1>3

LEMMA BoundNonce ==
  ASSUME MinerAssumption, NEW r \in [data : Clients, lower : Nonce, upper : Nonce], NEW i \in Nat,
         Goroutines(r) # 0
  PROVE  Bound(r, i) \in Nonce
<1>1. PICK g \in Nat, n \in Nat, l \in Nat : g = Goroutines(r) /\ n = Size(r) /\ l = r.lower
  BY GoroutinesNat DEF Nonce, MinerAssumption
<1>2. l + i * (n \div g) \in Int
  BY <1>1
<1> QED BY <1>1, <1>2, Mod DEF Bound

LEMMA ScanFound ==
  ASSUME MinerAssumption, NEW d \in Clients, NEW a \in Nonce, NEW b \in Nonce
  PROVE  Scan(d, a, b) \in Finding
<1>1. a .. b \subseteq Nonce
  BY DEF Nonce, MinerAssumption
<1> QED BY <1>1, LeastOfFound DEF Scan

LEMMA RepliesFound ==
  ASSUME MinerAssumption, NEW r \in [data : Clients, lower : Nonce, upper : Nonce],
         NEW i \in 0 .. Goroutines(r) - 1
  PROVE  Scan(r.data, Bound(r, i), Bound(r, i + 1)) \in Finding
<1>1. Goroutines(r) \in Nat
  BY GoroutinesNat
<1>2. Goroutines(r) # 0 /\ i \in Nat /\ i + 1 \in Nat
  BY <1>1
<1> QED BY <1>2, BoundNonce, ScanFound

LEMMA StrideNat ==
  ASSUME MinerAssumption, ServerAssumption, freeMiners \in Seq(Miners), NEW u \in Nonce
  PROVE  Stride(u) \in Nat \ {0}
<1>1. PICK n \in Nat : n = Len(freeMiners)
  OBVIOUS
<1>2. PICK s \in Nat \ {0} : s = IF u > Big THEN Log10[u] ELSE 1
  BY DEF MinerAssumption, ServerAssumption, Nonce
<1>3. Stride(u) = IF s < n THEN n ELSE s
  BY <1>1, <1>2 DEF Stride
<1> QED BY <1>3

\* A request is cut into Stride parts, all of its client.
LEMMA PartsSeq ==
  ASSUME MinerAssumption, ServerAssumption, freeMiners \in Seq(Miners),
         NEW r \in [id : Clients, upper : Nonce]
  PROVE  /\ Parts(r) \in Seq(Part) /\ Len(Parts(r)) = Stride(r.upper) /\ Stride(r.upper) \in Nat \ {0}
         /\ \A i \in 1 .. Len(Parts(r)) : Parts(r)[i].client = r.id
<1>1. PICK s \in Nat \ {0} : s = Stride(r.upper)
  BY StrideNat
<1>2. PICK u \in Nat : u = r.upper /\ u \in Nonce
  BY DEF Nonce, MinerAssumption
<1>3. PICK step \in Nat : step = (u + s - 1) \div s
  <2>1. PICK a \in Nat : a = u + s - 1
    BY <1>1, <1>2
  <2>2. a \div s \in Nat
    BY Div
  <2>3. a \div s = (u + s - 1) \div s
    BY <2>1
  <2> QED BY <2>2, <2>3
<1> DEFINE p(i) == [client |-> r.id, lower |-> ((i - 1) * step) % Word, upper |-> Lesser(u, (i * step) % Word)]
<1>4. Parts(r) = [i \in 1 .. s |-> p(i)]
  BY <1>1, <1>2, <1>3 DEF Parts
<1>5. \A i \in 1 .. s : p(i) \in Part /\ p(i).client = r.id
  <2> TAKE i \in 1 .. s
  <2>1. PICK a \in Int, b \in Int : a = (i - 1) * step /\ b = i * step
    OBVIOUS
  <2>2. a % Word \in Nonce /\ b % Word \in Nonce
    BY Mod
  <2>3. Lesser(u, b % Word) \in Nonce
    BY <1>2, <2>2 DEF Lesser
  <2> QED BY <2>1, <2>2, <2>3 DEF Part
<1> HIDE DEF p
<1>6. Parts(r) \in Seq(Part) /\ Len(Parts(r)) = s
  BY <1>4, <1>5
<1> QED BY <1>1, <1>4, <1>5, <1>6

-----------------------------------------------------------------------------
(* The state is well typed *)

LEMMA LinkSame == LinkTypes /\ UNCHANGED <<link, lossRead>> => LinkTypes'
BY DEF LinkTypes

LEMMA InSame == InTypes /\ UNCHANGED toServer => InTypes'
BY DEF InTypes, Message

LEMMA OutSame == OutTypes /\ UNCHANGED toPeer => OutTypes'
BY DEF OutTypes, Answer

LEMMA ConnSame == ConnTypes /\ UNCHANGED connVars => ConnTypes'
BY LinkSame, InSame, OutSame DEF ConnTypes, connVars

LEMMA MinerSame == MinerTypes /\ UNCHANGED minerVars => MinerTypes'
BY DEF MinerTypes, minerVars

LEMMA ChanSame == ChanTypes /\ UNCHANGED chanVars => ChanTypes'
BY DEF ChanTypes, chanVars

LEMMA SchedSame == SchedTypes /\ UNCHANGED schedVars => SchedTypes'
BY DEF SchedTypes, schedVars

LEMMA ClientSame == ClientTypes /\ UNCHANGED clientVars => ClientTypes'
BY DEF ClientTypes, clientVars

\* What one process and the server have written to each other changes.
LEMMA InPut ==
  ASSUME InTypes, NEW p \in Peers, NEW s \in Seq(Message(p)), toServer' = [toServer EXCEPT ![p] = s]
  PROVE  InTypes' /\ \A q \in Peers : toServer'[q] = IF q = p THEN s ELSE toServer[q]
<1>1. /\ toServer' = [q \in Peers |-> toServer'[q]]
      /\ \A q \in Peers : toServer'[q] = IF q = p THEN s ELSE toServer[q]
  BY Changed DEF InTypes
<1>2. \A q \in Peers : toServer'[q] \in Seq(Message(q))
  BY <1>1 DEF InTypes
<1> QED BY <1>1, <1>2 DEF InTypes, Message

LEMMA OutPut ==
  ASSUME OutTypes, NEW p \in Peers, NEW s \in Seq(Answer(p)), toPeer' = [toPeer EXCEPT ![p] = s]
  PROVE  OutTypes' /\ \A q \in Peers : toPeer'[q] = IF q = p THEN s ELSE toPeer[q]
<1>1. /\ toPeer' = [q \in Peers |-> toPeer'[q]]
      /\ \A q \in Peers : toPeer'[q] = IF q = p THEN s ELSE toPeer[q]
  BY Changed DEF OutTypes
<1>2. \A q \in Peers : toPeer'[q] \in Seq(Answer(q))
  BY <1>1 DEF OutTypes
<1> QED BY <1>1, <1>2 DEF OutTypes, Answer

LEMMA InWritten ==
  ASSUME InTypes, NEW p \in Peers, NEW x \in Message(p), toServer' = Written(toServer, p, x)
  PROVE  /\ InTypes'
         /\ \A q \in Peers : \/ toServer'[q] = toServer[q]
                             \/ q = p /\ link[p] = "up" /\ toServer'[q] = Append(toServer[q], x)
<1>1. CASE link[p] = "up"
  <2>1. toServer[p] \in Seq(Message(p))
    BY DEF InTypes
  <2>2. PICK s \in Seq(Message(p)) : s = Append(toServer[p], x)
    BY <2>1, AppendSeq
  <2>3. toServer' = [toServer EXCEPT ![p] = s]
    BY <1>1, <2>2 DEF Written
  <2>4. InTypes' /\ \A q \in Peers : toServer'[q] = IF q = p THEN s ELSE toServer[q]
    BY <2>3, InPut
  <2> QED BY <1>1, <2>2, <2>4
<1>2. CASE link[p] # "up"
  BY <1>2, InSame DEF Written
<1> QED BY <1>1, <1>2

LEMMA OutWritten ==
  ASSUME OutTypes, NEW p \in Peers, NEW x \in Answer(p), toPeer' = Written(toPeer, p, x)
  PROVE  OutTypes'
<1>1. CASE link[p] = "up"
  <2>1. toPeer[p] \in Seq(Answer(p))
    BY DEF OutTypes
  <2>2. PICK s \in Seq(Answer(p)) : s = Append(toPeer[p], x)
    BY <2>1, AppendSeq
  <2>3. toPeer' = [toPeer EXCEPT ![p] = s]
    BY <1>1, <2>2 DEF Written
  <2> QED BY <2>3, OutPut
<1>2. CASE link[p] # "up"
  BY <1>2, OutSame DEF Written
<1> QED BY <1>1, <1>2

LEMMA InTail ==
  ASSUME InTypes, NEW p \in Peers, toServer[p] # <<>>, toServer' = [toServer EXCEPT ![p] = Tail(@)]
  PROVE  /\ InTypes' /\ Head(toServer[p]) \in Message(p)
         /\ \A q \in Peers : toServer'[q] = IF q = p THEN Tail(toServer[p]) ELSE toServer[q]
<1>1. toServer[p] \in Seq(Message(p))
  BY DEF InTypes
<1>2. Head(toServer[p]) \in Message(p) /\ Tail(toServer[p]) \in Seq(Message(p))
  BY <1>1, TailSeq
<1>3. PICK s \in Seq(Message(p)) : s = Tail(toServer[p])
  BY <1>2
<1>4. toServer' = [toServer EXCEPT ![p] = s]
  BY <1>3
<1>5. InTypes' /\ \A q \in Peers : toServer'[q] = IF q = p THEN s ELSE toServer[q]
  BY <1>4, InPut
<1> QED BY <1>2, <1>3, <1>5

LEMMA OutTail ==
  ASSUME OutTypes, NEW p \in Peers, toPeer[p] # <<>>, toPeer' = [toPeer EXCEPT ![p] = Tail(@)]
  PROVE  OutTypes' /\ Head(toPeer[p]) \in Answer(p)
<1>1. toPeer[p] \in Seq(Answer(p))
  BY DEF OutTypes
<1>2. Head(toPeer[p]) \in Answer(p) /\ Tail(toPeer[p]) \in Seq(Answer(p))
  BY <1>1, TailSeq
<1>3. PICK s \in Seq(Answer(p)) : s = Tail(toPeer[p])
  BY <1>2
<1>4. toPeer' = [toPeer EXCEPT ![p] = s]
  BY <1>3
<1> QED BY <1>2, <1>4, OutPut

LEMMA ConnectTypes ==
  ASSUME ConnTypes, NEW p \in Peers, NEW x \in Message(p), Connect(p, x)
  PROVE  /\ ConnTypes'
         /\ \A q \in Peers : /\ link'[q] = IF q = p THEN "up" ELSE link[q]
                             /\ toServer'[q] = IF q = p THEN <<x>> ELSE toServer[q]
<1>1. LinkTypes' /\ \A q \in Peers : link'[q] = IF q = p THEN "up" ELSE link[q]
  BY DEF ConnTypes, LinkTypes, Connect
<1>2. PICK s \in Seq(Message(p)) : s = <<x>>
  <2>1. <<x>> \in Seq(Message(p))
    OBVIOUS
  <2> QED BY <2>1
<1>3. toServer' = [toServer EXCEPT ![p] = s]
  BY <1>2 DEF Connect
<1>4. InTypes' /\ \A q \in Peers : toServer'[q] = IF q = p THEN s ELSE toServer[q]
  BY <1>3, InPut DEF ConnTypes
<1>5. OutTypes'
  BY OutSame DEF ConnTypes, Connect
<1> QED BY <1>1, <1>2, <1>4, <1>5 DEF ConnTypes

\* Prefix(s, t): t is s without some of its last elements.
Prefix(s, t) == Len(t) <= Len(s) /\ \A i \in 1 .. Len(t) : t[i] = s[i]

LEMMA BreakTypes ==
  ASSUME ConnTypes, NEW p \in Peers, Break(p)
  PROVE  /\ ConnTypes'
         /\ \A q \in Peers : /\ link'[q] = IF q = p THEN "down" ELSE link[q]
                             /\ Prefix(toServer[q], toServer'[q])
                             /\ q # p => toServer'[q] = toServer[q]
<1>1. LinkTypes' /\ \A q \in Peers : link'[q] = IF q = p THEN "down" ELSE link[q]
  BY DEF ConnTypes, LinkTypes, Break
<1>2. PICK i \in 0 .. Len(toServer[p]), j \in 0 .. Len(toPeer[p]) :
        /\ toServer' = [toServer EXCEPT ![p] = SubSeq(@, 1, i)]
        /\ toPeer' = [toPeer EXCEPT ![p] = SubSeq(@, 1, j)]
  BY DEF Break
<1>3. \A q \in Peers : toServer[q] \in Seq(Message(q)) /\ toPeer[q] \in Seq(Answer(q))
  BY DEF ConnTypes, InTypes, OutTypes
<1>4. PICK s \in Seq(Message(p)) : s = toServer[p]
  BY <1>3
<1>5. PICK t \in Seq(Answer(p)) : t = toPeer[p]
  BY <1>3
<1>6. SubSeq(s, 1, i) \in Seq(Message(p)) /\ Prefix(s, SubSeq(s, 1, i))
  BY <1>2, <1>4 DEF Prefix
<1>7. SubSeq(t, 1, j) \in Seq(Answer(p))
  BY <1>2, <1>5
<1>8. PICK u \in Seq(Message(p)) : u = SubSeq(s, 1, i)
  BY <1>6
<1>9. PICK v \in Seq(Answer(p)) : v = SubSeq(t, 1, j)
  BY <1>7
<1>10. toServer' = [toServer EXCEPT ![p] = u] /\ toPeer' = [toPeer EXCEPT ![p] = v]
  BY <1>2, <1>4, <1>5, <1>8, <1>9
<1>11. InTypes' /\ \A q \in Peers : toServer'[q] = IF q = p THEN u ELSE toServer[q]
  BY <1>10, InPut DEF ConnTypes
<1>12. OutTypes'
  BY <1>10, OutPut DEF ConnTypes
<1>13. \A q \in Peers : Prefix(toServer[q], toServer[q])
  BY <1>3 DEF Prefix
<1>14. \A q \in Peers : Prefix(toServer[q], toServer'[q]) /\ (q # p => toServer'[q] = toServer[q])
  BY <1>4, <1>6, <1>8, <1>11, <1>13
<1> QED BY <1>1, <1>11, <1>12, <1>14 DEF ConnTypes

-----------------------------------------------------------------------------
(* A miner joins once, and a client asks once *)

\* A miner that was not known to the scheduler remains so.
LEMMA JoinsKept ==
  ASSUME JoinsOnce, UNCHANGED <<link, toServer, joins>>,
         \A m \in Miners : miners[m] = NoTask => miners'[m] = NoTask
  PROVE  JoinsOnce'
BY DEF JoinsOnce, Distinct, Elements

\* The clients change none of it.
LEMMA JoinsOther ==
  ASSUME JoinsOnce, UNCHANGED <<joins, miners>>,
         \A m \in Miners : link'[m] = link[m] /\ toServer'[m] = toServer[m]
  PROVE  JoinsOnce'
<1>1. Distinct(joins')
  BY DEF JoinsOnce
<1>2. Distinct(joins)'
  BY <1>1 DEF Distinct
<1> QED BY <1>2 DEF JoinsOnce, Elements

\* A client that has no task still has none.
LEMMA AsksKept ==
  ASSUME AsksOnce, UNCHANGED <<link, toServer, requests>>,
         \A c \in Clients : tasks[c] = NoTask => tasks'[c] = NoTask
  PROVE  AsksOnce'
BY DEF AsksOnce, Askers

\* The miners change none of it.
LEMMA AsksOther ==
  ASSUME AsksOnce, UNCHANGED <<requests, tasks>>,
         \A c \in Clients : link'[c] = link[c] /\ toServer'[c] = toServer[c]
  PROVE  AsksOnce'
BY DEF AsksOnce, Askers

\* MinerJoin, or a client's NewClient
LEMMA ConnectJoins ==
  ASSUME ConnTypes, JoinsOnce, BitcoinAssumption, NEW p \in Peers, NEW x \in Message(p), Connect(p, x),
         UNCHANGED <<joins, miners>>
  PROVE  JoinsOnce'
<1>1. \A q \in Peers : /\ link'[q] = IF q = p THEN "up" ELSE link[q]
                       /\ toServer'[q] = IF q = p THEN <<x>> ELSE toServer[q]
  BY ConnectTypes
<1>2. link[p] = "none"
  BY DEF Connect
<1>3. \A m \in Miners : m \in Peers
  BY DEF Peers
<1>4. Distinct(joins)'
  BY DEF JoinsOnce, Distinct
<1>5. Elements(joins)' = Elements(joins)
  BY DEF Elements
<1>6. ASSUME NEW m \in Miners
      PROVE  /\ link'[m] = "none" => toServer'[m] = <<>> /\ m \notin Elements(joins)' /\ miners'[m] = NoTask
             /\ \A i \in 1 .. Len(toServer'[m]) :
                  toServer'[m][i].type = "Join" => i = 1 /\ m \notin Elements(joins)' /\ miners'[m] = NoTask
             /\ m \in Elements(joins)' => miners'[m] = NoTask
  <2>1. CASE m = p
    <3>1. toServer'[m] = <<x>> /\ Len(<<x>>) = 1 /\ link'[m] = "up"
      BY <1>1, <1>3, <2>1
    <3>2. m \notin Elements(joins) /\ miners[m] = NoTask
      BY <1>2, <2>1 DEF JoinsOnce
    <3> QED BY <1>5, <3>1, <3>2
  <2>2. CASE m # p
    BY <1>1, <1>3, <1>5, <2>2 DEF JoinsOnce
  <2> QED BY <2>1, <2>2
<1> QED BY <1>4, <1>6 DEF JoinsOnce

LEMMA ConnectAsks ==
  ASSUME ConnTypes, AsksOnce, NEW p \in Peers, NEW x \in Message(p), Connect(p, x),
         UNCHANGED <<requests, tasks>>
  PROVE  AsksOnce'
<1>1. \A q \in Peers : /\ link'[q] = IF q = p THEN "up" ELSE link[q]
                       /\ toServer'[q] = IF q = p THEN <<x>> ELSE toServer[q]
  BY ConnectTypes
<1>2. link[p] = "none"
  BY DEF Connect
<1>3. \A c \in Clients : c \in Peers
  BY DEF Peers
<1>4. Askers' = Askers
  BY DEF Askers
<1>5. ASSUME NEW c \in Clients
      PROVE  /\ link'[c] = "none" => toServer'[c] = <<>> /\ c \notin Askers' /\ tasks'[c] = NoTask
             /\ Len(toServer'[c]) <= 1
             /\ toServer'[c] # <<>> => c \notin Askers' /\ tasks'[c] = NoTask
             /\ c \in Askers' => tasks'[c] = NoTask
  <2>1. CASE c = p
    <3>1. toServer'[c] = <<x>> /\ Len(<<x>>) = 1 /\ link'[c] = "up"
      BY <1>1, <1>3, <2>1
    <3>2. c \notin Askers /\ tasks[c] = NoTask
      BY <1>2, <2>1 DEF AsksOnce
    <3> QED BY <1>4, <3>1, <3>2
  <2>2. CASE c # p
    BY <1>1, <1>3, <1>4, <2>2 DEF AsksOnce
  <2> QED BY <2>1, <2>2
<1> QED BY <1>5 DEF AsksOnce

\* A connection breaks
LEMMA BreakOnce ==
  ASSUME ConnTypes, JoinsOnce, AsksOnce, NEW p \in Peers, Break(p),
         UNCHANGED <<joins, miners, requests, tasks>>
  PROVE  JoinsOnce' /\ AsksOnce'
<1>1. \A q \in Peers : /\ link'[q] = IF q = p THEN "down" ELSE link[q]
                       /\ Prefix(toServer[q], toServer'[q])
                       /\ q # p => toServer'[q] = toServer[q]
  BY BreakTypes
<1>2. \A q \in Peers : toServer[q] \in Seq(Message(q)) /\ toServer'[q] \in Seq(Message(q)')
  BY BreakTypes DEF ConnTypes, InTypes
<1>3. \A m \in Miners : m \in Peers
  BY DEF Peers
<1>4. \A c \in Clients : c \in Peers
  BY DEF Peers
<1>5. Distinct(joins)'
  BY DEF JoinsOnce, Distinct
<1>6. Elements(joins)' = Elements(joins) /\ Askers' = Askers
  BY DEF Elements, Askers
<1>7. ASSUME NEW q \in Peers
      PROVE  /\ link'[q] = "none" => link[q] = "none" /\ toServer'[q] = toServer[q]
             /\ Len(toServer'[q]) <= Len(toServer[q]) /\ Len(toServer[q]) \in Nat /\ Len(toServer'[q]) \in Nat
             /\ \A i \in 1 .. Len(toServer'[q]) : i \in 1 .. Len(toServer[q]) /\ toServer'[q][i] = toServer[q][i]
             /\ toServer'[q] # <<>> => toServer[q] # <<>>
  <2>1. link'[q] = "none" => link[q] = "none" /\ toServer'[q] = toServer[q]
    BY <1>1
  <2>2. PICK s \in Seq(Message(q)) : s = toServer[q]
    BY <1>2
  <2>3. PICK t \in Seq(Message(q)') : t = toServer'[q]
    BY <1>2
  <2>4. Prefix(s, t)
    BY <1>1, <2>2, <2>3
  <2>5. /\ Len(t) <= Len(s) /\ Len(s) \in Nat /\ Len(t) \in Nat
        /\ \A i \in 1 .. Len(t) : i \in 1 .. Len(s) /\ t[i] = s[i]
        /\ t # <<>> => s # <<>>
    BY <2>4 DEF Prefix
  <2> QED BY <2>1, <2>2, <2>3, <2>5
<1>8. JoinsOnce'
  BY <1>3, <1>5, <1>6, <1>7 DEF JoinsOnce
<1>9. AsksOnce'
  <2>1. \A c \in Clients : Len(toServer'[c]) <= 1
    BY <1>4, <1>7 DEF AsksOnce
  <2> QED BY <1>4, <1>6, <1>7, <2>1 DEF AsksOnce
<1> QED BY <1>8, <1>9

-----------------------------------------------------------------------------
(* What the miners and the clients do *)

USE MinerAssumption, ServerAssumption, BitcoinAssumption

LEMMA PlanSame == Plan /\ UNCHANGED schedVars => Plan'
<1> SUFFICES ASSUME Plan, UNCHANGED schedVars PROVE Plan'
  OBVIOUS
<1>1. UNCHANGED <<trigger, freeMiners, miners, pendingRequests, tasks>>
  BY DEF schedVars
<1>2. \A m : Busy(m)' = Busy(m)
  BY <1>1 DEF Busy
<1>3. \A c : BusyWith(c)' = BusyWith(c) /\ PendingOf(c)' = PendingOf(c)
  BY <1>1, <1>2 DEF BusyWith, PendingOf
<1>4. \A c : PartsLeft(c)' = PartsLeft(c)
  BY <1>3 DEF PartsLeft
<1>5. \A c : PartDropped(c)' = PartDropped(c)
  BY <1>1, <1>4 DEF PartDropped
<1>6. FreeListExact'
  BY <1>1, <1>2 DEF Plan, FreeListExact, ToSet
<1>7. PartsConserved'
  BY <1>1, <1>4 DEF Plan, PartsConserved
<1>8. Awake'
  BY <1>1, <1>2, <1>5 DEF Plan, Awake
<1> QED BY <1>6, <1>7, <1>8 DEF Plan

LEMMA Disjoint ==
  /\ \A m \in Miners : m \in Peers /\ m \notin Clients /\ Message(m) = {Join} \cup ResultMsg /\ Answer(m) = RequestMsg
  /\ \A c \in Clients : /\ c \in Peers /\ c \notin Miners /\ Answer(c) = ResultMsg
                        /\ Message(c) = [type : {"Request"}, data : {c}, lower : Nonce, upper : Nonce]
BY DEF BitcoinAssumption, Peers, Message, Answer, ResultMsg

LEMMA MinerJoinInv == ASSUME Inv, NEW m \in Miners, ByMiner(MinerJoin(m)) PROVE Inv'
<1>1. m \in Peers /\ Join \in Message(m) /\ Connect(m, Join)
  BY Disjoint DEF ByMiner, MinerJoin
<1>2. ConnTypes'
  BY <1>1, ConnectTypes DEF Inv, Types
<1>3. MinerTypes'
  BY DEF Inv, Types, MinerTypes, ByMiner, MinerJoin
<1>4. UNCHANGED <<chanVars, schedVars, clientVars>>
  BY DEF ByMiner, serverVars
<1>5. JoinsOnce' /\ AsksOnce'
  BY <1>1, <1>4, ConnectJoins, ConnectAsks DEF Inv, Types, chanVars, schedVars
<1> QED BY <1>2, <1>3, <1>4, <1>5, ChanSame, SchedSame, ClientSame, PlanSame DEF Inv, Types

LEMMA MinerReadInv == ASSUME Inv, NEW m \in Miners, ByMiner(MinerRead(m)) PROVE Inv'
<1>1. /\ OutTypes' /\ Head(toPeer[m]) \in RequestMsg
  <2>1. OutTypes /\ toPeer[m] # <<>> /\ toPeer' = [toPeer EXCEPT ![m] = Tail(@)]
    BY DEF ByMiner, MinerRead, Inv, Types, ConnTypes
  <2>2. m \in Peers /\ Answer(m) = RequestMsg
    BY Disjoint
  <2> QED BY <2>1, <2>2, OutTail
<1>2. ConnTypes'
  BY <1>1, LinkSame, InSame DEF Inv, Types, ConnTypes, ByMiner, MinerRead
<1>3. MinerTypes'
  <2>1. PICK r \in RequestMsg : r = Head(toPeer[m])
    BY <1>1
  <2>2. PICK p \in [data : Clients, lower : Nonce, upper : Nonce] :
          p = [data |-> r.data, lower |-> r.lower, upper |-> r.upper]
    BY DEF RequestMsg
  <2>3. part' = [part EXCEPT ![m] = p]
    BY <2>1, <2>2 DEF ByMiner, MinerRead
  <2>4. PICK x \in {"mine", "dead"} : mpc' = [mpc EXCEPT ![m] = x]
    BY DEF ByMiner, MinerRead
  <2>5. part' = [q \in Miners |-> part'[q]] /\ \A q \in Miners : part'[q] = IF q = m THEN p ELSE part[q]
    <3>1. part = [q \in Miners |-> part[q]]
      BY DEF Inv, Types, MinerTypes
    <3> QED BY <2>3, <3>1, Changed
  <2> QED BY <2>4, <2>5 DEF Inv, Types, MinerTypes
<1>4. UNCHANGED <<chanVars, schedVars, clientVars, link, toServer>>
  BY DEF ByMiner, serverVars, MinerRead
<1>5. JoinsOnce' /\ AsksOnce'
  BY <1>4, JoinsKept, AsksKept DEF Inv, chanVars, schedVars
<1> QED BY <1>2, <1>3, <1>4, <1>5, ChanSame, SchedSame, ClientSame, PlanSame DEF Inv, Types

LEMMA MinerReplyInv == ASSUME Inv, NEW m \in Miners, ByMiner(MinerReply(m)) PROVE Inv'
<1>1. PICK r \in Finding : toServer' = Written(toServer, m, Result(r.hash, r.nonce))
  <2>1. PICK p \in [data : Clients, lower : Nonce, upper : Nonce] : p = part[m]
    BY DEF Inv, Types, MinerTypes, ByMiner, MinerReply
  <2> DEFINE found == {Scan(p.data, Bound(p, i), Bound(p, i + 1)) : i \in 0 .. Goroutines(p) - 1}
  <2>2. PICK r \in IF found = {} THEN {Unset} ELSE found : toServer' = Written(toServer, m, Result(r.hash, r.nonce))
    BY <2>1 DEF ByMiner, MinerReply
  <2>3. found \subseteq Finding /\ Unset \in Finding
    BY RepliesFound, UnsetFound
  <2> HIDE DEF found
  <2> QED BY <2>2, <2>3
<1>2. PICK x \in ResultMsg : x = Result(r.hash, r.nonce)
  BY DEF ResultMsg, Result, Finding
<1>3. m \in Peers /\ x \in Message(m) /\ toServer' = Written(toServer, m, x)
  BY <1>1, <1>2, Disjoint
<1>4. /\ InTypes'
      /\ \A q \in Peers : \/ toServer'[q] = toServer[q]
                          \/ q = m /\ link[m] = "up" /\ toServer'[q] = Append(toServer[q], x)
  BY <1>3, InWritten DEF Inv, Types, ConnTypes
<1>5. UNCHANGED <<chanVars, schedVars, clientVars, link, toPeer, lossRead>>
  BY DEF ByMiner, serverVars, MinerReply
<1>6. ConnTypes'
  BY <1>4, <1>5, LinkSame, OutSame DEF Inv, Types, ConnTypes
<1>7. MinerTypes'
  <2>1. part' = [q \in Miners |-> part'[q]] /\ \A q \in Miners : part'[q] = IF q = m THEN NoPart ELSE part[q]
    BY Changed DEF Inv, Types, MinerTypes, ByMiner, MinerReply
  <2> QED BY <2>1 DEF Inv, Types, MinerTypes, ByMiner, MinerReply
<1>8. AsksOnce'
  <2>1. \A c \in Clients : link'[c] = link[c] /\ toServer'[c] = toServer[c]
    BY <1>4, <1>5, Disjoint
  <2> QED BY <1>5, <2>1, AsksOther DEF Inv, chanVars, schedVars
<1>9. JoinsOnce'
  <2>1. UNCHANGED <<joins, miners, link>> /\ Elements(joins)' = Elements(joins) /\ Distinct(joins)'
    BY <1>5 DEF Elements, Distinct, Inv, JoinsOnce, chanVars, schedVars
  <2> SUFFICES ASSUME NEW q \in Miners
               PROVE  /\ link[q] = "none" => toServer'[q] = <<>>
                      /\ \A i \in 1 .. Len(toServer'[q]) : toServer'[q][i].type = "Join" =>
                           i = 1 /\ q \notin Elements(joins) /\ miners[q] = NoTask
    BY <2>1 DEF Inv, JoinsOnce
  <2>2. CASE toServer'[q] = toServer[q]
    BY <2>2 DEF Inv, JoinsOnce
  <2>3. CASE q = m /\ link[m] = "up" /\ toServer'[q] = Append(toServer[q], x)
    <3>1. PICK s \in Seq(Message(m)) : s = toServer[m]
      BY Disjoint DEF Inv, Types, ConnTypes, InTypes
    <3>2. \A i \in 1 .. Len(Append(s, x)) : (i \in 1 .. Len(s) /\ Append(s, x)[i] = s[i]) \/ Append(s, x)[i] = x
      BY <1>3, AppendSeq
    <3>3. x.type # "Join"
      BY DEF ResultMsg
    <3> QED BY <2>3, <3>1, <3>2, <3>3 DEF Inv, JoinsOnce
  <2> QED BY <1>4, <2>2, <2>3, Disjoint
<1> QED BY <1>5, <1>6, <1>7, <1>8, <1>9, ChanSame, SchedSame, ClientSame, PlanSame DEF Inv, Types

LEMMA MinerLostInv == ASSUME Inv, NEW m \in Miners, ByMiner(MinerLost(m)) PROVE Inv'
<1>1. UNCHANGED <<connVars, chanVars, schedVars, clientVars>>
  BY DEF ByMiner, serverVars, MinerLost
<1>2. MinerTypes'
  BY DEF Inv, Types, MinerTypes, ByMiner, MinerLost
<1>3. JoinsOnce' /\ AsksOnce'
  BY <1>1, JoinsKept, AsksKept DEF Inv, chanVars, schedVars, connVars
<1> QED BY <1>1, <1>2, <1>3, ConnSame, ChanSame, SchedSame, ClientSame, PlanSame DEF Inv, Types

LEMMA BreakInv ==
  ASSUME Inv, NEW p \in Peers, Break(p), UNCHANGED <<minerVars, serverVars, clientVars>>
  PROVE  Inv'
<1>1. UNCHANGED <<chanVars, schedVars, joins, miners, requests, tasks>>
  BY DEF serverVars, chanVars, schedVars
<1>2. ConnTypes'
  BY BreakTypes DEF Inv, Types
<1>3. JoinsOnce' /\ AsksOnce'
  BY <1>1, BreakOnce DEF Inv, Types
<1> QED BY <1>1, <1>2, <1>3, MinerSame, ChanSame, SchedSame, ClientSame, PlanSame DEF Inv, Types

LEMMA ClientAskInv == ASSUME Inv, NEW c \in Clients, NEW u \in Uppers[c], ClientAsk(c, u) PROVE Inv'
<1>1. u \in Nonce
  BY DEF BitcoinAssumption
<1>2. c \in Peers /\ Request(c, 0, u) \in Message(c) /\ Connect(c, Request(c, 0, u))
  <2>1. 0 \in Nonce
    BY DEF Nonce, MinerAssumption
  <2> QED BY <1>1, <2>1, Disjoint DEF ClientAsk, Request
<1>3. ConnTypes'
  BY <1>2, ConnectTypes DEF Inv, Types
<1>4. UNCHANGED <<minerVars, chanVars, schedVars, answer>>
  BY DEF ClientAsk, serverVars
<1>5. ClientTypes'
  BY <1>1, <1>4 DEF ClientAsk, Inv, Types, ClientTypes
<1>6. JoinsOnce' /\ AsksOnce'
  BY <1>2, <1>4, ConnectJoins, ConnectAsks DEF Inv, Types, chanVars, schedVars
<1> QED BY <1>3, <1>4, <1>5, <1>6, MinerSame, ChanSame, SchedSame, PlanSame DEF Inv, Types

LEMMA ClientResultInv == ASSUME Inv, NEW c \in Clients, ClientResult(c) PROVE Inv'
<1>1. OutTypes' /\ Head(toPeer[c]) \in ResultMsg
  BY Disjoint, OutTail DEF ClientResult, Inv, Types, ConnTypes
<1>2. ConnTypes'
  BY <1>1, LinkSame, InSame DEF Inv, Types, ConnTypes, ClientResult
<1>3. UNCHANGED <<minerVars, chanVars, schedVars, link, toServer>>
  BY DEF ClientResult, serverVars
<1>4. PICK f \in Finding : f = [hash |-> Head(toPeer[c]).hash, nonce |-> Head(toPeer[c]).nonce]
  BY <1>1 DEF ResultMsg, Finding
<1>5. answer' = [answer EXCEPT ![c] = f]
  BY <1>4 DEF ClientResult
<1>6. ClientTypes'
  BY <1>5 DEF ClientResult, Inv, Types, ClientTypes
<1>7. JoinsOnce' /\ AsksOnce'
  BY <1>3, JoinsKept, AsksKept DEF Inv, chanVars, schedVars
<1> QED BY <1>2, <1>3, <1>6, <1>7, MinerSame, ChanSame, SchedSame, PlanSame DEF Inv, Types

LEMMA ClientGivesUpInv == ASSUME Inv, NEW c \in Clients, ClientGivesUp(c) PROVE Inv'
<1>1. UNCHANGED <<connVars, minerVars, chanVars, schedVars>>
  BY DEF ClientGivesUp, serverVars
<1>2. ClientTypes'
  BY DEF ClientGivesUp, Inv, Types, ClientTypes
<1>3. JoinsOnce' /\ AsksOnce'
  BY <1>1, JoinsKept, AsksKept DEF Inv, chanVars, schedVars, connVars
<1> QED BY <1>1, <1>2, <1>3, ConnSame, MinerSame, ChanSame, SchedSame, PlanSame DEF Inv, Types

-----------------------------------------------------------------------------
(* What the server receives *)

\* Nothing but the message p is read from the connection.
LEMMA ReceivedTypes ==
  ASSUME Inv, NEW p \in Peers, ByServer(Receive(p))
  PROVE  /\ ConnTypes' /\ Head(toServer[p]) \in Message(p) /\ toServer[p] # <<>>
         /\ UNCHANGED <<link, errors, minerVars, schedVars, clientVars>>
         /\ \A q \in Peers : toServer'[q] = IF q = p THEN Tail(toServer[p]) ELSE toServer[q]
<1>1. InTypes /\ toServer[p] # <<>> /\ toServer' = [toServer EXCEPT ![p] = Tail(@)]
  BY DEF ByServer, Receive, Inv, Types, ConnTypes
<1>2. UNCHANGED <<link, toPeer, lossRead, errors, minerVars, schedVars, clientVars>>
  BY DEF ByServer, Receive
<1>3. /\ InTypes' /\ Head(toServer[p]) \in Message(p)
      /\ \A q \in Peers : toServer'[q] = IF q = p THEN Tail(toServer[p]) ELSE toServer[q]
  BY <1>1, InTail
<1>4. ConnTypes'
  BY <1>2, <1>3, LinkSame, OutSame DEF Inv, Types, ConnTypes
<1> QED BY <1>1, <1>2, <1>3, <1>4

LEMMA ReceivedPlan ==
  ASSUME Inv, NEW p \in Peers, ByServer(Receive(p)), ChanTypes', JoinsOnce', AsksOnce'
  PROVE  Inv'
BY ReceivedTypes, MinerSame, SchedSame, ClientSame, PlanSame DEF Inv, Types

\* A client's only message is its request.
LEMMA ReceiveClient == ASSUME Inv, NEW p \in Clients, ByServer(Receive(p)) PROVE Inv'
<1> DEFINE x == Head(toServer[p])
<1>1. p \in Peers
  BY Disjoint
<1>2. /\ x \in Message(p) /\ toServer[p] # <<>>
      /\ UNCHANGED <<link, errors, minerVars, schedVars, clientVars>>
      /\ \A q \in Peers : toServer'[q] = IF q = p THEN Tail(toServer[p]) ELSE toServer[q]
  BY <1>1, ReceivedTypes
<1>3. x.type = "Request" /\ x.upper \in Nonce
  <2>1. x \in [type : {"Request"}, data : {p}, lower : Nonce, upper : Nonce]
    BY <1>2, Disjoint
  <2> HIDE DEF x
  <2> QED BY <2>1
<1>4. requests' = Append(requests, [id |-> p, upper |-> x.upper]) /\ UNCHANGED <<joins, results>>
  BY <1>3 DEF ByServer, Receive
<1>5. UNCHANGED <<miners, tasks>>
  BY <1>2 DEF schedVars
<1> HIDE DEF x
<1>6. PICK n \in [id : Clients, upper : Nonce] : n = [id |-> p, upper |-> x.upper]
  BY <1>3
<1>7. n.id = p /\ requests' = Append(requests, n)
  BY <1>4, <1>6
<1>8. requests \in Seq([id : Clients, upper : Nonce])
  BY DEF Inv, Types, ChanTypes
<1>9. /\ requests' \in Seq([id : Clients, upper : Nonce])
      /\ \A i \in 1 .. Len(requests') :
           \/ i \in 1 .. Len(requests) /\ requests'[i] = requests[i]
           \/ i = Len(requests) + 1 /\ requests'[i] = n
      /\ Len(requests) \in Nat
  BY <1>7, <1>8, AppendSeq
<1>10. ChanTypes'
  BY <1>2, <1>4, <1>9 DEF Inv, Types, ChanTypes
<1>11. toServer'[p] = <<>> /\ p \notin Askers /\ tasks[p] = NoTask /\ link[p] # "none"
  <2>1. PICK s \in Seq(Message(p)) : s = toServer[p]
    BY <1>1 DEF Inv, Types, ConnTypes, InTypes
  <2>2. Len(s) <= 1 /\ s # <<>>
    BY <1>2, <2>1 DEF Inv, AsksOnce
  <2>3. Tail(s) = <<>>
    <3>1. Tail(s) \in Seq(Message(p)) /\ Len(Tail(s)) = Len(s) - 1 /\ Len(s) \in Nat /\ Len(s) > 0
      BY <2>2, TailSeq
    <3>2. PICK t \in Seq(Message(p)) : t = Tail(s)
      BY <3>1
    <3>3. Len(t) = 0
      <4>1. PICK k \in Nat : k = Len(s)
        BY <3>1
      <4>2. k <= 1 /\ k > 0 /\ Len(t) = k - 1
        BY <2>2, <3>1, <3>2, <4>1
      <4> QED BY <4>2
    <3> QED BY <3>2, <3>3, EmptySeq
  <2> QED BY <1>1, <1>2, <2>1, <2>2, <2>3 DEF Inv, AsksOnce
<1>12. \A c \in Clients : c \in Askers' => c \in Askers \/ c = p
  BY <1>7, <1>9 DEF Askers
<1>13. \A i, j \in 1 .. Len(requests') : requests'[i].id = requests'[j].id => i = j
  <2> TAKE i, j \in 1 .. Len(requests')
  <2>1. \A k \in 1 .. Len(requests) : requests[k].id # p
    BY <1>11 DEF Askers
  <2> QED BY <1>7, <1>9, <2>1 DEF Inv, AsksOnce
<1>14. AsksOnce'
  <2> SUFFICES ASSUME NEW c \in Clients
               PROVE  /\ link'[c] = "none" => toServer'[c] = <<>> /\ c \notin Askers' /\ tasks'[c] = NoTask
                      /\ Len(toServer'[c]) <= 1
                      /\ toServer'[c] # <<>> => c \notin Askers' /\ tasks'[c] = NoTask
                      /\ c \in Askers' => tasks'[c] = NoTask
    BY <1>13 DEF AsksOnce
  <2>1. CASE c = p
    <3>1. Len(<<>>) <= 1
      OBVIOUS
    <3> QED BY <1>2, <1>5, <1>11, <2>1, <3>1
  <2>2. CASE c # p
    <3>1. toServer'[c] = toServer[c] /\ link'[c] = link[c] /\ tasks'[c] = tasks[c]
      BY <1>2, <1>5, <2>2, Disjoint
    <3> QED BY <1>12, <2>2, <3>1 DEF Inv, AsksOnce
  <2> QED BY <2>1, <2>2
<1>15. JoinsOnce'
  <2>1. \A m \in Miners : link'[m] = link[m] /\ toServer'[m] = toServer[m]
    BY <1>2, Disjoint
  <2> QED BY <1>4, <1>5, <2>1, JoinsOther DEF Inv
<1> QED BY <1>1, <1>10, <1>14, <1>15, ReceivedPlan

\* A miner joins, or has a result.
LEMMA ReceiveMiner == ASSUME Inv, NEW p \in Miners, ByServer(Receive(p)) PROVE Inv'
<1> DEFINE x == Head(toServer[p])
<1>1. p \in Peers
  BY Disjoint
<1>2. /\ x \in Message(p) /\ toServer[p] # <<>>
      /\ UNCHANGED <<link, errors, minerVars, schedVars, clientVars>>
      /\ \A q \in Peers : toServer'[q] = IF q = p THEN Tail(toServer[p]) ELSE toServer[q]
  BY <1>1, ReceivedTypes
<1>3. x = Join \/ x \in ResultMsg
  BY <1>2, Disjoint
<1>4. x.type # "Request"
  BY <1>3 DEF Join, ResultMsg
<1>5. UNCHANGED requests
  BY <1>4 DEF ByServer, Receive
<1>6. \/ x.type = "Join" /\ joins' = Append(joins, p) /\ UNCHANGED results
      \/ /\ x.type = "Result" /\ UNCHANGED joins
         /\ results' = Append(results, [id |-> p, hash |-> x.hash, nonce |-> x.nonce])
  BY <1>4 DEF ByServer, Receive
<1>7. UNCHANGED <<miners, tasks>>
  BY <1>2 DEF schedVars
<1>8. PICK s \in Seq(Message(p)) : s = toServer[p]
  BY <1>1 DEF Inv, Types, ConnTypes, InTypes
<1>9. s # <<>> /\ x = s[1] /\ 1 \in 1 .. Len(s) /\ toServer'[p] = Tail(s)
  BY <1>1, <1>2, <1>8, TailSeq
<1>10. \A i \in 1 .. Len(toServer'[p]) : i + 1 \in 1 .. Len(s) /\ i + 1 # 1 /\ toServer'[p][i] = s[i + 1]
  <2>1. \A i \in 1 .. Len(Tail(s)) : i + 1 \in 1 .. Len(s) /\ i + 1 # 1 /\ Tail(s)[i] = s[i + 1]
    BY <1>9
  <2> QED BY <1>9, <2>1
<1>11. \A i \in 1 .. Len(toServer'[p]) : toServer'[p][i].type # "Join"
  <2>1. \A i \in 1 .. Len(s) : s[i].type = "Join" => i = 1
    BY <1>8 DEF Inv, JoinsOnce
  <2> QED BY <1>10, <2>1
<1>12. link[p] # "none"
  BY <1>2 DEF Inv, JoinsOnce
<1> HIDE DEF x
<1>13. AsksOnce'
  <2>1. \A c \in Clients : link'[c] = link[c] /\ toServer'[c] = toServer[c]
    BY <1>2, Disjoint
  <2> QED BY <1>5, <1>7, <2>1, AsksOther DEF Inv
<1>14. CASE x.type = "Join" /\ joins' = Append(joins, p) /\ UNCHANGED results
  <2>1. p \notin Elements(joins) /\ miners[p] = NoTask
    BY <1>8, <1>9, <1>14 DEF Inv, JoinsOnce
  <2>2. joins \in Seq(Miners)
    BY DEF Inv, Types, ChanTypes
  <2>3. joins' \in Seq(Miners) /\ Elements(joins') = Elements(joins) \cup {p} /\ Distinct(joins')
    BY <1>14, <2>1, <2>2, AppendSeq DEF Inv, JoinsOnce
  <2>4. ChanTypes'
    BY <1>2, <1>5, <1>14, <2>3 DEF Inv, Types, ChanTypes
  <2>5. Elements(joins)' = Elements(joins') /\ Distinct(joins)'
    BY <2>3 DEF Elements, Distinct
  <2>6. JoinsOnce'
    <3> SUFFICES ASSUME NEW m \in Miners
                 PROVE  /\ link'[m] = "none" => toServer'[m] = <<>> /\ m \notin Elements(joins)' /\ miners'[m] = NoTask
                        /\ \A i \in 1 .. Len(toServer'[m]) :
                             toServer'[m][i].type = "Join" => i = 1 /\ m \notin Elements(joins)' /\ miners'[m] = NoTask
                        /\ m \in Elements(joins)' => miners'[m] = NoTask
      BY <2>5 DEF JoinsOnce
    <3>1. CASE m = p
      BY <1>2, <1>7, <1>11, <1>12, <2>1, <3>1
    <3>2. CASE m # p
      <4>1. toServer'[m] = toServer[m] /\ link'[m] = link[m] /\ miners'[m] = miners[m]
        BY <1>2, <1>7, <3>2, Disjoint
      <4>2. m \in Elements(joins)' <=> m \in Elements(joins)
        BY <2>3, <2>5, <3>2
      <4> QED BY <4>1, <4>2 DEF Inv, JoinsOnce
    <3> QED BY <3>1, <3>2
  <2> QED BY <1>1, <1>13, <2>4, <2>6, ReceivedPlan
<1>15. CASE /\ x.type = "Result" /\ UNCHANGED joins
            /\ results' = Append(results, [id |-> p, hash |-> x.hash, nonce |-> x.nonce])
  <2>1. PICK r \in [id : Miners, hash : Nat, nonce : Nonce] : r = [id |-> p, hash |-> x.hash, nonce |-> x.nonce]
    BY <1>3, <1>15 DEF ResultMsg, Join
  <2>2. results' \in Seq([id : Miners, hash : Nat, nonce : Nonce])
    <3>1. results \in Seq([id : Miners, hash : Nat, nonce : Nonce]) /\ results' = Append(results, r)
      BY <1>15, <2>1 DEF Inv, Types, ChanTypes
    <3> QED BY <3>1, AppendSeq
  <2>3. ChanTypes'
    BY <1>2, <1>5, <1>15, <2>2 DEF Inv, Types, ChanTypes
  <2>4. Elements(joins)' = Elements(joins) /\ Distinct(joins)'
    BY <1>15 DEF Elements, Distinct, Inv, JoinsOnce
  <2>5. JoinsOnce'
    <3> SUFFICES ASSUME NEW m \in Miners
                 PROVE  /\ link'[m] = "none" => toServer'[m] = <<>> /\ m \notin Elements(joins)' /\ miners'[m] = NoTask
                        /\ \A i \in 1 .. Len(toServer'[m]) :
                             toServer'[m][i].type = "Join" => i = 1 /\ m \notin Elements(joins)' /\ miners'[m] = NoTask
                        /\ m \in Elements(joins)' => miners'[m] = NoTask
      BY <2>4 DEF JoinsOnce
    <3>1. CASE m = p
      BY <1>2, <1>7, <1>11, <1>12, <2>4, <3>1 DEF Inv, JoinsOnce
    <3>2. CASE m # p
      <4>1. toServer'[m] = toServer[m] /\ link'[m] = link[m] /\ miners'[m] = miners[m]
        BY <1>2, <1>7, <3>2, Disjoint
      <4> QED BY <2>4, <4>1 DEF Inv, JoinsOnce
    <3> QED BY <3>1, <3>2
  <2> QED BY <1>1, <1>13, <2>3, <2>5, ReceivedPlan
<1> QED BY <1>6, <1>14, <1>15

LEMMA ReceiveErrorInv == ASSUME Inv, NEW p \in Peers, ByServer(ReceiveError(p)) PROVE Inv'
<1>1. UNCHANGED <<link, toServer, toPeer, minerVars, joins, requests, results, schedVars, clientVars>>
  BY DEF ByServer, ReceiveError
<1>2. errors' \in Seq(Peers)
  BY AppendSeq DEF ByServer, ReceiveError, Inv, Types, ChanTypes
<1>3. ChanTypes'
  BY <1>1, <1>2 DEF Inv, Types, ChanTypes
<1>4. LinkTypes'
  BY <1>1 DEF Inv, Types, ConnTypes, LinkTypes, ByServer, ReceiveError
<1>5. ConnTypes'
  BY <1>1, <1>4, InSame, OutSame DEF Inv, Types, ConnTypes
<1>6. JoinsOnce' /\ AsksOnce'
  BY <1>1, JoinsKept, AsksKept DEF Inv, schedVars
<1> QED BY <1>1, <1>3, <1>5, <1>6, MinerSame, SchedSame, ClientSame, PlanSame DEF Inv, Types

LEMMA ResultIgnoredInv == ASSUME Inv, ByServer(ResultIgnored) PROVE Inv'
<1>1. UNCHANGED <<connVars, minerVars, joins, requests, errors, schedVars, clientVars>>
  BY DEF ByServer, ResultIgnored
<1>2. results' \in Seq([id : Miners, hash : Nat, nonce : Nonce])
  BY TailSeq DEF ByServer, ResultIgnored, Inv, Types, ChanTypes
<1>3. ChanTypes'
  BY <1>1, <1>2 DEF Inv, Types, ChanTypes
<1>4. JoinsOnce' /\ AsksOnce'
  BY <1>1, JoinsKept, AsksKept DEF Inv, schedVars, connVars
<1> QED BY <1>1, <1>3, <1>4, ConnSame, MinerSame, SchedSame, ClientSame, PlanSame DEF Inv, Types

-----------------------------------------------------------------------------
(* The parts of a request that are left *)

LEMMA LeftNat ==
  ASSUME SchedTypes, NEW c
  PROVE  /\ IsFiniteSet(BusyWith(c)) /\ Cardinality(BusyWith(c)) \in Nat
         /\ PendingOf(c) = Places(pendingRequests, c) /\ Cardinality(PendingOf(c)) \in Nat
         /\ PartsLeft(c) = Cardinality(BusyWith(c)) + Cardinality(PendingOf(c)) /\ PartsLeft(c) \in Nat
<1>1. IsFiniteSet(BusyWith(c)) /\ Cardinality(BusyWith(c)) \in Nat
  <2>1. BusyWith(c) \in SUBSET Miners
    BY DEF BusyWith
  <2> QED BY <2>1, FS_Subset, FS_CardinalityType DEF BitcoinAssumption
<1>2. PendingOf(c) = Places(pendingRequests, c)
  BY DEF PendingOf, Places
<1>3. Cardinality(PendingOf(c)) \in Nat
  BY <1>2, PlacesFinite DEF SchedTypes
<1> QED BY <1>1, <1>2, <1>3 DEF PartsLeft

\* A client some part of whose request is left has a task, and is waited for.
LEMMA LeftTask ==
  ASSUME SchedTypes, PartsConserved, NEW c \in Clients, PartsLeft(c) # 0
  PROVE  /\ tasks[c] \in Task /\ tasks[c] # NoTask
         /\ tasks[c].miners \in Nat \ {0} /\ tasks[c].lost \in BOOLEAN /\ tasks[c].min \in Finding
         /\ tasks[c].miners >= PartsLeft(c)
         /\ ~tasks[c].lost => tasks[c].miners = PartsLeft(c)
<1>1. tasks[c] # NoTask
  BY DEF PartsConserved
<1>2. tasks[c] \in Task
  BY <1>1 DEF SchedTypes
<1> QED BY <1>1, <1>2 DEF PartsConserved, Task

LEMMA BusyLeft ==
  ASSUME SchedTypes, NEW m \in Miners, Busy(m)
  PROVE  /\ miners[m] \in Part /\ miners[m].client \in Clients /\ m \in BusyWith(miners[m].client)
         /\ PartsLeft(miners[m].client) # 0
<1>1. miners[m] \in Assigned /\ miners[m].client # Nobody
  BY DEF SchedTypes, Busy
<1>2. miners[m] \in Part /\ miners[m].client \in Clients
  BY <1>1 DEF Assigned, Part
<1>3. m \in BusyWith(miners[m].client)
  BY DEF BusyWith
<1>4. Cardinality(BusyWith(miners[m].client)) # 0
  BY <1>3, LeftNat, FS_EmptySet
<1> QED BY <1>2, <1>3, <1>4, LeftNat

LEMMA PendingLeft ==
  ASSUME SchedTypes, pendingRequests # <<>>
  PROVE  /\ Head(pendingRequests) \in Part /\ Head(pendingRequests).client \in Clients
         /\ PartsLeft(Head(pendingRequests).client) # 0
<1>1. pendingRequests \in Seq(Part)
  BY DEF SchedTypes
<1>2. Head(pendingRequests) \in Part /\ Tail(pendingRequests) \in Seq(Part)
  BY <1>1, TailSeq
<1>3. PICK r \in Part : r = Head(pendingRequests)
  BY <1>2
<1>4. Cardinality(Places(pendingRequests, r.client)) = Cardinality(Places(Tail(pendingRequests), r.client)) + 1
  BY <1>1, <1>3, PlacesTail
<1>5. Cardinality(Places(Tail(pendingRequests), r.client)) \in Nat
  BY <1>2, PlacesFinite
<1>6. Cardinality(PendingOf(r.client)) # 0
  BY <1>4, <1>5, LeftNat
<1>7. PartsLeft(r.client) # 0
  BY <1>6, LeftNat
<1> QED BY <1>3, <1>7 DEF Part

One(b) == IF b THEN 1 ELSE 0

\* m works for c, in the table f of miners.
WorksFor(f, m, c) == f[m] # NoTask /\ f[m].client = c
Load(f, m, c) == One(WorksFor(f, m, c))

\* The miners that work for c.
Crew(f, c) == {m \in Miners : WorksFor(f, m, c)}

LEMMA BusyCrew ==
  ASSUME NEW c \in Clients
  PROVE  /\ BusyWith(c) = Crew(miners, c) /\ BusyWith(c)' = Crew(miners', c)
         /\ PendingOf(c) = Places(pendingRequests, c) /\ PendingOf(c)' = Places(pendingRequests', c)
         /\ PartsLeft(c) = Cardinality(Crew(miners, c)) + Cardinality(Places(pendingRequests, c))
         /\ PartsLeft(c)' = Cardinality(Crew(miners', c)) + Cardinality(Places(pendingRequests', c))
<1>1. c # Nobody
  BY DEF BitcoinAssumption
<1>2. BusyWith(c) = Crew(miners, c) /\ BusyWith(c)' = Crew(miners', c)
  BY <1>1 DEF BusyWith, Busy, Crew, WorksFor
<1>3. PendingOf(c) = Places(pendingRequests, c) /\ PendingOf(c)' = Places(pendingRequests', c)
  BY DEF PendingOf, Places
<1> QED BY <1>2, <1>3 DEF PartsLeft

LEMMA CrewFinite == ASSUME NEW f, NEW c PROVE IsFiniteSet(Crew(f, c)) /\ Cardinality(Crew(f, c)) \in Nat
<1>1. Crew(f, c) \in SUBSET Miners
  BY DEF Crew
<1> QED BY <1>1, FS_Subset, FS_CardinalityType DEF BitcoinAssumption

\* The work of one miner changes.
LEMMA CrewStep ==
  ASSUME SchedTypes, SchedTypes', NEW m \in Miners, NEW x, miners' = [miners EXCEPT ![m] = x], NEW c
  PROVE  Cardinality(Crew(miners', c)) + Load(miners, m, c)
           = Cardinality(Crew(miners, c)) + Load(miners', m, c)
<1>1. \A q \in Miners : miners'[q] = IF q = m THEN x ELSE miners[q]
  BY DEF SchedTypes
<1>2. \A q \in Miners : q # m => (WorksFor(miners', q, c) <=> WorksFor(miners, q, c))
  BY <1>1 DEF WorksFor
<1>3. PICK a \in Nat, b \in Nat : a = Cardinality(Crew(miners, c)) /\ b = Cardinality(Crew(miners', c))
  BY CrewFinite
<1>4. IsFiniteSet(Crew(miners, c))
  BY CrewFinite
<1>5. m \in Crew(miners, c) <=> WorksFor(miners, m, c)
  BY DEF Crew
<1>6. CASE WorksFor(miners, m, c) /\ WorksFor(miners', m, c)
  <2>1. Crew(miners', c) = Crew(miners, c)
    BY <1>2, <1>6 DEF Crew
  <2> QED BY <1>6, <2>1 DEF One, Load
<1>7. CASE ~WorksFor(miners, m, c) /\ ~WorksFor(miners', m, c)
  <2>1. Crew(miners', c) = Crew(miners, c)
    BY <1>2, <1>7 DEF Crew
  <2> QED BY <1>7, <2>1 DEF One, Load
<1>8. CASE WorksFor(miners, m, c) /\ ~WorksFor(miners', m, c)
  <2>1. Crew(miners', c) = Crew(miners, c) \ {m}
    BY <1>2, <1>8 DEF Crew
  <2>2. b = a - 1
    <3>1. Cardinality(Crew(miners, c) \ {m}) = Cardinality(Crew(miners, c)) - 1
      BY <1>4, <1>5, <1>8, FS_RemoveElement
    <3> QED BY <1>3, <2>1, <3>1
  <2> QED BY <1>3, <1>8, <2>2 DEF One, Load
<1>9. CASE ~WorksFor(miners, m, c) /\ WorksFor(miners', m, c)
  <2>1. Crew(miners', c) = Crew(miners, c) \cup {m}
    BY <1>2, <1>9 DEF Crew
  <2>2. b = a + 1
    <3>1. Cardinality(Crew(miners, c) \cup {m}) = Cardinality(Crew(miners, c)) + 1
      BY <1>4, <1>5, <1>9, FS_AddElement
    <3> QED BY <1>3, <2>1, <3>1
  <2> QED BY <1>3, <1>9, <2>2 DEF One, Load
<1> QED BY <1>6, <1>7, <1>8, <1>9

\* Task t waits for the n parts that are left.
Owes(t, n) == IF t = NoTask THEN n = 0 ELSE t.miners >= n /\ (~t.lost => t.miners = n)

LEMMA OwesForm ==
  /\ PartsConserved <=> \A c \in Clients : Owes(tasks[c], PartsLeft(c))
  /\ PartsConserved' <=> \A c \in Clients : Owes(tasks'[c], PartsLeft(c)')
BY DEF PartsConserved, Owes

\* Nothing is done to c's parts.
LEMMA PartsKept ==
  ASSUME NEW c \in Clients, PartsLeft(c)' = PartsLeft(c), tasks'[c] = tasks[c], PartsConserved
  PROVE  Owes(tasks'[c], PartsLeft(c)') /\ (PartDropped(c)' <=> PartDropped(c))
BY OwesForm DEF PartDropped

\* The miners without work that are known to the scheduler.
IdleIn(f) == {m \in Miners : f[m] # NoTask /\ f[m].client = Nobody}

LEMMA FreeForm ==
  ASSUME freeMiners \in Seq(Miners)
  PROVE  FreeListExact <=> Distinct(freeMiners) /\ Elements(freeMiners) = IdleIn(miners)
<1>1. ToSet(freeMiners) = Elements(freeMiners)
  BY DEF ToSet, Elements
<1>2. {m \in Miners : miners[m] # NoTask /\ ~Busy(m)} = IdleIn(miners)
  BY DEF Busy, IdleIn
<1> QED BY <1>1, <1>2 DEF FreeListExact, Distinct

LEMMA FreeFormNext ==
  ASSUME freeMiners' \in Seq(Miners), Distinct(freeMiners'), Elements(freeMiners') = IdleIn(miners')
  PROVE  FreeListExact'
<1>1. ToSet(freeMiners)' = Elements(freeMiners')
  BY DEF ToSet, Elements
<1>2. {m \in Miners : miners[m] # NoTask /\ ~Busy(m)}' = IdleIn(miners')
  BY DEF Busy, IdleIn
<1> QED BY <1>1, <1>2 DEF FreeListExact, Distinct

LEMMA FreeKept == FreeListExact /\ UNCHANGED <<freeMiners, miners>> => FreeListExact'
BY DEF FreeListExact, ToSet, Busy

-----------------------------------------------------------------------------
(* What the scheduler does *)

LEMMA HandleRequestInv == ASSUME Inv, ByServer(HandleRequest) PROVE Inv'
<1> DEFINE r == Head(requests)
<1>1. UNCHANGED <<connVars, minerVars, joins, results, errors, freeMiners, miners, clientVars>>
  BY DEF ByServer, HandleRequest
<1>2. /\ requests # <<>> /\ requests' = Tail(requests) /\ trigger < ChanCap /\ trigger' = trigger + 1
      /\ pendingRequests' = pendingRequests \o Parts(r)
      /\ tasks' = [tasks EXCEPT ![r.id] = [lost |-> FALSE, min |-> Unset, miners |-> Stride(r.upper)]]
  BY DEF ByServer, HandleRequest, Trigger
<1>3. /\ requests \in Seq(Asked) /\ freeMiners \in Seq(Miners)
      /\ pendingRequests \in Seq(Part) /\ tasks \in [Clients -> {NoTask} \cup Task] /\ SchedTypes
  BY DEF Inv, Types, ChanTypes, SchedTypes, Asked
<1>4. /\ r \in Asked /\ Tail(requests) \in Seq(Asked)
      /\ Len(requests) \in Nat /\ Len(requests) > 0 /\ r = requests[1]
      /\ \A i \in 1 .. Len(Tail(requests)) : i + 1 \in 1 .. Len(requests) /\ Tail(requests)[i] = requests[i + 1]
      /\ Len(Tail(requests)) = Len(requests) - 1
  BY <1>2, <1>3, TailSeq
<1> HIDE DEF r
<1>5. PICK d \in Clients : d = r.id /\ d \in Askers
  BY <1>4 DEF Askers, Asked
<1>6. /\ Parts(r) \in Seq(Part) /\ Len(Parts(r)) = Stride(r.upper) /\ Stride(r.upper) \in Nat \ {0}
      /\ \A i \in 1 .. Len(Parts(r)) : Parts(r)[i].client = r.id
  BY <1>3, <1>4, PartsSeq DEF Asked
<1>7. PICK n \in Nat \ {0} : n = Stride(r.upper)
  BY <1>6
<1>8. PICK p \in Seq(Part) : p = Parts(r)
  BY <1>6
<1>9. PICK t \in Task : t = [lost |-> FALSE, min |-> Unset, miners |-> n]
  BY UnsetFound DEF Task
<1>10. t.miners = n /\ t.lost = FALSE /\ t # NoTask /\ n \in Nat
  BY <1>9 DEF Task, BitcoinAssumption
<1>11. tasks' = [tasks EXCEPT ![d] = t]
  BY <1>2, <1>5, <1>7, <1>9
<1>12. \A c \in Clients : tasks'[c] = IF c = d THEN t ELSE tasks[c]
  BY <1>3, <1>5, <1>11
<1>13. tasks[d] = NoTask /\ toServer[d] = <<>> /\ link[d] # "none"
  BY <1>5 DEF Inv, AsksOnce
<1>14. SchedTypes'
  <2>1. pendingRequests' \in Seq(Part)
    BY <1>2, <1>3, <1>8
  <2>2. tasks' \in [Clients -> {NoTask} \cup Task]
    BY <1>3, <1>5, <1>11
  <2>3. trigger' \in 0 .. ChanCap
    BY <1>2 DEF Inv, Types, SchedTypes, ServerAssumption
  <2> QED BY <1>1, <2>1, <2>2, <2>3 DEF Inv, Types, SchedTypes
<1>15. ChanTypes'
  BY <1>1, <1>2, <1>4 DEF Inv, Types, ChanTypes, Asked
<1>16. JoinsOnce'
  BY <1>1, JoinsKept DEF Inv, connVars
<1>17. AsksOnce'
  <2>1. \A i \in 1 .. Len(requests') : requests'[i].id # d
    <3> TAKE i \in 1 .. Len(requests')
    <3>1. i + 1 \in 1 .. Len(requests) /\ requests'[i] = requests[i + 1] /\ 1 \in 1 .. Len(requests) /\ i + 1 # 1
      BY <1>2, <1>4
    <3> QED BY <1>4, <1>5, <3>1 DEF Inv, AsksOnce
  <2>2. \A c \in Clients : c \in Askers' => c \in Askers /\ c # d
    <3> TAKE c \in Clients
    <3> SUFFICES ASSUME c \in Askers' PROVE c \in Askers /\ c # d
      OBVIOUS
    <3>1. PICK i \in 1 .. Len(requests') : c = requests'[i].id
      BY DEF Askers
    <3>2. i + 1 \in 1 .. Len(requests) /\ requests'[i] = requests[i + 1]
      BY <1>2, <1>4
    <3> QED BY <2>1, <3>1, <3>2 DEF Askers
  <2>3. \A i, j \in 1 .. Len(requests') : requests'[i].id = requests'[j].id => i = j
    <3> TAKE i, j \in 1 .. Len(requests')
    <3>1. /\ i + 1 \in 1 .. Len(requests) /\ requests'[i] = requests[i + 1]
          /\ j + 1 \in 1 .. Len(requests) /\ requests'[j] = requests[j + 1]
      BY <1>2, <1>4
    <3>2. requests'[i].id = requests'[j].id => i + 1 = j + 1
      BY <3>1 DEF Inv, AsksOnce
    <3> QED BY <1>2, <1>4, <3>2
  <2>4. UNCHANGED <<link, toServer>>
    BY <1>1 DEF connVars
  <2>5. \A c \in Clients : c # d => tasks'[c] = tasks[c]
    BY <1>12
  <2>6. ASSUME NEW c \in Clients
        PROVE  /\ link'[c] = "none" => toServer'[c] = <<>> /\ c \notin Askers' /\ tasks'[c] = NoTask
               /\ Len(toServer'[c]) <= 1
               /\ toServer'[c] # <<>> => c \notin Askers' /\ tasks'[c] = NoTask
               /\ c \in Askers' => tasks'[c] = NoTask
    <3>1. CASE c = d
      BY <1>13, <2>2, <2>4, <3>1 DEF Inv, AsksOnce
    <3>2. CASE c # d
      BY <2>2, <2>4, <2>5, <3>2 DEF Inv, AsksOnce
    <3> QED BY <3>1, <3>2
  <2> QED BY <2>3, <2>6 DEF AsksOnce
<1>18. \A c \in Clients : PartsLeft(c)' = IF c = d THEN n ELSE PartsLeft(c)
  <2>5. PICK s \in Seq(Part) : s = pendingRequests
    BY <1>3
  <2>1. Cardinality(Crew(miners, d)) = 0 /\ Cardinality(Places(s, d)) = 0
    <3>1. PartsLeft(d) = 0
      BY <1>5, <1>13 DEF Inv, Plan, PartsConserved
    <3>2. PICK a \in Nat, b \in Nat : a = Cardinality(Crew(miners, d)) /\ b = Cardinality(Places(s, d))
      BY CrewFinite, PlacesFinite
    <3>3. a + b = 0
      BY <2>5, <3>1, <3>2, BusyCrew
    <3> QED BY <3>2, <3>3
  <2> TAKE c \in Clients
  <2>2. Cardinality(Places(s \o p, c)) = IF c = d THEN n ELSE Cardinality(Places(s, c))
    <3>1. Len(p) = n /\ \A i \in 1 .. Len(p) : p[i].client = d
      BY <1>5, <1>6, <1>7, <1>8
    <3> QED BY <2>1, <3>1, PlacesConcat
  <2>3. PartsLeft(c)' = Cardinality(Crew(miners, c)) + Cardinality(Places(s \o p, c))
    BY <1>1, <1>2, <1>8, <2>5, BusyCrew
  <2>4. PartsLeft(c) = Cardinality(Crew(miners, c)) + Cardinality(Places(s, c))
    BY <2>5, BusyCrew
  <2>6. PICK a \in Nat : a = Cardinality(Crew(miners, c))
    BY CrewFinite
  <2> QED BY <2>1, <2>2, <2>3, <2>4, <2>6
<1>19. PartsConserved'
  <2>1. \A c \in Clients : c # d => PartsLeft(c)' = PartsLeft(c) /\ tasks'[c] = tasks[c]
    BY <1>12, <1>18
  <2>2. tasks'[d] = t /\ PartsLeft(d)' = n
    BY <1>5, <1>12, <1>18
  <2>3. Owes(t, n)
    BY <1>10 DEF Owes
  <2> QED BY <2>1, <2>2, <2>3, PartsKept, OwesForm DEF Inv, Plan
<1>20. Awake'
  BY <1>2, <1>3 DEF Awake, SchedTypes
<1>21. Plan'
  BY <1>1, <1>19, <1>20, FreeKept DEF Inv, Plan
<1> QED BY <1>1, <1>14, <1>15, <1>16, <1>17, <1>21, ConnSame, MinerSame, ClientSame DEF Inv, Types

LEMMA TriggerIdleInv == ASSUME Inv, ByServer(TriggerIdle) PROVE Inv'
<1>1. UNCHANGED <<connVars, minerVars, chanVars, freeMiners, miners, pendingRequests, tasks, clientVars>>
  BY DEF ByServer, TriggerIdle
<1>2. trigger > 0 /\ (freeMiners = <<>> \/ pendingRequests = <<>>) /\ trigger' = trigger - 1
  BY DEF ByServer, TriggerIdle
<1>3. SchedTypes'
  BY <1>1, <1>2 DEF Inv, Types, SchedTypes, ServerAssumption
<1>4. JoinsOnce' /\ AsksOnce'
  BY <1>1, JoinsKept, AsksKept DEF Inv, connVars, chanVars
<1>5. \A c \in Clients : PartsLeft(c)' = PartsLeft(c) /\ tasks'[c] = tasks[c]
  BY <1>1, BusyCrew
<1>6. PartsConserved'
  BY <1>5, PartsKept, OwesForm DEF Inv, Plan
<1>7. Awake'
  BY <1>1, <1>2 DEF Awake
<1>8. Plan'
  BY <1>1, <1>6, <1>7, FreeKept DEF Inv, Plan
<1> QED BY <1>1, <1>3, <1>4, <1>8, ConnSame, MinerSame, ChanSame, ClientSame DEF Inv, Types

\* The part that is dropped is remembered: its task waits for more than is left.
LEMMA TriggerLostInv == ASSUME Inv, ByServer(TriggerLost) PROVE Inv'
<1>1. UNCHANGED <<connVars, minerVars, chanVars, freeMiners, miners, tasks, clientVars>>
  BY DEF ByServer, TriggerLost
<1>2. /\ trigger > 0 /\ pendingRequests # <<>> /\ tasks[Head(pendingRequests).client].lost
      /\ trigger' = trigger - 1 /\ pendingRequests' = Tail(pendingRequests)
  BY DEF ByServer, TriggerLost
<1>3. SchedTypes /\ pendingRequests \in Seq(Part)
  BY DEF Inv, Types, SchedTypes
<1>4. Tail(pendingRequests) \in Seq(Part)
  BY <1>2, <1>3, TailSeq
<1>5. SchedTypes'
  BY <1>1, <1>2, <1>4 DEF Inv, Types, SchedTypes, ServerAssumption
<1>6. JoinsOnce' /\ AsksOnce'
  BY <1>1, JoinsKept, AsksKept DEF Inv, connVars, chanVars
<1>7. PICK d \in Clients : d = Head(pendingRequests).client /\ PartsLeft(d) # 0
  BY <1>2, <1>3, PendingLeft
<1>8. \A c \in Clients : PartsLeft(c) \in Nat /\ PartsLeft(c) = PartsLeft(c)' + One(c = d)
  <2> TAKE c \in Clients
  <2>1. PICK a \in Nat, b \in Nat : a = Cardinality(Crew(miners, c)) /\ b = Cardinality(Places(Tail(pendingRequests), c))
    BY <1>4, CrewFinite, PlacesFinite
  <2>2. Cardinality(Places(pendingRequests, c)) = b + One(c = d)
    BY <1>2, <1>3, <1>7, <2>1, PlacesTail DEF One
  <2>3. PartsLeft(c) = a + (b + One(c = d)) /\ PartsLeft(c)' = a + b
    BY <1>1, <1>2, <2>1, <2>2, BusyCrew
  <2> QED BY <2>1, <2>3 DEF One
<1>9. /\ tasks[d].miners \in Nat \ {0} /\ tasks[d].miners >= PartsLeft(d) /\ tasks[d] # NoTask /\ tasks[d].lost
  BY <1>2, <1>3, <1>7, LeftTask DEF Inv, Plan
<1>10. PartsLeft(d)' < tasks[d].miners
  <2>1. PICK k \in Nat : k = PartsLeft(d)
    BY <1>8
  <2>2. PartsLeft(d)' = k - 1
    <3>1. One(d = d) = 1
      BY DEF One
    <3>2. PICK j \in Nat : j = PartsLeft(d)'
      BY <1>5, BusyCrew, CrewFinite, PlacesFinite DEF SchedTypes
    <3>3. k = j + 1
      BY <1>8, <2>1, <3>1, <3>2
    <3> QED BY <3>2, <3>3
  <2> QED BY <1>9, <2>1, <2>2
<1>11. \A c \in Clients : c # d => PartsLeft(c)' = PartsLeft(c)
  <2> TAKE c \in Clients
  <2> SUFFICES ASSUME c # d PROVE PartsLeft(c)' = PartsLeft(c)
    OBVIOUS
  <2>1. PICK j \in Nat : j = PartsLeft(c)'
    BY <1>5, BusyCrew, CrewFinite, PlacesFinite DEF SchedTypes
  <2>2. PartsLeft(c) = j + 0
    BY <1>8, <2>1 DEF One
  <2> QED BY <2>1, <2>2
<1>12. PartsConserved'
  <2>1. PICK j \in Nat, k \in Nat : j = PartsLeft(d)' /\ k = tasks[d].miners
    BY <1>5, <1>9, BusyCrew, CrewFinite, PlacesFinite DEF SchedTypes
  <2>2. k >= j
    BY <1>10, <2>1
  <2>3. Owes(tasks[d], PartsLeft(d)')
    BY <1>9, <2>1, <2>2 DEF Owes
  <2> QED BY <1>1, <1>11, <2>3, PartsKept, OwesForm DEF Inv, Plan
<1>13. PartDropped(d)'
  BY <1>1, <1>9, <1>10 DEF PartDropped
<1>14. Plan'
  BY <1>1, <1>12, <1>13, FreeKept DEF Inv, Plan, Awake
<1> QED BY <1>1, <1>5, <1>6, <1>14, ConnSame, MinerSame, ChanSame, ClientSame DEF Inv, Types

LEMMA TriggerAssignInv == ASSUME Inv, ByServer(TriggerAssign) PROVE Inv'
<1>1. UNCHANGED <<link, toServer, lossRead, minerVars, chanVars, tasks, clientVars>>
  BY DEF ByServer, TriggerAssign
<1>2. SchedTypes /\ pendingRequests \in Seq(Part) /\ freeMiners \in Seq(Miners)
  BY DEF Inv, Types, SchedTypes
<1>3. /\ trigger > 0 /\ freeMiners # <<>> /\ pendingRequests # <<>>
      /\ trigger' = trigger - 1 /\ pendingRequests' = Tail(pendingRequests) /\ freeMiners' = Tail(freeMiners)
  BY DEF ByServer, TriggerAssign
<1>4. PICK r \in Part : r = Head(pendingRequests)
  BY <1>2, <1>3, PendingLeft
<1>5. PICK m \in Miners : m = Head(freeMiners)
  BY <1>2, <1>3, TailSeq
<1>6. miners' = [miners EXCEPT ![m] = r] /\ toPeer' = Written(toPeer, m, Request(r.client, r.lower, r.upper))
  BY <1>4, <1>5 DEF ByServer, TriggerAssign
<1>7. r.client \in Clients /\ r \in Assigned /\ r # NoTask /\ r.client # Nobody
  BY DEF Part, Assigned, BitcoinAssumption
<1>8. /\ Tail(freeMiners) \in Seq(Miners) /\ Tail(pendingRequests) \in Seq(Part)
      /\ Elements(freeMiners) = {m} \cup Elements(Tail(freeMiners))
      /\ Distinct(freeMiners) => Distinct(Tail(freeMiners)) /\ m \notin Elements(Tail(freeMiners))
  BY <1>2, <1>3, <1>5, TailSeq
<1>9. \A q \in Miners : miners'[q] = IF q = m THEN r ELSE miners[q]
  BY <1>6 DEF Inv, Types, SchedTypes
<1>10. Distinct(freeMiners) /\ Elements(freeMiners) = IdleIn(miners)
  BY <1>2, FreeForm DEF Inv, Plan
<1>11. miners[m] # NoTask /\ miners[m].client = Nobody
  BY <1>8, <1>10 DEF IdleIn
<1>12. ConnTypes'
  <2>1. Request(r.client, r.lower, r.upper) \in Answer(m) /\ m \in Peers
    <3>1. Request(r.client, r.lower, r.upper) \in RequestMsg
      BY DEF Part, Request, RequestMsg
    <3> QED BY <3>1, Disjoint
  <2>2. OutTypes'
    BY <1>6, <2>1, OutWritten DEF Inv, Types, ConnTypes
  <2> QED BY <1>1, <2>2, LinkSame, InSame DEF Inv, Types, ConnTypes
<1>13. SchedTypes'
  <2>1. trigger' \in 0 .. ChanCap
    BY <1>3 DEF Inv, Types, SchedTypes, ServerAssumption
  <2>2. miners' \in [Miners -> {NoTask} \cup Assigned]
    BY <1>6, <1>7 DEF Inv, Types, SchedTypes
  <2> QED BY <1>1, <1>3, <1>8, <2>1, <2>2 DEF Inv, Types, SchedTypes
<1>14. JoinsOnce' /\ AsksOnce'
  BY <1>1, <1>9, <1>11, JoinsKept, AsksKept DEF Inv, chanVars
<1>15. FreeListExact'
  <2>1. Elements(freeMiners') = IdleIn(miners')
    BY <1>3, <1>7, <1>8, <1>9, <1>10 DEF IdleIn
  <2> QED BY <1>3, <1>8, <1>10, <2>1, FreeFormNext
<1>16. \A c \in Clients : PartsLeft(c)' = PartsLeft(c)
  <2> TAKE c \in Clients
  <2>1. PICK a \in Nat, b \in Nat, x \in Nat :
          a = Cardinality(Crew(miners, c)) /\ x = Cardinality(Crew(miners', c))
          /\ b = Cardinality(Places(Tail(pendingRequests), c))
    BY <1>8, CrewFinite, PlacesFinite
  <2>2. Cardinality(Places(pendingRequests, c)) = b + One(r.client = c)
    BY <1>2, <1>3, <1>4, <2>1, PlacesTail DEF One
  <2>3. x + Load(miners, m, c) = a + Load(miners', m, c)
    BY <1>2, <1>6, <1>13, <2>1, CrewStep
  <2>4. ~WorksFor(miners, m, c) /\ (WorksFor(miners', m, c) <=> r.client = c)
    BY <1>7, <1>9, <1>11 DEF WorksFor, BitcoinAssumption
  <2>5. x = a + One(r.client = c)
    BY <2>3, <2>4 DEF One, Load
  <2>6. PartsLeft(c) = a + (b + One(r.client = c)) /\ PartsLeft(c)' = x + b
    BY <1>3, <2>1, <2>2, BusyCrew
  <2> QED BY <2>5, <2>6 DEF One
<1>17. PartsConserved'
  BY <1>1, <1>16, PartsKept, OwesForm DEF Inv, Plan
<1>18. Awake'
  <2>1. Busy(m)'
    BY <1>7, <1>9 DEF Busy
  <2> QED BY <2>1 DEF Awake
<1> QED BY <1>1, <1>12, <1>13, <1>14, <1>15, <1>17, <1>18, MinerSame, ChanSame, ClientSame DEF Inv, Types, Plan

LEMMA HandleJoinInv == ASSUME Inv, ByServer(HandleJoin) PROVE Inv'
<1>1. UNCHANGED <<connVars, minerVars, requests, results, errors, pendingRequests, tasks, clientVars>>
  BY DEF ByServer, HandleJoin, AddMiner
<1>2. SchedTypes /\ joins \in Seq(Miners) /\ freeMiners \in Seq(Miners)
  BY DEF Inv, Types, SchedTypes, ChanTypes
<1>3. joins # <<>> /\ joins' = Tail(joins) /\ trigger < ChanCap /\ trigger' = trigger + 1
  BY DEF ByServer, HandleJoin, AddMiner, Trigger
<1>4. PICK m \in Miners : m = Head(joins)
  BY <1>2, <1>3, TailSeq
<1>5. freeMiners' = <<m>> \o freeMiners /\ miners' = [miners EXCEPT ![m] = Free]
  BY <1>4 DEF ByServer, HandleJoin, AddMiner
<1>6. /\ Tail(joins) \in Seq(Miners) /\ Elements(joins) = {m} \cup Elements(Tail(joins))
      /\ Distinct(Tail(joins)) /\ m \notin Elements(Tail(joins))
  BY <1>2, <1>3, <1>4, TailSeq DEF Inv, JoinsOnce
<1>7. miners[m] = NoTask /\ link[m] # "none" /\ \A i \in 1 .. Len(toServer[m]) : toServer[m][i].type # "Join"
  BY <1>6 DEF Inv, JoinsOnce
<1>8. Free \in Assigned /\ Free # NoTask /\ Free.client = Nobody
  BY DEF Free, Assigned, Nonce, MinerAssumption, BitcoinAssumption
<1>9. \A q \in Miners : miners'[q] = IF q = m THEN Free ELSE miners[q]
  BY <1>5 DEF Inv, Types, SchedTypes
<1>10. Distinct(freeMiners) /\ Elements(freeMiners) = IdleIn(miners)
  BY <1>2, FreeForm DEF Inv, Plan
<1>11. m \notin Elements(freeMiners)
  BY <1>7, <1>10 DEF IdleIn
<1>12. /\ freeMiners' \in Seq(Miners) /\ Elements(freeMiners') = Elements(freeMiners) \cup {m}
       /\ Distinct(freeMiners')
  BY <1>2, <1>5, <1>10, <1>11, ConsSeq
<1>13. SchedTypes'
  <2>1. trigger' \in 0 .. ChanCap
    BY <1>3 DEF Inv, Types, SchedTypes, ServerAssumption
  <2>2. miners' \in [Miners -> {NoTask} \cup Assigned]
    BY <1>5, <1>8 DEF Inv, Types, SchedTypes
  <2> QED BY <1>1, <1>12, <2>1, <2>2 DEF Inv, Types, SchedTypes
<1>14. ChanTypes'
  BY <1>1, <1>3, <1>6 DEF Inv, Types, ChanTypes
<1>15. AsksOnce'
  BY <1>1, AsksKept DEF Inv, connVars
<1>16. JoinsOnce'
  <2>5. Distinct(joins') /\ Elements(joins') = Elements(Tail(joins))
    BY <1>3, <1>6
  <2>1. Distinct(joins)' /\ Elements(joins)' = Elements(Tail(joins))
    BY <2>5 DEF Distinct, Elements
  <2>2. UNCHANGED <<link, toServer>>
    BY <1>1 DEF connVars
  <2> SUFFICES ASSUME NEW q \in Miners
               PROVE  /\ link'[q] = "none" => toServer'[q] = <<>> /\ q \notin Elements(joins)' /\ miners'[q] = NoTask
                      /\ \A i \in 1 .. Len(toServer'[q]) :
                           toServer'[q][i].type = "Join" => i = 1 /\ q \notin Elements(joins)' /\ miners'[q] = NoTask
                      /\ q \in Elements(joins)' => miners'[q] = NoTask
    BY <2>1 DEF JoinsOnce
  <2>3. CASE q = m
    BY <1>6, <1>7, <2>1, <2>2, <2>3
  <2>4. CASE q # m
    <3>1. miners'[q] = miners[q] /\ (q \in Elements(joins)' <=> q \in Elements(joins))
      BY <1>6, <1>9, <2>1, <2>4
    <3> QED BY <2>2, <3>1 DEF Inv, JoinsOnce
  <2> QED BY <2>3, <2>4
<1>17. FreeListExact'
  <2>1. Elements(freeMiners') = IdleIn(miners')
    BY <1>8, <1>9, <1>10, <1>12 DEF IdleIn
  <2> QED BY <1>12, <2>1, FreeFormNext
<1>18. \A c \in Clients : PartsLeft(c)' = PartsLeft(c)
  <2> TAKE c \in Clients
  <2>1. Crew(miners', c) = Crew(miners, c)
    BY <1>7, <1>8, <1>9 DEF Crew, WorksFor, BitcoinAssumption
  <2> QED BY <1>1, <2>1, BusyCrew
<1>19. PartsConserved'
  BY <1>1, <1>18, PartsKept, OwesForm DEF Inv, Plan
<1>20. Awake'
  BY <1>2, <1>3 DEF Awake, SchedTypes
<1> QED BY <1>1, <1>13, <1>14, <1>15, <1>16, <1>17, <1>19, <1>20, ConnSame, MinerSame, ClientSame DEF Inv, Types, Plan

LEMMA HandleResultInv == ASSUME Inv, ByServer(HandleResult) PROVE Inv'
<1>1. UNCHANGED <<link, toServer, lossRead, minerVars, joins, requests, errors, pendingRequests, clientVars>>
  BY DEF ByServer, HandleResult
<1>2. /\ SchedTypes /\ results \in Seq(Reported)
      /\ freeMiners \in Seq(Miners) /\ pendingRequests \in Seq(Part) /\ PartsConserved
  BY DEF Inv, Types, SchedTypes, ChanTypes, Plan, Reported
<1>3. results # <<>> /\ results' = Tail(results) /\ trigger < ChanCap /\ trigger' = trigger + 1
  BY DEF ByServer, HandleResult, Trigger
<1>4. PICK r \in Reported : r = Head(results)
  BY <1>2, <1>3, TailSeq
<1>5. PICK m \in Miners : m = r.id
  BY DEF Reported
<1>6. Busy(m)
  BY <1>4, <1>5 DEF ByServer, HandleResult
<1>7. PICK d \in Clients : d = miners[m].client /\ PartsLeft(d) # 0
  BY <1>2, <1>6, BusyLeft
<1>8. PICK t \in Task : t = tasks[d] /\ t # NoTask /\ t.miners >= PartsLeft(d) /\ (~t.lost => t.miners = PartsLeft(d))
  BY <1>2, <1>7, LeftTask
<1>9. PICK n \in Nat \ {0} : n = t.miners
  BY DEF Task
<1>10. PICK f \in Finding : f = Least(t.min, r)
  BY DEF Task, Finding, Least, Reported
<1>11. PICK u \in {NoTask} \cup Task :
         /\ u = IF LastPart(t) THEN NoTask ELSE [t EXCEPT !.miners = @ - 1, !.min = f]
         /\ n = 1 => u = NoTask
         /\ n # 1 => u \in Task /\ u # NoTask /\ u.miners = n - 1 /\ u.lost = t.lost
  <2>1. CASE n = 1
    BY <1>9, <2>1 DEF LastPart
  <2>2. CASE n # 1
    <3>1. PICK u : u = [t EXCEPT !.miners = @ - 1, !.min = f]
      OBVIOUS
    <3>2. u \in Task /\ u.miners = n - 1 /\ u.lost = t.lost
      BY <1>9, <2>2, <3>1, Counted
    <3>3. u # NoTask
      BY <3>2 DEF Task, BitcoinAssumption
    <3> QED BY <1>9, <2>2, <3>1, <3>2, <3>3 DEF LastPart
  <2> QED BY <2>1, <2>2
<1>12. tasks' = [tasks EXCEPT ![d] = u]
  BY <1>4, <1>5, <1>7, <1>8, <1>10, <1>11 DEF ByServer, HandleResult
<1>13. PICK x \in Assigned : miners' = [miners EXCEPT ![m] = x] /\ x.client = Nobody /\ x # NoTask
  <2>1. PICK y \in Assigned : y = miners[m]
    BY <1>6 DEF Inv, Types, SchedTypes, Busy
  <2>2. PICK x \in Assigned : x = [y EXCEPT !.client = Nobody] /\ x.client = Nobody
    BY Freed
  <2>3. miners' = [miners EXCEPT ![m].client = Nobody]
    BY <1>4, <1>5 DEF ByServer, HandleResult
  <2>4. miners' = [miners EXCEPT ![m] = x]
    BY <2>1, <2>2, <2>3
  <2> QED BY <2>2, <2>4 DEF BitcoinAssumption, Assigned
<1>14. \A q \in Miners : miners'[q] = IF q = m THEN x ELSE miners[q]
  BY <1>13 DEF Inv, Types, SchedTypes
<1>15. freeMiners' = Append(freeMiners, m)
  BY <1>4, <1>5 DEF ByServer, HandleResult
<1>16. Distinct(freeMiners) /\ Elements(freeMiners) = IdleIn(miners)
  BY <1>2, FreeForm DEF Inv, Plan
<1>17. m \notin Elements(freeMiners)
  BY <1>6, <1>16 DEF IdleIn, Busy
<1>18. freeMiners' \in Seq(Miners) /\ Elements(freeMiners') = Elements(freeMiners) \cup {m} /\ Distinct(freeMiners')
  BY <1>2, <1>15, <1>16, <1>17, AppendSeq
<1>19. SchedTypes'
  <2>1. trigger' \in 0 .. ChanCap
    BY <1>3 DEF Inv, Types, SchedTypes, ServerAssumption
  <2>2. miners' \in [Miners -> {NoTask} \cup Assigned]
    BY <1>13 DEF Inv, Types, SchedTypes
  <2>3. tasks' \in [Clients -> {NoTask} \cup Task]
    BY <1>12 DEF Inv, Types, SchedTypes
  <2> QED BY <1>1, <1>18, <2>1, <2>2, <2>3 DEF Inv, Types, SchedTypes
<1>20. ChanTypes'
  <2>1. results' \in Seq(Reported)
    BY <1>2, <1>3, TailSeq
  <2> QED BY <1>1, <2>1 DEF Inv, Types, ChanTypes, Reported
<1>21. ConnTypes'
  <2>1. PICK y \in ResultMsg : y = Result(f.hash, f.nonce)
    BY DEF Finding, Result, ResultMsg
  <2>2. toPeer' = toPeer \/ toPeer' = Written(toPeer, d, y)
    BY <1>4, <1>5, <1>7, <1>8, <1>10, <2>1 DEF ByServer, HandleResult
  <2>3. OutTypes'
    BY <2>2, OutSame, OutWritten, Disjoint DEF Inv, Types, ConnTypes
  <2> QED BY <1>1, <2>3, LinkSame, InSame DEF Inv, Types, ConnTypes
<1>22. \A c \in Clients : tasks'[c] = IF c = d THEN u ELSE tasks[c]
  BY <1>12 DEF Inv, Types, SchedTypes
<1>23. JoinsOnce'
  BY <1>1, <1>6, <1>14, JoinsKept DEF Inv, Busy
<1>24. AsksOnce'
  BY <1>1, <1>8, <1>22, AsksKept DEF Inv
<1>25. FreeListExact'
  <2>1. Elements(freeMiners') = IdleIn(miners')
    BY <1>13, <1>14, <1>16, <1>18 DEF IdleIn
  <2> QED BY <1>18, <2>1, FreeFormNext
<1>26. \A c \in Clients : PartsLeft(c) = PartsLeft(c)' + One(c = d) /\ PartsLeft(c)' \in Nat /\ PartsLeft(c) \in Nat
  <2> TAKE c \in Clients
  <2>1. PICK a \in Nat, b \in Nat, y \in Nat :
          /\ a = Cardinality(Crew(miners, c)) /\ y = Cardinality(Crew(miners', c))
          /\ b = Cardinality(Places(pendingRequests, c))
    BY <1>2, CrewFinite, PlacesFinite
  <2>2. y + Load(miners, m, c) = a + Load(miners', m, c)
    BY <1>2, <1>13, <1>19, <2>1, CrewStep
  <2>3. Load(miners, m, c) = One(c = d) /\ Load(miners', m, c) = 0
    BY <1>6, <1>7, <1>13, <1>14 DEF Load, One, WorksFor, Busy, BitcoinAssumption
  <2>4. PartsLeft(c) = a + b /\ PartsLeft(c)' = y + b
    BY <1>1, <2>1, BusyCrew
  <2> QED BY <2>2, <2>3, <2>4 DEF One
<1>27. PartsConserved'
  <2>1. PICK j \in Nat, k \in Nat : j = PartsLeft(d)' /\ k = PartsLeft(d)
    BY <1>26
  <2>2. k = j + 1
    BY <1>26, <2>1 DEF One
  <2>3. Owes(u, j)
    <3>1. n >= k /\ (~t.lost => n = k)
      BY <1>8, <1>9, <2>1
    <3>2. CASE n = 1
      <4>1. j = 0
        BY <2>2, <3>1, <3>2
      <4> QED BY <1>11, <3>2, <4>1 DEF Owes
    <3>3. CASE n # 1
      <4>1. n - 1 >= j /\ (~t.lost => n - 1 = j)
        BY <2>2, <3>1
      <4> QED BY <1>11, <3>3, <4>1 DEF Owes
    <3> QED BY <3>2, <3>3
  <2>4. \A c \in Clients : c # d => PartsLeft(c)' = PartsLeft(c) /\ tasks'[c] = tasks[c]
    BY <1>22, <1>26 DEF One
  <2>5. tasks'[d] = u
    BY <1>22
  <2> QED BY <1>2, <2>1, <2>3, <2>4, <2>5, PartsKept, OwesForm
<1>28. Awake'
  BY <1>2, <1>3 DEF Awake, SchedTypes
<1> QED BY <1>1, <1>19, <1>20, <1>21, <1>23, <1>24, <1>25, <1>27, <1>28, MinerSame, ClientSame DEF Inv, Types, Plan

LEMMA LostBusyInv == ASSUME Inv, ByServer(LostBusy) PROVE Inv'
<1>1. UNCHANGED <<connVars, minerVars, joins, requests, results, freeMiners, tasks, clientVars>>
  BY DEF ByServer, LostBusy, LoseBusy
<1>2. /\ SchedTypes /\ errors \in Seq(Peers) /\ pendingRequests \in Seq(Part) /\ freeMiners \in Seq(Miners)
  BY DEF Inv, Types, SchedTypes, ChanTypes
<1>3. /\ errors # <<>> /\ errors' = Tail(errors) /\ trigger < ChanCap /\ trigger' = trigger + 1
      /\ Head(errors) \in Miners
  BY DEF ByServer, LostBusy, LoseBusy, Trigger
<1>4. PICK m \in Miners : m = Head(errors)
  BY <1>3
<1>5. Busy(m) /\ pendingRequests' = <<miners[m]>> \o pendingRequests /\ miners' = [miners EXCEPT ![m] = NoTask]
  BY <1>4 DEF ByServer, LostBusy, LoseBusy, Requeue
<1>6. PICK r \in Part : r = miners[m] /\ r.client \in Clients /\ r # NoTask /\ r.client # Nobody
  BY <1>2, <1>5, BusyLeft DEF Busy
<1>7. /\ pendingRequests' \in Seq(Part) /\ pendingRequests' # <<>>
      /\ Head(pendingRequests') = r /\ Tail(pendingRequests') = pendingRequests
  BY <1>2, <1>5, <1>6, ConsSeq
<1>8. \A q \in Miners : miners'[q] = IF q = m THEN NoTask ELSE miners[q]
  BY <1>5 DEF Inv, Types, SchedTypes
<1>9. SchedTypes'
  <2>1. trigger' \in 0 .. ChanCap
    BY <1>3 DEF Inv, Types, SchedTypes, ServerAssumption
  <2>2. miners' \in [Miners -> {NoTask} \cup Assigned]
    BY <1>5 DEF Inv, Types, SchedTypes
  <2> QED BY <1>1, <1>7, <2>1, <2>2 DEF Inv, Types, SchedTypes
<1>10. ChanTypes'
  <2>1. errors' \in Seq(Peers)
    BY <1>2, <1>3, TailSeq
  <2> QED BY <1>1, <2>1 DEF Inv, Types, ChanTypes
<1>11. JoinsOnce' /\ AsksOnce'
  BY <1>1, <1>8, JoinsKept, AsksKept DEF Inv, connVars
<1>12. FreeListExact'
  <2>1. Distinct(freeMiners) /\ Elements(freeMiners) = IdleIn(miners)
    BY <1>2, FreeForm DEF Inv, Plan
  <2>2. IdleIn(miners') = IdleIn(miners)
    BY <1>6, <1>8 DEF IdleIn
  <2>3. freeMiners' \in Seq(Miners) /\ Distinct(freeMiners') /\ Elements(freeMiners') = IdleIn(miners')
    BY <1>1, <1>2, <2>1, <2>2
  <2> QED BY <2>3, FreeFormNext
<1>13. \A c \in Clients : PartsLeft(c)' = PartsLeft(c)
  <2> TAKE c \in Clients
  <2>1. PICK a \in Nat, b \in Nat, y \in Nat :
          /\ a = Cardinality(Crew(miners, c)) /\ y = Cardinality(Crew(miners', c))
          /\ b = Cardinality(Places(pendingRequests, c))
    BY <1>2, CrewFinite, PlacesFinite
  <2>2. y + Load(miners, m, c) = a + Load(miners', m, c)
    BY <1>2, <1>5, <1>9, <2>1, CrewStep
  <2>3. Load(miners, m, c) = One(r.client = c) /\ Load(miners', m, c) = 0
    BY <1>6, <1>8 DEF Load, One, WorksFor
  <2>4. Cardinality(Places(pendingRequests', c)) = b + One(r.client = c)
    <3>1. PICK s \in Seq(Part) : s = pendingRequests'
      BY <1>7
    <3>2. s # <<>> /\ Head(s) = r /\ Tail(s) = pendingRequests
      BY <1>7, <3>1
    <3> QED BY <2>1, <3>1, <3>2, PlacesTail DEF One
  <2>5. PartsLeft(c) = a + b /\ PartsLeft(c)' = y + (b + One(r.client = c))
    BY <2>1, <2>4, BusyCrew
  <2> QED BY <2>2, <2>3, <2>5 DEF One
<1>14. PartsConserved'
  BY <1>1, <1>13, PartsKept, OwesForm DEF Inv, Plan
<1>15. Awake'
  BY <1>2, <1>3 DEF Awake, SchedTypes
<1> QED BY <1>1, <1>9, <1>10, <1>11, <1>12, <1>14, <1>15, ConnSame, MinerSame, ClientSame DEF Inv, Types, Plan

\* The loop over freeMiners removes the lost miner, and leaves the list as it is when the
\* miner is not in it.
LEMMA FreeWithoutLost ==
  ASSUME freeMiners \in Seq(Miners), Distinct(freeMiners), Elements(freeMiners) = IdleIn(miners), NEW e \in Miners
  PROVE  /\ FreeWithout(e) \in Seq(Miners) /\ Distinct(FreeWithout(e))
         /\ Elements(FreeWithout(e)) = Elements(freeMiners) \ {e}
<1>1. \A i \in 1 .. Len(freeMiners) : miners[freeMiners[i]] # NoTask
  BY DEF Elements, IdleIn
<1>2. CASE e \notin Elements(freeMiners)
  <2>1. \A i \in 1 .. Len(freeMiners) : freeMiners[i] # e
    BY <1>2 DEF Elements
  <2>2. FreeWithout(e) = freeMiners
    BY <1>1, <2>1 DEF FreeWithout, RemoveFirstMatch
  <2> QED BY <1>2, <2>2
<1>3. CASE e \in Elements(freeMiners)
  <2>1. PICK k \in 1 .. Len(freeMiners) : freeMiners[k] = e
    BY <1>3 DEF Elements
  <2> DEFINE I == {i \in 1 .. Len(freeMiners) : freeMiners[i] = e \/ miners[freeMiners[i]] = NoTask}
  <2>2. I = {k}
    BY <1>1, <2>1 DEF Distinct
  <2>3. FreeWithout(e) = IF \E i \in 1 .. Len(freeMiners) : freeMiners[i] = e \/ miners[freeMiners[i]] = NoTask
                         THEN RemoveAt(freeMiners, IF I # {} THEN Min(I) ELSE 0) ELSE freeMiners
    BY DEF FreeWithout, RemoveFirstMatch, SelectInSeq
  <2>4. Min({k}) = k
    BY DEF Min
  <2>5. FreeWithout(e) = RemoveAt(freeMiners, k)
    <3> HIDE DEF I
    <3> QED BY <2>1, <2>2, <2>3, <2>4
  <2> QED BY <2>1, <2>5, RemovedAt, RemovedElement
<1> QED BY <1>2, <1>3

\* A miner that worked for a lost client takes its part with it, which is remembered as
\* in TriggerLost.
LEMMA LostFreeInv == ASSUME Inv, ByServer(LostFree) PROVE Inv'
<1>1. UNCHANGED <<connVars, minerVars, joins, requests, results, trigger, pendingRequests, tasks, clientVars>>
  BY DEF ByServer, LostFree
<1>2. /\ SchedTypes /\ errors \in Seq(Peers) /\ pendingRequests \in Seq(Part) /\ freeMiners \in Seq(Miners)
      /\ PartsConserved
  BY DEF Inv, Types, SchedTypes, ChanTypes, Plan
<1>3. errors # <<>> /\ errors' = Tail(errors)
  BY DEF ByServer, LostFree
<1>4. PICK e \in Miners : e = Head(errors)
  BY DEF ByServer, LostFree
<1>5. /\ miners[e] # NoTask /\ (Busy(e) => tasks[miners[e].client].lost)
      /\ miners' = [miners EXCEPT ![e] = NoTask] /\ freeMiners' = FreeWithout(e)
  BY <1>4 DEF ByServer, LostFree
<1>6. Distinct(freeMiners) /\ Elements(freeMiners) = IdleIn(miners)
  BY <1>2, FreeForm DEF Inv, Plan
<1>7. freeMiners' \in Seq(Miners) /\ Distinct(freeMiners') /\ Elements(freeMiners') = Elements(freeMiners) \ {e}
  BY <1>2, <1>5, <1>6, FreeWithoutLost
<1>8. \A q \in Miners : miners'[q] = IF q = e THEN NoTask ELSE miners[q]
  BY <1>5 DEF Inv, Types, SchedTypes
<1>9. SchedTypes'
  <2>1. miners' \in [Miners -> {NoTask} \cup Assigned]
    BY <1>5 DEF Inv, Types, SchedTypes
  <2> QED BY <1>1, <1>7, <2>1 DEF Inv, Types, SchedTypes
<1>10. ChanTypes'
  <2>1. errors' \in Seq(Peers)
    BY <1>2, <1>3, TailSeq
  <2> QED BY <1>1, <2>1 DEF Inv, Types, ChanTypes
<1>11. JoinsOnce' /\ AsksOnce'
  BY <1>1, <1>8, JoinsKept, AsksKept DEF Inv, connVars
<1>12. FreeListExact'
  <2>1. IdleIn(miners') = IdleIn(miners) \ {e}
    BY <1>8 DEF IdleIn
  <2> QED BY <1>6, <1>7, <2>1, FreeFormNext
<1>13. \A c \in Clients : /\ PartsLeft(c) = PartsLeft(c)' + Load(miners, e, c)
                          /\ PartsLeft(c)' \in Nat /\ PartsLeft(c) \in Nat
  <2> TAKE c \in Clients
  <2>1. PICK a \in Nat, b \in Nat, y \in Nat :
          /\ a = Cardinality(Crew(miners, c)) /\ y = Cardinality(Crew(miners', c))
          /\ b = Cardinality(Places(pendingRequests, c))
    BY <1>2, CrewFinite, PlacesFinite
  <2>2. y + Load(miners, e, c) = a + Load(miners', e, c)
    BY <1>2, <1>5, <1>9, <2>1, CrewStep
  <2>3. Load(miners', e, c) = 0 /\ Load(miners, e, c) \in Nat
    BY <1>8 DEF Load, One, WorksFor
  <2>4. PartsLeft(c) = a + b /\ PartsLeft(c)' = y + b
    BY <1>1, <2>1, BusyCrew
  <2>5. PICK l \in Nat : l = Load(miners, e, c)
    BY <2>3
  <2>6. y + l = a
    BY <2>2, <2>3, <2>5
  <2>7. a + b = (y + b) + l
    BY <2>6
  <2>8. PartsLeft(c) \in Nat /\ PartsLeft(c)' \in Nat
    BY <2>4
  <2> QED BY <2>4, <2>5, <2>7, <2>8
<1>14. CASE ~Busy(e)
  <2>1. \A c \in Clients : PartsLeft(c)' = PartsLeft(c)
    <3> TAKE c \in Clients
    <3>1. Load(miners, e, c) = 0
      BY <1>5, <1>14 DEF Load, One, WorksFor, Busy, BitcoinAssumption
    <3>2. PICK j \in Nat : j = PartsLeft(c)'
      BY <1>13
    <3>3. PartsLeft(c) = j + 0
      BY <1>13, <3>1, <3>2
    <3> QED BY <3>2, <3>3
  <2>2. PartsConserved' /\ \A c \in Clients : PartDropped(c)' <=> PartDropped(c)
    BY <1>1, <1>2, <2>1, PartsKept, OwesForm
  <2>3. freeMiners' # <<>> => freeMiners # <<>>
    <3> SUFFICES ASSUME freeMiners = <<>>, freeMiners' # <<>> PROVE FALSE
      OBVIOUS
    <3>1. Elements(freeMiners) = {}
      BY DEF Elements
    <3>2. Elements(freeMiners') # {}
      BY <1>7, TailSeq
    <3> QED BY <1>7, <3>1, <3>2
  <2>4. \A q \in Miners : Busy(q) => Busy(q)'
    BY <1>8, <1>14 DEF Busy
  <2>5. Awake'
    BY <1>1, <2>2, <2>3, <2>4 DEF Inv, Plan, Awake
  <2> QED BY <1>1, <1>9, <1>10, <1>11, <1>12, <2>2, <2>5, ConnSame, MinerSame, ClientSame DEF Inv, Types, Plan
<1>15. CASE Busy(e)
  <2>1. PICK d \in Clients : d = miners[e].client /\ PartsLeft(d) # 0
    BY <1>2, <1>15, BusyLeft
  <2>2. PICK n \in Nat : n = tasks[d].miners /\ n >= PartsLeft(d) /\ tasks[d] # NoTask /\ tasks[d].lost
    BY <1>2, <1>5, <1>15, <2>1, LeftTask
  <2>3. PICK j \in Nat, k \in Nat : j = PartsLeft(d)' /\ k = PartsLeft(d)
    BY <1>13
  <2>4. k = j + 1
    BY <1>5, <1>13, <2>1, <2>3 DEF Load, One, WorksFor
  <2>5. n > j
    BY <2>2, <2>3, <2>4
  <2>6. \A c \in Clients : c # d => PartsLeft(c)' = PartsLeft(c)
    BY <1>13, <2>1 DEF Load, One, WorksFor
  <2>7. Owes(tasks[d], PartsLeft(d)')
    BY <2>2, <2>3, <2>5 DEF Owes
  <2>8. PartsConserved'
    BY <1>1, <1>2, <2>6, <2>7, PartsKept, OwesForm
  <2>9. PartDropped(d)'
    BY <1>1, <2>2, <2>3, <2>5 DEF PartDropped
  <2>10. Awake'
    BY <2>9 DEF Awake
  <2> QED BY <1>1, <1>9, <1>10, <1>11, <1>12, <2>8, <2>10, ConnSame, MinerSame, ClientSame DEF Inv, Types, Plan
<1> QED BY <1>14, <1>15

LEMMA LostOtherInv == ASSUME Inv, ByServer(LostOther) PROVE Inv'
<1>1. UNCHANGED <<connVars, minerVars, joins, requests, results, trigger, freeMiners, miners, pendingRequests, clientVars>>
  BY DEF ByServer, LostOther
<1>2. SchedTypes /\ errors \in Seq(Peers) /\ PartsConserved
  BY DEF Inv, Types, SchedTypes, ChanTypes, Plan
<1>3. errors # <<>> /\ errors' = Tail(errors)
  BY DEF ByServer, LostOther
<1>4. ChanTypes'
  <2>1. errors' \in Seq(Peers)
    BY <1>2, <1>3, TailSeq
  <2> QED BY <1>1, <2>1 DEF Inv, Types, ChanTypes
<1>5. JoinsOnce'
  BY <1>1, JoinsKept DEF Inv, connVars
<1>6. \A c \in Clients : PartsLeft(c)' = PartsLeft(c)
  BY <1>1, BusyCrew
<1>7. /\ tasks' \in [Clients -> {NoTask} \cup Task]
      /\ \A c \in Clients : \/ tasks'[c] = tasks[c]
                            \/ /\ tasks[c] # NoTask /\ tasks'[c] # NoTask
                               /\ tasks'[c].lost = TRUE /\ tasks'[c].miners = tasks[c].miners
  <2>1. CASE tasks' = tasks
    BY <2>1 DEF Inv, Types, SchedTypes
  <2>2. CASE tasks' # tasks
    <3>1. PICK e \in Clients : e = Head(errors) /\ tasks[e] # NoTask
      BY <2>2 DEF ByServer, LostOther
    <3>2. PICK t \in Task : t = tasks[e]
      BY <1>2, <3>1 DEF SchedTypes
    <3>3. PICK u : u = [t EXCEPT !.lost = TRUE]
      OBVIOUS
    <3>4. u \in Task /\ u.miners = t.miners /\ u.lost = TRUE
      BY <3>3, LostTask
    <3>5. u # NoTask
      BY <3>4 DEF Task, BitcoinAssumption
    <3>6. tasks' = [tasks EXCEPT ![e].lost = TRUE]
      BY <2>2, <3>1 DEF ByServer, LostOther
    <3>7. tasks' = [tasks EXCEPT ![e] = u]
      BY <3>2, <3>3, <3>6
    <3>8. \A c \in Clients : tasks'[c] = IF c = e THEN u ELSE tasks[c]
      BY <1>2, <3>7 DEF SchedTypes
    <3>9. tasks' \in [Clients -> {NoTask} \cup Task]
      BY <1>2, <3>4, <3>7 DEF SchedTypes
    <3> QED BY <3>1, <3>2, <3>4, <3>5, <3>8, <3>9
  <2> QED BY <2>1, <2>2
<1>8. SchedTypes'
  BY <1>1, <1>7 DEF Inv, Types, SchedTypes
<1>9. AsksOnce'
  BY <1>1, <1>7, AsksKept DEF Inv, connVars
<1>10. PartsConserved'
  BY <1>2, <1>6, <1>7 DEF PartsConserved
<1>11. \A c \in Clients : PartDropped(c) => PartDropped(c)'
  BY <1>6, <1>7 DEF PartDropped
<1>12. Awake'
  <2>1. \A q \in Miners : Busy(q)' <=> Busy(q)
    BY <1>1 DEF Busy
  <2> QED BY <1>1, <1>11, <2>1 DEF Inv, Plan, Awake
<1>13. FreeListExact'
  BY <1>1, FreeKept DEF Inv, Plan
<1> QED BY <1>1, <1>4, <1>5, <1>8, <1>9, <1>10, <1>12, <1>13, ConnSame, MinerSame, ClientSame DEF Inv, Types, Plan

-----------------------------------------------------------------------------
(* The first theorems: what the scheduler's tables say of each other *)

LEMMA InitInv == Init => Inv
<1> SUFFICES ASSUME Init PROVE Inv
  OBVIOUS
<1>1. /\ link = [p \in Peers |-> "none"] /\ toServer = [p \in Peers |-> <<>>]
      /\ toPeer = [p \in Peers |-> <<>>] /\ lossRead = [p \in Peers |-> FALSE]
  BY DEF Init, ConnInit
<1>2. mpc = [m \in Miners |-> "start"] /\ part = [m \in Miners |-> NoPart]
  BY DEF Init, MinerInit
<1>3. /\ joins = <<>> /\ requests = <<>> /\ results = <<>> /\ errors = <<>> /\ trigger = 0
      /\ freeMiners = <<>> /\ pendingRequests = <<>>
      /\ miners = [m \in Miners |-> NoTask] /\ tasks = [c \in Clients |-> NoTask]
  BY DEF Init, ServerInit
<1>4. ConnTypes
  BY <1>1 DEF ConnTypes, LinkTypes, InTypes, OutTypes
<1>5. MinerTypes
  BY <1>2 DEF MinerTypes
<1>6. ChanTypes
  BY <1>3 DEF ChanTypes
<1>7. SchedTypes
  BY <1>3 DEF SchedTypes, ServerAssumption
<1>8. ClientTypes
  <2>1. 0 \in Nonce
    BY DEF Nonce, MinerAssumption
  <2> QED BY <2>1, UnsetFound DEF Init, ClientTypes
<1>9. Elements(<<>>) = {} /\ Distinct(<<>>)
  BY DEF Elements, Distinct
<1>10. JoinsOnce
  <2>1. \A m \in Miners : link[m] = "none" /\ toServer[m] = <<>> /\ miners[m] = NoTask
    BY <1>1, <1>3, Disjoint
  <2>2. Len(<<>>) = 0
    OBVIOUS
  <2> QED BY <1>3, <1>9, <2>1, <2>2 DEF JoinsOnce
<1>11. AsksOnce
  <2>1. \A c \in Clients : link[c] = "none" /\ toServer[c] = <<>> /\ tasks[c] = NoTask
    BY <1>1, <1>3, Disjoint
  <2>2. Len(<<>>) = 0
    OBVIOUS
  <2>3. Askers = {}
    BY <1>3 DEF Askers
  <2> QED BY <1>3, <2>1, <2>2, <2>3 DEF AsksOnce
<1>12. FreeListExact
  <2>1. IdleIn(miners) = {}
    BY <1>3 DEF IdleIn
  <2> QED BY <1>3, <1>7, <1>9, <2>1, FreeForm DEF SchedTypes
<1>13. PartsConserved
  <2>1. \A c \in Clients : PartsLeft(c) = 0
    <3> TAKE c \in Clients
    <3>1. Crew(miners, c) = {}
      BY <1>3 DEF Crew, WorksFor
    <3>2. Places(pendingRequests, c) = {}
      BY <1>3 DEF Places
    <3>3. Cardinality(Crew(miners, c)) = 0 /\ Cardinality(Places(pendingRequests, c)) = 0
      BY <3>1, <3>2, FS_EmptySet
    <3> QED BY <3>3, BusyCrew
  <2> QED BY <1>3, <2>1 DEF PartsConserved
<1>14. Awake
  BY <1>3 DEF Awake
<1> QED BY <1>4, <1>5, <1>6, <1>7, <1>8, <1>10, <1>11, <1>12, <1>13, <1>14 DEF Inv, Types, Plan

LEMMA ReceiveInv == ASSUME Inv, NEW p \in Peers, ByServer(Receive(p)) PROVE Inv'
BY ReceiveClient, ReceiveMiner DEF Peers

LEMMA NextInv == Inv /\ [Next]_vars => Inv'
<1> SUFFICES ASSUME Inv, [Next]_vars PROVE Inv'
  OBVIOUS
<1>1. CASE UNCHANGED vars
  <2>1. UNCHANGED <<connVars, minerVars, chanVars, schedVars, clientVars>>
    BY <1>1 DEF vars, serverVars
  <2>2. JoinsOnce' /\ AsksOnce'
    BY <2>1, JoinsKept, AsksKept DEF Inv, connVars, chanVars, schedVars
  <2> QED BY <2>1, <2>2, ConnSame, MinerSame, ChanSame, SchedSame, ClientSame, PlanSame DEF Inv, Types
<1>2. ASSUME NEW m \in Miners, ByMiner(MinerJoin(m)) PROVE Inv'
  BY <1>2, MinerJoinInv
<1>3. ASSUME NEW m \in Miners, ByMiner(MinerRead(m)) PROVE Inv'
  BY <1>3, MinerReadInv
<1>4. ASSUME NEW m \in Miners, ByMiner(MinerReply(m)) PROVE Inv'
  BY <1>4, MinerReplyInv
<1>5. ASSUME NEW m \in Miners, ByMiner(MinerLost(m)) PROVE Inv'
  BY <1>5, MinerLostInv
<1>6. ASSUME NEW m \in Miners, BreakLive(m) PROVE Inv'
  BY <1>6, Disjoint, BreakInv DEF BreakLive
<1>7. ASSUME NEW c \in Clients, NEW u \in Uppers[c], ClientAsk(c, u) PROVE Inv'
  BY <1>7, ClientAskInv
<1>8. ASSUME NEW c \in Clients, ClientResult(c) PROVE Inv'
  BY <1>8, ClientResultInv
<1>9. ASSUME NEW c \in Clients, ClientGivesUp(c) PROVE Inv'
  BY <1>9, ClientGivesUpInv
<1>10. ASSUME NEW p \in Peers, BreakDead(p) PROVE Inv'
  BY <1>10, BreakInv DEF BreakDead
<1>11. ASSUME NEW p \in Peers, ByServer(Receive(p)) PROVE Inv'
  BY <1>11, ReceiveInv
<1>12. ASSUME NEW p \in Peers, ByServer(ReceiveError(p)) PROVE Inv'
  BY <1>12, ReceiveErrorInv
<1>13. CASE ByServer(HandleRequest)
  BY <1>13, HandleRequestInv
<1>14. CASE ByServer(TriggerIdle)
  BY <1>14, TriggerIdleInv
<1>15. CASE ByServer(TriggerLost)
  BY <1>15, TriggerLostInv
<1>16. CASE ByServer(TriggerAssign)
  BY <1>16, TriggerAssignInv
<1>17. CASE ByServer(HandleJoin)
  BY <1>17, HandleJoinInv
<1>18. CASE ByServer(ResultIgnored)
  BY <1>18, ResultIgnoredInv
<1>19. CASE ByServer(HandleResult)
  BY <1>19, HandleResultInv
<1>20. CASE ByServer(LostBusy)
  BY <1>20, LostBusyInv
<1>21. CASE ByServer(LostFree)
  BY <1>21, LostFreeInv
<1>22. CASE ByServer(LostOther)
  BY <1>22, LostOtherInv
<1> QED BY <1>1, <1>2, <1>3, <1>4, <1>5, <1>6, <1>7, <1>8, <1>9, <1>10, <1>11, <1>12, <1>13, <1>14,
           <1>15, <1>16, <1>17, <1>18, <1>19, <1>20, <1>21, <1>22 DEF Next

LEMMA Invariance == Spec => []Inv
BY InitInv, NextInv, PTL DEF Spec

\* The state stays well typed: whatever is lost and whoever is heard of late, only miners
\* get into freeMiners, only clients have tasks, and a task that waits for no more parts is
\* not kept.
THEOREM TypeCorrect == Spec => []TypeOK
<1>1. Inv => TypeOK
  <2> SUFFICES ASSUME Inv PROVE TypeOK
    OBVIOUS
  <2>1. \A m \in Miners : toPeer[m] \in Seq([type : {"Request"}, data : Clients, lower : Nonce, upper : Nonce])
    BY Disjoint DEF Inv, Types, ConnTypes, OutTypes, RequestMsg
  <2>2. \A c \in Clients : toPeer[c] \in Seq([type : {"Result"}, hash : Nat, nonce : Nonce])
    BY Disjoint DEF Inv, Types, ConnTypes, OutTypes, ResultMsg
  <2>3. link \in [Peers -> {"none", "up", "down"}] /\ lossRead \in [Peers -> BOOLEAN]
    BY DEF Inv, Types, ConnTypes, LinkTypes
  <2>4. \A p \in Peers : toServer[p] \in Seq(Message(p))
    BY DEF Inv, Types, ConnTypes, InTypes
  <2>5. mpc \in [Miners -> {"start", "read", "mine", "dead"}]
    BY DEF Inv, Types, MinerTypes
  <2> QED BY <2>1, <2>2, <2>3, <2>4, <2>5
          DEF TypeOK, Inv, Types, ChanTypes, SchedTypes, ClientTypes, Assigned, Task
<1> QED BY <1>1, Invariance, PTL

\* freeMiners (a linked list the loop of `case e := <-srv.errors` removes from while it
\* walks it) has every known miner without work once, and nobody else: no part goes to a
\* miner that is lost or busy, and no idle miner is forgotten.
THEOREM FreeMinersExact == Spec => []FreeListExact
<1>1. Inv => FreeListExact
  BY DEF Inv, Plan
<1> QED BY <1>1, Invariance, PTL

\* `task.miners` counts the parts that are pending or with a miner, for all orders in which
\* results, lost miners and lost clients are handled: so a client is answered when, and
\* only when, all parts of its request are done, and tasks[...] is never nil in schedule.
THEOREM NoPartLost == Spec => []PartsConserved
<1>1. Inv => PartsConserved
  BY DEF Inv, Plan
<1> QED BY <1>1, Invariance, PTL

\* The trigger channel works as a wake-up: with a free miner and a pending part there is a
\* trigger to come, unless a part of a lost client was dropped.
THEOREM SchedulerAwake == Spec => []Awake
<1>1. Inv => Awake
  BY DEF Inv, Plan
<1> QED BY <1>1, Invariance, PTL

-----------------------------------------------------------------------------
(* What a miner finds *)

LEMMA LeastOfLeast ==
  ASSUME NEW d \in Clients, NEW range, range \subseteq Nonce, range # {}
  PROVE  LeastIn(LeastOf(d, range), d, range)
<1>1. PICK h \in [Nonce -> Nat] : h = Hash[d]
  BY DEF MinerAssumption, Nonce
<1>2. \A n \in range : n \in Nat /\ h[n] \in Nat
  BY <1>1 DEF Nonce, MinerAssumption
<1> DEFINE T == {h[n] : n \in range}
           U(x) == {n \in range : h[n] = x}
<1>3. PICK x \in T : \A y \in T : x <= y
  <2>1. T \subseteq Nat /\ T # {}
    BY <1>2
  <2> HIDE DEF T
  <2> QED BY <2>1, LeastNumber
<1>4. PICK n \in U(x) : \A k \in U(x) : n <= k
  <2>1. U(x) \subseteq Nat /\ U(x) # {}
    BY <1>2, <1>3
  <2> HIDE DEF U, T
  <2> QED BY <2>1, LeastNumber
<1> DEFINE IsLeast(m) == \A k \in range : h[m] < h[k] \/ (h[m] = h[k] /\ m <= k)
           best == CHOOSE m \in range : IsLeast(m)
<1>5. IsLeast(n)
  <2> SUFFICES ASSUME NEW k \in range PROVE h[n] < h[k] \/ (h[n] = h[k] /\ n <= k)
    OBVIOUS
  <2>1. h[n] = x /\ x \in Nat /\ h[k] \in Nat /\ x <= h[k]
    BY <1>2, <1>3, <1>4
  <2>2. h[k] = x => n <= k
    BY <1>4
  <2> QED BY <2>1, <2>2
<1>6. best \in range /\ IsLeast(best)
  BY <1>4, <1>5
<1>7. LeastOf(d, range) = [hash |-> h[best], nonce |-> best]
  BY <1>1 DEF LeastOf
<1>8. \A k \in range : h[best] <= h[k]
  <2> TAKE k \in range
  <2>1. h[best] < h[k] \/ h[best] = h[k]
    BY <1>6
  <2>2. h[best] \in Nat /\ h[k] \in Nat
    BY <1>2, <1>6
  <2> HIDE DEF best
  <2> QED BY <2>1, <2>2
<1> HIDE DEF best
<1> QED BY <1>1, <1>6, <1>7, <1>8 DEF LeastIn

\* The goroutines of a miner share the nonces of a part that are tried.
LEMMA BoundsShare ==
  ASSUME NEW p \in [data : Clients, lower : Nonce, upper : Nonce], p.lower < p.upper, Goroutines(p) # 0
  PROVE  /\ Goroutines(p) \in Nat \ {0} /\ Tried(p) \subseteq Nonce
         /\ \A i \in 0 .. Goroutines(p) - 1 : Bound(p, i) .. Bound(p, i + 1) # {}
         /\ \A i \in 0 .. Goroutines(p) - 1 : Bound(p, i) .. Bound(p, i + 1) \subseteq Tried(p)
         /\ \A n \in Tried(p) : \E i \in 0 .. Goroutines(p) - 1 : n \in Bound(p, i) .. Bound(p, i + 1)
<1>1. PICK l \in Nat, u \in Nat : l = p.lower /\ u = p.upper /\ l < u /\ u < Word
  BY DEF Nonce, MinerAssumption
<1>2. PICK n \in Nat \ {0} : n = u - l
  BY <1>1
<1>3. PICK word \in Nat \ {0} : word = Word /\ n < word /\ u < word
  BY <1>1, <1>2 DEF MinerAssumption
<1>4. Size(p) = n
  <2>1. n % word = n
    BY <1>3, Remainder
  <2> QED BY <1>1, <1>2, <1>3, <2>1 DEF Size
<1>5. PICK g \in Nat \ {0} : g = Goroutines(p)
  BY GoroutinesNat
<1>6. PICK s \in Nat, t \in 0 .. g - 1 : s = n \div g /\ t = n % g /\ n = g * s + t
  <2>1. n \div g \in Nat /\ n % g \in 0 .. g - 1 /\ n = g * (n \div g) + (n % g)
    BY Quotient
  <2> QED BY <2>1
<1>7. PICK w \in Nat : w = g * s /\ w <= n /\ l + w <= u /\ u - t = l + w
  <2>1. g * s \in Nat
    OBVIOUS
  <2>2. PICK w \in Nat : w = g * s
    BY <2>1
  <2>3. n = w + t /\ t \in Nat
    BY <1>6, <2>2
  <2>5. u = l + n
    BY <1>2
  <2>4. w <= n /\ l + w <= u /\ u - t = l + w
    BY <2>3, <2>5
  <2> QED BY <2>2, <2>4
<1>8. Tried(p) = l .. l + w
  BY <1>1, <1>4, <1>5, <1>6, <1>7 DEF Tried
<1>9. \A i \in 0 .. g : i * s \in Nat /\ i * s <= w /\ Bound(p, i) = l + i * s
  <2> TAKE i \in 0 .. g
  <2>1. i \in Nat /\ i <= g
    OBVIOUS
  <2>2. PICK a \in Nat : a = i * s
    BY <2>1
  <2>3. a <= w
    BY <1>7, <2>1, <2>2, Product
  <2>4. PICK b \in Nat : b = l + a /\ b < word
    BY <1>3, <1>7, <2>3
  <2>5. b % word = b
    BY <2>4, Remainder
  <2>6. Bound(p, i) = b % word
    BY <1>1, <1>3, <1>4, <1>5, <1>6, <2>2, <2>4 DEF Bound
  <2> QED BY <2>2, <2>3, <2>4, <2>5, <2>6
<1>10. \A i \in 0 .. g - 1 : i \in 0 .. g /\ i + 1 \in 0 .. g /\ i * s <= (i + 1) * s
  <2> TAKE i \in 0 .. g - 1
  <2>1. i \in Nat /\ i + 1 \in Nat /\ i <= i + 1
    OBVIOUS
  <2> QED BY <2>1, Product
<1>11. \A i \in 0 .. g - 1 : Bound(p, i) .. Bound(p, i + 1) = l + i * s .. l + (i + 1) * s
  BY <1>9, <1>10
<1>12. \A i \in 0 .. g - 1 : Bound(p, i) .. Bound(p, i + 1) # {}
  <2> TAKE i \in 0 .. g - 1
  <2>1. PICK a \in Nat, b \in Nat : a = i * s /\ b = (i + 1) * s
    BY <1>9, <1>10
  <2>2. l + a \in l + a .. l + b
    BY <1>10, <2>1
  <2> QED BY <1>11, <2>1, <2>2
<1>13. \A i \in 0 .. g - 1 : Bound(p, i) .. Bound(p, i + 1) \subseteq Tried(p)
  <2> TAKE i \in 0 .. g - 1
  <2>1. PICK a \in Nat, b \in Nat : a = i * s /\ b = (i + 1) * s /\ b <= w
    BY <1>9, <1>10
  <2>2. \A k \in l + a .. l + b : k \in l .. l + w
    <3>1. b <= w
      BY <2>1
    <3> QED BY <3>1
  <2> QED BY <1>8, <1>11, <2>1, <2>2
<1>14. \A k \in Tried(p) : \E i \in 0 .. g - 1 : k \in Bound(p, i) .. Bound(p, i + 1)
  <2> TAKE k \in Tried(p)
  <2>5. k \in Int /\ l <= k /\ k <= l + w
    BY <1>8
  <2>6. k - l \in Nat /\ k = l + (k - l) /\ k - l <= w
    BY <2>5
  <2>1. PICK j \in Nat : k = l + j /\ j <= w
    BY <2>6
  <2>2. PICK i \in 0 .. g - 1 : i * s <= j /\ j <= (i + 1) * s
    BY <1>7, <2>1, InStride
  <2>3. PICK a \in Nat, b \in Nat : a = i * s /\ b = (i + 1) * s
    BY <1>9, <1>10
  <2>4. k \in l + a .. l + b
    BY <2>1, <2>2, <2>3
  <2> QED BY <1>11, <2>3, <2>4
<1>15. Tried(p) \subseteq Nonce
  <2>1. \A k \in l .. l + w : k \in 0 .. word - 1
    BY <1>1, <1>3, <1>7
  <2> QED BY <1>3, <1>8, <2>1 DEF Nonce
<1> QED BY <1>5, <1>12, <1>13, <1>14, <1>15

\* The least of what the goroutines find is the least hash of the nonces tried.
LEMMA RepliesLeast ==
  ASSUME NEW p \in [data : Clients, lower : Nonce, upper : Nonce], p.lower < p.upper, Goroutines(p) # 0,
         NEW found, found = {Scan(p.data, Bound(p, i), Bound(p, i + 1)) : i \in 0 .. Goroutines(p) - 1},
         NEW r \in IF found = {} THEN {Unset} ELSE found, Unset \notin found => \A q \in found : r.hash <= q.hash
  PROVE  LeastIn(r, p.data, Tried(p))
<1>1. PICK d \in Clients : d = p.data
  OBVIOUS
<1>2. PICK h \in [Nonce -> Nat \ {0}] : h = Hash[d]
  BY DEF MinerAssumption, Nonce
<1>3. PICK g \in Nat \ {0} : g = Goroutines(p)
  BY BoundsShare
<1> DEFINE range(i) == Bound(p, i) .. Bound(p, i + 1)
<1>4. \A i \in 0 .. g - 1 : range(i) # {} /\ range(i) \subseteq Tried(p) /\ range(i) \subseteq Nonce
  BY <1>3, BoundsShare
<1>5. \A n \in Tried(p) : n \in Nonce /\ \E i \in 0 .. g - 1 : n \in range(i)
  BY <1>3, BoundsShare
<1>6. found = {Scan(d, Bound(p, i), Bound(p, i + 1)) : i \in 0 .. g - 1}
  BY <1>1, <1>3
<1>7. \A i \in 0 .. g - 1 : Scan(d, Bound(p, i), Bound(p, i + 1)) = LeastOf(d, range(i))
  BY DEF Scan
<1> HIDE DEF range
<1>8. \A i \in 0 .. g - 1 : LeastOf(d, range(i)) \in found
  BY <1>6, <1>7
<1>9. \A q \in found : \E i \in 0 .. g - 1 : q = LeastOf(d, range(i))
  BY <1>6, <1>7
<1>10. \A i \in 0 .. g - 1 : LeastIn(LeastOf(d, range(i)), d, range(i))
  BY <1>4, LeastOfLeast
<1>11. \A q \in found : q.nonce \in Tried(p) /\ q.nonce \in Nonce /\ q.hash = h[q.nonce] /\ q.hash \in Nat \ {0}
  BY <1>2, <1>4, <1>9, <1>10 DEF LeastIn
<1>12. Unset \notin found
  BY <1>11 DEF Unset
<1>13. r \in found /\ \A q \in found : r.hash <= q.hash
  <2>1. 0 \in 0 .. g - 1
    OBVIOUS
  <2> QED BY <1>8, <1>12, <2>1
<1>14. \A n \in Tried(p) : r.hash <= h[n]
  <2> TAKE n \in Tried(p)
  <2>1. PICK i \in 0 .. g - 1 : n \in range(i)
    BY <1>5
  <2>2. PICK q \in found : q = LeastOf(d, range(i))
    BY <1>8
  <2>3. q.hash <= h[n] /\ q.hash \in Nat /\ h[n] \in Nat
    BY <1>2, <1>5, <1>10, <1>11, <2>1, <2>2 DEF LeastIn
  <2>4. r.hash <= q.hash /\ r.hash \in Nat
    BY <1>11, <1>13
  <2> QED BY <2>3, <2>4
<1> QED BY <1>1, <1>2, <1>11, <1>13, <1>14 DEF LeastIn

-----------------------------------------------------------------------------
(* The second invariant: where the parts of a request are *)

\* A connection is lost before the server hears of it.
LossOK == \A p \in Peers : lossRead[p] \/ p \in Elements(errors) => link[p] = "down"

\* The results of m that wait for the scheduler: there is one at most.
ReportsOf(m) == {r \in Elements(results) : r.id = m}

ReportsOnce == \A i, j \in 1 .. Len(results) : results[i].id = results[j].id => i = j

\* The Join of m is on its way to the scheduler.
Joining(m) == m \in Elements(joins) \/ toServer[m] = <<Join>>

\* m has no work, nor is a result of it on its way to the scheduler.
Idle(m) == toPeer[m] = <<>> /\ mpc[m] # "mine" /\ (toServer[m] = <<>> \/ toServer[m] = <<Join>>) /\ ReportsOf(m) = {}

\* r is what a miner has to find in the part p.
Found(p, r) == p.lower < p.upper => LeastIn(r, p.client, Tried(p))

\* A request goes to m, is mined, and its result goes to the scheduler: one at a time.
OneAtATime(m) ==
  /\ Len(toPeer[m]) <= 1 /\ Len(toServer[m]) <= 1
  /\ toPeer[m] # <<>> => mpc[m] # "mine"
  /\ toPeer[m] # <<>> \/ mpc[m] = "mine" => toServer[m] = <<>>
  /\ toPeer[m] # <<>> \/ mpc[m] = "mine" \/ toServer[m] # <<>> => ReportsOf(m) = {}

\* What goes to m, is mined, or comes from it, is the part p.
Carries(m, p) ==
  /\ toPeer[m] # <<>> => Head(toPeer[m]) = Request(p.client, p.lower, p.upper)
  /\ mpc[m] = "mine" => /\ part[m] = [data |-> p.client, lower |-> p.lower, upper |-> p.upper]
                        /\ p.lower < p.upper => Goroutines(p) # 0
  /\ toServer[m] # <<>> => Found(p, Head(toServer[m]))
  /\ \A r \in ReportsOf(m) : Found(p, r)

\* The part of m is somewhere, unless m is gone.
Working(m) == toPeer[m] # <<>> \/ mpc[m] = "mine" \/ toServer[m] # <<>> \/ ReportsOf(m) # {}

MinerOK(m) ==
  /\ link[m] = "none" <=> mpc[m] = "start"
  /\ link[m] = "none" \/ Joining(m) \/ (miners[m] # NoTask /\ ~Busy(m)) => Idle(m)
  /\ link[m] = "up" => Joining(m) \/ miners[m] # NoTask
  /\ OneAtATime(m)
  /\ Busy(m) => Carries(m, miners[m])
  /\ Busy(m) /\ link[m] = "up" /\ mpc[m] # "dead" => Working(m)

MinersOK == \A m \in Miners : MinerOK(m)

\* The parts that are pending or with a miner were cut from the request of their client.
OpenParts == Elements(pendingRequests) \cup {miners[m] : m \in {q \in Miners : Busy(q)}}

OpenOK == \A p \in OpenParts : p \in split[p.client]

\* b, the least of the results so far, has the least hash of the part p.
Covers(b, p) == b.hash # 0 /\ \A n \in Tried(p) : b.hash <= Hash[p.client][n]

\* b is unset, or what was found for a nonce of d's request.
Genuine(b, d, nonces) == b.hash # 0 => b.nonce \in nonces /\ b.hash = Hash[d][b.nonce]

\* Results that have come in, and parts that are open, make up the request.
TaskOK(c) ==
  tasks[c] # NoTask /\ ~tasks[c].lost /\ CutWell(c) =>
    /\ \A p \in split[c] : p \in OpenParts \/ Covers(tasks[c].min, p)
    /\ Genuine(tasks[c].min, c, Nonces(c))

TasksOK == \A c \in Clients : TaskOK(c)

\* The request of c has not come to the scheduler yet.
Asking(c) == link[c] = "none" \/ toServer[c] # <<>> \/ c \in Askers

ClientOK(c) ==
  /\ Asking(c) => toPeer[c] = <<>> /\ cpc[c] # "answered"
  /\ \A p \in split[c] : p \in Part /\ p.client = c
  /\ tasks[c] # NoTask /\ tasks[c].lost => link[c] = "down"
  /\ cpc[c] = "waiting" /\ link[c] = "up" => Asking(c) \/ toPeer[c] # <<>> \/ tasks[c] # NoTask
  /\ CutWell(c) => \A i \in 1 .. Len(toPeer[c]) : LeastIn(toPeer[c][i], c, Nonces(c))
  /\ CutWell(c) /\ cpc[c] = "answered" => LeastIn(answer[c], c, Nonces(c))

ClientsOK == \A c \in Clients : ClientOK(c)

\* What a part, a result and an answer are at every point of their way.
Work == LossOK /\ ReportsOnce /\ MinersOK /\ OpenOK /\ TasksOK /\ ClientsOK

-----------------------------------------------------------------------------
(* What leaves the second invariant as it is *)

LEMMA LossKept ==
  ASSUME LossOK, \A p \in Peers : link[p] = "down" => link'[p] = "down",
         UNCHANGED lossRead, Elements(errors)' \subseteq Elements(errors)
  PROVE  LossOK'
BY DEF LossOK

LEMMA MinerKept ==
  ASSUME NEW m \in Miners, MinerOK(m), link'[m] = link[m], toServer'[m] = toServer[m], toPeer'[m] = toPeer[m],
         mpc'[m] = mpc[m], part'[m] = part[m], miners'[m] = miners[m],
         m \in Elements(joins)' <=> m \in Elements(joins), ReportsOf(m)' = ReportsOf(m)
  PROVE  MinerOK(m)'
<1>1. Busy(m)' = Busy(m) /\ Joining(m)' = Joining(m)
  BY DEF Busy, Joining
<1>2. Idle(m)' = Idle(m) /\ OneAtATime(m)' = OneAtATime(m) /\ Working(m)' = Working(m)
  BY DEF Idle, OneAtATime, Working
<1>3. Carries(m, miners[m])' = Carries(m, miners[m])
  BY DEF Carries, Found
<1> QED BY <1>1, <1>2, <1>3 DEF MinerOK

LEMMA OpenSame == UNCHANGED <<miners, pendingRequests>> => OpenParts' = OpenParts
BY DEF OpenParts, Elements, Busy

LEMMA OpenKept == ASSUME OpenOK, UNCHANGED <<miners, pendingRequests, split>> PROVE OpenOK'
BY OpenSame DEF OpenOK

LEMMA SplitSame ==
  ASSUME NEW c \in Clients, split'[c] = split[c]
  PROVE  (CutWell(c)' <=> CutWell(c)) /\ Nonces(c)' = Nonces(c)
BY DEF CutWell, Nonces

\* The least hash so far is the same, and no part of c is forgotten.
LEMMA TaskKept ==
  ASSUME NEW c \in Clients, TaskOK(c), split'[c] = split[c],
         tasks'[c] # NoTask /\ ~tasks'[c].lost => tasks'[c] = tasks[c],
         \A p \in split[c] : p \in OpenParts => p \in OpenParts'
  PROVE  TaskOK(c)'
<1>1. (CutWell(c)' <=> CutWell(c)) /\ Nonces(c)' = Nonces(c)
  BY SplitSame
<1> SUFFICES ASSUME tasks'[c] # NoTask, ~tasks'[c].lost, CutWell(c)
             PROVE  /\ \A p \in split[c] : p \in OpenParts' \/ Covers(tasks'[c].min, p)
                    /\ Genuine(tasks'[c].min, c, Nonces(c))
  BY <1>1 DEF TaskOK
<1> QED BY DEF TaskOK

LEMMA TasksKept == ASSUME TasksOK, UNCHANGED <<tasks, split, miners, pendingRequests>> PROVE TasksOK'
BY OpenSame, TaskKept DEF TasksOK

LEMMA ClientKept ==
  ASSUME NEW c \in Clients, ClientOK(c), link'[c] = link[c], toServer'[c] = toServer[c], toPeer'[c] = toPeer[c],
         cpc'[c] = cpc[c], answer'[c] = answer[c], split'[c] = split[c],
         tasks'[c] # NoTask /\ tasks'[c].lost => link[c] = "down",
         link[c] = "up" /\ tasks[c] # NoTask => tasks'[c] # NoTask,
         c \in Askers' <=> c \in Askers
  PROVE  ClientOK(c)'
<1>1. (CutWell(c)' <=> CutWell(c)) /\ Nonces(c)' = Nonces(c)
  BY SplitSame
<1>2. Asking(c)' = Asking(c)
  BY DEF Asking
<1>3. Asking(c)' => toPeer'[c] = <<>> /\ cpc'[c] # "answered"
  BY <1>2 DEF ClientOK
<1>4. \A p \in split'[c] : p \in Part /\ p.client = c
  BY DEF ClientOK
<1>5. cpc'[c] = "waiting" /\ link'[c] = "up" => Asking(c)' \/ toPeer'[c] # <<>> \/ tasks'[c] # NoTask
  BY <1>2 DEF ClientOK
<1>6. CutWell(c)' => \A i \in 1 .. Len(toPeer'[c]) : LeastIn(toPeer'[c][i], c, Nonces(c)')
  BY <1>1 DEF ClientOK
<1>7. CutWell(c)' /\ cpc'[c] = "answered" => LeastIn(answer'[c], c, Nonces(c)')
  BY <1>1 DEF ClientOK
<1> QED BY <1>3, <1>4, <1>5, <1>6, <1>7 DEF ClientOK, Part

\* The scheduler does nothing, and of all processes only p does something.
LEMMA WorkKept ==
  ASSUME Work, NEW p \in Peers, UNCHANGED serverVars, LossOK',
         \A q \in Peers : q # p => link'[q] = link[q] /\ toServer'[q] = toServer[q] /\ toPeer'[q] = toPeer[q],
         \A m \in Miners : m # p => mpc'[m] = mpc[m] /\ part'[m] = part[m],
         \A c \in Clients : c # p => cpc'[c] = cpc[c] /\ answer'[c] = answer[c],
         p \in Miners => MinerOK(p)', p \in Clients => ClientOK(p)'
  PROVE  Work'
<1>1. UNCHANGED <<joins, requests, results, miners, pendingRequests, tasks, split>>
  BY DEF serverVars, chanVars, schedVars
<1>2. ReportsOnce' /\ OpenOK' /\ TasksOK'
  BY <1>1, OpenKept, TasksKept DEF Work, ReportsOnce
<1>3. Elements(joins)' = Elements(joins) /\ Elements(results)' = Elements(results) /\ Askers' = Askers
  BY <1>1 DEF Elements, Askers
<1>4. \A m : ReportsOf(m)' = ReportsOf(m)
  BY <1>3 DEF ReportsOf
<1>5. MinersOK'
  <2> SUFFICES ASSUME NEW m \in Miners, m # p PROVE MinerOK(m)'
    BY DEF MinersOK
  <2>1. MinerOK(m) /\ m \in Peers
    BY Disjoint DEF Work, MinersOK
  <2> QED BY <1>1, <1>3, <1>4, <2>1, MinerKept
<1>6. ClientsOK'
  <2> SUFFICES ASSUME NEW c \in Clients, c # p PROVE ClientOK(c)'
    BY DEF ClientsOK
  <2>1. ClientOK(c) /\ c \in Peers
    BY Disjoint DEF Work, ClientsOK
  <2>2. tasks'[c] # NoTask /\ tasks'[c].lost => link[c] = "down"
    BY <1>1, <2>1 DEF ClientOK
  <2> QED BY <1>1, <1>3, <2>1, <2>2, ClientKept
<1> QED BY <1>2, <1>5, <1>6 DEF Work

-----------------------------------------------------------------------------
(* Sequences with one element at most *)

LEMMA Single ==
  ASSUME NEW S, NEW s \in Seq(S), Len(s) <= 1, s # <<>>
  PROVE  Head(s) \in S /\ s = <<Head(s)>> /\ Tail(s) = <<>>
<1>1. Head(s) \in S /\ Tail(s) \in Seq(S) /\ Len(s) \in Nat /\ Len(s) > 0 /\ Head(s) = s[1] /\ Len(Tail(s)) = Len(s) - 1
  BY TailSeq
<1>2. PICK t \in Seq(S) : t = Tail(s)
  BY <1>1
<1>3. Len(s) = 1 /\ Len(t) = 0
  BY <1>1, <1>2
<1>4. t = <<>>
  BY <1>3, EmptySeq
<1>5. PICK x \in S : x = Head(s)
  BY <1>1
<1>6. s = <<x>>
  <2>1. <<x>> \in Seq(S) /\ Len(<<x>>) = 1 /\ <<x>>[1] = x
    OBVIOUS
  <2>2. \A i \in 1 .. Len(s) : s[i] = <<x>>[i]
    BY <1>1, <1>3, <1>5, <2>1
  <2>3. PICK u \in Seq(S) : u = <<x>>
    BY <2>1
  <2>4. Len(u) = Len(s) /\ \A i \in 1 .. Len(s) : s[i] = u[i]
    BY <1>3, <2>1, <2>2, <2>3
  <2> QED BY <2>3, <2>4, SeqEqual
<1> QED BY <1>2, <1>4, <1>5, <1>6

LEMMA SinglePrefix ==
  ASSUME NEW S, NEW s \in Seq(S), Len(s) <= 1, NEW t \in Seq(S), Prefix(s, t)
  PROVE  t = <<>> \/ t = s
<1>1. PICK m \in Nat, n \in Nat : m = Len(s) /\ n = Len(t)
  <2>1. Len(s) \in Nat /\ Len(t) \in Nat
    OBVIOUS
  <2> QED BY <2>1
<1>2. m <= 1 /\ n <= m /\ \A i \in 1 .. n : t[i] = s[i]
  BY <1>1 DEF Prefix
<1>3. CASE n = 0
  BY <1>1, <1>3, EmptySeq
<1>4. CASE n = m
  BY <1>1, <1>2, <1>4, SeqEqual
<1> QED BY <1>2, <1>3, <1>4

LEMMA OfOne == ASSUME NEW x PROVE Len(<<x>>) = 1 /\ Head(<<x>>) = x /\ <<x>> # <<>> /\ Len(<<>>) = 0
OBVIOUS

-----------------------------------------------------------------------------
(* What the miners do with their parts *)

LEMMA MinerFacts ==
  ASSUME Inv, Work, NEW m \in Miners
  PROVE  /\ MinerOK(m) /\ m \in Peers /\ LossOK
         /\ toPeer[m] \in Seq(RequestMsg) /\ toServer[m] \in Seq({Join} \cup ResultMsg)
BY Disjoint DEF Inv, Types, ConnTypes, InTypes, OutTypes, Work, MinersOK

LEMMA MinerJoinWork == ASSUME Inv, Work, NEW m \in Miners, ByMiner(MinerJoin(m)) PROVE Work'
<1>1. MinerOK(m) /\ m \in Peers /\ LossOK
  BY MinerFacts
<1>2. Connect(m, Join) /\ Join \in Message(m) /\ link[m] = "none" /\ UNCHANGED <<toPeer, lossRead, serverVars, clientVars, part>>
  BY Disjoint DEF ByMiner, MinerJoin, Connect
<1>3. \A q \in Peers : /\ link'[q] = IF q = m THEN "up" ELSE link[q]
                       /\ toServer'[q] = IF q = m THEN <<Join>> ELSE toServer[q]
  BY <1>1, <1>2, ConnectTypes DEF Inv, Types
<1>4. \A q \in Miners : mpc'[q] = IF q = m THEN "read" ELSE mpc[q]
  BY DEF ByMiner, MinerJoin, Inv, Types, MinerTypes
<1>5. UNCHANGED <<joins, results, errors, miners, cpc, answer>>
  BY <1>2 DEF serverVars, chanVars, schedVars, clientVars
<1>6. Elements(errors)' = Elements(errors) /\ Elements(joins)' = Elements(joins) /\ Elements(results)' = Elements(results)
  BY <1>5 DEF Elements
<1>7. LossOK'
  BY <1>1, <1>2, <1>3, <1>6, LossKept
<1>8. toPeer[m] = <<>> /\ ReportsOf(m) = {} /\ miners[m] = NoTask
  BY <1>1, <1>2 DEF MinerOK, Idle, Inv, JoinsOnce
<1>9. /\ toPeer'[m] = <<>> /\ ReportsOf(m)' = {} /\ miners'[m] = NoTask
      /\ mpc'[m] = "read" /\ link'[m] = "up" /\ toServer'[m] = <<Join>>
  BY <1>1, <1>2, <1>3, <1>4, <1>5, <1>6, <1>8 DEF ReportsOf
<1>10. ~Busy(m)' /\ Idle(m)' /\ Joining(m)'
  BY <1>9 DEF Busy, Idle, Joining
<1>11. OneAtATime(m)'
  BY <1>9, OfOne DEF OneAtATime
<1>12. MinerOK(m)'
  BY <1>9, <1>10, <1>11 DEF MinerOK
<1>13. m \notin Clients
  BY Disjoint
<1> QED BY <1>1, <1>2, <1>3, <1>4, <1>5, <1>7, <1>12, <1>13, WorkKept

LEMMA MinerReadWork == ASSUME Inv, Work, NEW m \in Miners, ByMiner(MinerRead(m)) PROVE Work'
<1>1. MinerOK(m) /\ m \in Peers /\ LossOK /\ toPeer[m] \in Seq(RequestMsg) /\ OneAtATime(m)
  BY MinerFacts DEF MinerOK
<1>2. mpc[m] = "read" /\ toPeer[m] # <<>> /\ UNCHANGED <<link, toServer, lossRead, serverVars, clientVars>>
  BY DEF ByMiner, MinerRead
<1>3. Head(toPeer[m]) \in RequestMsg /\ Tail(toPeer[m]) = <<>>
  BY <1>1, <1>2, Single DEF OneAtATime
<1>4. PICK x \in RequestMsg : x = Head(toPeer[m])
  BY <1>3
<1>5. PICK y : y = [data |-> x.data, lower |-> x.lower, upper |-> x.upper]
  OBVIOUS
<1>6. PICK z : z = IF Goroutines(x) = 0 /\ Size(x) # 0 THEN "dead" ELSE "mine"
  OBVIOUS
<1>7. /\ toPeer' = [toPeer EXCEPT ![m] = <<>>] /\ part' = [part EXCEPT ![m] = y] /\ mpc' = [mpc EXCEPT ![m] = z]
  BY <1>3, <1>4, <1>5, <1>6 DEF ByMiner, MinerRead
<1>8. \A q \in Peers : toPeer'[q] = IF q = m THEN <<>> ELSE toPeer[q]
  BY <1>1, <1>7, Changed DEF Inv, Types, ConnTypes, OutTypes
<1>9. \A q \in Miners : part'[q] = IF q = m THEN y ELSE part[q]
  BY <1>7, Changed DEF Inv, Types, MinerTypes
<1>10. \A q \in Miners : mpc'[q] = IF q = m THEN z ELSE mpc[q]
  BY <1>7 DEF Inv, Types, MinerTypes
<1>11. UNCHANGED <<joins, results, errors, miners, cpc, answer>>
  BY <1>2 DEF serverVars, chanVars, schedVars, clientVars
<1>12. Elements(errors)' = Elements(errors) /\ Elements(joins)' = Elements(joins) /\ Elements(results)' = Elements(results)
  BY <1>11 DEF Elements
<1>13. LossOK'
  BY <1>1, <1>2, <1>12, LossKept
<1>14. toServer[m] = <<>> /\ ReportsOf(m) = {}
  BY <1>1, <1>2 DEF OneAtATime
<1>15. /\ toPeer'[m] = <<>> /\ toServer'[m] = <<>> /\ ReportsOf(m)' = {} /\ link'[m] = link[m]
       /\ miners'[m] = miners[m] /\ part'[m] = y /\ mpc'[m] = z
  BY <1>1, <1>2, <1>8, <1>9, <1>10, <1>11, <1>12, <1>14 DEF ReportsOf
<1>16. ~Idle(m) /\ (Joining(m)' <=> Joining(m)) /\ (Busy(m)' <=> Busy(m))
  BY <1>2, <1>12, <1>15, <1>14 DEF Idle, Joining, Busy
<1>17. OneAtATime(m)'
  BY <1>15, OfOne DEF OneAtATime
<1>18. ASSUME Busy(m) PROVE Carries(m, miners[m])'
  <2>1. PICK p \in Part : p = miners[m]
    BY <1>18, BusyLeft DEF Inv, Types
  <2>2. x = Request(p.client, p.lower, p.upper)
    BY <1>1, <1>2, <1>4, <1>18, <2>1 DEF MinerOK, Carries
  <2>3. x.data = p.client /\ x.lower = p.lower /\ x.upper = p.upper
    BY <2>2 DEF Request
  <2>4. Size(x) = Size(p) /\ Goroutines(x) = Goroutines(p)
    BY <2>3 DEF Size, Goroutines
  <2>5. p.lower < p.upper => Size(p) # 0
    <3>1. PICK l \in Nat, u \in Nat : l = p.lower /\ u = p.upper /\ u < Word
      BY DEF Part, Nonce, MinerAssumption
    <3>2. PICK w \in Nat \ {0} : w = Word
      BY DEF MinerAssumption
    <3> SUFFICES ASSUME l < u PROVE Size(p) # 0
      BY <3>1
    <3>3. PICK n \in Nat \ {0} : n = u - l /\ n < w
      BY <3>1, <3>2
    <3>4. n % w = n
      BY <3>3, Remainder
    <3> QED BY <3>1, <3>2, <3>3, <3>4 DEF Size
  <2>6. y = [data |-> p.client, lower |-> p.lower, upper |-> p.upper]
    BY <1>5, <2>3
  <2>7. z = "mine" => (p.lower < p.upper => Goroutines(p) # 0)
    BY <1>6, <2>4, <2>5
  <2>8. miners'[m] = p
    BY <1>15, <2>1
  <2> QED BY <1>15, <2>6, <2>7, <2>8 DEF Carries
<1>19. z # "dead" => Working(m)'
  BY <1>6, <1>15 DEF Working
<1>20. MinerOK(m)'
  <2>1. link[m] # "none"
    BY <1>1, <1>16 DEF MinerOK
  <2>2. z # "start"
    BY <1>6
  <2> QED BY <1>1, <1>15, <1>16, <1>17, <1>18, <1>19, <2>1, <2>2 DEF MinerOK
<1>21. m \notin Clients
  BY Disjoint
<1> QED BY <1>1, <1>2, <1>8, <1>9, <1>10, <1>11, <1>13, <1>20, <1>21, WorkKept

\* What the miner writes is the least hash of its part.
LEMMA ReplyFound ==
  ASSUME Inv, Work, NEW m \in Miners, ByMiner(MinerReply(m))
  PROVE  \E r \in Finding : /\ toServer' = Written(toServer, m, Result(r.hash, r.nonce))
                            /\ Busy(m) => Found(miners[m], r)
<1>1. PICK p \in [data : Clients, lower : Nonce, upper : Nonce] : p = part[m]
  BY DEF Inv, Types, MinerTypes, ByMiner, MinerReply
<1> DEFINE foundBy(w) == {Scan(w.data, Bound(w, i), Bound(w, i + 1)) : i \in 0 .. Goroutines(w) - 1}
           found == foundBy(p)
<1>2. \E r \in IF foundBy(part[m]) = {} THEN {Unset} ELSE foundBy(part[m]) :
        /\ Unset \notin foundBy(part[m]) => \A q \in foundBy(part[m]) : r.hash <= q.hash
        /\ toServer' = Written(toServer, m, Result(r.hash, r.nonce))
  BY Zenon DEF ByMiner, MinerReply
<1>3. PICK r \in IF found = {} THEN {Unset} ELSE found :
        /\ Unset \notin found => \A q \in found : r.hash <= q.hash
        /\ toServer' = Written(toServer, m, Result(r.hash, r.nonce))
  <2> HIDE DEF foundBy
  <2> QED BY <1>1, <1>2
<1>4. r \in Finding
  <2>1. found \subseteq Finding /\ Unset \in Finding
    BY RepliesFound, UnsetFound
  <2> HIDE DEF found
  <2> QED BY <1>3, <2>1
<1>5. ASSUME Busy(m) PROVE Found(miners[m], r)
  <2>1. PICK b \in Part : b = miners[m]
    BY <1>5, BusyLeft DEF Inv, Types
  <2>2. /\ p = [data |-> b.client, lower |-> b.lower, upper |-> b.upper]
        /\ b.lower < b.upper => Goroutines(b) # 0
    BY <1>1, <1>5, <2>1, MinerFacts DEF MinerOK, Carries, ByMiner, MinerReply
  <2>3. p.data = b.client /\ p.lower = b.lower /\ p.upper = b.upper
    BY <2>2
  <2>4. Size(p) = Size(b) /\ Goroutines(p) = Goroutines(b)
    BY <2>3 DEF Size, Goroutines
  <2>5. Tried(p) = Tried(b)
    BY <2>3, <2>4 DEF Tried
  <2>6. ASSUME b.lower < b.upper PROVE LeastIn(r, b.client, Tried(b))
    <3>1. p.lower < p.upper /\ Goroutines(p) # 0
      BY <2>2, <2>3, <2>4, <2>6
    <3>2. LeastIn(r, p.data, Tried(p))
      <4>1. PICK f : f = found
        OBVIOUS
      <4>2. r \in (IF f = {} THEN {Unset} ELSE f) /\ (Unset \notin f => \A q \in f : r.hash <= q.hash)
        BY <1>3, <4>1
      <4>3. f = {Scan(p.data, Bound(p, i), Bound(p, i + 1)) : i \in 0 .. Goroutines(p) - 1}
        BY <4>1
      <4> HIDE DEF found
      <4> QED BY <3>1, <4>2, <4>3, RepliesLeast
    <3> QED BY <2>3, <2>5, <3>2
  <2> QED BY <2>1, <2>6 DEF Found
<1> QED BY <1>3, <1>4, <1>5

LEMMA MinerReplyWork == ASSUME Inv, Work, NEW m \in Miners, ByMiner(MinerReply(m)) PROVE Work'
<1>1. MinerOK(m) /\ m \in Peers /\ LossOK /\ OneAtATime(m)
  BY MinerFacts DEF MinerOK
<1>2. mpc[m] = "mine" /\ UNCHANGED <<link, toPeer, lossRead, serverVars, clientVars>>
  BY DEF ByMiner, MinerReply
<1>3. PICK r \in Finding : /\ toServer' = Written(toServer, m, Result(r.hash, r.nonce))
                           /\ Busy(m) => Found(miners[m], r)
  BY ReplyFound
<1>4. PICK x \in ResultMsg : x = Result(r.hash, r.nonce)
  BY DEF ResultMsg, Result, Finding
<1>5. x.hash = r.hash /\ x.nonce = r.nonce /\ x.type = "Result"
  BY <1>4 DEF Result
<1>6. \A q \in Peers : \/ toServer'[q] = toServer[q] /\ (q = m => link[m] # "up")
                       \/ q = m /\ link[m] = "up" /\ toServer'[q] = Append(toServer[q], x)
  <2>1. toServer' = Written(toServer, m, x) /\ toServer = [q \in Peers |-> toServer[q]]
    BY <1>3, <1>4 DEF Inv, Types, ConnTypes, InTypes
  <2>2. CASE link[m] = "up"
    <3>1. PICK s : s = Append(toServer[m], x)
      OBVIOUS
    <3>2. toServer' = [toServer EXCEPT ![m] = s]
      BY <2>1, <2>2, <3>1 DEF Written
    <3>3. \A q \in Peers : toServer'[q] = IF q = m THEN s ELSE toServer[q]
      BY <1>1, <2>1, <3>2, Changed
    <3> QED BY <2>2, <3>1, <3>3
  <2>3. CASE link[m] # "up"
    BY <2>1, <2>3 DEF Written
  <2> QED BY <2>2, <2>3
<1>7. \A q \in Miners : mpc'[q] = IF q = m THEN "read" ELSE mpc[q]
  BY DEF ByMiner, MinerReply, Inv, Types, MinerTypes
<1>8. \A q \in Miners : part'[q] = IF q = m THEN NoPart ELSE part[q]
  BY Changed DEF ByMiner, MinerReply, Inv, Types, MinerTypes
<1>9. UNCHANGED <<joins, results, errors, miners, cpc, answer>>
  BY <1>2 DEF serverVars, chanVars, schedVars, clientVars
<1>10. Elements(errors)' = Elements(errors) /\ Elements(joins)' = Elements(joins) /\ Elements(results)' = Elements(results)
  BY <1>9 DEF Elements
<1>11. LossOK'
  BY <1>1, <1>2, <1>10, LossKept
<1>12. toServer[m] = <<>> /\ ReportsOf(m) = {} /\ toPeer[m] = <<>>
  BY <1>1, <1>2 DEF OneAtATime
<1>13. (toServer'[m] = <<>> /\ link[m] # "up") \/ (toServer'[m] = <<x>> /\ link[m] = "up")
  <2>1. Append(<<>>, x) = <<x>>
    OBVIOUS
  <2> QED BY <1>1, <1>6, <1>12, <2>1
<1>14. /\ toPeer'[m] = <<>> /\ ReportsOf(m)' = {} /\ link'[m] = link[m]
       /\ miners'[m] = miners[m] /\ mpc'[m] = "read"
  BY <1>1, <1>2, <1>7, <1>9, <1>10, <1>12 DEF ReportsOf
<1>15. x # Join
  BY <1>5 DEF Join
<1>16. ~Idle(m) /\ (Joining(m)' <=> Joining(m)) /\ (Busy(m)' <=> Busy(m))
  <2>1. <<x>> # <<Join>> /\ <<>> # <<Join>>
    BY <1>15
  <2> QED BY <1>2, <1>10, <1>12, <1>13, <1>14, <2>1 DEF Idle, Joining, Busy
<1>17. OneAtATime(m)'
  <2>1. Len(toServer'[m]) <= 1
    <3>1. Len(<<x>>) <= 1 /\ Len(<<>>) <= 1
      OBVIOUS
    <3>2. toServer'[m] = <<>> \/ toServer'[m] = <<x>>
      BY <1>13
    <3> QED BY <3>1, <3>2, Zenon
  <2>2. Len(toPeer'[m]) <= 1
    BY <1>14, OfOne
  <2> QED BY <1>14, <2>1, <2>2 DEF OneAtATime
<1>18. ASSUME Busy(m) PROVE Carries(m, miners[m])'
  <2>1. PICK p : p = miners[m] /\ Found(p, r)
    BY <1>3, <1>18
  <2>2. Found(p, x)
    BY <1>5, <2>1 DEF Found, LeastIn
  <2>3. toServer'[m] # <<>> => Found(p, Head(toServer'[m]))
    BY <1>13, <2>2, OfOne
  <2>4. miners'[m] = p
    BY <1>14, <2>1
  <2> QED BY <1>14, <2>3, <2>4 DEF Carries, Found
<1>19. link[m] = "up" => Working(m)'
  BY <1>13, OfOne DEF Working
<1>20. MinerOK(m)'
  <2>1. link[m] # "none"
    BY <1>1, <1>16 DEF MinerOK
  <2> QED BY <1>1, <1>14, <1>16, <1>17, <1>18, <1>19, <2>1 DEF MinerOK
<1>21. m \notin Clients
  BY Disjoint
<1>22. \A q \in Peers : q # m => toServer'[q] = toServer[q]
  BY <1>6
<1> QED BY <1>1, <1>2, <1>7, <1>8, <1>9, <1>11, <1>20, <1>21, <1>22, WorkKept

LEMMA MinerLostWork == ASSUME Inv, Work, NEW m \in Miners, ByMiner(MinerLost(m)) PROVE Work'
<1>1. MinerOK(m) /\ m \in Peers /\ LossOK /\ m \notin Clients
  BY MinerFacts, Disjoint
<1>2. mpc[m] = "read" /\ link[m] = "down" /\ UNCHANGED <<link, toServer, toPeer, lossRead, part, serverVars, clientVars>>
  BY DEF ByMiner, MinerLost, connVars
<1>3. \A q \in Miners : mpc'[q] = IF q = m THEN "dead" ELSE mpc[q]
  BY DEF ByMiner, MinerLost, Inv, Types, MinerTypes
<1>4. UNCHANGED <<joins, results, errors, miners, cpc, answer>>
  BY <1>2 DEF serverVars, chanVars, schedVars, clientVars
<1>5. Elements(errors)' = Elements(errors) /\ Elements(joins)' = Elements(joins) /\ Elements(results)' = Elements(results)
  BY <1>4 DEF Elements
<1>6. LossOK'
  BY <1>1, <1>2, <1>5, LossKept
<1>7. /\ toPeer'[m] = toPeer[m] /\ ReportsOf(m)' = ReportsOf(m) /\ link'[m] = "down" /\ toServer'[m] = toServer[m]
      /\ miners'[m] = miners[m] /\ mpc'[m] = "dead"
  BY <1>2, <1>3, <1>4, <1>5 DEF ReportsOf
<1>8. (Joining(m)' <=> Joining(m)) /\ (Busy(m)' <=> Busy(m)) /\ (Idle(m) => Idle(m)')
  BY <1>5, <1>7 DEF Idle, Joining, Busy
<1>9. OneAtATime(m) => OneAtATime(m)'
  BY <1>7 DEF OneAtATime
<1>10. Carries(m, miners[m]) => Carries(m, miners[m])'
  BY <1>7 DEF Carries, Found
<1>11. MinerOK(m)'
  BY <1>1, <1>7, <1>8, <1>9, <1>10 DEF MinerOK
<1> QED BY <1>1, <1>2, <1>3, <1>4, <1>6, <1>11, WorkKept

-----------------------------------------------------------------------------
(* Connections break *)

LEMMA BreakPeer ==
  ASSUME ConnTypes, NEW p \in Peers, Break(p)
  PROVE  /\ link[p] = "up" /\ \A q \in Peers : link'[q] = IF q = p THEN "down" ELSE link[q]
         /\ \A q \in Peers : lossRead'[q] = IF q = p THEN TRUE ELSE lossRead[q]
         /\ \A q \in Peers : q # p => toServer'[q] = toServer[q] /\ toPeer'[q] = toPeer[q]
         /\ toServer[p] \in Seq(Message(p)) /\ toPeer[p] \in Seq(Answer(p))
         /\ toServer'[p] \in Seq(Message(p)) /\ toPeer'[p] \in Seq(Answer(p))
         /\ Prefix(toServer[p], toServer'[p]) /\ Prefix(toPeer[p], toPeer'[p])
<1>1. link[p] = "up" /\ \A q \in Peers : link'[q] = IF q = p THEN "down" ELSE link[q]
  BY DEF ConnTypes, LinkTypes, Break
<1>2. \A q \in Peers : lossRead'[q] = IF q = p THEN TRUE ELSE lossRead[q]
  BY DEF ConnTypes, LinkTypes, Break
<1>3. PICK i \in 0 .. Len(toServer[p]), j \in 0 .. Len(toPeer[p]) :
        /\ toServer' = [toServer EXCEPT ![p] = SubSeq(@, 1, i)]
        /\ toPeer' = [toPeer EXCEPT ![p] = SubSeq(@, 1, j)]
  BY DEF Break
<1>4. PICK s \in Seq(Message(p)) : s = toServer[p]
  BY DEF ConnTypes, InTypes
<1>5. PICK t \in Seq(Answer(p)) : t = toPeer[p]
  BY DEF ConnTypes, OutTypes
<1>6. SubSeq(s, 1, i) \in Seq(Message(p)) /\ Prefix(s, SubSeq(s, 1, i))
  BY <1>3, <1>4 DEF Prefix
<1>7. SubSeq(t, 1, j) \in Seq(Answer(p)) /\ Prefix(t, SubSeq(t, 1, j))
  BY <1>3, <1>5 DEF Prefix
<1>8. PICK u \in Seq(Message(p)) : u = SubSeq(s, 1, i)
  BY <1>6
<1>9. PICK v \in Seq(Answer(p)) : v = SubSeq(t, 1, j)
  BY <1>7
<1>10. toServer' = [toServer EXCEPT ![p] = u] /\ toPeer' = [toPeer EXCEPT ![p] = v]
  BY <1>3, <1>4, <1>5, <1>8, <1>9
<1>11. \A q \in Peers : toServer'[q] = IF q = p THEN u ELSE toServer[q]
  BY <1>10, InPut DEF ConnTypes
<1>12. \A q \in Peers : toPeer'[q] = IF q = p THEN v ELSE toPeer[q]
  BY <1>10, OutPut DEF ConnTypes
<1> QED BY <1>1, <1>2, <1>4, <1>5, <1>6, <1>7, <1>8, <1>9, <1>11, <1>12

LEMMA BreakLoss ==
  ASSUME Inv, Work, NEW p \in Peers, Break(p), UNCHANGED serverVars
  PROVE  LossOK'
<1>1. /\ \A q \in Peers : link'[q] = IF q = p THEN "down" ELSE link[q]
      /\ \A q \in Peers : lossRead'[q] = IF q = p THEN TRUE ELSE lossRead[q]
  BY BreakPeer DEF Inv, Types
<1>2. Elements(errors)' = Elements(errors)
  BY DEF Elements, serverVars, chanVars
<1> QED BY <1>1, <1>2 DEF LossOK, Work

LEMMA BreakMinerWork ==
  ASSUME Inv, Work, NEW m \in Miners, Break(m), UNCHANGED <<minerVars, serverVars, clientVars>>
  PROVE  Work'
<1>1. MinerOK(m) /\ m \in Peers /\ LossOK /\ OneAtATime(m)
  BY MinerFacts DEF MinerOK
<1>2. /\ link[m] = "up" /\ \A q \in Peers : link'[q] = IF q = m THEN "down" ELSE link[q]
      /\ \A q \in Peers : q # m => toServer'[q] = toServer[q] /\ toPeer'[q] = toPeer[q]
      /\ toServer[m] \in Seq(Message(m)) /\ toPeer[m] \in Seq(Answer(m))
      /\ toServer'[m] \in Seq(Message(m)) /\ toPeer'[m] \in Seq(Answer(m))
      /\ Prefix(toServer[m], toServer'[m]) /\ Prefix(toPeer[m], toPeer'[m])
  BY <1>1, BreakPeer DEF Inv, Types
<1>3. LossOK'
  BY <1>1, BreakLoss
<1>4. Len(toServer[m]) <= 1 /\ Len(toPeer[m]) <= 1
  BY <1>1 DEF OneAtATime
<1>5. (toServer'[m] = <<>> \/ toServer'[m] = toServer[m]) /\ (toPeer'[m] = <<>> \/ toPeer'[m] = toPeer[m])
  BY <1>2, <1>4, SinglePrefix
<1>6. UNCHANGED <<joins, results, miners, mpc, part, cpc, answer>>
  BY DEF serverVars, chanVars, schedVars, clientVars, minerVars
<1>7. Elements(joins)' = Elements(joins) /\ ReportsOf(m)' = ReportsOf(m)
  BY <1>6 DEF Elements, ReportsOf
<1>8. link'[m] = "down" /\ mpc'[m] = mpc[m] /\ part'[m] = part[m] /\ miners'[m] = miners[m]
  BY <1>1, <1>2, <1>6
<1>9. <<>> # <<Join>> /\ Len(<<>>) <= 1
  OBVIOUS
<1>10. (Joining(m)' => Joining(m)) /\ (Busy(m)' <=> Busy(m)) /\ (Idle(m) => Idle(m)')
  <2>1. Joining(m)' => Joining(m)
    BY <1>5, <1>7, <1>9, Zenon DEF Joining
  <2>2. Busy(m)' <=> Busy(m)
    BY <1>8 DEF Busy
  <2>3. Idle(m) => Idle(m)'
    BY <1>5, <1>7, <1>8 DEF Idle
  <2> QED BY <2>1, <2>2, <2>3
<1>11. OneAtATime(m)'
  <2>1. Len(toServer'[m]) <= 1 /\ Len(toPeer'[m]) <= 1
    BY <1>4, <1>5, <1>9, Zenon
  <2> QED BY <1>1, <1>5, <1>7, <1>8, <2>1 DEF OneAtATime
<1>12. Carries(m, miners[m]) => Carries(m, miners[m])'
  BY <1>5, <1>7, <1>8 DEF Carries, Found
<1>13. MinerOK(m)'
  <2>1. link[m] # "none"
    BY DEF Break
  <2> QED BY <1>1, <1>8, <1>10, <1>11, <1>12, <2>1 DEF MinerOK
<1>14. m \notin Clients
  BY Disjoint
<1> QED BY <1>1, <1>2, <1>3, <1>6, <1>13, <1>14, WorkKept

LEMMA ClientFacts ==
  ASSUME Inv, Work, NEW c \in Clients
  PROVE  /\ ClientOK(c) /\ c \in Peers /\ c \notin Miners /\ LossOK /\ Answer(c) = ResultMsg
         /\ toPeer[c] \in Seq(ResultMsg)
BY Disjoint DEF Inv, Types, ConnTypes, InTypes, OutTypes, Work, ClientsOK

LEMMA BreakClientWork ==
  ASSUME Inv, Work, NEW c \in Clients, Break(c), UNCHANGED <<minerVars, serverVars, clientVars>>
  PROVE  Work'
<1>1. ClientOK(c) /\ c \in Peers /\ c \notin Miners /\ Answer(c) = ResultMsg
  BY ClientFacts
<1>2. /\ link[c] = "up" /\ \A q \in Peers : link'[q] = IF q = c THEN "down" ELSE link[q]
      /\ \A q \in Peers : q # c => toServer'[q] = toServer[q] /\ toPeer'[q] = toPeer[q]
      /\ toServer[c] \in Seq(Message(c)) /\ toPeer[c] \in Seq(Answer(c))
      /\ toServer'[c] \in Seq(Message(c)) /\ toPeer'[c] \in Seq(Answer(c))
      /\ Prefix(toServer[c], toServer'[c]) /\ Prefix(toPeer[c], toPeer'[c])
  BY <1>1, BreakPeer DEF Inv, Types
<1>3. LossOK'
  BY <1>1, BreakLoss
<1>4. toServer'[c] = <<>> \/ toServer'[c] = toServer[c]
  <2>1. Len(toServer[c]) <= 1
    BY DEF Inv, AsksOnce
  <2> QED BY <1>2, <2>1, SinglePrefix
<1>5. /\ Len(toPeer'[c]) \in Nat /\ Len(toPeer[c]) \in Nat
      /\ \A i \in 1 .. Len(toPeer'[c]) : i \in 1 .. Len(toPeer[c]) /\ toPeer'[c][i] = toPeer[c][i]
      /\ toPeer[c] = <<>> => toPeer'[c] = <<>>
  <2>1. PICK s \in Seq(ResultMsg), t \in Seq(ResultMsg) : s = toPeer[c] /\ t = toPeer'[c]
    BY <1>1, <1>2
  <2>2. Prefix(s, t)
    BY <1>2, <2>1
  <2>3. /\ Len(t) \in Nat /\ Len(s) \in Nat
        /\ \A i \in 1 .. Len(t) : i \in 1 .. Len(s) /\ t[i] = s[i]
        /\ s = <<>> => t = <<>>
    BY <2>2 DEF Prefix
  <2> QED BY <2>1, <2>3
<1>6. UNCHANGED <<joins, results, requests, miners, tasks, split, mpc, part, cpc, answer>>
  BY DEF serverVars, chanVars, schedVars, clientVars, minerVars
<1>7. (CutWell(c)' <=> CutWell(c)) /\ Nonces(c)' = Nonces(c) /\ Askers' = Askers
  BY <1>6, SplitSame DEF Askers
<1>8. link'[c] = "down"
  BY <1>1, <1>2
<1>9. Asking(c)' => Asking(c)
  BY <1>4, <1>7, <1>8 DEF Asking
<1>10. ClientOK(c)'
  <2>1. Asking(c)' => toPeer'[c] = <<>> /\ cpc'[c] # "answered"
    BY <1>1, <1>5, <1>6, <1>9 DEF ClientOK
  <2>2. CutWell(c)' => \A i \in 1 .. Len(toPeer'[c]) : LeastIn(toPeer'[c][i], c, Nonces(c)')
    BY <1>1, <1>5, <1>7 DEF ClientOK
  <2>3. CutWell(c)' /\ cpc'[c] = "answered" => LeastIn(answer'[c], c, Nonces(c)')
    BY <1>1, <1>6, <1>7 DEF ClientOK
  <2>4. \A p \in split'[c] : p \in Part /\ p.client = c
    BY <1>1, <1>6 DEF ClientOK
  <2> QED BY <1>8, <2>1, <2>2, <2>3, <2>4 DEF ClientOK, Part
<1> QED BY <1>1, <1>2, <1>3, <1>6, <1>10, WorkKept

LEMMA BreakWork ==
  ASSUME Inv, Work, NEW p \in Peers, Break(p), UNCHANGED <<minerVars, serverVars, clientVars>>
  PROVE  Work'
BY BreakMinerWork, BreakClientWork DEF Peers

-----------------------------------------------------------------------------
(* What the clients do with their answers *)

LEMMA ClientAskWork == ASSUME Inv, Work, NEW c \in Clients, NEW u \in Uppers[c], ClientAsk(c, u) PROVE Work'
<1>1. ClientOK(c) /\ c \in Peers /\ c \notin Miners /\ LossOK
  BY ClientFacts
<1>2. PICK x \in Message(c) : x = Request(c, 0, u)
  <2>1. 0 \in Nonce /\ u \in Nonce
    BY DEF Nonce, MinerAssumption, BitcoinAssumption
  <2>2. Request(c, 0, u) \in Message(c)
    BY <2>1, Disjoint DEF Request
  <2> QED BY <2>2
<1>3. Connect(c, x) /\ link[c] = "none" /\ UNCHANGED <<toPeer, lossRead, minerVars, serverVars, answer>>
  BY <1>2 DEF ClientAsk, Connect
<1>4. \A q \in Peers : /\ link'[q] = IF q = c THEN "up" ELSE link[q]
                       /\ toServer'[q] = IF q = c THEN <<x>> ELSE toServer[q]
  BY <1>1, <1>3, ConnectTypes DEF Inv, Types
<1>5. \A q \in Clients : cpc'[q] = IF q = c THEN "waiting" ELSE cpc[q]
  BY DEF ClientAsk, Inv, Types, ClientTypes
<1>6. UNCHANGED <<errors, tasks, split, mpc, part>> /\ Elements(errors)' = Elements(errors)
  BY <1>3 DEF serverVars, chanVars, schedVars, minerVars, Elements
<1>7. LossOK'
  BY <1>1, <1>3, <1>4, <1>6, LossKept
<1>8. toPeer[c] = <<>> /\ tasks[c] = NoTask
  BY <1>1, <1>3 DEF ClientOK, Asking, Inv, AsksOnce
<1>9. toPeer'[c] = <<>> /\ tasks'[c] = NoTask /\ cpc'[c] = "waiting" /\ Asking(c)'
  <2>1. <<x>> # <<>>
    OBVIOUS
  <2> QED BY <1>1, <1>3, <1>4, <1>5, <1>6, <1>8, <2>1 DEF Asking
<1>10. ClientOK(c)'
  <2>1. \A p \in split'[c] : p \in Part /\ p.client = c
    BY <1>1, <1>6 DEF ClientOK
  <2>2. \A i \in 1 .. Len(toPeer'[c]) : FALSE
    BY <1>9
  <2> QED BY <1>9, <2>1, <2>2 DEF ClientOK, Part
<1> QED BY <1>1, <1>3, <1>4, <1>5, <1>6, <1>7, <1>10, WorkKept

LEMMA ClientResultWork == ASSUME Inv, Work, NEW c \in Clients, ClientResult(c) PROVE Work'
<1>1. ClientOK(c) /\ c \in Peers /\ c \notin Miners /\ LossOK /\ toPeer[c] \in Seq(ResultMsg)
  BY ClientFacts
<1>2. /\ cpc[c] = "waiting" /\ toPeer[c] # <<>> /\ UNCHANGED <<link, toServer, lossRead, minerVars, serverVars>>
  BY DEF ClientResult
<1>3. PICK s \in Seq(ResultMsg) : s = toPeer[c]
  BY <1>1
<1>4. /\ Tail(s) \in Seq(ResultMsg) /\ Head(s) = s[1] /\ 1 \in 1 .. Len(s)
      /\ \A i \in 1 .. Len(Tail(s)) : i + 1 \in 1 .. Len(s) /\ Tail(s)[i] = s[i + 1]
  BY <1>2, <1>3, TailSeq
<1>5. PICK t \in Seq(ResultMsg) : t = Tail(s)
  BY <1>4
<1>6. PICK a : a = [hash |-> Head(s).hash, nonce |-> Head(s).nonce]
  OBVIOUS
<1>7. toPeer' = [toPeer EXCEPT ![c] = t] /\ answer' = [answer EXCEPT ![c] = a]
  BY <1>3, <1>5, <1>6 DEF ClientResult
<1>8. \A q \in Peers : toPeer'[q] = IF q = c THEN t ELSE toPeer[q]
  BY <1>1, <1>7, Changed DEF Inv, Types, ConnTypes, OutTypes
<1>9. \A q \in Clients : answer'[q] = IF q = c THEN a ELSE answer[q]
  BY <1>7 DEF Inv, Types, ClientTypes
<1>10. \A q \in Clients : cpc'[q] = IF q = c THEN "answered" ELSE cpc[q]
  BY DEF ClientResult, Inv, Types, ClientTypes
<1>11. UNCHANGED <<errors, requests, tasks, split, mpc, part>> /\ Elements(errors)' = Elements(errors) /\ Askers' = Askers
  BY <1>2 DEF serverVars, chanVars, schedVars, minerVars, Elements, Askers
<1>12. LossOK'
  BY <1>1, <1>2, <1>11, LossKept
<1>13. ~Asking(c) /\ ~Asking(c)'
  BY <1>1, <1>2, <1>11 DEF ClientOK, Asking
<1>14. (CutWell(c)' <=> CutWell(c)) /\ Nonces(c)' = Nonces(c)
  BY <1>11, SplitSame
<1>15. toPeer'[c] = t /\ cpc'[c] = "answered" /\ answer'[c] = a
  BY <1>1, <1>8, <1>9, <1>10
<1>16. ClientOK(c)'
  <2>1. \A p \in split'[c] : p \in Part /\ p.client = c
    BY <1>1, <1>11 DEF ClientOK
  <2>2. CutWell(c) => \A i \in 1 .. Len(s) : LeastIn(s[i], c, Nonces(c))
    BY <1>1, <1>3 DEF ClientOK
  <2>3. CutWell(c) => \A i \in 1 .. Len(t) : LeastIn(t[i], c, Nonces(c))
    BY <1>4, <1>5, <2>2
  <2>4. CutWell(c) => LeastIn(a, c, Nonces(c))
    BY <1>4, <1>6, <2>2 DEF LeastIn
  <2>5. tasks'[c] # NoTask /\ tasks'[c].lost => link'[c] = "down"
    BY <1>1, <1>2, <1>11 DEF ClientOK
  <2>6. CutWell(c)' => \A i \in 1 .. Len(toPeer'[c]) : LeastIn(toPeer'[c][i], c, Nonces(c)')
    BY <1>14, <1>15, <2>3
  <2>7. CutWell(c)' /\ cpc'[c] = "answered" => LeastIn(answer'[c], c, Nonces(c)')
    BY <1>14, <1>15, <2>4
  <2> QED BY <1>13, <1>15, <2>1, <2>5, <2>6, <2>7 DEF ClientOK, Part
<1> QED BY <1>1, <1>2, <1>8, <1>9, <1>10, <1>11, <1>12, <1>16, WorkKept

LEMMA ClientGivesUpWork == ASSUME Inv, Work, NEW c \in Clients, ClientGivesUp(c) PROVE Work'
<1>1. ClientOK(c) /\ c \in Peers /\ c \notin Miners /\ LossOK
  BY ClientFacts
<1>2. UNCHANGED <<link, toServer, toPeer, lossRead, mpc, part, serverVars, answer>>
  BY DEF ClientGivesUp, connVars, minerVars
<1>3. \A q \in Clients : cpc'[q] = IF q = c THEN "disconnected" ELSE cpc[q]
  BY DEF ClientGivesUp, Inv, Types, ClientTypes
<1>4. UNCHANGED <<errors, requests, tasks, split>> /\ Elements(errors)' = Elements(errors) /\ Askers' = Askers
  BY <1>2 DEF serverVars, chanVars, schedVars, minerVars, Elements, Askers
<1>5. LossOK'
  BY <1>1, <1>2, <1>4, LossKept
<1>6. (CutWell(c)' <=> CutWell(c)) /\ Nonces(c)' = Nonces(c) /\ (Asking(c)' <=> Asking(c))
  BY <1>2, <1>4, SplitSame DEF Asking
<1>7. ClientOK(c)'
  <2>1. \A p \in split'[c] : p \in Part /\ p.client = c
    BY <1>1, <1>4 DEF ClientOK
  <2>2. CutWell(c)' => \A i \in 1 .. Len(toPeer'[c]) : LeastIn(toPeer'[c][i], c, Nonces(c)')
    BY <1>1, <1>2, <1>6 DEF ClientOK
  <2>3. tasks'[c] # NoTask /\ tasks'[c].lost => link'[c] = "down"
    BY <1>1, <1>2, <1>4 DEF ClientOK
  <2>4. Asking(c)' => toPeer'[c] = <<>> /\ cpc'[c] # "answered"
    BY <1>1, <1>2, <1>3, <1>6 DEF ClientOK
  <2> QED BY <1>3, <2>1, <2>2, <2>3, <2>4 DEF ClientOK, Part
<1> QED BY <1>1, <1>2, <1>3, <1>5, <1>7, WorkKept

-----------------------------------------------------------------------------
(* What the server receives of parts and answers *)

\* The scheduler's tables, the processes and the connections stay as they are.
LEMMA TablesKept ==
  ASSUME Work, LossOK', UNCHANGED <<link, toServer, toPeer, mpc, part, cpc, answer>>,
         UNCHANGED <<joins, requests, results, miners, pendingRequests, tasks, split>>
  PROVE  Work'
<1>1. ReportsOnce' /\ OpenOK' /\ TasksOK'
  BY OpenKept, TasksKept DEF Work, ReportsOnce
<1>2. Elements(joins)' = Elements(joins) /\ Elements(results)' = Elements(results) /\ Askers' = Askers
  BY DEF Elements, Askers
<1>3. \A m : ReportsOf(m)' = ReportsOf(m)
  BY <1>2 DEF ReportsOf
<1>4. MinersOK'
  BY <1>2, <1>3, MinerKept DEF Work, MinersOK
<1>5. ClientsOK'
  <2> SUFFICES ASSUME NEW c \in Clients PROVE ClientOK(c)'
    BY DEF ClientsOK
  <2>1. ClientOK(c) /\ (tasks'[c] # NoTask /\ tasks'[c].lost => link[c] = "down")
    BY DEF Work, ClientsOK, ClientOK
  <2> QED BY <1>2, <2>1, ClientKept
<1> QED BY <1>1, <1>4, <1>5 DEF Work

LEMMA ReceiveErrorWork == ASSUME Inv, Work, NEW p \in Peers, ByServer(ReceiveError(p)) PROVE Work'
<1>1. UNCHANGED <<link, toServer, toPeer, minerVars, joins, requests, results, schedVars, clientVars>>
  BY DEF ByServer, ReceiveError
<1>2. lossRead[p] /\ lossRead' = [lossRead EXCEPT ![p] = FALSE] /\ errors' = Append(errors, p)
  BY DEF ByServer, ReceiveError
<1>3. Elements(errors') = Elements(errors) \cup {p}
  BY <1>2, AppendSeq DEF Inv, Types, ChanTypes
<1>4. Elements(errors)' = Elements(errors')
  BY DEF Elements
<1>5. \A q \in Peers : lossRead'[q] = IF q = p THEN FALSE ELSE lossRead[q]
  BY <1>2 DEF Inv, Types, ConnTypes, LinkTypes
<1>6. LossOK'
  BY <1>1, <1>2, <1>3, <1>4, <1>5 DEF Work, LossOK
<1> QED BY <1>1, <1>6, TablesKept DEF minerVars, schedVars, clientVars

\* The server reads a message of p.
LEMMA ReceivedKept ==
  ASSUME Work, NEW p \in Peers, UNCHANGED <<link, toPeer, lossRead, errors, minerVars, schedVars, clientVars>>,
         \A q \in Peers : q # p => toServer'[q] = toServer[q],
         \A m \in Miners : m # p => (m \in Elements(joins)' <=> m \in Elements(joins)) /\ ReportsOf(m)' = ReportsOf(m),
         \A c \in Clients : c # p => (c \in Askers' <=> c \in Askers),
         ReportsOnce', p \in Miners => MinerOK(p)', p \in Clients => ClientOK(p)'
  PROVE  Work'
<1>1. UNCHANGED <<mpc, part, cpc, answer, miners, pendingRequests, tasks, split>> /\ Elements(errors)' = Elements(errors)
  BY DEF minerVars, schedVars, clientVars, Elements
<1>2. OpenOK' /\ TasksOK' /\ LossOK'
  BY <1>1, OpenKept, TasksKept, LossKept DEF Work
<1>3. MinersOK'
  <2> SUFFICES ASSUME NEW m \in Miners, m # p PROVE MinerOK(m)'
    BY DEF MinersOK
  <2>1. MinerOK(m) /\ m \in Peers
    BY Disjoint DEF Work, MinersOK
  <2> QED BY <1>1, <2>1, MinerKept
<1>4. ClientsOK'
  <2> SUFFICES ASSUME NEW c \in Clients, c # p PROVE ClientOK(c)'
    BY DEF ClientsOK
  <2>1. ClientOK(c) /\ c \in Peers /\ (tasks'[c] # NoTask /\ tasks'[c].lost => link[c] = "down")
    BY <1>1, Disjoint DEF Work, ClientsOK, ClientOK
  <2> QED BY <1>1, <2>1, ClientKept
<1> QED BY <1>2, <1>3, <1>4 DEF Work

LEMMA ReceiveClientWork == ASSUME Inv, Work, NEW p \in Clients, ByServer(Receive(p)) PROVE Work'
<1>1. ClientOK(p) /\ p \in Peers /\ p \notin Miners
  BY ClientFacts
<1>2. /\ Head(toServer[p]) \in Message(p) /\ toServer[p] # <<>>
      /\ \A q \in Peers : toServer'[q] = IF q = p THEN Tail(toServer[p]) ELSE toServer[q]
  BY <1>1, ReceivedTypes
<1>3. UNCHANGED <<link, toPeer, lossRead, errors, minerVars, schedVars, clientVars>>
  BY DEF ByServer, Receive
<1>4. PICK x \in [type : {"Request"}, data : {p}, lower : Nonce, upper : Nonce] : x = Head(toServer[p])
  BY <1>2, Disjoint
<1>5. x.type = "Request" /\ x.upper \in Nonce
  OBVIOUS
<1>6. PICK n \in Asked : n = [id |-> p, upper |-> x.upper]
  BY <1>5 DEF Asked
<1>7. requests' = Append(requests, n) /\ UNCHANGED <<joins, results>>
  BY <1>4, <1>5, <1>6 DEF ByServer, Receive
<1>8. \A c : c \in Askers' <=> c \in Askers \/ c = p
  <2>1. PICK s \in Seq(Asked) : s = requests
    BY DEF Inv, Types, ChanTypes, Asked
  <2>2. PICK t \in Seq(Asked) : t = Append(s, n)
    BY AppendSeq
  <2>3. Elements(t) = Elements(s) \cup {n}
    BY <2>2, AppendSeq
  <2>4. Askers = {e.id : e \in Elements(s)} /\ Askers' = {e.id : e \in Elements(t)}
    <3>1. Askers = {e.id : e \in Elements(s)}
      BY <2>1, IdsOf DEF Askers
    <3>2. t = requests'
      BY <1>7, <2>1, <2>2
    <3>3. Askers' = {e.id : e \in Elements(t)}
      BY <3>2, IdsOf DEF Askers
    <3> QED BY <3>1, <3>3
  <2>5. n.id = p
    BY <1>6
  <2> QED BY <2>3, <2>4, <2>5
<1>9. Elements(joins)' = Elements(joins) /\ \A m : ReportsOf(m)' = ReportsOf(m)
  BY <1>7 DEF Elements, ReportsOf
<1>10. ReportsOnce'
  BY <1>7 DEF Work, ReportsOnce
<1>11. UNCHANGED <<cpc, answer, tasks, split>>
  BY <1>3 DEF schedVars, clientVars
<1>12. Asking(p) /\ Asking(p)'
  BY <1>2, <1>8 DEF Asking
<1>13. (CutWell(p)' <=> CutWell(p)) /\ Nonces(p)' = Nonces(p)
  BY <1>11, SplitSame
<1>14. ClientOK(p)'
  <2>1. toPeer'[p] = <<>> /\ cpc'[p] # "answered"
    BY <1>1, <1>3, <1>11, <1>12 DEF ClientOK
  <2>2. \A q \in split'[p] : q \in Part /\ q.client = p
    BY <1>1, <1>11 DEF ClientOK
  <2>3. \A i \in 1 .. Len(toPeer'[p]) : FALSE
    BY <2>1
  <2>4. tasks'[p] # NoTask /\ tasks'[p].lost => link'[p] = "down"
    BY <1>1, <1>3, <1>11 DEF ClientOK
  <2> QED BY <1>12, <2>1, <2>2, <2>3, <2>4 DEF ClientOK, Part
<1> QED BY <1>1, <1>2, <1>3, <1>8, <1>9, <1>10, <1>14, ReceivedKept

LEMMA ReceiveMinerWork == ASSUME Inv, Work, NEW p \in Miners, ByServer(Receive(p)) PROVE Work'
<1>1. MinerOK(p) /\ p \in Peers /\ p \notin Clients /\ OneAtATime(p) /\ toServer[p] \in Seq({Join} \cup ResultMsg)
  BY MinerFacts, Disjoint DEF MinerOK
<1>2. /\ toServer[p] # <<>>
      /\ \A q \in Peers : toServer'[q] = IF q = p THEN Tail(toServer[p]) ELSE toServer[q]
  BY <1>1, ReceivedTypes
<1>3. UNCHANGED <<link, toPeer, lossRead, errors, minerVars, schedVars, clientVars>>
  BY DEF ByServer, Receive
<1>4. PICK x \in {Join} \cup ResultMsg : x = Head(toServer[p]) /\ toServer[p] = <<x>> /\ Tail(toServer[p]) = <<>>
  BY <1>1, <1>2, Single DEF OneAtATime
<1>5. toServer'[p] = <<>>
  BY <1>1, <1>2, <1>4
<1>6. x.type # "Request"
  BY DEF Join, ResultMsg
<1>7. UNCHANGED requests /\ Askers' = Askers
  BY <1>4, <1>6 DEF ByServer, Receive, Askers
<1>8. UNCHANGED <<mpc, part, miners>>
  BY <1>3 DEF minerVars, schedVars
<1>9. toPeer[p] = <<>> /\ mpc[p] # "mine" /\ ReportsOf(p) = {}
  BY <1>1, <1>2 DEF OneAtATime
<1>10. Busy(p)' <=> Busy(p)
  BY <1>8 DEF Busy
<1>11. CASE x = Join
  <2>1. joins' = Append(joins, p) /\ UNCHANGED results
    BY <1>4, <1>6, <1>11 DEF ByServer, Receive, Join
  <2>2. Elements(joins') = Elements(joins) \cup {p}
    BY <2>1, AppendSeq DEF Inv, Types, ChanTypes
  <2>3. Elements(joins)' = Elements(joins')
    BY DEF Elements
  <2>4. \A m : ReportsOf(m)' = ReportsOf(m)
    BY <2>1 DEF Elements, ReportsOf
  <2>5. ReportsOnce'
    BY <2>1 DEF Work, ReportsOnce
  <2>6. Joining(p) /\ Joining(p)'
    BY <1>4, <1>11, <2>2, <2>3 DEF Joining
  <2>7. Idle(p)' /\ OneAtATime(p)'
    <3>1. Len(<<>>) <= 1
      OBVIOUS
    <3>2. toPeer'[p] = <<>> /\ mpc'[p] # "mine" /\ ReportsOf(p)' = {}
      BY <1>3, <1>8, <1>9, <2>4
    <3>3. Len(toPeer'[p]) <= 1 /\ Len(toServer'[p]) <= 1
      BY <1>5, <3>1, <3>2, Zenon
    <3> QED BY <1>5, <3>2, <3>3 DEF Idle, OneAtATime
  <2>8. ~Busy(p)
    <3>1. x.type = "Join" /\ Len(<<x>>) = 1 /\ <<x>>[1] = x
      BY <1>11 DEF Join
    <3>2. miners[p] = NoTask
      <4>1. 1 \in 1 .. Len(toServer[p]) /\ toServer[p][1].type = "Join"
        BY <1>4, <3>1
      <4> QED BY <4>1 DEF Inv, JoinsOnce
    <3> QED BY <3>2 DEF Busy
  <2>9. MinerOK(p)'
    BY <1>1, <1>3, <1>8, <1>10, <2>6, <2>7, <2>8 DEF MinerOK
  <2> QED BY <1>1, <1>2, <1>3, <1>7, <2>2, <2>3, <2>4, <2>5, <2>9, ReceivedKept
<1>12. CASE x \in ResultMsg
  <2>1. x.type = "Result" /\ x.hash \in Nat /\ x.nonce \in Nonce
    BY <1>12 DEF ResultMsg
  <2>2. PICK r \in Reported : r = [id |-> p, hash |-> x.hash, nonce |-> x.nonce]
    BY <2>1 DEF Reported
  <2>3. UNCHANGED joins /\ results' = Append(results, r)
    BY <1>4, <2>1, <2>2 DEF ByServer, Receive
  <2>4. PICK s \in Seq(Reported) : s = results
    BY DEF Inv, Types, ChanTypes, Reported
  <2>5. PICK t \in Seq(Reported) : t = results' /\ t = Append(s, r)
    BY <2>3, <2>4, AppendSeq
  <2>6. Elements(results)' = Elements(results) \cup {r}
    <3>1. Elements(t) = Elements(s) \cup {r}
      BY <2>5, AppendSeq
    <3>2. Elements(results)' = Elements(t)
      BY <2>5 DEF Elements
    <3> QED BY <2>4, <3>1, <3>2
  <2>7. r.id = p /\ r.hash = x.hash /\ r.nonce = x.nonce
    BY <2>2
  <2>8. ReportsOf(p)' = {r} /\ \A m \in Miners : m # p => ReportsOf(m)' = ReportsOf(m)
    BY <1>9, <2>6, <2>7 DEF ReportsOf
  <2>9. ReportsOnce'
    <3>1. \A i \in 1 .. Len(s) : s[i].id # p
      BY <1>9, <2>4 DEF ReportsOf, Elements
    <3>2. \A i \in 1 .. Len(t) : (i \in 1 .. Len(s) /\ t[i] = s[i]) \/ (i = Len(s) + 1 /\ t[i] = r)
      BY <2>5, AppendSeq
    <3>3. \A i, j \in 1 .. Len(s) : s[i].id = s[j].id => i = j
      BY <2>4 DEF Work, ReportsOnce
    <3>4. \A i, j \in 1 .. Len(t) : t[i].id = t[j].id => i = j
      BY <2>7, <3>1, <3>2, <3>3
    <3> QED BY <2>5, <3>4 DEF ReportsOnce
  <2>10. Elements(joins)' = Elements(joins)
    BY <2>3 DEF Elements
  <2>11. x # Join /\ <<x>> # <<Join>> /\ <<>> # <<Join>> /\ <<x>> # <<>>
    <3>1. x # Join
      BY <2>1 DEF Join
    <3> QED BY <3>1
  <2>12. ~Idle(p) /\ (Joining(p)' <=> Joining(p))
    <3>1. ~Idle(p)
      BY <1>4, <2>11, Zenon DEF Idle
    <3>2. Joining(p)' <=> Joining(p)
      BY <1>4, <1>5, <2>10, <2>11, Zenon DEF Joining
    <3> QED BY <3>1, <3>2
  <2>13. toPeer'[p] = <<>> /\ mpc'[p] = mpc[p] /\ link'[p] = link[p] /\ miners'[p] = miners[p] /\ mpc'[p] # "mine"
    BY <1>3, <1>8, <1>9
  <2>14. OneAtATime(p)'
    <3>1. Len(<<>>) <= 1
      OBVIOUS
    <3>3. Len(toPeer'[p]) <= 1 /\ Len(toServer'[p]) <= 1
      BY <1>5, <2>13, <3>1, Zenon
    <3> QED BY <1>5, <2>13, <3>3 DEF OneAtATime
  <2>15. ASSUME Busy(p) PROVE Carries(p, miners[p])'
    <3>1. PICK b : b = miners[p]
      OBVIOUS
    <3>2. Found(b, x)
      BY <1>1, <1>2, <1>4, <2>15, <3>1 DEF MinerOK, Carries
    <3>3. Found(b, r)
      BY <2>7, <3>2 DEF Found, LeastIn
    <3>4. miners'[p] = b
      BY <2>13, <3>1
    <3> QED BY <1>5, <2>8, <2>13, <3>3, <3>4 DEF Carries, Found
  <2>16. Working(p)'
    BY <2>8 DEF Working
  <2>17. MinerOK(p)'
    BY <1>1, <1>10, <2>12, <2>13, <2>14, <2>15, <2>16 DEF MinerOK
  <2> QED BY <1>1, <1>2, <1>3, <1>7, <2>8, <2>9, <2>10, <2>17, ReceivedKept
<1> QED BY <1>4, <1>11, <1>12

LEMMA ReceiveWork == ASSUME Inv, Work, NEW p \in Peers, ByServer(Receive(p)) PROVE Work'
BY ReceiveClientWork, ReceiveMinerWork DEF Peers

-----------------------------------------------------------------------------
(* Parts go to miners *)

LEMMA OpenTypes == ASSUME SchedTypes, NEW p \in OpenParts PROVE p \in Part /\ p.client \in Clients
<1>1. CASE p \in Elements(pendingRequests)
  <2>1. pendingRequests \in Seq(Part)
    BY DEF SchedTypes
  <2>2. p \in Part
    BY <1>1, <2>1 DEF Elements
  <2> QED BY <2>2 DEF Part
<1>2. CASE \E m \in Miners : Busy(m) /\ p = miners[m]
  BY <1>2, BusyLeft
<1> QED BY <1>1, <1>2 DEF OpenParts

\* What is open for others than m, and the part of m.
LEMMA OpenBut ==
  ASSUME NEW m \in Miners, \A q \in Miners : q # m => miners'[q] = miners[q], NEW p
  PROVE  /\ p \in OpenParts' => \/ p \in Elements(pendingRequests)' \/ (Busy(m)' /\ p = miners'[m])
                                \/ \E q \in Miners : q # m /\ Busy(q) /\ p = miners[q]
         /\ p \in OpenParts => \/ p \in Elements(pendingRequests) \/ (Busy(m) /\ p = miners[m])
                               \/ \E q \in Miners : q # m /\ Busy(q) /\ p = miners[q]
         /\ \/ p \in Elements(pendingRequests)' \/ (Busy(m)' /\ p = miners'[m])
            \/ \E q \in Miners : q # m /\ Busy(q) /\ p = miners[q]
            => p \in OpenParts'
<1>1. \A q \in Miners : q # m => (Busy(q)' <=> Busy(q))
  BY DEF Busy
<1>2. p \in OpenParts' <=> p \in Elements(pendingRequests)' \/ \E q \in Miners : Busy(q)' /\ p = miners'[q]
  BY DEF OpenParts
<1>3. p \in OpenParts <=> p \in Elements(pendingRequests) \/ \E q \in Miners : Busy(q) /\ p = miners[q]
  BY DEF OpenParts
<1> QED BY <1>1, <1>2, <1>3

LEMMA ErrorRead ==
  ASSUME Inv, Work, errors # <<>>, errors' = Tail(errors), UNCHANGED <<link, lossRead>>
  PROVE  Head(errors) \in Peers /\ link[Head(errors)] = "down" /\ LossOK'
<1>1. Head(errors) \in Peers /\ Elements(errors) = {Head(errors)} \cup Elements(Tail(errors))
  BY TailSeq DEF Inv, Types, ChanTypes
<1>2. Elements(errors)' = Elements(Tail(errors))
  BY DEF Elements
<1>3. LossOK
  BY DEF Work
<1>4. link[Head(errors)] = "down"
  BY <1>1, <1>3 DEF LossOK
<1>5. LossOK'
  BY <1>1, <1>2, <1>3, LossKept
<1> QED BY <1>1, <1>4, <1>5

LEMMA ReportRead ==
  ASSUME Inv, Work, results # <<>>, results' = Tail(results), NEW r \in Reported, r = Head(results),
         NEW m \in Miners, m = r.id
  PROVE  r \in ReportsOf(m) /\ ReportsOnce' /\ ReportsOf(m)' = {} /\ \A q : q # m => ReportsOf(q)' = ReportsOf(q)
<1>1. PICK s \in Seq(Reported) : s = results
  BY DEF Inv, Types, ChanTypes, Reported
<1>2. r = Head(s)
  BY <1>1
<1>3. PICK t \in Seq(Reported) : t = Tail(s)
  BY <1>1, TailSeq
<1>4. /\ Elements(s) = {r} \cup Elements(t) /\ r = s[1] /\ 1 \in 1 .. Len(s) /\ Len(t) \in Nat
      /\ \A i \in 1 .. Len(t) : i + 1 \in 1 .. Len(s) /\ t[i] = s[i + 1]
  BY <1>1, <1>2, <1>3, TailSeq
<1>5. \A i, j \in 1 .. Len(s) : s[i].id = s[j].id => i = j
  BY <1>1 DEF Work, ReportsOnce
<1>6. \A i, j \in 1 .. Len(t) : t[i].id = t[j].id => i = j
  <2> TAKE i, j \in 1 .. Len(t)
  <2>1. i + 1 \in 1 .. Len(s) /\ j + 1 \in 1 .. Len(s) /\ t[i] = s[i + 1] /\ t[j] = s[j + 1]
    BY <1>4
  <2>2. t[i].id = t[j].id => i + 1 = j + 1
    BY <1>5, <2>1
  <2> QED BY <1>4, <2>2
<1>7. \A i \in 1 .. Len(t) : t[i].id # r.id
  <2> TAKE i \in 1 .. Len(t)
  <2>1. i + 1 \in 1 .. Len(s) /\ t[i] = s[i + 1] /\ i + 1 # 1
    BY <1>4
  <2> QED BY <1>4, <1>5, <2>1
<1>8. results' = t /\ Elements(results)' = Elements(t) /\ Elements(results) = Elements(s)
  BY <1>1, <1>3 DEF Elements
<1>9. ReportsOnce'
  BY <1>6, <1>8 DEF ReportsOnce
<1>10. \A e \in Elements(t) : e.id # r.id
  BY <1>7 DEF Elements
<1>11. ReportsOf(m)' = {}
  BY <1>8, <1>10 DEF ReportsOf
<1>12. \A q : q # m => ReportsOf(q)' = ReportsOf(q)
  BY <1>4, <1>8 DEF ReportsOf
<1>13. r \in ReportsOf(m)
  BY <1>4, <1>8 DEF ReportsOf
<1> QED BY <1>9, <1>11, <1>12, <1>13

LEMMA FirstReport ==
  ASSUME Inv, results # <<>>
  PROVE  \E r \in Reported : r = Head(results) /\ r.id \in Miners
<1>1. Head(results) \in Reported
  BY TailSeq DEF Inv, Types, ChanTypes, Reported
<1> QED BY <1>1 DEF Reported

\* Only m, and what the scheduler knows of it, changes.
LEMMA MinersKept ==
  ASSUME Work, NEW m \in Miners, MinerOK(m)', UNCHANGED <<link, toServer, mpc, part>>,
         \A q \in Miners : q # m => /\ toPeer'[q] = toPeer[q] /\ miners'[q] = miners[q]
                                    /\ q \in Elements(joins)' <=> q \in Elements(joins)
                                    /\ ReportsOf(q)' = ReportsOf(q)
  PROVE  MinersOK'
<1> SUFFICES ASSUME NEW q \in Miners, q # m PROVE MinerOK(q)'
  BY DEF MinersOK
<1>1. MinerOK(q)
  BY DEF Work, MinersOK
<1> QED BY <1>1, MinerKept

LEMMA ClientsKept ==
  ASSUME Work, UNCHANGED <<link, toServer, requests, cpc, answer, tasks, split>>,
         \A c \in Clients : toPeer'[c] = toPeer[c]
  PROVE  ClientsOK'
<1>1. Askers' = Askers
  BY DEF Askers
<1> SUFFICES ASSUME NEW c \in Clients PROVE ClientOK(c)'
  BY DEF ClientsOK
<1>2. ClientOK(c) /\ (tasks'[c] # NoTask /\ tasks'[c].lost => link[c] = "down")
  BY DEF Work, ClientsOK, ClientOK
<1> QED BY <1>1, <1>2, ClientKept

LEMMA TriggerIdleWork == ASSUME Inv, Work, ByServer(TriggerIdle) PROVE Work'
<1>1. UNCHANGED <<connVars, minerVars, chanVars, freeMiners, miners, pendingRequests, tasks, clientVars, split>>
  BY DEF ByServer, TriggerIdle
<1>2. Elements(errors)' = Elements(errors)
  BY <1>1 DEF chanVars, Elements
<1>3. LossOK'
  BY <1>1, <1>2, LossKept DEF Work, connVars
<1> QED BY <1>1, <1>3, TablesKept DEF connVars, minerVars, chanVars, clientVars

LEMMA TriggerLostWork == ASSUME Inv, Work, ByServer(TriggerLost) PROVE Work'
<1>1. UNCHANGED <<connVars, minerVars, chanVars, freeMiners, miners, tasks, clientVars, split>>
  BY DEF ByServer, TriggerLost
<1>2. UNCHANGED <<link, toServer, toPeer, lossRead, mpc, part, cpc, answer, joins, requests, results, errors>>
  BY <1>1 DEF connVars, minerVars, chanVars, clientVars
<1>3. /\ pendingRequests # <<>> /\ tasks[Head(pendingRequests).client].lost /\ pendingRequests' = Tail(pendingRequests)
      /\ pendingRequests \in Seq(Part)
  BY DEF ByServer, TriggerLost, Inv, Types, SchedTypes
<1>4. PICK r \in Part : r = Head(pendingRequests) /\ Elements(pendingRequests) = {r} \cup Elements(Tail(pendingRequests))
  BY <1>3, TailSeq
<1>5. Elements(pendingRequests)' = Elements(Tail(pendingRequests))
  BY <1>3 DEF Elements
<1>6. \A q \in Miners : Busy(q)' <=> Busy(q)
  BY <1>1 DEF Busy
<1>7. OpenParts' \subseteq OpenParts /\ OpenParts \subseteq OpenParts' \cup {r}
  BY <1>1, <1>4, <1>5, <1>6 DEF OpenParts
<1>8. OpenOK'
  BY <1>1, <1>7 DEF Work, OpenOK
<1>9. TasksOK'
  <2> SUFFICES ASSUME NEW c \in Clients PROVE TaskOK(c)'
    BY DEF TasksOK
  <2>1. CASE c = r.client
    BY <1>1, <1>3, <1>4, <2>1 DEF TaskOK
  <2>2. CASE c # r.client
    <3>1. TaskOK(c) /\ ClientOK(c)
      BY DEF Work, TasksOK, ClientsOK
    <3>2. \A p \in split[c] : p # r
      BY <2>2, <3>1 DEF ClientOK
    <3>3. \A p \in split[c] : p \in OpenParts => p \in OpenParts'
      BY <1>7, <3>2
    <3> QED BY <1>1, <3>1, <3>3, TaskKept
  <2> QED BY <2>1, <2>2
<1>10. Elements(joins)' = Elements(joins) /\ Elements(errors)' = Elements(errors) /\ \A m : ReportsOf(m)' = ReportsOf(m)
  BY <1>2 DEF Elements, ReportsOf
<1>11. LossOK' /\ ReportsOnce'
  BY <1>2, <1>10, LossKept DEF Work, ReportsOnce
<1>12. MinersOK'
  BY <1>1, <1>2, <1>10, MinerKept DEF Work, MinersOK
<1>13. ClientsOK'
  BY <1>1, <1>2, ClientsKept
<1> QED BY <1>8, <1>9, <1>11, <1>12, <1>13 DEF Work

LEMMA TriggerAssignWork == ASSUME Inv, Work, ByServer(TriggerAssign) PROVE Work'
<1>1. UNCHANGED <<link, toServer, lossRead, minerVars, chanVars, tasks, clientVars, split>>
  BY DEF ByServer, TriggerAssign
<1>2. UNCHANGED <<mpc, part, cpc, answer, joins, requests, results, errors>>
  BY <1>1 DEF minerVars, chanVars, clientVars
<1>3. /\ freeMiners # <<>> /\ pendingRequests # <<>> /\ pendingRequests' = Tail(pendingRequests)
      /\ pendingRequests \in Seq(Part) /\ freeMiners \in Seq(Miners)
  BY DEF ByServer, TriggerAssign, Inv, Types, SchedTypes
<1>4. PICK r \in Part : r = Head(pendingRequests) /\ Elements(pendingRequests) = {r} \cup Elements(Tail(pendingRequests))
  BY <1>3, TailSeq
<1>5. PICK m \in Miners : m = Head(freeMiners) /\ m \in Elements(freeMiners)
  BY <1>3, TailSeq
<1>6. PICK x \in RequestMsg : x = Request(r.client, r.lower, r.upper)
  BY DEF Part, Request, RequestMsg
<1>7. miners' = [miners EXCEPT ![m] = r] /\ toPeer' = Written(toPeer, m, x)
  BY <1>4, <1>5, <1>6 DEF ByServer, TriggerAssign
<1>8. \A q \in Miners : miners'[q] = IF q = m THEN r ELSE miners[q]
  BY <1>7 DEF Inv, Types, SchedTypes
<1>9. miners[m] # NoTask /\ miners[m].client = Nobody /\ ~Busy(m)
  <2>1. Elements(freeMiners) = IdleIn(miners)
    BY <1>3, FreeForm DEF Inv, Plan
  <2> QED BY <1>5, <2>1 DEF IdleIn, Busy
<1>10. r.client \in Clients /\ r # NoTask /\ r.client # Nobody
  BY DEF Part, BitcoinAssumption
<1>11. MinerOK(m) /\ m \in Peers /\ Idle(m)
  BY <1>9, MinerFacts DEF MinerOK
<1>12. /\ toPeer'[m] = (IF link[m] = "up" THEN <<x>> ELSE <<>>)
       /\ \A q \in Peers : q # m => toPeer'[q] = toPeer[q]
  <2>1. toPeer[m] = <<>> /\ toPeer = [q \in Peers |-> toPeer[q]]
    BY <1>11 DEF Idle, Inv, Types, ConnTypes, OutTypes
  <2>2. Append(<<>>, x) = <<x>>
    OBVIOUS
  <2>3. CASE link[m] = "up"
    <3>1. toPeer' = [toPeer EXCEPT ![m] = <<x>>]
      BY <1>7, <2>1, <2>2, <2>3 DEF Written
    <3> QED BY <1>11, <2>1, <2>3, <3>1, Changed
  <2>4. CASE link[m] # "up"
    BY <1>7, <2>1, <2>4 DEF Written
  <2> QED BY <2>3, <2>4
<1>13. Elements(joins)' = Elements(joins) /\ Elements(errors)' = Elements(errors) /\ \A q : ReportsOf(q)' = ReportsOf(q)
  BY <1>2 DEF Elements, ReportsOf
<1>14. /\ mpc'[m] # "mine" /\ ReportsOf(m)' = {} /\ miners'[m] = r /\ link'[m] = link[m] /\ mpc'[m] = mpc[m]
       /\ Busy(m)' /\ (Joining(m)' <=> Joining(m)) /\ link[m] # "none" /\ ~Joining(m)
  <2>1. mpc'[m] # "mine" /\ ReportsOf(m)' = {} /\ miners'[m] = r /\ link'[m] = link[m] /\ mpc'[m] = mpc[m]
    BY <1>1, <1>2, <1>8, <1>11, <1>13 DEF Idle
  <2>2. Busy(m)' /\ (Joining(m)' <=> Joining(m))
    BY <1>1, <1>8, <1>10, <1>13 DEF Busy, Joining
  <2>3. link[m] # "none"
    BY <1>9 DEF Inv, JoinsOnce
  <2>4. ~Joining(m)
    <3>1. m \notin Elements(joins)
      BY <1>9 DEF Inv, JoinsOnce
    <3>2. toServer[m] # <<Join>>
      <4>1. Len(<<Join>>) = 1 /\ <<Join>>[1].type = "Join"
        BY DEF Join
      <4> SUFFICES ASSUME toServer[m] = <<Join>> PROVE FALSE
        OBVIOUS
      <4>2. 1 \in 1 .. Len(toServer[m]) /\ toServer[m][1].type = "Join"
        BY <4>1
      <4> QED BY <1>9, <4>2 DEF Inv, JoinsOnce
    <3> QED BY <3>1, <3>2 DEF Joining
  <2> QED BY <2>1, <2>2, <2>3, <2>4
<1>15. toServer[m] = <<>> /\ toServer'[m] = <<>>
  BY <1>1, <1>11, <1>14 DEF Idle, Joining
<1>16. OneAtATime(m)'
  <2>1. Len(<<>>) <= 1 /\ Len(<<x>>) <= 1
    OBVIOUS
  <2>2. Len(toPeer'[m]) <= 1 /\ Len(toServer'[m]) <= 1
    BY <1>12, <1>15, <2>1, Zenon
  <2> QED BY <1>14, <1>15, <2>2 DEF OneAtATime
<1>17. Carries(m, miners[m])'
  <2>1. toPeer'[m] # <<>> => Head(toPeer'[m]) = x
    BY <1>12, OfOne
  <2> QED BY <1>6, <1>14, <1>15, <2>1 DEF Carries
<1>18. link[m] = "up" => Working(m)'
  BY <1>12, OfOne DEF Working
<1>19. MinerOK(m)'
  BY <1>11, <1>10, <1>14, <1>16, <1>17, <1>18 DEF MinerOK
<1>20. MinersOK'
  BY <1>1, <1>2, <1>8, <1>12, <1>13, <1>19, MinersKept, Disjoint
<1>21. \A p : p \in OpenParts' <=> p \in OpenParts
  <2> TAKE p
  <2>1. Elements(pendingRequests)' = Elements(Tail(pendingRequests))
    BY <1>3 DEF Elements
  <2>2. p \in OpenParts' => \/ p \in Elements(pendingRequests)' \/ (Busy(m)' /\ p = miners'[m])
                            \/ \E q \in Miners : q # m /\ Busy(q) /\ p = miners[q]
    BY <1>8, OpenBut
  <2>3. p \in OpenParts => \/ p \in Elements(pendingRequests) \/ (Busy(m) /\ p = miners[m])
                           \/ \E q \in Miners : q # m /\ Busy(q) /\ p = miners[q]
    BY DEF OpenParts
  <2>4. \/ p \in Elements(pendingRequests)' \/ (Busy(m)' /\ p = miners'[m])
        \/ \E q \in Miners : q # m /\ Busy(q) /\ p = miners[q]
        => p \in OpenParts'
    BY <1>8, OpenBut
  <2>5. p \in OpenParts => p \in OpenParts'
    BY <1>4, <1>9, <1>14, <2>1, <2>3, <2>4
  <2>6. p \in OpenParts' => p \in OpenParts
    BY <1>4, <1>14, <2>1, <2>2 DEF OpenParts
  <2> QED BY <2>5, <2>6
<1>22. OpenOK'
  BY <1>1, <1>21 DEF Work, OpenOK
<1>23. TasksOK'
  BY <1>1, <1>21, TaskKept DEF Work, TasksOK
<1>24. LossOK' /\ ReportsOnce'
  BY <1>1, <1>2, <1>13, LossKept DEF Work, ReportsOnce
<1>25. ClientsOK'
  BY <1>1, <1>2, <1>12, ClientsKept, Disjoint
<1> QED BY <1>20, <1>22, <1>23, <1>24, <1>25 DEF Work

LEMMA HandleJoinWork == ASSUME Inv, Work, ByServer(HandleJoin) PROVE Work'
<1>1. UNCHANGED <<connVars, minerVars, requests, results, errors, pendingRequests, tasks, clientVars, split>>
  BY DEF ByServer, HandleJoin, AddMiner
<1>2. UNCHANGED <<link, toServer, toPeer, lossRead, mpc, part, cpc, answer>>
  BY <1>1 DEF connVars, minerVars, clientVars
<1>3. joins # <<>> /\ joins' = Tail(joins) /\ joins \in Seq(Miners)
  BY DEF ByServer, HandleJoin, AddMiner, Inv, Types, ChanTypes
<1>4. PICK m \in Miners : /\ m = Head(joins) /\ Elements(joins) = {m} \cup Elements(Tail(joins))
                          /\ m \notin Elements(Tail(joins))
  BY <1>3, TailSeq DEF Inv, JoinsOnce
<1>5. Elements(joins)' = Elements(Tail(joins))
  BY <1>3 DEF Elements
<1>6. miners' = [miners EXCEPT ![m] = Free]
  BY <1>4 DEF ByServer, HandleJoin, AddMiner
<1>7. \A q \in Miners : miners'[q] = IF q = m THEN Free ELSE miners[q]
  BY <1>6 DEF Inv, Types, SchedTypes
<1>8. Free # NoTask /\ Free.client = Nobody
  BY DEF Free, Assigned, Nonce, MinerAssumption, BitcoinAssumption
<1>9. miners[m] = NoTask /\ Joining(m)
  BY <1>4 DEF Inv, JoinsOnce, Joining
<1>10. MinerOK(m) /\ Idle(m) /\ OneAtATime(m)
  BY <1>9, MinerFacts DEF MinerOK
<1>11. Elements(errors)' = Elements(errors) /\ \A q : ReportsOf(q)' = ReportsOf(q)
  BY <1>1 DEF Elements, ReportsOf
<1>12. Idle(m)' /\ OneAtATime(m)' /\ ~Busy(m)' /\ miners'[m] # NoTask
  <2>1. Idle(m)'
    BY <1>2, <1>10, <1>11 DEF Idle
  <2>2. OneAtATime(m)'
    BY <1>2, <1>10, <1>11 DEF OneAtATime
  <2> QED BY <1>7, <1>8, <2>1, <2>2 DEF Busy
<1>13. MinerOK(m)'
  BY <1>2, <1>10, <1>12 DEF MinerOK
<1>14. \A q \in Miners : q # m => (q \in Elements(joins)' <=> q \in Elements(joins))
  BY <1>4, <1>5
<1>15. MinersOK'
  BY <1>2, <1>7, <1>11, <1>13, <1>14, MinersKept
<1>16. \A q \in Miners : Busy(q)' <=> Busy(q)
  BY <1>7, <1>8, <1>9 DEF Busy
<1>17. OpenParts' = OpenParts
  <2>1. Elements(pendingRequests)' = Elements(pendingRequests)
    BY <1>1 DEF Elements
  <2>2. ~Busy(m)
    BY <1>9 DEF Busy
  <2> QED BY <1>7, <1>16, <2>1, <2>2 DEF OpenParts
<1>18. OpenOK'
  BY <1>1, <1>17 DEF Work, OpenOK
<1>19. TasksOK'
  BY <1>1, <1>17, TaskKept DEF Work, TasksOK
<1>20. LossOK' /\ ReportsOnce'
  BY <1>1, <1>2, <1>11, LossKept DEF Work, ReportsOnce
<1>21. ClientsOK'
  BY <1>1, <1>2, ClientsKept
<1> QED BY <1>15, <1>18, <1>19, <1>20, <1>21 DEF Work

LEMMA ResultIgnoredWork == ASSUME Inv, Work, ByServer(ResultIgnored) PROVE Work'
<1>1. UNCHANGED <<connVars, minerVars, joins, requests, errors, schedVars, clientVars>>
  BY DEF ByServer, ResultIgnored
<1>2. UNCHANGED <<link, toServer, toPeer, lossRead, mpc, part, cpc, answer, miners, pendingRequests, tasks, split>>
  BY <1>1 DEF connVars, minerVars, clientVars, schedVars
<1>3. results # <<>> /\ results' = Tail(results) /\ ~Busy(Head(results).id)
  BY DEF ByServer, ResultIgnored
<1>a. PICK r \in Reported : r = Head(results) /\ r.id \in Miners
  BY <1>3, FirstReport
<1>4. PICK m \in Miners : m = r.id /\ m = Head(results).id
  BY <1>a
<1>5. ~Busy(m) /\ ReportsOnce' /\ ReportsOf(m)' = {} /\ \A q : q # m => ReportsOf(q)' = ReportsOf(q)
  BY <1>3, <1>a, <1>4, ReportRead
<1>6. Elements(errors)' = Elements(errors) /\ Elements(joins)' = Elements(joins)
  BY <1>1 DEF Elements
<1>7. MinerOK(m)
  BY MinerFacts
<1>8. (Idle(m) => Idle(m)') /\ (Joining(m)' <=> Joining(m)) /\ ~Busy(m)'
  BY <1>2, <1>5, <1>6 DEF Idle, Joining, Busy
<1>9. OneAtATime(m) => OneAtATime(m)'
  BY <1>2, <1>5 DEF OneAtATime
<1>10. MinerOK(m)'
  BY <1>2, <1>5, <1>7, <1>8, <1>9 DEF MinerOK
<1>11. MinersOK'
  BY <1>2, <1>5, <1>6, <1>10, MinersKept
<1>12. LossOK' /\ OpenOK' /\ TasksOK'
  BY <1>2, <1>6, LossKept, OpenKept, TasksKept DEF Work
<1>13. ClientsOK'
  BY <1>1, <1>2, ClientsKept
<1> QED BY <1>5, <1>11, <1>12, <1>13 DEF Work

-----------------------------------------------------------------------------
(* A request is cut into parts *)

LEMMA Concat ==
  ASSUME NEW S, NEW s \in Seq(S), NEW t \in Seq(S)
  PROVE  Elements(s \o t) = Elements(s) \cup Elements(t)
<1>1. PICK m \in Nat, n \in Nat : m = Len(s) /\ n = Len(t)
  <2>1. Len(s) \in Nat /\ Len(t) \in Nat
    OBVIOUS
  <2> QED BY <2>1
<1>2. /\ Len(s \o t) = m + n
      /\ \A i \in 1 .. m : (s \o t)[i] = s[i]
      /\ \A i \in 1 .. n : (s \o t)[m + i] = t[i]
  BY <1>1
<1>3. \A i \in 1 .. m + n : i \in 1 .. m \/ \E j \in 1 .. n : i = m + j
  <2> TAKE i \in 1 .. m + n
  <2>1. i \in 1 .. m \/ (i - m \in 1 .. n /\ i = m + (i - m))
    OBVIOUS
  <2> QED BY <2>1
<1>4. (\A i \in 1 .. m : i \in 1 .. m + n) /\ (\A i \in 1 .. n : m + i \in 1 .. m + n)
  OBVIOUS
<1>5. ASSUME NEW x \in Elements(s \o t) PROVE x \in Elements(s) \cup Elements(t)
  <2>1. PICK i \in 1 .. m + n : x = (s \o t)[i]
    BY <1>2 DEF Elements
  <2> QED BY <1>1, <1>2, <1>3, <2>1 DEF Elements
<1>6. ASSUME NEW x \in Elements(s) PROVE x \in Elements(s \o t)
  <2>1. PICK i \in 1 .. m : x = s[i]
    BY <1>1 DEF Elements
  <2> QED BY <1>2, <1>4, <2>1 DEF Elements
<1>7. ASSUME NEW x \in Elements(t) PROVE x \in Elements(s \o t)
  <2>1. PICK i \in 1 .. n : x = t[i]
    BY <1>1 DEF Elements
  <2> QED BY <1>2, <1>4, <2>1 DEF Elements
<1> QED BY <1>5, <1>6, <1>7

\* A client without parts left has none open; with one left, it is the one its miner has.
LEMMA NoneOpen ==
  ASSUME SchedTypes, NEW c \in Clients, PartsLeft(c) = 0, NEW p \in OpenParts
  PROVE  p.client # c
<1> SUFFICES ASSUME p.client = c PROVE FALSE
  OBVIOUS
<1>1. /\ IsFiniteSet(BusyWith(c)) /\ Cardinality(BusyWith(c)) \in Nat /\ Cardinality(PendingOf(c)) \in Nat
      /\ PendingOf(c) = Places(pendingRequests, c) /\ pendingRequests \in Seq(Part)
      /\ PartsLeft(c) = Cardinality(BusyWith(c)) + Cardinality(PendingOf(c))
  BY LeftNat DEF SchedTypes
<1>2. Cardinality(BusyWith(c)) = 0 /\ Cardinality(PendingOf(c)) = 0
  BY <1>1
<1>3. BusyWith(c) = {} /\ PendingOf(c) = {}
  BY <1>1, <1>2, PlacesFinite, FS_EmptySet
<1>4. CASE p \in Elements(pendingRequests)
  BY <1>3, <1>4 DEF PendingOf, Elements
<1>5. CASE \E m \in Miners : Busy(m) /\ p = miners[m]
  BY <1>3, <1>5 DEF BusyWith
<1> QED BY <1>4, <1>5 DEF OpenParts

LEMMA OneOpen ==
  ASSUME SchedTypes, NEW c \in Clients, PartsLeft(c) = 1, NEW m \in Miners, Busy(m), miners[m].client = c,
         NEW p \in OpenParts, p.client = c
  PROVE  p = miners[m]
<1>1. /\ IsFiniteSet(BusyWith(c)) /\ Cardinality(BusyWith(c)) \in Nat /\ Cardinality(PendingOf(c)) \in Nat
      /\ PendingOf(c) = Places(pendingRequests, c) /\ pendingRequests \in Seq(Part)
      /\ PartsLeft(c) = Cardinality(BusyWith(c)) + Cardinality(PendingOf(c))
  BY LeftNat DEF SchedTypes
<1>2. m \in BusyWith(c)
  BY DEF BusyWith
<1>3. /\ IsFiniteSet(BusyWith(c) \ {m}) /\ Cardinality(BusyWith(c) \ {m}) = Cardinality(BusyWith(c)) - 1
      /\ Cardinality(BusyWith(c) \ {m}) \in Nat
  BY <1>1, <1>2, FS_RemoveElement, FS_CardinalityType
<1>4. Cardinality(BusyWith(c) \ {m}) = 0 /\ Cardinality(PendingOf(c)) = 0
  BY <1>1, <1>3
<1>5. BusyWith(c) \ {m} = {} /\ PendingOf(c) = {}
  BY <1>1, <1>3, <1>4, PlacesFinite, FS_EmptySet
<1>6. CASE p \in Elements(pendingRequests)
  BY <1>5, <1>6 DEF PendingOf, Elements
<1>7. CASE \E q \in Miners : Busy(q) /\ p = miners[q]
  BY <1>5, <1>7 DEF BusyWith
<1> QED BY <1>6, <1>7 DEF OpenParts

LEMMA RequestRead ==
  ASSUME Inv, requests # <<>>, requests' = Tail(requests), NEW r \in Asked, r = Head(requests), NEW d \in Clients, d = r.id
  PROVE  d \in Askers /\ d \notin Askers' /\ \A c : c # d => (c \in Askers' <=> c \in Askers)
<1>1. PICK s \in Seq(Asked) : s = requests
  BY DEF Inv, Types, ChanTypes, Asked
<1>2. PICK t \in Seq(Asked) : t = Tail(s)
  BY <1>1, TailSeq
<1>3. /\ Elements(s) = {r} \cup Elements(t) /\ r = s[1] /\ 1 \in 1 .. Len(s) /\ Len(t) \in Nat
      /\ \A i \in 1 .. Len(t) : i + 1 \in 1 .. Len(s) /\ t[i] = s[i + 1]
  BY <1>1, <1>2, TailSeq
<1>4. \A i \in 1 .. Len(t) : t[i].id # d
  <2> TAKE i \in 1 .. Len(t)
  <2>1. i + 1 \in 1 .. Len(s) /\ t[i] = s[i + 1] /\ i + 1 # 1
    BY <1>3
  <2>2. \A k, j \in 1 .. Len(s) : s[k].id = s[j].id => k = j
    BY <1>1 DEF Inv, AsksOnce
  <2> QED BY <1>3, <2>1, <2>2
<1>6. Askers = {e.id : e \in Elements(s)}
  BY <1>1, IdsOf DEF Askers
<1>7. t = requests'
  BY <1>1, <1>2
<1>8. Askers' = {e.id : e \in Elements(t)}
  BY <1>7, IdsOf DEF Askers
<1>9. \A e \in Elements(t) : e.id # d
  BY <1>4 DEF Elements
<1> QED BY <1>3, <1>6, <1>8, <1>9

\* split has a set for each client.
SplitTypes == split = [c \in Clients |-> split[c]]

LEMMA HandleRequestWork == ASSUME Inv, Work, SplitTypes, ByServer(HandleRequest) PROVE Work'
<1>1. UNCHANGED <<connVars, minerVars, joins, results, errors, freeMiners, miners, clientVars>>
  BY DEF ByServer, HandleRequest
<1>2. UNCHANGED <<link, toServer, toPeer, lossRead, mpc, part, cpc, answer>>
  BY <1>1 DEF connVars, minerVars, clientVars
<1>3. requests # <<>> /\ requests' = Tail(requests) /\ requests \in Seq(Asked)
  BY DEF ByServer, HandleRequest, Inv, Types, ChanTypes, Asked
<1>4. PICK r \in Asked : r = Head(requests)
  BY <1>3, TailSeq
<1>5. PICK d \in Clients : d = r.id
  BY DEF Asked
<1>6. d \in Askers /\ d \notin Askers' /\ \A c : c # d => (c \in Askers' <=> c \in Askers)
  BY <1>3, <1>4, <1>5, RequestRead
<1>7. /\ Parts(r) \in Seq(Part) /\ Stride(r.upper) \in Nat \ {0}
      /\ \A i \in 1 .. Len(Parts(r)) : Parts(r)[i].client = r.id
  BY PartsSeq DEF Asked, Inv, Types, SchedTypes
<1>8. PICK n \in Nat \ {0} : n = Stride(r.upper)
  BY <1>7
<1>9. PICK s \in Seq(Part) : s = Parts(r) /\ \A i \in 1 .. Len(s) : s[i].client = d
  BY <1>5, <1>7
<1>10. PICK t : t = [lost |-> FALSE, min |-> Unset, miners |-> n]
  OBVIOUS
<1>11. t.lost = FALSE /\ t.min = Unset /\ t # NoTask /\ Unset.hash = 0
  <2>1. t \in [lost : BOOLEAN, min : Finding, miners : Nat]
    BY <1>10, UnsetFound
  <2> QED BY <1>10, <2>1 DEF Unset
<1>12. /\ tasks' = [tasks EXCEPT ![d] = t] /\ split' = [split EXCEPT ![d] = ToSet(s)]
       /\ pendingRequests' = pendingRequests \o s
  BY <1>4, <1>5, <1>8, <1>9, <1>10 DEF ByServer, HandleRequest
<1>13. \A c \in Clients : tasks'[c] = IF c = d THEN t ELSE tasks[c]
  BY <1>12 DEF Inv, Types, SchedTypes
<1>14. ToSet(s) = Elements(s)
  BY DEF ToSet, Elements
<1>15. \A c \in Clients : split'[c] = IF c = d THEN Elements(s) ELSE split[c]
  BY <1>12, <1>14, Changed DEF SplitTypes
<1>16. \A p \in Elements(s) : p \in Part /\ p.client = d
  <2> TAKE p \in Elements(s)
  <2>1. PICK i \in 1 .. Len(s) : p = s[i]
    BY DEF Elements
  <2>2. s[i] \in Part
    OBVIOUS
  <2> QED BY <1>9, <2>1, <2>2
<1>17. Elements(pendingRequests)' = Elements(pendingRequests) \cup Elements(s)
  <2>1. Elements(pendingRequests \o s) = Elements(pendingRequests) \cup Elements(s)
    BY Concat DEF Inv, Types, SchedTypes
  <2>2. Elements(pendingRequests)' = Elements(pendingRequests \o s)
    BY <1>12 DEF Elements
  <2> QED BY <2>1, <2>2
<1>18. OpenParts' = OpenParts \cup Elements(s)
  <2>1. \A q \in Miners : Busy(q)' <=> Busy(q)
    BY <1>1 DEF Busy
  <2> QED BY <1>1, <1>17, <2>1 DEF OpenParts
<1>19. ClientOK(d) /\ Asking(d) /\ tasks[d] = NoTask /\ toServer[d] = <<>> /\ link[d] # "none"
  <2>1. tasks[d] = NoTask /\ toServer[d] = <<>> /\ link[d] # "none"
    BY <1>6 DEF Inv, AsksOnce
  <2> QED BY <1>6, <2>1 DEF Asking, Work, ClientsOK
<1>20. \A p \in OpenParts : p.client \in Clients /\ p.client # d
  <2>1. PartsLeft(d) = 0
    BY <1>19 DEF Inv, Plan, PartsConserved
  <2> QED BY <2>1, NoneOpen, OpenTypes DEF Inv, Types
<1>21. OpenOK'
  <2> SUFFICES ASSUME NEW p \in OpenParts' PROVE p \in split'[p.client]
    BY DEF OpenOK
  <2>1. CASE p \in OpenParts
    BY <1>15, <1>20, <2>1 DEF Work, OpenOK
  <2>2. CASE p \in Elements(s)
    BY <1>15, <1>16, <2>2
  <2> QED BY <1>18, <2>1, <2>2
<1>22. TasksOK'
  <2> SUFFICES ASSUME NEW c \in Clients PROVE TaskOK(c)'
    BY DEF TasksOK
  <2>1. CASE c = d
    <3>1. tasks'[c] = t /\ split'[c] = Elements(s)
      BY <1>13, <1>15, <2>1
    <3>2. Genuine(t.min, c, Nonces(c)')
      BY <1>11 DEF Genuine
    <3> QED BY <1>18, <3>1, <3>2 DEF TaskOK
  <2>2. CASE c # d
    <3>1. TaskOK(c) /\ tasks'[c] = tasks[c] /\ split'[c] = split[c]
      BY <1>13, <1>15, <2>2 DEF Work, TasksOK
    <3> QED BY <1>18, <3>1, TaskKept
  <2> QED BY <2>1, <2>2
<1>23. ClientsOK'
  <2> SUFFICES ASSUME NEW c \in Clients PROVE ClientOK(c)'
    BY DEF ClientsOK
  <2>1. CASE c = d
    <3>1. ~Asking(d)'
      BY <1>2, <1>6, <1>19 DEF Asking
    <3>2. toPeer'[d] = <<>> /\ cpc'[d] # "answered"
      BY <1>2, <1>19 DEF ClientOK
    <3>3. \A i \in 1 .. Len(toPeer'[d]) : FALSE
      BY <3>2
    <3>4. tasks'[d] # NoTask /\ ~tasks'[d].lost
      BY <1>11, <1>13
    <3>5. \A p \in split'[d] : p \in Part /\ p.client = d
      BY <1>15, <1>16
    <3>6. ClientOK(d)'
      BY <3>1, <3>2, <3>3, <3>4, <3>5 DEF ClientOK, Part
    <3> QED BY <2>1, <3>6
  <2>2. CASE c # d
    <3>1. ClientOK(c) /\ tasks'[c] = tasks[c] /\ split'[c] = split[c]
      BY <1>13, <1>15, <2>2 DEF Work, ClientsOK
    <3>2. tasks'[c] # NoTask /\ tasks'[c].lost => link[c] = "down"
      BY <3>1 DEF ClientOK
    <3> QED BY <1>2, <1>6, <2>2, <3>1, <3>2, ClientKept
  <2> QED BY <2>1, <2>2
<1>24. Elements(joins)' = Elements(joins) /\ Elements(errors)' = Elements(errors) /\ \A m : ReportsOf(m)' = ReportsOf(m)
  BY <1>1 DEF Elements, ReportsOf
<1>25. LossOK' /\ ReportsOnce'
  BY <1>1, <1>2, <1>24, LossKept DEF Work, ReportsOnce
<1>26. MinersOK'
  BY <1>1, <1>2, <1>24, MinerKept DEF Work, MinersOK
<1> QED BY <1>21, <1>22, <1>23, <1>25, <1>26 DEF Work

-----------------------------------------------------------------------------
(* A result comes in *)

LEMMA TriedNonce ==
  ASSUME NEW p \in Part
  PROVE  Tried(p) \subseteq Nonce
<1>1. PICK l \in Nonce, u \in Nonce : l = p.lower /\ u = p.upper
  BY DEF Part
<1>2. l \in Nat /\ u \in Nat /\ u < Word
  BY DEF Nonce
<1>3. Size(p) \in Nonce
  <2>1. u - l \in Int
    BY <1>2
  <2> QED BY <1>1, <2>1, Mod DEF Size
<1>4. Goroutines(p) \in Nat
  BY <1>3 DEF Goroutines, Nonce
<1>5. CASE Goroutines(p) = 0
  BY <1>5 DEF Tried
<1>6. CASE Goroutines(p) # 0
  <2>1. PICK g \in Nat \ {0}, z \in Nat : g = Goroutines(p) /\ z = Size(p)
    BY <1>3, <1>4, <1>6 DEF Nonce
  <2>2. PICK k \in Nat : k = z % g
    <3>1. z % g \in 0 .. g - 1
      BY Quotient
    <3>2. 0 .. g - 1 \subseteq Nat
      OBVIOUS
    <3> QED BY <3>1, <3>2
  <2>3. Tried(p) = l .. u - k
    BY <1>1, <1>6, <2>1, <2>2 DEF Tried
  <2>4. \A n \in l .. u - k : n \in 0 .. Word - 1
    BY <1>2
  <2> QED BY <2>3, <2>4 DEF Nonce
<1> QED BY <1>5, <1>6

\* The least of the results so far and of the result of p.
LEMMA CoverStep ==
  ASSUME NEW d \in Clients, NEW b \in Finding, NEW r \in Reported, NEW p \in Part, p.client = d,
         LeastIn(r, d, Tried(p)), b.hash # 0 => b.hash = Hash[d][b.nonce], NEW f, f = Least(b, r)
  PROVE  /\ f.nonce \in Tried(p) \/ (b.hash # 0 /\ f.nonce = b.nonce)
         /\ f.hash # 0 /\ f.hash = Hash[d][f.nonce]
         /\ Covers(f, p) /\ \A q \in Part : q.client = d /\ Covers(b, q) => Covers(f, q)
<1>1. PICK h \in Nat, n \in Nonce : h = r.hash /\ n = r.nonce
  BY DEF Reported
<1>2. \A k \in Nonce : Hash[d][k] \in Nat \ {0}
  BY DEF Nonce
<1>3. n \in Tried(p) /\ h = Hash[d][n] /\ \A k \in Tried(p) : h <= Hash[d][k]
  BY <1>1 DEF LeastIn
<1>4. h # 0
  BY <1>2, <1>3
<1>5. PICK g \in Nat, a \in Nonce : g = b.hash /\ a = b.nonce
  BY DEF Finding
<1>6. g # 0 => g = Hash[d][a]
  BY <1>5
<1>7. CASE g = 0 \/ g > h
  <2>1. f.hash = h /\ f.nonce = n
    BY <1>1, <1>5, <1>7 DEF Least
  <2>2. Covers(f, p)
    BY <1>3, <1>4, <2>1 DEF Covers
  <2>3. ASSUME NEW q \in Part, q.client = d, Covers(b, q) PROVE Covers(f, q)
    <3>1. g # 0 /\ \A k \in Tried(q) : g <= Hash[d][k]
      BY <1>5, <2>3 DEF Covers
    <3>2. \A k \in Tried(q) : Hash[d][k] \in Nat
      BY <1>2, TriedNonce
    <3>3. \A k \in Tried(q) : h <= Hash[d][k]
      BY <1>7, <3>1, <3>2
    <3> QED BY <1>4, <2>1, <2>3, <3>3 DEF Covers
  <2> QED BY <1>3, <1>4, <2>1, <2>2, <2>3
<1>8. CASE g # 0 /\ ~(g > h)
  <2>1. f = b
    BY <1>1, <1>5, <1>8 DEF Least
  <2>2. \A k \in Tried(p) : Hash[d][k] \in Nat
    BY <1>2, TriedNonce
  <2>3. \A k \in Tried(p) : g <= Hash[d][k]
    BY <1>3, <1>8, <2>2
  <2>4. Covers(f, p)
    BY <1>5, <1>8, <2>1, <2>3 DEF Covers
  <2> QED BY <1>5, <1>6, <1>8, <2>1, <2>4
<1> QED BY <1>7, <1>8

\* What covers all parts is the least of all.
LEMMA AllCovered ==
  ASSUME NEW c \in Clients, NEW f, \A p \in split[c] : Covers(f, p) /\ p.client = c,
         f.nonce \in Nonces(c), f.hash = Hash[c][f.nonce]
  PROVE  LeastIn(f, c, Nonces(c))
<1> SUFFICES ASSUME NEW n \in Nonces(c) PROVE f.hash <= Hash[c][n]
  BY DEF LeastIn
<1>1. PICK p \in split[c] : n \in Tried(p)
  BY DEF Nonces
<1> QED BY <1>1 DEF Covers

LEMMA HandleResultWork == ASSUME Inv, Work, ByServer(HandleResult) PROVE Work'
<1>1. UNCHANGED <<link, toServer, lossRead, minerVars, joins, requests, errors, pendingRequests, clientVars, split>>
  BY DEF ByServer, HandleResult
<1>2. UNCHANGED <<mpc, part, cpc, answer>>
  BY <1>1 DEF minerVars, clientVars
<1>3. SchedTypes /\ PartsConserved
  BY DEF Inv, Types, Plan
<1>4. results # <<>> /\ results' = Tail(results)
  BY DEF ByServer, HandleResult
<1>5. PICK r \in Reported : r = Head(results) /\ r.id \in Miners
  BY <1>4, FirstReport
<1>6. PICK m \in Miners : m = r.id
  BY <1>5
<1>7. r \in ReportsOf(m) /\ ReportsOnce' /\ ReportsOf(m)' = {} /\ \A q : q # m => ReportsOf(q)' = ReportsOf(q)
  BY <1>4, <1>5, <1>6, ReportRead
<1>8. Busy(m)
  BY <1>5, <1>6 DEF ByServer, HandleResult
<1>9. PICK p \in Part, d \in Clients : p = miners[m] /\ d = p.client /\ PartsLeft(d) # 0
  BY <1>3, <1>8, BusyLeft
<1>10. PICK t \in Task : t = tasks[d] /\ t # NoTask /\ (~t.lost => t.miners = PartsLeft(d))
  BY <1>3, <1>9, LeftTask
<1>11. PICK f \in Finding : f = Least(t.min, r)
  BY DEF Task, Finding, Least, Reported
<1>12. PICK u : /\ u = IF LastPart(t) THEN NoTask ELSE [t EXCEPT !.miners = @ - 1, !.min = f]
                /\ u # NoTask => t.miners # 1 /\ u.lost = t.lost /\ u.min = f
                /\ u = NoTask => t.miners = 1
  <2>1. CASE LastPart(t)
    BY <2>1 DEF LastPart
  <2>2. CASE ~LastPart(t)
    <3>1. PICK u : u = [t EXCEPT !.miners = @ - 1, !.min = f]
      OBVIOUS
    <3>2. u \in Task
      BY <2>2, <3>1, Counted DEF LastPart
    <3>3. u # NoTask
      BY <3>2 DEF Task
    <3>4. u.lost = t.lost /\ u.min = f
      BY <3>1 DEF Task
    <3> QED BY <2>2, <3>1, <3>3, <3>4 DEF LastPart
  <2> QED BY <2>1, <2>2
<1>13. tasks' = [tasks EXCEPT ![d] = u]
  BY <1>5, <1>6, <1>9, <1>10, <1>11, <1>12 DEF ByServer, HandleResult
<1>14. \A c \in Clients : tasks'[c] = IF c = d THEN u ELSE tasks[c]
  BY <1>13 DEF Inv, Types, SchedTypes
<1>15. PICK x : miners' = [miners EXCEPT ![m] = x] /\ x.client = Nobody /\ x # NoTask
  <2>1. PICK y \in Assigned : y = miners[m]
    BY <1>8 DEF Inv, Types, SchedTypes, Busy
  <2>2. PICK x \in Assigned : x = [y EXCEPT !.client = Nobody] /\ x.client = Nobody
    BY Freed
  <2>3. miners' = [miners EXCEPT ![m].client = Nobody]
    BY <1>5, <1>6 DEF ByServer, HandleResult
  <2>4. miners' = [miners EXCEPT ![m] = x]
    BY <2>1, <2>2, <2>3
  <2> QED BY <2>2, <2>4 DEF Assigned
<1>16. \A q \in Miners : miners'[q] = IF q = m THEN x ELSE miners[q]
  BY <1>15 DEF Inv, Types, SchedTypes
<1>17. PICK y \in ResultMsg : y = Result(f.hash, f.nonce) /\ y.hash = f.hash /\ y.nonce = f.nonce
  <2>1. PICK h \in Nat, n \in Nonce : h = f.hash /\ n = f.nonce
    BY DEF Finding
  <2>2. PICK y \in ResultMsg : y = Result(h, n)
    BY DEF Result, ResultMsg
  <2>3. y.hash = h /\ y.nonce = n
    BY <2>2 DEF Result
  <2> QED BY <2>1, <2>2, <2>3
<1>18. toPeer' = IF u = NoTask /\ ~t.lost THEN Written(toPeer, d, y) ELSE toPeer
  <2>1. u = NoTask <=> LastPart(t)
    BY <1>12 DEF LastPart
  <2>2. toPeer' = IF LastPart(t) /\ ~t.lost THEN Written(toPeer, d, y) ELSE toPeer
    BY <1>5, <1>6, <1>9, <1>10, <1>11, <1>17 DEF ByServer, HandleResult
  <2> QED BY <2>1, <2>2
<1>19. /\ \A q \in Peers : q # d => toPeer'[q] = toPeer[q]
       /\ toPeer'[d] = IF u = NoTask /\ ~t.lost /\ link[d] = "up" THEN Append(toPeer[d], y) ELSE toPeer[d]
  <2>1. d \in Peers /\ toPeer = [q \in Peers |-> toPeer[q]]
    BY Disjoint DEF Inv, Types, ConnTypes, OutTypes
  <2>2. CASE u = NoTask /\ ~t.lost /\ link[d] = "up"
    <3>1. PICK z : z = Append(toPeer[d], y)
      OBVIOUS
    <3>2. toPeer' = [toPeer EXCEPT ![d] = z]
      BY <1>18, <2>2, <3>1 DEF Written
    <3> QED BY <2>1, <2>2, <3>1, <3>2, Changed
  <2>3. CASE ~(u = NoTask /\ ~t.lost /\ link[d] = "up")
    BY <1>18, <2>3 DEF Written
  <2> QED BY <2>2, <2>3
<1>20. MinerOK(m) /\ OneAtATime(m) /\ m # d /\ m \in Peers
  BY MinerFacts, Disjoint DEF MinerOK
<1>21. toPeer[m] = <<>> /\ mpc[m] # "mine" /\ toServer[m] = <<>> /\ link[m] # "none" /\ m \notin Elements(joins)
  <2>1. toPeer[m] = <<>> /\ mpc[m] # "mine" /\ toServer[m] = <<>>
    BY <1>7, <1>20 DEF OneAtATime
  <2> QED BY <1>8, <2>1 DEF Inv, JoinsOnce, Busy
<1>22. /\ toPeer'[m] = <<>> /\ mpc'[m] # "mine" /\ toServer'[m] = <<>> /\ link'[m] # "none"
       /\ miners'[m] # NoTask /\ ~Busy(m)'
  BY <1>1, <1>2, <1>15, <1>16, <1>19, <1>20, <1>21 DEF Busy
<1>23. Idle(m)' /\ OneAtATime(m)'
  BY <1>7, <1>22, OfOne DEF Idle, OneAtATime
<1>24. MinerOK(m)'
  <2>1. mpc'[m] # "start"
    BY <1>2, <1>20, <1>21 DEF MinerOK
  <2> QED BY <1>22, <1>23, <2>1 DEF MinerOK
<1>25. Elements(joins)' = Elements(joins) /\ Elements(errors)' = Elements(errors) /\ Elements(pendingRequests)' = Elements(pendingRequests)
  BY <1>1 DEF Elements
<1>26. MinersOK'
  <2>1. \A q \in Miners : q \in Peers /\ q # d
    BY Disjoint
  <2> QED BY <1>1, <1>2, <1>7, <1>16, <1>19, <1>24, <1>25, <2>1, MinersKept
<1>27. OpenParts' \subseteq OpenParts /\ OpenParts \subseteq OpenParts' \cup {p}
  <2>1. \A q \in Miners : q # m => (Busy(q)' <=> Busy(q)) /\ miners'[q] = miners[q]
    BY <1>16 DEF Busy
  <2> QED BY <1>9, <1>22, <1>25, <2>1 DEF OpenParts
<1>28. OpenOK'
  BY <1>1, <1>27 DEF Work, OpenOK
<1>29. ClientOK(d) /\ TaskOK(d) /\ p \in split[d]
  <2>1. p \in OpenParts
    BY <1>8, <1>9 DEF OpenParts
  <2> QED BY <1>9, <2>1 DEF Work, OpenOK, ClientsOK, TasksOK
<1>30. ASSUME ~t.lost, CutWell(d)
       PROVE  /\ f.nonce \in Nonces(d) /\ f.hash = Hash[d][f.nonce]
              /\ \A q \in split[d] : (q \in OpenParts /\ q # p) \/ Covers(f, q)
  <2>1. p.lower < p.upper
    BY <1>29, <1>30 DEF CutWell
  <2>2. Found(p, r)
    BY <1>7, <1>8, <1>9, <1>20 DEF MinerOK, Carries
  <2>3. LeastIn(r, d, Tried(p))
    BY <1>9, <2>1, <2>2 DEF Found
  <2>4. Tried(p) \subseteq Nonces(d)
    BY <1>29 DEF Nonces
  <2>5. PICK b \in Finding : b = t.min
    BY DEF Task
  <2>6. Genuine(b, d, Nonces(d)) /\ \A q \in split[d] : q \in OpenParts \/ Covers(b, q)
    BY <1>10, <1>29, <1>30, <2>5 DEF TaskOK
  <2>7. /\ f.nonce \in Nonces(d) /\ f.hash = Hash[d][f.nonce]
        /\ Covers(f, p) /\ \A q \in Part : q.client = d /\ Covers(b, q) => Covers(f, q)
    <3>1. p.client = d /\ f = Least(b, r) /\ (b.hash # 0 => b.nonce \in Nonces(d) /\ b.hash = Hash[d][b.nonce])
      BY <1>9, <1>11, <2>5, <2>6 DEF Genuine
    <3>2. f.nonce \in Tried(p) \/ (b.hash # 0 /\ f.nonce = b.nonce)
      BY <2>3, <3>1, CoverStep
    <3>3. f.hash = Hash[d][f.nonce]
      BY <2>3, <3>1, CoverStep
    <3>4. Covers(f, p) /\ \A q \in Part : q.client = d /\ Covers(b, q) => Covers(f, q)
      BY <2>3, <3>1, CoverStep
    <3> QED BY <2>4, <3>1, <3>2, <3>3, <3>4
  <2>8. \A q \in split[d] : q \in Part /\ q.client = d
    BY <1>29 DEF ClientOK
  <2> QED BY <2>6, <2>7, <2>8
<1>31. (CutWell(d)' <=> CutWell(d)) /\ Nonces(d)' = Nonces(d)
  BY <1>1, SplitSame
<1>32. TasksOK'
  <2> SUFFICES ASSUME NEW c \in Clients PROVE TaskOK(c)'
    BY DEF TasksOK
  <2>1. CASE c = d
    <3> SUFFICES ASSUME u # NoTask, ~u.lost, CutWell(d)
                 PROVE  /\ \A q \in split[d] : q \in OpenParts' \/ Covers(u.min, q)
                        /\ Genuine(u.min, d, Nonces(d))
      BY <1>1, <1>14, <1>31, <2>1 DEF TaskOK
    <3>1. u.min = f /\ ~t.lost
      BY <1>12
    <3> QED BY <1>27, <1>30, <3>1 DEF Genuine
  <2>2. CASE c # d
    <3>1. TaskOK(c) /\ ClientOK(c)
      BY DEF Work, TasksOK, ClientsOK
    <3>2. \A q \in split[c] : q # p
      BY <1>9, <2>2, <3>1 DEF ClientOK
    <3>3. \A q \in split[c] : q \in OpenParts => q \in OpenParts'
      BY <1>27, <3>2
    <3>4. split'[c] = split[c] /\ tasks'[c] = tasks[c]
      BY <1>1, <1>14, <2>2
    <3> QED BY <3>1, <3>3, <3>4, TaskKept
  <2> QED BY <2>1, <2>2
<1>33. ASSUME u = NoTask, ~t.lost, CutWell(d) PROVE LeastIn(y, d, Nonces(d))
  <2>1. PartsLeft(d) = 1
    BY <1>10, <1>12, <1>33
  <2>2. \A q \in split[d] : Covers(f, q) /\ q.client = d
    <3> TAKE q \in split[d]
    <3>1. q.client = d
      BY <1>29 DEF ClientOK
    <3>2. q \in OpenParts => q = p
      BY <1>3, <1>8, <1>9, <2>1, <3>1, OneOpen
    <3> QED BY <1>30, <1>33, <3>1, <3>2
  <2>3. LeastIn(f, d, Nonces(d))
    BY <1>30, <1>33, <2>2, AllCovered
  <2> QED BY <1>17, <2>3 DEF LeastIn
<1>34. Askers' = Askers
  BY <1>1 DEF Askers
<1>35. ClientOK(d)'
  <2>1. toPeer[d] \in Seq(ResultMsg) /\ d \in Peers
    BY Disjoint DEF Inv, Types, ConnTypes, OutTypes
  <2>2. PICK s \in Seq(ResultMsg) : s = toPeer[d]
    BY <2>1
  <2>3. ~Asking(d) /\ (Asking(d)' <=> Asking(d))
    <3>1. ~Asking(d)
      BY <1>10 DEF Asking, Inv, AsksOnce
    <3> QED BY <1>1, <1>34, <3>1 DEF Asking
  <2>4. \A q \in split'[d] : q \in Part /\ q.client = d
    BY <1>1, <1>29 DEF ClientOK
  <2>5. tasks'[d] # NoTask /\ tasks'[d].lost => link'[d] = "down"
    BY <1>1, <1>10, <1>12, <1>14, <1>29 DEF ClientOK
  <2>6. cpc'[d] = "waiting" /\ link'[d] = "up" => toPeer'[d] # <<>> \/ tasks'[d] # NoTask
    <3> SUFFICES ASSUME link[d] = "up", u = NoTask PROVE toPeer'[d] # <<>>
      BY <1>1, <1>14
    <3>1. ~t.lost
      BY <1>10, <1>29 DEF ClientOK
    <3>2. toPeer'[d] = Append(s, y)
      BY <1>19, <2>2, <3>1
    <3>3. PICK z \in Seq(ResultMsg) : z = Append(s, y)
      BY AppendSeq
    <3>4. Len(z) = Len(s) + 1 /\ Len(s) \in Nat
      BY <3>3, AppendSeq
    <3>5. z # <<>>
      BY <3>4
    <3> QED BY <3>2, <3>3, <3>5
  <2>7. CutWell(d)' => \A i \in 1 .. Len(toPeer'[d]) : LeastIn(toPeer'[d][i], d, Nonces(d)')
    <3> SUFFICES ASSUME CutWell(d) PROVE \A i \in 1 .. Len(toPeer'[d]) : LeastIn(toPeer'[d][i], d, Nonces(d))
      BY <1>31
    <3>1. \A i \in 1 .. Len(s) : LeastIn(s[i], d, Nonces(d))
      BY <1>29, <2>2 DEF ClientOK
    <3>2. CASE toPeer'[d] = s
      BY <3>1, <3>2
    <3>3. CASE u = NoTask /\ ~t.lost /\ toPeer'[d] = Append(s, y)
      <4>1. PICK z \in Seq(ResultMsg) : z = Append(s, y)
        BY AppendSeq
      <4>2. \A i \in 1 .. Len(z) : (i \in 1 .. Len(s) /\ z[i] = s[i]) \/ z[i] = y
        BY <4>1, AppendSeq
      <4> QED BY <1>33, <3>1, <3>3, <4>1, <4>2
    <3> QED BY <1>19, <2>2, <3>2, <3>3
  <2>8. CutWell(d)' /\ cpc'[d] = "answered" => LeastIn(answer'[d], d, Nonces(d)')
    BY <1>2, <1>29, <1>31 DEF ClientOK
  <2> QED BY <2>3, <2>4, <2>5, <2>6, <2>7, <2>8 DEF ClientOK, Part
<1>36. ClientsOK'
  <2> SUFFICES ASSUME NEW c \in Clients, c # d PROVE ClientOK(c)'
    BY <1>35 DEF ClientsOK
  <2>1. ClientOK(c) /\ tasks'[c] = tasks[c] /\ c \in Peers
    BY <1>14, Disjoint DEF Work, ClientsOK
  <2>2. tasks'[c] # NoTask /\ tasks'[c].lost => link[c] = "down"
    BY <2>1 DEF ClientOK
  <2> QED BY <1>1, <1>2, <1>19, <1>34, <2>1, <2>2, ClientKept
<1>37. LossOK'
  BY <1>1, <1>25, LossKept DEF Work
<1> QED BY <1>7, <1>26, <1>28, <1>32, <1>36, <1>37 DEF Work

-----------------------------------------------------------------------------
(* A miner or a client is lost *)

\* A miner that is known to be lost.
LEMMA MinerGone ==
  ASSUME NEW m \in Miners, MinerOK(m), link[m] = "down", UNCHANGED <<link, toServer, toPeer, mpc>>,
         miners'[m] = NoTask, m \in Elements(joins)' <=> m \in Elements(joins), ReportsOf(m)' = ReportsOf(m)
  PROVE  MinerOK(m)'
<1>1. ~Busy(m)' /\ (Joining(m)' <=> Joining(m))
  BY DEF Busy, Joining
<1>2. (Idle(m)' <=> Idle(m)) /\ (OneAtATime(m)' <=> OneAtATime(m))
  BY DEF Idle, OneAtATime
<1> QED BY <1>1, <1>2 DEF MinerOK

\* All that the loss of a miner leaves as it is.
LEMMA LostMiner ==
  ASSUME Inv, Work, errors # <<>>, errors' = Tail(errors), NEW e \in Miners, e = Head(errors),
         miners' = [miners EXCEPT ![e] = NoTask],
         UNCHANGED <<connVars, minerVars, joins, requests, results, tasks, split, clientVars>>
  PROVE  /\ LossOK' /\ ReportsOnce' /\ MinersOK' /\ ClientsOK' /\ ~Busy(e)'
         /\ \A q \in Miners : q # e => (Busy(q)' <=> Busy(q)) /\ miners'[q] = miners[q]
<1>1. UNCHANGED <<link, toServer, toPeer, lossRead, mpc, part, cpc, answer>>
  BY DEF connVars, minerVars, clientVars
<1>2. link[e] = "down" /\ LossOK'
  BY <1>1, ErrorRead
<1>3. \A q \in Miners : miners'[q] = IF q = e THEN NoTask ELSE miners[q]
  BY DEF Inv, Types, SchedTypes
<1>4. Elements(joins)' = Elements(joins) /\ \A q : ReportsOf(q)' = ReportsOf(q)
  BY DEF Elements, ReportsOf
<1>5. MinerOK(e)
  BY MinerFacts
<1>6. MinerOK(e)'
  BY <1>1, <1>2, <1>3, <1>4, <1>5, MinerGone
<1>7. MinersOK'
  BY <1>1, <1>3, <1>4, <1>6, MinersKept
<1>8. ClientsOK'
  BY <1>1, ClientsKept
<1>9. ReportsOnce'
  BY DEF Work, ReportsOnce
<1>10. ~Busy(e)' /\ \A q \in Miners : q # e => (Busy(q)' <=> Busy(q)) /\ miners'[q] = miners[q]
  BY <1>3 DEF Busy
<1> QED BY <1>2, <1>7, <1>8, <1>9, <1>10

LEMMA LostBusyWork == ASSUME Inv, Work, ByServer(LostBusy) PROVE Work'
<1>1. UNCHANGED <<connVars, minerVars, joins, requests, results, tasks, split, clientVars>>
  BY DEF ByServer, LostBusy, LoseBusy
<1>2. errors # <<>> /\ errors' = Tail(errors)
  BY DEF ByServer, LostBusy, LoseBusy
<1>3. PICK e \in Miners : e = Head(errors) /\ Busy(e)
  BY DEF ByServer, LostBusy, LoseBusy
<1>4. PICK p \in Part : p = miners[e]
  BY <1>3, BusyLeft DEF Inv, Types
<1>5. miners' = [miners EXCEPT ![e] = NoTask] /\ pendingRequests' = <<p>> \o pendingRequests
  BY <1>3, <1>4 DEF ByServer, LostBusy, LoseBusy, Requeue
<1>6. /\ LossOK' /\ ReportsOnce' /\ MinersOK' /\ ClientsOK' /\ ~Busy(e)'
      /\ \A q \in Miners : q # e => (Busy(q)' <=> Busy(q)) /\ miners'[q] = miners[q]
  BY <1>1, <1>2, <1>3, <1>5, LostMiner
<1>7. Elements(pendingRequests)' = Elements(pendingRequests) \cup {p}
  <2>1. Elements(<<p>> \o pendingRequests) = Elements(pendingRequests) \cup {p}
    BY ConsSeq DEF Inv, Types, SchedTypes
  <2>2. Elements(pendingRequests)' = Elements(<<p>> \o pendingRequests)
    BY <1>5 DEF Elements
  <2> QED BY <2>1, <2>2
<1>8. OpenParts' = OpenParts
  <2>1. ASSUME NEW x \in OpenParts' PROVE x \in OpenParts
    <3>1. x \in Elements(pendingRequests)' \/ \E q \in Miners : Busy(q)' /\ x = miners'[q]
      BY <2>1 DEF OpenParts
    <3>2. x \in Elements(pendingRequests) \/ \E q \in Miners : Busy(q) /\ x = miners[q]
      BY <1>3, <1>4, <1>6, <1>7, <3>1
    <3> QED BY <3>2 DEF OpenParts
  <2>2. ASSUME NEW x \in OpenParts PROVE x \in OpenParts'
    <3>1. x \in Elements(pendingRequests) \/ \E q \in Miners : Busy(q) /\ x = miners[q]
      BY <2>2 DEF OpenParts
    <3>2. x \in Elements(pendingRequests)' \/ \E q \in Miners : Busy(q)' /\ x = miners'[q]
      BY <1>3, <1>4, <1>6, <1>7, <3>1
    <3> QED BY <3>2 DEF OpenParts
  <2> QED BY <2>1, <2>2
<1>9. OpenOK'
  BY <1>1, <1>8 DEF Work, OpenOK
<1>10. TasksOK'
  BY <1>1, <1>8, TaskKept DEF Work, TasksOK
<1> QED BY <1>6, <1>9, <1>10 DEF Work

LEMMA LostFreeWork == ASSUME Inv, Work, ByServer(LostFree) PROVE Work'
<1>1. UNCHANGED <<connVars, minerVars, joins, requests, results, pendingRequests, tasks, split, clientVars>>
  BY DEF ByServer, LostFree
<1>2. errors # <<>> /\ errors' = Tail(errors)
  BY DEF ByServer, LostFree
<1>3. PICK e \in Miners : e = Head(errors)
  BY DEF ByServer, LostFree
<1>4. miners' = [miners EXCEPT ![e] = NoTask] /\ (Busy(e) => tasks[miners[e].client].lost)
  BY <1>3 DEF ByServer, LostFree
<1>5. /\ LossOK' /\ ReportsOnce' /\ MinersOK' /\ ClientsOK' /\ ~Busy(e)'
      /\ \A q \in Miners : q # e => (Busy(q)' <=> Busy(q)) /\ miners'[q] = miners[q]
  BY <1>1, <1>2, <1>3, <1>4, LostMiner
<1>6. Elements(pendingRequests)' = Elements(pendingRequests)
  BY <1>1 DEF Elements
<1>7. OpenParts' \subseteq OpenParts /\ \A p \in OpenParts : p \in OpenParts' \/ (Busy(e) /\ p = miners[e])
  BY <1>5, <1>6 DEF OpenParts
<1>8. OpenOK'
  BY <1>1, <1>7 DEF Work, OpenOK
<1>9. TasksOK'
  <2> SUFFICES ASSUME NEW c \in Clients PROVE TaskOK(c)'
    BY DEF TasksOK
  <2>1. TaskOK(c) /\ ClientOK(c)
    BY DEF Work, TasksOK, ClientsOK
  <2>2. CASE Busy(e) /\ miners[e].client = c
    BY <1>1, <1>4, <2>2 DEF TaskOK
  <2>3. CASE ~(Busy(e) /\ miners[e].client = c)
    <3>1. \A p \in split[c] : p.client = c
      BY <2>1 DEF ClientOK
    <3>2. \A p \in split[c] : p \in OpenParts => p \in OpenParts'
      BY <1>7, <2>3, <3>1
    <3> QED BY <1>1, <2>1, <3>2, TaskKept
  <2> QED BY <2>2, <2>3
<1> QED BY <1>5, <1>8, <1>9 DEF Work

LEMMA LostOtherWork == ASSUME Inv, Work, ByServer(LostOther) PROVE Work'
<1>1. UNCHANGED <<connVars, minerVars, joins, requests, results, miners, pendingRequests, split, clientVars>>
  BY DEF ByServer, LostOther
<1>2. UNCHANGED <<link, toServer, toPeer, lossRead, mpc, part, cpc, answer>>
  BY <1>1 DEF connVars, minerVars, clientVars
<1>3. errors # <<>> /\ errors' = Tail(errors)
  BY DEF ByServer, LostOther
<1>4. PICK e \in Peers : e = Head(errors) /\ link[e] = "down" /\ LossOK'
  BY <1>2, <1>3, ErrorRead
<1>5. tasks' = IF e \in Clients /\ tasks[e] # NoTask THEN [tasks EXCEPT ![e].lost = TRUE] ELSE tasks
  BY <1>4 DEF ByServer, LostOther
<1>6. \A c \in Clients : \/ tasks'[c] = tasks[c]
                         \/ c = e /\ tasks[c] # NoTask /\ tasks'[c] # NoTask /\ tasks'[c].lost
  <2>1. CASE e \in Clients /\ tasks[e] # NoTask
    <3>1. PICK t \in Task : t = tasks[e]
      BY <2>1 DEF Inv, Types, SchedTypes
    <3>2. PICK u : u = [t EXCEPT !.lost = TRUE]
      OBVIOUS
    <3>3. u \in Task /\ u.lost = TRUE
      BY <3>2, LostTask
    <3>4. u # NoTask
      BY <3>3 DEF Task
    <3>5. tasks' = [tasks EXCEPT ![e] = u]
      BY <1>5, <2>1, <3>1, <3>2
    <3>6. \A c \in Clients : tasks'[c] = IF c = e THEN u ELSE tasks[c]
      BY <2>1, <3>5 DEF Inv, Types, SchedTypes
    <3> QED BY <2>1, <3>3, <3>4, <3>6
  <2>2. CASE ~(e \in Clients /\ tasks[e] # NoTask)
    BY <1>5, <2>2
  <2> QED BY <2>1, <2>2
<1>7. OpenParts' = OpenParts
  BY <1>1, OpenSame
<1>8. OpenOK'
  BY <1>1, OpenKept DEF Work
<1>9. TasksOK'
  <2> SUFFICES ASSUME NEW c \in Clients PROVE TaskOK(c)'
    BY DEF TasksOK
  <2>1. TaskOK(c) /\ split'[c] = split[c] /\ (tasks'[c] # NoTask /\ ~tasks'[c].lost => tasks'[c] = tasks[c])
    BY <1>1, <1>6 DEF Work, TasksOK
  <2> QED BY <1>7, <2>1, TaskKept
<1>10. Askers' = Askers
  BY <1>1 DEF Askers
<1>11. ClientsOK'
  <2> SUFFICES ASSUME NEW c \in Clients PROVE ClientOK(c)'
    BY DEF ClientsOK
  <2>1. ClientOK(c)
    BY DEF Work, ClientsOK
  <2>2. tasks'[c] # NoTask /\ tasks'[c].lost => link[c] = "down"
    BY <1>4, <1>6, <2>1 DEF ClientOK
  <2>3. tasks[c] # NoTask => tasks'[c] # NoTask
    BY <1>6
  <2> QED BY <1>1, <1>2, <1>10, <2>1, <2>2, <2>3, ClientKept
<1>12. Elements(joins)' = Elements(joins) /\ \A m : ReportsOf(m)' = ReportsOf(m)
  BY <1>1 DEF Elements, ReportsOf
<1>13. ReportsOnce'
  BY <1>1 DEF Work, ReportsOnce
<1>14. MinersOK'
  BY <1>1, <1>2, <1>12, MinerKept DEF Work, MinersOK
<1> QED BY <1>4, <1>8, <1>9, <1>11, <1>13, <1>14 DEF Work

-----------------------------------------------------------------------------
(* The second invariant holds, and what follows from it *)

LEMMA InitWork == Init => Work
<1> SUFFICES ASSUME Init PROVE Work
  OBVIOUS
<1>1. /\ \A p \in Peers : link[p] = "none" /\ toServer[p] = <<>> /\ toPeer[p] = <<>> /\ lossRead[p] = FALSE
      /\ \A m \in Miners : mpc[m] = "start" /\ miners[m] = NoTask
      /\ \A c \in Clients : tasks[c] = NoTask /\ split[c] = {} /\ cpc[c] = "start"
      /\ joins = <<>> /\ requests = <<>> /\ results = <<>> /\ errors = <<>> /\ pendingRequests = <<>>
  BY Disjoint DEF Init, ConnInit, MinerInit, ServerInit
<1>2. \A x : x \notin Elements(<<>>)
  BY DEF Elements
<1>3. \A i \in 1 .. Len(<<>>) : FALSE
  OBVIOUS
<1>4. LossOK
  BY <1>1, <1>2 DEF LossOK
<1>5. ReportsOnce
  BY <1>1, <1>3 DEF ReportsOnce
<1>6. \A m \in Miners : ReportsOf(m) = {} /\ ~Busy(m)
  BY <1>1, <1>2 DEF ReportsOf, Busy
<1>7. MinersOK
  <2> SUFFICES ASSUME NEW m \in Miners PROVE MinerOK(m)
    BY DEF MinersOK
  <2>1. m \in Peers /\ link[m] = "none" /\ toServer[m] = <<>> /\ toPeer[m] = <<>> /\ mpc[m] = "start"
    BY <1>1, Disjoint
  <2>2. Idle(m) /\ OneAtATime(m)
    BY <1>6, <2>1, OfOne DEF Idle, OneAtATime
  <2> QED BY <1>6, <2>1, <2>2 DEF MinerOK
<1>8. OpenOK
  BY <1>1, <1>2, <1>6 DEF OpenOK, OpenParts
<1>9. TasksOK
  BY <1>1 DEF TasksOK, TaskOK
<1>10. ClientsOK
  <2> SUFFICES ASSUME NEW c \in Clients PROVE ClientOK(c)
    BY DEF ClientsOK
  <2>1. c \in Peers /\ link[c] = "none" /\ toPeer[c] = <<>>
    BY <1>1, Disjoint
  <2> QED BY <1>1, <1>3, <2>1 DEF ClientOK
<1> QED BY <1>4, <1>5, <1>7, <1>8, <1>9, <1>10 DEF Work

LEMMA SplitKept == ASSUME SplitTypes, [Next]_vars PROVE SplitTypes'
<1>1. CASE UNCHANGED split
  BY <1>1 DEF SplitTypes
<1>2. CASE HandleRequest
  <2>1. split' = [c \in Clients |-> split'[c]]
    BY <1>2 DEF HandleRequest, SplitTypes
  <2> QED BY <2>1 DEF SplitTypes
<1>3. ASSUME NEW m \in Miners
      PROVE  ByMiner(MinerJoin(m)) \/ ByMiner(MinerRead(m)) \/ ByMiner(MinerReply(m)) \/ ByMiner(MinerLost(m))
               => UNCHANGED split
  BY DEF ByMiner, serverVars, schedVars
<1>4. ASSUME NEW p PROVE BreakLive(p) \/ BreakDead(p) => UNCHANGED split
  BY DEF BreakLive, BreakDead, serverVars, schedVars
<1>5. ASSUME NEW c PROVE (\E u \in Uppers[c] : ClientAsk(c, u)) \/ ClientResult(c) \/ ClientGivesUp(c) => UNCHANGED split
  BY DEF ClientAsk, ClientResult, ClientGivesUp, serverVars, schedVars
<1>6. ASSUME NEW p PROVE ByServer(Receive(p)) \/ ByServer(ReceiveError(p)) => UNCHANGED split
  BY DEF ByServer, Receive, ReceiveError, schedVars
<1>7. TriggerIdle \/ TriggerLost \/ TriggerAssign \/ HandleJoin \/ ResultIgnored => UNCHANGED split
  BY DEF TriggerIdle, TriggerLost, TriggerAssign, HandleJoin, AddMiner, ResultIgnored, schedVars
<1>8. HandleResult \/ LostBusy \/ LostFree \/ LostOther => UNCHANGED split
  BY DEF HandleResult, LostBusy, LoseBusy, LostFree, LostOther
<1>9. UNCHANGED vars => UNCHANGED split
  BY DEF vars, serverVars, schedVars
<1> QED BY <1>1, <1>2, <1>3, <1>4, <1>5, <1>6, <1>7, <1>8, <1>9 DEF Next, ByServer

LEMMA NextWork == ASSUME Inv, Work, SplitTypes, [Next]_vars PROVE Work'
<1>1. CASE UNCHANGED vars
  <2>1. UNCHANGED <<connVars, minerVars, chanVars, schedVars, clientVars>>
    BY <1>1 DEF vars, serverVars
  <2>2. UNCHANGED <<link, toServer, toPeer, lossRead, mpc, part, cpc, answer, joins, requests, results, errors>>
    BY <2>1 DEF connVars, minerVars, chanVars, clientVars
  <2>3. UNCHANGED <<miners, pendingRequests, tasks, split>>
    BY <2>1 DEF schedVars
  <2>4. LossOK'
    BY <2>2, LossKept DEF Work, Elements
  <2> QED BY <2>2, <2>3, <2>4, TablesKept
<1>2. ASSUME NEW m \in Miners, ByMiner(MinerJoin(m)) PROVE Work'
  BY <1>2, MinerJoinWork
<1>3. ASSUME NEW m \in Miners, ByMiner(MinerRead(m)) PROVE Work'
  BY <1>3, MinerReadWork
<1>4. ASSUME NEW m \in Miners, ByMiner(MinerReply(m)) PROVE Work'
  BY <1>4, MinerReplyWork
<1>5. ASSUME NEW m \in Miners, ByMiner(MinerLost(m)) PROVE Work'
  BY <1>5, MinerLostWork
<1>6. ASSUME NEW m \in Miners, BreakLive(m) PROVE Work'
  BY <1>6, Disjoint, BreakWork DEF BreakLive
<1>7. ASSUME NEW c \in Clients, NEW u \in Uppers[c], ClientAsk(c, u) PROVE Work'
  BY <1>7, ClientAskWork
<1>8. ASSUME NEW c \in Clients, ClientResult(c) PROVE Work'
  BY <1>8, ClientResultWork
<1>9. ASSUME NEW c \in Clients, ClientGivesUp(c) PROVE Work'
  BY <1>9, ClientGivesUpWork
<1>10. ASSUME NEW p \in Peers, BreakDead(p) PROVE Work'
  BY <1>10, BreakWork DEF BreakDead
<1>11. ASSUME NEW p \in Peers, ByServer(Receive(p)) PROVE Work'
  BY <1>11, ReceiveWork
<1>12. ASSUME NEW p \in Peers, ByServer(ReceiveError(p)) PROVE Work'
  BY <1>12, ReceiveErrorWork
<1>13. CASE ByServer(HandleRequest)
  BY <1>13, HandleRequestWork
<1>14. CASE ByServer(TriggerIdle)
  BY <1>14, TriggerIdleWork
<1>15. CASE ByServer(TriggerLost)
  BY <1>15, TriggerLostWork
<1>16. CASE ByServer(TriggerAssign)
  BY <1>16, TriggerAssignWork
<1>17. CASE ByServer(HandleJoin)
  BY <1>17, HandleJoinWork
<1>18. CASE ByServer(ResultIgnored)
  BY <1>18, ResultIgnoredWork
<1>19. CASE ByServer(HandleResult)
  BY <1>19, HandleResultWork
<1>20. CASE ByServer(LostBusy)
  BY <1>20, LostBusyWork
<1>21. CASE ByServer(LostFree)
  BY <1>21, LostFreeWork
<1>22. CASE ByServer(LostOther)
  BY <1>22, LostOtherWork
<1> QED BY <1>1, <1>2, <1>3, <1>4, <1>5, <1>6, <1>7, <1>8, <1>9, <1>10, <1>11, <1>12, <1>13, <1>14,
           <1>15, <1>16, <1>17, <1>18, <1>19, <1>20, <1>21, <1>22 DEF Next

LEMMA WorkInvariance == Spec => [](Inv /\ Work)
<1>1. Init => Inv /\ Work /\ SplitTypes
  <2>1. Init => SplitTypes
    BY DEF Init, ServerInit, SplitTypes
  <2> QED BY <2>1, InitInv, InitWork
<1>2. Inv /\ Work /\ SplitTypes /\ [Next]_vars => Inv' /\ Work' /\ SplitTypes'
  BY NextInv, NextWork, SplitKept
<1> QED BY <1>1, <1>2, PTL DEF Spec

\* For every hash function, and whichever miners come, go, or answer late: the answer a
\* client prints is the least hash of all nonces that the parts of its request were tried
\* with, and comes with its nonce.  A result that was lost, taken twice or mixed up with
\* the part of another miner or client would break this (`case r := <-srv.results`).
THEOREM AnswersLeast == Spec => []AnswerLeast
<1>1. Inv /\ Work => AnswerLeast
  BY DEF Work, ClientsOK, ClientOK, AnswerLeast
<1> QED BY <1>1, WorkInvariance, PTL

\* A miner with a part in a system at rest is a ghost.
LEMMA BusyAtRest ==
  ASSUME Inv, Work, Quiet, NEW m \in Miners, Busy(m)
  PROVE  Hopeless
<1>1. /\ toServer[m] = <<>> /\ ~lossRead[m] /\ mpc[m] # "mine" /\ (mpc[m] = "read" => toPeer[m] = <<>> /\ link[m] = "up")
      /\ (mpc[m] = "dead" => link[m] # "up") /\ m \in Peers /\ errors = <<>> /\ results = <<>>
  BY Disjoint DEF Quiet
<1>2. miners[m] # NoTask /\ link[m] # "none" /\ link[m] \in {"none", "up", "down"}
  BY <1>1 DEF Busy, Inv, JoinsOnce, Types, ConnTypes, LinkTypes
<1>3. ReportsOf(m) = {} /\ ToSet(errors) = {}
  BY <1>1 DEF ReportsOf, Elements, ToSet
<1>4. link[m] # "up"
  <2> SUFFICES ASSUME link[m] = "up" PROVE FALSE
    OBVIOUS
  <2>1. MinerOK(m) /\ mpc[m] # "dead"
    BY <1>1, MinerFacts
  <2>2. Working(m)
    BY <2>1 DEF MinerOK
  <2>3. toPeer[m] # <<>>
    BY <1>1, <1>3, <2>2 DEF Working
  <2>4. mpc[m] = "start"
    BY <1>1, <2>1, <2>3 DEF Inv, Types, MinerTypes
  <2> QED BY <2>1, <2>4 DEF MinerOK
<1>5. Ghost(m)
  BY <1>1, <1>2, <1>3, <1>4 DEF Ghost
<1> QED BY <1>5 DEF Hopeless

\* The trigger channel, the lists and the messages together lose nobody: when nothing is
\* left to do, a client whose connection holds has its answer, unless no miner is there, a
\* miner was lost before its Join was handled, or a part of a lost client was dropped.
THEOREM NobodyForgotten == Spec => []Served
<1>1. Inv /\ Work => Served
  <2> SUFFICES ASSUME Inv, Work, Quiet, NEW c \in Clients, cpc[c] = "waiting" PROVE Hopeless
    BY DEF Served
  <2>1. /\ toServer[c] = <<>> /\ toPeer[c] = <<>> /\ link[c] = "up" /\ joins = <<>> /\ requests = <<>> /\ trigger = 0
        /\ c \in Peers
    BY Disjoint DEF Quiet
  <2>2. ClientOK(c)
    BY DEF Work, ClientsOK
  <2>3. ~Asking(c)
    BY <2>1 DEF Asking, Askers
  <2>4. tasks[c] # NoTask /\ ~tasks[c].lost
    BY <2>1, <2>2, <2>3 DEF ClientOK
  <2>5. PICK t \in Task : t = tasks[c] /\ t.miners = PartsLeft(c)
    BY <2>4 DEF Inv, Types, SchedTypes, Plan, PartsConserved
  <2>6. PartsLeft(c) # 0
    BY <2>5 DEF Task
  <2>7. CASE \E m \in Miners : Busy(m)
    BY <2>7, BusyAtRest
  <2>8. CASE ~\E m \in Miners : Busy(m)
    <3>1. pendingRequests # <<>>
      <4> SUFFICES ASSUME pendingRequests = <<>> PROVE FALSE
        OBVIOUS
      <4>1. BusyWith(c) = {} /\ PendingOf(c) = {}
        BY <2>8 DEF BusyWith, PendingOf
      <4>2. Cardinality({}) = 0
        BY FS_EmptySet
      <4> QED BY <2>6, <4>1, <4>2 DEF PartsLeft
    <3>2. CASE freeMiners # <<>>
      <4>1. \E d \in Clients : PartDropped(d)
        <5>1. trigger > 0 \/ \E d \in Clients : PartDropped(d)
          BY <2>8, <3>1, <3>2 DEF Inv, Plan, Awake
        <5> QED BY <2>1, <5>1
      <4> QED BY <4>1 DEF Hopeless
    <3>3. CASE freeMiners = <<>>
      <4>1. Elements(freeMiners) = IdleIn(miners)
        BY FreeForm DEF Inv, Plan, Types, SchedTypes
      <4>2. \A m : m \notin Elements(freeMiners)
        BY <3>3 DEF Elements
      <4>3. ASSUME NEW m \in Miners PROVE mpc[m] \in {"start", "dead"} \/ link[m] = "down"
        <5>1. miners[m] = NoTask
          BY <2>8, <4>1, <4>2 DEF IdleIn, Busy
        <5>2. m \in Peers /\ toServer[m] = <<>> /\ MinerOK(m) /\ link[m] \in {"none", "up", "down"}
          BY MinerFacts DEF Quiet, Inv, Types, ConnTypes, LinkTypes
        <5>3. ~Joining(m)
          BY <2>1, <5>2 DEF Joining, Elements
        <5> QED BY <5>1, <5>2, <5>3 DEF MinerOK
      <4> QED BY <4>3 DEF Hopeless
    <3> QED BY <3>2, <3>3
  <2> QED BY <2>7, <2>8
<1> QED BY <1>1, WorkInvariance, PTL
=============================================================================
