------------------------------ MODULE BufChan ------------------------------
(***************************************************************************)
(* The unbounded channel of bufchan/buffchan.go: a list behind a           *)
(* sync.Mutex, and a sync.Cond on that mutex for the goroutines that wait  *)
(* in Remove.                                                              *)
(*                                                                         *)
(* pc[t] is where goroutine t is in its call:                              *)
(*   idle    outside                                                       *)
(*   lock    at b.m.Lock()                                                 *)
(*   body    holds the mutex                                               *)
(*   wait    in b.c.Wait(), on the condition's list                        *)
(*   woken   signalled, waiting to get the mutex back                      *)
(*   unlock  at the deferred b.m.Unlock(), with its return value           *)
(***************************************************************************)
EXTENDS Naturals, Sequences, FiniteSets

CONSTANTS
  Threads,   \* goroutines
  Values,    \* what is appended
  Nil,       \* Go's nil
  MaxCalls   \* bound: the calls a goroutine makes

ASSUME BufChanAssumption == Nil \notin Threads \cup Values /\ IsFiniteSet(Threads) /\ MaxCalls \in Nat

VARIABLES
  l,      \* b.l
  m,      \* the holder of b.m, or Nil
  pc, op, arg, ret,
  calls   \* calls made so far

vars == <<l, m, pc, op, arg, ret, calls>>

Init ==
  /\ l = <<>>
  /\ m = Nil
  /\ pc = [t \in Threads |-> "idle"]
  /\ op = [t \in Threads |-> "none"]
  /\ arg = [t \in Threads |-> Nil]
  /\ ret = [t \in Threads |-> Nil]
  /\ calls = [t \in Threads |-> 0]

Call(t, o, v) ==
  /\ pc[t] = "idle" /\ calls[t] < MaxCalls
  /\ pc' = [pc EXCEPT ![t] = "lock"]
  /\ op' = [op EXCEPT ![t] = o]
  /\ arg' = [arg EXCEPT ![t] = v]
  /\ calls' = [calls EXCEPT ![t] = @ + 1]
  /\ UNCHANGED <<l, m, ret>>

\* b.m.Lock(), and the end of b.c.Wait() which takes the mutex again
Lock(t) ==
  /\ pc[t] \in {"lock", "woken"}
  /\ m = Nil
  /\ m' = t
  /\ pc' = [pc EXCEPT ![t] = "body"]
  /\ UNCHANGED <<l, op, arg, ret, calls>>

Waiting == {t \in Threads : pc[t] = "wait"}

\* t is at the end of its function; the goroutine w is signalled, if there is one
Leave(t, w, v) ==
  /\ pc' = [u \in Threads |-> IF u = t THEN "unlock" ELSE IF u = w THEN "woken" ELSE pc[u]]
  /\ ret' = [ret EXCEPT ![t] = v]

\* Mutant: Signal is left out.
SignalNobody(t) == {t}

\* Mutant: Signal only when the list was empty before.
SignalFirst(t) == IF Waiting = {} \/ l # <<>> THEN {t} ELSE Waiting

\* Signal wakes any one of those who wait, if there are any
Signal(t) == IF Waiting = {} THEN {t} ELSE Waiting

\* PushBack and Signal
AppendBody(t) ==
  /\ pc[t] = "body" /\ op[t] = "Append"
  /\ l' = Append(l, arg[t])
  /\ \E w \in Signal(t) : Leave(t, w, Nil)
  /\ UNCHANGED <<m, op, arg, calls>>

\* Mutant: who waits keeps the mutex.
RemoveWaitLocked(t) ==
  /\ pc[t] = "body" /\ op[t] = "Remove" /\ l = <<>>
  /\ pc' = [pc EXCEPT ![t] = "wait"]
  /\ UNCHANGED <<l, m, op, arg, ret, calls>>

\* Remove finds the list empty: Wait joins the condition's list and releases the mutex
RemoveWait(t) ==
  /\ pc[t] = "body" /\ op[t] = "Remove" /\ l = <<>>
  /\ m' = Nil
  /\ pc' = [pc EXCEPT ![t] = "wait"]
  /\ UNCHANGED <<l, op, arg, ret, calls>>

\* Mutant: the last element in place of the first.
RemoveBodyBack(t) ==
  /\ pc[t] = "body" /\ op[t] \in {"Remove", "AsyncRemove"} /\ l # <<>>
  /\ l' = SubSeq(l, 1, Len(l) - 1)
  /\ Leave(t, t, l[Len(l)])
  /\ UNCHANGED <<m, op, arg, calls>>

\* Remove and AsyncRemove take the first element
RemoveBody(t) ==
  /\ pc[t] = "body" /\ op[t] \in {"Remove", "AsyncRemove"} /\ l # <<>>
  /\ l' = Tail(l)
  /\ Leave(t, t, Head(l))
  /\ UNCHANGED <<m, op, arg, calls>>

\* AsyncRemove and Inspect find the list empty and return nil
ReturnNil(t) ==
  /\ pc[t] = "body" /\ op[t] \in {"AsyncRemove", "Inspect"} /\ l = <<>>
  /\ Leave(t, t, Nil)
  /\ UNCHANGED <<l, m, op, arg, calls>>

InspectBody(t) ==
  /\ pc[t] = "body" /\ op[t] = "Inspect" /\ l # <<>>
  /\ Leave(t, t, Head(l))
  /\ UNCHANGED <<l, m, op, arg, calls>>

\* the deferred b.m.Unlock()
Unlock(t) ==
  /\ pc[t] = "unlock"
  /\ m' = Nil
  /\ pc' = [pc EXCEPT ![t] = "idle"]
  /\ op' = [op EXCEPT ![t] = "none"]
  /\ arg' = [arg EXCEPT ![t] = Nil]
  /\ ret' = [ret EXCEPT ![t] = Nil]
  /\ UNCHANGED <<l, calls>>

Body(t) == AppendBody(t) \/ RemoveWait(t) \/ RemoveBody(t) \/ ReturnNil(t) \/ InspectBody(t)

Next ==
  \E t \in Threads :
    \/ \E v \in Values : Call(t, "Append", v)
    \/ \E o \in {"Remove", "Inspect", "AsyncRemove"} : Call(t, o, Nil)
    \/ Lock(t)
    \/ AppendBody(t)
    \/ RemoveWait(t)
    \/ RemoveBody(t)
    \/ ReturnNil(t)
    \/ InspectBody(t)
    \/ Unlock(t)

\* A goroutine that holds the mutex runs on.  sync.Mutex passes itself to the
\* goroutine that waits longest once that has waited for a millisecond.
Fairness ==
  \A t \in Threads : WF_vars(Body(t)) /\ WF_vars(Unlock(t)) /\ SF_vars(Lock(t))

Spec == Init /\ [][Next]_vars /\ Fairness

-----------------------------------------------------------------------------
\* The state is well typed, and b.m is held by exactly the goroutine that is
\* inside: one that sleeps in Wait has released it.
TypeOK ==
  /\ l \in Seq(Values)
  /\ m \in Threads \cup {Nil}
  /\ pc \in [Threads -> {"idle", "lock", "body", "wait", "woken", "unlock"}]
  /\ op \in [Threads -> {"none", "Append", "Remove", "Inspect", "AsyncRemove"}]
  /\ arg \in [Threads -> Values \cup {Nil}]
  /\ ret \in [Threads -> Values \cup {Nil}]
  /\ calls \in [Threads -> 0 .. MaxCalls]
  /\ \A t \in Threads : m = t <=> pc[t] \in {"body", "unlock"}

Woken == {t \in Threads : pc[t] = "woken" \/ (pc[t] = "body" /\ op[t] = "Remove")}

\* No wake-up is lost: while a Remove sleeps, every element of the list has a goroutine
\* on its way to it.  Signal wakes only one goroutine, and the element it was sent for
\* may be gone when that one gets the mutex.
NoLostWakeup == Waiting # {} => Len(l) <= Cardinality(Woken)

\* A Remove does not sleep on while the list holds elements.
RemoveReturns ==
  \A t \in Threads : op[t] = "Remove" ~> (op[t] # "Remove" \/ l = <<>>)

\* A call as Fifo sees it: it takes effect where its body runs.
absCall ==
  [t \in Threads |-> [op |-> op[t], arg |-> arg[t], did |-> pc[t] = "unlock", ret |-> ret[t]]]

Queue == INSTANCE Fifo WITH queue <- l, call <- absCall

\* The channel is a FIFO queue whose calls take effect one at a time, whichever way
\* Append, Remove, AsyncRemove and Inspect of different goroutines are interleaved.
FifoSpec == Queue!Spec
=============================================================================
