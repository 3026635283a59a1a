--------------------------- MODULE BufChanProofs ----------------------------
(***************************************************************************)
(* Proofs about the unbounded channel, for any number of goroutines, calls *)
(* and values: its type invariant, that no wake-up is lost, and that it    *)
(* implements Fifo.                                                        *)
(***************************************************************************)
EXTENDS BufChan, FiniteSetTheorems, TLAPS

\* What a goroutine is doing fits the place where it is: outside it has no call, only
\* who returns has a value to return, and only a Remove sleeps.
CallOK ==
  \A t \in Threads :
    /\ pc[t] = "idle" => op[t] = "none" /\ arg[t] = Nil
    /\ pc[t] # "unlock" => ret[t] = Nil
    /\ pc[t] \in {"wait", "woken"} => op[t] = "Remove"
    /\ op[t] = "Append" => arg[t] \in Values

Inv == TypeOK /\ CallOK

USE BufChanAssumption

-----------------------------------------------------------------------------
\* The channel is created empty, with nobody inside.
LEMMA InitInv == Init => Inv
BY DEF Init, Inv, TypeOK, CallOK

\* A call begins.
LEMMA CallInv ==
  ASSUME Inv, NEW t \in Threads, NEW o \in {"Append", "Remove", "Inspect", "AsyncRemove"},
         NEW v \in Values \cup {Nil}, o = "Append" => v \in Values, Call(t, o, v)
  PROVE  Inv'
<1>1. TypeOK'
  BY DEF Inv, TypeOK, Call
<1>2. CallOK'
  BY DEF Inv, TypeOK, CallOK, Call
<1>3. QED
  BY <1>1, <1>2 DEF Inv

\* The mutex is free, and a goroutine gets it.
LEMMA LockInv == ASSUME Inv, NEW t \in Threads, Lock(t) PROVE Inv'
<1>1. TypeOK'
  BY DEF Inv, TypeOK, Lock
<1>2. CallOK'
  BY DEF Inv, TypeOK, CallOK, Lock
<1>3. QED
  BY <1>1, <1>2 DEF Inv

\* The end of a function: its goroutine keeps the mutex, and one that is woken has it not.
LEMMA LeaveInv ==
  ASSUME Inv, NEW t \in Threads, NEW w \in Waiting \cup {t}, NEW v \in Values \cup {Nil},
         pc[t] = "body", Leave(t, w, v), l' \in Seq(Values), UNCHANGED <<m, op, arg, calls>>
  PROVE  Inv'
<1>1. TypeOK'
  BY DEF Inv, TypeOK, Leave, Waiting
<1>2. CallOK'
  BY DEF Inv, TypeOK, CallOK, Leave, Waiting
<1>3. QED
  BY <1>1, <1>2 DEF Inv

LEMMA AppendInv == ASSUME Inv, NEW t \in Threads, AppendBody(t) PROVE Inv'
<1>1. PICK w \in Signal(t) : Leave(t, w, Nil)
  BY DEF AppendBody
<1>2. w \in Waiting \cup {t}
  BY <1>1 DEF Signal
<1>3. l \in Seq(Values) /\ arg[t] \in Values /\ l' = Append(l, arg[t])
  BY DEF AppendBody, Inv, TypeOK, CallOK
<1>4. l' \in Seq(Values)
  BY <1>3
<1>5. pc[t] = "body" /\ UNCHANGED <<m, op, arg, calls>>
  BY DEF AppendBody
<1>6. QED
  BY <1>1, <1>2, <1>4, <1>5, LeaveInv

LEMMA RemoveWaitInv == ASSUME Inv, NEW t \in Threads, RemoveWait(t) PROVE Inv'
<1>1. TypeOK'
  BY DEF Inv, TypeOK, RemoveWait
<1>2. CallOK'
  BY DEF Inv, TypeOK, CallOK, RemoveWait
<1>3. QED
  BY <1>1, <1>2 DEF Inv

LEMMA RemoveInv == ASSUME Inv, NEW t \in Threads, RemoveBody(t) PROVE Inv'
<1>1. l \in Seq(Values) /\ l # <<>>
  BY DEF RemoveBody, Inv, TypeOK
<1>2. Head(l) \in Values /\ Tail(l) \in Seq(Values)
  BY <1>1
<1>3. /\ pc[t] = "body" /\ l' = Tail(l)
      /\ Leave(t, t, Head(l)) /\ UNCHANGED <<m, op, arg, calls>>
  BY DEF RemoveBody
<1>4. QED
  BY <1>2, <1>3, LeaveInv

LEMMA ReturnNilInv == ASSUME Inv, NEW t \in Threads, ReturnNil(t) PROVE Inv'
<1>1. l' \in Seq(Values)
  BY DEF ReturnNil, Inv, TypeOK
<1>2. pc[t] = "body" /\ Leave(t, t, Nil) /\ UNCHANGED <<m, op, arg, calls>>
  BY DEF ReturnNil
<1>3. QED
  BY <1>1, <1>2, LeaveInv

LEMMA InspectInv == ASSUME Inv, NEW t \in Threads, InspectBody(t) PROVE Inv'
<1>1. l \in Seq(Values) /\ l # <<>> /\ l' = l
  BY DEF InspectBody, Inv, TypeOK
<1>2. Head(l) \in Values /\ l' \in Seq(Values)
  BY <1>1
<1>3. pc[t] = "body" /\ Leave(t, t, Head(l)) /\ UNCHANGED <<m, op, arg, calls>>
  BY DEF InspectBody
<1>4. QED
  BY <1>2, <1>3, LeaveInv

LEMMA UnlockInv == ASSUME Inv, NEW t \in Threads, Unlock(t) PROVE Inv'
<1>1. TypeOK'
  BY DEF Inv, TypeOK, Unlock
<1>2. CallOK'
  BY DEF Inv, TypeOK, CallOK, Unlock
<1>3. QED
  BY <1>1, <1>2 DEF Inv

\* Every step keeps the invariant.
LEMMA NextInv == Inv /\ [Next]_vars => Inv'
<1> SUFFICES ASSUME Inv, [Next]_vars PROVE Inv'
  OBVIOUS
<1>1. CASE UNCHANGED vars
  BY <1>1 DEF vars, Inv, TypeOK, CallOK
<1>2. ASSUME NEW t \in Threads, NEW v \in Values, Call(t, "Append", v) PROVE Inv'
  BY <1>2, CallInv
<1>3. ASSUME NEW t \in Threads, NEW o \in {"Remove", "Inspect", "AsyncRemove"}, Call(t, o, Nil)
      PROVE  Inv'
  BY <1>3, CallInv
<1>4. ASSUME NEW t \in Threads,
             \/ Lock(t) \/ AppendBody(t) \/ RemoveWait(t) \/ RemoveBody(t)
             \/ ReturnNil(t) \/ InspectBody(t) \/ Unlock(t)
      PROVE  Inv'
  BY <1>4, LockInv, AppendInv, RemoveWaitInv, RemoveInv, ReturnNilInv, InspectInv, UnlockInv
<1>5. QED
  BY <1>1, <1>2, <1>3, <1>4 DEF Next

\* buffchan.go: the state is well typed, and the mutex is held by exactly the goroutine
\* that is inside a function and not asleep.
THEOREM TypeCorrect == Spec => []TypeOK
<1>1. Inv => TypeOK
  BY DEF Inv
<1>2. QED
  BY <1>1, InitInv, NextInv, PTL DEF Spec

-----------------------------------------------------------------------------
(* No lost wake-up *)

LEMMA WokenFinite == ASSUME NEW S \in SUBSET Threads PROVE IsFiniteSet(S) /\ Cardinality(S) \in Nat
BY FS_Subset, FS_CardinalityType

\* Append adds an element and, if anybody sleeps, a goroutine that is on its way to it.
LEMMA AppendWakes ==
  ASSUME Inv, NoLostWakeup, NEW t \in Threads, AppendBody(t) PROVE NoLostWakeup'
<1> SUFFICES ASSUME Waiting' # {} PROVE Len(l)' <= Cardinality(Woken)'
  BY DEF NoLostWakeup
<1>1. PICK w \in Signal(t) : Leave(t, w, Nil)
  BY DEF AppendBody
<1>2. pc[t] = "body" /\ op[t] = "Append" /\ op' = op
  BY DEF AppendBody
<1>3. Waiting # {} /\ w \in Waiting
  BY <1>1, <1>2 DEF Inv, TypeOK, Leave, Waiting, Signal
<1>4. w \in Threads /\ w \notin Woken /\ Woken' = Woken \cup {w}
  BY <1>1, <1>2, <1>3 DEF Inv, TypeOK, CallOK, Leave, Waiting, Woken
<1>5. Cardinality(Woken)' = Cardinality(Woken) + 1
  BY <1>4, WokenFinite, FS_AddElement DEF Woken
<1>6. l \in Seq(Values) /\ arg[t] \in Values /\ l' = Append(l, arg[t])
  BY DEF AppendBody, Inv, TypeOK, CallOK
<1>7. Len(l') = Len(l) + 1
  BY <1>6
<1>8. Len(l) <= Cardinality(Woken)
  BY <1>3 DEF NoLostWakeup
<1>9. Len(l) \in Nat /\ Cardinality(Woken) \in Nat
  BY <1>6, WokenFinite DEF Woken
<1>10. QED
  BY <1>5, <1>7, <1>8, <1>9

\* Whoever takes an element is one that was on its way, or an AsyncRemove.
LEMMA RemoveWakes ==
  ASSUME Inv, NoLostWakeup, NEW t \in Threads, RemoveBody(t) PROVE NoLostWakeup'
<1>1. pc[t] = "body" /\ op[t] \in {"Remove", "AsyncRemove"} /\ l # <<>> /\ op' = op
  BY DEF RemoveBody
<1>2. l \in Seq(Values) /\ l' = Tail(l)
  BY DEF RemoveBody, Inv, TypeOK
<1>3. Len(l') = Len(l) - 1 /\ Len(l) \in Nat
  BY <1>1, <1>2
<1>4. Waiting' = Waiting
  BY <1>1 DEF RemoveBody, Leave, Waiting, Inv, TypeOK
<1>5. Woken' = Woken \ {t}
  BY <1>1 DEF RemoveBody, Leave, Woken, Inv, TypeOK
<1>6. IsFiniteSet(Woken) /\ Cardinality(Woken) \in Nat
  BY WokenFinite DEF Woken
<1>7. Cardinality(Woken \ {t}) \in {Cardinality(Woken), Cardinality(Woken) - 1}
  BY <1>6, FS_RemoveElement
<1>8. QED
  BY <1>3, <1>4, <1>5, <1>6, <1>7 DEF NoLostWakeup

\* A goroutine takes the mutex: a Remove that comes for the first time is one more that is
\* on its way.
LEMMA LockWakes ==
  ASSUME Inv, NoLostWakeup, NEW t \in Threads, Lock(t) PROVE NoLostWakeup'
<1>1. Waiting' = Waiting /\ l' = l
  BY DEF Lock, Waiting, Inv, TypeOK
<1>2. Woken \subseteq Woken'
  BY DEF Lock, Woken, Inv, TypeOK, CallOK
<1>3. Woken' \in SUBSET Threads
  BY DEF Woken
<1>4. IsFiniteSet(Woken') /\ Cardinality(Woken') \in Nat /\ Cardinality(Woken) \in Nat
  BY <1>3, WokenFinite DEF Woken
<1>5. Cardinality(Woken) <= Cardinality(Woken')
  BY <1>2, <1>4, FS_Subset
<1>6. Len(l) \in Nat
  BY DEF Inv, TypeOK
<1>7. QED
  BY <1>1, <1>4, <1>5, <1>6 DEF NoLostWakeup

\* The list is empty.
LEMMA EmptyWakes ==
  ASSUME Inv, NEW t \in Threads, RemoveWait(t) \/ ReturnNil(t) PROVE NoLostWakeup'
<1>1. l' = <<>>
  BY DEF RemoveWait, ReturnNil
<1>2. Woken' \in SUBSET Threads
  BY DEF Woken
<1>3. Cardinality(Woken') \in Nat
  BY <1>2, WokenFinite
<1>4. QED
  BY <1>1, <1>3 DEF NoLostWakeup

\* Neither the list nor the sleepers and their helpers change.
LEMMA SameWakes ==
  ASSUME Inv, NoLostWakeup, NEW t \in Threads,
         \/ InspectBody(t) \/ Unlock(t)
         \/ \E o \in {"Append", "Remove", "Inspect", "AsyncRemove"}, v \in Values \cup {Nil} : Call(t, o, v)
  PROVE  NoLostWakeup'
<1>1. Waiting' = Waiting /\ Woken' = Woken /\ l' = l
  BY DEF InspectBody, Leave, Unlock, Call, Waiting, Woken, Inv, TypeOK
<1>2. QED
  BY <1>1 DEF NoLostWakeup

LEMMA NextWakes == Inv /\ NoLostWakeup /\ [Next]_vars => NoLostWakeup'
<1> SUFFICES ASSUME Inv, NoLostWakeup, [Next]_vars PROVE NoLostWakeup'
  OBVIOUS
<1>1. CASE UNCHANGED vars
  BY <1>1 DEF vars, NoLostWakeup, Waiting, Woken
<1>2. ASSUME NEW t \in Threads, NEW v \in Values, Call(t, "Append", v) PROVE NoLostWakeup'
  BY <1>2, SameWakes
<1>3. ASSUME NEW t \in Threads, NEW o \in {"Remove", "Inspect", "AsyncRemove"}, Call(t, o, Nil)
      PROVE  NoLostWakeup'
  BY <1>3, SameWakes
<1>4. ASSUME NEW t \in Threads,
             \/ Lock(t) \/ AppendBody(t) \/ RemoveWait(t) \/ RemoveBody(t)
             \/ ReturnNil(t) \/ InspectBody(t) \/ Unlock(t)
      PROVE  NoLostWakeup'
  BY <1>4, LockWakes, AppendWakes, EmptyWakes, RemoveWakes, SameWakes
<1>5. QED
  BY <1>1, <1>2, <1>3, <1>4 DEF Next

\* buffchan.go, Append and Remove: while a Remove sleeps, each element of the list has a
\* goroutine that was woken, or that is inside, to take it.
THEOREM WakeupsKept == Spec => []NoLostWakeup
<1>1. Init => NoLostWakeup
  BY DEF Init, NoLostWakeup, Waiting
<1>2. QED
  BY <1>1, InitInv, NextInv, NextWakes, PTL DEF Spec

-----------------------------------------------------------------------------
(* The refinement *)

\* The calls as Fifo sees them, once one has changed.
LEMMA AbsCall ==
  ASSUME Inv, NEW t \in Threads, NEW r, absCall'[t] = r,
         \A u \in Threads \ {t} : absCall'[u] = absCall[u]
  PROVE  absCall' = [absCall EXCEPT ![t] = r]
BY DEF absCall

\* A call is invoked.
LEMMA CallStep ==
  ASSUME Inv, NEW t \in Threads, NEW o \in {"Append", "Remove", "Inspect", "AsyncRemove"},
         NEW v \in Values \cup {Nil}, Call(t, o, v)
  PROVE  Queue!Next
<1>1. absCall[t] = Queue!Idle
  BY DEF Inv, TypeOK, CallOK, Call, absCall, Queue!Idle, Queue!Invoked
<1>2. absCall'[t] = Queue!Invoked(o, v)
  <2>1. pc'[t] = "lock" /\ op'[t] = o /\ arg'[t] = v /\ ret'[t] = Nil
    BY DEF Inv, TypeOK, CallOK, Call
  <2>2. QED
    BY <2>1 DEF absCall, Queue!Invoked
<1>3. \A u \in Threads \ {t} : absCall'[u] = absCall[u]
  BY DEF Inv, TypeOK, Call, absCall
<1>4. absCall' = [absCall EXCEPT ![t] = Queue!Invoked(o, v)]
  BY <1>2, <1>3, AbsCall
<1>5. l' = l
  BY DEF Call
<1>6. Queue!Invoke(t)
  BY <1>1, <1>4, <1>5 DEF Queue!Invoke, Queue!Ops
<1>7. QED
  BY <1>6 DEF Queue!Next

\* Where a body runs, its call takes effect.
LEMMA LeaveStep ==
  ASSUME Inv, NEW t \in Threads, NEW w \in Waiting \cup {t}, NEW v,
         pc[t] = "body", Leave(t, w, v), UNCHANGED <<op, arg>>
  PROVE  /\ absCall[t].op = op[t] /\ absCall[t].arg = arg[t] /\ ~absCall[t].did
         /\ absCall' = [absCall EXCEPT ![t].did = TRUE, ![t].ret = v]
<1>1. absCall[t] = [op |-> op[t], arg |-> arg[t], did |-> FALSE, ret |-> Nil]
  BY DEF Inv, TypeOK, CallOK, absCall
<1>2. absCall'[t] = [op |-> op[t], arg |-> arg[t], did |-> TRUE, ret |-> v]
  BY DEF Inv, TypeOK, Leave, absCall
<1>3. \A u \in Threads \ {t} : absCall'[u] = absCall[u]
  BY DEF Inv, TypeOK, Leave, Waiting, absCall
<1>4. absCall' = [absCall EXCEPT ![t] = [op |-> op[t], arg |-> arg[t], did |-> TRUE, ret |-> v]]
  BY <1>2, <1>3, AbsCall
<1>5. QED
  BY <1>1, <1>4 DEF absCall

LEMMA AppendStep == ASSUME Inv, NEW t \in Threads, AppendBody(t) PROVE Queue!Next
<1>1. PICK w \in Signal(t) : Leave(t, w, Nil)
  BY DEF AppendBody
<1>2. w \in Waiting \cup {t}
  BY <1>1 DEF Signal
<1>3. /\ pc[t] = "body" /\ op[t] = "Append" /\ l' = Append(l, arg[t])
      /\ UNCHANGED <<op, arg>>
  BY DEF AppendBody
<1>4. Queue!Effect(t)
  BY <1>1, <1>2, <1>3, LeaveStep DEF Queue!Effect
<1>5. QED
  BY <1>4 DEF Queue!Next

LEMMA RemoveStep == ASSUME Inv, NEW t \in Threads, RemoveBody(t) PROVE Queue!Next
<1>1. /\ pc[t] = "body" /\ op[t] \in {"Remove", "AsyncRemove"} /\ l # <<>> /\ l' = Tail(l)
      /\ Leave(t, t, Head(l)) /\ UNCHANGED <<op, arg>>
  BY DEF RemoveBody
<1>2. Queue!Effect(t)
  BY <1>1, LeaveStep DEF Queue!Effect
<1>3. QED
  BY <1>2 DEF Queue!Next

LEMMA ReturnNilStep == ASSUME Inv, NEW t \in Threads, ReturnNil(t) PROVE Queue!Next
<1>1. /\ pc[t] = "body" /\ op[t] \in {"AsyncRemove", "Inspect"} /\ l = <<>> /\ l' = l
      /\ Leave(t, t, Nil) /\ UNCHANGED <<op, arg>>
  BY DEF ReturnNil
<1>2. Queue!Effect(t)
  BY <1>1, LeaveStep DEF Queue!Effect
<1>3. QED
  BY <1>2 DEF Queue!Next

LEMMA InspectStep == ASSUME Inv, NEW t \in Threads, InspectBody(t) PROVE Queue!Next
<1>1. /\ pc[t] = "body" /\ op[t] = "Inspect" /\ l # <<>> /\ l' = l
      /\ Leave(t, t, Head(l)) /\ UNCHANGED <<op, arg>>
  BY DEF InspectBody
<1>2. Queue!Effect(t)
  BY <1>1, LeaveStep DEF Queue!Effect
<1>3. QED
  BY <1>2 DEF Queue!Next

LEMMA UnlockStep == ASSUME Inv, NEW t \in Threads, Unlock(t) PROVE Queue!Next
<1>1. absCall[t].did /\ l' = l
  BY DEF Unlock, absCall
<1>2. absCall'[t] = Queue!Idle
  BY DEF Inv, TypeOK, Unlock, absCall, Queue!Idle, Queue!Invoked
<1>3. \A u \in Threads \ {t} : absCall'[u] = absCall[u]
  BY DEF Inv, TypeOK, Unlock, absCall
<1>4. absCall' = [absCall EXCEPT ![t] = Queue!Idle]
  BY <1>2, <1>3, AbsCall
<1>5. Queue!Return(t)
  BY <1>1, <1>4 DEF Queue!Return
<1>6. QED
  BY <1>5 DEF Queue!Next

\* Taking the mutex, and going to sleep, are not seen from outside.
LEMMA HiddenStep ==
  ASSUME Inv, NEW t \in Threads, Lock(t) \/ RemoveWait(t) PROVE UNCHANGED Queue!fifoVars
<1>1. l' = l /\ UNCHANGED <<op, arg, ret>>
  BY DEF Lock, RemoveWait
<1>2. \A u \in Threads : pc[u] = "unlock" <=> pc'[u] = "unlock"
  BY DEF Lock, RemoveWait, Inv, TypeOK
<1>3. absCall' = absCall
  BY <1>1, <1>2 DEF absCall
<1>4. QED
  BY <1>1, <1>3 DEF Queue!fifoVars

\* Every step of the channel is a step of the queue or hidden.
LEMMA NextStep == Inv /\ [Next]_vars => [Queue!Next]_(Queue!fifoVars)
<1> SUFFICES ASSUME Inv, [Next]_vars PROVE [Queue!Next]_(Queue!fifoVars)
  OBVIOUS
<1>1. CASE UNCHANGED vars
  BY <1>1 DEF vars, Queue!fifoVars, absCall
<1>2. ASSUME NEW t \in Threads, NEW v \in Values, Call(t, "Append", v) PROVE Queue!Next
  BY <1>2, CallStep
<1>3. ASSUME NEW t \in Threads, NEW o \in {"Remove", "Inspect", "AsyncRemove"}, Call(t, o, Nil)
      PROVE  Queue!Next
  BY <1>3, CallStep
<1>4. ASSUME NEW t \in Threads, Lock(t) \/ RemoveWait(t) PROVE UNCHANGED Queue!fifoVars
  BY <1>4, HiddenStep
<1>5. ASSUME NEW t \in Threads,
             AppendBody(t) \/ RemoveBody(t) \/ ReturnNil(t) \/ InspectBody(t) \/ Unlock(t)
      PROVE  Queue!Next
  BY <1>5, AppendStep, RemoveStep, ReturnNilStep, InspectStep, UnlockStep
<1>6. QED
  BY <1>1, <1>2, <1>3, <1>4, <1>5 DEF Next

\* buffchan.go: the channel is a FIFO queue whose calls take effect one at a time, for any
\* goroutines and however their calls are interleaved.
THEOREM ImplementsFifo == Spec => FifoSpec
<1>1. Init => Queue!Init
  BY DEF Init, Queue!Init, absCall, Queue!Idle, Queue!Invoked
<1>2. QED
  BY <1>1, InitInv, NextInv, NextStep, PTL DEF Spec, FifoSpec, Queue!Spec
=============================================================================
