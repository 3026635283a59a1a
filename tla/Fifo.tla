------------------------------- MODULE Fifo --------------------------------
(***************************************************************************)
(* What the unbounded channel promises: a queue that many goroutines use   *)
(* at once.  Every call takes effect in one step between its invocation    *)
(* and its return; a Remove waits until there is something to remove.      *)
(***************************************************************************)
EXTENDS Sequences

CONSTANTS Threads, Values, Nil

VARIABLES
  queue,  \* the values in the channel
  call    \* call[t]: the call t is in, and whether it has taken effect

fifoVars == <<queue, call>>

Invoked(op, v) == [op |-> op, arg |-> v, did |-> FALSE, ret |-> Nil]
Idle == Invoked("none", Nil)

Ops == {"Append", "Remove", "Inspect", "AsyncRemove"}

Init ==
  /\ queue = <<>>
  /\ call = [t \in Threads |-> Idle]

Invoke(t) ==
  /\ call[t] = Idle
  /\ \E op \in Ops, v \in Values \cup {Nil} :
       call' = [call EXCEPT ![t] = Invoked(op, v)]
  /\ UNCHANGED queue

Effect(t) ==
  /\ call[t].op # "none" /\ ~call[t].did
  /\ call[t].op = "Remove" => queue # <<>>
  /\ queue' = CASE call[t].op = "Append" -> Append(queue, call[t].arg)
                [] call[t].op \in {"Remove", "AsyncRemove"} /\ queue # <<>> -> Tail(queue)
                [] OTHER -> queue
  /\ call' = [call EXCEPT ![t].did = TRUE,
                          ![t].ret = IF call[t].op = "Append" \/ queue = <<>> THEN Nil
                                     ELSE Head(queue)]

Return(t) ==
  /\ call[t].did
  /\ call' = [call EXCEPT ![t] = Idle]
  /\ UNCHANGED queue

Next == \E t \in Threads : Invoke(t) \/ Effect(t) \/ Return(t)

Spec == Init /\ [][Next]_fifoVars
=============================================================================
