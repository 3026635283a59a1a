------------------------------- MODULE CList --------------------------------
(***************************************************************************)
(* The concurrent list of clist/clist.go, as the key-value server uses it. *)
(*                                                                         *)
(* A channel of capacity 1 is the mutex.  PushBack, Len and Remove hold it *)
(* while they work, so each of them is one step that needs it free.  Iter  *)
(* starts a goroutine that takes the mutex and sends the elements one by   *)
(* one on an unbuffered channel; it closes that channel BEFORE the         *)
(* deferred release, so the consumer may go on, and even call Iter again,  *)
(* while the mutex is still held.                                          *)
(***************************************************************************)
EXTENDS Integers, Sequences

Seqs == INSTANCE SequencesExt

CONSTANT None   \* no element

VARIABLES
  items,  \* cl.items
  mutex,  \* "free", "iter": held by an Iter goroutine, "closed": held by one that is done
  iter,   \* the Iter goroutine of the loop that runs: "start", "on", or "done" (closed)
  pos,    \* the position of its e
  cur     \* the element the consumer works on

clistVars == <<items, mutex, iter, pos, cur>>

InList(v) == \E i \in 1 .. Len(items) : items[i] = v

CListInit ==
  /\ items = <<>>
  /\ mutex = "free"
  /\ iter = "start"
  /\ pos = 0
  /\ cur = None

PushBack(v) ==
  /\ mutex = "free"
  /\ items' = Append(items, v)
  /\ UNCHANGED <<mutex, iter, pos, cur>>

\* the first occurrence of v, if there is one
Remove(v) ==
  /\ mutex = "free"
  /\ items' = Seqs!RemoveFirst(items, v)
  /\ UNCHANGED <<mutex, iter, pos, cur>>

\* Len changes nothing: that it may return is all there is of it
LenReturns == mutex = "free"

\* the goroutine of Iter gets the mutex and stands at element i
IterLockAt(i) ==
  /\ iter = "start" /\ mutex = "free"
  /\ mutex' = "iter"
  /\ iter' = "on"
  /\ pos' = i
  /\ UNCHANGED <<items, cur>>

\* Mutant: the loop begins at the second element.
IterLockSecond == IterLockAt(2)

\* cl.items.Front()
IterLock == IterLockAt(1)

\* `c <- e` meets the consumer's receive; then e.Next()
IterSend ==
  /\ iter = "on" /\ pos <= Len(items) /\ cur = None
  /\ cur' = items[pos]
  /\ pos' = pos + 1
  /\ UNCHANGED <<items, mutex, iter>>

\* close(c): the last element has been received, and may still be worked on
IterClose ==
  /\ iter = "on" /\ pos > Len(items)
  /\ iter' = "done"
  /\ mutex' = "closed"
  /\ UNCHANGED <<items, pos, cur>>

\* Mutant: the deferred release is left out.
IterUnlockNever ==
  /\ mutex = "closed" /\ iter = "start"
  /\ UNCHANGED clistVars

\* the deferred `<-cl.mutex`
IterUnlock ==
  /\ mutex = "closed"
  /\ mutex' = "free"
  /\ UNCHANGED <<items, iter, pos, cur>>
=============================================================================
