------------------------------ MODULE MrFiles ------------------------------
(***************************************************************************)
(* What a MapReduce computes: RunSingle (mapreduce/mapreduce.go) runs      *)
(* Split, DoMap, DoReduce and Merge one after the other, and the parallel  *)
(* Run has its workers call the same DoMap and DoReduce.                   *)
(*                                                                         *)
(* A line of the input is a sequence of words; a word is a pair of the key *)
(* and the value that Map emits for it.  Reduce returns the list of values *)
(* it was given, so that nothing about it is lost in the result.           *)
(***************************************************************************)
EXTENDS Integers, SequencesExt

CONSTANTS
  nMap,       \* number of map jobs
  nReduce,    \* number of reduce jobs
  Keys,       \* the keys, ordered as integers
  MaxLines    \* bound: lines in the input

ASSUME FilesAssumption ==
  /\ nMap \in Nat \ {0}
  /\ nReduce \in Nat \ {0}
  /\ Keys \subseteq Int
  /\ MaxLines \in Nat

VARIABLES
  input,     \* the lines of the input file
  newline,   \* the last line ends with a newline
  hash,      \* ihash(key) % nReduce
  pc,        \* where RunSingle is
  splits,    \* the files MapName(f, 0), MapName(f, 1), ...
  pos,       \* lines that Split has scanned
  i,         \* the bytes Split has written
  j,         \* the loop counter of RunSingle
  out,       \* out[m][r]: the file ReduceName(f, m, r)
  res,       \* res[r]: the file MergeName(f, r)
  output     \* the file mrtmp.f

inputs == <<input, newline, hash>>
vars == <<inputs, pc, splits, pos, i, j, out, res, output>>

\* stands for the 64K of bufio.MaxScanTokenSize
LongLine == 10

\* A line holds no word or one, of one byte, whose value is the number of the line
Bytes(line) == IF line.long THEN LongLine ELSE 1 + Len(line.words)

Size == FoldLeft(LAMBDA n, line : n + Bytes(line), 0, input) - IF newline THEN 0 ELSE 1

Init ==
  /\ \E keys \in SeqOf(Keys \cup {0}, MaxLines) :
       \E long \in 0 .. Len(keys) :
         input = [n \in 1 .. Len(keys) |->
                    [words |-> IF keys[n] = 0 THEN <<>> ELSE << <<keys[n], n>> >>, long |-> n = long]]
  /\ newline \in (IF input = <<>> \/ Last(input).words = <<>> THEN {TRUE} ELSE BOOLEAN)
  /\ hash \in [Keys -> 0 .. nReduce - 1]
  /\ pc = "split"
  /\ splits = << <<>> >>
  /\ pos = 0 /\ i = 0 /\ j = 0
  /\ out = <<>> /\ res = <<>> /\ output = <<>>

-----------------------------------------------------------------------------
(* Split *)

\* Mutant: the quotient is not rounded up.
nchunkFloor == Size \div nMap

nchunk == (Size \div nMap) + 1

\* a line too long for the scanner ends the loop like the end of the file
Scan == pos < Len(input) /\ ~input[pos + 1].long

\* `if int64(i) > nchunk*int64(m)`: the next file is opened.  m is the number of files.
SplitLine ==
  /\ pc = "split" /\ Scan
  /\ LET line == input[pos + 1]
         opened == IF i > nchunk * Len(splits) THEN Append(splits, <<>>) ELSE splits
     IN /\ splits' = [opened EXCEPT ![Len(opened)] = Append(@, line)]
        /\ i' = i + Bytes(line)
  /\ pos' = pos + 1
  /\ UNCHANGED <<inputs, pc, j, out, res, output>>

SplitEnd ==
  /\ pc = "split" /\ ~Scan
  /\ pc' = "map"
  /\ UNCHANGED <<inputs, splits, pos, i, j, out, res, output>>

-----------------------------------------------------------------------------
(* DoMap, DoReduce, Merge *)

\* the application's Map: the words of a split, in order
Map(split) == FlattenSeq([n \in 1 .. Len(split) |-> split[n].words])

Partition(kvs, r) == SelectSeq(kvs, LAMBDA kv : hash[kv[1]] = r)

\* without its split, log.Fatal ends the program
DoMap ==
  /\ pc = "map" /\ j < nMap
  /\ IF j < Len(splits)
     THEN /\ out' = Append(out, [r \in 0 .. nReduce - 1 |-> Partition(Map(splits[j + 1]), r)])
          /\ j' = j + 1
          /\ UNCHANGED pc
     ELSE pc' = "fatal" /\ UNCHANGED <<out, j>>
  /\ UNCHANGED <<inputs, splits, pos, i, res, output>>

DoMapEnd ==
  /\ pc = "map" /\ j = nMap
  /\ pc' = "reduce" /\ j' = 0
  /\ UNCHANGED <<inputs, splits, pos, i, out, res, output>>

KeysOf(kvs) == {kvs[n][1] : n \in 1 .. Len(kvs)}

Values(kvs, k) == LET mine == SelectSeq(kvs, LAMBDA kv : kv[1] = k)
                  IN [n \in 1 .. Len(mine) |-> mine[n][2]]

\* Mutant: a new list for every value of a key.
CollectLast(kvs) ==
  LET keys == SetToSortSeq(KeysOf(kvs), <)
  IN [n \in 1 .. Len(keys) |-> LET v == Values(kvs, keys[n]) IN <<keys[n], <<v[Len(v)]>> >>]

\* kvs, a map from each key to its values in the order read; then by sorted key
Collect(kvs) == LET keys == SetToSortSeq(KeysOf(kvs), <)
                IN [n \in 1 .. Len(keys) |-> <<keys[n], Values(kvs, keys[n])>>]

DoReduce ==
  /\ pc = "reduce" /\ j < nReduce
  /\ res' = Append(res, Collect(FlattenSeq([m \in 1 .. nMap |-> out[m][j]])))
  /\ j' = j + 1
  /\ UNCHANGED <<inputs, pc, splits, pos, i, out, output>>

\* kvs[kv.Key] = kv.Value: of two results for a key the later one stays
Merge ==
  /\ pc = "reduce" /\ j = nReduce
  /\ LET kvs == FlattenSeq(res)
         keys == SetToSortSeq(KeysOf(kvs), <)
     IN output' = [n \in 1 .. Len(keys) |->
                     LET v == Values(kvs, keys[n]) IN <<keys[n], v[Len(v)]>>]
  /\ pc' = "done"
  /\ UNCHANGED <<inputs, splits, pos, i, j, out, res>>

Next == SplitLine \/ SplitEnd \/ DoMap \/ DoMapEnd \/ DoReduce \/ Merge

Spec == Init /\ [][Next]_vars

-----------------------------------------------------------------------------
(* Properties *)

\* what the job is meant to compute, whatever nMap, nReduce and the hash are
Reference(lines) ==
  LET numbers(k) == {n \in 1 .. Len(lines) : lines[n].words # <<>> /\ lines[n].words[1][1] = k}
      keys == SetToSortSeq({k \in Keys : numbers(k) # {}}, <)
  IN [n \in 1 .. Len(keys) |-> <<keys[n], SetToSortSeq(numbers(keys[n]), <)>>]

\* Split, DoMap, DoReduce and Merge together give for each key of the input, in
\* order, one call of Reduce with all its values in the order of the input.  Of the
\* lines from one that is too long on, nothing gets that far.
Result ==
  pc = "done" =>
    \E n \in 0 .. Len(input) :
      /\ output = Reference(SubSeq(input, 1, n))
      /\ n = Len(input) \/ input[n + 1].long

\* Split never makes a file that no map job reads: the +1 in nchunk keeps the last
\* lines from going to a file nMap.
SplitBound == Len(splits) <= nMap

=============================================================================
