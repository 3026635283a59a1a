-------------------------- MODULE MapReduceProofs --------------------------
(***************************************************************************)
(* Proofs about the MapReduce master and its workers, for every finite set *)
(* of workers, any number of jobs, and workers that leave whenever their   *)
(* nRPC runs out, as processes or as goroutines.                           *)
(*                                                                         *)
(* The properties of MapReduce are not inductive.  Inv adds what they rest *)
(* on: who holds which job (HoldOK, PlaceOK), that the jobs of a phase add *)
(* up (CountOK), what the master's counters say about the phase (PhaseOK), *)
(* and how far each job is with its files (FilesOK).  The step that counts *)
(* is MapDone: when the last map job is counted, CountOK leaves no map job *)
(* that is waiting or held, so by FilesOK every map output is complete and *)
(* no one is left to write one.                                            *)
(***************************************************************************)
EXTENDS MapReduce, FiniteSetTheorems, TLAPS

-----------------------------------------------------------------------------
(* The inductive invariant *)

Jobs(p) == 0 .. Total[p] - 1

Queued(p) == {jobs[p][i] : i \in 1 .. Len(jobs[p])}

DoJobCall(w) == call[<<w, "DoJob">>]

ShutdownCall(w) == call[<<w, "Shutdown">>]

\* A goroutine of the master holds a job of its phase while its DoJob call is open.
HoldOK ==
  \A w \in Workers :
    /\ IF job[w] = NoJob THEN DoJobCall(w) = "none"
                         ELSE DoJobCall(w) # "none" /\ rw[w] = job[w][1]
    /\ wpc[w] \in {"off", "register", "registering"} => rw[w] = "off"

\* A job is in one place only.
PlaceOK ==
  /\ \A p \in Phases : \A i, j \in 1 .. Len(jobs[p]) : jobs[p][i] = jobs[p][j] => i = j
  /\ \A v, w \in Workers : job[v] = job[w] /\ job[v] # NoJob => v = w
  /\ \A w \in Workers, p \in Phases : job[w] # NoJob /\ job[w][1] = p => job[w][2] \notin Queued(p)

\* Every job is counted.
CountOK ==
  \A p \in Phases : Len(jobs[p]) + Cardinality(Held(p)) + done[p] + count[p] = Total[p]

\* Reduce jobs wait for the last map job, and the end for the last reduce job.
PhaseOK ==
  /\ reduceStart => count["Map"] = nMap
  /\ \A w \in Workers : rw[w] = "Reduce" => reduceStart
  /\ done["Reduce"] + count["Reduce"] > 0 => reduceStart
  /\ mpc \notin {"split", "run"} => count["Reduce"] = nReduce

\* KillWorkers calls every worker once, so the number it reads is not negative.
KillOK ==
  \A w \in Workers :
    /\ mpc \in {"split", "run"} => ShutdownCall(w) = "none"
    /\ w \in toKill => mpc = "kill" /\ ShutdownCall(w) = "none"
    /\ (mpc \in {"split", "run"} \/ w \in toKill \/ ShutdownCall(w) \in {"dialled", "serving"})
       => nJobs[w] >= 0

\* How far the worker is with the map job it has.
MapOK(w) ==
  LET m == job[w][2]
  IN /\ DoJobCall(w) = "dialled" => at[w] = 0 /\ ~fopen[w]
     /\ DoJobCall(w) \in {"dialled", "serving"} => at[w] <= nReduce /\ (fopen[w] => at[w] < nReduce)
     /\ DoJobCall(w) = "serving" => \A r \in ReduceJobs : r < at[w] => out[m][r] = "full"
     /\ DoJobCall(w) = "replied" => \A r \in ReduceJobs : out[m][r] = "full"

ReduceOK(w) ==
  LET r == job[w][2]
  IN /\ DoJobCall(w) = "dialled" => at[w] = 0 /\ ~fopen[w]
     /\ DoJobCall(w) \in {"dialled", "serving"} =>
          intact[w] /\ at[w] <= nMap + 1 /\ (fopen[w] => at[w] = nMap)
     /\ DoJobCall(w) = "serving" /\ at[w] = nMap + 1 => res[r] = "full"
     /\ DoJobCall(w) = "replied" => res[r] = "full"

WorkOK ==
  \A w \in Workers :
    job[w] # NoJob =>
      /\ job[w][1] = "Map" => MapOK(w)
      /\ job[w][1] = "Reduce" => ReduceOK(w)

\* The files of a job that is neither waiting nor held are complete.
DoneOK ==
  /\ \A m \in MapJobs :
       \/ m \in Queued("Map")
       \/ \E w \in Workers : job[w] = <<"Map", m>>
       \/ \A r \in ReduceJobs : out[m][r] = "full"
  /\ \A r \in ReduceJobs :
       \/ r \in Queued("Reduce")
       \/ \E w \in Workers : job[w] = <<"Reduce", r>>
       \/ res[r] = "full"

EndOK == mpc \in {"cleanup", "send", "end"} => output = "full"

FilesOK == WorkOK /\ DoneOK /\ EndOK

\* The types, without the bounds that follow from the counts.
Types ==
  /\ WorkerTypeOK
  /\ mpc \in {"split", "run", "kill", "merge", "cleanup", "send", "end"}
  /\ mopen \in BOOLEAN
  /\ registered \subseteq Workers
  /\ jobs \in [Phases -> Seq(Nat)]
  /\ \A p \in Phases : jobs[p] \in Seq(Jobs(p))
  /\ done \in [Phases -> Nat]
  /\ count \in [Phases -> Nat]
  /\ reduceStart \in BOOLEAN
  /\ rw \in [Workers -> {"off", "Map", "Reduce", "returned"}]
  /\ toKill \subseteq Workers
  /\ stats \subseteq (Workers \X Nat)
  /\ output \in FileState

Inv == Types /\ HoldOK /\ PlaceOK /\ CountOK /\ PhaseOK /\ KillOK /\ FilesOK

-----------------------------------------------------------------------------
\* Jobs and channels of jobs.
LEMMA Totals ==
  ASSUME WorkerAssumption
  PROVE  /\ Total["Map"] = nMap /\ Total["Reduce"] = nReduce
         /\ \A p \in Phases : Total[p] \in Nat
         /\ Jobs("Map") = MapJobs /\ Jobs("Reduce") = ReduceJobs
         /\ \A p \in Phases : Jobs(p) \subseteq Nat
BY DEF WorkerAssumption, Total, Phases, Jobs, MapJobs, ReduceJobs

LEMMA JobFields ==
  ASSUME WorkerAssumption, NEW x \in Job
  PROVE  /\ x = <<x[1], x[2]>> /\ x # NoJob /\ x[1] \in Phases /\ x[2] \in Jobs(x[1])
         /\ x[1] = "Map" => x[2] \in MapJobs
         /\ x[1] = "Reduce" => x[2] \in ReduceJobs
BY Totals DEF Job, NoJob, Phases

LEMMA JobMade ==
  ASSUME WorkerAssumption, NEW p \in Phases, NEW n \in Jobs(p)
  PROVE  <<p, n>> \in Job /\ <<p, n>>[1] = p /\ <<p, n>>[2] = n
BY Totals DEF Job, Phases

\* Receiving from a channel of jobs.
LEMMA QueueTail ==
  ASSUME NEW S, NEW s \in Seq(S), s # <<>>,
         \A i, j \in 1 .. Len(s) : s[i] = s[j] => i = j
  PROVE  /\ Head(s) \in S /\ Tail(s) \in Seq(S) /\ Len(Tail(s)) = Len(s) - 1
         /\ {s[i] : i \in 1 .. Len(s)} = {Head(s)} \cup {Tail(s)[i] : i \in 1 .. Len(Tail(s))}
         /\ Head(s) \notin {Tail(s)[i] : i \in 1 .. Len(Tail(s))}
         /\ \A i, j \in 1 .. Len(Tail(s)) : Tail(s)[i] = Tail(s)[j] => i = j
<1>1. /\ Head(s) = s[1] /\ Len(s) \in Nat /\ Len(s) > 0 /\ Len(Tail(s)) = Len(s) - 1
      /\ \A i \in 1 .. Len(s) - 1 : Tail(s)[i] = s[i + 1]
      /\ Tail(s) \in Seq(S) /\ Head(s) \in S
  OBVIOUS
<1>2. \A i \in 1 .. Len(s) : i = 1 \/ (i - 1 \in 1 .. Len(Tail(s)) /\ Tail(s)[i - 1] = s[i])
  BY <1>1
<1>3. {s[i] : i \in 1 .. Len(s)} \subseteq {Head(s)} \cup {Tail(s)[i] : i \in 1 .. Len(Tail(s))}
  BY <1>1, <1>2
<1>4. {Head(s)} \cup {Tail(s)[i] : i \in 1 .. Len(Tail(s))} \subseteq {s[i] : i \in 1 .. Len(s)}
  <2>1. \A i \in 1 .. Len(Tail(s)) : i + 1 \in 1 .. Len(s) /\ Tail(s)[i] = s[i + 1]
    BY <1>1
  <2> QED BY <1>1, <2>1
<1>5. \A i \in 1 .. Len(Tail(s)) : Tail(s)[i] # Head(s)
  BY <1>1
<1>6. \A i, j \in 1 .. Len(Tail(s)) : Tail(s)[i] = Tail(s)[j] => i = j
  <2> SUFFICES ASSUME NEW i \in 1 .. Len(Tail(s)), NEW j \in 1 .. Len(Tail(s)), Tail(s)[i] = Tail(s)[j]
               PROVE  i = j
    OBVIOUS
  <2>1. i + 1 \in 1 .. Len(s) /\ j + 1 \in 1 .. Len(s) /\ s[i + 1] = s[j + 1]
    BY <1>1
  <2>2. i + 1 = j + 1
    BY <2>1
  <2> QED BY <1>1, <2>2
<1> QED BY <1>1, <1>3, <1>4, <1>5, <1>6

\* Sending to it.
LEMMA QueueAppend ==
  ASSUME NEW S, NEW s \in Seq(S), NEW x \in S,
         \A i, j \in 1 .. Len(s) : s[i] = s[j] => i = j,
         x \notin {s[i] : i \in 1 .. Len(s)}
  PROVE  /\ Append(s, x) \in Seq(S) /\ Len(Append(s, x)) = Len(s) + 1
         /\ {Append(s, x)[i] : i \in 1 .. Len(Append(s, x))} = {s[i] : i \in 1 .. Len(s)} \cup {x}
         /\ \A i, j \in 1 .. Len(Append(s, x)) : Append(s, x)[i] = Append(s, x)[j] => i = j
<1>1. /\ Len(s) \in Nat /\ Append(s, x) \in Seq(S) /\ Len(Append(s, x)) = Len(s) + 1
      /\ \A i \in 1 .. Len(s) : Append(s, x)[i] = s[i]
      /\ Append(s, x)[Len(s) + 1] = x
  OBVIOUS
<1>2. \A i \in 1 .. Len(s) + 1 : i \in 1 .. Len(s) \/ i = Len(s) + 1
  BY <1>1
<1> QED BY <1>1, <1>2

-----------------------------------------------------------------------------
(* Types *)

LEMMA TypesInit == ASSUME WorkerAssumption, Init PROVE Types
<1>1. WorkerTypeOK
  BY DEF Init, WorkerInit, WorkerTypeOK, WorkerAssumption, FileState
<1>2. ASSUME NEW p \in Phases PROVE jobs[p] \in Seq(Jobs(p)) /\ jobs[p] \in Seq(Nat)
  <2>1. jobs[p] = [i \in 1 .. Total[p] |-> i - 1] /\ Total[p] \in Nat
    BY Totals DEF Init
  <2>2. \A i \in 1 .. Total[p] : i - 1 \in 0 .. Total[p] - 1 /\ i - 1 \in Nat
    BY <2>1
  <2>3. jobs[p] \in [1 .. Total[p] -> Jobs(p)] /\ jobs[p] \in [1 .. Total[p] -> Nat]
    BY <2>1, <2>2 DEF Jobs
  <2>4. ASSUME NEW S, NEW n \in Nat, NEW f \in [1 .. n -> S] PROVE f \in Seq(S)
    OBVIOUS
  <2>5. jobs[p] \in Seq(Jobs(p))
    BY <2>1, <2>3, <2>4
  <2>6. jobs[p] \in Seq(Nat)
    BY <2>1, <2>3, <2>4
  <2> QED BY <2>5, <2>6
<1>3. jobs \in [Phases -> Seq(Nat)]
  BY <1>2 DEF Init
<1> QED BY <1>1, <1>2, <1>3 DEF Init, Types, FileState

LEMMA LoopTypes ==
  ASSUME WorkerAssumption, Types, NEW w \in Workers, Start(w) \/ Loop(w) \/ Registration(w)
  PROVE  Types'
<1> USE DEF Types, WorkerTypeOK
<1>1. CASE Start(w)
  BY <1>1 DEF Start, StartWorker, mvars
<1>2. CASE Registered(w) /\ UNCHANGED mvars
  BY <1>2 DEF Registered, mvars
<1>3. CASE Check(w) /\ UNCHANGED mvars
  BY <1>3 DEF Check, Hangup, mvars
<1>4. CASE Accept(w) /\ UNCHANGED mvars
  BY <1>4 DEF Accept, mvars, Methods
<1>5. CASE Count(w) /\ UNCHANGED mvars
  BY <1>5 DEF Count, mvars
<1>6. CASE RegisterCall(w) \/ RegisterRefused(w)
  BY <1>6 DEF RegisterCall, RegisterRefused, mvars
<1>7. CASE MasterRegister(w)
  BY <1>7 DEF MasterRegister
<1> QED BY <1>1, <1>2, <1>3, <1>4, <1>5, <1>6, <1>7 DEF Loop, AcceptLoop, Registration

LEMMA ServeTypes ==
  ASSUME WorkerAssumption, Types, HoldOK, KillOK, NEW w \in Workers, Serve(w)
  PROVE  Types'
<1>m. UNCHANGED mvars
  BY DEF Serve
<1> USE DEF Types, WorkerTypeOK
<1>j. ASSUME NEW p \in Phases, Serving(w, p) PROVE job[w] \in Job /\ job[w][1] = p
  BY <1>j DEF HoldOK, DoJobCall, Serving
<1>1. CASE MapCreate(w) \/ MapClose(w)
  <2>1. PICK m \in MapJobs : m = job[w][2]
    BY <1>1, <1>j, JobFields DEF MapCreate, MapClose, Phases
  <2>2. PICK r : r = at[w]
    OBVIOUS
  <2>3. PICK x \in {"part", "full"} : out' = [out EXCEPT ![m][r] = x]
    BY <1>1, <2>1, <2>2 DEF MapCreate, MapClose
  <2>4. out' \in [MapJobs -> [ReduceJobs -> FileState]]
    BY <2>3 DEF FileState
  <2>5. UNCHANGED <<wpc, nRPC, nJobs, call, job, intact, njobs, res>>
    BY <1>1 DEF MapCreate, MapClose
  <2>6. fopen' \in [Workers -> BOOLEAN] /\ at' \in [Workers -> Nat]
    <3>1. CASE MapCreate(w)
      <4>1. fopen' = [fopen EXCEPT ![w] = TRUE] /\ at' = at
        BY <3>1 DEF MapCreate
      <4> QED BY <4>1
    <3>2. CASE MapClose(w)
      <4>1. fopen' = [fopen EXCEPT ![w] = FALSE] /\ at' = [at EXCEPT ![w] = @ + 1]
        BY <3>2 DEF MapClose
      <4> QED BY <4>1
    <3> QED BY <1>1, <3>1, <3>2
  <2> QED BY <1>m, <2>4, <2>5, <2>6 DEF mvars
<1>2. CASE ReduceRead(w)
  <2>1. at' = [at EXCEPT ![w] = @ + 1]
    BY <1>2 DEF ReduceRead
  <2>2. PICK b \in BOOLEAN : intact' = [intact EXCEPT ![w] = b]
    BY <1>2 DEF ReduceRead
  <2>3. at' \in [Workers -> Nat] /\ intact' \in [Workers -> BOOLEAN]
    BY <2>1, <2>2
  <2>4. UNCHANGED <<wpc, nRPC, nJobs, call, job, fopen, njobs, out, res>>
    BY <1>2 DEF ReduceRead
  <2> QED BY <1>m, <2>3, <2>4 DEF mvars
<1>3. CASE ReduceCreate(w) \/ ReduceClose(w)
  <2>1. PICK r \in ReduceJobs : r = job[w][2]
    BY <1>3, <1>j, JobFields DEF ReduceCreate, ReduceClose, Phases
  <2>3. PICK x \in {"part", "full", "wrong"} : res' = [res EXCEPT ![r] = x]
    BY <1>3, <2>1 DEF ReduceCreate, ReduceClose
  <2>4. res' \in [ReduceJobs -> FileState]
    BY <2>3 DEF FileState
  <2>5. UNCHANGED <<wpc, nRPC, nJobs, call, job, intact, njobs, out>>
    BY <1>3 DEF ReduceCreate, ReduceClose
  <2>6. fopen' \in [Workers -> BOOLEAN] /\ at' \in [Workers -> Nat]
    <3>1. CASE ReduceCreate(w)
      <4>1. fopen' = [fopen EXCEPT ![w] = TRUE] /\ at' = at
        BY <3>1 DEF ReduceCreate
      <4> QED BY <4>1
    <3>2. CASE ReduceClose(w)
      <4>1. fopen' = [fopen EXCEPT ![w] = FALSE] /\ at' = [at EXCEPT ![w] = @ + 1]
        BY <3>2 DEF ReduceClose
      <4> QED BY <4>1
    <3> QED BY <1>3, <3>1, <3>2
  <2> QED BY <1>m, <2>4, <2>5, <2>6 DEF mvars
<1>4. CASE DoJobReply(w)
  BY <1>4, <1>m DEF DoJobReply, mvars
<1>5. CASE Shutdown(w)
  <2>1. nJobs[w] >= 0
    BY <1>5 DEF Shutdown, KillOK, ShutdownCall
  <2>2. PICK n \in Nat : n = nJobs[w]
    BY <2>1
  <2>3. njobs' = [njobs EXCEPT ![w] = n] /\ nJobs' = [nJobs EXCEPT ![w] = n - 1]
    BY <1>5, <2>2 DEF Shutdown
  <2>4. njobs' \in [Workers -> Nat] /\ nJobs' \in [Workers -> Int]
    BY <2>3
  <2>5. nRPC' \in [Workers -> Int]
    BY <1>5 DEF Shutdown
  <2>6. call' \in [Workers \X Methods -> {"none", "dialled", "serving", "replied", "failed"}]
    BY <1>5 DEF Shutdown
  <2>7. UNCHANGED <<wpc, job, at, fopen, intact, out, res>>
    BY <1>5 DEF Shutdown
  <2> QED BY <1>m, <2>4, <2>5, <2>6, <2>7 DEF mvars
<1> QED BY <1>1, <1>2, <1>3, <1>4, <1>5 DEF Serve, ServeConn

\* Replacing the content of one channel of jobs.
LEMMA JobsExcept ==
  ASSUME WorkerAssumption, Types, NEW p \in Phases, NEW s \in Seq(Jobs(p)),
         jobs' = [jobs EXCEPT ![p] = s]
  PROVE  /\ jobs' \in [Phases -> Seq(Nat)]
         /\ \A q \in Phases : jobs'[q] \in Seq(Jobs(q))
         /\ \A q \in Phases : jobs'[q] = IF q = p THEN s ELSE jobs[q]
<1>1. s \in Seq(Nat)
  <2>1. Jobs(p) \subseteq Nat
    BY Totals
  <2> QED BY <2>1
<1>2. \A q \in Phases : jobs'[q] = IF q = p THEN s ELSE jobs[q]
  BY DEF Types
<1> QED BY <1>1, <1>2 DEF Types

\* What a goroutine that has a DoJob call open holds.
LEMMA Holding ==
  ASSUME WorkerAssumption, Types, HoldOK, NEW w \in Workers, call[<<w, "DoJob">>] # "none"
  PROVE  /\ job[w] \in Job /\ job[w] # NoJob /\ rw[w] = job[w][1] /\ rw[w] \in Phases
         /\ job[w][2] \in Jobs(rw[w])
<1>1. job[w] \in Job /\ job[w] # NoJob /\ rw[w] = job[w][1]
  BY DEF Types, WorkerTypeOK, HoldOK, DoJobCall
<1> QED BY <1>1, JobFields

LEMMA MasterTypes ==
  ASSUME WorkerAssumption, Types, PlaceOK, HoldOK, NEW w \in Workers, RunWorker(w)
  PROVE  Types'
<1>c. <<w, "DoJob">> \in Workers \X Methods
  BY DEF Methods
<1> USE DEF WorkerTypeOK
<1>1. CASE TakeJob(w)
  <2>1. PICK p \in Phases : p = rw[w]
    BY <1>1 DEF TakeJob
  <2>2. /\ jobs[p] # <<>> /\ jobs' = [jobs EXCEPT ![p] = Tail(jobs[p])]
        /\ job' = [job EXCEPT ![w] = <<p, Head(jobs[p])>>]
    BY <1>1, <2>1 DEF TakeJob
  <2>3. Head(jobs[p]) \in Jobs(p) /\ Tail(jobs[p]) \in Seq(Jobs(p))
    <3>1. jobs[p] \in Seq(Jobs(p))
      BY DEF Types
    <3> QED BY <2>2, <3>1
  <2>4. <<p, Head(jobs[p])>> \in Job
    BY <2>3, JobMade
  <2>5. jobs' \in [Phases -> Seq(Nat)] /\ \A q \in Phases : jobs'[q] \in Seq(Jobs(q))
    BY <2>2, <2>3, JobsExcept
  <2>6. call' \in [Workers \X Methods -> {"none", "dialled", "serving", "replied", "failed"}]
    BY <1>1 DEF TakeJob, Dial, Types
  <2>7. job' \in [Workers -> Job \cup {NoJob}]
    BY <2>2, <2>4 DEF Types
  <2>8. at' \in [Workers -> Nat] /\ fopen' \in [Workers -> BOOLEAN] /\ intact' \in [Workers -> BOOLEAN]
    BY <1>1 DEF TakeJob, Types
  <2>9. UNCHANGED <<wpc, nRPC, nJobs, njobs, out, res, mpc, mopen, registered, done, count,
                    reduceStart, rw, toKill, stats, output>>
    BY <1>1 DEF TakeJob
  <2> QED BY <2>5, <2>6, <2>7, <2>8, <2>9 DEF Types
<1>2. CASE JobFailed(w)
  <2>1. call[<<w, "DoJob">>] # "none"
    BY <1>2 DEF JobFailed
  <2>p. PICK p \in Phases : p = rw[w]
    BY <2>1, Holding
  <2>2. PICK n \in Jobs(p) : n = job[w][2]
    BY <2>1, <2>p, Holding
  <2>3. jobs' = [jobs EXCEPT ![p] = Append(jobs[p], n)]
    BY <1>2, <2>p, <2>2 DEF JobFailed
  <2>4. Append(jobs[p], n) \in Seq(Jobs(p))
    BY DEF Types
  <2>5. jobs' \in [Phases -> Seq(Nat)] /\ \A q \in Phases : jobs'[q] \in Seq(Jobs(q))
    BY <2>3, <2>4, JobsExcept
  <2>6. job' \in [Workers -> Job \cup {NoJob}]
    BY <1>2 DEF JobFailed, Types
  <2>7. call' \in [Workers \X Methods -> {"none", "dialled", "serving", "replied", "failed"}]
    BY <1>2 DEF JobFailed, Types
  <2>8. rw' \in [Workers -> {"off", "Map", "Reduce", "returned"}]
    BY <1>2 DEF JobFailed, Types
  <2>9. UNCHANGED <<wpc, nRPC, nJobs, at, fopen, intact, njobs, out, res, mpc, mopen, registered,
                    done, count, reduceStart, toKill, stats, output>>
    BY <1>2 DEF JobFailed
  <2> QED BY <2>5, <2>6, <2>7, <2>8, <2>9 DEF Types
<1>3. CASE JobDone(w)
  <2>1. call[<<w, "DoJob">>] # "none"
    BY <1>3 DEF JobDone
  <2>p. PICK p \in Phases : p = rw[w]
    BY <2>1, Holding
  <2>2. done' = [done EXCEPT ![p] = @ + 1]
    BY <1>3, <2>p DEF JobDone
  <2>3. done' \in [Phases -> Nat]
    BY <2>2 DEF Types
  <2>6. job' \in [Workers -> Job \cup {NoJob}]
    BY <1>3 DEF JobDone, Types
  <2>7. call' \in [Workers \X Methods -> {"none", "dialled", "serving", "replied", "failed"}]
    BY <1>3 DEF JobDone, Types
  <2>9. UNCHANGED <<wpc, nRPC, nJobs, at, fopen, intact, njobs, out, res, mpc, mopen, registered,
                    jobs, count, reduceStart, rw, toKill, stats, output>>
    BY <1>3 DEF JobDone
  <2> QED BY <2>3, <2>6, <2>7, <2>9 DEF Types
<1>4. CASE ToReduce(w) \/ NoMoreJobs(w)
  BY <1>4 DEF ToReduce, NoMoreJobs, wvars, Types
<1> QED BY <1>1, <1>2, <1>3, <1>4 DEF RunWorker

\* RunMaster takes a value from a channel of results and counts it.
LEMMA CountOne ==
  ASSUME Types, NEW p \in Phases, done[p] > 0,
         done' = [done EXCEPT ![p] = @ - 1], count' = [count EXCEPT ![p] = @ + 1]
  PROVE  /\ done' \in [Phases -> Nat] /\ count' \in [Phases -> Nat]
         /\ \A q \in Phases : q # p => done'[q] = done[q] /\ count'[q] = count[q]
         /\ done'[p] = done[p] - 1 /\ count'[p] = count[p] + 1
<1>1. done[p] - 1 \in Nat /\ count[p] + 1 \in Nat
  BY DEF Types
<1> QED BY <1>1 DEF Types

LEMMA RunTypes ==
  ASSUME WorkerAssumption, Types, Run
  PROVE  Types'
<1>p. "Map" \in Phases /\ "Reduce" \in Phases
  BY DEF Phases
<1> USE DEF WorkerTypeOK
<1>1. CASE Split \/ Killed \/ CleanupRegistration \/ Finish
  BY <1>1 DEF Split, Killed, CleanupRegistration, Finish, wvars, Types
<1>2. CASE MapDone
  <2>1. done' \in [Phases -> Nat] /\ count' \in [Phases -> Nat]
    BY <1>p, <1>2, CountOne DEF MapDone
  <2>2. reduceStart' \in BOOLEAN
    BY <1>2 DEF MapDone, Types
  <2>3. UNCHANGED <<wvars, mpc, mopen, registered, jobs, rw, toKill, stats, output>>
    BY <1>2 DEF MapDone
  <2> QED BY <2>1, <2>2, <2>3 DEF wvars, Types
<1>3. CASE ReduceDone
  <2>1. done' \in [Phases -> Nat] /\ count' \in [Phases -> Nat]
    BY <1>p, <1>3, CountOne DEF ReduceDone
  <2>2. /\ mpc' \in {"split", "run", "kill", "merge", "cleanup", "send", "end"}
        /\ toKill' \subseteq Workers
    BY <1>3 DEF ReduceDone, Types
  <2>3. UNCHANGED <<wvars, mopen, registered, jobs, reduceStart, rw, stats, output>>
    BY <1>3 DEF ReduceDone
  <2> QED BY <2>1, <2>2, <2>3 DEF wvars, Types
<1>4. ASSUME NEW w \in Workers, KillCall(w) PROVE Types'
  BY <1>4 DEF KillCall, Dial, Types
<1>5. ASSUME NEW w \in Workers, KillReturn(w) PROVE Types'
  <2>1. call' \in [Workers \X Methods -> {"none", "dialled", "serving", "replied", "failed"}]
    BY <1>5 DEF KillReturn, Types
  <2>2. stats' \subseteq Workers \X Nat
    <3>1. <<w, njobs[w]>> \in Workers \X Nat
      BY DEF Types
    <3> QED BY <1>5, <3>1 DEF KillReturn, Types
  <2> QED BY <1>5, <2>1, <2>2 DEF KillReturn, Types
<1>6. CASE Merge
  BY <1>6 DEF Merge, wvars, FileState, Types
<1> QED BY <1>1, <1>2, <1>3, <1>4, <1>5, <1>6 DEF Run, KillWorkers

LEMMA TypesNext == ASSUME WorkerAssumption, Inv, Next PROVE Types'
BY LoopTypes, ServeTypes, MasterTypes, RunTypes DEF Inv, Next

-----------------------------------------------------------------------------
(* What the actions leave alone *)

\* Only TakeJob, JobFailed and JobDone move a job.
LEMMA JobsKept ==
  ASSUME Next
  PROVE  \/ \E w \in Workers : TakeJob(w) \/ JobFailed(w) \/ JobDone(w)
         \/ UNCHANGED <<jobs, job>>
<1>1. ASSUME Run PROVE UNCHANGED <<jobs, job>>
  BY <1>1 DEF Run, Split, MapDone, ReduceDone, KillWorkers, Killed, KillCall, KillReturn, Merge,
     CleanupRegistration, Finish, wvars
<1>2. ASSUME NEW w \in Workers, Start(w) \/ Loop(w) \/ Serve(w) \/ Registration(w)
      PROVE  UNCHANGED <<jobs, job>>
  <2>1. CASE Start(w) \/ Registration(w)
    BY <2>1 DEF Start, StartWorker, Registration, RegisterCall, RegisterRefused, MasterRegister, mvars
  <2>2. CASE Loop(w)
    BY <2>2 DEF Loop, AcceptLoop, Registered, Check, Accept, Count, mvars
  <2>3. CASE Serve(w)
    BY <2>3 DEF Serve, ServeConn, MapCreate, MapClose, ReduceRead, ReduceCreate, ReduceClose,
       DoJobReply, Shutdown, mvars
  <2> QED BY <1>2, <2>1, <2>2, <2>3
<1>3. ASSUME NEW w \in Workers, ToReduce(w) \/ NoMoreJobs(w) PROVE UNCHANGED <<jobs, job>>
  BY <1>3 DEF ToReduce, NoMoreJobs, wvars
<1> QED BY <1>1, <1>2, <1>3 DEF Next, RunWorker

\* Only JobDone, MapDone and ReduceDone count one.
LEMMA CountsKept ==
  ASSUME Next
  PROVE  \/ \E w \in Workers : JobDone(w)
         \/ MapDone \/ ReduceDone
         \/ UNCHANGED <<done, count>>
<1>1. ASSUME Run PROVE MapDone \/ ReduceDone \/ UNCHANGED <<done, count>>
  BY <1>1 DEF Run, Split, KillWorkers, Killed, KillCall, KillReturn, Merge,
     CleanupRegistration, Finish, wvars
<1>2. ASSUME NEW w \in Workers, Start(w) \/ Loop(w) \/ Serve(w) \/ Registration(w)
      PROVE  UNCHANGED <<done, count>>
  BY <1>2 DEF Start, Registration, RegisterCall, RegisterRefused, MasterRegister, mvars, Loop, Serve
<1>3. ASSUME NEW w \in Workers, TakeJob(w) \/ JobFailed(w) \/ ToReduce(w) \/ NoMoreJobs(w)
      PROVE  UNCHANGED <<done, count>>
  BY <1>3 DEF TakeJob, JobFailed, ToReduce, NoMoreJobs
<1> QED BY <1>1, <1>2, <1>3 DEF Next, RunWorker

-----------------------------------------------------------------------------
(* Jobs and calls *)

\* HoldOK is about these variables only.
LEMMA HoldKept ==
  ASSUME HoldOK, UNCHANGED <<job, rw, wpc>>, \A w \in Workers : DoJobCall(w)' = DoJobCall(w)
  PROVE  HoldOK'
BY DEF HoldOK

LEMMA DoJobKept ==
  ASSUME WorkerAssumption, Types, NEW w \in Workers, NEW m \in Methods, NEW x,
         call' = [call EXCEPT ![<<w, m>>] = x]
  PROVE  /\ \A v \in Workers, n \in Methods : call'[<<v, n>>] = IF v = w /\ n = m THEN x ELSE call[<<v, n>>]
         /\ \A v \in Workers : DoJobCall(v)' = IF v = w /\ m = "DoJob" THEN x ELSE DoJobCall(v)
         /\ \A v \in Workers : ShutdownCall(v)' = IF v = w /\ m = "Shutdown" THEN x ELSE ShutdownCall(v)
<1>1. \A v \in Workers, n \in Methods : call'[<<v, n>>] = IF v = w /\ n = m THEN x ELSE call[<<v, n>>]
  BY DEF Types, WorkerTypeOK
<1> QED BY <1>1 DEF Methods, DoJobCall, ShutdownCall

LEMMA HoldLoop ==
  ASSUME WorkerAssumption, Types, HoldOK, NEW w \in Workers, Start(w) \/ Loop(w) \/ Registration(w)
  PROVE  HoldOK'
<1>k. ASSUME NEW m \in Methods, NEW x, call' = [call EXCEPT ![<<w, m>>] = x]
      PROVE  \A v \in Workers : DoJobCall(v)' = IF v = w /\ m = "DoJob" THEN x ELSE DoJobCall(v)
  BY <1>k, DoJobKept
<1> USE DEF Types, WorkerTypeOK
<1>1. CASE Start(w)
  BY <1>1 DEF Start, StartWorker, mvars, HoldOK, DoJobCall
<1>2. CASE (Registered(w) \/ Count(w)) /\ UNCHANGED mvars
  BY <1>2 DEF Registered, Count, mvars, HoldOK, DoJobCall
<1>3. CASE Check(w) /\ UNCHANGED mvars
  <2>1. \A v \in Workers : DoJobCall(v)' = "none" <=> DoJobCall(v) = "none"
    <3>1. CASE UNCHANGED call
      BY <3>1 DEF DoJobCall
    <3>2. CASE Hangup(w)
      <4>1. \A v \in Workers : <<v, "DoJob">> \in Workers \X Methods
        BY DEF Methods
      <4> QED BY <3>2, <4>1 DEF Hangup, DoJobCall
    <3> QED BY <1>3, <3>1, <3>2 DEF Check
  <2>2. UNCHANGED <<job, rw>>
    BY <1>3 DEF Check, mvars
  <2>3. \A v \in Workers : wpc'[v] \in {"off", "register", "registering"} => wpc[v] = wpc'[v]
    BY <1>3 DEF Check
  <2> QED BY <2>1, <2>2, <2>3 DEF HoldOK
<1>4. CASE Accept(w) /\ UNCHANGED mvars
  <2>1. PICK m \in Methods : call[<<w, m>>] = "dialled" /\ call' = [call EXCEPT ![<<w, m>>] = "serving"]
    BY <1>4 DEF Accept
  <2>2. \A v \in Workers : DoJobCall(v)' = "none" <=> DoJobCall(v) = "none"
    <3>1. m = "DoJob" => DoJobCall(w) = "dialled"
      BY <2>1 DEF DoJobCall
    <3>2. \A v \in Workers : DoJobCall(v)' = IF v = w /\ m = "DoJob" THEN "serving" ELSE DoJobCall(v)
      BY <2>1, <1>k
    <3> QED BY <3>1, <3>2
  <2>3. UNCHANGED <<job, rw>>
    BY <1>4 DEF Accept, mvars
  <2>4. \A v \in Workers : wpc'[v] \in {"off", "register", "registering"} => wpc[v] = wpc'[v]
    BY <1>4 DEF Accept
  <2> QED BY <2>2, <2>3, <2>4 DEF HoldOK
<1>6. CASE RegisterCall(w) \/ RegisterRefused(w)
  BY <1>6 DEF RegisterCall, RegisterRefused, mvars, HoldOK, DoJobCall
<1>7. CASE MasterRegister(w)
  <2>1. rw[w] = "off"
    BY <1>7 DEF MasterRegister, HoldOK
  <2>2. job[w] = NoJob
    <3>1. SUFFICES ASSUME job[w] # NoJob PROVE FALSE
      OBVIOUS
    <3>2. job[w] \in Job /\ rw[w] = job[w][1]
      BY <3>1 DEF HoldOK
    <3> QED BY <2>1, <3>2, JobFields DEF Phases
  <2> QED BY <1>7, <2>1, <2>2 DEF MasterRegister, HoldOK, DoJobCall
<1> QED BY <1>1, <1>2, <1>3, <1>4, <1>6, <1>7 DEF Loop, AcceptLoop, Registration

LEMMA HoldServe ==
  ASSUME WorkerAssumption, Types, HoldOK, NEW w \in Workers, Serve(w)
  PROVE  HoldOK'
<1>1. UNCHANGED <<job, rw, wpc>>
  BY DEF Serve, ServeConn, MapCreate, MapClose, ReduceRead, ReduceCreate, ReduceClose,
     DoJobReply, Shutdown, mvars
<1>2. CASE UNCHANGED call
  BY <1>1, <1>2, HoldKept DEF DoJobCall
<1>3. CASE DoJobReply(w)
  <2>1. call' = [call EXCEPT ![<<w, "DoJob">>] = "replied"] /\ DoJobCall(w) = "serving"
    BY <1>3 DEF DoJobReply, JobFinished, Serving, DoJobCall
  <2>2. \A v \in Workers : DoJobCall(v)' = "none" <=> DoJobCall(v) = "none"
    BY <2>1, DoJobKept DEF Methods
  <2> QED BY <1>1, <2>2 DEF HoldOK
<1>4. CASE Shutdown(w)
  <2>1. call' = [call EXCEPT ![<<w, "Shutdown">>] = "replied"]
    BY <1>4 DEF Shutdown
  <2>2. \A v \in Workers : DoJobCall(v)' = DoJobCall(v)
    BY <2>1, DoJobKept DEF Methods
  <2> QED BY <1>1, <2>2, HoldKept
<1> QED BY <1>2, <1>3, <1>4 DEF Serve, ServeConn, MapCreate, MapClose, ReduceRead, ReduceCreate, ReduceClose

LEMMA HoldMaster ==
  ASSUME WorkerAssumption, Types, HoldOK, NEW w \in Workers, RunWorker(w)
  PROVE  HoldOK'
<1>k. ASSUME NEW m \in Methods, NEW x, call' = [call EXCEPT ![<<w, m>>] = x]
      PROVE  \A v \in Workers : DoJobCall(v)' = IF v = w /\ m = "DoJob" THEN x ELSE DoJobCall(v)
  BY <1>k, DoJobKept
<1> USE DEF Types, WorkerTypeOK
<1>1. CASE TakeJob(w)
  <2>1. PICK p \in Phases : p = rw[w]
    BY <1>1 DEF TakeJob
  <2>2. PICK n \in Jobs(p) : n = Head(jobs[p])
    <3>1. jobs[p] # <<>> /\ jobs[p] \in Seq(Jobs(p))
      BY <1>1, <2>1 DEF TakeJob
    <3> QED BY <3>1
  <2>3. job' = [job EXCEPT ![w] = <<p, n>>] /\ UNCHANGED <<wpc, rw>>
    BY <1>1, <2>1, <2>2 DEF TakeJob
  <2>4. <<p, n>> # NoJob /\ <<p, n>>[1] = p
    BY DEF NoJob
  <2>5. /\ DoJobCall(w)' # "none"
        /\ \A v \in Workers : v # w => DoJobCall(v)' = DoJobCall(v)
    <3>1. PICK x \in {"dialled", "failed"} : call' = [call EXCEPT ![<<w, "DoJob">>] = x]
      BY <1>1 DEF TakeJob, Dial
    <3> QED BY <3>1, <1>k DEF Methods
  <2>6. \A v \in Workers : job'[v] = IF v = w THEN <<p, n>> ELSE job[v]
    BY <2>3
  <2> QED BY <2>1, <2>3, <2>4, <2>5, <2>6 DEF HoldOK
<1>2. CASE JobFailed(w) \/ JobDone(w)
  <2>1. call[<<w, "DoJob">>] # "none"
    BY <1>2 DEF JobFailed, JobDone
  <2>2. rw[w] \in Phases
    BY <2>1, Holding
  <2>3. wpc[w] \notin {"off", "register", "registering"}
    BY <2>2 DEF HoldOK, Phases
  <2>4. /\ job' = [job EXCEPT ![w] = NoJob] /\ call' = [call EXCEPT ![<<w, "DoJob">>] = "none"]
        /\ wpc' = wpc
    BY <1>2 DEF JobFailed, JobDone
  <2>5. \A v \in Workers : v # w => rw'[v] = rw[v]
    BY <1>2 DEF JobFailed, JobDone
  <2>6. \A v \in Workers : DoJobCall(v)' = IF v = w THEN "none" ELSE DoJobCall(v)
    BY <2>4, <1>k DEF Methods
  <2>7. \A v \in Workers : job'[v] = IF v = w THEN NoJob ELSE job[v]
    BY <2>4
  <2> QED BY <2>3, <2>4, <2>5, <2>6, <2>7 DEF HoldOK
<1>4. CASE ToReduce(w) \/ NoMoreJobs(w)
  <2>1. UNCHANGED <<job, call, wpc>> /\ job[w] = NoJob /\ rw[w] # "off"
    BY <1>4 DEF ToReduce, NoMoreJobs, wvars
  <2>2. \A v \in Workers : v # w => rw'[v] = rw[v]
    BY <1>4 DEF ToReduce, NoMoreJobs
  <2> QED BY <2>1, <2>2 DEF HoldOK, DoJobCall
<1> QED BY <1>1, <1>2, <1>4 DEF RunWorker

LEMMA HoldRun ==
  ASSUME WorkerAssumption, Types, HoldOK, Run
  PROVE  HoldOK'
<1>1. UNCHANGED <<job, rw, wpc>>
  BY DEF Run, Split, MapDone, ReduceDone, KillWorkers, Killed, KillCall, KillReturn, Merge,
     CleanupRegistration, Finish, wvars
<1>2. CASE UNCHANGED call
  BY <1>1, <1>2, HoldKept DEF DoJobCall
<1>3. ASSUME NEW w \in Workers, KillCall(w) \/ KillReturn(w) PROVE HoldOK'
  <2>1. PICK x : call' = [call EXCEPT ![<<w, "Shutdown">>] = x]
    BY <1>3 DEF KillCall, Dial, KillReturn
  <2>2. \A v \in Workers : DoJobCall(v)' = DoJobCall(v)
    BY <2>1, DoJobKept DEF Methods
  <2> QED BY <1>1, <2>2, HoldKept
<1> QED BY <1>2, <1>3 DEF Run, Split, MapDone, ReduceDone, KillWorkers, Killed, Merge,
           CleanupRegistration, Finish, wvars

LEMMA HoldNext == ASSUME WorkerAssumption, Inv, Next PROVE HoldOK'
BY HoldLoop, HoldServe, HoldMaster, HoldRun DEF Inv, Next

-----------------------------------------------------------------------------
(* Where the jobs are *)

LEMMA HeldFinite ==
  ASSUME WorkerAssumption, NEW p
  PROVE  IsFiniteSet(Held(p)) /\ Cardinality(Held(p)) \in Nat
<1>1. Held(p) \subseteq Workers
  BY DEF Held
<1> QED BY <1>1, FS_Subset, FS_CardinalityType DEF WorkerAssumption

\* What happens to the jobs when the goroutine of w takes, puts back or drops job n of phase p.
Takes(w, p, n) ==
  /\ p = rw[w] /\ job[w] = NoJob
  /\ \A v \in Workers : job'[v] = IF v = w THEN <<p, n>> ELSE job[v]
  /\ \A q \in Phases : q # p => jobs'[q] = jobs[q] /\ Queued(q)' = Queued(q)
  /\ Len(jobs'[p]) = Len(jobs[p]) - 1
  /\ \A i, j \in 1 .. Len(jobs'[p]) : jobs'[p][i] = jobs'[p][j] => i = j
  /\ Queued(p) = {n} \cup Queued(p)' /\ n \notin Queued(p)'

PutsBack(w, p, n) ==
  /\ p = rw[w] /\ job[w] = <<p, n>>
  /\ \A v \in Workers : job'[v] = IF v = w THEN NoJob ELSE job[v]
  /\ \A q \in Phases : q # p => jobs'[q] = jobs[q] /\ Queued(q)' = Queued(q)
  /\ Len(jobs'[p]) = Len(jobs[p]) + 1
  /\ \A i, j \in 1 .. Len(jobs'[p]) : jobs'[p][i] = jobs'[p][j] => i = j
  /\ Queued(p)' = Queued(p) \cup {n}

Drops(w, p, n) ==
  /\ p = rw[w] /\ job[w] = <<p, n>>
  /\ \A v \in Workers : job'[v] = IF v = w THEN NoJob ELSE job[v]
  /\ jobs' = jobs /\ count' = count
  /\ done' = [done EXCEPT ![p] = @ + 1]

\* A goroutine takes the job at the head of its phase's channel.
LEMMA Taken ==
  ASSUME WorkerAssumption, Types, PlaceOK, NEW w \in Workers, TakeJob(w)
  PROVE  \E p \in Phases : \E n \in Jobs(p) : Takes(w, p, n)
<1>1. PICK p \in Phases : p = rw[w]
  BY DEF TakeJob
<1>2. PICK s \in Seq(Jobs(p)) : s = jobs[p]
  BY DEF Types
<1>3. /\ s # <<>> /\ jobs' = [jobs EXCEPT ![p] = Tail(s)] /\ job[w] = NoJob
      /\ job' = [job EXCEPT ![w] = <<p, Head(s)>>]
  BY <1>1, <1>2 DEF TakeJob
<1>4. \A i, j \in 1 .. Len(s) : s[i] = s[j] => i = j
  BY <1>2 DEF PlaceOK
<1>5. /\ Head(s) \in Jobs(p) /\ Tail(s) \in Seq(Jobs(p)) /\ Len(Tail(s)) = Len(s) - 1
      /\ {s[i] : i \in 1 .. Len(s)} = {Head(s)} \cup {Tail(s)[i] : i \in 1 .. Len(Tail(s))}
      /\ Head(s) \notin {Tail(s)[i] : i \in 1 .. Len(Tail(s))}
      /\ \A i, j \in 1 .. Len(Tail(s)) : Tail(s)[i] = Tail(s)[j] => i = j
  BY <1>3, <1>4, QueueTail
<1>6. \A q \in Phases : jobs'[q] = IF q = p THEN Tail(s) ELSE jobs[q]
  BY <1>3, <1>5, JobsExcept
<1>7. \A v \in Workers : job'[v] = IF v = w THEN <<p, Head(s)>> ELSE job[v]
  BY <1>3 DEF Types, WorkerTypeOK
<1>8. \A q \in Phases : q # p => jobs'[q] = jobs[q] /\ Queued(q)' = Queued(q)
  BY <1>6 DEF Queued
<1>9. Queued(p) = {Head(s)} \cup Queued(p)' /\ Head(s) \notin Queued(p)'
  <2>1. Queued(p) = {s[i] : i \in 1 .. Len(s)}
    BY <1>2 DEF Queued
  <2>2. jobs'[p] = Tail(s)
    BY <1>6
  <2>3. Queued(p)' = {Tail(s)[i] : i \in 1 .. Len(Tail(s))}
    BY <2>2 DEF Queued
  <2> QED BY <1>5, <2>1, <2>3
<1>10. PICK n \in Jobs(p) : n = Head(s)
  BY <1>5
<1>11. jobs'[p] = Tail(s)
  BY <1>6
<1>12. /\ Len(jobs'[p]) = Len(jobs[p]) - 1
       /\ \A i, j \in 1 .. Len(jobs'[p]) : jobs'[p][i] = jobs'[p][j] => i = j
  BY <1>2, <1>5, <1>11
<1> QED BY <1>1, <1>3, <1>7, <1>8, <1>9, <1>10, <1>12 DEF Takes

\* A goroutine whose call failed puts its job back.
LEMMA PutBack ==
  ASSUME WorkerAssumption, Types, PlaceOK, HoldOK, NEW w \in Workers, JobFailed(w)
  PROVE  \E p \in Phases : \E n \in Jobs(p) : PutsBack(w, p, n)
<1>1. call[<<w, "DoJob">>] # "none"
  BY DEF JobFailed
<1>2. /\ job[w] \in Job /\ job[w] # NoJob /\ rw[w] = job[w][1] /\ rw[w] \in Phases
      /\ job[w][2] \in Jobs(rw[w])
  BY <1>1, Holding
<1>3. PICK p \in Phases : p = rw[w]
  BY <1>2
<1>4. PICK n \in Jobs(p) : n = job[w][2]
  BY <1>2, <1>3
<1>5. job[w] = <<p, n>>
  BY <1>2, <1>3, <1>4, JobFields
<1>6. PICK s \in Seq(Jobs(p)) : s = jobs[p]
  BY DEF Types
<1>7. jobs' = [jobs EXCEPT ![p] = Append(s, n)] /\ job' = [job EXCEPT ![w] = NoJob]
  BY <1>3, <1>4, <1>6 DEF JobFailed
<1>8. \A i, j \in 1 .. Len(s) : s[i] = s[j] => i = j
  BY <1>6 DEF PlaceOK
<1>9. n \notin {s[i] : i \in 1 .. Len(s)}
  <2>1. Queued(p) = {s[i] : i \in 1 .. Len(s)}
    BY <1>6 DEF Queued
  <2>2. n \notin Queued(p)
    BY <1>2, <1>3, <1>4 DEF PlaceOK
  <2> QED BY <2>1, <2>2
<1>10. /\ Append(s, n) \in Seq(Jobs(p)) /\ Len(Append(s, n)) = Len(s) + 1
       /\ {Append(s, n)[i] : i \in 1 .. Len(Append(s, n))} = {s[i] : i \in 1 .. Len(s)} \cup {n}
       /\ \A i, j \in 1 .. Len(Append(s, n)) : Append(s, n)[i] = Append(s, n)[j] => i = j
  BY <1>8, <1>9, QueueAppend
<1>11. \A q \in Phases : jobs'[q] = IF q = p THEN Append(s, n) ELSE jobs[q]
  BY <1>7, <1>10, JobsExcept
<1>12. \A v \in Workers : job'[v] = IF v = w THEN NoJob ELSE job[v]
  BY <1>7 DEF Types, WorkerTypeOK
<1>13. \A q \in Phases : q # p => jobs'[q] = jobs[q] /\ Queued(q)' = Queued(q)
  BY <1>11 DEF Queued
<1>14. jobs'[p] = Append(s, n)
  BY <1>11
<1>15. Queued(p)' = Queued(p) \cup {n}
  BY <1>6, <1>10, <1>14 DEF Queued
<1>16. /\ Len(jobs'[p]) = Len(jobs[p]) + 1
       /\ \A i, j \in 1 .. Len(jobs'[p]) : jobs'[p][i] = jobs'[p][j] => i = j
  BY <1>6, <1>10, <1>14
<1> QED BY <1>3, <1>5, <1>12, <1>13, <1>15, <1>16 DEF PutsBack

\* A goroutine whose call returned drops its job.
LEMMA Dropped ==
  ASSUME WorkerAssumption, Types, HoldOK, NEW w \in Workers, JobDone(w)
  PROVE  \E p \in Phases : \E n \in Jobs(p) : Drops(w, p, n)
<1>1. call[<<w, "DoJob">>] # "none"
  BY DEF JobDone
<1>2. /\ job[w] \in Job /\ job[w] # NoJob /\ rw[w] = job[w][1] /\ rw[w] \in Phases
      /\ job[w][2] \in Jobs(rw[w])
  BY <1>1, Holding
<1>3. PICK p \in Phases : p = rw[w]
  BY <1>2
<1>4. PICK n \in Jobs(p) : n = job[w][2]
  BY <1>2, <1>3
<1>5. job[w] = <<p, n>>
  BY <1>2, <1>3, <1>4, JobFields
<1>6. job' = [job EXCEPT ![w] = NoJob] /\ jobs' = jobs /\ count' = count /\ done' = [done EXCEPT ![p] = @ + 1]
  BY <1>3 DEF JobDone
<1>7. \A v \in Workers : job'[v] = IF v = w THEN NoJob ELSE job[v]
  BY <1>6 DEF Types, WorkerTypeOK
<1> QED BY <1>3, <1>5, <1>6, <1>7 DEF Drops

\* The set of goroutines that hold a job of a phase, when one takes or loses a job.
LEMMA HeldMore ==
  ASSUME WorkerAssumption, NEW w \in Workers, NEW p \in Phases, NEW n, job[w] = NoJob,
         \A v \in Workers : job'[v] = IF v = w THEN <<p, n>> ELSE job[v]
  PROVE  /\ Cardinality(Held(p)') = Cardinality(Held(p)) + 1
         /\ \A q \in Phases : q # p => Held(q)' = Held(q)
<1>1. <<p, n>> # NoJob /\ <<p, n>>[1] = p
  BY DEF NoJob
<1>2. Held(p)' = Held(p) \cup {w} /\ w \notin Held(p)
  BY <1>1 DEF Held
<1>3. \A q \in Phases : q # p => Held(q)' = Held(q)
  BY <1>1 DEF Held
<1> QED BY <1>2, <1>3, HeldFinite, FS_AddElement

LEMMA HeldLess ==
  ASSUME WorkerAssumption, NEW w \in Workers, NEW p \in Phases, NEW n, job[w] = <<p, n>>,
         \A v \in Workers : job'[v] = IF v = w THEN NoJob ELSE job[v]
  PROVE  /\ Cardinality(Held(p)') = Cardinality(Held(p)) - 1
         /\ \A q \in Phases : q # p => Held(q)' = Held(q)
<1>1. <<p, n>> # NoJob /\ <<p, n>>[1] = p
  BY DEF NoJob
<1>2. Held(p)' = Held(p) \ {w} /\ w \in Held(p)
  BY <1>1 DEF Held
<1>3. \A q \in Phases : q # p => Held(q)' = Held(q)
  BY <1>1 DEF Held
<1> QED BY <1>2, <1>3, HeldFinite, FS_RemoveElement

LEMMA PlaceNext == ASSUME WorkerAssumption, Inv, Next PROVE PlaceOK'
<1> USE DEF Inv
<1>j. \A v \in Workers : job[v] # NoJob => job[v] \in Job /\ job[v][1] \in Phases /\ job[v] = <<job[v][1], job[v][2]>>
  BY JobFields DEF Types, WorkerTypeOK
<1>1. ASSUME NEW w \in Workers, TakeJob(w) PROVE PlaceOK'
  <2>1. PICK p \in Phases : \E n \in Jobs(p) : Takes(w, p, n)
    BY <1>1, Taken
  <2>2. PICK n \in Jobs(p) :
           /\ \A v \in Workers : job'[v] = IF v = w THEN <<p, n>> ELSE job[v]
           /\ \A q \in Phases : q # p => jobs'[q] = jobs[q] /\ Queued(q)' = Queued(q)
           /\ \A i, j \in 1 .. Len(jobs'[p]) : jobs'[p][i] = jobs'[p][j] => i = j
           /\ Queued(p) = {n} \cup Queued(p)' /\ n \notin Queued(p)'
    BY <2>1 DEF Takes, PutsBack
  <2>3. \A q \in Phases : \A i, j \in 1 .. Len(jobs'[q]) : jobs'[q][i] = jobs'[q][j] => i = j
    BY <2>2 DEF PlaceOK
  <2>4. \A v \in Workers : job[v] # <<p, n>>
    <3> SUFFICES ASSUME NEW v \in Workers, job[v] = <<p, n>> PROVE FALSE
      OBVIOUS
    <3>1. <<p, n>> # NoJob /\ <<p, n>>[1] = p /\ <<p, n>>[2] = n
      BY DEF NoJob
    <3> QED BY <2>2, <3>1 DEF PlaceOK
  <2>5. \A u, v \in Workers : job'[u] = job'[v] /\ job'[u] # NoJob => u = v
    BY <2>2, <2>4 DEF PlaceOK
  <2>6. \A v \in Workers, q \in Phases : job'[v] # NoJob /\ job'[v][1] = q => job'[v][2] \notin Queued(q)'
    <3>1. Queued(p)' \subseteq Queued(p)
      BY <2>2
    <3>2. \A q \in Phases : Queued(q)' \subseteq Queued(q)
      BY <2>2, <3>1
    <3>3. <<p, n>>[1] = p /\ <<p, n>>[2] = n
      OBVIOUS
    <3>4. \A v \in Workers, q \in Phases : v # w /\ job[v] # NoJob /\ job[v][1] = q => job[v][2] \notin Queued(q)'
      BY <3>2 DEF PlaceOK
    <3> QED BY <2>2, <3>3, <3>4
  <2> QED BY <2>3, <2>5, <2>6 DEF PlaceOK
<1>2. ASSUME NEW w \in Workers, JobFailed(w) PROVE PlaceOK'
  <2>1. PICK p \in Phases : \E n \in Jobs(p) : PutsBack(w, p, n)
    BY <1>2, PutBack
  <2>2. PICK n \in Jobs(p) :
           /\ job[w] = <<p, n>>
           /\ \A v \in Workers : job'[v] = IF v = w THEN NoJob ELSE job[v]
           /\ \A q \in Phases : q # p => jobs'[q] = jobs[q] /\ Queued(q)' = Queued(q)
           /\ \A i, j \in 1 .. Len(jobs'[p]) : jobs'[p][i] = jobs'[p][j] => i = j
           /\ Queued(p)' = Queued(p) \cup {n}
    BY <2>1 DEF Takes, PutsBack
  <2>3. \A q \in Phases : \A i, j \in 1 .. Len(jobs'[q]) : jobs'[q][i] = jobs'[q][j] => i = j
    BY <2>2 DEF PlaceOK
  <2>4. \A u, v \in Workers : job'[u] = job'[v] /\ job'[u] # NoJob => u = v
    BY <2>2 DEF PlaceOK
  <2>5. ASSUME NEW v \in Workers, NEW q \in Phases, job'[v] # NoJob, job'[v][1] = q
        PROVE  job'[v][2] \notin Queued(q)'
    <3>1. v # w /\ job'[v] = job[v]
      BY <2>2, <2>5
    <3>2. job[v] # <<p, n>>
      BY <2>2, <2>5, <3>1 DEF PlaceOK
    <3>3. job[v][1] = q /\ job[v][2] \notin Queued(q)
      BY <2>5, <3>1 DEF PlaceOK
    <3>4. CASE q = p
      <4>1. job[v][2] # n
        BY <1>j, <2>5, <3>1, <3>2, <3>3, <3>4
      <4> QED BY <2>2, <3>1, <3>3, <3>4, <4>1
    <3>5. CASE q # p
      BY <2>2, <3>1, <3>3, <3>5
    <3> QED BY <3>4, <3>5
  <2> QED BY <2>3, <2>4, <2>5 DEF PlaceOK
<1>3. ASSUME NEW w \in Workers, JobDone(w) PROVE PlaceOK'
  <2>1. jobs' = jobs /\ \A v \in Workers : job'[v] = IF v = w THEN NoJob ELSE job[v]
    BY <1>3, Dropped DEF Drops
  <2>2. \A q : Queued(q)' = Queued(q)
    BY <2>1 DEF Queued
  <2> QED BY <2>1, <2>2 DEF PlaceOK
<1>4. CASE UNCHANGED <<jobs, job>>
  BY <1>4 DEF PlaceOK, Queued
<1> QED BY <1>1, <1>2, <1>3, <1>4, JobsKept

LEMMA CountNext == ASSUME WorkerAssumption, Inv, Next PROVE CountOK'
<1> USE DEF Inv
<1>n. \A p \in Phases : /\ Cardinality(Held(p)) \in Nat /\ Len(jobs[p]) \in Nat
                        /\ done[p] \in Nat /\ count[p] \in Nat /\ Total[p] \in Nat
  BY HeldFinite, Totals DEF Types
<1>p. "Map" \in Phases /\ "Reduce" \in Phases
  BY DEF Phases
<1>0. ASSUME UNCHANGED <<jobs, job>> PROVE \A p \in Phases : Held(p)' = Held(p) /\ jobs'[p] = jobs[p]
  BY <1>0 DEF Held
<1>1. ASSUME NEW w \in Workers, TakeJob(w) PROVE CountOK'
  <2>1. PICK p \in Phases : \E n \in Jobs(p) : Takes(w, p, n)
    BY <1>1, Taken
  <2>n. PICK n \in Jobs(p) : Takes(w, p, n)
    BY <2>1
  <2>j. /\ Len(jobs'[p]) = Len(jobs[p]) - 1 /\ done'[p] = done[p] /\ count'[p] = count[p]
        /\ \A q \in Phases : q # p => jobs'[q] = jobs[q]
    BY <1>1, <2>n DEF Takes, TakeJob
  <2>2. /\ Cardinality(Held(p)') = Cardinality(Held(p)) + 1
        /\ \A q \in Phases : q # p => Held(q)' = Held(q)
    BY <2>n, HeldMore DEF Takes
  <2>3. UNCHANGED <<done, count>>
    BY <1>1 DEF TakeJob
  <2>4. ASSUME NEW q \in Phases
        PROVE  Len(jobs'[q]) + Cardinality(Held(q)') + done'[q] + count'[q] = Total[q]
    <3>1. CASE q = p
      <4>1. Len(jobs[p]) + Cardinality(Held(p)) + done[p] + count[p] = Total[p]
        BY DEF CountOK
      <4>2. Len(jobs'[p]) + Cardinality(Held(p)') + done'[p] + count'[p] = Total[p]
        <5>1. PICK a \in Nat : a = Len(jobs[p])
          BY <1>n
        <5>2. PICK h \in Nat : h = Cardinality(Held(p))
          BY <1>n
        <5>3. PICK c \in Nat : c = done[p]
          BY <1>n
        <5>4. PICK d \in Nat : d = count[p]
          BY <1>n
        <5>5. PICK t \in Nat : t = Total[p]
          BY <1>n
        <5>6. a + h + c + d = t
          BY <4>1, <5>1, <5>2, <5>3, <5>4, <5>5
        <5> QED BY <2>2, <2>j, <5>1, <5>2, <5>3, <5>4, <5>5, <5>6
      <4> QED BY <3>1, <4>2
    <3>2. CASE q # p
      BY <2>2, <2>3, <2>j, <3>2 DEF CountOK
    <3> QED BY <3>1, <3>2
  <2> QED BY <2>4 DEF CountOK
<1>2. ASSUME NEW w \in Workers, JobFailed(w) PROVE CountOK'
  <2>1. PICK p \in Phases : \E n \in Jobs(p) : PutsBack(w, p, n)
    BY <1>2, PutBack
  <2>n. PICK n \in Jobs(p) : PutsBack(w, p, n)
    BY <2>1
  <2>j. /\ Len(jobs'[p]) = Len(jobs[p]) + 1 /\ done'[p] = done[p] /\ count'[p] = count[p]
        /\ \A q \in Phases : q # p => jobs'[q] = jobs[q]
    BY <1>2, <2>n DEF PutsBack, JobFailed
  <2>2. /\ Cardinality(Held(p)') = Cardinality(Held(p)) - 1
        /\ \A q \in Phases : q # p => Held(q)' = Held(q)
    BY <2>n, HeldLess DEF PutsBack, Drops
  <2>3. UNCHANGED <<done, count>>
    BY <1>2 DEF JobFailed
  <2>4. ASSUME NEW q \in Phases
        PROVE  Len(jobs'[q]) + Cardinality(Held(q)') + done'[q] + count'[q] = Total[q]
    <3>1. CASE q = p
      <4>1. Len(jobs[p]) + Cardinality(Held(p)) + done[p] + count[p] = Total[p]
        BY DEF CountOK
      <4>2. Len(jobs'[p]) + Cardinality(Held(p)') + done'[p] + count'[p] = Total[p]
        <5>1. PICK a \in Nat : a = Len(jobs[p])
          BY <1>n
        <5>2. PICK h \in Nat : h = Cardinality(Held(p))
          BY <1>n
        <5>3. PICK c \in Nat : c = done[p]
          BY <1>n
        <5>4. PICK d \in Nat : d = count[p]
          BY <1>n
        <5>5. PICK t \in Nat : t = Total[p]
          BY <1>n
        <5>6. a + h + c + d = t
          BY <4>1, <5>1, <5>2, <5>3, <5>4, <5>5
        <5> QED BY <2>2, <2>j, <5>1, <5>2, <5>3, <5>4, <5>5, <5>6
      <4> QED BY <3>1, <4>2
    <3>2. CASE q # p
      BY <2>2, <2>3, <2>j, <3>2 DEF CountOK
    <3> QED BY <3>1, <3>2
  <2> QED BY <2>4 DEF CountOK
<1>3. ASSUME NEW w \in Workers, JobDone(w) PROVE CountOK'
  <2>1. PICK p \in Phases : \E n \in Jobs(p) : Drops(w, p, n)
    BY <1>3, Dropped
  <2>n. PICK n \in Jobs(p) : Drops(w, p, n)
    BY <2>1
  <2>j. /\ jobs' = jobs /\ done'[p] = done[p] + 1 /\ count' = count
    BY <2>n DEF Drops, Types
  <2>2. /\ Cardinality(Held(p)') = Cardinality(Held(p)) - 1
        /\ \A q \in Phases : q # p => Held(q)' = Held(q)
    BY <2>n, HeldLess DEF PutsBack, Drops
  <2>3. \A q \in Phases : done'[q] = IF q = p THEN done[q] + 1 ELSE done[q]
    BY <2>n DEF Drops, Types
  <2>4. ASSUME NEW q \in Phases
        PROVE  Len(jobs'[q]) + Cardinality(Held(q)') + done'[q] + count'[q] = Total[q]
    <3>1. CASE q = p
      <4>1. Len(jobs[p]) + Cardinality(Held(p)) + done[p] + count[p] = Total[p]
        BY DEF CountOK
      <4>2. Len(jobs'[p]) + Cardinality(Held(p)') + done'[p] + count'[p] = Total[p]
        <5>1. PICK a \in Nat : a = Len(jobs[p])
          BY <1>n
        <5>2. PICK h \in Nat : h = Cardinality(Held(p))
          BY <1>n
        <5>3. PICK c \in Nat : c = done[p]
          BY <1>n
        <5>4. PICK d \in Nat : d = count[p]
          BY <1>n
        <5>5. PICK t \in Nat : t = Total[p]
          BY <1>n
        <5>6. a + h + c + d = t
          BY <4>1, <5>1, <5>2, <5>3, <5>4, <5>5
        <5>7. Len(jobs'[p]) = a /\ Cardinality(Held(p)') = h - 1 /\ done'[p] = c + 1 /\ count'[p] = d
          BY <2>2, <2>j, <5>1, <5>2, <5>3, <5>4
        <5> QED BY <5>5, <5>6, <5>7
      <4> QED BY <3>1, <4>2
    <3>2. CASE q # p
      BY <2>2, <2>3, <2>j, <3>2 DEF CountOK
    <3> QED BY <3>1, <3>2
  <2> QED BY <2>4 DEF CountOK
<1>4. ASSUME MapDone \/ ReduceDone PROVE CountOK'
  <2>1. PICK p \in Phases : /\ done[p] > 0 /\ done' = [done EXCEPT ![p] = @ - 1]
                            /\ count' = [count EXCEPT ![p] = @ + 1]
    BY <1>4, <1>p DEF MapDone, ReduceDone
  <2>2. /\ \A q \in Phases : q # p => done'[q] = done[q] /\ count'[q] = count[q]
        /\ done'[p] = done[p] - 1 /\ count'[p] = count[p] + 1
    BY <2>1, CountOne
  <2>3. UNCHANGED <<jobs, job>>
    BY <1>4 DEF MapDone, ReduceDone, wvars
  <2>4. ASSUME NEW q \in Phases
        PROVE  Len(jobs'[q]) + Cardinality(Held(q)') + done'[q] + count'[q] = Total[q]
    <3>1. Held(q)' = Held(q) /\ jobs'[q] = jobs[q]
      BY <1>0, <2>3
    <3>2. CASE q = p
      <4>1. Len(jobs[p]) + Cardinality(Held(p)) + done[p] + count[p] = Total[p]
        BY DEF CountOK
      <4>2. Len(jobs'[p]) + Cardinality(Held(p)') + done'[p] + count'[p] = Total[p]
        <5>1. PICK a \in Nat : a = Len(jobs[p])
          BY <1>n
        <5>2. PICK h \in Nat : h = Cardinality(Held(p))
          BY <1>n
        <5>3. PICK c \in Nat : c = done[p]
          BY <1>n
        <5>4. PICK d \in Nat : d = count[p]
          BY <1>n
        <5>5. PICK t \in Nat : t = Total[p]
          BY <1>n
        <5>6. a + h + c + d = t
          BY <4>1, <5>1, <5>2, <5>3, <5>4, <5>5
        <5>7. jobs'[p] = jobs[p] /\ Held(p)' = Held(p)
          BY <1>0, <2>3
        <5>8. Len(jobs'[p]) = a /\ Cardinality(Held(p)') = h /\ done'[p] = c - 1 /\ count'[p] = d + 1
          BY <2>2, <5>1, <5>2, <5>3, <5>4, <5>7
        <5> QED BY <5>5, <5>6, <5>8
      <4> QED BY <3>2, <4>2
    <3>3. CASE q # p
      BY <1>n, <2>2, <3>1, <3>3 DEF CountOK
    <3> QED BY <3>2, <3>3
  <2> QED BY <2>4 DEF CountOK
<1>5. CASE UNCHANGED <<jobs, job>> /\ UNCHANGED <<done, count>>
  BY <1>0, <1>5 DEF CountOK
<1> QED BY <1>1, <1>2, <1>3, <1>4, <1>5, JobsKept, CountsKept

-----------------------------------------------------------------------------
(* The phases *)

\* When all jobs of a phase are counted, none is waiting, held or reported.
LEMMA AllCounted ==
  ASSUME WorkerAssumption, Types, CountOK, NEW p \in Phases, count[p] >= Total[p]
  PROVE  /\ count[p] = Total[p] /\ done[p] = 0 /\ jobs[p] = <<>> /\ Held(p) = {} /\ Queued(p) = {}
<1>1. PICK a \in Nat : a = Len(jobs[p])
  BY DEF Types
<1>2. PICK h \in Nat : h = Cardinality(Held(p))
  BY HeldFinite
<1>3. PICK c \in Nat : c = done[p]
  BY DEF Types
<1>4. PICK d \in Nat : d = count[p]
  BY DEF Types
<1>5. PICK t \in Nat : t = Total[p]
  BY Totals
<1>6. a + h + c + d = t /\ d >= t
  BY <1>1, <1>2, <1>3, <1>4, <1>5 DEF CountOK
<1>7. a = 0 /\ h = 0 /\ c = 0 /\ d = t
  BY <1>6
<1>8. Held(p) = {}
  BY <1>2, <1>7, HeldFinite, FS_EmptySet
<1>9. jobs[p] = <<>> /\ Queued(p) = {}
  <2>1. PICK s \in Seq(Nat) : s = jobs[p]
    BY DEF Types
  <2>2. Len(s) = 0
    BY <1>1, <1>7, <2>1
  <2>3. s = <<>>
    BY <2>2
  <2>4. Queued(p) = {s[i] : i \in 1 .. 0}
    BY <2>1, <2>2 DEF Queued
  <2>5. \A i \in 1 .. 0 : FALSE
    OBVIOUS
  <2> QED BY <2>1, <2>3, <2>4, <2>5
<1> QED BY <1>3, <1>4, <1>5, <1>7, <1>8, <1>9

LEMMA PhaseNext == ASSUME WorkerAssumption, Inv, Next PROVE PhaseOK'
<1> USE DEF Inv
<1>p. "Map" \in Phases /\ "Reduce" \in Phases /\ Total["Map"] = nMap /\ Total["Reduce"] = nReduce
  BY Totals DEF Phases
<1>1. ASSUME NEW w \in Workers, Start(w) \/ Loop(w) \/ Serve(w) PROVE PhaseOK'
  BY <1>1 DEF Start, Loop, Serve, mvars, PhaseOK
<1>2. ASSUME NEW w \in Workers, Registration(w) PROVE PhaseOK'
  <2>1. CASE RegisterCall(w) \/ RegisterRefused(w)
    BY <2>1 DEF RegisterCall, RegisterRefused, mvars, PhaseOK
  <2>2. CASE MasterRegister(w)
    <3>1. \A v \in Workers : rw'[v] = "Reduce" => rw[v] = "Reduce"
      BY <2>2 DEF MasterRegister, Types
    <3> QED BY <2>2, <3>1 DEF MasterRegister, PhaseOK
  <2> QED BY <1>2, <2>1, <2>2 DEF Registration
<1>3. ASSUME NEW w \in Workers, TakeJob(w) \/ JobFailed(w) \/ ToReduce(w) \/ NoMoreJobs(w) PROVE PhaseOK'
  <2>1. UNCHANGED <<mpc, done, count, reduceStart>>
    BY <1>3 DEF TakeJob, JobFailed, ToReduce, NoMoreJobs
  <2>2. \A v \in Workers : rw'[v] = "Reduce" => rw[v] = "Reduce" \/ reduceStart
    BY <1>3 DEF TakeJob, JobFailed, ToReduce, NoMoreJobs, Types
  <2> QED BY <2>1, <2>2 DEF PhaseOK
<1>4. ASSUME NEW w \in Workers, JobDone(w) PROVE PhaseOK'
  <2>1. PICK p \in Phases : \E n \in Jobs(p) : Drops(w, p, n)
    BY <1>4, Dropped
  <2>2. p = rw[w] /\ count' = count /\ done' = [done EXCEPT ![p] = @ + 1]
    BY <2>1 DEF Drops
  <2>3. UNCHANGED <<mpc, reduceStart, rw>>
    BY <1>4 DEF JobDone
  <2>4. CASE p = "Reduce"
    BY <2>2, <2>3, <2>4 DEF PhaseOK
  <2>5. CASE p # "Reduce"
    <3>1. done'["Reduce"] = done["Reduce"]
      BY <1>p, <2>2, <2>5 DEF Types
    <3> QED BY <2>2, <2>3, <3>1 DEF PhaseOK
  <2> QED BY <2>4, <2>5
<1>5. CASE MapDone
  <2>1. /\ done'["Reduce"] = done["Reduce"] /\ count'["Reduce"] = count["Reduce"]
        /\ count'["Map"] = count["Map"] + 1
    BY <1>p, <1>5, CountOne DEF MapDone
  <2>2. count["Map"] # nMap
    <3>1. SUFFICES ASSUME count["Map"] = nMap PROVE FALSE
      OBVIOUS
    <3>2. count["Map"] >= Total["Map"]
      BY <1>p, <3>1 DEF WorkerAssumption
    <3>3. done["Map"] = 0
      BY <1>p, <3>2, AllCounted
    <3> QED BY <1>5, <3>3 DEF MapDone
  <2>3. ~reduceStart
    BY <2>2 DEF PhaseOK
  <2>4. mpc = "run" /\ UNCHANGED <<mpc, rw>> /\ reduceStart' = (reduceStart \/ count["Map"] + 1 = nMap)
    BY <1>5 DEF MapDone
  <2>5. reduceStart' => count'["Map"] = nMap
    BY <2>1, <2>3, <2>4
  <2>6. \A v \in Workers : rw'[v] = "Reduce" => reduceStart'
    BY <2>3, <2>4 DEF PhaseOK
  <2>7. done'["Reduce"] + count'["Reduce"] > 0 => reduceStart'
    BY <2>1, <2>3 DEF PhaseOK
  <2> QED BY <2>4, <2>5, <2>6, <2>7 DEF PhaseOK
<1>6. CASE ReduceDone
  <2>1. /\ count'["Map"] = count["Map"]
        /\ done'["Reduce"] = done["Reduce"] - 1 /\ count'["Reduce"] = count["Reduce"] + 1
    BY <1>p, <1>6, CountOne DEF ReduceDone
  <2>2. done["Reduce"] \in Nat /\ count["Reduce"] \in Nat /\ done["Reduce"] > 0
    BY <1>p, <1>6 DEF Types, ReduceDone
  <2>3. reduceStart /\ UNCHANGED <<reduceStart, rw>>
    BY <1>6, <2>2 DEF PhaseOK, ReduceDone
  <2>4. mpc' \notin {"split", "run"} => count["Reduce"] + 1 = nReduce
    BY <1>6 DEF ReduceDone
  <2> QED BY <2>1, <2>3, <2>4 DEF PhaseOK
<1>7. CASE Split \/ Killed \/ Merge \/ CleanupRegistration \/ Finish
  BY <1>7 DEF Split, Killed, Merge, CleanupRegistration, Finish, PhaseOK
<1>8. ASSUME NEW w \in Workers, KillCall(w) \/ KillReturn(w) PROVE PhaseOK'
  BY <1>8 DEF KillCall, KillReturn, PhaseOK
<1> QED BY <1>1, <1>2, <1>3, <1>4, <1>5, <1>6, <1>7, <1>8 DEF Next, RunWorker, Run, KillWorkers

-----------------------------------------------------------------------------
(* Shutting the workers down *)

LEMMA KillKept ==
  ASSUME KillOK, UNCHANGED <<mpc, toKill>>,
         \A w \in Workers : ShutdownCall(w)' = ShutdownCall(w),
         \A w \in Workers : nJobs[w] >= 0 => nJobs'[w] >= 0
  PROVE  KillOK'
BY DEF KillOK

LEMMA KillLoop ==
  ASSUME WorkerAssumption, Types, KillOK, NEW w \in Workers, Start(w) \/ Loop(w) \/ Registration(w)
  PROVE  KillOK'
<1>m. UNCHANGED <<mpc, toKill>>
  BY DEF Start, Loop, Registration, RegisterCall, RegisterRefused, MasterRegister, mvars
<1>1. CASE Start(w) \/ Registration(w)
  <2>1. UNCHANGED <<call, nJobs>>
    BY <1>1 DEF Start, StartWorker, Registration, RegisterCall, RegisterRefused, MasterRegister
  <2> QED BY <1>m, <2>1, KillKept DEF ShutdownCall
<1>2. CASE Registered(w)
  BY <1>m, <1>2, KillKept DEF ShutdownCall, Registered
<1>3. CASE Count(w)
  <2>1. \A v \in Workers : nJobs[v] >= 0 => nJobs'[v] >= 0
    <3>1. \A v \in Workers : nJobs'[v] = IF v = w THEN nJobs[v] + 1 ELSE nJobs[v]
      BY <1>3 DEF Count, Types, WorkerTypeOK
    <3>2. \A v \in Workers : nJobs[v] \in Int
      BY DEF Types, WorkerTypeOK
    <3> QED BY <3>1, <3>2
  <2> QED BY <1>m, <1>3, <2>1, KillKept DEF ShutdownCall, Count
<1>4. CASE Check(w)
  <2>1. \A v \in Workers : /\ ShutdownCall(v)' = "none" <=> ShutdownCall(v) = "none"
                           /\ ShutdownCall(v)' \in {"dialled", "serving"}
                              => ShutdownCall(v) \in {"dialled", "serving"}
    <3>1. CASE UNCHANGED call
      BY <3>1 DEF ShutdownCall
    <3>2. CASE Hangup(w)
      <4>1. \A v \in Workers : <<v, "Shutdown">> \in Workers \X Methods
        BY DEF Methods
      <4> QED BY <3>2, <4>1 DEF Hangup, ShutdownCall
    <3> QED BY <1>4, <3>1, <3>2 DEF Check
  <2>2. UNCHANGED nJobs
    BY <1>4 DEF Check
  <2> QED BY <1>m, <2>1, <2>2 DEF KillOK
<1>5. CASE Accept(w)
  <2>1. PICK m \in Methods : call[<<w, m>>] = "dialled" /\ call' = [call EXCEPT ![<<w, m>>] = "serving"]
    BY <1>5 DEF Accept
  <2>2. \A v \in Workers : ShutdownCall(v)' = IF v = w /\ m = "Shutdown" THEN "serving" ELSE ShutdownCall(v)
    BY <2>1, DoJobKept
  <2>3. \A v \in Workers : /\ ShutdownCall(v)' = "none" <=> ShutdownCall(v) = "none"
                           /\ ShutdownCall(v)' \in {"dialled", "serving"}
                              => ShutdownCall(v) \in {"dialled", "serving"}
    <3>1. m = "Shutdown" => ShutdownCall(w) = "dialled"
      BY <2>1 DEF ShutdownCall
    <3> QED BY <2>2, <3>1
  <2>4. UNCHANGED nJobs
    BY <1>5 DEF Accept
  <2> QED BY <1>m, <2>3, <2>4 DEF KillOK
<1> QED BY <1>1, <1>2, <1>3, <1>4, <1>5 DEF Loop, AcceptLoop

LEMMA KillServe ==
  ASSUME WorkerAssumption, Types, KillOK, NEW w \in Workers, Serve(w)
  PROVE  KillOK'
<1>m. UNCHANGED <<mpc, toKill>>
  BY DEF Serve, mvars
<1>1. CASE UNCHANGED <<call, nJobs>>
  BY <1>m, <1>1, KillKept DEF ShutdownCall
<1>2. CASE DoJobReply(w)
  <2>1. call' = [call EXCEPT ![<<w, "DoJob">>] = "replied"] /\ UNCHANGED nJobs
    BY <1>2 DEF DoJobReply
  <2>2. \A v \in Workers : ShutdownCall(v)' = ShutdownCall(v)
    BY <2>1, DoJobKept DEF Methods
  <2> QED BY <1>m, <2>1, <2>2, KillKept DEF ShutdownCall
<1>3. CASE Shutdown(w)
  <2>1. call' = [call EXCEPT ![<<w, "Shutdown">>] = "replied"] /\ ShutdownCall(w) = "serving"
    BY <1>3 DEF Shutdown, ShutdownCall
  <2>2. \A v \in Workers : ShutdownCall(v)' = IF v = w THEN "replied" ELSE ShutdownCall(v)
    BY <2>1, DoJobKept DEF Methods
  <2>3. mpc \notin {"split", "run"} /\ w \notin toKill
    BY <2>1 DEF KillOK
  <2>4. \A v \in Workers : v # w => nJobs'[v] = nJobs[v]
    BY <1>3 DEF Shutdown, Types, WorkerTypeOK
  <2> QED BY <1>m, <2>1, <2>2, <2>3, <2>4 DEF KillOK
<1> QED BY <1>1, <1>2, <1>3 DEF Serve, ServeConn, MapCreate, MapClose, ReduceRead, ReduceCreate, ReduceClose

LEMMA KillMaster ==
  ASSUME WorkerAssumption, Types, KillOK, NEW w \in Workers, RunWorker(w)
  PROVE  KillOK'
<1>1. UNCHANGED <<mpc, toKill, nJobs>>
  BY DEF RunWorker, TakeJob, JobFailed, JobDone, ToReduce, NoMoreJobs, wvars
<1>2. CASE UNCHANGED call
  BY <1>1, <1>2, KillKept DEF ShutdownCall
<1>3. CASE TakeJob(w) \/ JobFailed(w) \/ JobDone(w)
  <2>1. PICK x : call' = [call EXCEPT ![<<w, "DoJob">>] = x]
    BY <1>3 DEF TakeJob, Dial, JobFailed, JobDone
  <2>2. \A v \in Workers : ShutdownCall(v)' = ShutdownCall(v)
    BY <2>1, DoJobKept DEF Methods
  <2> QED BY <1>1, <2>2, KillKept DEF ShutdownCall
<1> QED BY <1>2, <1>3 DEF RunWorker, ToReduce, NoMoreJobs, wvars

LEMMA KillRun ==
  ASSUME WorkerAssumption, Types, KillOK, Run
  PROVE  KillOK'
<1>1. CASE Split \/ MapDone
  BY <1>1 DEF Split, MapDone, wvars, KillOK, ShutdownCall
<1>2. CASE ReduceDone
  <2>1. mpc = "run" /\ UNCHANGED <<call, nJobs>>
    BY <1>2 DEF ReduceDone, wvars
  <2>2. UNCHANGED <<mpc, toKill>> \/ mpc' = "kill"
    BY <1>2 DEF ReduceDone
  <2> QED BY <2>1, <2>2 DEF KillOK, ShutdownCall
<1>3. ASSUME NEW w \in Workers, KillCall(w) PROVE KillOK'
  <2>1. PICK x : call' = [call EXCEPT ![<<w, "Shutdown">>] = x]
    BY <1>3 DEF KillCall, Dial
  <2>2. \A v \in Workers : ShutdownCall(v)' = IF v = w THEN x ELSE ShutdownCall(v)
    BY <2>1, DoJobKept DEF Methods
  <2>3. mpc = "kill" /\ mpc' = "kill" /\ w \in toKill /\ toKill' = toKill \ {w} /\ UNCHANGED nJobs
    BY <1>3 DEF KillCall
  <2>4. nJobs[w] >= 0
    BY <2>3 DEF KillOK
  <2> QED BY <2>2, <2>3, <2>4 DEF KillOK
<1>4. ASSUME NEW w \in Workers, KillReturn(w) PROVE KillOK'
  <2>1. call' = [call EXCEPT ![<<w, "Shutdown">>] = "none"] /\ ShutdownCall(w) # "none"
    BY <1>4 DEF KillReturn, ShutdownCall
  <2>2. \A v \in Workers : ShutdownCall(v)' = IF v = w THEN "none" ELSE ShutdownCall(v)
    BY <2>1, DoJobKept DEF Methods
  <2>3. UNCHANGED <<mpc, toKill, nJobs>>
    BY <1>4 DEF KillReturn
  <2> QED BY <2>1, <2>2, <2>3 DEF KillOK
<1>5. CASE Killed \/ Merge \/ CleanupRegistration \/ Finish
  <2>1. UNCHANGED <<call, nJobs, toKill>> /\ mpc \notin {"split", "run"} /\ mpc' \notin {"split", "run"}
    BY <1>5 DEF Killed, Merge, CleanupRegistration, Finish, wvars
  <2>2. mpc = "kill" => toKill = {}
    BY <1>5 DEF Killed, Merge, CleanupRegistration, Finish
  <2> QED BY <2>1, <2>2 DEF KillOK, ShutdownCall
<1> QED BY <1>1, <1>2, <1>3, <1>4, <1>5 DEF Run, KillWorkers

LEMMA KillNext == ASSUME WorkerAssumption, Inv, Next PROVE KillOK'
BY KillLoop, KillServe, KillMaster, KillRun DEF Inv, Next

-----------------------------------------------------------------------------
(* Files *)

\* Once the reduce phase has begun, every map output is complete and no map job is held.
LEMMA AllMapped ==
  ASSUME WorkerAssumption, Types, CountOK, PhaseOK, DoneOK, reduceStart
  PROVE  /\ \A m \in MapJobs, r \in ReduceJobs : out[m][r] = "full"
         /\ Held("Map") = {}
<1>1. "Map" \in Phases /\ count["Map"] >= Total["Map"]
  BY Totals DEF PhaseOK, Phases, WorkerAssumption
<1>2. Held("Map") = {} /\ Queued("Map") = {}
  BY <1>1, AllCounted
<1>3. \A m : <<"Map", m>> # NoJob /\ <<"Map", m>>[1] = "Map"
  BY DEF NoJob
<1>4. \A w \in Workers, m \in MapJobs : job[w] # <<"Map", m>>
  BY <1>2, <1>3 DEF Held
<1> QED BY <1>2, <1>4 DEF DoneOK

\* Once the master has left its loop, every result is complete and no job is held.
LEMMA AllReduced ==
  ASSUME WorkerAssumption, Types, CountOK, PhaseOK, DoneOK, mpc \notin {"split", "run"}
  PROVE  /\ \A r \in ReduceJobs : res[r] = "full"
         /\ \A w \in Workers : job[w] = NoJob
<1>1. "Reduce" \in Phases /\ count["Reduce"] >= Total["Reduce"]
  BY Totals DEF PhaseOK, Phases, WorkerAssumption
<1>2. Held("Reduce") = {} /\ Queued("Reduce") = {} /\ count["Reduce"] = Total["Reduce"] /\ done["Reduce"] = 0
  BY <1>1, AllCounted
<1>3. \A m : <<"Reduce", m>> # NoJob /\ <<"Reduce", m>>[1] = "Reduce"
  BY DEF NoJob
<1>4. \A w \in Workers, m \in ReduceJobs : job[w] # <<"Reduce", m>>
  BY <1>2, <1>3 DEF Held
<1>5. reduceStart
  BY <1>2, Totals DEF PhaseOK, WorkerAssumption
<1>6. Held("Map") = {}
  BY <1>5, AllMapped
<1>7. \A w \in Workers : job[w] # NoJob => job[w][1] \in {"Map", "Reduce"}
  BY JobFields DEF Types, WorkerTypeOK, Phases
<1> QED BY <1>2, <1>4, <1>6, <1>7 DEF DoneOK, Held

\* A step that moves no job and writes no file: a call is accepted, or fails.
LEMMA FilesKept ==
  ASSUME WorkerAssumption, Types, WorkOK, DoneOK, UNCHANGED <<jobs, job, at, fopen, intact, out, res>>,
         \A w \in Workers : \/ DoJobCall(w)' = DoJobCall(w)
                            \/ DoJobCall(w) = "dialled" /\ DoJobCall(w)' = "serving"
                            \/ DoJobCall(w)' = "failed"
  PROVE  WorkOK' /\ DoneOK'
<1>1. DoneOK'
  BY DEF DoneOK, Queued
<1>2. ASSUME NEW w \in Workers, MapOK(w) PROVE MapOK(w)'
  <2>1. \A r \in ReduceJobs : r \in Nat
    BY DEF ReduceJobs, WorkerAssumption
  <2>2. \A r \in ReduceJobs : ~(r < 0)
    BY <2>1
  <2> QED BY <1>2, <2>2 DEF MapOK
<1>3. ASSUME NEW w \in Workers, ReduceOK(w) PROVE ReduceOK(w)'
  <2>1. 0 # nMap + 1
    BY DEF WorkerAssumption
  <2> QED BY <1>3, <2>1 DEF ReduceOK
<1> QED BY <1>1, <1>2, <1>3 DEF WorkOK

LEMMA FilesLoop ==
  ASSUME WorkerAssumption, Types, WorkOK, DoneOK, NEW w \in Workers, Start(w) \/ Loop(w) \/ Registration(w)
  PROVE  WorkOK' /\ DoneOK'
<1>1. UNCHANGED <<jobs, job, at, fopen, intact, out, res>>
  <2>1. CASE Start(w) \/ Registration(w)
    BY <2>1 DEF Start, StartWorker, Registration, RegisterCall, RegisterRefused, MasterRegister, mvars
  <2>2. CASE Loop(w)
    BY <2>2 DEF Loop, AcceptLoop, Registered, Check, Accept, Count, mvars
  <2> QED BY <2>1, <2>2
<1>2. CASE UNCHANGED call
  BY <1>1, <1>2, FilesKept DEF DoJobCall
<1>3. CASE Hangup(w)
  <2>1. \A v \in Workers : <<v, "DoJob">> \in Workers \X Methods
    BY DEF Methods
  <2>2. \A v \in Workers : DoJobCall(v)' = DoJobCall(v) \/ DoJobCall(v)' = "failed"
    BY <1>3, <2>1 DEF Hangup, DoJobCall
  <2> QED BY <1>1, <2>2, FilesKept
<1>4. CASE Accept(w)
  <2>1. PICK m \in Methods : call[<<w, m>>] = "dialled" /\ call' = [call EXCEPT ![<<w, m>>] = "serving"]
    BY <1>4 DEF Accept
  <2>2. \A v \in Workers : DoJobCall(v)' = IF v = w /\ m = "DoJob" THEN "serving" ELSE DoJobCall(v)
    BY <2>1, DoJobKept
  <2>3. m = "DoJob" => DoJobCall(w) = "dialled"
    BY <2>1 DEF DoJobCall
  <2> QED BY <1>1, <2>2, <2>3, FilesKept
<1> QED BY <1>2, <1>3, <1>4 DEF Start, StartWorker, Registration, RegisterCall, RegisterRefused, MasterRegister,
           Loop, AcceptLoop, Registered, Check, Count

\* A goroutine of the master takes, puts back or drops a job.
LEMMA FilesMaster ==
  ASSUME WorkerAssumption, Inv, NEW w \in Workers, RunWorker(w)
  PROVE  WorkOK' /\ DoneOK'
<1> USE DEF Inv, FilesOK
<1>d. "DoJob" \in Methods
  BY DEF Methods
<1>p. "Map" \in Phases /\ "Reduce" \in Phases
  BY DEF Phases
<1>1. CASE TakeJob(w)
  <2>1. PICK p \in Phases : \E n \in Jobs(p) : Takes(w, p, n)
    BY <1>1, Taken
  <2>2. PICK n \in Jobs(p) : Takes(w, p, n)
    BY <2>1
  <2>3. PICK x \in {"dialled", "failed"} : call' = [call EXCEPT ![<<w, "DoJob">>] = x]
    BY <1>1 DEF TakeJob, Dial
  <2>4. \A v \in Workers : DoJobCall(v)' = IF v = w THEN x ELSE DoJobCall(v)
    BY <1>d, <2>3, DoJobKept
  <2>5. UNCHANGED <<out, res>>
    BY <1>1 DEF TakeJob
  <2>6. /\ at'[w] = 0 /\ fopen'[w] = FALSE /\ intact'[w] = TRUE
        /\ \A v \in Workers : v # w => at'[v] = at[v] /\ fopen'[v] = fopen[v] /\ intact'[v] = intact[v]
    BY <1>1 DEF TakeJob, Types, WorkerTypeOK
  <2>7. \A v \in Workers : job'[v] = IF v = w THEN <<p, n>> ELSE job[v]
    BY <2>2 DEF Takes
  <2>8. ASSUME NEW v \in Workers, job'[v] # NoJob
        PROVE  (job'[v][1] = "Map" => MapOK(v)') /\ (job'[v][1] = "Reduce" => ReduceOK(v)')
    <3>1. CASE v = w
      <4>1. MapOK(w)'
        BY <2>3, <2>4, <2>6 DEF MapOK, WorkerAssumption
      <4>2. ReduceOK(w)'
        BY <2>3, <2>4, <2>6 DEF ReduceOK, WorkerAssumption
      <4> QED BY <3>1, <4>1, <4>2
    <3>2. CASE v # w
      <4>1. job'[v] = job[v] /\ DoJobCall(v)' = DoJobCall(v)
        BY <2>4, <2>7, <3>2
      <4>2. MapOK(v) => MapOK(v)'
        BY <2>5, <2>6, <3>2, <4>1 DEF MapOK
      <4>3. ReduceOK(v) => ReduceOK(v)'
        BY <2>5, <2>6, <3>2, <4>1 DEF ReduceOK
      <4>4. (job[v][1] = "Map" => MapOK(v)) /\ (job[v][1] = "Reduce" => ReduceOK(v))
        BY <2>8, <4>1 DEF WorkOK
      <4>5. CASE job[v][1] = "Map"
        BY <4>1, <4>2, <4>4, <4>5
      <4>6. CASE job[v][1] = "Reduce"
        BY <4>1, <4>3, <4>4, <4>6
      <4> QED BY <4>1, <4>5, <4>6
    <3> QED BY <3>1, <3>2
  <2>9. ASSUME NEW q \in Phases, NEW k
        PROVE  k \in Queued(q) \/ (\E v \in Workers : job[v] = <<q, k>>)
               => k \in Queued(q)' \/ \E v \in Workers : job'[v] = <<q, k>>
    <3>1. job[w] = NoJob /\ <<q, k>> # NoJob
      BY <2>2 DEF Takes, NoJob
    <3>2. CASE \E v \in Workers : job[v] = <<q, k>>
      <4>1. PICK v \in Workers : job[v] = <<q, k>>
        BY <3>2
      <4> QED BY <2>7, <3>1, <4>1
    <3>3. CASE k \in Queued(q) /\ q # p
      BY <2>2, <3>3 DEF Takes
    <3>4. CASE k \in Queued(q) /\ q = p
      <4>1. k \in Queued(p) /\ Queued(p) = {n} \cup Queued(p)'
        BY <2>2, <3>4 DEF Takes
      <4>2. CASE k = n
        BY <2>7, <3>4, <4>2
      <4>3. CASE k # n
        BY <3>4, <4>1, <4>3
      <4> QED BY <4>2, <4>3
    <3> QED BY <3>2, <3>3, <3>4
  <2>10. DoneOK'
    BY <1>p, <2>5, <2>9 DEF DoneOK
  <2> QED BY <2>8, <2>10 DEF WorkOK
<1>2. CASE JobFailed(w) \/ JobDone(w)
  <2>1. /\ \A v \in Workers : DoJobCall(v)' = IF v = w THEN "none" ELSE DoJobCall(v)
        /\ UNCHANGED <<at, fopen, intact, out, res>>
    <3>1. call' = [call EXCEPT ![<<w, "DoJob">>] = "none"] /\ UNCHANGED <<at, fopen, intact, out, res>>
      BY <1>2 DEF JobFailed, JobDone
    <3> QED BY <1>d, <3>1, DoJobKept
  <2>2. \A v \in Workers : job'[v] = IF v = w THEN NoJob ELSE job[v]
    BY <1>2 DEF JobFailed, JobDone, Types, WorkerTypeOK
  <2>3. ASSUME NEW v \in Workers, job'[v] # NoJob
        PROVE  (job'[v][1] = "Map" => MapOK(v)') /\ (job'[v][1] = "Reduce" => ReduceOK(v)')
    <3>1. job'[v] = job[v] /\ DoJobCall(v)' = DoJobCall(v)
      BY <2>1, <2>2, <2>3
    <3>2. MapOK(v) => MapOK(v)'
      BY <2>1, <3>1 DEF MapOK
    <3>3. ReduceOK(v) => ReduceOK(v)'
      BY <2>1, <3>1 DEF ReduceOK
    <3>4. (job[v][1] = "Map" => MapOK(v)) /\ (job[v][1] = "Reduce" => ReduceOK(v))
      BY <2>3, <3>1 DEF WorkOK
    <3>5. CASE job[v][1] = "Map"
      BY <3>1, <3>2, <3>4, <3>5
    <3>6. CASE job[v][1] = "Reduce"
      BY <3>1, <3>3, <3>4, <3>6
    <3> QED BY <3>1, <3>5, <3>6
  <2>4. CASE JobFailed(w)
    <3>1. PICK p \in Phases : \E n \in Jobs(p) : PutsBack(w, p, n)
      BY <2>4, PutBack
    <3>2. PICK n \in Jobs(p) : PutsBack(w, p, n)
      BY <3>1
    <3>3. ASSUME NEW q \in Phases, NEW k
          PROVE  k \in Queued(q) \/ (\E v \in Workers : job[v] = <<q, k>>)
                 => k \in Queued(q)' \/ \E v \in Workers : job'[v] = <<q, k>>
      <4>1. CASE k \in Queued(q)
        BY <3>2, <4>1 DEF PutsBack
      <4>2. ASSUME NEW v \in Workers, job[v] = <<q, k>>
            PROVE  k \in Queued(q)' \/ \E u \in Workers : job'[u] = <<q, k>>
        <5>1. CASE v = w
          <6>1. <<q, k>> = <<p, n>>
            BY <3>2, <4>2, <5>1 DEF PutsBack
          <6>2. q = p /\ k = n
            BY <6>1
          <6> QED BY <3>2, <6>2 DEF PutsBack
        <5>2. CASE v # w
          BY <2>2, <4>2, <5>2
        <5> QED BY <5>1, <5>2
      <4> QED BY <4>1, <4>2
    <3>4. DoneOK'
      BY <1>p, <2>1, <3>3 DEF DoneOK
    <3> QED BY <2>3, <3>4 DEF WorkOK
  <2>5. CASE JobDone(w)
    <3>1. PICK p \in Phases : \E n \in Jobs(p) : Drops(w, p, n)
      BY <2>5, Dropped
    <3>2. PICK n \in Jobs(p) : Drops(w, p, n)
      BY <3>1
    <3>3. job[w] = <<p, n>> /\ jobs' = jobs /\ DoJobCall(w) = "replied"
      BY <2>5, <3>2 DEF Drops, JobDone, DoJobCall
    <3>4. job[w] # NoJob /\ job[w][1] = p /\ job[w][2] = n
      BY <3>3 DEF NoJob
    <3>5. \A q : Queued(q)' = Queued(q)
      BY <3>3 DEF Queued
    <3>6. ASSUME NEW q \in Phases, NEW k, <<q, k>> # <<p, n>>
          PROVE  k \in Queued(q) \/ (\E v \in Workers : job[v] = <<q, k>>)
                 => k \in Queued(q)' \/ \E v \in Workers : job'[v] = <<q, k>>
      BY <2>2, <3>3, <3>5, <3>6
    <3>7. p = "Map" => \A r \in ReduceJobs : out[n][r] = "full"
      <4>1. p = "Map" => MapOK(w)
        BY <3>4 DEF WorkOK
      <4> QED BY <3>3, <3>4, <4>1 DEF MapOK
    <3>8. p = "Reduce" => res[n] = "full"
      BY <3>3, <3>4 DEF WorkOK, ReduceOK
    <3>9. \A m \in MapJobs : m \in Queued("Map")' \/ (\E v \in Workers : job'[v] = <<"Map", m>>)
                             \/ \A r \in ReduceJobs : out'[m][r] = "full"
      <4> TAKE m \in MapJobs
      <4>1. CASE <<"Map", m>> = <<p, n>>
        BY <2>1, <3>7, <4>1
      <4>2. CASE <<"Map", m>> # <<p, n>>
        BY <1>p, <2>1, <3>6, <4>2 DEF DoneOK
      <4> QED BY <4>1, <4>2
    <3>10. \A r \in ReduceJobs : r \in Queued("Reduce")' \/ (\E v \in Workers : job'[v] = <<"Reduce", r>>)
                                 \/ res'[r] = "full"
      <4> TAKE r \in ReduceJobs
      <4>1. CASE <<"Reduce", r>> = <<p, n>>
        BY <2>1, <3>8, <4>1
      <4>2. CASE <<"Reduce", r>> # <<p, n>>
        BY <1>p, <2>1, <3>6, <4>2 DEF DoneOK
      <4> QED BY <4>1, <4>2
    <3> QED BY <2>3, <3>9, <3>10 DEF WorkOK, DoneOK
  <2> QED BY <1>2, <2>4, <2>5
<1>3. CASE ToReduce(w) \/ NoMoreJobs(w)
  <2>1. UNCHANGED <<jobs, job, at, fopen, intact, out, res, call>>
    BY <1>3 DEF ToReduce, NoMoreJobs, wvars
  <2> QED BY <2>1, FilesKept DEF DoJobCall
<1> QED BY <1>1, <1>2, <1>3 DEF RunWorker

\* The goroutine that serves a DoJob call has its job to itself.
LEMMA OwnJob ==
  ASSUME WorkerAssumption, Types, HoldOK, PlaceOK, NEW w \in Workers, NEW p \in Phases, Serving(w, p)
  PROVE  /\ job[w] \in Job /\ job[w] # NoJob /\ job[w] = <<p, job[w][2]>> /\ job[w][1] = p /\ rw[w] = p
         /\ job[w][2] \in Jobs(p) /\ DoJobCall(w) = "serving"
         /\ \A v \in Workers : v # w /\ job[v] # NoJob /\ job[v][1] = p => job[v][2] # job[w][2]
<1>1. call[<<w, "DoJob">>] # "none" /\ job[w][1] = p /\ DoJobCall(w) = "serving"
  BY DEF Serving, DoJobCall
<1>2. job[w] \in Job /\ job[w] # NoJob /\ rw[w] = job[w][1] /\ job[w][2] \in Jobs(rw[w])
  BY <1>1, Holding
<1>3. job[w] = <<p, job[w][2]>>
  BY <1>1, <1>2, JobFields
<1>4. ASSUME NEW v \in Workers, v # w, job[v] # NoJob, job[v][1] = p PROVE job[v][2] # job[w][2]
  <2>1. job[v] \in Job
    BY <1>4 DEF Types, WorkerTypeOK
  <2>2. job[v] = <<p, job[v][2]>>
    BY <1>4, <2>1, JobFields
  <2> QED BY <1>2, <1>3, <1>4, <2>2 DEF PlaceOK
<1> QED BY <1>1, <1>2, <1>3, <1>4

\* A map job writes its own output files only.
LEMMA FilesMap ==
  ASSUME WorkerAssumption, Inv, NEW w \in Workers, MapCreate(w) \/ MapClose(w), UNCHANGED mvars
  PROVE  WorkOK' /\ DoneOK'
<1> USE DEF Inv, FilesOK
<1>p. "Map" \in Phases /\ Serving(w, "Map")
  BY DEF Phases, MapCreate, MapClose
<1>1. /\ job[w] # NoJob /\ job[w] = <<"Map", job[w][2]>> /\ job[w][1] = "Map"
      /\ job[w][2] \in Jobs("Map") /\ DoJobCall(w) = "serving"
      /\ \A v \in Workers : v # w /\ job[v] # NoJob /\ job[v][1] = "Map" => job[v][2] # job[w][2]
  BY <1>p, OwnJob
<1>2. PICK m \in MapJobs : m = job[w][2]
  BY <1>1, Totals
<1>3. MapOK(w)
  BY <1>1 DEF WorkOK
<1>4. UNCHANGED <<call, job, jobs, res, intact>>
  BY DEF MapCreate, MapClose, mvars
<1>5. \A v \in Workers : DoJobCall(v)' = DoJobCall(v)
  BY <1>4 DEF DoJobCall
<1>6. at[w] \in Nat /\ at[w] < nReduce
  BY <1>1, <1>3 DEF MapOK, MapCreate, MapClose, Types, WorkerTypeOK
<1>7. PICK r \in ReduceJobs : r = at[w]
  BY <1>6 DEF ReduceJobs, WorkerAssumption
<1>8. PICK x \in {"part", "full"} : out' = [out EXCEPT ![m][r] = x] /\ (MapClose(w) => x = "full")
  BY <1>2, <1>7 DEF MapCreate, MapClose
<1>9. /\ \A k \in MapJobs : k # m => out'[k] = out[k]
      /\ \A k \in ReduceJobs : out'[m][k] = IF k = r THEN x ELSE out[m][k]
  BY <1>8 DEF Types, WorkerTypeOK
<1>10. \A v \in Workers : v # w => at'[v] = at[v] /\ fopen'[v] = fopen[v]
  BY DEF MapCreate, MapClose, Types, WorkerTypeOK
<1>11. \A k \in ReduceJobs : k \in Nat
  BY DEF ReduceJobs, WorkerAssumption
<1>12. MapOK(w)'
  <2>1. \A k \in ReduceJobs : k < r => out[m][k] = "full"
    BY <1>1, <1>2, <1>3, <1>7 DEF MapOK
  <2>2. CASE MapCreate(w)
    <3>1. at'[w] = r /\ fopen'[w]
      BY <1>7, <2>2 DEF MapCreate, Types, WorkerTypeOK
    <3>2. \A k \in ReduceJobs : k < r => out'[m][k] = "full"
      BY <1>9, <1>11, <2>1
    <3> QED BY <1>1, <1>2, <1>4, <1>5, <1>6, <1>7, <3>1, <3>2 DEF MapOK, WorkerAssumption
  <2>3. CASE MapClose(w)
    <3>1. at'[w] = r + 1 /\ ~fopen'[w] /\ x = "full"
      BY <1>7, <1>8, <2>3 DEF MapClose, Types, WorkerTypeOK
    <3>2. \A k \in ReduceJobs : k < r + 1 => out'[m][k] = "full"
      BY <1>9, <1>11, <2>1, <3>1
    <3>3. r + 1 <= nReduce
      BY <1>6, <1>7 DEF WorkerAssumption
    <3> QED BY <1>1, <1>2, <1>4, <1>5, <3>1, <3>2, <3>3 DEF MapOK
  <2> QED BY <2>2, <2>3
<1>13. ASSUME NEW v \in Workers, job[v] # NoJob, v # w
       PROVE  (job[v][1] = "Map" => MapOK(v)') /\ (job[v][1] = "Reduce" => ReduceOK(v)')
  <2>1. CASE job[v][1] = "Map"
    <3>1. PICK k \in MapJobs : k = job[v][2]
      BY <1>13, <2>1, JobFields DEF Types, WorkerTypeOK
    <3>2. k # m /\ out'[k] = out[k]
      BY <1>1, <1>2, <1>9, <1>13, <2>1, <3>1
    <3>3. MapOK(v)
      BY <1>13, <2>1 DEF WorkOK
    <3>4. MapOK(v)'
      BY <1>4, <1>5, <1>10, <1>13, <3>1, <3>2, <3>3 DEF MapOK
    <3> QED BY <2>1, <3>4
  <2>2. CASE job[v][1] = "Reduce"
    <3>1. ReduceOK(v)
      BY <1>13, <2>2 DEF WorkOK
    <3>2. ReduceOK(v)'
      BY <1>4, <1>5, <1>10, <1>13, <3>1 DEF ReduceOK
    <3> QED BY <2>2, <3>2
  <2> QED BY <2>1, <2>2
<1>14. WorkOK'
  BY <1>1, <1>4, <1>12, <1>13 DEF WorkOK
<1>15. \A q : Queued(q)' = Queued(q)
  BY <1>4 DEF Queued
<1>16. ASSUME NEW k \in MapJobs
       PROVE  k \in Queued("Map")' \/ (\E v \in Workers : job'[v] = <<"Map", k>>)
              \/ \A j \in ReduceJobs : out'[k][j] = "full"
  <2>1. CASE k = m
    BY <1>1, <1>2, <1>4, <2>1
  <2>2. CASE k # m
    BY <1>4, <1>9, <1>15, <2>2 DEF DoneOK
  <2> QED BY <2>1, <2>2
<1>17. DoneOK'
  BY <1>4, <1>15, <1>16 DEF DoneOK
<1> QED BY <1>14, <1>17

\* A reduce job reads complete files, and writes its own result only.
LEMMA FilesReduce ==
  ASSUME WorkerAssumption, Inv, NEW w \in Workers, ReduceRead(w) \/ ReduceCreate(w) \/ ReduceClose(w),
         UNCHANGED mvars
  PROVE  WorkOK' /\ DoneOK'
<1> USE DEF Inv, FilesOK
<1>p. "Reduce" \in Phases /\ Serving(w, "Reduce")
  BY DEF Phases, ReduceRead, ReduceCreate, ReduceClose
<1>1. /\ job[w] # NoJob /\ job[w] = <<"Reduce", job[w][2]>> /\ job[w][1] = "Reduce" /\ rw[w] = "Reduce"
      /\ job[w][2] \in Jobs("Reduce") /\ DoJobCall(w) = "serving"
      /\ \A v \in Workers : v # w /\ job[v] # NoJob /\ job[v][1] = "Reduce" => job[v][2] # job[w][2]
  BY <1>p, OwnJob
<1>2. PICK r \in ReduceJobs : r = job[w][2]
  BY <1>1, Totals
<1>3. ReduceOK(w)
  BY <1>1 DEF WorkOK
<1>4. UNCHANGED <<call, job, jobs, out>>
  BY DEF ReduceRead, ReduceCreate, ReduceClose, mvars
<1>5. \A v \in Workers : DoJobCall(v)' = DoJobCall(v)
  BY <1>4 DEF DoJobCall
<1>6. PICK a \in Nat : a = at[w]
  BY DEF Types, WorkerTypeOK
<1>7. PICK M \in Nat : M = nMap
  BY DEF WorkerAssumption
<1>8. intact[w] /\ a <= M + 1 /\ (fopen[w] => a = M)
  BY <1>1, <1>3, <1>6, <1>7 DEF ReduceOK
<1>9. \A k \in ReduceJobs : k # r => res'[k] = res[k]
  BY <1>2 DEF ReduceRead, ReduceCreate, ReduceClose, Types, WorkerTypeOK
<1>10. \A v \in Workers : v # w => at'[v] = at[v] /\ fopen'[v] = fopen[v] /\ intact'[v] = intact[v]
  BY DEF ReduceRead, ReduceCreate, ReduceClose, Types, WorkerTypeOK
<1>12. ReduceOK(w)'
  <2>1. CASE ReduceRead(w)
    <3>1. a < M /\ ~fopen[w]
      BY <1>6, <1>7, <1>8, <2>1 DEF ReduceRead
    <3>2. a \in MapJobs
      BY <1>7, <3>1 DEF MapJobs
    <3>3. out[a][r] = "full"
      <4>1. reduceStart
        BY <1>1 DEF PhaseOK
      <4> QED BY <3>2, <4>1, AllMapped
    <3>4. at'[w] = a + 1 /\ fopen' = fopen /\ intact'[w]
      BY <1>2, <1>6, <1>8, <2>1, <3>3 DEF ReduceRead, Types, WorkerTypeOK
    <3>5. at'[w] # M + 1 /\ at'[w] <= M + 1
      BY <3>1, <3>4
    <3> QED BY <1>1, <1>5, <1>7, <3>1, <3>4, <3>5 DEF ReduceOK
  <2>2. CASE ReduceCreate(w)
    <3>1. at'[w] = M /\ fopen'[w] /\ intact'[w]
      BY <1>7, <1>8, <2>2 DEF ReduceCreate, Types, WorkerTypeOK
    <3>2. M # M + 1 /\ M <= M + 1
      OBVIOUS
    <3> QED BY <1>1, <1>5, <1>7, <3>1, <3>2 DEF ReduceOK
  <2>3. CASE ReduceClose(w)
    <3>1. fopen[w]
      BY <2>3 DEF ReduceClose
    <3>2. at'[w] = M + 1 /\ ~fopen'[w] /\ intact'[w]
      BY <1>6, <1>8, <2>3, <3>1 DEF ReduceClose, Types, WorkerTypeOK
    <3>3. res'[r] = "full"
      BY <1>2, <1>8, <2>3 DEF ReduceClose, Types, WorkerTypeOK
    <3>4. M + 1 <= M + 1
      OBVIOUS
    <3> QED BY <1>1, <1>2, <1>4, <1>5, <1>7, <3>2, <3>3, <3>4 DEF ReduceOK
  <2> QED BY <2>1, <2>2, <2>3
<1>13. ASSUME NEW v \in Workers, job[v] # NoJob, v # w
       PROVE  (job[v][1] = "Map" => MapOK(v)') /\ (job[v][1] = "Reduce" => ReduceOK(v)')
  <2>1. CASE job[v][1] = "Map"
    <3>1. MapOK(v)
      BY <1>13, <2>1 DEF WorkOK
    <3>2. MapOK(v)'
      BY <1>4, <1>5, <1>10, <1>13, <3>1 DEF MapOK
    <3> QED BY <2>1, <3>2
  <2>2. CASE job[v][1] = "Reduce"
    <3>1. PICK k \in ReduceJobs : k = job[v][2]
      BY <1>13, <2>2, JobFields DEF Types, WorkerTypeOK
    <3>2. k # r /\ res'[k] = res[k]
      BY <1>1, <1>2, <1>9, <1>13, <2>2, <3>1
    <3>3. ReduceOK(v)
      BY <1>13, <2>2 DEF WorkOK
    <3>4. ReduceOK(v)'
      BY <1>4, <1>5, <1>10, <1>13, <3>1, <3>2, <3>3 DEF ReduceOK
    <3> QED BY <2>2, <3>4
  <2> QED BY <2>1, <2>2
<1>14. WorkOK'
  BY <1>1, <1>4, <1>12, <1>13 DEF WorkOK
<1>15. \A q : Queued(q)' = Queued(q)
  BY <1>4 DEF Queued
<1>16. ASSUME NEW k \in ReduceJobs
       PROVE  k \in Queued("Reduce")' \/ (\E v \in Workers : job'[v] = <<"Reduce", k>>) \/ res'[k] = "full"
  <2>1. CASE k = r
    BY <1>1, <1>2, <1>4, <2>1
  <2>2. CASE k # r
    BY <1>4, <1>9, <1>15, <2>2 DEF DoneOK
  <2> QED BY <2>1, <2>2
<1>17. DoneOK'
  BY <1>4, <1>15, <1>16 DEF DoneOK
<1> QED BY <1>14, <1>17

\* DoJob replies when every file of the job was closed.
LEMMA FilesReply ==
  ASSUME WorkerAssumption, Inv, NEW w \in Workers, DoJobReply(w), UNCHANGED mvars
  PROVE  WorkOK' /\ DoneOK'
<1> USE DEF Inv, FilesOK
<1>1. /\ UNCHANGED <<jobs, job, at, fopen, intact, out, res>>
      /\ call' = [call EXCEPT ![<<w, "DoJob">>] = "replied"]
  BY DEF DoJobReply, mvars
<1>2. \A v \in Workers : DoJobCall(v)' = IF v = w THEN "replied" ELSE DoJobCall(v)
  BY <1>1, DoJobKept DEF Methods
<1>3. DoneOK'
  BY <1>1 DEF DoneOK, Queued
<1>4. ASSUME NEW v \in Workers, v # w PROVE (MapOK(v) => MapOK(v)') /\ (ReduceOK(v) => ReduceOK(v)')
  <2>1. DoJobCall(v)' = DoJobCall(v)
    BY <1>2, <1>4
  <2> QED BY <1>1, <2>1 DEF MapOK, ReduceOK
<1>5. MapOK(w) /\ job[w][1] = "Map" => MapOK(w)'
  <2> SUFFICES ASSUME MapOK(w), job[w][1] = "Map" PROVE MapOK(w)'
    OBVIOUS
  <2>1. DoJobCall(w) = "serving" /\ at[w] = nReduce
    BY DEF DoJobReply, JobFinished, Serving, DoJobCall
  <2>2. \A r \in ReduceJobs : r < nReduce
    BY DEF ReduceJobs, WorkerAssumption
  <2>3. \A r \in ReduceJobs : out[job[w][2]][r] = "full"
    BY <2>1, <2>2 DEF MapOK
  <2> QED BY <1>1, <1>2, <2>3 DEF MapOK
<1>6. ReduceOK(w) /\ job[w][1] = "Reduce" => ReduceOK(w)'
  <2> SUFFICES ASSUME ReduceOK(w), job[w][1] = "Reduce" PROVE ReduceOK(w)'
    OBVIOUS
  <2>1. DoJobCall(w) = "serving" /\ at[w] = nMap + 1
    BY DEF DoJobReply, JobFinished, Serving, DoJobCall
  <2>2. res[job[w][2]] = "full"
    BY <2>1 DEF ReduceOK
  <2> QED BY <1>1, <1>2, <2>2 DEF ReduceOK
<1>7. WorkOK'
  BY <1>1, <1>4, <1>5, <1>6 DEF WorkOK
<1> QED BY <1>3, <1>7

LEMMA FilesRun ==
  ASSUME WorkerAssumption, Inv, Run
  PROVE  WorkOK' /\ DoneOK'
<1> USE DEF Inv, FilesOK
<1>1. UNCHANGED <<jobs, job, at, fopen, intact, out, res>>
  BY DEF Run, Split, MapDone, ReduceDone, KillWorkers, Killed, KillCall, KillReturn, Merge,
     CleanupRegistration, Finish, wvars
<1>2. CASE UNCHANGED call
  BY <1>1, <1>2, FilesKept DEF DoJobCall
<1>3. ASSUME NEW w \in Workers, KillCall(w) \/ KillReturn(w) PROVE WorkOK' /\ DoneOK'
  <2>1. PICK x : call' = [call EXCEPT ![<<w, "Shutdown">>] = x]
    BY <1>3 DEF KillCall, Dial, KillReturn
  <2>2. \A v \in Workers : DoJobCall(v)' = DoJobCall(v)
    BY <2>1, DoJobKept DEF Methods
  <2> QED BY <1>1, <2>2, FilesKept
<1> QED BY <1>2, <1>3 DEF Run, Split, MapDone, ReduceDone, KillWorkers, Killed, Merge,
           CleanupRegistration, Finish, wvars

LEMMA FilesNext == ASSUME WorkerAssumption, Inv, Next PROVE FilesOK'
<1>1. WorkOK' /\ DoneOK'
  <2>1. ASSUME NEW w \in Workers, Serve(w) PROVE WorkOK' /\ DoneOK'
    <3>1. UNCHANGED mvars
      BY <2>1 DEF Serve
    <3>2. CASE Shutdown(w)
      <4>1. call' = [call EXCEPT ![<<w, "Shutdown">>] = "replied"] /\ UNCHANGED <<jobs, job, at, fopen, intact, out, res>>
        BY <3>1, <3>2 DEF Shutdown, mvars
      <4>2. \A v \in Workers : DoJobCall(v)' = DoJobCall(v)
        BY <4>1, DoJobKept DEF Methods, Inv
      <4> QED BY <4>1, <4>2, FilesKept DEF Inv, FilesOK
    <3> QED BY <2>1, <3>1, <3>2, FilesMap, FilesReduce, FilesReply DEF Serve, ServeConn
  <2> QED BY <2>1, FilesLoop, FilesMaster, FilesRun DEF Next, Inv, FilesOK
<1>2. EndOK'
  <2> USE DEF Inv, FilesOK
  <2>1. CASE UNCHANGED <<mpc, output>>
    BY <2>1 DEF EndOK
  <2>2. CASE Split \/ Killed \/ ReduceDone
    BY <2>2 DEF Split, Killed, ReduceDone, EndOK
  <2>3. CASE Merge
    <3>1. \A r \in ReduceJobs : res[r] = "full"
      BY <2>3, AllReduced DEF Merge
    <3> QED BY <2>3, <3>1 DEF Merge, EndOK
  <2>4. CASE CleanupRegistration \/ Finish
    BY <2>4 DEF CleanupRegistration, Finish, EndOK
  <2>5. ASSUME NEW w \in Workers, Start(w) \/ Loop(w) \/ Serve(w) \/ Registration(w) PROVE UNCHANGED <<mpc, output>>
    BY <2>5 DEF Start, Loop, Serve, Registration, RegisterCall, RegisterRefused, MasterRegister, mvars
  <2>6. ASSUME NEW w \in Workers, RunWorker(w) PROVE UNCHANGED <<mpc, output>>
    BY <2>6 DEF RunWorker, TakeJob, JobFailed, JobDone, ToReduce, NoMoreJobs
  <2>7. ASSUME NEW w \in Workers, KillCall(w) \/ KillReturn(w) PROVE UNCHANGED <<mpc, output>>
    BY <2>7 DEF KillCall, KillReturn
  <2> QED BY <2>1, <2>2, <2>3, <2>4, <2>5, <2>6, <2>7 DEF Next, Run, KillWorkers, MapDone
<1> QED BY <1>1, <1>2 DEF FilesOK

-----------------------------------------------------------------------------
(* The invariant *)

LEMMA InvInit == ASSUME WorkerAssumption, Init PROVE Inv
<1>1. Types
  BY TypesInit
<1>p. "Map" \in Phases /\ "Reduce" \in Phases
  BY DEF Phases
<1>j. \A w \in Workers : job[w] = NoJob
  BY DEF Init, WorkerInit
<1>q. ASSUME NEW p \in Phases
      PROVE  /\ Total[p] \in Nat /\ jobs[p] = [i \in 1 .. Total[p] |-> i - 1] /\ Len(jobs[p]) = Total[p]
             /\ \A i \in 1 .. Len(jobs[p]) : jobs[p][i] = i - 1
  <2>1. Total[p] \in Nat /\ jobs[p] = [i \in 1 .. Total[p] |-> i - 1]
    BY Totals DEF Init
  <2>2. Len(jobs[p]) = Total[p]
    BY <1>1, <2>1 DEF Types
  <2> QED BY <2>1, <2>2
<1>c. \A w \in Workers : DoJobCall(w) = "none" /\ ShutdownCall(w) = "none"
  BY DEF Init, WorkerInit, DoJobCall, ShutdownCall, Methods
<1>2. HoldOK
  BY <1>j, <1>c DEF HoldOK, Init
<1>3. PlaceOK
  <2>1. \A p \in Phases : \A i, j \in 1 .. Len(jobs[p]) : jobs[p][i] = jobs[p][j] => i = j
    <3> SUFFICES ASSUME NEW p \in Phases, NEW i \in 1 .. Len(jobs[p]), NEW j \in 1 .. Len(jobs[p]), jobs[p][i] = jobs[p][j]
                 PROVE  i = j
      OBVIOUS
    <3>1. PICK t \in Nat : t = Len(jobs[p])
      BY <1>q
    <3>2. i \in 1 .. t /\ j \in 1 .. t
      BY <3>1
    <3>3. jobs[p][i] = i - 1 /\ jobs[p][j] = j - 1
      BY <1>q
    <3>4. i - 1 = j - 1
      BY <3>3
    <3>5. i \in Int /\ j \in Int
      BY <3>2
    <3> QED BY <3>4, <3>5
  <2> QED BY <1>j, <2>1 DEF PlaceOK
<1>4. CountOK
  <2> SUFFICES ASSUME NEW p \in Phases PROVE Len(jobs[p]) + Cardinality(Held(p)) + done[p] + count[p] = Total[p]
    BY DEF CountOK
  <2>1. Held(p) = {}
    BY <1>j DEF Held
  <2>2. Cardinality(Held(p)) = 0
    BY <2>1, FS_EmptySet
  <2>3. done[p] = 0 /\ count[p] = 0
    BY DEF Init
  <2>4. PICK t \in Nat : t = Total[p] /\ t = Len(jobs[p])
    BY <1>q
  <2> QED BY <2>2, <2>3, <2>4
<1>5. PhaseOK
  BY <1>p DEF Init, PhaseOK
<1>6. KillOK
  BY <1>c DEF Init, WorkerInit, KillOK
<1>7. DoneOK
  <2>1. ASSUME NEW p \in Phases, NEW m \in Jobs(p) PROVE m \in Queued(p)
    <3>1. m + 1 \in 1 .. Len(jobs[p]) /\ m = (m + 1) - 1
      <4>1. PICK t \in Nat : t = Total[p] /\ t = Len(jobs[p])
        BY <1>q
      <4>2. m \in 0 .. t - 1
        BY <4>1 DEF Jobs
      <4> QED BY <4>1, <4>2
    <3>2. jobs[p][m + 1] = m
      BY <1>q, <3>1
    <3> QED BY <3>1, <3>2 DEF Queued
  <2> QED BY <1>p, <2>1, Totals DEF DoneOK
<1>8. WorkOK /\ EndOK
  BY <1>j DEF WorkOK, EndOK, Init
<1> QED BY <1>1, <1>2, <1>3, <1>4, <1>5, <1>6, <1>7, <1>8 DEF Inv, FilesOK

LEMMA InvStutter == ASSUME Inv, UNCHANGED vars PROVE Inv'
<1> USE DEF Inv, vars, wvars, mvars
<1>1. Types'
  BY DEF Types, WorkerTypeOK
<1>2. HoldOK' /\ KillOK'
  BY DEF HoldOK, KillOK, DoJobCall, ShutdownCall
<1>3. PlaceOK' /\ CountOK' /\ PhaseOK'
  BY DEF PlaceOK, CountOK, PhaseOK, Queued, Held
<1>4. FilesOK'
  <2>1. DoneOK' /\ EndOK'
    BY DEF FilesOK, DoneOK, EndOK, Queued
  <2>2. \A w \in Workers : (MapOK(w) => MapOK(w)') /\ (ReduceOK(w) => ReduceOK(w)')
    BY DEF MapOK, ReduceOK, DoJobCall
  <2>3. WorkOK'
    BY <2>2 DEF FilesOK, WorkOK
  <2> QED BY <2>1, <2>3 DEF FilesOK
<1> QED BY <1>1, <1>2, <1>3, <1>4

LEMMA Invariance == Spec => []Inv
<1> USE WorkerAssumption
<1>1. Init => Inv
  BY InvInit
<1>2. Inv /\ [Next]_vars => Inv'
  BY InvStutter, TypesNext, HoldNext, PlaceNext, CountNext, PhaseNext, KillNext, FilesNext DEF Inv
<1> QED BY <1>1, <1>2, PTL DEF Spec

-----------------------------------------------------------------------------
(* Theorems *)

\* The number of values of a function that maps no two arguments to the same value.
LEMMA Injected ==
  ASSUME NEW S, NEW T, NEW f \in [S -> T], IsFiniteSet(S), \A x, y \in S : f[x] = f[y] => x = y
  PROVE  Cardinality({f[x] : x \in S}) = Cardinality(S)
<1> DEFINE V == {f[x] : x \in S}
<1>1. f \in [S -> V]
  OBVIOUS
<1>2. \A y \in V : \E x \in S : f[x] = y
  OBVIOUS
<1>3. f \in Bijection(S, V)
  BY <1>1, <1>2 DEF Bijection, Injection, IsInjective, Surjection
<1>4. ExistsBijection(S, V)
  BY <1>3 DEF ExistsBijection
<1> QED BY <1>4, FS_Bijection

\* The state stays well typed: no channel of jobs is sent more than it can hold, so that
\* neither JobFailed nor JobDone ever blocks, and no worker reports a negative number.
THEOREM TypeCorrect == Spec => []TypeOK
<1> USE WorkerAssumption
<1>1. ASSUME Inv PROVE TypeOK
  <2>1. ASSUME NEW p \in Phases PROVE Len(jobs[p]) <= Total[p] /\ done[p] <= Total[p]
    <3>1. PICK a \in Nat : a = Len(jobs[p])
      BY <1>1 DEF Inv, Types
    <3>2. PICK h \in Nat : h = Cardinality(Held(p))
      BY HeldFinite
    <3>3. PICK c \in Nat : c = done[p]
      BY <1>1 DEF Inv, Types
    <3>4. PICK d \in Nat : d = count[p]
      BY <1>1 DEF Inv, Types
    <3>5. PICK t \in Nat : t = Total[p]
      BY Totals
    <3>6. a + h + c + d = t
      BY <1>1, <3>1, <3>2, <3>3, <3>4, <3>5 DEF Inv, CountOK
    <3> QED BY <3>1, <3>3, <3>5, <3>6
  <2> QED BY <1>1, <2>1 DEF Inv, Types, TypeOK
<1> QED BY <1>1, Invariance, PTL

\* However calls fail and workers leave, each job is in its channel, with one goroutine
\* of the master, or counted, and in one of these places only: JobFailed loses no job
\* and TakeJob hands none out twice.
THEOREM NoJobLost == Spec => []JobsConserved
<1> USE WorkerAssumption
<1>1. ASSUME Inv PROVE JobsConserved
  <2> DEFINE queued(p) == {jobs[p][i] : i \in 1 .. Len(jobs[p])}
             held(p) == {job[w][2] : w \in Held(p)}
  <2> SUFFICES ASSUME NEW p \in Phases
               PROVE  /\ Cardinality(queued(p)) = Len(jobs[p])
                      /\ Cardinality(held(p)) = Cardinality(Held(p))
                      /\ queued(p) \cap held(p) = {}
                      /\ Len(jobs[p]) + Cardinality(held(p)) + done[p] + count[p] = Total[p]
    BY DEF JobsConserved
  <2>1. Cardinality(queued(p)) = Len(jobs[p])
    <3>1. PICK n \in Nat : n = Len(jobs[p])
      BY <1>1 DEF Inv, Types
    <3>2. IsFiniteSet(1 .. n) /\ Cardinality(1 .. n) = n
      BY FS_Interval
    <3>3. \A i, j \in 1 .. n : jobs[p][i] = jobs[p][j] => i = j
      BY <1>1, <3>1 DEF Inv, PlaceOK
    <3> DEFINE D == 1 .. n
               V == queued(p)
               g == [i \in D |-> jobs[p][i]]
    <3>4. g \in [D -> V] /\ \A i, j \in D : g[i] = g[j] => i = j
      BY <3>1, <3>3
    <3>5. Cardinality({g[i] : i \in D}) = Cardinality(D)
      <4>1. IsFiniteSet(D)
        BY <3>2
      <4> HIDE DEF g, V, D
      <4> QED BY <3>4, <4>1, Injected
    <3> QED BY <3>1, <3>2, <3>5
  <2>2. \A w \in Held(p) : job[w] = <<p, job[w][2]>> /\ job[w] # NoJob /\ w \in Workers
    BY <1>1, JobFields DEF Inv, Types, WorkerTypeOK, Held
  <2>3. Cardinality(held(p)) = Cardinality(Held(p))
    <3>1. \A v, w \in Held(p) : job[v][2] = job[w][2] => v = w
      <4> SUFFICES ASSUME NEW v \in Held(p), NEW w \in Held(p), job[v][2] = job[w][2] PROVE v = w
        OBVIOUS
      <4>1. job[v] = job[w] /\ job[v] # NoJob /\ v \in Workers /\ w \in Workers
        BY <2>2
      <4> QED BY <1>1, <4>1 DEF Inv, PlaceOK
    <3>2. IsFiniteSet(Held(p))
      BY HeldFinite
    <3> DEFINE V == held(p)
               g == [w \in Held(p) |-> job[w][2]]
    <3>3. g \in [Held(p) -> V] /\ \A v, w \in Held(p) : g[v] = g[w] => v = w
      BY <3>1
    <3>4. Cardinality({g[w] : w \in Held(p)}) = Cardinality(Held(p))
      <4> HIDE DEF g, V
      <4> QED BY <3>2, <3>3, Injected
    <3> QED BY <3>4
  <2>4. queued(p) \cap held(p) = {}
    <3>1. \A w \in Held(p) : job[w][2] \notin Queued(p)
      BY <1>1 DEF Inv, PlaceOK, Held
    <3>2. queued(p) = Queued(p)
      BY DEF Queued
    <3> QED BY <3>1, <3>2
  <2>5. Len(jobs[p]) + Cardinality(Held(p)) + done[p] + count[p] = Total[p]
    BY <1>1 DEF Inv, CountOK
  <2> HIDE DEF queued, held
  <2> QED BY <2>1, <2>3, <2>4, <2>5
<1> QED BY <1>1, Invariance, PTL

\* DoReduce opens only complete files: reduceStart is closed after the last map job was
\* counted, and mapDone counts a job after its last file was closed.
THEOREM ReducersReadAll == Spec => []ReduceReadsAll
<1> USE WorkerAssumption
<1>1. ASSUME Inv PROVE ReduceReadsAll
  <2> SUFFICES ASSUME NEW w \in Workers, Serving(w, "Reduce")
               PROVE  \A m \in MapJobs, r \in ReduceJobs : out[m][r] = "full"
    BY DEF ReduceReadsAll
  <2>1. "Reduce" \in Phases
    BY DEF Phases
  <2>2. rw[w] = "Reduce"
    BY <1>1, <2>1, OwnJob DEF Inv
  <2>3. reduceStart
    BY <1>1, <2>2 DEF Inv, PhaseOK
  <2> QED BY <1>1, <2>3, AllMapped DEF Inv, FilesOK
<1> QED BY <1>1, Invariance, PTL

\* Merge reads the complete result of every reduce job, and RunMaster shuts the workers
\* down when none of them runs a job any more.
THEOREM MergesAll == Spec => []OutputComplete
<1> USE WorkerAssumption
<1>1. ASSUME Inv PROVE OutputComplete
  <2>1. mpc \in {"cleanup", "send", "end"} => output = "full"
    BY <1>1 DEF Inv, FilesOK, EndOK
  <2>2. ASSUME mpc \in {"kill", "merge", "cleanup", "send", "end"}, NEW w \in Workers
        PROVE  call[<<w, "DoJob">>] = "none"
    <3>1. job[w] = NoJob
      BY <1>1, <2>2, AllReduced DEF Inv, FilesOK
    <3> QED BY <1>1, <3>1 DEF Inv, HoldOK, DoJobCall
  <2> QED BY <2>1, <2>2 DEF OutputComplete
<1> QED BY <1>1, Invariance, PTL
=============================================================================
