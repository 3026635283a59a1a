------------------------------ MODULE MrWorker ------------------------------
(***************************************************************************)
(* The workers of the MapReduce library (mapreduce/worker.go), the RPCs    *)
(* they serve (common.go), and the files that DoMap and DoReduce read and  *)
(* write (mapreduce.go).                                                   *)
(*                                                                         *)
(* A worker is an accept loop, `RunWorker`, that starts one goroutine per  *)
(* connection; `call` opens one connection per RPC.  call[<<w, m>>] is the *)
(* RPC of method m that the master has open to worker w:                   *)
(*   none -> dialled -> serving -> replied, or failed.                     *)
(* `call` has no timeout: it fails when w does not listen, and when w's    *)
(* end of the connection goes away.                                        *)
(*                                                                         *)
(* What a file holds is abstracted to whether it is complete; MrFiles      *)
(* models the contents.                                                    *)
(***************************************************************************)
EXTENDS Integers, Sequences, FiniteSets

CONSTANTS
  Workers,   \* worker addresses
  nMap,      \* number of map jobs
  nReduce,   \* number of reduce jobs
  Mortal,    \* the workers started with nRPC = Limit; the others with -1
  Limit,     \* RPCs a mortal worker accepts before it leaves
  Process    \* TRUE: a worker is a process (main/wc.go), and the jobs it runs end with it;
             \* FALSE: a goroutine (test_test.go), whose jobs run on

ASSUME WorkerAssumption ==
  /\ IsFiniteSet(Workers)
  /\ nMap \in Nat \ {0}
  /\ nReduce \in Nat \ {0}
  /\ Mortal \subseteq Workers
  /\ Limit \in Nat \ {0}
  /\ Process \in BOOLEAN

VARIABLES
  wpc,      \* where RunWorker (worker.go) is
  nRPC,     \* wk.nRPC
  nJobs,    \* wk.nJobs
  call,     \* the RPCs open to a worker
  job,      \* DoJobArgs of the DoJob call open to a worker
  at,       \* the loop counter of the DoMap or DoReduce that serves it
  fopen,    \* ... whether it has a file open for writing
  intact,   \* ... whether every file it has read so far was complete
  njobs,    \* ShutdownReply.Njobs
  out,      \* out[m][r]: the file ReduceName(f, m, r)
  res       \* res[r]: the file MergeName(f, r)

wvars == <<wpc, nRPC, nJobs, call, job, at, fopen, intact, njobs, out, res>>

MapJobs == 0 .. nMap - 1
ReduceJobs == 0 .. nReduce - 1
Job == ({"Map"} \X MapJobs) \cup ({"Reduce"} \X ReduceJobs)
NoJob == <<>>
Methods == {"DoJob", "Shutdown"}

\* none: never created; part: created and not closed; full: closed after everything
\* was written; wrong: closed, computed from a file that was not full
FileState == {"none", "part", "full", "wrong"}

WorkerTypeOK ==
  /\ wpc \in [Workers -> {"off", "register", "registering", "registered", "check", "accept", "count", "exited"}]
  /\ nRPC \in [Workers -> Int]
  /\ nJobs \in [Workers -> Int]
  /\ call \in [Workers \X Methods -> {"none", "dialled", "serving", "replied", "failed"}]
  /\ job \in [Workers -> Job \cup {NoJob}]
  /\ at \in [Workers -> Nat]
  /\ fopen \in [Workers -> BOOLEAN]
  /\ intact \in [Workers -> BOOLEAN]
  /\ njobs \in [Workers -> Nat]
  /\ out \in [MapJobs -> [ReduceJobs -> FileState]]
  /\ res \in [ReduceJobs -> FileState]

WorkerInit ==
  /\ wpc = [w \in Workers |-> "off"]
  /\ nRPC = [w \in Workers |-> IF w \in Mortal THEN Limit ELSE -1]
  /\ nJobs = [w \in Workers |-> 0]
  /\ call = [c \in Workers \X Methods |-> "none"]
  /\ job = [w \in Workers |-> NoJob]
  /\ at = [w \in Workers |-> 0]
  /\ fopen = [w \in Workers |-> FALSE]
  /\ intact = [w \in Workers |-> TRUE]
  /\ njobs = [w \in Workers |-> 0]
  /\ out = [m \in MapJobs |-> [r \in ReduceJobs |-> "none"]]
  /\ res = [r \in ReduceJobs |-> "none"]

Listening(w) == wpc[w] \notin {"off", "exited"}

\* rpc.Dial: the connection waits in w's backlog, or is refused
Dial(w, m) == call' = [call EXCEPT ![<<w, m>>] = IF Listening(w) THEN "dialled" ELSE "failed"]

-----------------------------------------------------------------------------
(* The accept loop *)

\* RunWorker up to the call of Register: w listens from here on
StartWorker(w) ==
  /\ wpc[w] = "off"
  /\ wpc' = [wpc EXCEPT ![w] = "register"]
  /\ UNCHANGED <<nRPC, nJobs, call, job, at, fopen, intact, njobs, out, res>>

\* the Register RPC returns
Registered(w) ==
  /\ wpc[w] = "registered"
  /\ wpc' = [wpc EXCEPT ![w] = "check"]
  /\ UNCHANGED <<nRPC, nJobs, call, job, at, fopen, intact, njobs, out, res>>

\* Closing the listener resets the connections in its backlog; if w is a process it
\* exits, and the goroutines that serve its other connections with it.
Hangup(w) ==
  call' = [c \in Workers \X Methods |->
             IF c[1] = w /\ (call[c] = "dialled" \/ (Process /\ call[c] = "serving"))
             THEN "failed" ELSE call[c]]

\* `for wk.nRPC != 0`
Check(w) ==
  /\ wpc[w] = "check"
  /\ IF nRPC[w] # 0
     THEN wpc' = [wpc EXCEPT ![w] = "accept"] /\ UNCHANGED call
     ELSE wpc' = [wpc EXCEPT ![w] = "exited"] /\ Hangup(w)
  /\ UNCHANGED <<nRPC, nJobs, job, at, fopen, intact, njobs, out, res>>

\* Accept, and `go rpcs.ServeConn(conn)`
Accept(w) ==
  /\ wpc[w] = "accept"
  /\ \E m \in Methods :
       /\ call[<<w, m>>] = "dialled"
       /\ call' = [call EXCEPT ![<<w, m>>] = "serving"]
  /\ wpc' = [wpc EXCEPT ![w] = "count"]
  /\ nRPC' = [nRPC EXCEPT ![w] = @ - 1]
  /\ UNCHANGED <<nJobs, job, at, fopen, intact, njobs, out, res>>

\* `wk.nJobs += 1`, after the goroutine was started
Count(w) ==
  /\ wpc[w] = "count"
  /\ nJobs' = [nJobs EXCEPT ![w] = @ + 1]
  /\ wpc' = [wpc EXCEPT ![w] = "check"]
  /\ UNCHANGED <<nRPC, call, job, at, fopen, intact, njobs, out, res>>

-----------------------------------------------------------------------------
(* The goroutine that serves a connection *)

Serving(w, op) == call[<<w, "DoJob">>] = "serving" /\ job[w][1] = op

\* DoMap, for each r: os.Create truncates the file ...
MapCreate(w) ==
  /\ Serving(w, "Map") /\ ~fopen[w] /\ at[w] < nReduce
  /\ out' = [out EXCEPT ![job[w][2]][at[w]] = "part"]
  /\ fopen' = [fopen EXCEPT ![w] = TRUE]
  /\ UNCHANGED <<wpc, nRPC, nJobs, call, job, at, intact, njobs, res>>

\* ... and it is complete when it is closed
MapClose(w) ==
  /\ Serving(w, "Map") /\ fopen[w]
  /\ out' = [out EXCEPT ![job[w][2]][at[w]] = "full"]
  /\ fopen' = [fopen EXCEPT ![w] = FALSE]
  /\ at' = [at EXCEPT ![w] = @ + 1]
  /\ UNCHANGED <<wpc, nRPC, nJobs, call, job, intact, njobs, res>>

\* DoReduce reads the file of each map job (a missing one is log.Fatal; ReduceReadsAll
\* says that none is missing) ...
ReduceRead(w) ==
  /\ Serving(w, "Reduce") /\ at[w] < nMap
  /\ intact' = [intact EXCEPT ![w] = @ /\ out[at[w]][job[w][2]] = "full"]
  /\ at' = [at EXCEPT ![w] = @ + 1]
  /\ UNCHANGED <<wpc, nRPC, nJobs, call, job, fopen, njobs, out, res>>

\* ... and then writes the result
ReduceCreate(w) ==
  /\ Serving(w, "Reduce") /\ ~fopen[w] /\ at[w] = nMap
  /\ res' = [res EXCEPT ![job[w][2]] = "part"]
  /\ fopen' = [fopen EXCEPT ![w] = TRUE]
  /\ UNCHANGED <<wpc, nRPC, nJobs, call, job, at, intact, njobs, out>>

ReduceClose(w) ==
  /\ Serving(w, "Reduce") /\ fopen[w]
  /\ res' = [res EXCEPT ![job[w][2]] = IF intact[w] THEN "full" ELSE "wrong"]
  /\ fopen' = [fopen EXCEPT ![w] = FALSE]
  /\ at' = [at EXCEPT ![w] = @ + 1]
  /\ UNCHANGED <<wpc, nRPC, nJobs, call, job, intact, njobs, out>>

\* Mutant: DoJob starts the job and replies without waiting for it.
JobFinishedAtOnce(w) == Serving(w, "Map") \/ Serving(w, "Reduce")

\* DoJob replies OK when DoMap or DoReduce has returned
JobFinished(w) ==
  \/ Serving(w, "Map") /\ at[w] = nReduce
  \/ Serving(w, "Reduce") /\ at[w] = nMap + 1

DoJobReply(w) ==
  /\ JobFinished(w)
  /\ call' = [call EXCEPT ![<<w, "DoJob">>] = "replied"]
  /\ UNCHANGED <<wpc, nRPC, nJobs, job, at, fopen, intact, njobs, out, res>>

\* Mutant: nJobs is decremented before it is reported.
ShutdownUncounted(w) ==
  /\ call[<<w, "Shutdown">>] = "serving"
  /\ njobs' = [njobs EXCEPT ![w] = nJobs[w] - 1]
  /\ nRPC' = [nRPC EXCEPT ![w] = 1]
  /\ nJobs' = [nJobs EXCEPT ![w] = @ - 1]
  /\ call' = [call EXCEPT ![<<w, "Shutdown">>] = "replied"]
  /\ UNCHANGED <<wpc, job, at, fopen, intact, out, res>>

\* Worker.Shutdown.  It runs beside the accept loop, so it may come before or after
\* the loop's `nJobs += 1` for its own connection.  (No one reads nJobs afterwards.)
Shutdown(w) ==
  /\ call[<<w, "Shutdown">>] = "serving"
  /\ njobs' = [njobs EXCEPT ![w] = nJobs[w]]
  /\ nRPC' = [nRPC EXCEPT ![w] = 1]
  /\ nJobs' = [nJobs EXCEPT ![w] = @ - 1]
  /\ call' = [call EXCEPT ![<<w, "Shutdown">>] = "replied"]
  /\ UNCHANGED <<wpc, job, at, fopen, intact, out, res>>

AcceptLoop(w) == Registered(w) \/ Check(w) \/ Accept(w) \/ Count(w)

ServeConn(w) ==
  \/ MapCreate(w) \/ MapClose(w)
  \/ ReduceRead(w) \/ ReduceCreate(w) \/ ReduceClose(w)
  \/ DoJobReply(w) \/ Shutdown(w)

=============================================================================
