----------------------------- MODULE MapReduce -----------------------------
(***************************************************************************)
(* The MapReduce master (mapreduce/master.go, and Run, Register and        *)
(* CleanupRegistration of mapreduce.go) together with its workers.         *)
(*                                                                         *)
(* `RunMaster` is a select loop; for each worker that registers it starts  *)
(* a goroutine `RunWorker(w)` that takes jobs from the channels mapJobs    *)
(* and reduceJobs, has w do them, and puts back the job that failed.       *)
(***************************************************************************)
EXTENDS MrWorker

VARIABLES
  mpc,          \* where Run and the functions it calls are
  mopen,        \* the registration server listens
  registered,   \* mr.Workers
  jobs,         \* the channels mapJobs and reduceJobs, by phase
  done,         \* the channels mapDone and reduceDone: the number of values in each
  count,        \* RunMaster's counters mapDone and reduceDone
  reduceStart,  \* the channel reduceStart is closed
  rw,           \* where the goroutine RunWorker(w) is
  toKill,       \* the workers the loop of KillWorkers has not reached
  stats,        \* mr.stats, with the worker each entry came from
  output        \* the file mrtmp.f

mvars == <<mpc, mopen, registered, jobs, done, count, reduceStart, rw, toKill, stats, output>>
vars == <<wvars, mvars>>

Phases == {"Map", "Reduce"}
Total == [p \in Phases |-> IF p = "Map" THEN nMap ELSE nReduce]

\* The state is well typed; no channel of jobs holds more than its capacity, and no
\* worker reports a negative number of jobs.
TypeOK ==
  /\ WorkerTypeOK
  /\ mpc \in {"split", "run", "kill", "merge", "cleanup", "send", "end"}
  /\ mopen \in BOOLEAN
  /\ registered \subseteq Workers
  /\ jobs \in [Phases -> Seq(Nat)] /\ \A p \in Phases : Len(jobs[p]) <= Total[p]
  /\ done \in [Phases -> Nat] /\ \A p \in Phases : done[p] <= Total[p]
  /\ count \in [Phases -> Nat]
  /\ reduceStart \in BOOLEAN
  /\ rw \in [Workers -> {"off", "Map", "Reduce", "returned"}]
  /\ toKill \subseteq Workers
  /\ stats \subseteq (Workers \X Nat)
  /\ output \in FileState

\* InitMapReduce and StartRegistrationServer
Init ==
  /\ WorkerInit
  /\ mpc = "split"
  /\ mopen = TRUE
  /\ registered = {}
  /\ jobs = [p \in Phases |-> [i \in 1 .. Total[p] |-> i - 1]]
  /\ done = [p \in Phases |-> 0]
  /\ count = [p \in Phases |-> 0]
  /\ reduceStart = FALSE
  /\ rw = [w \in Workers |-> "off"]
  /\ toKill = {}
  /\ stats = {}
  /\ output = "none"

\* a worker starts: not a step of the system's own
Start(w) == StartWorker(w) /\ UNCHANGED mvars

Loop(w) == AcceptLoop(w) /\ UNCHANGED mvars

Serve(w) == ServeConn(w) /\ UNCHANGED mvars

-----------------------------------------------------------------------------
(* Registration *)

\* MapReduce.Register is called, and blocks at `registerChannel <- args.Worker`
RegisterCall(w) ==
  /\ wpc[w] = "register" /\ mopen
  /\ wpc' = [wpc EXCEPT ![w] = "registering"]
  /\ UNCHANGED <<nRPC, nJobs, call, job, at, fopen, intact, njobs, out, res, mvars>>

\* the master has closed its listener: Register only prints, and the worker goes on
RegisterRefused(w) ==
  /\ wpc[w] = "register" /\ ~mopen
  /\ wpc' = [wpc EXCEPT ![w] = "check"]
  /\ UNCHANGED <<nRPC, nJobs, call, job, at, fopen, intact, njobs, out, res, mvars>>

\* RunMaster, `case w := <-mr.registerChannel`: the channel is unbuffered
MasterRegister(w) ==
  /\ mpc = "run" /\ wpc[w] = "registering"
  /\ wpc' = [wpc EXCEPT ![w] = "registered"]
  /\ rw' = [rw EXCEPT ![w] = "Map"]
  /\ registered' = registered \cup {w}
  /\ UNCHANGED <<nRPC, nJobs, call, job, at, fopen, intact, njobs, out, res>>
  /\ UNCHANGED <<mpc, mopen, jobs, done, count, reduceStart, toKill, stats, output>>

-----------------------------------------------------------------------------
(* The goroutine RunWorker(w) of the master *)

\* a job is received from the phase's channel, and DoJob is called
TakeJob(w) ==
  LET p == rw[w] IN
  /\ p \in Phases /\ job[w] = NoJob
  /\ jobs[p] # <<>>
  /\ jobs' = [jobs EXCEPT ![p] = Tail(@)]
  /\ job' = [job EXCEPT ![w] = <<p, Head(jobs[p])>>]
  /\ Dial(w, "DoJob")
  /\ at' = [at EXCEPT ![w] = 0]
  /\ fopen' = [fopen EXCEPT ![w] = FALSE]
  /\ intact' = [intact EXCEPT ![w] = TRUE]
  /\ UNCHANGED <<wpc, nRPC, nJobs, njobs, out, res>>
  /\ UNCHANGED <<mpc, mopen, registered, done, count, reduceStart, rw, toKill, stats, output>>

\* Mutant: the goroutine returns with the job it failed to have done.
JobFailedLost(w) ==
  /\ call[<<w, "DoJob">>] = "failed"
  /\ job' = [job EXCEPT ![w] = NoJob]
  /\ call' = [call EXCEPT ![<<w, "DoJob">>] = "none"]
  /\ rw' = [rw EXCEPT ![w] = "returned"]
  /\ UNCHANGED <<wpc, nRPC, nJobs, at, fopen, intact, njobs, out, res>>
  /\ UNCHANGED <<mpc, mopen, registered, jobs, done, count, reduceStart, toKill, stats, output>>

\* call returned false: the job goes back to its channel, and the goroutine returns
JobFailed(w) ==
  LET p == rw[w] IN
  /\ call[<<w, "DoJob">>] = "failed"
  /\ Len(jobs[p]) < Total[p]
  /\ jobs' = [jobs EXCEPT ![p] = Append(@, job[w][2])]
  /\ job' = [job EXCEPT ![w] = NoJob]
  /\ call' = [call EXCEPT ![<<w, "DoJob">>] = "none"]
  /\ rw' = [rw EXCEPT ![w] = "returned"]
  /\ UNCHANGED <<wpc, nRPC, nJobs, at, fopen, intact, njobs, out, res>>
  /\ UNCHANGED <<mpc, mopen, registered, done, count, reduceStart, toKill, stats, output>>

\* call returned true; a worker always replies OK
JobDone(w) ==
  LET p == rw[w] IN
  /\ call[<<w, "DoJob">>] = "replied"
  /\ done[p] < Total[p]
  /\ done' = [done EXCEPT ![p] = @ + 1]
  /\ job' = [job EXCEPT ![w] = NoJob]
  /\ call' = [call EXCEPT ![<<w, "DoJob">>] = "none"]
  /\ UNCHANGED <<wpc, nRPC, nJobs, at, fopen, intact, njobs, out, res>>
  /\ UNCHANGED <<mpc, mopen, registered, jobs, count, reduceStart, rw, toKill, stats, output>>

\* `case <-mr.reduceStart`
ToReduce(w) ==
  /\ rw[w] = "Map" /\ job[w] = NoJob /\ reduceStart
  /\ rw' = [rw EXCEPT ![w] = "Reduce"]
  /\ UNCHANGED <<wvars, mpc, mopen, registered, jobs, done, count, reduceStart, toKill, stats, output>>

\* the `default` of the second select: no reduce job is waiting
NoMoreJobs(w) ==
  /\ rw[w] = "Reduce" /\ job[w] = NoJob /\ jobs["Reduce"] = <<>>
  /\ rw' = [rw EXCEPT ![w] = "returned"]
  /\ UNCHANGED <<wvars, mpc, mopen, registered, jobs, done, count, reduceStart, toKill, stats, output>>

-----------------------------------------------------------------------------
(* Run and RunMaster *)

Split ==
  /\ mpc = "split"
  /\ mpc' = "run"
  /\ UNCHANGED <<wvars, mopen, registered, jobs, done, count, reduceStart, rw, toKill, stats, output>>

\* Mutant: the reduce phase starts when the last map job was handed out.
MapDoneEarly ==
  /\ mpc = "run" /\ done["Map"] > 0
  /\ done' = [done EXCEPT !["Map"] = @ - 1]
  /\ count' = [count EXCEPT !["Map"] = @ + 1]
  /\ reduceStart' = (reduceStart \/ jobs["Map"] = <<>>)
  /\ UNCHANGED <<wvars, mpc, mopen, registered, jobs, rw, toKill, stats, output>>

\* Mutant: the counter is compared before it is incremented.
MapDoneLate ==
  /\ mpc = "run" /\ done["Map"] > 0
  /\ done' = [done EXCEPT !["Map"] = @ - 1]
  /\ count' = [count EXCEPT !["Map"] = @ + 1]
  /\ reduceStart' = (reduceStart \/ count["Map"] = nMap)
  /\ UNCHANGED <<wvars, mpc, mopen, registered, jobs, rw, toKill, stats, output>>

\* `case <-mr.mapDone`
MapDone ==
  /\ mpc = "run" /\ done["Map"] > 0
  /\ done' = [done EXCEPT !["Map"] = @ - 1]
  /\ count' = [count EXCEPT !["Map"] = @ + 1]
  /\ reduceStart' = (reduceStart \/ count["Map"] + 1 = nMap)
  /\ UNCHANGED <<wvars, mpc, mopen, registered, jobs, rw, toKill, stats, output>>

\* Mutant: the master leaves its loop one reduce job too early.
ReduceDoneEarly ==
  /\ mpc = "run" /\ done["Reduce"] > 0
  /\ done' = [done EXCEPT !["Reduce"] = @ - 1]
  /\ count' = [count EXCEPT !["Reduce"] = @ + 1]
  /\ IF count["Reduce"] + 1 >= nReduce - 1
     THEN mpc' = "kill" /\ toKill' = registered
     ELSE UNCHANGED <<mpc, toKill>>
  /\ UNCHANGED <<wvars, mopen, registered, jobs, reduceStart, rw, stats, output>>

\* `case <-mr.reduceDone`; the last one leads to KillWorkers
ReduceDone ==
  /\ mpc = "run" /\ done["Reduce"] > 0
  /\ done' = [done EXCEPT !["Reduce"] = @ - 1]
  /\ count' = [count EXCEPT !["Reduce"] = @ + 1]
  /\ IF count["Reduce"] + 1 = nReduce
     THEN mpc' = "kill" /\ toKill' = registered
     ELSE UNCHANGED <<mpc, toKill>>
  /\ UNCHANGED <<wvars, mopen, registered, jobs, reduceStart, rw, stats, output>>

\* the Shutdown calls of KillWorkers, one at a time, in the order of a map
Killing == \E w \in Workers : call[<<w, "Shutdown">>] # "none"

KillCall(w) ==
  /\ mpc = "kill" /\ ~Killing /\ w \in toKill
  /\ toKill' = toKill \ {w}
  /\ Dial(w, "Shutdown")
  /\ UNCHANGED <<wpc, nRPC, nJobs, job, at, fopen, intact, njobs, out, res>>
  /\ UNCHANGED <<mpc, mopen, registered, jobs, done, count, reduceStart, rw, stats, output>>

KillReturn(w) ==
  /\ call[<<w, "Shutdown">>] \in {"replied", "failed"}
  /\ stats' = IF call[<<w, "Shutdown">>] = "replied" THEN stats \cup {<<w, njobs[w]>>} ELSE stats
  /\ call' = [call EXCEPT ![<<w, "Shutdown">>] = "none"]
  /\ UNCHANGED <<wpc, nRPC, nJobs, job, at, fopen, intact, njobs, out, res>>
  /\ UNCHANGED <<mpc, mopen, registered, jobs, done, count, reduceStart, rw, toKill, output>>

Killed ==
  /\ mpc = "kill" /\ ~Killing /\ toKill = {}
  /\ mpc' = "merge"
  /\ UNCHANGED <<wvars, mopen, registered, jobs, done, count, reduceStart, rw, toKill, stats, output>>

\* Merge reads the result of every reduce job (a missing one is log.Fatal)
Merge ==
  /\ mpc = "merge"
  /\ output' = IF \A r \in ReduceJobs : res[r] = "full" THEN "full" ELSE "wrong"
  /\ mpc' = "cleanup"
  /\ UNCHANGED <<wvars, mopen, registered, jobs, done, count, reduceStart, rw, toKill, stats>>

\* CleanupRegistration: the master's own Shutdown RPC closes its listener
CleanupRegistration ==
  /\ mpc = "cleanup"
  /\ mopen' = FALSE
  /\ mpc' = "send"
  /\ UNCHANGED <<wvars, registered, jobs, done, count, reduceStart, rw, toKill, stats, output>>

\* `mr.DoneChannel <- true`: main and the tests wait for it
Finish ==
  /\ mpc = "send"
  /\ mpc' = "end"
  /\ UNCHANGED <<wvars, mopen, registered, jobs, done, count, reduceStart, rw, toKill, stats, output>>

-----------------------------------------------------------------------------

Registration(w) == RegisterCall(w) \/ RegisterRefused(w) \/ MasterRegister(w)

RunWorker(w) == TakeJob(w) \/ JobFailed(w) \/ JobDone(w) \/ ToReduce(w) \/ NoMoreJobs(w)

KillWorkers == Killed \/ \E w \in Workers : KillCall(w) \/ KillReturn(w)

Run == Split \/ MapDone \/ ReduceDone \/ KillWorkers \/ Merge \/ CleanupRegistration \/ Finish

Next ==
  \/ Run
  \/ \E w \in Workers : Start(w) \/ Loop(w) \/ Serve(w) \/ Registration(w) \/ RunWorker(w)

Spec == Init /\ [][Next]_vars

\* Every goroutine that can go on does, as the Go scheduler sees to, and every worker
\* is started, as the tests do.  RunMaster's select is fair to each registration:
\* Go picks one of the ready cases at random.
Fairness ==
  /\ WF_vars(Run)
  /\ \A w \in Workers :
       /\ WF_vars(Start(w)) /\ WF_vars(Loop(w)) /\ WF_vars(Serve(w)) /\ WF_vars(RunWorker(w))
       /\ WF_vars(RegisterCall(w) \/ RegisterRefused(w)) /\ WF_vars(MasterRegister(w))

FairSpec == Spec /\ Fairness

-----------------------------------------------------------------------------
(* Properties *)

\* the jobs of phase p that a goroutine of the master has taken from their channel
Held(p) == {w \in Workers : job[w] # NoJob /\ job[w][1] = p}

\* Every job is waiting in its channel, held by one goroutine, or done, and the done
\* ones are counted once: whatever calls fail, no job is lost, none is given to two
\* workers at a time, and none is done again after its result was counted.
JobsConserved ==
  \A p \in Phases :
    LET queued == {jobs[p][i] : i \in 1 .. Len(jobs[p])}
        held == {job[w][2] : w \in Held(p)}
    IN /\ Cardinality(queued) = Len(jobs[p])
       /\ Cardinality(held) = Cardinality(Held(p))
       /\ queued \cap held = {}
       /\ Len(jobs[p]) + Cardinality(held) + done[p] + count[p] = Total[p]

\* A reduce job runs only when the output of every map job is complete, and stays so
\* while it reads: mapDone counts a job after its last file is closed, and no worker
\* writes a map output again once reduceStart is closed.
ReduceReadsAll ==
  \A w \in Workers :
    Serving(w, "Reduce") => \A m \in MapJobs, r \in ReduceJobs : out[m][r] = "full"

\* The output is merged from the complete results of all reduce jobs, and no worker
\* is still writing one: the shutdown of the workers comes after the last result.
OutputComplete ==
  /\ mpc \in {"cleanup", "send", "end"} => output = "full"
  /\ mpc \in {"kill", "merge", "cleanup", "send", "end"} =>
       \A w \in Workers : call[<<w, "DoJob">>] = "none"

\* The master finishes, and sends on the DoneChannel that main and the tests wait for,
\* unless a job is left over after every RunWorker goroutine has returned: as long as one
\* has not, a job that another one put back is taken up again.
Finishes ==
  <>(mpc = "end" \/ ((\A w \in Workers : rw[w] = "returned") /\ \E p \in Phases : jobs[p] # <<>>))

=============================================================================
