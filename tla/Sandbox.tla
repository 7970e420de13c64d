------------------------------- MODULE Sandbox -------------------------------
(***************************************************************************)
(* The build of a job: clone_at_commit (worker/src/git.rs) and build with  *)
(* run_docker and locate_wasm (worker/src/sandbox.rs), as execute of       *)
(* worker/src/pipeline.rs runs them for the jobs of one worker process.    *)
(*                                                                         *)
(* A step is a process of its own: a git child, or a docker client that    *)
(* follows a container. The client's stdout and stderr are pipes; one      *)
(* reader task per pipe sends lines into a bounded channel, and run_docker *)
(* writes what it receives to the build log. The build timeout drops all   *)
(* of this wherever it is: the client is killed, but the container, or a   *)
(* git child, goes on by itself. A client whose output nobody reads any    *)
(* more dies of it. The worker process may crash.                          *)
(*                                                                         *)
(* A definition introduced by "Mistake:" is the next definition with one   *)
(* plausible error; no specification uses it.                              *)
(***************************************************************************)
EXTENDS Integers, FiniteSets, Sequences

CONSTANTS
  Jobs,       \* claimed jobs
  MaxBuilds,  \* MAX_CONCURRENT_BUILDS
  Capacity,   \* lines the channel holds
  PipeSize,   \* lines a pipe holds
  MaxLines,   \* stream -> bound on the lines a container writes to it
  Committed,  \* job -> Wasm files its commit has in the target directories
  Products,   \* Wasm files a build may write
  Package,    \* job -> file name of build_config.package, or NONE
  NONE

\* A Wasm file: the target directory, numbered as locate_wasm lists them, its
\* name, and who wrote it last.
Files == [dir : 1..2, name : STRING, by : Jobs \cup {NONE}]

ASSUME SandboxAssumption ==
  /\ MaxBuilds \in Nat /\ Capacity \in Nat \ {0} /\ PipeSize \in Nat \ {0}
  /\ MaxLines \in [{"stdout", "stderr"} -> Nat]
  /\ \A j \in Jobs : Committed[j] \subseteq Files /\ \A f \in Committed[j] : f.by = NONE
  /\ Products \subseteq Files /\ \A f \in Products : f.by = NONE

Streams == {"stdout", "stderr"}
GitSteps == {"init", "remote", "shallow", "full", "checkout"}
DockerSteps == {"fetch", "build"}
Execute == GitSteps \cup DockerSteps \cup {"locate"}
Ended == {"ok", "failed", "lost"}

VARIABLES
  pc,      \* job -> "claimed", the step of execute it is at, or how it ended
  phase,   \* job -> of the step: "idle", "stream" (run_docker's loop), "wait"
  child,   \* job -> the process waited for: "none", "up", "success", "failure"
  procs,   \* <<job, step>>: git children and containers that run
  open,    \* job -> streams whose reader runs
  pipe,    \* job -> stream -> lines in the pipe
  channel, \* job -> the streams of the lines in the channel
  written, \* history: job -> stream -> lines of this step that reached the pipe
  logged,  \* history: job -> stream -> lines of this step in the build log
  warned,  \* history: job -> stream -> lines of this step whose insert failed
  garbled, \* history: job -> a reader of this step met a line that is not UTF-8
  files,   \* workspace -> the Wasm files in its target directories
  taken    \* job -> the artifact that was found, or NONE

streamVars == <<open, pipe, channel, written, logged, warned, garbled>>
vars == <<pc, phase, child, procs, streamVars, files, taken>>

Zero == [s \in Streams |-> 0]

Init ==
  /\ pc = [j \in Jobs |-> "claimed"]
  /\ phase = [j \in Jobs |-> "idle"]
  /\ child = [j \in Jobs |-> "none"]
  /\ procs = {}
  /\ open = [j \in Jobs |-> {}]
  /\ pipe = [j \in Jobs |-> Zero]
  /\ channel = [j \in Jobs |-> <<>>]
  /\ written = [j \in Jobs |-> Zero]
  /\ logged = [j \in Jobs |-> Zero]
  /\ warned = [j \in Jobs |-> Zero]
  /\ garbled = [j \in Jobs |-> FALSE]
  /\ files = [j \in Jobs |-> {}]
  /\ taken = [j \in Jobs |-> NONE]

\* Mistake: the builds share one directory in BUILD_SCRATCH_DIR.
SharedWorkspace(j) == CHOOSE k \in Jobs : TRUE

\* tempdir_in gives every job a directory of its own, named here by the job.
Workspace(j) == j

-----------------------------------------------------------------------------
(* How a step goes over into the next. *)

\* The streams of a step that is over, or has not begun.
ResetStreams(j) ==
  /\ open' = [open EXCEPT ![j] = {}]
  /\ pipe' = [pipe EXCEPT ![j] = Zero]
  /\ channel' = [channel EXCEPT ![j] = <<>>]
  /\ written' = [written EXCEPT ![j] = Zero]
  /\ logged' = [logged EXCEPT ![j] = Zero]
  /\ warned' = [warned EXCEPT ![j] = Zero]
  /\ garbled' = [garbled EXCEPT ![j] = FALSE]

Enter(j, step) ==
  /\ pc' = [pc EXCEPT ![j] = step]
  /\ phase' = [phase EXCEPT ![j] = "idle"]
  /\ child' = [child EXCEPT ![j] = "none"]
  /\ ResetStreams(j)

\* execute returns or is dropped, and with it the temporary directory.
End(j, outcome) ==
  /\ Enter(j, outcome)
  /\ files' = [files EXCEPT ![Workspace(j)] = {}]

\* A permit is free: the task of a claimed job creates its directory.
Begin(j) ==
  /\ pc[j] = "claimed"
  /\ Cardinality({k \in Jobs : pc[k] \in Execute}) < MaxBuilds
  /\ Enter(j, "init")
  /\ UNCHANGED <<procs, files, taken>>

\* A shallow fetch that fails is followed by a full one; any other failure is the
\* job's.
NextStep(step, result) ==
  IF result = "failure" THEN (IF step = "shallow" THEN "full" ELSE "failed")
  ELSE CASE step = "init" -> "remote"      [] step = "remote" -> "shallow"
         [] step = "shallow" -> "checkout" [] step = "full" -> "checkout"
         [] step = "checkout" -> "fetch"   [] step = "fetch" -> "build"
         [] step = "build" -> "locate"

Proceed(j, result) ==
  LET next == NextStep(pc[j], result) IN
    IF next = "failed" THEN End(j, next) ELSE Enter(j, next) /\ UNCHANGED files

\* git and docker are started the same way; what cannot be started failed.
Spawn(j) ==
  /\ pc[j] \in GitSteps \cup DockerSteps /\ phase[j] = "idle"
  /\ phase' = [phase EXCEPT ![j] = IF pc[j] \in DockerSteps THEN "stream" ELSE "wait"]
  /\ child' = [child EXCEPT ![j] = "up"]
  /\ procs' = procs \cup {<<j, pc[j]>>}
  /\ open' = [open EXCEPT ![j] = IF pc[j] \in DockerSteps THEN Streams ELSE {}]
  /\ UNCHANGED <<pc, pipe, channel, written, logged, warned, garbled, files, taken>>

SpawnFails(j) ==
  /\ pc[j] \in GitSteps \cup DockerSteps /\ phase[j] = "idle"
  /\ Proceed(j, "failure")
  /\ UNCHANGED <<procs, taken>>

\* Mistake: the end of the output is taken for the end of the process.
OutputEnded(j, result) ==
  phase[j] = "wait" /\ result = (IF child[j] = "failure" THEN "failure" ELSE "success")

Exited(j, result) == phase[j] = "wait" /\ child[j] = result

\* child.wait, or git's output: the step is over.
Wait(j) ==
  /\ \E result \in {"success", "failure"} : Exited(j, result) /\ Proceed(j, result)
  /\ UNCHANGED <<procs, taken>>

-----------------------------------------------------------------------------
(* The processes. *)

Follows(j, step) == pc[j] = step /\ child[j] = "up"

\* A process ends. Its parent, or the client that follows it, learns how.
Exit(j, step, result) ==
  /\ <<j, step>> \in procs
  /\ procs' = procs \ {<<j, step>>}
  /\ child' = IF Follows(j, step) THEN [child EXCEPT ![j] = result] ELSE child
  /\ UNCHANGED <<pc, phase, streamVars, files, taken>>

Put(j, new) ==
  files' = [files EXCEPT ![Workspace(j)] =
    {f \in @ : \A n \in new : <<f.dir, f.name>> # <<n.dir, n.name>>} \cup new]

\* A checkout, or a build, writes into the workspace. A workspace that was removed
\* under it may come back.
Checkout(j) ==
  /\ <<j, "checkout">> \in procs
  /\ Put(j, Committed[j])
  /\ UNCHANGED <<pc, phase, child, procs, streamVars, taken>>

Compile(j, f) ==
  /\ <<j, "build">> \in procs
  /\ Put(j, {[f EXCEPT !.by = j]})
  /\ UNCHANGED <<pc, phase, child, procs, streamVars, taken>>

\* The container writes a line, and its client passes it on.
Write(j, s) ==
  /\ <<j, pc[j]>> \in procs /\ child[j] = "up" /\ s \in open[j]
  /\ pipe[j][s] < PipeSize /\ written[j][s] < MaxLines[s]
  /\ pipe' = [pipe EXCEPT ![j][s] = @ + 1]
  /\ written' = [written EXCEPT ![j][s] = @ + 1]
  /\ UNCHANGED <<pc, phase, child, procs, open, channel, logged, warned, garbled, files, taken>>

\* Nobody reads the stream any more: the client dies of it, the container goes on.
BrokenPipe(j) ==
  /\ pc[j] \in DockerSteps /\ child[j] = "up" /\ open[j] # Streams
  /\ child' = [child EXCEPT ![j] = "failure"]
  /\ UNCHANGED <<pc, phase, procs, streamVars, files, taken>>

-----------------------------------------------------------------------------
(* run_docker: the readers and the loop that writes the log. *)

\* Mistake: the channel is unbounded.
SendUnbounded(j, s) == channel' = [channel EXCEPT ![j] = Append(@, s)]

Send(j, s) ==
  /\ Len(channel[j]) < Capacity
  /\ channel' = [channel EXCEPT ![j] = Append(@, s)]

Read(j, s) ==
  /\ s \in open[j] /\ pipe[j][s] > 0
  /\ Send(j, s)
  /\ pipe' = [pipe EXCEPT ![j][s] = @ - 1]
  /\ UNCHANGED <<pc, phase, child, procs, open, written, logged, warned, garbled, files, taken>>

CloseReader(j, s) == open' = [open EXCEPT ![j] = @ \ {s}]

\* The next line is not UTF-8: the reader ends, and what is in the pipe is lost.
Garble(j, s) ==
  /\ s \in open[j] /\ pipe[j][s] > 0
  /\ CloseReader(j, s)
  /\ pipe' = [pipe EXCEPT ![j][s] = 0]
  /\ garbled' = [garbled EXCEPT ![j] = TRUE]
  /\ UNCHANGED <<pc, phase, child, procs, channel, written, logged, warned, files, taken>>

\* Mistake: a pipe that is empty for now is taken for one that has ended.
PipeEmpty(j, s) == pipe[j][s] = 0

PipeEnded(j, s) == pipe[j][s] = 0 /\ child[j] \in {"success", "failure"}

\* The client is gone and the pipe empty.
EndOfFile(j, s) ==
  /\ s \in open[j] /\ PipeEnded(j, s)
  /\ CloseReader(j, s)
  /\ UNCHANGED <<pc, phase, child, procs, pipe, channel, written, logged, warned, garbled, files, taken>>

\* Mistake: the output is read after the client has exited.
ReceivesAfterExit(j) == phase[j] = "stream" /\ child[j] # "up"

Receives(j) == phase[j] = "stream"

\* The next line is inserted. An insert that fails, because of the database or because
\* TEXT does not take the line, is a warning; the loop goes on without the line.
Log(j) ==
  /\ Receives(j) /\ channel[j] # <<>>
  /\ channel' = [channel EXCEPT ![j] = Tail(@)]
  /\ \/ logged' = [logged EXCEPT ![j][Head(channel[j])] = @ + 1] /\ UNCHANGED warned
     \/ warned' = [warned EXCEPT ![j][Head(channel[j])] = @ + 1] /\ UNCHANGED logged
  /\ UNCHANGED <<pc, phase, child, procs, open, pipe, written, garbled, files, taken>>

\* Mistake: run_docker keeps its own sender while it receives.
SenderKept(j) == FALSE

\* Mistake: the loop ends when the client does.
ClientGone(j) == child[j] # "up"

SendersGone(j) == open[j] = {} /\ channel[j] = <<>>

\* recv returns None.
StreamEnds(j) ==
  /\ phase[j] = "stream" /\ SendersGone(j)
  /\ phase' = [phase EXCEPT ![j] = "wait"]
  /\ UNCHANGED <<pc, child, procs, streamVars, files, taken>>

-----------------------------------------------------------------------------
(* locate_wasm and the end of execute. *)

\* With a package: the file of that name, in the first directory that has it.
\* Without one: the only file there is.
LocateWasm(candidates, package) ==
  IF package # NONE
  THEN {f \in candidates : f.name = package /\
          \A g \in candidates : g.name = package => f.dir <= g.dir}
  ELSE {f \in candidates : candidates = {f}}

Locate(j) ==
  /\ pc[j] = "locate"
  /\ LET found == LocateWasm(files[Workspace(j)], Package[j]) IN
       \/ \E f \in found : taken' = [taken EXCEPT ![j] = f] /\ End(j, "ok")
       \/ found = {} /\ UNCHANGED taken /\ End(j, "failed")
  /\ UNCHANGED procs

\* BUILD_TIMEOUT_SECS pass: execute is dropped where it is.
Timeout(j) ==
  /\ pc[j] \in Execute
  /\ End(j, "failed")
  /\ UNCHANGED <<procs, taken>>

\* The worker process dies: nothing is cleaned up.
Crash ==
  /\ \E j \in Jobs : pc[j] \in Execute
  /\ LET live == {j \in Jobs : pc[j] \in Execute}
         Clear(f, v) == [j \in Jobs |-> IF j \in live THEN v ELSE f[j]]
     IN  /\ pc' = Clear(pc, "lost") /\ phase' = Clear(phase, "idle")
         /\ child' = Clear(child, "none") /\ open' = Clear(open, {})
         /\ pipe' = Clear(pipe, Zero) /\ channel' = Clear(channel, <<>>)
         /\ written' = Clear(written, Zero) /\ logged' = Clear(logged, Zero)
         /\ warned' = Clear(warned, Zero) /\ garbled' = Clear(garbled, FALSE)
  /\ UNCHANGED <<procs, files, taken>>

-----------------------------------------------------------------------------
Processes(j) ==
  \/ \E step \in GitSteps \cup DockerSteps, result \in {"success", "failure"} : Exit(j, step, result)
  \/ Checkout(j)
  \/ \E f \in Products : Compile(j, f)
  \/ \E s \in Streams : Write(j, s)
  \/ BrokenPipe(j)

RunDocker(j) ==
  \/ \E s \in Streams : Read(j, s) \/ Garble(j, s) \/ EndOfFile(j, s)
  \/ Log(j) \/ StreamEnds(j)

Next ==
  \/ \E j \in Jobs :
       \/ Begin(j) \/ Spawn(j) \/ SpawnFails(j) \/ Wait(j) \/ Locate(j) \/ Timeout(j)
       \/ RunDocker(j) \/ Processes(j)
  \/ Crash

Spec == Init /\ [][Next]_vars

(* The runtime keeps polling its tasks, the loop and the two readers, and   *)
(* the channel serves waiting senders in turn. Of git, docker and the       *)
(* containers nothing is assumed: not that they write, nor that they end;   *)
(* the timeout is not relied on.                                            *)
FairSpec ==
  /\ Spec
  /\ \A j \in Jobs :
       /\ WF_vars(Log(j) \/ StreamEnds(j))
       /\ \A s \in Streams : SF_vars(Read(j, s) \/ EndOfFile(j, s))

-----------------------------------------------------------------------------
(* Properties *)

TypeOK ==
  /\ pc \in [Jobs -> {"claimed"} \cup Execute \cup Ended]
  /\ phase \in [Jobs -> {"idle", "stream", "wait"}]
  /\ child \in [Jobs -> {"none", "up", "success", "failure"}]
  /\ procs \subseteq Jobs \X (GitSteps \cup DockerSteps)
  /\ open \in [Jobs -> SUBSET Streams]
  /\ pipe \in [Jobs -> [Streams -> 0..PipeSize]]
  /\ \A j \in Jobs : channel[j] \in Seq(Streams) /\ Len(channel[j]) <= Capacity
  /\ \A j \in Jobs, s \in Streams :
       /\ written[j][s] \in 0..MaxLines[s]
       /\ logged[j][s] \in 0..written[j][s] /\ warned[j][s] \in 0..written[j][s]
  /\ garbled \in [Jobs -> BOOLEAN]
  /\ \A j \in Jobs : files[j] \subseteq Files /\ taken[j] \in Files \cup {NONE}

\* No step begins while a process of an earlier step of the job still runs, for
\* they would share the workspace. What outlives its step outlives the job.
StepsDoNotOverlap ==
  \A p \in procs : pc[p[1]] \in {p[2], "failed", "lost"}

\* A docker step that succeeds lacks a line of its output in the build log only with
\* a warning, or after a line that was not UTF-8: run_docker itself loses none,
\* although the client exits before its last lines are read.
OnlyWarnedIsMissing ==
  \A j \in Jobs : phase[j] = "wait" /\ child[j] = "success" /\ ~garbled[j] =>
    \A s \in Streams : logged[j][s] + warned[j][s] = written[j][s]

\* A container that still runs is taken for failed only after a line that was not
\* UTF-8: neither a slow log nor a full channel fails a build.
GivenUpOnlyWhenGarbled ==
  \A j \in Jobs : child[j] = "failure" /\ <<j, pc[j]>> \in procs => garbled[j]

\* The Wasm files of a commit that locate_wasm may take for the job's.
Shipped(j) == {f \in Committed[j] : Package[j] \in {NONE, f.name}}

\* Whatever builds that timed out or crashed still write, no job takes a file of
\* another one; and a commit that ships no such file yields what its own build wrote.
NoForeignArtifact ==
  \A j \in Jobs : taken[j] # NONE =>
    /\ taken[j].by \in {j, NONE}
    /\ Shipped(j) = {} => taken[j].by = j

\* When the client of a step has exited, run_docker gets to the end of its output.
StreamIsDrained ==
  \A j \in Jobs : phase[j] = "stream" /\ child[j] # "up" ~> phase[j] # "stream"

\* A full pipe does not stay full: the container is held up by a slow log, never
\* stopped by it.
WriterResumes ==
  \A j \in Jobs, s \in Streams : pipe[j][s] = PipeSize ~> pipe[j][s] < PipeSize

-----------------------------------------------------------------------------
\* sandbox.rs, of locate_wasm: "Finds the built Wasm under the standard soroban
\* target dirs": the artifact was written by the job's build.
ArtifactIsBuilt == \A j \in Jobs : taken[j] # NONE => taken[j].by = j
=============================================================================
