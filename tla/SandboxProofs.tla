---------------------------- MODULE SandboxProofs ----------------------------
(***************************************************************************)
(* Proofs about Sandbox.tla, for every set of jobs, any number of permits, *)
(* any size of pipe and channel and any length of output, with timeouts    *)
(* and crashes in every state.                                             *)
(*                                                                         *)
(* The inductive invariant says which processes a job may have             *)
(* (ProcessesFollowed), who wrote its files (FilesAreOwn), where its lines *)
(* are (LinesAccounted), and that a reader leaves a running client only    *)
(* after a garbled line (ReadersStopGarbled).                              *)
(***************************************************************************)
EXTENDS Sandbox, FiniteSetTheorems, FunctionTheorems, SequenceTheorems, TLAPS

Steps == {"claimed"} \cup Execute \cup Ended

StepTypes ==
  /\ pc \in [Jobs -> Steps]
  /\ phase \in [Jobs -> {"idle", "stream", "wait"}]
  /\ child \in [Jobs -> {"none", "up", "success", "failure"}]
  /\ procs \subseteq Jobs \X (GitSteps \cup DockerSteps)
  /\ \A j \in Jobs : phase[j] # "idle" => pc[j] \in GitSteps \cup DockerSteps

StreamTypes ==
  /\ open \in [Jobs -> SUBSET Streams]
  /\ pipe \in [Jobs -> [Streams -> 0..PipeSize]]
  /\ channel \in [Jobs -> Seq(Streams)]
  /\ written \in [Jobs -> [Streams -> Nat]]
  /\ logged \in [Jobs -> [Streams -> Nat]] /\ warned \in [Jobs -> [Streams -> Nat]]
  /\ garbled \in [Jobs -> BOOLEAN]
  /\ \A j \in Jobs : Len(channel[j]) <= Capacity
  /\ \A j \in Jobs, s \in Streams : written[j][s] <= MaxLines[s]

FileTypes ==
  /\ files \in [Jobs -> SUBSET Files]
  /\ taken \in [Jobs -> Files \cup {NONE}]

\* A process that runs is one the job waits for, or one it left behind when it
\* ended. The worker may take a container that runs for failed, never for done.
ProcessesFollowed ==
  \A j \in Jobs, step \in GitSteps \cup DockerSteps : <<j, step>> \in procs =>
    \/ pc[j] \in {"failed", "lost"}
    \/ /\ pc[j] = step /\ phase[j] # "idle"
       /\ child[j] = "up" \/ (step \in DockerSteps /\ child[j] = "failure")

FilesAreOwn ==
  \A j \in Jobs : \A f \in files[j] : f.by = j \/ f \in Committed[j]

\* The lines of stream s in a channel.
Count(q, s) == Cardinality({i \in 1..Len(q) : q[i] = s})

\* Lines are logged, have had their warning, or are in the channel or in the pipe;
\* only garbled ones are lost. A stream without reader has an empty pipe, and outside
\* of run_docker's loop there are neither readers nor lines in the channel.
LinesAccounted ==
  \A j \in Jobs :
    /\ \A s \in Streams :
         /\ logged[j][s] + warned[j][s] + Count(channel[j], s) + pipe[j][s] <= written[j][s]
         /\ ~garbled[j] => logged[j][s] + warned[j][s] + Count(channel[j], s) + pipe[j][s] = written[j][s]
         /\ s \notin open[j] => pipe[j][s] = 0
    /\ phase[j] # "stream" => open[j] = {} /\ channel[j] = <<>>

\* An artifact was built by its job, or shipped with its commit under a name that
\* locate_wasm looks for.
ArtifactIsOwn ==
  \A j \in Jobs : taken[j] # NONE => taken[j].by = j \/ taken[j] \in Shipped(j)

\* A reader stops beside a running client, and a client beside a running container,
\* only after a garbled line.
ReadersStopGarbled ==
  \A j \in Jobs :
    /\ pc[j] \in DockerSteps /\ child[j] = "up" /\ open[j] # Streams => garbled[j]
    /\ child[j] = "failure" /\ <<j, pc[j]>> \in procs => garbled[j]

IInv ==
  /\ StepTypes /\ StreamTypes /\ FileTypes
  /\ ProcessesFollowed /\ FilesAreOwn /\ ArtifactIsOwn /\ LinesAccounted
  /\ ReadersStopGarbled

-----------------------------------------------------------------------------
(* Counting lines. *)

LEMMA CountIsNat ==
  ASSUME NEW q \in Seq(Streams), NEW s
  PROVE  Count(q, s) \in Nat
<1> DEFINE places == {i \in 1..Len(q) : q[i] = s}
<1>1. IsFiniteSet(1..Len(q)) /\ places \in SUBSET (1..Len(q))
  BY LenProperties, FS_Interval
<1>2. IsFiniteSet(places)
  <2> HIDE DEF places
  <2> QED BY <1>1, FS_Subset
<1> QED BY <1>2, FS_CardinalityType DEF Count

LEMMA CountEmpty == \A s : Count(<<>>, s) = 0
<1> SUFFICES ASSUME NEW s PROVE Count(<<>>, s) = 0
  OBVIOUS
<1>1. {i \in 1..Len(<<>>) : <<>>[i] = s} = {}
  OBVIOUS
<1> QED BY <1>1, FS_EmptySet DEF Count

LEMMA CountAppend ==
  ASSUME NEW q \in Seq(Streams), NEW t \in Streams, NEW s
  PROVE  Count(Append(q, t), s) = Count(q, s) + (IF t = s THEN 1 ELSE 0)
<1> DEFINE places == {i \in 1..Len(q) : q[i] = s}
<1> DEFINE r == Append(q, t)
<1> DEFINE new == {i \in 1..Len(r) : r[i] = s}
<1>1. /\ Len(q) \in Nat /\ Len(r) = Len(q) + 1 /\ r[Len(q) + 1] = t
      /\ \A i \in 1..Len(q) : r[i] = q[i]
  BY AppendProperties, LenProperties
<1>2. IsFiniteSet(places)
  <2>1. IsFiniteSet(1..Len(q)) /\ places \in SUBSET (1..Len(q))
    BY <1>1, FS_Interval
  <2> HIDE DEF places
  <2> QED BY <2>1, FS_Subset
<1>3. Cardinality(places) \in Nat /\ Len(q) + 1 \notin places
  BY <1>1, <1>2, FS_CardinalityType
<1>4. new = IF t = s THEN places \cup {Len(q) + 1} ELSE places
  <2> HIDE DEF r
  <2> QED BY <1>1
<1>5. Cardinality(new) = Cardinality(places) + (IF t = s THEN 1 ELSE 0)
  <2> HIDE DEF places, new
  <2>1. Cardinality(places \cup {Len(q) + 1}) = Cardinality(places) + 1
    BY <1>2, <1>3, FS_AddElement
  <2> QED BY <1>3, <1>4, <2>1
<1> QED BY <1>5 DEF Count

LEMMA CountTail ==
  ASSUME NEW q \in Seq(Streams), q # <<>>, NEW s
  PROVE  Count(q, s) = Count(Tail(q), s) + (IF Head(q) = s THEN 1 ELSE 0)
<1> DEFINE r == Tail(q)
<1> DEFINE old == {i \in 1..Len(q) : q[i] = s}
<1> DEFINE rest == {i \in 1..Len(r) : r[i] = s}
<1> DEFINE later == {i \in old : i # 1}
<1> DEFINE shift == [i \in rest |-> i + 1]
<1>1. /\ Len(q) \in Nat \ {0} /\ Len(r) = Len(q) - 1 /\ Head(q) = q[1]
      /\ \A i \in 1..Len(r) : r[i] = q[i + 1]
  BY HeadTailProperties, LenProperties, EmptySeq
<1>2. IsFiniteSet(old)
  <2>1. IsFiniteSet(1..Len(q)) /\ old \in SUBSET (1..Len(q))
    BY <1>1, FS_Interval
  <2> HIDE DEF old
  <2> QED BY <2>1, FS_Subset
<1>3. IsFiniteSet(rest)
  <2>1. IsFiniteSet(1..Len(r)) /\ rest \in SUBSET (1..Len(r))
    BY <1>1, FS_Interval
  <2> HIDE DEF rest
  <2> QED BY <2>1, FS_Subset
<1>4. Cardinality(later) = Cardinality(rest)
  <2>1. shift \in [rest -> later]
    <3> SUFFICES ASSUME NEW i \in rest PROVE i + 1 \in later
      OBVIOUS
    <3> HIDE DEF r
    <3> QED BY <1>1
  <2>2. \A a, b \in rest : shift[a] = shift[b] => a = b
    <3> HIDE DEF r
    <3> QED BY <1>1
  <2>3. \A k \in later : \E i \in rest : shift[i] = k
    <3> SUFFICES ASSUME NEW k \in later PROVE \E i \in rest : shift[i] = k
      OBVIOUS
    <3> HIDE DEF r
    <3>1. k - 1 \in rest
      BY <1>1
    <3> QED BY <1>1, <3>1
  <2>4. shift \in Bijection(rest, later)
    <3> HIDE DEF shift, rest, later
    <3> QED BY <2>1, <2>2, <2>3, Fun_IsBij
  <2>5. ExistsBijection(rest, later)
    <3> HIDE DEF shift, rest, later
    <3> QED BY <2>4 DEF ExistsBijection
  <2> HIDE DEF rest, later
  <2> QED BY <1>3, <2>5, FS_Bijection
<1>5. 1 \in old <=> Head(q) = s
  BY <1>1
<1>6. later = old \ {1}
  OBVIOUS
<1>7. Cardinality(old) = Cardinality(rest) + (IF Head(q) = s THEN 1 ELSE 0)
  <2> HIDE DEF old, rest, later
  <2>1. Cardinality(old) \in Nat /\ Cardinality(rest) \in Nat
    BY <1>2, <1>3, FS_CardinalityType
  <2>2. Cardinality(later) = IF 1 \in old THEN Cardinality(old) - 1 ELSE Cardinality(old)
    BY <1>2, <1>6, FS_RemoveElement
  <2> QED BY <1>4, <1>5, <2>1, <2>2
<1> QED BY <1>7 DEF Count

-----------------------------------------------------------------------------
(* Steps of execute. *)

LEMMA InitHolds == Init => IInv
<1> SUFFICES ASSUME Init PROVE IInv
  OBVIOUS
<1> USE SandboxAssumption DEF Init
<1>1. StepTypes
  BY DEF StepTypes, Steps
<1>2. StreamTypes
  BY EmptySeq DEF StreamTypes, Zero, Streams
<1>3. FileTypes /\ ProcessesFollowed /\ FilesAreOwn /\ ArtifactIsOwn
  BY DEF FileTypes, ProcessesFollowed, FilesAreOwn, ArtifactIsOwn
<1>4. LinesAccounted
  BY CountEmpty DEF LinesAccounted, Zero
<1>5. ReadersStopGarbled
  BY DEF ReadersStopGarbled, DockerSteps
<1> QED BY <1>1, <1>2, <1>3, <1>4, <1>5 DEF IInv

\* Entering a step starts from nothing: no child, no readers, no lines.
LEMMA EnterStarts ==
  ASSUME IInv, NEW j \in Jobs, NEW step \in Steps, Enter(j, step), UNCHANGED procs
  PROVE  /\ pc' \in [Jobs -> Steps]
         /\ phase' \in [Jobs -> {"idle", "stream", "wait"}]
         /\ child' \in [Jobs -> {"none", "up", "success", "failure"}]
         /\ StreamTypes' /\ LinesAccounted' /\ ReadersStopGarbled'
         /\ pc'[j] = step /\ phase'[j] = "idle"
         /\ \A k \in Jobs \ {j} :
              pc'[k] = pc[k] /\ phase'[k] = phase[k] /\ child'[k] = child[k]
<1> USE DEF IInv, Enter, ResetStreams
<1>1. pc' \in [Jobs -> Steps] /\ pc'[j] = step /\ phase'[j] = "idle"
  BY DEF StepTypes
<1>2. /\ phase' \in [Jobs -> {"idle", "stream", "wait"}]
      /\ child' \in [Jobs -> {"none", "up", "success", "failure"}]
      /\ \A k \in Jobs \ {j} :
           pc'[k] = pc[k] /\ phase'[k] = phase[k] /\ child'[k] = child[k]
  BY DEF StepTypes
<1>3. StreamTypes'
  <2>1. Zero \in [Streams -> 0..PipeSize] /\ Zero \in [Streams -> Nat] /\ <<>> \in Seq(Streams)
    BY SandboxAssumption, EmptySeq DEF Zero
  <2>2. \A k \in Jobs : Len(channel'[k]) <= Capacity
    BY SandboxAssumption DEF StreamTypes
  <2>3. \A k \in Jobs, s \in Streams : written'[k][s] <= MaxLines[s]
    <3>1. \A s \in Streams : 0 <= MaxLines[s]
      BY SandboxAssumption DEF Streams
    <3> QED BY <3>1 DEF StreamTypes, Zero
  <2> QED BY <2>1, <2>2, <2>3 DEF StreamTypes
<1>4. LinesAccounted'
  <2> SUFFICES ASSUME NEW k \in Jobs
      PROVE  (/\ \A s \in Streams :
                   /\ logged[k][s] + warned[k][s] + Count(channel[k], s) + pipe[k][s] <= written[k][s]
                   /\ ~garbled[k] =>
                        logged[k][s] + warned[k][s] + Count(channel[k], s) + pipe[k][s] = written[k][s]
                   /\ s \notin open[k] => pipe[k][s] = 0
              /\ phase[k] # "stream" => open[k] = {} /\ channel[k] = <<>>)'
    BY DEF LinesAccounted
  <2>1. CASE k = j
    <3>1. /\ logged'[j] = Zero /\ warned'[j] = Zero /\ pipe'[j] = Zero /\ written'[j] = Zero
          /\ channel'[j] = <<>> /\ open'[j] = {}
      BY DEF StreamTypes
    <3> QED BY <2>1, <3>1, CountEmpty DEF Zero
  <2>2. CASE k # j
    <3>1. /\ logged'[k] = logged[k] /\ warned'[k] = warned[k]
          /\ pipe'[k] = pipe[k] /\ written'[k] = written[k]
          /\ channel'[k] = channel[k] /\ open'[k] = open[k] /\ garbled'[k] = garbled[k]
          /\ phase'[k] = phase[k]
      BY <1>2, <2>2 DEF StreamTypes
    <3> QED BY <3>1 DEF LinesAccounted
  <2> QED BY <2>1, <2>2
<1>5. ReadersStopGarbled'
  <2>1. child'[j] = "none"
    BY DEF StepTypes
  <2>2. \A k \in Jobs \ {j} : open'[k] = open[k] /\ garbled'[k] = garbled[k]
    BY DEF StreamTypes
  <2> QED BY <1>2, <2>1, <2>2 DEF ReadersStopGarbled
<1> QED BY <1>1, <1>2, <1>3, <1>4, <1>5

\* When a job's execute is over its files are gone, and what still runs for it may
\* go on.
LEMMA EndKeeps ==
  ASSUME IInv, NEW j \in Jobs, NEW outcome \in Steps, End(j, outcome), UNCHANGED procs,
         \/ outcome \in {"failed", "lost"}
         \/ \A step \in GitSteps \cup DockerSteps : <<j, step>> \notin procs
  PROVE  /\ StepTypes' /\ StreamTypes' /\ LinesAccounted' /\ ReadersStopGarbled' /\ ProcessesFollowed'
         /\ files' \in [Jobs -> SUBSET Files] /\ FilesAreOwn'
<1> USE DEF IInv
<1>1. Enter(j, outcome) /\ files' = [files EXCEPT ![j] = {}]
  BY DEF End, Workspace
<1>2. StepTypes' /\ StreamTypes' /\ LinesAccounted' /\ ReadersStopGarbled'
  BY <1>1, EnterStarts DEF StepTypes
<1>3. ProcessesFollowed'
  BY <1>1, EnterStarts DEF ProcessesFollowed
<1>4. files' \in [Jobs -> SUBSET Files] /\ FilesAreOwn'
  BY <1>1 DEF FileTypes, FilesAreOwn
<1> QED BY <1>2, <1>3, <1>4

\* A step is left only when its process is gone, or for failed.
LEMMA ProceedKeeps ==
  ASSUME IInv, NEW j \in Jobs, NEW result \in {"success", "failure"},
         pc[j] \in GitSteps \cup DockerSteps,
         (phase[j] = "idle" /\ result = "failure") \/ (phase[j] # "idle" /\ child[j] = result),
         Proceed(j, result), UNCHANGED <<procs, taken>>
  PROVE  IInv'
<1> USE DEF IInv
<1> DEFINE next == NextStep(pc[j], result)
<1>1. next \in GitSteps \cup DockerSteps \cup {"locate", "failed"}
  BY DEF NextStep, GitSteps, DockerSteps
<1>2. next \in Steps
  BY <1>1 DEF Steps, Execute, Ended
<1>3. CASE next = "failed"
  <2>1. End(j, "failed") /\ "failed" \in Steps
    BY <1>3 DEF Proceed, Steps, Ended
  <2> QED BY <2>1, EndKeeps DEF FileTypes, ArtifactIsOwn, Shipped
<1>4. CASE next # "failed"
  <2>1. Enter(j, next) /\ UNCHANGED files
    BY <1>4 DEF Proceed
  <2>2. \A step \in GitSteps \cup DockerSteps : <<j, step>> \notin procs
    <3> SUFFICES ASSUME NEW step \in GitSteps \cup DockerSteps, <<j, step>> \in procs
                 PROVE  next = "failed"
      BY <1>4
    <3>1. pc[j] = step /\ step \in DockerSteps /\ child[j] = "failure" /\ phase[j] # "idle"
      BY DEF ProcessesFollowed, GitSteps, DockerSteps
    <3> QED BY <3>1 DEF NextStep, DockerSteps
  <2>3. StepTypes' /\ StreamTypes' /\ LinesAccounted' /\ ReadersStopGarbled'
    BY <1>2, <2>1, EnterStarts DEF StepTypes
  <2>4. ProcessesFollowed'
    BY <1>2, <2>1, <2>2, EnterStarts DEF ProcessesFollowed
  <2> QED BY <2>1, <2>3, <2>4 DEF FileTypes, FilesAreOwn, ArtifactIsOwn, Shipped
<1> QED BY <1>3, <1>4

LEMMA BeginHolds ==
  ASSUME IInv, NEW j \in Jobs, Begin(j)
  PROVE  IInv'
<1> USE DEF IInv
<1>1. Enter(j, "init") /\ "init" \in Steps /\ UNCHANGED <<procs, files, taken>>
  BY DEF Begin, Steps, Execute, GitSteps
<1>2. StepTypes' /\ StreamTypes' /\ LinesAccounted' /\ ReadersStopGarbled'
  BY <1>1, EnterStarts DEF StepTypes
<1>3. \A step \in GitSteps \cup DockerSteps : <<j, step>> \notin procs
  BY DEF Begin, ProcessesFollowed, GitSteps, DockerSteps
<1>4. ProcessesFollowed'
  BY <1>1, <1>3, EnterStarts DEF ProcessesFollowed
<1> QED BY <1>1, <1>2, <1>4 DEF FileTypes, FilesAreOwn, ArtifactIsOwn, Shipped

LEMMA SpawnHolds ==
  ASSUME IInv, NEW j \in Jobs, Spawn(j)
  PROVE  IInv'
<1> USE DEF IInv, Spawn
<1>1. StepTypes'
  BY DEF StepTypes
<1>2. StreamTypes'
  BY DEF StreamTypes
<1>3. ProcessesFollowed'
  BY DEF StepTypes, ProcessesFollowed
<1>4. LinesAccounted'
  <2>1. \A k \in Jobs \ {j} : open'[k] = open[k] /\ phase'[k] = phase[k]
    BY DEF StreamTypes, StepTypes
  <2>2. open[j] = {} /\ channel[j] = <<>>
    BY DEF LinesAccounted
  <2>3. pc[j] \notin DockerSteps => open'[j] = {}
    BY DEF StreamTypes
  <2>4. pc[j] \in DockerSteps => phase'[j] = "stream"
    BY DEF StepTypes
  <2>5. \A s \in Streams : pipe[j][s] = 0
    BY <2>2 DEF LinesAccounted
  <2> QED BY <2>1, <2>2, <2>3, <2>4, <2>5 DEF LinesAccounted
<1>5. ReadersStopGarbled'
  BY DEF ReadersStopGarbled, StepTypes, StreamTypes
<1> QED BY <1>1, <1>2, <1>3, <1>4, <1>5 DEF FileTypes, FilesAreOwn, ArtifactIsOwn, Shipped

LEMMA SpawnFailsHolds ==
  ASSUME IInv, NEW j \in Jobs, SpawnFails(j)
  PROVE  IInv'
<1>1. /\ pc[j] \in GitSteps \cup DockerSteps /\ phase[j] = "idle"
      /\ Proceed(j, "failure") /\ UNCHANGED <<procs, taken>>
  BY DEF SpawnFails
<1>2. PICK result \in {"success", "failure"} : result = "failure" /\ Proceed(j, result)
  BY <1>1
<1>3. (phase[j] = "idle" /\ result = "failure") \/ (phase[j] # "idle" /\ child[j] = result)
  BY <1>1, <1>2
<1> QED BY <1>1, <1>2, <1>3, ProceedKeeps

LEMMA WaitHolds ==
  ASSUME IInv, NEW j \in Jobs, Wait(j)
  PROVE  IInv'
<1>1. PICK result \in {"success", "failure"} : Exited(j, result) /\ Proceed(j, result)
  BY DEF Wait
<1>2. pc[j] \in GitSteps \cup DockerSteps
  BY <1>1 DEF Exited, IInv, StepTypes
<1> QED BY <1>1, <1>2, ProceedKeeps DEF Wait, Exited

LEMMA LocateHolds ==
  ASSUME IInv, NEW j \in Jobs, Locate(j)
  PROVE  IInv'
<1> USE DEF IInv
<1>1. \A step \in GitSteps \cup DockerSteps : <<j, step>> \notin procs
  BY DEF Locate, ProcessesFollowed, GitSteps, DockerSteps
<1>2. PICK outcome \in {"ok", "failed"} :
        /\ End(j, outcome) /\ UNCHANGED procs
        /\ \/ UNCHANGED taken
           \/ \E f \in files[j] :
                Package[j] \in {NONE, f.name} /\ taken' = [taken EXCEPT ![j] = f]
  BY DEF Locate, LocateWasm, Workspace
<1>3. /\ StepTypes' /\ StreamTypes' /\ LinesAccounted' /\ ReadersStopGarbled' /\ ProcessesFollowed'
      /\ files' \in [Jobs -> SUBSET Files] /\ FilesAreOwn'
  BY <1>1, <1>2, EndKeeps DEF Steps, Ended
<1>4. FileTypes' /\ ArtifactIsOwn'
  BY <1>2, <1>3 DEF FileTypes, ArtifactIsOwn, FilesAreOwn, Shipped
<1> QED BY <1>3, <1>4

LEMMA TimeoutHolds ==
  ASSUME IInv, NEW j \in Jobs, Timeout(j)
  PROVE  IInv'
<1>1. "failed" \in Steps
  BY DEF Steps, Ended
<1> QED BY <1>1, EndKeeps DEF Timeout, IInv, FileTypes, ArtifactIsOwn, Shipped

\* A crash leaves files and processes as they are, and of a job that was under
\* way nothing else.
LEMMA CrashHolds ==
  ASSUME IInv, Crash
  PROVE  IInv'
<1> USE DEF IInv
<1> DEFINE live == {j \in Jobs : pc[j] \in Execute}
<1>1. \A j \in live :
        /\ pc'[j] = "lost" /\ phase'[j] = "idle" /\ child'[j] = "none"
        /\ open'[j] = {} /\ pipe'[j] = Zero /\ channel'[j] = <<>>
        /\ written'[j] = Zero /\ logged'[j] = Zero /\ warned'[j] = Zero
        /\ garbled'[j] = FALSE
  BY DEF Crash
<1>2. \A j \in Jobs \ live :
        /\ pc'[j] = pc[j] /\ phase'[j] = phase[j] /\ child'[j] = child[j]
        /\ open'[j] = open[j] /\ pipe'[j] = pipe[j] /\ channel'[j] = channel[j]
        /\ written'[j] = written[j] /\ logged'[j] = logged[j] /\ warned'[j] = warned[j]
        /\ garbled'[j] = garbled[j]
  BY DEF Crash
<1>3. UNCHANGED <<procs, files, taken>>
  BY DEF Crash
<1>4. StepTypes'
  <2>1. /\ pc' = [j \in Jobs |-> IF j \in live THEN "lost" ELSE pc[j]]
        /\ phase' = [j \in Jobs |-> IF j \in live THEN "idle" ELSE phase[j]]
        /\ child' = [j \in Jobs |-> IF j \in live THEN "none" ELSE child[j]]
    BY DEF Crash
  <2> HIDE DEF live
  <2>2. "lost" \in Steps
    BY DEF Steps, Ended
  <2> QED BY <1>1, <1>2, <1>3, <2>1, <2>2 DEF StepTypes
<1>5. StreamTypes'
  <2>1. /\ open' = [j \in Jobs |-> IF j \in live THEN {} ELSE open[j]]
        /\ pipe' = [j \in Jobs |-> IF j \in live THEN Zero ELSE pipe[j]]
        /\ channel' = [j \in Jobs |-> IF j \in live THEN <<>> ELSE channel[j]]
        /\ written' = [j \in Jobs |-> IF j \in live THEN Zero ELSE written[j]]
        /\ logged' = [j \in Jobs |-> IF j \in live THEN Zero ELSE logged[j]]
        /\ warned' = [j \in Jobs |-> IF j \in live THEN Zero ELSE warned[j]]
        /\ garbled' = [j \in Jobs |-> IF j \in live THEN FALSE ELSE garbled[j]]
    BY DEF Crash
  <2> HIDE DEF live
  <2>2. /\ Zero \in [Streams -> 0..PipeSize] /\ Zero \in [Streams -> Nat]
        /\ <<>> \in Seq(Streams) /\ Len(<<>>) <= Capacity
        /\ \A s \in Streams : Zero[s] <= MaxLines[s]
    BY SandboxAssumption, EmptySeq DEF Zero, Streams
  <2>3. \A j \in Jobs : Len(channel'[j]) <= Capacity
    BY <1>1, <1>2, <2>2 DEF StreamTypes
  <2>4. \A j \in Jobs, s \in Streams : written'[j][s] <= MaxLines[s]
    BY <1>1, <1>2, <2>2 DEF StreamTypes
  <2> QED BY <2>1, <2>2, <2>3, <2>4 DEF StreamTypes
<1>6. ProcessesFollowed'
  BY <1>1, <1>2, <1>3 DEF ProcessesFollowed
<1>7. LinesAccounted'
  <2> SUFFICES ASSUME NEW k \in Jobs
      PROVE  (/\ \A s \in Streams :
                   /\ logged[k][s] + warned[k][s] + Count(channel[k], s) + pipe[k][s] <= written[k][s]
                   /\ ~garbled[k] =>
                        logged[k][s] + warned[k][s] + Count(channel[k], s) + pipe[k][s] = written[k][s]
                   /\ s \notin open[k] => pipe[k][s] = 0
              /\ phase[k] # "stream" => open[k] = {} /\ channel[k] = <<>>)'
    BY DEF LinesAccounted
  <2>1. CASE k \in live
    BY <1>1, <2>1, CountEmpty DEF Zero
  <2>2. CASE k \notin live
    <3> HIDE DEF live
    <3> QED BY <1>2, <2>2 DEF LinesAccounted
  <2> QED BY <2>1, <2>2
<1>8. ReadersStopGarbled'
  BY <1>1, <1>2, <1>3 DEF ReadersStopGarbled
<1> QED BY <1>3, <1>4, <1>5, <1>6, <1>7, <1>8 DEF FileTypes, FilesAreOwn, ArtifactIsOwn, Shipped

-----------------------------------------------------------------------------
(* Steps of the processes. *)

LEMMA ExitHolds ==
  ASSUME IInv, NEW j \in Jobs, NEW step \in GitSteps \cup DockerSteps,
         NEW result \in {"success", "failure"}, Exit(j, step, result)
  PROVE  IInv'
<1> USE DEF IInv, Exit, streamVars
<1>1. /\ procs' = procs \ {<<j, step>>}
      /\ \/ child' = [child EXCEPT ![j] = result]
            /\ Follows(j, step)
         \/ UNCHANGED child
      /\ UNCHANGED <<pc, phase, streamVars, files, taken>>
  OBVIOUS
<1>2. StepTypes'
  BY <1>1 DEF StepTypes
<1>3. ProcessesFollowed'
  BY <1>1 DEF StepTypes, ProcessesFollowed, Follows
<1>4. StreamTypes' /\ LinesAccounted'
  BY <1>1 DEF StreamTypes, LinesAccounted
<1>5. ReadersStopGarbled'
  BY <1>1 DEF ReadersStopGarbled, StepTypes, Follows
<1> QED BY <1>1, <1>2, <1>3, <1>4, <1>5 DEF FileTypes, FilesAreOwn, ArtifactIsOwn, Shipped

\* What writes into a workspace writes files of the workspace's own job.
LEMMA PutHolds ==
  ASSUME IInv, NEW j \in Jobs, NEW new \in SUBSET Files, Put(j, new),
         \A f \in new : f.by = j \/ f \in Committed[j],
         UNCHANGED <<pc, phase, child, procs, streamVars, taken>>
  PROVE  IInv'
<1> USE DEF IInv, streamVars
<1> DEFINE kept == {f \in files[j] : \A n \in new : <<f.dir, f.name>> # <<n.dir, n.name>>}
<1>1. files' = [files EXCEPT ![j] = kept \cup new] /\ kept \subseteq files[j]
  BY DEF Put, Workspace
<1> HIDE DEF kept
<1>2. FileTypes' /\ FilesAreOwn'
  BY <1>1 DEF FileTypes, FilesAreOwn
<1>3. StepTypes' /\ StreamTypes'
  BY DEF StepTypes, StreamTypes
<1>4. ProcessesFollowed' /\ LinesAccounted' /\ ArtifactIsOwn' /\ ReadersStopGarbled'
  BY DEF ProcessesFollowed, LinesAccounted, ArtifactIsOwn, Shipped, ReadersStopGarbled
<1> QED BY <1>2, <1>3, <1>4

LEMMA CheckoutHolds ==
  ASSUME IInv, NEW j \in Jobs, Checkout(j)
  PROVE  IInv'
<1>1. Committed[j] \in SUBSET Files
  BY SandboxAssumption
<1> QED BY <1>1, PutHolds DEF Checkout

LEMMA CompileHolds ==
  ASSUME IInv, NEW j \in Jobs, NEW f \in Products, Compile(j, f)
  PROVE  IInv'
<1> DEFINE built == [f EXCEPT !.by = j]
<1>1. f \in Files
  BY SandboxAssumption
<1>2. built \in Files /\ built.by = j
  BY <1>1 DEF Files
<1>3. {built} \in SUBSET Files /\ \A g \in {built} : g.by = j
  BY <1>2
<1>4. Put(j, {built}) /\ UNCHANGED <<pc, phase, child, procs, streamVars, taken>>
  BY DEF Compile
<1> HIDE DEF built
<1> QED BY <1>3, <1>4, PutHolds

LEMMA BrokenPipeHolds ==
  ASSUME IInv, NEW j \in Jobs, BrokenPipe(j)
  PROVE  IInv'
<1> USE DEF IInv, BrokenPipe, streamVars
<1>1. StepTypes'
  BY DEF StepTypes
<1>2. ProcessesFollowed'
  BY DEF StepTypes, ProcessesFollowed, DockerSteps
<1>3. StreamTypes' /\ LinesAccounted'
  BY DEF StreamTypes, LinesAccounted
<1>4. ReadersStopGarbled'
  BY DEF ReadersStopGarbled, StepTypes
<1> QED BY <1>1, <1>2, <1>3, <1>4 DEF FileTypes, FilesAreOwn, ArtifactIsOwn, Shipped

-----------------------------------------------------------------------------
(* Steps of the lines. They change neither processes nor files, and the lines *)
(* of one job only.                                                           *)

\* The part of LinesAccounted about one job.
JobLines(j) ==
  /\ \A s \in Streams :
       /\ logged[j][s] + warned[j][s] + Count(channel[j], s) + pipe[j][s] <= written[j][s]
       /\ ~garbled[j] => logged[j][s] + warned[j][s] + Count(channel[j], s) + pipe[j][s] = written[j][s]
       /\ s \notin open[j] => pipe[j][s] = 0
  /\ phase[j] # "stream" => open[j] = {} /\ channel[j] = <<>>

LEMMA StreamStepHolds ==
  ASSUME IInv, NEW j \in Jobs, UNCHANGED <<pc, child, procs, files, taken>>,
         phase' \in [Jobs -> {"idle", "stream", "wait"}],
         phase' = phase \/ phase[j] # "idle",
         \A k \in Jobs \ {j} :
           /\ phase'[k] = phase[k] /\ open'[k] = open[k] /\ pipe'[k] = pipe[k]
           /\ channel'[k] = channel[k] /\ written'[k] = written[k]
           /\ logged'[k] = logged[k] /\ warned'[k] = warned[k] /\ garbled'[k] = garbled[k],
         phase[j] # "idle" => phase'[j] # "idle",
         garbled[j] => garbled'[j],
         open'[j] = open[j] \/ garbled'[j] \/ child[j] # "up",
         StreamTypes', JobLines(j)'
  PROVE  IInv'
<1> USE DEF IInv
<1>1. StepTypes'
  BY DEF StepTypes
<1>2. ProcessesFollowed'
  BY DEF ProcessesFollowed
<1>3. LinesAccounted'
  <2> SUFFICES ASSUME NEW k \in Jobs PROVE JobLines(k)'
    BY DEF LinesAccounted, JobLines
  <2>1. CASE k = j
    BY <2>1
  <2>2. CASE k # j
    BY <2>2 DEF LinesAccounted, JobLines
  <2> QED BY <2>1, <2>2
<1>4. ReadersStopGarbled'
  <2> SUFFICES ASSUME NEW k \in Jobs
               PROVE  (/\ pc[k] \in DockerSteps /\ child[k] = "up" /\ open[k] # Streams => garbled[k]
                       /\ child[k] = "failure" /\ <<k, pc[k]>> \in procs => garbled[k])'
    BY DEF ReadersStopGarbled
  <2> QED BY DEF ReadersStopGarbled
<1> QED BY <1>1, <1>2, <1>3, <1>4 DEF FileTypes, FilesAreOwn, ArtifactIsOwn, Shipped

\* The numbers LinesAccounted adds up.
LEMMA LineNumbers ==
  ASSUME IInv, NEW j \in Jobs, NEW s \in Streams
  PROVE  /\ logged[j][s] \in Nat /\ warned[j][s] \in Nat /\ pipe[j][s] \in 0..PipeSize /\ written[j][s] \in Nat
         /\ Count(channel[j], s) \in Nat
         /\ PipeSize \in Nat /\ MaxLines[s] \in Nat /\ Capacity \in Nat
<1> QED BY SandboxAssumption, CountIsNat DEF IInv, StreamTypes, Streams

LEMMA WriteHolds ==
  ASSUME IInv, NEW j \in Jobs, NEW s \in Streams, Write(j, s)
  PROVE  IInv'
<1> USE DEF IInv, Write
<1>1. /\ pipe' = [pipe EXCEPT ![j] = [pipe[j] EXCEPT ![s] = pipe[j][s] + 1]]
      /\ written' = [written EXCEPT ![j] = [written[j] EXCEPT ![s] = written[j][s] + 1]]
      /\ UNCHANGED <<pc, phase, child, procs, open, channel, logged, warned, garbled, files, taken>>
      /\ s \in open[j] /\ pipe[j][s] < PipeSize /\ written[j][s] < MaxLines[s]
  OBVIOUS
<1>2. /\ pipe'[j] = [pipe[j] EXCEPT ![s] = pipe[j][s] + 1]
      /\ written'[j] = [written[j] EXCEPT ![s] = written[j][s] + 1]
  BY <1>1 DEF StreamTypes
<1>3. /\ pipe'[j][s] = pipe[j][s] + 1 /\ written'[j][s] = written[j][s] + 1
      /\ \A t \in Streams \ {s} : pipe'[j][t] = pipe[j][t] /\ written'[j][t] = written[j][t]
  BY <1>2 DEF StreamTypes
<1>4. \A k \in Jobs \ {j} : pipe'[k] = pipe[k] /\ written'[k] = written[k]
  BY <1>1 DEF StreamTypes
<1>5. StreamTypes'
  <2>1. pipe'[j] \in [Streams -> 0..PipeSize] /\ written'[j] \in [Streams -> Nat]
    BY <1>1, <1>2, LineNumbers DEF StreamTypes
  <2>2. \A k \in Jobs, t \in Streams : written'[k][t] <= MaxLines[t]
    <3> SUFFICES ASSUME NEW k \in Jobs, NEW t \in Streams
                 PROVE  written'[k][t] <= MaxLines[t]
      OBVIOUS
    <3>1. written[k][t] <= MaxLines[t]
      BY DEF StreamTypes
    <3> QED BY <1>1, <1>3, <1>4, <3>1, LineNumbers
  <2>3. pipe' \in [Jobs -> [Streams -> 0..PipeSize]] /\ written' \in [Jobs -> [Streams -> Nat]]
    BY <1>1, <1>2, <2>1 DEF StreamTypes
  <2> QED BY <1>1, <2>2, <2>3 DEF StreamTypes
<1>6. JobLines(j)'
  <2>1. JobLines(j)
    BY DEF LinesAccounted, JobLines
  <2>2. ASSUME NEW t \in Streams
        PROVE  /\ logged'[j][t] + warned'[j][t] + Count(channel'[j], t) + pipe'[j][t] <= written'[j][t]
               /\ ~garbled'[j] =>
                    logged'[j][t] + warned'[j][t] + Count(channel'[j], t) + pipe'[j][t] = written'[j][t]
               /\ t \notin open'[j] => pipe'[j][t] = 0
    <3>1. /\ logged[j][t] \in Nat /\ warned[j][t] \in Nat /\ Count(channel[j], t) \in Nat /\ pipe[j][t] \in Nat
          /\ written[j][t] \in Nat
      BY LineNumbers
    <3>2. /\ logged[j][t] + warned[j][t] + Count(channel[j], t) + pipe[j][t] <= written[j][t]
          /\ ~garbled[j] =>
               logged[j][t] + warned[j][t] + Count(channel[j], t) + pipe[j][t] = written[j][t]
          /\ t \notin open[j] => pipe[j][t] = 0
      BY <2>1 DEF JobLines
    <3>3. UNCHANGED <<open, channel, logged, warned, garbled>> /\ s \in open[j]
      BY <1>1
    <3>4. CASE t = s
      BY <1>3, <3>1, <3>2, <3>3, <3>4
    <3>5. CASE t # s
      <4>1. pipe'[j][t] = pipe[j][t] /\ written'[j][t] = written[j][t]
        BY <1>3, <3>5
      <4> QED BY <3>2, <3>3, <4>1
    <3> QED BY <3>4, <3>5
  <2> QED BY <1>1, <2>1, <2>2 DEF JobLines
<1>7. phase' \in [Jobs -> {"idle", "stream", "wait"}]
  BY <1>1 DEF StepTypes
<1> QED BY <1>1, <1>4, <1>5, <1>6, <1>7, StreamStepHolds

LEMMA ReadHolds ==
  ASSUME IInv, NEW j \in Jobs, NEW s \in Streams, Read(j, s)
  PROVE  IInv'
<1> USE DEF IInv, Read, Send
<1>1. /\ pipe' = [pipe EXCEPT ![j] = [pipe[j] EXCEPT ![s] = pipe[j][s] - 1]]
      /\ channel' = [channel EXCEPT ![j] = Append(channel[j], s)]
      /\ UNCHANGED <<pc, phase, child, procs, open, written, logged, warned, garbled, files, taken>>
      /\ s \in open[j] /\ pipe[j][s] > 0 /\ Len(channel[j]) < Capacity
  OBVIOUS
<1>2. /\ pipe'[j] = [pipe[j] EXCEPT ![s] = pipe[j][s] - 1]
      /\ channel'[j] = Append(channel[j], s)
  BY <1>1 DEF StreamTypes
<1>3. /\ pipe'[j][s] = pipe[j][s] - 1
      /\ \A t \in Streams \ {s} : pipe'[j][t] = pipe[j][t]
  BY <1>2 DEF StreamTypes
<1>4. \A k \in Jobs \ {j} : pipe'[k] = pipe[k] /\ channel'[k] = channel[k]
  BY <1>1 DEF StreamTypes
<1>5. channel[j] \in Seq(Streams)
  BY DEF StreamTypes
<1>6. StreamTypes'
  <2>1. pipe'[j] \in [Streams -> 0..PipeSize]
    BY <1>1, <1>2, LineNumbers DEF StreamTypes
  <2>2. channel'[j] \in Seq(Streams) /\ Len(channel'[j]) <= Capacity
    <3>1. Len(channel[j]) \in Nat /\ Len(channel'[j]) = Len(channel[j]) + 1
      BY <1>2, <1>5, AppendProperties, LenProperties
    <3>2. channel'[j] \in Seq(Streams)
      BY <1>2, <1>5, AppendProperties
    <3> QED BY <1>1, <3>1, <3>2, LineNumbers
  <2>3. \A k \in Jobs : Len(channel'[k]) <= Capacity
    BY <1>4, <2>2 DEF StreamTypes
  <2>4. pipe' \in [Jobs -> [Streams -> 0..PipeSize]] /\ channel' \in [Jobs -> Seq(Streams)]
    BY <1>1, <1>2, <2>1, <2>2 DEF StreamTypes
  <2> QED BY <1>1, <2>3, <2>4 DEF StreamTypes
<1>7. JobLines(j)'
  <2>1. JobLines(j)
    BY DEF LinesAccounted, JobLines
  <2>2. ASSUME NEW t \in Streams
        PROVE  /\ logged'[j][t] + warned'[j][t] + Count(channel'[j], t) + pipe'[j][t] <= written'[j][t]
               /\ ~garbled'[j] =>
                    logged'[j][t] + warned'[j][t] + Count(channel'[j], t) + pipe'[j][t] = written'[j][t]
               /\ t \notin open'[j] => pipe'[j][t] = 0
    <3>1. Count(channel'[j], t) = Count(channel[j], t) + (IF s = t THEN 1 ELSE 0)
      BY <1>2, <1>5, CountAppend
    <3>2. /\ logged[j][t] \in Nat /\ warned[j][t] \in Nat /\ Count(channel[j], t) \in Nat /\ pipe[j][t] \in Nat
          /\ written[j][t] \in Nat
      BY LineNumbers
    <3>3. /\ logged[j][t] + warned[j][t] + Count(channel[j], t) + pipe[j][t] <= written[j][t]
          /\ ~garbled[j] =>
               logged[j][t] + warned[j][t] + Count(channel[j], t) + pipe[j][t] = written[j][t]
          /\ t \notin open[j] => pipe[j][t] = 0
      BY <2>1 DEF JobLines
    <3>4. UNCHANGED <<open, written, logged, warned, garbled>> /\ s \in open[j]
      BY <1>1
    <3>5. CASE t = s
      <4>1. /\ pipe'[j][t] = pipe[j][t] - 1
            /\ Count(channel'[j], t) = Count(channel[j], t) + 1
        BY <1>3, <3>1, <3>5
      <4>2. /\ logged'[j][t] = logged[j][t] /\ warned'[j][t] = warned[j][t]
            /\ written'[j][t] = written[j][t]
            /\ garbled'[j] = garbled[j] /\ t \in open'[j]
        BY <3>4, <3>5
      <4>3. logged'[j][t] + warned'[j][t] + Count(channel'[j], t) + pipe'[j][t]
              = logged[j][t] + warned[j][t] + Count(channel[j], t) + pipe[j][t]
        <5>1. \A a, b, c \in Nat : a + (b + 1) + (c - 1) = a + b + c
          OBVIOUS
        <5>2. logged[j][t] + warned[j][t] \in Nat
          BY <3>2
        <5>3. logged[j][t] + warned[j][t] + (Count(channel[j], t) + 1) + (pipe[j][t] - 1)
                = logged[j][t] + warned[j][t] + Count(channel[j], t) + pipe[j][t]
          BY <3>2, <5>1, <5>2
        <5> QED BY <4>1, <4>2, <5>3
      <4> QED BY <3>3, <4>2, <4>3
    <3>6. CASE t # s
      <4>1. pipe'[j][t] = pipe[j][t] /\ Count(channel'[j], t) = Count(channel[j], t)
        BY <1>3, <3>1, <3>2, <3>6
      <4> QED BY <3>3, <3>4, <4>1
    <3> QED BY <3>5, <3>6
  <2>3. phase[j] = "stream"
    BY <1>1, <2>1 DEF JobLines
  <2> QED BY <1>1, <2>2, <2>3 DEF JobLines
<1>8. phase' \in [Jobs -> {"idle", "stream", "wait"}]
  BY <1>1 DEF StepTypes
<1> QED BY <1>1, <1>4, <1>6, <1>7, <1>8, StreamStepHolds

LEMMA GarbleHolds ==
  ASSUME IInv, NEW j \in Jobs, NEW s \in Streams, Garble(j, s)
  PROVE  IInv'
<1> USE DEF IInv, Garble, CloseReader
<1>1. /\ pipe' = [pipe EXCEPT ![j] = [pipe[j] EXCEPT ![s] = 0]]
      /\ open' = [open EXCEPT ![j] = open[j] \ {s}]
      /\ garbled' = [garbled EXCEPT ![j] = TRUE]
      /\ UNCHANGED <<pc, phase, child, procs, channel, written, logged, warned, files, taken>>
      /\ s \in open[j]
  OBVIOUS
<1>2. /\ pipe'[j] = [pipe[j] EXCEPT ![s] = 0] /\ open'[j] = open[j] \ {s} /\ garbled'[j]
      /\ pipe'[j][s] = 0 /\ \A t \in Streams \ {s} : pipe'[j][t] = pipe[j][t]
  BY <1>1 DEF StreamTypes
<1>3. \A k \in Jobs \ {j} :
        pipe'[k] = pipe[k] /\ open'[k] = open[k] /\ garbled'[k] = garbled[k]
  BY <1>1 DEF StreamTypes
<1>4. StreamTypes'
  <2>1. pipe'[j] \in [Streams -> 0..PipeSize]
    BY <1>2, LineNumbers DEF StreamTypes
  <2> QED BY <1>1, <1>2, <2>1 DEF StreamTypes
<1>5. JobLines(j)'
  <2>1. JobLines(j)
    BY DEF LinesAccounted, JobLines
  <2>2. ASSUME NEW t \in Streams
        PROVE  /\ logged'[j][t] + warned'[j][t] + Count(channel'[j], t) + pipe'[j][t] <= written'[j][t]
               /\ t \notin open'[j] => pipe'[j][t] = 0
    <3>1. /\ logged[j][t] \in Nat /\ warned[j][t] \in Nat /\ Count(channel[j], t) \in Nat /\ pipe[j][t] \in Nat
          /\ written[j][t] \in Nat
      BY LineNumbers
    <3>2. /\ logged[j][t] + warned[j][t] + Count(channel[j], t) + pipe[j][t] <= written[j][t]
          /\ t \notin open[j] => pipe[j][t] = 0
      BY <2>1 DEF JobLines
    <3>3. UNCHANGED <<channel, logged, warned, written>>
      BY <1>1
    <3>4. CASE t = s
      BY <1>2, <3>1, <3>2, <3>3, <3>4
    <3>5. CASE t # s
      <4>1. pipe'[j][t] = pipe[j][t] /\ (t \in open'[j] <=> t \in open[j])
        BY <1>2, <3>5
      <4> QED BY <3>2, <3>3, <4>1
    <3> QED BY <3>4, <3>5
  <2>3. phase[j] = "stream"
    BY <1>1, <2>1 DEF JobLines
  <2> QED BY <1>1, <1>2, <2>2, <2>3 DEF JobLines
<1>6. phase' \in [Jobs -> {"idle", "stream", "wait"}]
  BY <1>1 DEF StepTypes
<1> QED BY <1>1, <1>2, <1>3, <1>4, <1>5, <1>6, StreamStepHolds

LEMMA EndOfFileHolds ==
  ASSUME IInv, NEW j \in Jobs, NEW s \in Streams, EndOfFile(j, s)
  PROVE  IInv'
<1> USE DEF IInv, EndOfFile, CloseReader, PipeEnded
<1>1. /\ open' = [open EXCEPT ![j] = open[j] \ {s}] /\ child[j] # "up"
      /\ UNCHANGED <<pc, phase, child, procs, pipe, channel, written, logged, warned, garbled,
                     files, taken>>
      /\ s \in open[j] /\ pipe[j][s] = 0
  OBVIOUS
<1>2. open'[j] = open[j] \ {s} /\ \A k \in Jobs \ {j} : open'[k] = open[k]
  BY <1>1 DEF StreamTypes
<1>3. StreamTypes'
  BY <1>1 DEF StreamTypes
<1>4. JobLines(j)'
  <2>1. JobLines(j)
    BY DEF LinesAccounted, JobLines
  <2>2. \A t \in Streams : t \notin open'[j] => pipe'[j][t] = 0
    BY <1>1, <1>2, <2>1 DEF JobLines
  <2>3. phase[j] = "stream"
    BY <1>1, <2>1 DEF JobLines
  <2> QED BY <1>1, <2>1, <2>2, <2>3 DEF JobLines
<1>5. phase' \in [Jobs -> {"idle", "stream", "wait"}]
  BY <1>1 DEF StepTypes
<1> QED BY <1>1, <1>2, <1>3, <1>4, <1>5, StreamStepHolds

LEMMA LogHolds ==
  ASSUME IInv, NEW j \in Jobs, Log(j)
  PROVE  IInv'
<1> USE DEF IInv, Log, Receives
<1> DEFINE s == Head(channel[j])
<1>1. /\ channel' = [channel EXCEPT ![j] = Tail(channel[j])]
      /\ \/ /\ logged' = [logged EXCEPT ![j] = [logged[j] EXCEPT ![s] = logged[j][s] + 1]]
            /\ warned' = warned
         \/ /\ warned' = [warned EXCEPT ![j] = [warned[j] EXCEPT ![s] = warned[j][s] + 1]]
            /\ logged' = logged
      /\ UNCHANGED <<pc, phase, child, procs, open, pipe, written, garbled, files, taken>>
      /\ phase[j] = "stream" /\ channel[j] # <<>>
  OBVIOUS
<1>2. channel[j] \in Seq(Streams)
  BY DEF StreamTypes
<1>3. /\ s \in Streams /\ Tail(channel[j]) \in Seq(Streams)
      /\ Len(channel[j]) \in Nat /\ Len(Tail(channel[j])) = Len(channel[j]) - 1
  BY <1>1, <1>2, HeadTailProperties, LenProperties
<1> HIDE DEF s
<1>4. channel'[j] = Tail(channel[j])
  BY <1>1 DEF StreamTypes
<1>5. /\ logged' \in [Jobs -> [Streams -> Nat]] /\ warned' \in [Jobs -> [Streams -> Nat]]
      /\ \A t \in Streams : logged'[j][t] + warned'[j][t]
                              = logged[j][t] + warned[j][t] + (IF s = t THEN 1 ELSE 0)
  <2>1. logged[j] \in [Streams -> Nat] /\ warned[j] \in [Streams -> Nat]
    BY DEF StreamTypes
  <2>2. ASSUME NEW f \in [Streams -> Nat]
        PROVE  /\ [f EXCEPT ![s] = f[s] + 1] \in [Streams -> Nat]
               /\ \A t \in Streams :
                    [f EXCEPT ![s] = f[s] + 1][t] = f[t] + (IF s = t THEN 1 ELSE 0)
    BY <1>3
  <2>3. CASE logged' # logged
    <3>1. logged' = [logged EXCEPT ![j] = [logged[j] EXCEPT ![s] = logged[j][s] + 1]]
          /\ warned' = warned
      BY <1>1, <2>3
    <3>2. logged'[j] = [logged[j] EXCEPT ![s] = logged[j][s] + 1]
      BY <3>1 DEF StreamTypes
    <3>3. logged' \in [Jobs -> [Streams -> Nat]]
      BY <2>1, <2>2, <3>1 DEF StreamTypes
    <3>4. ASSUME NEW t \in Streams
          PROVE  logged'[j][t] + warned'[j][t]
                   = logged[j][t] + warned[j][t] + (IF s = t THEN 1 ELSE 0)
      <4>1. logged'[j][t] = logged[j][t] + (IF s = t THEN 1 ELSE 0) /\ warned'[j][t] = warned[j][t]
        BY <2>1, <2>2, <3>1, <3>2
      <4>2. logged[j][t] \in Nat /\ warned[j][t] \in Nat
        BY <2>1
      <4> QED BY <4>1, <4>2
    <3> QED BY <3>1, <3>3, <3>4 DEF StreamTypes
  <2>4. CASE logged' = logged
    <3>1. warned' = [warned EXCEPT ![j] = [warned[j] EXCEPT ![s] = warned[j][s] + 1]]
      <4>1. logged # [logged EXCEPT ![j] = [logged[j] EXCEPT ![s] = logged[j][s] + 1]]
        <5>1. [logged EXCEPT ![j] = [logged[j] EXCEPT ![s] = logged[j][s] + 1]][j][s]
                = logged[j][s] + 1
          BY <1>3 DEF StreamTypes
        <5>2. logged[j][s] \in Nat
          BY <1>3, <2>1
        <5> QED BY <5>1, <5>2
      <4> QED BY <1>1, <2>4, <4>1
    <3>2. warned'[j] = [warned[j] EXCEPT ![s] = warned[j][s] + 1]
      BY <3>1 DEF StreamTypes
    <3>3. warned' \in [Jobs -> [Streams -> Nat]]
      BY <2>1, <2>2, <3>1 DEF StreamTypes
    <3>4. ASSUME NEW t \in Streams
          PROVE  logged'[j][t] + warned'[j][t]
                   = logged[j][t] + warned[j][t] + (IF s = t THEN 1 ELSE 0)
      <4>1. warned'[j][t] = warned[j][t] + (IF s = t THEN 1 ELSE 0) /\ logged'[j][t] = logged[j][t]
        BY <2>1, <2>2, <2>4, <3>2
      <4>2. logged[j][t] \in Nat /\ warned[j][t] \in Nat
        BY <2>1
      <4> QED BY <4>1, <4>2
    <3> QED BY <2>4, <3>3, <3>4 DEF StreamTypes
  <2> QED BY <2>3, <2>4
<1>6. \A k \in Jobs \ {j} :
        channel'[k] = channel[k] /\ logged'[k] = logged[k] /\ warned'[k] = warned[k]
  BY <1>1 DEF StreamTypes
<1>7. StreamTypes'
  <2>1. Len(channel'[j]) <= Capacity
    <3>1. Len(channel[j]) <= Capacity /\ Capacity \in Nat
      BY SandboxAssumption DEF StreamTypes
    <3> QED BY <1>3, <1>4, <3>1
  <2>2. \A k \in Jobs : Len(channel'[k]) <= Capacity
    BY <1>6, <2>1 DEF StreamTypes
  <2>3. channel' \in [Jobs -> Seq(Streams)]
    BY <1>1, <1>3 DEF StreamTypes
  <2> QED BY <1>1, <1>5, <2>2, <2>3 DEF StreamTypes
<1>8. JobLines(j)'
  <2>1. JobLines(j)
    BY DEF LinesAccounted, JobLines
  <2>2. ASSUME NEW t \in Streams
        PROVE  logged'[j][t] + warned'[j][t] + Count(channel'[j], t)
                 = logged[j][t] + warned[j][t] + Count(channel[j], t)
    <3>1. Count(channel[j], t) = Count(channel'[j], t) + (IF s = t THEN 1 ELSE 0)
      BY <1>1, <1>2, <1>4, CountTail DEF s
    <3>2. logged[j][t] + warned[j][t] \in Nat /\ Count(channel'[j], t) \in Nat
      <4>1. logged[j][t] \in Nat /\ warned[j][t] \in Nat
        BY LineNumbers
      <4>2. Count(Tail(channel[j]), t) \in Nat
        BY <1>3, CountIsNat
      <4> QED BY <1>4, <4>1, <4>2
    <3>3. \A a, b, c \in Nat : (a + c) + b = a + (b + c)
      OBVIOUS
    <3>4. (IF s = t THEN 1 ELSE 0) \in Nat
      OBVIOUS
    <3> DEFINE n == IF s = t THEN 1 ELSE 0
    <3> HIDE DEF n
    <3>5. (logged[j][t] + warned[j][t] + n) + Count(channel'[j], t)
            = logged[j][t] + warned[j][t] + (Count(channel'[j], t) + n)
      BY <3>2, <3>3, <3>4 DEF n
    <3> QED BY <1>5, <3>1, <3>5 DEF n
  <2>3. ASSUME NEW t \in Streams
        PROVE  /\ logged'[j][t] + warned'[j][t] + Count(channel'[j], t) + pipe'[j][t] <= written'[j][t]
               /\ ~garbled'[j] =>
                    logged'[j][t] + warned'[j][t] + Count(channel'[j], t) + pipe'[j][t] = written'[j][t]
               /\ t \notin open'[j] => pipe'[j][t] = 0
    <3>1. UNCHANGED <<open, pipe, written, garbled>>
      BY <1>1
    <3>2. /\ logged[j][t] + warned[j][t] + Count(channel[j], t) + pipe[j][t] <= written[j][t]
          /\ ~garbled[j] =>
               logged[j][t] + warned[j][t] + Count(channel[j], t) + pipe[j][t] = written[j][t]
          /\ t \notin open[j] => pipe[j][t] = 0
      BY <2>1 DEF JobLines
    <3> QED BY <2>2, <3>1, <3>2
  <2> QED BY <1>1, <2>3 DEF JobLines
<1>9. phase' \in [Jobs -> {"idle", "stream", "wait"}]
  BY <1>1 DEF StepTypes
<1> QED BY <1>1, <1>6, <1>7, <1>8, <1>9, StreamStepHolds

LEMMA StreamEndsHolds ==
  ASSUME IInv, NEW j \in Jobs, StreamEnds(j)
  PROVE  IInv'
<1> USE DEF IInv, StreamEnds, SendersGone, streamVars
<1>1. /\ phase' = [phase EXCEPT ![j] = "wait"] /\ phase' \in [Jobs -> {"idle", "stream", "wait"}]
      /\ phase'[j] = "wait" /\ \A k \in Jobs \ {j} : phase'[k] = phase[k]
  BY DEF StepTypes
<1>2. StreamTypes'
  BY DEF StreamTypes
<1>3. JobLines(j)'
  BY <1>1 DEF LinesAccounted, JobLines
<1> QED BY <1>1, <1>2, <1>3, StreamStepHolds

-----------------------------------------------------------------------------
(* The invariants. *)

\* The inductive invariant holds in every reachable state, timeouts, crashes and
\* left-over processes included.
THEOREM Invariance == Spec => []IInv
<1>1. IInv /\ [Next]_vars => IInv'
  <2> SUFFICES ASSUME IInv, [Next]_vars PROVE IInv'
    OBVIOUS
  <2>1. CASE UNCHANGED vars
    <3> USE <2>1 DEF IInv, vars, streamVars
    <3>1. StepTypes' /\ StreamTypes' /\ FileTypes'
      BY DEF StepTypes, StreamTypes, FileTypes
    <3>2. ProcessesFollowed' /\ FilesAreOwn' /\ ArtifactIsOwn' /\ LinesAccounted'
          /\ ReadersStopGarbled'
      BY DEF ProcessesFollowed, FilesAreOwn, ArtifactIsOwn, Shipped, LinesAccounted,
             ReadersStopGarbled
    <3> QED BY <3>1, <3>2
  <2>2. ASSUME NEW j \in Jobs,
               \/ Begin(j) \/ Spawn(j) \/ SpawnFails(j) \/ Wait(j) \/ Locate(j) \/ Timeout(j)
        PROVE  IInv'
    BY <2>2, BeginHolds, SpawnHolds, SpawnFailsHolds, WaitHolds, LocateHolds, TimeoutHolds
  <2>3. ASSUME NEW j \in Jobs, RunDocker(j) PROVE IInv'
    BY <2>3, ReadHolds, GarbleHolds, EndOfFileHolds, LogHolds, StreamEndsHolds DEF RunDocker
  <2>4. ASSUME NEW j \in Jobs, Processes(j) PROVE IInv'
    BY <2>4, ExitHolds, CheckoutHolds, CompileHolds, WriteHolds, BrokenPipeHolds DEF Processes
  <2> QED BY <2>1, <2>2, <2>3, <2>4, CrashHolds DEF Next
<1> QED BY <1>1, InitHolds, PTL DEF Spec

\* Every variable has its type: neither channel nor pipe overflows, and no more
\* lines are logged, or warned of, than were written.
THEOREM TypeCorrect == Spec => []TypeOK
<1>1. IInv => TypeOK
  <2> SUFFICES ASSUME IInv PROVE TypeOK
    OBVIOUS
  <2> USE DEF IInv
  <2>1. ASSUME NEW j \in Jobs, NEW s \in Streams
        PROVE  /\ written[j][s] \in 0..MaxLines[s]
               /\ logged[j][s] \in 0..written[j][s] /\ warned[j][s] \in 0..written[j][s]
    <3>1. logged[j][s] + warned[j][s] + Count(channel[j], s) + pipe[j][s] <= written[j][s]
      BY DEF LinesAccounted
    <3>2. /\ logged[j][s] \in Nat /\ warned[j][s] \in Nat /\ Count(channel[j], s) \in Nat /\ pipe[j][s] \in Nat
          /\ written[j][s] \in Nat /\ MaxLines[s] \in Nat
      BY LineNumbers
    <3>3. written[j][s] <= MaxLines[s]
      BY DEF StreamTypes
    <3> QED BY <3>1, <3>2, <3>3
  <2> QED BY <2>1 DEF StepTypes, StreamTypes, FileTypes, Steps, TypeOK
<1> QED BY <1>1, Invariance, PTL

\* No step of a job begins beside a process of an earlier one: only a job that is
\* over has processes that are not those of its step.
THEOREM StepOrder == Spec => []StepsDoNotOverlap
<1>1. IInv => StepsDoNotOverlap
  <2> SUFFICES ASSUME IInv, NEW p \in procs PROVE pc[p[1]] \in {p[2], "failed", "lost"}
    BY DEF StepsDoNotOverlap
  <2>1. p[1] \in Jobs /\ p[2] \in GitSteps \cup DockerSteps /\ p = <<p[1], p[2]>>
    BY DEF IInv, StepTypes
  <2> QED BY <2>1 DEF IInv, ProcessesFollowed
<1> QED BY <1>1, Invariance, PTL

\* A docker step that succeeds has its output in the build log, but for the lines
\* whose insert was answered with a warning and what follows a line that was not
\* UTF-8; whatever the sizes of pipe and channel and however slow the log is.
THEOREM WarnedOrLogged == Spec => []OnlyWarnedIsMissing
<1>1. IInv => OnlyWarnedIsMissing
  <2> SUFFICES ASSUME IInv, NEW j \in Jobs, phase[j] = "wait", ~garbled[j], NEW s \in Streams
               PROVE  logged[j][s] + warned[j][s] = written[j][s]
    BY DEF OnlyWarnedIsMissing
  <2>1. open[j] = {} /\ channel[j] = <<>>
    BY DEF IInv, LinesAccounted
  <2>2. /\ logged[j][s] + warned[j][s] + Count(channel[j], s) + pipe[j][s] = written[j][s]
        /\ pipe[j][s] = 0 /\ Count(channel[j], s) = 0
    BY <2>1, CountEmpty DEF IInv, LinesAccounted
  <2> QED BY <2>2, LineNumbers
<1> QED BY <1>1, Invariance, PTL

\* run_docker gives up a container that still runs only after a line that was not
\* UTF-8: a reader leaves a running client for no other reason.
THEOREM SlowLogFailsNoBuild == Spec => []GivenUpOnlyWhenGarbled
<1>1. IInv => GivenUpOnlyWhenGarbled
  BY DEF IInv, ReadersStopGarbled, GivenUpOnlyWhenGarbled
<1> QED BY <1>1, Invariance, PTL

\* The processes of builds that timed out or crashed go on writing, and still no job
\* takes another one's file; one whose commit ships none takes what its build wrote.
THEOREM OwnArtifact == Spec => []NoForeignArtifact
<1>1. IInv => NoForeignArtifact
  <2> SUFFICES ASSUME IInv, NEW j \in Jobs, taken[j] # NONE
               PROVE  taken[j].by \in {j, NONE} /\ (Shipped(j) = {} => taken[j].by = j)
    BY DEF NoForeignArtifact
  <2>1. taken[j].by = j \/ taken[j] \in Shipped(j)
    BY DEF IInv, ArtifactIsOwn
  <2>2. \A f \in Shipped(j) : f.by = NONE
    BY SandboxAssumption DEF Shipped
  <2> QED BY <2>1, <2>2
<1> QED BY <1>1, Invariance, PTL

\* Who waits in run_docker can go on: a line in a pipe has a reader, which has room in
\* the channel or finds lines in it, and then the loop that logs them still runs.
SomebodyCanMove ==
  \A j \in Jobs, s \in Streams :
    pipe[j][s] > 0 =>
      /\ s \in open[j] /\ phase[j] = "stream"
      /\ Len(channel[j]) < Capacity \/ (channel[j] # <<>> /\ Receives(j))

\* A full pipe, a full channel and the loop never wait for each other, and a job that
\* timed out or crashed leaves no line in a pipe.
THEOREM NobodyIsStuck == Spec => []SomebodyCanMove
<1>1. IInv => SomebodyCanMove
  <2> SUFFICES ASSUME IInv, NEW j \in Jobs, NEW s \in Streams, pipe[j][s] > 0
               PROVE  /\ s \in open[j] /\ phase[j] = "stream"
                      /\ Len(channel[j]) < Capacity \/ (channel[j] # <<>> /\ Receives(j))
    BY DEF SomebodyCanMove
  <2>1. s \in open[j] /\ phase[j] = "stream"
    BY DEF IInv, LinesAccounted
  <2>2. channel[j] = <<>> => Len(channel[j]) < Capacity
    BY SandboxAssumption DEF SandboxAssumption
  <2> QED BY <2>1, <2>2 DEF Receives, IInv, StreamTypes
<1> QED BY <1>1, Invariance, PTL
=============================================================================
