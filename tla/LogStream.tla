----------------------------- MODULE LogStream ------------------------------
(***************************************************************************)
(* The build log of one job: BuildLog (worker/src/logger.rs) as the         *)
(* pipeline of worker/src/pipeline.rs drives it, and the SSE stream          *)
(* job_logs_sse (api/src/routes/verify.rs) that follows it from another      *)
(* process, through the tables build_log_lines and verification_jobs.       *)
(*                                                                         *)
(* The writer numbers a line before it inserts it, and goes on when the     *)
(* insert reports an error, as it does when the connection is lost. The     *)
(* build timeout drops execute wherever it is, also while an insert is on   *)
(* its way. Either insert may still commit, later, or never.                *)
(* The stream reads the new lines and the status in two statements.         *)
(*                                                                         *)
(* A definition introduced by "Mistake:" is the next definition with one   *)
(* plausible error; no specification uses it.                              *)
(***************************************************************************)
EXTENDS Integers, SequencesExt, OrderBy

CONSTANTS
  MaxLines,  \* bound on the lines of execute and publish
  DbFaults   \* whether database statements may fail

ASSUME LogAssumption == MaxLines \in Nat /\ DbFaults \in BOOLEAN

VARIABLES
  phase,     \* of the task: "waiting", "execute", "publish", "fail", "close", "over"
  status,    \* verification_jobs.status; "verified" stands for both verdicts
  seq,       \* BuildLog.seq
  append,    \* the line being inserted, 0 if none
  adrift,    \* lines whose insert was given up and may yet commit
  lines,     \* build_log_lines.seq
  dropped,   \* history: lines whose insert was dropped with execute
  warned,    \* history: lines whose insert reported an error
  stream,    \* of the client: "closed", "lines", "status" or "done"
  after,     \* after_seq
  shown,     \* history: the lines this stream has sent
  openedAtEnd, \* history: this stream was opened when the job had ended
  atFinish   \* history: lines in the table when the job became terminal

writerVars == <<phase, status, seq, append, adrift, lines, dropped, warned, atFinish>>
streamVars == <<stream, after, shown, openedAtEnd>>
vars == <<writerVars, streamVars>>

Init ==
  /\ phase = "waiting" /\ status = "queued"
  /\ seq = 0 /\ append = 0 /\ adrift = {} /\ lines = {} /\ dropped = {} /\ warned = {}
  /\ stream = "closed" /\ after = 0 /\ shown = <<>> /\ openedAtEnd = FALSE
  /\ atFinish = {}

-----------------------------------------------------------------------------
(* The writer. *)

\* Mistake: the line is numbered but the counter is not advanced.
NumberLineAgain == append' = seq + 1 /\ UNCHANGED seq

\* line: self.seq += 1, then the insert.
NumberLine == seq' = seq + 1 /\ append' = seq + 1

Claim ==
  /\ phase = "waiting"
  /\ phase' = "execute" /\ status' = "running"
  /\ UNCHANGED <<seq, append, adrift, lines, dropped, warned, atFinish, streamVars>>

BeginLine ==
  /\ phase \in {"execute", "publish"} /\ append = 0
  /\ seq < MaxLines
  /\ NumberLine
  /\ UNCHANGED <<phase, status, adrift, lines, dropped, warned, atFinish, streamVars>>

\* Mistake: the insert is spawned and the writer goes on without its result.
SpawnLine ==
  /\ append # 0 /\ append' = 0
  /\ adrift' = adrift \cup {append}
  /\ UNCHANGED <<phase, status, seq, lines, dropped, warned, atFinish, streamVars>>

\* The insert ends. An error of it is a warning, and says nothing of its effect.
EndLine ==
  /\ append # 0 /\ append' = 0
  /\ \/ lines' = lines \cup {append} /\ UNCHANGED <<adrift, warned>>
     \/ /\ DbFaults
        /\ warned' = warned \cup {append} /\ adrift' = adrift \cup {append}
        /\ UNCHANGED lines
  /\ UNCHANGED <<phase, status, seq, dropped, atFinish, streamVars>>

\* What remains of an insert that was given up commits or is gone.
SettleAdrift ==
  \E s \in adrift :
    /\ adrift' = adrift \ {s}
    /\ lines' \in {lines, lines \cup {s}}
    /\ UNCHANGED <<phase, status, seq, append, dropped, warned, atFinish, streamVars>>

\* execute returns an outcome: publish follows, with its own lines.
ExecuteOk ==
  /\ phase = "execute" /\ append = 0
  /\ phase' = "publish"
  /\ UNCHANGED <<status, seq, append, adrift, lines, dropped, warned, atFinish, streamVars>>

\* execute returns an error, or the timeout drops it: fail begins with a line.
ExecuteEnds ==
  /\ phase = "execute"
  /\ phase' = "fail"
  /\ NumberLine
  /\ adrift' = adrift \cup ({append} \ {0})
  /\ dropped' = dropped \cup ({append} \ {0})
  /\ UNCHANGED <<status, lines, warned, atFinish, streamVars>>

\* finish_job; publish then writes one line more. An error ends the task.
Finish ==
  /\ phase \in {"publish", "fail"} /\ append = 0
  /\ \/ /\ status' = IF phase = "publish" THEN "verified" ELSE "failed"
        /\ atFinish' = lines
        /\ IF phase = "publish" THEN phase' = "close" /\ NumberLine
                                ELSE phase' = "over" /\ UNCHANGED <<seq, append>>
     \/ DbFaults /\ phase' = "over" /\ UNCHANGED <<status, atFinish, seq, append>>
  /\ UNCHANGED <<adrift, lines, dropped, warned, streamVars>>

Close ==
  /\ phase = "close" /\ append = 0
  /\ phase' = "over"
  /\ UNCHANGED <<status, seq, append, adrift, lines, dropped, warned, atFinish, streamVars>>

-----------------------------------------------------------------------------
(* The stream. *)

\* A request starts from the first line, also after a lost connection.
Open ==
  /\ stream \in {"closed", "done"}
  /\ stream' = "lines" /\ after' = 0 /\ shown' = <<>>
  /\ openedAtEnd' = (status \notin {"queued", "running"})
  /\ UNCHANGED writerVars

\* The client goes away, or a statement of the stream fails.
Break ==
  /\ stream \in {"lines", "status"}
  /\ stream' = "closed"
  /\ UNCHANGED <<after, shown, openedAtEnd, writerVars>>

\* Mistake: the last line is read again.
LinesFrom(n) == {s \in lines : s >= n}

\* Mistake: one line is read and taken for all.
FirstLineAfter(n) == {s \in lines : s > n /\ \A r \in lines : r > n => s <= r}

\* log_lines_after
LinesAfter(n) == {s \in lines : s > n}

\* ORDER BY seq
BySeq(S) == {p \in S \X S : p[1] < p[2]}

ReadLines ==
  /\ stream = "lines"
  /\ LET new == Sorted(LinesAfter(after), BySeq(LinesAfter(after))) IN
       /\ shown' = shown \o new
       /\ after' = IF new = <<>> THEN after ELSE Last(new)
  /\ stream' = "status"
  /\ UNCHANGED <<openedAtEnd, writerVars>>

\* Mistake: a failed job does not count as finished.
IsVerified(s) == s = "verified"

IsTerminal(s) == s \in {"verified", "failed"}

\* get_job; after 500 ms the stream looks for lines again.
ReadStatus ==
  /\ stream = "status"
  /\ stream' = IF IsTerminal(status) THEN "done" ELSE "lines"
  /\ UNCHANGED <<after, shown, openedAtEnd, writerVars>>

-----------------------------------------------------------------------------
Write ==
  \/ Claim \/ BeginLine \/ EndLine \/ SettleAdrift
  \/ ExecuteOk \/ ExecuteEnds \/ Finish \/ Close

Read == Open \/ Break \/ ReadLines \/ ReadStatus

Next == Write \/ Read

Spec == Init /\ [][Next]_vars

(* An open stream is driven by its client until it ends; nothing is assumed *)
(* of the writer, nor that a client ever connects.                          *)
FairSpec == Spec /\ WF_vars(ReadLines \/ ReadStatus)

-----------------------------------------------------------------------------
(* Properties *)

TypeOK ==
  /\ phase \in {"waiting", "execute", "publish", "fail", "close", "over"}
  /\ status \in {"queued", "running", "verified", "failed"}
  /\ seq \in 0..(MaxLines + 1) /\ append \in {0, seq}
  /\ adrift \subseteq dropped \cup warned /\ dropped \cup warned \subseteq 1..seq
  /\ lines \subseteq 1..seq /\ atFinish \subseteq lines
  /\ stream \in {"closed", "lines", "status", "done"} /\ openedAtEnd \in BOOLEAN
  /\ after \in lines \cup {0} /\ ToSet(shown) \subseteq lines

\* A stream sends every line at most once, in the order the task wrote them.
ShownInOrder == \A i, k \in DOMAIN shown : i < k => shown[i] < shown[k]

\* A stream passes over a line for good only if the writer never learnt that the
\* line was inserted: the insert reported an error, or it is the one insert that the
\* timeout dropped.
OnlyUnconfirmedIsSkipped ==
  /\ \A s \in lines : s <= after => s \in ToSet(shown) \cup dropped \cup warned
  /\ \A s, r \in dropped : s = r

\* A stream opened after the job has ended replays every line that was there when
\* it ended.
ReplayIsComplete == stream = "done" /\ openedAtEnd => atFinish \subseteq ToSet(shown)

\* Once the job has ended, an open stream ends too.
StreamEnds ==
  status \in {"verified", "failed"} /\ stream \in {"lines", "status"}
    ~> stream \in {"done", "closed"}

-----------------------------------------------------------------------------
\* verify.rs, of job_logs_sse: "Replays existing lines, then follows until the
\* job reaches a terminal state": when the stream says "done" it has sent the
\* lines that were there before the job ended.
DoneIsComplete == stream = "done" => atFinish \subseteq ToSet(shown)
=============================================================================
