--------------------------- MODULE LogStreamProofs ---------------------------
(***************************************************************************)
(* Proofs about LogStream.tla, for any number of lines, with failing       *)
(* statements, a timeout that drops an insert and a client that comes and  *)
(* goes in every state.                                                    *)
(*                                                                         *)
(* The inductive invariant says where a line may come into the table: the  *)
(* line being inserted is above every line that is there (AppendIsNew), so *)
(* only an insert that the writer gave up can commit below what a stream   *)
(* has read (NothingPassed), and the timeout drops one at most             *)
(* (PhaseTells). When the job has ended, atFinish no longer changes, and a *)
(* stream opened then reads the whole of it at once (EndReplayed).         *)
(***************************************************************************)
EXTENDS LogStream, OrderByProofs, SequenceTheorems

Terminal == {"verified", "failed"}

\* What the phase of the task tells about the status, the numbers left and the
\* insert that the timeout dropped.
PhaseTells ==
  /\ phase = "waiting" => status = "queued"
  /\ status \in Terminal => phase \in {"close", "over"}
  /\ phase \in {"waiting", "execute", "publish"} => seq <= MaxLines
  /\ phase \in {"waiting", "execute", "publish", "close"} => dropped = {}
  /\ \A s, r \in dropped : s = r

\* The line being inserted is new.
AppendIsNew == append # 0 => append \notin lines \cup dropped \cup warned

\* The stream has read up to after_seq, in order.
ReadInOrder ==
  /\ shown \in Seq(Nat)
  /\ \A i \in DOMAIN shown : shown[i] <= after
  /\ ShownInOrder

\* Every line up to after_seq has been sent, except one whose insert was given up.
NothingPassed ==
  \A s \in lines : s <= after => s \in ToSet(shown) \cup dropped \cup warned

\* A stream opened at the end of the job sends the lines of atFinish at its first
\* reading, also those whose insert was given up, as far as they are there.
EndReplayed ==
  openedAtEnd =>
    /\ status \in Terminal
    /\ \A s \in atFinish : s <= after => s \in ToSet(shown)
    /\ stream \in {"status", "done"} => atFinish \subseteq ToSet(shown)

IInv ==
  /\ TypeOK
  /\ PhaseTells
  /\ AppendIsNew
  /\ ReadInOrder
  /\ NothingPassed
  /\ EndReplayed

-----------------------------------------------------------------------------
(* What the stream reads *)

\* Lines are numbers, so their order is strict.
LEMMA BySeqStrict == ASSUME NEW S \in SUBSET Nat PROVE OrdersStrictly(BySeq(S), S)
  BY DEF OrdersStrictly, BySeq

\* log_lines_after returns the lines above after_seq, each once and in order.
LEMMA NewLines ==
  ASSUME LogAssumption, TypeOK, NEW new,
         new = Sorted(LinesAfter(after), BySeq(LinesAfter(after)))
  PROVE  /\ new \in Seq(Nat)
         /\ DOMAIN new = 1..Len(new)
         /\ ToSet(new) = LinesAfter(after)
         /\ \A i, k \in 1..Len(new) : i < k => new[i] < new[k]
<1> DEFINE S == LinesAfter(after)
<1>1. lines \in SUBSET Nat /\ IsFiniteSet(lines)
  <2>1. seq \in Int /\ lines \in SUBSET (1..seq)
    BY DEF TypeOK, LogAssumption
  <2>2. IsFiniteSet(1..seq)
    BY <2>1, FS_Interval
  <2>3. IsFiniteSet(lines)
    BY <2>1, <2>2, FS_Subset
  <2>4. 1..seq \subseteq Nat
    BY <2>1
  <2>q. QED BY <2>1, <2>3, <2>4
<1>2. S \in SUBSET Nat /\ IsFiniteSet(S)
  <2>1. S \in SUBSET lines
    BY DEF LinesAfter
  <2>q. QED BY <1>1, <2>1, FS_Subset
<1> HIDE DEF S
<1>3. OrdersStrictly(BySeq(S), S)
  BY <1>2, BySeqStrict
<1>4. new = Sorted(S, BySeq(S))
  BY DEF S
<1>5. /\ Cardinality(S) \in Nat /\ new \in [1..Cardinality(S) -> S]
      /\ new \in Seq(S) /\ Len(new) = Cardinality(S) /\ DOMAIN new = 1..Cardinality(S)
  BY <1>2, <1>3, <1>4, SortedType
<1>6. new \in Seq(Nat)
  BY <1>2, <1>5, SeqMonotonic
<1>7. ASSUME NEW i \in 1..Len(new), NEW k \in 1..Len(new), i < k
      PROVE  new[i] < new[k]
  <2>1. <<new[i], new[k]>> \in BySeq(S)
    BY <1>2, <1>3, <1>4, <1>5, <1>7, SortedInOrder
  <2>q. QED BY <2>1 DEF BySeq
<1>8. ASSUME NEW s \in S PROVE s \in ToSet(new)
  <2>1. PICK i \in 1..Cardinality(S) : new[i] = s
    BY <1>2, <1>3, <1>4, SortedListsAll
  <2>q. QED BY <1>5, <2>1 DEF ToSet
<1>9. ToSet(new) \subseteq S
  BY <1>5 DEF ToSet
<1>q. QED BY <1>5, <1>6, <1>7, <1>8, <1>9 DEF S

\* What a stream has sent after it sends more.
LEMMA SentAfter ==
  ASSUME NEW s \in Seq(Nat), NEW t \in Seq(Nat)
  PROVE  ToSet(s \o t) = ToSet(s) \cup ToSet(t)
<1>1. /\ s \o t \in Seq(Nat) /\ Len(s \o t) = Len(s) + Len(t)
      /\ \A i \in 1..Len(s) + Len(t) :
           (s \o t)[i] = IF i <= Len(s) THEN s[i] ELSE t[i - Len(s)]
  BY ConcatProperties
<1>2. Len(s) \in Nat /\ Len(t) \in Nat
  OBVIOUS
<1>3. ASSUME NEW x \in ToSet(s \o t) PROVE x \in ToSet(s) \cup ToSet(t)
  <2>1. PICK i \in 1..Len(s) + Len(t) : x = (s \o t)[i]
    BY <1>1 DEF ToSet
  <2>2. CASE i <= Len(s)
    BY <1>1, <1>2, <2>1, <2>2 DEF ToSet
  <2>3. CASE ~(i <= Len(s))
    <3>1. i - Len(s) \in 1..Len(t) /\ x = t[i - Len(s)]
      BY <1>1, <1>2, <2>1, <2>3
    <3>q. QED BY <3>1 DEF ToSet
  <2>q. QED BY <2>2, <2>3
<1>4. ASSUME NEW x \in ToSet(s) PROVE x \in ToSet(s \o t)
  <2>1. PICK i \in 1..Len(s) : x = s[i]
    BY DEF ToSet
  <2>2. i \in 1..Len(s) + Len(t) /\ (s \o t)[i] = x
    BY <1>1, <1>2, <2>1
  <2>q. QED BY <1>1, <2>2 DEF ToSet
<1>5. ASSUME NEW x \in ToSet(t) PROVE x \in ToSet(s \o t)
  <2>1. PICK i \in 1..Len(t) : x = t[i]
    BY DEF ToSet
  <2>2. i + Len(s) \in 1..Len(s) + Len(t) /\ (s \o t)[i + Len(s)] = x
    BY <1>1, <1>2, <2>1
  <2>q. QED BY <1>1, <2>2 DEF ToSet
<1>q. QED BY <1>3, <1>4, <1>5

-----------------------------------------------------------------------------
(* The writer *)

\* The invariant holds after a claim.
LEMMA ClaimKeeps == ASSUME LogAssumption, IInv, Claim PROVE IInv'
<1> USE DEF IInv, PhaseTells, Terminal
<1>1. TypeOK'
  BY DEF Claim, TypeOK, streamVars, LogAssumption
<1>2. PhaseTells'
  BY DEF Claim, streamVars, TypeOK, LogAssumption
<1>3. AppendIsNew'
  BY DEF Claim, AppendIsNew, streamVars, TypeOK, LogAssumption
<1>4. ReadInOrder'
  BY DEF Claim, ReadInOrder, streamVars, ShownInOrder
<1>5. NothingPassed'
  BY DEF Claim, NothingPassed, streamVars, TypeOK
<1>6. EndReplayed'
  BY DEF Claim, EndReplayed, streamVars
<1>q. QED BY <1>1, <1>2, <1>3, <1>4, <1>5, <1>6

\* A new line is above every line there is.
LEMMA BeginLineKeeps == ASSUME LogAssumption, IInv, BeginLine PROVE IInv'
<1> USE DEF IInv, PhaseTells, Terminal
<1>1. TypeOK'
  BY DEF BeginLine, TypeOK, streamVars, NumberLine, LogAssumption
<1>2. PhaseTells'
  BY DEF BeginLine, streamVars, NumberLine, TypeOK, LogAssumption
<1>3. AppendIsNew'
  BY DEF BeginLine, AppendIsNew, streamVars, NumberLine, TypeOK, LogAssumption
<1>4. ReadInOrder'
  BY DEF BeginLine, ReadInOrder, streamVars, ShownInOrder
<1>5. NothingPassed'
  BY DEF BeginLine, NothingPassed, streamVars, TypeOK
<1>6. EndReplayed'
  BY DEF BeginLine, EndReplayed, streamVars
<1>q. QED BY <1>1, <1>2, <1>3, <1>4, <1>5, <1>6

\* The line that is inserted is above what any stream has read.
LEMMA EndLineKeeps == ASSUME LogAssumption, IInv, EndLine PROVE IInv'
<1> USE DEF IInv, PhaseTells, Terminal
<1>1. TypeOK'
  <2>1. append \in 1..seq
    BY DEF EndLine, TypeOK
  <2>2. append' = 0 /\ lines' \subseteq 1..seq /\ lines \subseteq lines'
    BY <2>1 DEF EndLine, TypeOK
  <2>q. QED BY <2>2 DEF EndLine, TypeOK, streamVars
<1>2. PhaseTells'
  BY DEF EndLine, streamVars, TypeOK, LogAssumption
<1>3. AppendIsNew'
  BY DEF EndLine, AppendIsNew, streamVars, TypeOK, LogAssumption
<1>4. ReadInOrder'
  BY DEF EndLine, ReadInOrder, streamVars, ShownInOrder
<1>5. NothingPassed'
  <2>1. append = seq /\ seq \notin lines /\ seq \in Nat \ {0}
    BY DEF EndLine, AppendIsNew, TypeOK, LogAssumption
  <2>2. after \in 0..seq /\ after # seq
    BY <2>1 DEF TypeOK
  <2>3. ~(append <= after)
    BY <2>1, <2>2
  <2>q. QED BY <2>3 DEF EndLine, NothingPassed, streamVars
<1>6. EndReplayed'
  BY DEF EndLine, EndReplayed, streamVars
<1>q. QED BY <1>1, <1>2, <1>3, <1>4, <1>5, <1>6

\* Only a line whose insert was given up can come below what a stream has read.
LEMMA SettleAdriftKeeps == ASSUME LogAssumption, IInv, SettleAdrift PROVE IInv'
<1> USE DEF IInv, PhaseTells, Terminal
<1>1. TypeOK'
  BY DEF SettleAdrift, TypeOK, streamVars, LogAssumption
<1>2. PhaseTells'
  BY DEF SettleAdrift, streamVars, TypeOK, LogAssumption
<1>3. AppendIsNew'
  BY DEF SettleAdrift, AppendIsNew, streamVars, TypeOK, LogAssumption
<1>4. ReadInOrder'
  BY DEF SettleAdrift, ReadInOrder, streamVars, ShownInOrder
<1>5. NothingPassed'
  BY DEF SettleAdrift, NothingPassed, streamVars, TypeOK
<1>6. EndReplayed'
  BY DEF SettleAdrift, EndReplayed, streamVars
<1>q. QED BY <1>1, <1>2, <1>3, <1>4, <1>5, <1>6

\* The lines of publish follow the lines of execute.
LEMMA ExecuteOkKeeps == ASSUME LogAssumption, IInv, ExecuteOk PROVE IInv'
<1> USE DEF IInv, PhaseTells, Terminal
<1>1. TypeOK'
  BY DEF ExecuteOk, TypeOK, streamVars, LogAssumption
<1>2. PhaseTells'
  BY DEF ExecuteOk, streamVars, TypeOK, LogAssumption
<1>3. AppendIsNew'
  BY DEF ExecuteOk, AppendIsNew, streamVars, TypeOK, LogAssumption
<1>4. ReadInOrder'
  BY DEF ExecuteOk, ReadInOrder, streamVars, ShownInOrder
<1>5. NothingPassed'
  BY DEF ExecuteOk, NothingPassed, streamVars, TypeOK
<1>6. EndReplayed'
  BY DEF ExecuteOk, EndReplayed, streamVars
<1>q. QED BY <1>1, <1>2, <1>3, <1>4, <1>5, <1>6

\* Only the end of execute drops an insert, and execute ends once.
LEMMA ExecuteEndsKeeps == ASSUME LogAssumption, IInv, ExecuteEnds PROVE IInv'
<1> USE DEF IInv, PhaseTells, Terminal
<1>1. TypeOK'
  BY DEF ExecuteEnds, TypeOK, streamVars, NumberLine, LogAssumption
<1>2. PhaseTells'
  BY DEF ExecuteEnds, streamVars, NumberLine, TypeOK, LogAssumption
<1>3. AppendIsNew'
  BY DEF ExecuteEnds, AppendIsNew, streamVars, NumberLine, TypeOK, LogAssumption
<1>4. ReadInOrder'
  BY DEF ExecuteEnds, ReadInOrder, streamVars, ShownInOrder
<1>5. NothingPassed'
  BY DEF ExecuteEnds, NothingPassed, streamVars, TypeOK
<1>6. EndReplayed'
  BY DEF ExecuteEnds, EndReplayed, streamVars
<1>q. QED BY <1>1, <1>2, <1>3, <1>4, <1>5, <1>6

\* The job ends, and with it what atFinish records.
LEMMA FinishKeeps == ASSUME LogAssumption, IInv, Finish PROVE IInv'
<1> USE DEF IInv, PhaseTells, Terminal
<1>1. TypeOK'
  <2>1. /\ phase' \in {"close", "over"} /\ status' \in {"queued", "running", "verified", "failed"}
        /\ atFinish' \subseteq lines
    BY DEF Finish, TypeOK
  <2>2. (seq \in 0..MaxLines /\ seq' = seq + 1 /\ append' = seq') \/ UNCHANGED <<seq, append>>
    BY DEF Finish, NumberLine, TypeOK, LogAssumption
  <2>3. /\ seq' \in 0..(MaxLines + 1) /\ append' \in {0, seq'}
        /\ dropped \cup warned \subseteq 1..seq' /\ lines \subseteq 1..seq'
    BY <2>2 DEF TypeOK, LogAssumption
  <2>q. QED BY <2>1, <2>3 DEF Finish, TypeOK, streamVars
<1>2. PhaseTells'
  BY DEF Finish, streamVars, NumberLine, TypeOK, LogAssumption
<1>3. AppendIsNew'
  BY DEF Finish, AppendIsNew, streamVars, NumberLine, TypeOK, LogAssumption
<1>4. ReadInOrder'
  BY DEF Finish, ReadInOrder, streamVars, ShownInOrder
<1>5. NothingPassed'
  BY DEF Finish, NothingPassed, streamVars, TypeOK
<1>6. EndReplayed'
  BY DEF Finish, EndReplayed, streamVars
<1>q. QED BY <1>1, <1>2, <1>3, <1>4, <1>5, <1>6

\* The last line of publish changes nothing that is read.
LEMMA CloseKeeps == ASSUME LogAssumption, IInv, Close PROVE IInv'
<1> USE DEF IInv, PhaseTells, Terminal
<1>1. TypeOK'
  BY DEF Close, TypeOK, streamVars, LogAssumption
<1>2. PhaseTells'
  BY DEF Close, streamVars, TypeOK, LogAssumption
<1>3. AppendIsNew'
  BY DEF Close, AppendIsNew, streamVars, TypeOK, LogAssumption
<1>4. ReadInOrder'
  BY DEF Close, ReadInOrder, streamVars, ShownInOrder
<1>5. NothingPassed'
  BY DEF Close, NothingPassed, streamVars, TypeOK
<1>6. EndReplayed'
  BY DEF Close, EndReplayed, streamVars
<1>q. QED BY <1>1, <1>2, <1>3, <1>4, <1>5, <1>6

-----------------------------------------------------------------------------
(* The stream *)

\* A new stream has sent nothing.
LEMMA OpenKeeps == ASSUME LogAssumption, IInv, Open PROVE IInv'
<1> USE DEF IInv, PhaseTells, Terminal
<1>1. TypeOK'
  BY DEF Open, TypeOK, writerVars, LogAssumption, ToSet
<1>2. PhaseTells'
  BY DEF Open, writerVars, TypeOK, LogAssumption, ToSet
<1>3. AppendIsNew'
  BY DEF Open, AppendIsNew, writerVars, TypeOK, LogAssumption, ToSet
<1>4. ReadInOrder'
  BY DEF Open, ReadInOrder, writerVars, ShownInOrder, ToSet
<1>5. NothingPassed'
  BY DEF Open, NothingPassed, writerVars, TypeOK, ToSet
<1>6. EndReplayed'
  BY DEF Open, EndReplayed, writerVars, TypeOK, ToSet
<1>q. QED BY <1>1, <1>2, <1>3, <1>4, <1>5, <1>6

\* A lost connection keeps what was sent.
LEMMA BreakKeeps == ASSUME LogAssumption, IInv, Break PROVE IInv'
<1> USE DEF IInv, PhaseTells, Terminal
<1>1. TypeOK'
  BY DEF Break, TypeOK, writerVars, LogAssumption
<1>2. PhaseTells'
  BY DEF Break, writerVars, TypeOK, LogAssumption
<1>3. AppendIsNew'
  BY DEF Break, AppendIsNew, writerVars, TypeOK, LogAssumption
<1>4. ReadInOrder'
  BY DEF Break, ReadInOrder, writerVars, ShownInOrder
<1>5. NothingPassed'
  BY DEF Break, NothingPassed, writerVars, TypeOK
<1>6. EndReplayed'
  BY DEF Break, EndReplayed, writerVars
<1>q. QED BY <1>1, <1>2, <1>3, <1>4, <1>5, <1>6

\* A stream opened at the end has by now sent all of atFinish.
LEMMA ReadStatusKeeps == ASSUME LogAssumption, IInv, ReadStatus PROVE IInv'
<1> USE DEF IInv, PhaseTells, Terminal
<1>1. TypeOK'
  BY DEF ReadStatus, TypeOK, writerVars, LogAssumption
<1>2. PhaseTells'
  BY DEF ReadStatus, writerVars, TypeOK, LogAssumption
<1>3. AppendIsNew'
  BY DEF ReadStatus, AppendIsNew, writerVars, TypeOK, LogAssumption
<1>4. ReadInOrder'
  BY DEF ReadStatus, ReadInOrder, writerVars, ShownInOrder
<1>5. NothingPassed'
  BY DEF ReadStatus, NothingPassed, writerVars, TypeOK
<1>6. EndReplayed'
  BY DEF ReadStatus, EndReplayed, writerVars, IsTerminal
<1>q. QED BY <1>1, <1>2, <1>3, <1>4, <1>5, <1>6

\* Reading sends the lines above after_seq, all of them, in order.
LEMMA ReadLinesKeeps == ASSUME LogAssumption, IInv, ReadLines PROVE IInv'
<1> USE DEF IInv
<1> DEFINE new == Sorted(LinesAfter(after), BySeq(LinesAfter(after)))
<1>1. /\ stream = "lines" /\ stream' = "status"
      /\ shown' = shown \o new
      /\ after' = IF new = <<>> THEN after ELSE Last(new)
      /\ UNCHANGED <<openedAtEnd, writerVars>>
  BY DEF ReadLines
<1>2. /\ new \in Seq(Nat)
      /\ DOMAIN new = 1..Len(new)
      /\ ToSet(new) = LinesAfter(after)
      /\ \A i, k \in 1..Len(new) : i < k => new[i] < new[k]
  BY NewLines
<1> HIDE DEF new
<1>3. shown \in Seq(Nat) /\ DOMAIN shown = 1..Len(shown) /\ Len(shown) \in Nat /\ Len(new) \in Nat
  BY <1>2 DEF ReadInOrder
<1>4. shown' \in Seq(Nat) /\ ToSet(shown') = ToSet(shown) \cup LinesAfter(after)
  BY <1>1, <1>2, <1>3, SentAfter
<1>5. after \in Nat /\ lines \subseteq Nat
  BY DEF TypeOK, LogAssumption
<1>6. /\ after' \in lines \cup {0} /\ after' \in Nat /\ after <= after'
      /\ \A s \in LinesAfter(after) : s <= after'
  <2>1. CASE new = <<>>
    <3>1. LinesAfter(after) = {}
      BY <1>2, <2>1 DEF ToSet
    <3>q. QED BY <1>1, <1>5, <2>1, <3>1 DEF TypeOK
  <2>2. CASE new # <<>>
    <3>1. Len(new) \in 1..Len(new)
      BY <1>2, <2>2, EmptySeq
    <3>2. after' = new[Len(new)] /\ after' \in LinesAfter(after)
      BY <1>1, <1>2, <2>2, <3>1 DEF Last, ToSet
    <3>3. after' \in lines /\ after' > after
      BY <3>2 DEF LinesAfter
    <3>4. ASSUME NEW s \in LinesAfter(after) PROVE s <= after'
      <4>1. PICK i \in 1..Len(new) : s = new[i]
        BY <1>2 DEF ToSet
      <4>2. i = Len(new) \/ new[i] < new[Len(new)]
        <5>1. i = Len(new) \/ i < Len(new)
          BY <1>3
        <5>q. QED BY <1>2, <3>1, <5>1
      <4>3. s \in Nat /\ after' \in Nat
        BY <1>5, <3>3 DEF LinesAfter
      <4>q. QED BY <3>2, <4>1, <4>2, <4>3
    <3>q. QED BY <1>5, <3>3, <3>4
  <2>q. QED BY <2>1, <2>2
<1>7. TypeOK'
  <2>1. ToSet(shown') \subseteq lines
    BY <1>4 DEF TypeOK, LinesAfter
  <2>q. QED BY <1>1, <1>6, <2>1 DEF TypeOK, writerVars
<1>8. PhaseTells' /\ AppendIsNew'
  BY <1>1 DEF PhaseTells, AppendIsNew, writerVars
<1>9. ReadInOrder'
  <2>1. /\ DOMAIN shown' = 1..Len(shown) + Len(new)
        /\ \A i \in 1..Len(shown) + Len(new) :
             shown'[i] = IF i <= Len(shown) THEN shown[i] ELSE new[i - Len(shown)]
    BY <1>1, <1>2, <1>3, ConcatProperties
  <2>2. \A i \in 1..Len(shown) : shown[i] \in Nat /\ shown[i] <= after
    BY <1>3 DEF ReadInOrder
  <2>3. \A i \in 1..Len(new) : new[i] \in Nat /\ after < new[i] /\ new[i] <= after'
    BY <1>2, <1>5, <1>6 DEF ToSet, LinesAfter
  <2>4. ASSUME NEW i \in DOMAIN shown' PROVE shown'[i] <= after'
    <3>1. CASE i <= Len(shown)
      BY <1>3, <1>5, <1>6, <2>1, <2>2, <3>1
    <3>2. CASE ~(i <= Len(shown))
      <4>1. i - Len(shown) \in 1..Len(new) /\ shown'[i] = new[i - Len(shown)]
        BY <1>3, <2>1, <3>2
      <4>q. QED BY <2>3, <4>1
    <3>q. QED BY <3>1, <3>2
  <2>5. ASSUME NEW i \in DOMAIN shown', NEW k \in DOMAIN shown', i < k
        PROVE  shown'[i] < shown'[k]
    <3>1. CASE k <= Len(shown)
      <4>1. i \in 1..Len(shown) /\ k \in 1..Len(shown) /\ shown'[i] = shown[i] /\ shown'[k] = shown[k]
        BY <1>3, <2>1, <2>5, <3>1
      <4>q. QED BY <1>3, <2>5, <4>1 DEF ReadInOrder, ShownInOrder
    <3>2. CASE i <= Len(shown) /\ ~(k <= Len(shown))
      <4>1. /\ i \in 1..Len(shown) /\ shown'[i] = shown[i]
            /\ k - Len(shown) \in 1..Len(new) /\ shown'[k] = new[k - Len(shown)]
        BY <1>3, <2>1, <3>2
      <4>2. shown[i] <= after /\ after < new[k - Len(shown)] /\ shown[i] \in Nat /\ new[k - Len(shown)] \in Nat
        BY <2>2, <2>3, <4>1
      <4>q. QED BY <1>5, <4>1, <4>2
    <3>3. CASE ~(i <= Len(shown))
      <4>1. /\ i - Len(shown) \in 1..Len(new) /\ shown'[i] = new[i - Len(shown)]
            /\ k - Len(shown) \in 1..Len(new) /\ shown'[k] = new[k - Len(shown)]
            /\ i - Len(shown) < k - Len(shown)
        BY <1>3, <2>1, <2>5, <3>3
      <4>q. QED BY <1>2, <4>1
    <3>q. QED BY <3>1, <3>2, <3>3
  <2>q. QED BY <1>4, <2>4, <2>5 DEF ReadInOrder, ShownInOrder
<1>10. NothingPassed'
  BY <1>1, <1>4, <1>5 DEF NothingPassed, LinesAfter, writerVars
<1>11. EndReplayed'
  <2>1. \A s \in atFinish : s \in lines /\ (s <= after \/ s \in LinesAfter(after))
    BY <1>5 DEF TypeOK, LinesAfter
  <2>2. openedAtEnd => atFinish \subseteq ToSet(shown')
    BY <1>4, <2>1 DEF EndReplayed
  <2>q. QED BY <1>1, <2>2 DEF EndReplayed, writerVars
<1>q. QED BY <1>7, <1>8, <1>9, <1>10, <1>11

-----------------------------------------------------------------------------
(* The specification *)

\* The invariant holds at first.
LEMMA InitKeeps == ASSUME LogAssumption, Init PROVE IInv
<1>1. TypeOK
  <2>1. ToSet(shown) = {}
    BY DEF Init, ToSet
  <2>2. seq \in 0..(MaxLines + 1) /\ append \in {0, seq}
    BY DEF Init, LogAssumption
  <2>q. QED BY <2>1, <2>2 DEF Init, TypeOK
<1>2. PhaseTells /\ AppendIsNew /\ NothingPassed /\ EndReplayed
  BY DEF Init, PhaseTells, Terminal, AppendIsNew, NothingPassed, EndReplayed,
         LogAssumption
<1>3. ReadInOrder
  BY DEF Init, ReadInOrder, ShownInOrder
<1>q. QED BY <1>1, <1>2, <1>3 DEF IInv

\* A line that comes into the table comes above all that streams have read, unless
\* its insert was given up; what a stream sends it sends in order.
THEOREM Invariance == Spec => []IInv
<1>1. Init => IInv
  BY InitKeeps, LogAssumption
<1>2. ASSUME IInv, [Next]_vars PROVE IInv'
  <2>1. CASE UNCHANGED vars
    BY <1>2, <2>1 DEF vars, writerVars, streamVars, IInv, TypeOK, PhaseTells, AppendIsNew,
       ReadInOrder, ShownInOrder, NothingPassed, EndReplayed
  <2>2. CASE Write
    BY <1>2, <2>2, LogAssumption, ClaimKeeps, BeginLineKeeps, EndLineKeeps, SettleAdriftKeeps,
       ExecuteOkKeeps, ExecuteEndsKeeps, FinishKeeps, CloseKeeps DEF Write
  <2>3. CASE Read
    BY <1>2, <2>3, LogAssumption, OpenKeeps, BreakKeeps, ReadLinesKeeps, ReadStatusKeeps DEF Read
  <2>q. QED BY <1>2, <2>1, <2>2, <2>3 DEF Next
<1>q. QED BY <1>1, <1>2, PTL DEF Spec

\* Line numbers stay below their bound, and a stream has only sent lines of the table.
THEOREM TypeCorrect == Spec => []TypeOK
<1>1. IInv => TypeOK
  BY DEF IInv
<1>q. QED BY <1>1, Invariance, PTL

\* A stream sends the lines of the log in the order of their numbers and none twice,
\* whatever commits between two of its readings.
THEOREM InOrder == Spec => []ShownInOrder
<1>1. IInv => ShownInOrder
  BY DEF IInv, ReadInOrder
<1>q. QED BY <1>1, Invariance, PTL

\* Only an insert that was given up can commit behind after_seq and be passed over by a
\* stream: one that reported an error, or the one at most that the timeout dropped.
THEOREM PassedOver == Spec => []OnlyUnconfirmedIsSkipped
<1>1. IInv => OnlyUnconfirmedIsSkipped
  BY DEF IInv, NothingPassed, PhaseTells, OnlyUnconfirmedIsSkipped
<1>q. QED BY <1>1, Invariance, PTL

\* A client that comes when the job has ended is sent the whole log of that moment,
\* also a line whose insert was given up and committed all the same.
THEOREM Replayed == Spec => []ReplayIsComplete
<1>1. IInv => ReplayIsComplete
  BY DEF IInv, EndReplayed, ReplayIsComplete
<1>q. QED BY <1>1, Invariance, PTL
=============================================================================
