-------------------------- MODULE ProvenanceProofs --------------------------
(***************************************************************************)
(* Proofs about Provenance.tla, for every set of jobs, Wasms, requests and *)
(* images, however the contract is upgraded and tags are re-pointed.       *)
(*                                                                         *)
(* IInv is the inductive invariant. The properties speak of the record;    *)
(* what has to be carried from step to step is what a task knows: where    *)
(* its hash and its flag come from (HashKnown, FlagKnown), which class its *)
(* tier is (TierKnown) and what ran so far (RanKnown). RecordKnown says the*)
(* same of the record and its job, and Publish hands one over to the other.*)
(***************************************************************************)
EXTENDS Provenance, TLAPS

\* After the step that sets it, up to the end of the task.
HasHash == {"check", "fetch", "build", "publish", "finish"}
HasFlag == {"fetch", "build", "publish", "finish"}

Claimed(m, r) == m # NONE /\ m.source_repo = r.repo_url /\ m.commit_sha = r.commit_sha

\* A flag is true of some Wasm in live.
FlagTrue(f, r, live) ==
  /\ f = "agrees" => \E w \in live : Claimed(Metadata[w], r)
  /\ f = "differs" => \E w \in live : ~Claimed(Metadata[w], r)

RequestKnown == \A j \in Jobs : pc[j] \notin {"new", "refused"} => request[j] \in Requests

\* While a window is open, it holds what the contract is.
WindowOpen ==
  \A j \in Jobs : pc[j] \in {"insert"} \cup Running /\ chain # NONE => chain \in window[j]

ImageKnown ==
  /\ \A j \in Jobs : pc[j] = "insert" => image[j] = request[j].image
  /\ ImageIsNamedOrEmbedded

HashKnown ==
  \A j \in Jobs : pc[j] \in HasHash =>
    /\ onchain[j] \in Wasms
    /\ request[j].expected = NONE => onchain[j] \in window[j]

FlagKnown ==
  \A j \in Jobs : flag[j] # "unknown" =>
    pc[j] \in HasFlag /\ FlagTrue(flag[j], request[j], window[j])

TierKnown == \A j \in Jobs : pc[j] \in HasFlag => tier[j] = Classify(BuildImage(j))

RanKnown ==
  \A j \in Jobs :
    /\ pc[j] \in Request \cup {"queued", "resolve", "check", "fetch"} => ran[j] = {}
    /\ Classify(BuildImage(j)) = "trusted" => ran[j] \subseteq TrustedDigests

RebuiltKnown == \A j \in Jobs : pc[j] \in {"publish", "finish"} => rebuilt[j] \in Wasms

RecordKnown ==
  record # NONE =>
    LET j == record.job IN
      /\ pc[j] \in {"finish"} \cup Verdicts
      /\ record.trust_tier = Classify(BuildImage(j))
      /\ record.status = "verified" => record.rebuilt_wasm_hash = record.wasm_hash
      /\ request[j].expected = NONE => record.wasm_hash \in window[j]
      /\ FlagTrue(record.sep58, request[j], window[j])

IInv ==
  /\ TypeOK /\ RequestKnown /\ WindowOpen /\ ImageKnown /\ HashKnown
  /\ FlagKnown /\ TierKnown /\ RanKnown /\ RebuiltKnown /\ RecordKnown

-----------------------------------------------------------------------------
(* One lemma for each action. *)

LEMMA InitKnown == Init => IInv
<1> SUFFICES ASSUME Init PROVE IInv
  OBVIOUS
<1> USE NoneAssumption DEF Init
<1>1. TypeOK
  BY DEF TypeOK, Request, Tiers, Flags, Running, Execute
<1>2. RequestKnown /\ WindowOpen /\ ImageKnown /\ HashKnown
  BY DEF RequestKnown, WindowOpen, ImageKnown, ImageIsNamedOrEmbedded, HashKnown,
         HasHash, Running, Execute
<1>3. FlagKnown /\ TierKnown /\ RanKnown /\ RebuiltKnown /\ RecordKnown
  BY DEF FlagKnown, TierKnown, RanKnown, RebuiltKnown, RecordKnown, HasFlag
<1> QED BY <1>1, <1>2, <1>3 DEF IInv

LEMMA UpgradeKnown ==
  ASSUME IInv, NEW w \in Wasms \cup {NONE}, Upgrade(w)
  PROVE  IInv'
<1> USE NoneAssumption DEF IInv, Upgrade, jobVars
<1>1. \A j \in Jobs : window[j] \subseteq window'[j] /\ window'[j] \subseteq Wasms
  BY DEF TypeOK
<1>2. TypeOK'
  BY DEF TypeOK
<1>3. RequestKnown' /\ WindowOpen'
  BY DEF TypeOK, RequestKnown, WindowOpen
<1>4. ImageKnown'
  BY <1>1 DEF ImageKnown, ImageIsNamedOrEmbedded
<1>5. HashKnown' /\ RanKnown' /\ RebuiltKnown' /\ TierKnown'
  BY <1>1 DEF HashKnown, RanKnown, RebuiltKnown, TierKnown, Classify, BuildImage
<1>6. FlagKnown'
  BY <1>1 DEF FlagKnown, FlagTrue, Claimed
<1>7. RecordKnown'
  <2> SUFFICES ASSUME record # NONE PROVE RecordKnown'
    BY DEF RecordKnown
  <2>1. record.job \in Jobs
    BY DEF TypeOK, Records
  <2> QED BY <1>1, <2>1 DEF RecordKnown, FlagTrue, Claimed, Classify, BuildImage
<1> QED BY <1>2, <1>3, <1>4, <1>5, <1>6, <1>7

LEMMA RepointKnown ==
  ASSUME IInv, NEW t \in Tags, NEW d \in Digests, Repoint(t, d)
  PROVE  IInv'
<1> USE DEF IInv, Repoint, jobVars
<1>1. TypeOK'
  BY DEF TypeOK
<1>2. RequestKnown' /\ WindowOpen' /\ ImageKnown' /\ HashKnown' /\ RebuiltKnown'
  BY DEF RequestKnown, WindowOpen, ImageKnown, ImageIsNamedOrEmbedded, HashKnown,
         RebuiltKnown
<1>3. FlagKnown' /\ TierKnown' /\ RanKnown' /\ RecordKnown'
  BY DEF FlagKnown, TierKnown, RanKnown, RecordKnown, FlagTrue, Claimed, Classify,
         BuildImage
<1> QED BY <1>1, <1>2, <1>3

\* What a step of one job leaves alone is known as before.
LEMMA CheckExistsKnown ==
  ASSUME IInv, NEW j \in Jobs, NEW r \in Requests, CheckExists(j, r)
  PROVE  IInv'
<1> USE NoneAssumption DEF IInv, CheckExists, Goto
<1>1. TypeOK' /\ (record # NONE => record.job # j)
  BY RequestsAssumption
  DEF TypeOK, ContractWasmHash, Request, Running, Verdicts, Execute, RecordKnown
<1>2. RequestKnown' /\ WindowOpen'
  BY DEF TypeOK, RequestKnown, WindowOpen, Running, Execute
<1>3. ImageKnown'
  BY DEF TypeOK, ImageKnown, ImageIsNamedOrEmbedded
<1>4. HashKnown' /\ RebuiltKnown' /\ FlagKnown'
  BY DEF TypeOK, HashKnown, RebuiltKnown, FlagKnown, HasHash, HasFlag, FlagTrue, Claimed
<1>5. TierKnown' /\ RanKnown'
  BY DEF TypeOK, TierKnown, RanKnown, HasFlag, Request, Classify, BuildImage
<1>6. RecordKnown'
  BY <1>1 DEF TypeOK, Records, RecordKnown, FlagTrue, Claimed, Classify, BuildImage
<1> QED BY <1>1, <1>2, <1>3, <1>4, <1>5, <1>6

LEMMA PrefillAndInsertKnown ==
  ASSUME IInv, NEW j \in Jobs, PrefillAndInsert(j)
  PROVE  IInv'
<1> USE NoneAssumption DEF IInv, PrefillAndInsert, Goto
<1> DEFINE Allowed(i) ==
      \/ i = request[j].image
      \/ /\ request[j].image = NONE
         /\ \E w \in window[j] : Metadata[w] # NONE /\ i = Metadata[w].image
<1>1. PICK i \in Images \cup {NONE} : image' = [image EXCEPT ![j] = i] /\ Allowed(i)
  <2>1. image[j] \in Images \cup {NONE} /\ image[j] = request[j].image
    BY DEF TypeOK, ImageKnown
  <2>2. CASE UNCHANGED image
    BY <2>1, <2>2 DEF TypeOK
  <2>3. CASE \E w \in FetchContractWasm :
               image' = [image EXCEPT ![j] = Prefilled(j, Embedded(w))]
    <3>1. PICK w \in FetchContractWasm :
            image' = [image EXCEPT ![j] = Prefilled(j, Embedded(w))]
      BY <2>3
    <3>2. w \in Wasms /\ w \in window[j]
      BY DEF FetchContractWasm, ContractWasmHash, TypeOK, WindowOpen
    <3> QED BY <2>1, <3>1, <3>2, MetadataAssumption DEF Prefilled, Embedded
  <2> QED BY <2>2, <2>3
<1>2. TypeOK' /\ (record # NONE => record.job # j)
  BY <1>1 DEF TypeOK, RecordKnown, Verdicts, Request
<1>3. RequestKnown' /\ WindowOpen'
  BY DEF TypeOK, RequestKnown, WindowOpen, Running, Execute
<1>4. ImageKnown'
  BY <1>1 DEF TypeOK, ImageKnown, ImageIsNamedOrEmbedded
<1>5. HashKnown' /\ RebuiltKnown' /\ FlagKnown'
  BY DEF TypeOK, HashKnown, RebuiltKnown, FlagKnown, HasHash, HasFlag, FlagTrue, Claimed
<1>6. TierKnown' /\ RanKnown'
  BY <1>1 DEF TypeOK, TierKnown, RanKnown, HasFlag, Request, Classify, BuildImage
<1>7. RecordKnown'
  BY <1>1, <1>2 DEF TypeOK, Records, RecordKnown, FlagTrue, Claimed, Classify, BuildImage
<1> QED BY <1>2, <1>3, <1>4, <1>5, <1>6, <1>7

LEMMA RefuseKnown ==
  ASSUME IInv, NEW j \in Jobs, Refuse(j)
  PROVE  IInv'
<1> USE NoneAssumption DEF IInv, Refuse, jobVars
<1>1. TypeOK' /\ (record # NONE => record.job # j)
  BY DEF TypeOK, RecordKnown, Verdicts, Request
<1>2. RequestKnown' /\ WindowOpen' /\ ImageKnown'
  BY DEF TypeOK, RequestKnown, WindowOpen, Running, Execute, ImageKnown,
         ImageIsNamedOrEmbedded
<1>3. HashKnown' /\ RebuiltKnown' /\ FlagKnown'
  BY DEF TypeOK, HashKnown, RebuiltKnown, FlagKnown, HasHash, HasFlag, FlagTrue, Claimed
<1>4. TierKnown' /\ RanKnown'
  BY DEF TypeOK, TierKnown, RanKnown, HasFlag, Request, Classify, BuildImage
<1>5. RecordKnown'
  BY <1>1 DEF TypeOK, Records, RecordKnown, FlagTrue, Claimed, Classify, BuildImage
<1> QED BY <1>1, <1>2, <1>3, <1>4, <1>5

LEMMA ClaimKnown ==
  ASSUME IInv, NEW j \in Jobs, Claim(j)
  PROVE  IInv'
<1> USE NoneAssumption DEF IInv, Claim, Goto, jobVars
<1>1. TypeOK' /\ (record # NONE => record.job # j)
  BY DEF TypeOK, RecordKnown, Verdicts, Request, Running, Execute
<1>2. RequestKnown' /\ WindowOpen' /\ ImageKnown'
  BY DEF TypeOK, RequestKnown, WindowOpen, Running, Execute, ImageKnown,
         ImageIsNamedOrEmbedded
<1>3. HashKnown' /\ RebuiltKnown' /\ FlagKnown'
  BY DEF TypeOK, HashKnown, RebuiltKnown, FlagKnown, HasHash, HasFlag, FlagTrue, Claimed
<1>4. TierKnown' /\ RanKnown'
  BY DEF TypeOK, TierKnown, RanKnown, HasFlag, Request, Classify, BuildImage
<1>5. RecordKnown'
  BY <1>1 DEF TypeOK, Records, RecordKnown, FlagTrue, Claimed, Classify, BuildImage
<1> QED BY <1>1, <1>2, <1>3, <1>4, <1>5

LEMMA ResolveHashKnown ==
  ASSUME IInv, NEW j \in Jobs, ResolveHash(j)
  PROVE  IInv'
<1> USE NoneAssumption DEF IInv, ResolveHash, Goto
<1>1. PICK h \in Wasms :
        /\ onchain' = [onchain EXCEPT ![j] = h]
        /\ request[j].expected = NONE => h \in window[j]
  <2>1. PICK h \in WasmHash(j) : onchain' = [onchain EXCEPT ![j] = h]
    OBVIOUS
  <2>2. request[j] \in Requests
    BY DEF RequestKnown
  <2>3. CASE request[j].expected # NONE
    BY <2>1, <2>2, <2>3, RequestsAssumption DEF WasmHash
  <2>4. CASE request[j].expected = NONE
    BY <2>1, <2>4 DEF WasmHash, ContractWasmHash, TypeOK, WindowOpen, Running, Execute
  <2> QED BY <2>3, <2>4
<1>2. TypeOK' /\ (record # NONE => record.job # j)
  BY <1>1 DEF TypeOK, RecordKnown, Verdicts, Running, Execute
<1>3. RequestKnown' /\ WindowOpen' /\ ImageKnown'
  BY DEF TypeOK, RequestKnown, WindowOpen, Running, Execute, ImageKnown,
         ImageIsNamedOrEmbedded
<1>4. HashKnown' /\ RebuiltKnown' /\ FlagKnown'
  BY <1>1 DEF TypeOK, HashKnown, RebuiltKnown, FlagKnown, HasHash, HasFlag, FlagTrue, Claimed
<1>5. TierKnown' /\ RanKnown'
  BY DEF TypeOK, TierKnown, RanKnown, HasFlag, Request, Classify, BuildImage
<1>6. RecordKnown'
  BY <1>2 DEF TypeOK, Records, RecordKnown, FlagTrue, Claimed, Classify, BuildImage
<1> QED BY <1>2, <1>3, <1>4, <1>5, <1>6

\* The flag is true of the Wasm it was read from.
LEMMA CrossCheckIsTrue ==
  ASSUME NEW w, NEW r, NEW live, w \in live
  PROVE  CrossCheck(Metadata[w], r) \in Flags /\ FlagTrue(CrossCheck(Metadata[w], r), r, live)
BY DEF CrossCheck, Names, Flags, FlagTrue, Claimed

LEMMA CheckMetadataKnown ==
  ASSUME IInv, NEW j \in Jobs, CheckMetadata(j)
  PROVE  IInv'
<1> USE NoneAssumption DEF IInv, CheckMetadata, Goto
<1>1. PICK f \in Flags :
        /\ flag' = [flag EXCEPT ![j] = f]
        /\ f = "unknown" \/ FlagTrue(f, request[j], window[j])
  <2>1. CASE UNCHANGED flag
    BY <2>1 DEF TypeOK, FlagKnown, HasFlag
  <2>2. CASE \E w \in FetchContractWasm :
               flag' = [flag EXCEPT ![j] = CrossCheck(Embedded(w), request[j])]
    <3>1. PICK w \in FetchContractWasm :
            flag' = [flag EXCEPT ![j] = CrossCheck(Metadata[w], request[j])]
      BY <2>2 DEF Embedded
    <3>2. w \in window[j]
      BY DEF FetchContractWasm, ContractWasmHash, TypeOK, WindowOpen, Running, Execute
    <3> QED BY <3>1, <3>2, CrossCheckIsTrue
  <2> QED BY <2>1, <2>2
<1>2. Classify(BuildImage(j)) \in Tiers
  BY DEF Classify, Tiers
<1>3. TypeOK' /\ (record # NONE => record.job # j)
  BY <1>1, <1>2 DEF TypeOK, RecordKnown, Verdicts, Running, Execute
<1>4. RequestKnown' /\ WindowOpen' /\ ImageKnown'
  BY DEF TypeOK, RequestKnown, WindowOpen, Running, Execute, ImageKnown,
         ImageIsNamedOrEmbedded
<1>5. HashKnown' /\ RebuiltKnown'
  BY DEF TypeOK, HashKnown, RebuiltKnown, HasHash
<1>6. FlagKnown'
  BY <1>1 DEF TypeOK, FlagKnown, HasFlag, FlagTrue, Claimed
<1>7. TierKnown' /\ RanKnown'
  BY DEF TypeOK, TierKnown, RanKnown, HasFlag, Request, Classify, BuildImage
<1>8. RecordKnown'
  BY <1>3 DEF TypeOK, Records, RecordKnown, FlagTrue, Claimed, Classify, BuildImage
<1> QED BY <1>3, <1>4, <1>5, <1>6, <1>7, <1>8

\* A container of a job of the trusted tier runs an allowlisted image: its
\* reference is a digest, so no tag has a say.
LEMMA ContainerIsTrusted ==
  ASSUME TypeOK, NEW j \in Jobs
  PROVE  /\ Content(BuildImage(j)) \in Digests
         /\ Classify(BuildImage(j)) = "trusted" => Content(BuildImage(j)) \in TrustedDigests
<1>1. BuildImage(j) \in Images
  BY ImagesAssumption DEF TypeOK, BuildImage
<1>2. BuildImage(j).ref \in Digests \cup Tags
  BY <1>1 DEF Images
<1>3. BuildImage(j).ref \in Tags => tagged[BuildImage(j).ref] \in Digests
  BY DEF TypeOK
<1> QED BY <1>2, <1>3, ImagesAssumption DEF Content, Classify

LEMMA FetchDependenciesKnown ==
  ASSUME IInv, NEW j \in Jobs, FetchDependencies(j)
  PROVE  IInv'
<1> USE NoneAssumption DEF IInv, FetchDependencies, Goto
<1>1. PICK d \in Digests :
        /\ ran' = [ran EXCEPT ![j] = @ \cup {d}]
        /\ Classify(BuildImage(j)) = "trusted" => d \in TrustedDigests
  BY ContainerIsTrusted DEF RunContainer
<1>2. TypeOK' /\ (record # NONE => record.job # j)
  BY <1>1 DEF TypeOK, RecordKnown, Verdicts, Running, Execute
<1>3. RequestKnown' /\ WindowOpen' /\ ImageKnown'
  BY DEF TypeOK, RequestKnown, WindowOpen, Running, Execute, ImageKnown,
         ImageIsNamedOrEmbedded
<1>4. HashKnown' /\ RebuiltKnown' /\ FlagKnown'
  BY DEF TypeOK, HashKnown, RebuiltKnown, FlagKnown, HasHash, HasFlag, FlagTrue, Claimed
<1>5. TierKnown' /\ RanKnown'
  BY <1>1 DEF TypeOK, TierKnown, RanKnown, HasFlag, Request, Classify, BuildImage
<1>6. RecordKnown'
  BY <1>2 DEF TypeOK, Records, RecordKnown, FlagTrue, Claimed, Classify, BuildImage
<1> QED BY <1>2, <1>3, <1>4, <1>5, <1>6

LEMMA BuildKnown ==
  ASSUME IInv, NEW j \in Jobs, NEW w \in Wasms, Build(j, w)
  PROVE  IInv'
<1> USE NoneAssumption DEF IInv, Build, Goto
<1>1. PICK d \in Digests :
        /\ ran' = [ran EXCEPT ![j] = @ \cup {d}]
        /\ Classify(BuildImage(j)) = "trusted" => d \in TrustedDigests
  BY ContainerIsTrusted DEF RunContainer
<1>2. TypeOK' /\ (record # NONE => record.job # j)
  BY <1>1 DEF TypeOK, RecordKnown, Verdicts, Running, Execute
<1>3. RequestKnown' /\ WindowOpen' /\ ImageKnown'
  BY DEF TypeOK, RequestKnown, WindowOpen, Running, Execute, ImageKnown,
         ImageIsNamedOrEmbedded
<1>4. HashKnown' /\ RebuiltKnown' /\ FlagKnown'
  BY DEF TypeOK, HashKnown, RebuiltKnown, FlagKnown, HasHash, HasFlag, FlagTrue, Claimed
<1>5. TierKnown' /\ RanKnown'
  BY <1>1 DEF TypeOK, TierKnown, RanKnown, HasFlag, Request, Classify, BuildImage
<1>6. RecordKnown'
  BY <1>2 DEF TypeOK, Records, RecordKnown, FlagTrue, Claimed, Classify, BuildImage
<1> QED BY <1>2, <1>3, <1>4, <1>5, <1>6

LEMMA FailKnown ==
  ASSUME IInv, NEW j \in Jobs, Fail(j)
  PROVE  IInv'
<1> USE NoneAssumption DEF IInv, Fail, Forget
<1>1. TypeOK' /\ (record # NONE => record.job # j)
  BY DEF TypeOK, RecordKnown, Verdicts, Running, Execute, Flags, Tiers
<1>2. RequestKnown' /\ WindowOpen' /\ ImageKnown'
  BY DEF TypeOK, RequestKnown, WindowOpen, Running, Execute, ImageKnown,
         ImageIsNamedOrEmbedded
<1>3. HashKnown' /\ RebuiltKnown' /\ FlagKnown'
  BY DEF TypeOK, HashKnown, RebuiltKnown, FlagKnown, HasHash, HasFlag, FlagTrue, Claimed
<1>4. TierKnown' /\ RanKnown'
  BY DEF TypeOK, TierKnown, RanKnown, HasFlag, Request, Classify, BuildImage
<1>5. RecordKnown'
  BY <1>1 DEF TypeOK, Records, RecordKnown, FlagTrue, Claimed, Classify, BuildImage
<1> QED BY <1>1, <1>2, <1>3, <1>4, <1>5

LEMMA PublishWritesRecord ==
  ASSUME IInv, NEW j \in Jobs, Publish(j)
  PROVE  record' \in Records /\ record'.job = j
<1>1. /\ onchain[j] \in Wasms /\ rebuilt[j] \in Wasms
      /\ tier[j] \in Tiers /\ flag[j] \in Flags
  BY DEF IInv, HashKnown, HasHash, RebuiltKnown, TypeOK, Publish, Goto
<1>2. Verdict(j) \in Verdicts
  BY DEF Verdict, Verdicts
<1> QED BY <1>1, <1>2 DEF Records, Publish

\* What the task knows becomes what is known of the record.
LEMMA PublishKnown ==
  ASSUME IInv, NEW j \in Jobs, Publish(j)
  PROVE  IInv'
<1> USE NoneAssumption DEF IInv, Publish, Goto, jobVars
<1>1. tier[j] = Classify(BuildImage(j))
  BY DEF TierKnown, HasFlag
<1>2. record' \in Records /\ record'.job = j
  BY PublishWritesRecord
<1>3. TypeOK'
  BY <1>2 DEF TypeOK, Running
<1>4. RequestKnown' /\ WindowOpen' /\ ImageKnown'
  BY DEF TypeOK, RequestKnown, WindowOpen, Running, Execute, ImageKnown,
         ImageIsNamedOrEmbedded
<1>5. HashKnown' /\ RebuiltKnown' /\ FlagKnown'
  BY DEF TypeOK, HashKnown, RebuiltKnown, FlagKnown, HasHash, HasFlag, FlagTrue, Claimed
<1>6. TierKnown' /\ RanKnown'
  BY DEF TypeOK, TierKnown, RanKnown, HasFlag, Request, Classify, BuildImage
<1>7. RecordKnown'
  <2>1. pc'[j] = "finish" /\ record'.trust_tier = Classify(BuildImage(j))
    BY <1>1 DEF TypeOK
  <2>2. record'.status = "verified" => record'.rebuilt_wasm_hash = record'.wasm_hash
    BY DEF Verdict
  <2>3. request[j].expected = NONE => record'.wasm_hash \in window[j]
    BY DEF HashKnown, HasHash
  <2>4. FlagTrue(record'.sep58, request[j], window[j])
    BY DEF FlagKnown, FlagTrue
  <2> QED BY <1>2, <2>1, <2>2, <2>3, <2>4
          DEF RecordKnown, FlagTrue, Claimed, Classify, BuildImage
<1> QED BY <1>3, <1>4, <1>5, <1>6, <1>7

LEMMA FinishKnown ==
  ASSUME IInv, NEW j \in Jobs, Finish(j)
  PROVE  IInv'
<1> USE NoneAssumption DEF IInv, Finish, Goto, Forget
<1>1. Verdict(j) \in Verdicts
  BY DEF Verdict, Verdicts
<1>2. TypeOK'
  BY <1>1 DEF TypeOK, Flags, Tiers
<1>3. RequestKnown' /\ WindowOpen' /\ ImageKnown'
  BY <1>1 DEF TypeOK, RequestKnown, WindowOpen, Running, Execute, ImageKnown,
         ImageIsNamedOrEmbedded, Verdicts
<1>4. HashKnown' /\ RebuiltKnown' /\ FlagKnown'
  BY <1>1 DEF TypeOK, HashKnown, RebuiltKnown, FlagKnown, HasHash, HasFlag, FlagTrue,
              Claimed, Verdicts
<1>5. TierKnown' /\ RanKnown'
  BY <1>1 DEF TypeOK, TierKnown, RanKnown, HasFlag, Request, Classify, BuildImage, Verdicts
<1>6. RecordKnown'
  BY <1>1 DEF TypeOK, Records, RecordKnown, FlagTrue, Claimed, Classify, BuildImage
<1> QED BY <1>2, <1>3, <1>4, <1>5, <1>6

-----------------------------------------------------------------------------
(* The invariants. *)

\* The inductive invariant holds in every reachable state.
THEOREM Invariance == Spec => []IInv
<1>1. IInv /\ [Next]_vars => IInv'
  <2> SUFFICES ASSUME IInv, [Next]_vars PROVE IInv'
    OBVIOUS
  <2>1. CASE UNCHANGED vars
    BY <2>1 DEF IInv, vars, jobVars, TypeOK, RequestKnown, WindowOpen, ImageKnown,
       ImageIsNamedOrEmbedded, HashKnown, FlagKnown, TierKnown, RanKnown, RebuiltKnown,
       RecordKnown, FlagTrue, Claimed, Classify, BuildImage
  <2>2. CASE \E w \in Wasms \cup {NONE} : Upgrade(w)
    BY <2>2, UpgradeKnown
  <2>3. CASE \E t \in Tags, d \in Digests : Repoint(t, d)
    BY <2>3, RepointKnown
  <2>4. ASSUME NEW j \in Jobs, Submit(j) PROVE IInv'
    BY <2>4, CheckExistsKnown, PrefillAndInsertKnown, RefuseKnown DEF Submit
  <2>5. ASSUME NEW j \in Jobs, Task(j) PROVE IInv'
    BY <2>5, ClaimKnown, ResolveHashKnown, CheckMetadataKnown, FetchDependenciesKnown,
       BuildKnown, FailKnown, PublishKnown, FinishKnown DEF Task
  <2> QED BY <2>1, <2>2, <2>3, <2>4, <2>5 DEF Next
<1> QED BY InitKnown, <1>1, PTL DEF Spec

\* Every variable has its type: in particular a record never lacks a hash.
THEOREM TypeCorrect == Spec => []TypeOK
<1>1. IInv => TypeOK
  BY DEF IInv
<1> QED BY <1>1, Invariance, PTL

\* However tags are re-pointed, a record of the trusted tier had allowlisted
\* images only in its containers; the badge shows it for verified builds only.
THEOREM TrustIsEarned == Spec => []TrustedIsEarned
<1>1. IInv => TrustedIsEarned
  BY DEF IInv, TypeOK, Records, RecordKnown, RanKnown, TrustedIsEarned, Badge, Verdicts,
         Tiers
<1> QED BY <1>1, Invariance, PTL

\* The recorded hash, unless the submitter set it, is of a Wasm the contract had
\* while the job ran, however often it is upgraded.
THEOREM RecordedHashIsLive == Spec => []RecordedHashWasLive
<1>1. IInv => RecordedHashWasLive
  BY DEF IInv, RecordKnown, RecordedHashWasLive
<1> QED BY <1>1, Invariance, PTL

\* What a record says of the SEP-58 metadata is true of such a Wasm too.
THEOREM FlagIsLive == Spec => []FlagIsAboutLiveWasm
<1>1. IInv => FlagIsAboutLiveWasm
  BY DEF IInv, RecordKnown, FlagTrue, Claimed, FlagIsAboutLiveWasm
<1> QED BY <1>1, Invariance, PTL

\* A queued job has the image its submitter named or one the contract embedded.
THEOREM ImageSource == Spec => []ImageIsNamedOrEmbedded
<1>1. IInv => ImageIsNamedOrEmbedded
  BY DEF IInv, ImageKnown
<1> QED BY <1>1, Invariance, PTL

-----------------------------------------------------------------------------
(* The jobs of a contract implement VerificationSpec.                       *)

statuses == [j \in Jobs |-> Status(j)]
publications == [j \in Jobs |-> Published(j)]
canonicalJob == [t \in {"contract"} |-> IF record = NONE THEN NONE ELSE record.job]

LEMMA StatusIs ==
  ASSUME NEW j \in Jobs
  PROVE  Status(j) = IF pc[j] \in Request THEN "absent"
                     ELSE IF pc[j] \in Running THEN "running" ELSE pc[j]
BY DEF Status, Request, Running, Execute

LEMMA PublishedIs ==
  ASSUME NEW j \in Jobs
  PROVE  Published(j) = IF pc[j] = "finish" THEN Verdict(j)
                        ELSE IF pc[j] \in Verdicts THEN pc[j] ELSE "none"
BY DEF Published, Verdicts

LEMMA InitImplements == Init => Abs!Init
<1> SUFFICES ASSUME Init PROVE Abs!Init
  OBVIOUS
<1>1. \A j \in Jobs : Status(j) = "absent" /\ Published(j) = "none"
  BY StatusIs, PublishedIs DEF Init, Request, Verdicts
<1> QED BY <1>1 DEF Init, Abs!Init

\* A step that moves one job: only this job's image under the mapping can change.
LEMMA JobMoves ==
  ASSUME TypeOK, NEW j \in Jobs, NEW from, NEW to, Goto(j, from, to),
         \A k \in Jobs \ {j} : onchain'[k] = onchain[k] /\ rebuilt'[k] = rebuilt[k]
  PROVE  /\ statuses' = [statuses EXCEPT ![j] = Status(j)']
         /\ publications' = [publications EXCEPT ![j] = Published(j)']
         /\ pc'[j] = to
<1>1. pc'[j] = to /\ \A k \in Jobs \ {j} : pc'[k] = pc[k]
  BY DEF TypeOK, Goto
<1>2. \A k \in Jobs \ {j} : Status(k)' = Status(k)
  BY <1>1 DEF Status
<1>3. \A k \in Jobs \ {j} : Published(k)' = Published(k)
  BY <1>1 DEF Published, Verdict
<1>4. statuses' = [statuses EXCEPT ![j] = Status(j)']
  BY <1>2 DEF statuses
<1>5. publications' = [publications EXCEPT ![j] = Published(j)']
  BY <1>3 DEF publications
<1> QED BY <1>1, <1>4, <1>5

\* Steps of a request or inside execute, after which the job looks as before.
LEMMA QuietStepImplements ==
  ASSUME TypeOK, NEW j \in Jobs, NEW from, NEW to, Goto(j, from, to),
         \/ from \in Request /\ to \in Request
         \/ from \in Execute /\ to \in Execute \cup {"publish"},
         UNCHANGED record,
         \A k \in Jobs \ {j} : onchain'[k] = onchain[k] /\ rebuilt'[k] = rebuilt[k]
  PROVE  UNCHANGED Abs!vars
<1>1. pc[j] = from /\ pc'[j] = to
  BY JobMoves DEF Goto
<1>2. Status(j)' = Status(j) /\ Published(j)' = Published(j)
  BY <1>1 DEF Status, Published, Request, Running, Execute, Verdicts
<1>3. UNCHANGED <<statuses, publications, canonicalJob>>
  BY <1>2, JobMoves DEF statuses, publications, canonicalJob
<1> QED BY <1>3 DEF statuses, publications, canonicalJob, Abs!vars

\* Steps that move the job on without publishing.
LEMMA MoveImplements ==
  ASSUME TypeOK, NEW j \in Jobs, NEW from, NEW to, Goto(j, from, to),
         \/ from = "insert" /\ to = "queued"
         \/ from = "queued" /\ to = "resolve"
         \/ from \in Execute /\ to = "failed"
         \/ from = "finish" /\ to = Verdict(j),
         UNCHANGED record,
         \A k \in Jobs \ {j} : onchain'[k] = onchain[k] /\ rebuilt'[k] = rebuilt[k]
  PROVE  Abs!Next
<1>1. pc[j] = from /\ pc'[j] = to
  BY JobMoves DEF Goto
<1>2. statuses' = [statuses EXCEPT ![j] = Status(j)'] /\ UNCHANGED canonicalJob
  BY JobMoves DEF canonicalJob
<1>3. ASSUME Published(j)' = Published(j) PROVE UNCHANGED publications
  BY <1>3, JobMoves DEF publications
<1>4. CASE from = "insert" /\ to = "queued"
  <2>1. /\ Status(j) = "absent" /\ Status(j)' = "queued"
        /\ Published(j)' = Published(j)
    BY <1>1, <1>4 DEF Status, Published, Request, Running, Execute, Verdicts
  <2>2. Abs!Submit(j)
    BY <1>2, <1>3, <2>1 DEF Abs!Submit, Abs!Move, statuses, publications, canonicalJob
  <2> QED BY <2>2 DEF Abs!Next
<1>5. CASE from = "queued" /\ to = "resolve"
  <2>1. /\ Status(j) = "queued" /\ Status(j)' = "running"
        /\ Published(j)' = Published(j)
    BY <1>1, <1>5 DEF Status, Published, Request, Running, Execute, Verdicts
  <2>2. Abs!Start(j)
    BY <1>2, <1>3, <2>1 DEF Abs!Start, Abs!Move, statuses, publications, canonicalJob
  <2> QED BY <2>2 DEF Abs!Next
<1>6. CASE from \in Execute /\ to = "failed"
  <2>1. /\ Status(j) = "running" /\ Status(j)' = "failed"
        /\ Published(j) = "none" /\ Published(j)' = "none"
    BY <1>1, <1>6 DEF Status, Published, Request, Running, Execute, Verdicts
  <2>2. Abs!Fail(j)
    BY <1>2, <1>3, <2>1 DEF Abs!Fail, Abs!Move, statuses, publications, canonicalJob
  <2> QED BY <2>2 DEF Abs!Next
<1>7. CASE from = "finish" /\ to = Verdict(j)
  <2>1. Verdict(j) \in Verdicts
    BY DEF Verdict, Verdicts
  <2>2. /\ Status(j) = "running" /\ Status(j)' = Verdict(j)
        /\ Published(j) = Verdict(j) /\ Published(j)' = Verdict(j)
    BY <1>1, <1>7, <2>1 DEF Status, Published, Request, Running, Execute, Verdicts
  <2>3. Abs!Complete(j)
    BY <1>2, <1>3, <2>1, <2>2
    DEF Abs!Complete, Abs!Move, statuses, publications, canonicalJob, Verdicts
  <2> QED BY <2>3 DEF Abs!Next
<1> QED BY <1>4, <1>5, <1>6, <1>7

LEMMA PublishImplements ==
  ASSUME IInv, NEW j \in Jobs, Publish(j)
  PROVE  Abs!Next
<1>1. /\ pc[j] = "publish" /\ pc'[j] = "finish"
      /\ statuses' = [statuses EXCEPT ![j] = Status(j)']
      /\ publications' = [publications EXCEPT ![j] = Published(j)']
  BY JobMoves DEF Publish, jobVars, Goto, IInv
<1>2. Verdict(j) \in Verdicts /\ Verdict(j)' = Verdict(j)
  BY DEF Verdict, Verdicts, Publish, jobVars
<1>3. /\ Status(j) = "running" /\ Status(j)' = "running"
      /\ Published(j) = "none" /\ Published(j)' = Verdict(j)
  BY <1>1, <1>2 DEF Status, Published, Request, Running, Execute, Verdicts
<1>4. record'.job = j /\ record' # NONE
  BY PublishWritesRecord, NoneAssumption
<1>5. canonicalJob' = [canonicalJob EXCEPT !["contract"] = j]
  BY <1>4 DEF canonicalJob
<1>6. UNCHANGED statuses
  BY <1>1, <1>3 DEF statuses
<1>7. publications[j] = "none" /\ publications' = [publications EXCEPT ![j] = Verdict(j)]
  BY <1>1, <1>3 DEF publications
<1>8. Abs!Publish(j, Verdict(j))
  BY <1>3, <1>5, <1>6, <1>7 DEF Abs!Publish, statuses, publications, canonicalJob
<1> QED BY <1>2, <1>8 DEF Abs!Next, Abs!Verdicts, Verdicts

LEMMA TaskImplements ==
  ASSUME IInv, NEW j \in Jobs, Task(j)
  PROVE  [Abs!Next]_(Abs!vars)
<1> USE DEF IInv
<1>1. CASE Claim(j)
  BY <1>1, MoveImplements DEF Claim, jobVars
<1>2. CASE ResolveHash(j)
  <2>1. \A k \in Jobs \ {j} : onchain'[k] = onchain[k] /\ rebuilt'[k] = rebuilt[k]
    BY <1>2 DEF ResolveHash, TypeOK
  <2> QED BY <1>2, <2>1, QuietStepImplements DEF ResolveHash, Execute
<1>3. CASE CheckMetadata(j)
  BY <1>3, QuietStepImplements DEF CheckMetadata, Execute
<1>4. CASE FetchDependencies(j)
  BY <1>4, QuietStepImplements DEF FetchDependencies, Execute
<1>5. CASE \E w \in Wasms : Build(j, w)
  <2>1. \A k \in Jobs \ {j} : onchain'[k] = onchain[k] /\ rebuilt'[k] = rebuilt[k]
    BY <1>5 DEF Build, TypeOK
  <2> QED BY <1>5, <2>1, QuietStepImplements DEF Build, Execute
<1>6. CASE Fail(j) \/ Finish(j)
  <2>1. \A k \in Jobs \ {j} : onchain'[k] = onchain[k] /\ rebuilt'[k] = rebuilt[k]
    BY <1>6 DEF Fail, Finish, Forget, TypeOK
  <2>2. CASE Fail(j)
    <3>1. Goto(j, pc[j], "failed") /\ pc[j] \in Execute /\ UNCHANGED record
      BY <2>2 DEF Fail, Goto
    <3> QED BY <2>1, <3>1, MoveImplements
  <2>3. CASE Finish(j)
    BY <2>1, <2>3, MoveImplements DEF Finish
  <2> QED BY <1>6, <2>2, <2>3
<1>7. CASE Publish(j)
  BY <1>7, PublishImplements
<1> QED BY <1>1, <1>2, <1>3, <1>4, <1>5, <1>6, <1>7 DEF Task

LEMMA StepImplements ==
  ASSUME IInv, [Next]_vars
  PROVE  [Abs!Next]_(Abs!vars)
<1>1. CASE UNCHANGED <<pc, onchain, rebuilt, record>>
  <2>1. UNCHANGED <<statuses, publications, canonicalJob>>
    BY <1>1 DEF statuses, publications, canonicalJob, Status, Published, Verdict
  <2> QED BY <2>1 DEF statuses, publications, canonicalJob, Abs!vars
<1>2. ASSUME NEW j \in Jobs, Submit(j) PROVE [Abs!Next]_(Abs!vars)
  <2>1. CASE \E r \in Requests : CheckExists(j, r)
    BY <2>1, QuietStepImplements DEF CheckExists, Request, IInv
  <2>2. CASE PrefillAndInsert(j)
    BY <2>2, MoveImplements DEF PrefillAndInsert, IInv
  <2>3. CASE Refuse(j)
    <3>1. Goto(j, pc[j], "refused") /\ pc[j] \in Request /\ UNCHANGED <<record, jobVars>>
      BY <2>3 DEF Refuse, Goto, Request
    <3> QED BY <3>1, QuietStepImplements DEF IInv, Request, jobVars
  <2> QED BY <1>2, <2>1, <2>2, <2>3 DEF Submit
<1>3. ASSUME NEW j \in Jobs, Task(j) PROVE [Abs!Next]_(Abs!vars)
  BY <1>3, TaskImplements
<1>4. CASE \/ UNCHANGED vars
           \/ \E w \in Wasms \cup {NONE} : Upgrade(w)
           \/ \E t \in Tags, d \in Digests : Repoint(t, d)
  BY <1>1, <1>4 DEF Upgrade, Repoint, vars, jobVars
<1> QED BY <1>2, <1>3, <1>4 DEF Next

\* Every behaviour of the jobs of one contract is one the service promises: in
\* particular the verdict published is the one the job ends in, whatever the chain
\* became in between.
THEOREM Implementation == Spec => ImplementsVerificationSpec
<1>1. IInv /\ [Next]_vars => [Abs!Next]_(Abs!vars)
  BY StepImplements
<1> QED BY InitImplements, <1>1, Invariance, PTL
        DEF Spec, Abs!Spec, ImplementsVerificationSpec
=============================================================================
