----------------------------- MODULE Provenance -----------------------------
(***************************************************************************)
(* What a record rests on: the claims submitted about one contract, the    *)
(* image its builds run in, the Wasm read from the chain, the SEP-58       *)
(* cross-check, the trust tier and the comparison. Sources: submit         *)
(* (api/src/routes/verify.rs), execute and publish (worker/src/pipeline.rs)*)
(* and the helpers they call in rpc.rs, sep58.rs, trust.rs and compare.rs. *)
(*                                                                         *)
(* The job reads the chain three times and the image reference twice, and  *)
(* none of it stands still: the contract can be upgraded (Upgrade) and a   *)
(* tag re-pointed (Repoint) between any two steps. Jobs of the contract    *)
(* run side by side. A step of a job that fails, or the build timeout,     *)
(* ends it as failed. Statements to Postgres succeed here; Worker.tla is   *)
(* about those that do not.                                                *)
(*                                                                         *)
(* A definition introduced by "Mistake:" is the next definition with one   *)
(* plausible error; no specification uses it.                              *)
(***************************************************************************)
CONSTANTS
  Jobs,           \* verification_jobs.id, all of one contract
  Wasms,          \* Wasm modules; the sha256 of one stands for it
  Metadata,       \* Wasm -> what its contractmetav0 section says, or NONE
  Requests,       \* the bodies of POST /v1/verify that validation lets pass
  Registries,     \* registries and namespaces images come from
  Digests, Tags,  \* what follows in a reference: @sha256:<digest>, or :<tag>
  TrustedDigests, AuditableRegistries, \* TRUSTED_IMAGE_DIGESTS, AUDITABLE_IMAGE_REGISTRIES
  DefaultImage,   \* DEFAULT_BUILD_IMAGE
  NONE            \* an Option that is None

\* An image reference, digest-pinned or not.
Images == [registry : Registries, ref : Digests \cup Tags]

Verdicts == {"verified", "mismatch"}
Tiers == {"trusted", "auditable", "deployer_supplied"}
Flags == {"unknown", "agrees", "differs"}

\* A row of `verifications`, as far as a job decides it.
Records ==
  [job : Jobs, wasm_hash : Wasms, rebuilt_wasm_hash : Wasms, trust_tier : Tiers,
   status : Verdicts, sep58 : Flags]

ASSUME ImagesAssumption ==
  /\ TrustedDigests \subseteq Digests /\ AuditableRegistries \subseteq Registries
  /\ DefaultImage \in Images /\ Digests \cap Tags = {}
ASSUME RequestsAssumption ==
  \A r \in Requests : r.image \in Images \cup {NONE} /\ r.expected \in Wasms \cup {NONE}
ASSUME MetadataAssumption ==
  \A w \in Wasms : Metadata[w] # NONE => Metadata[w].image \in Images \cup {NONE}
ASSUME NoneAssumption ==
  /\ NONE \notin Wasms /\ NONE \notin Requests /\ NONE \notin Images
  /\ NONE \notin Records

VARIABLES
  chain,    \* the Wasm of the contract, NONE while it cannot be found
  tagged,   \* tag -> the digest it names
  pc,       \* job -> the next step of its request or of its task, or how it ended
  request,  \* job -> what was submitted
  image,    \* job -> build_config.image, as inserted and claimed
  onchain,  \* job -> the hash the rebuild must reproduce
  flag,     \* job -> the SEP-58 cross-check
  tier,     \* job -> the trust tier
  ran,      \* history: job -> the digests its containers really ran
  rebuilt,  \* job -> the Wasm the build gave
  record,   \* the contract's row of `verifications`, or NONE
  window    \* history: job -> what the contract was while its request was
            \* handled, and from the claim on while its task runs

jobVars == <<request, image, onchain, flag, tier, ran, rebuilt>>
vars == <<chain, tagged, pc, jobVars, record, window>>

Request == {"new", "insert", "refused"}
Execute == {"resolve", "check", "fetch", "build"}
Running == Execute \cup {"publish", "finish"}

Init ==
  /\ chain \in Wasms \cup {NONE}
  /\ tagged \in [Tags -> Digests]
  /\ pc = [j \in Jobs |-> "new"]
  /\ request = [j \in Jobs |-> NONE]
  /\ image = [j \in Jobs |-> NONE]
  /\ onchain = [j \in Jobs |-> NONE]
  /\ flag = [j \in Jobs |-> "unknown"]
  /\ tier = [j \in Jobs |-> "deployer_supplied"]
  /\ ran = [j \in Jobs |-> {}]
  /\ rebuilt = [j \in Jobs |-> NONE]
  /\ record = NONE
  /\ window = [j \in Jobs |-> {}]

-----------------------------------------------------------------------------
(* The world around the service. *)

\* The contract is deployed, upgraded, or archived. Jobs under way see it.
Upgrade(w) ==
  /\ chain' = w
  /\ window' = [j \in Jobs |-> IF pc[j] \in {"insert"} \cup Running
                               THEN window[j] \cup ({w} \ {NONE}) ELSE window[j]]
  /\ UNCHANGED <<tagged, pc, jobVars, record>>

\* A tag is pointed to another image.
Repoint(t, d) ==
  /\ tagged' = [tagged EXCEPT ![t] = d]
  /\ UNCHANGED <<chain, pc, jobVars, record, window>>

\* What docker runs for an image reference at this moment.
Content(i) == IF i.ref \in Tags THEN tagged[i.ref] ELSE i.ref

\* contract_wasm_hash: the hash in the contract's instance entry, or an error
\* where there is no contract (or the call fails, which is always possible).
ContractWasmHash == {chain} \ {NONE}

\* fetch_contract_wasm reads that hash, then the code stored under it, which is
\* never replaced: an upgrade in between changes nothing.
FetchContractWasm == ContractWasmHash

\* resolve_from_wasm: no section, and one that does not parse, are NONE.
Embedded(w) == Metadata[w]

-----------------------------------------------------------------------------
(* submit *)

Goto(j, from, to) == pc[j] = from /\ pc' = [pc EXCEPT ![j] = to]

\* The contract exists: its hash is read, and thrown away.
CheckExists(j, r) ==
  /\ Goto(j, "new", "insert")
  /\ ContractWasmHash # {}
  /\ request' = [request EXCEPT ![j] = r]
  /\ image' = [image EXCEPT ![j] = r.image]
  /\ window' = [window EXCEPT ![j] = {chain}]
  /\ UNCHANGED <<chain, tagged, onchain, flag, tier, ran, rebuilt, record>>

\* Mistake: the metadata of the contract wins over the request.
PrefilledAlways(j, m) == IF m # NONE THEN m.image ELSE image[j]

\* The image of the metadata, where the request named none.
Prefilled(j, m) == IF image[j] = NONE /\ m # NONE THEN m.image ELSE image[j]

\* If the Wasm cannot be fetched, the request goes on as it is. Nothing of what
\* happens between the fetch and insert_job matters to the job.
PrefillAndInsert(j) ==
  /\ Goto(j, "insert", "queued")
  /\ \/ \E w \in FetchContractWasm : image' = [image EXCEPT ![j] = Prefilled(j, Embedded(w))]
     \/ UNCHANGED image
  /\ UNCHANGED <<chain, tagged, request, onchain, flag, tier, ran, rebuilt, record, window>>

\* 400, 404, 502 or 500: there is no job.
Refuse(j) ==
  /\ pc[j] \in {"new", "insert"}
  /\ pc' = [pc EXCEPT ![j] = "refused"]
  /\ UNCHANGED <<chain, tagged, jobVars, record, window>>

-----------------------------------------------------------------------------
(* The task: execute *)

Claim(j) ==
  /\ Goto(j, "queued", "resolve")
  /\ window' = [window EXCEPT ![j] = {chain} \ {NONE}]
  /\ UNCHANGED <<chain, tagged, jobVars, record>>

\* Mistake: the hash of the contract's record saves the call to the network.
WasmHashCached(j) ==
  IF request[j].expected # NONE THEN {request[j].expected}
  ELSE IF record # NONE THEN {record.wasm_hash} ELSE ContractWasmHash

\* onchain_wasm_hash: an expected hash replaces what is on the chain.
WasmHash(j) ==
  IF request[j].expected # NONE THEN {request[j].expected} ELSE ContractWasmHash

\* The clone follows; all it adds is another way to fail.
ResolveHash(j) ==
  /\ Goto(j, "resolve", "check")
  /\ \E h \in WasmHash(j) : onchain' = [onchain EXCEPT ![j] = h]
  /\ UNCHANGED <<chain, tagged, request, image, flag, tier, ran, rebuilt, record, window>>

\* Mistake: one of repository and commit is enough.
NamesEither(m, r) == m.source_repo = r.repo_url \/ m.commit_sha = r.commit_sha

\* Repositories are compared up to trailing slashes and commits up to case; two
\* that differ in no more are one value here.
Names(m, r) == m.source_repo = r.repo_url /\ m.commit_sha = r.commit_sha

CrossCheck(m, r) ==
  IF m = NONE \/ (m # NONE /\ NONE \in {m.source_repo, m.commit_sha}) THEN "unknown"
  ELSE IF Names(m, r) THEN "agrees" ELSE "differs"

\* Mistake: the tag is resolved to a digest for the classification only.
ClassifyResolved(i) ==
  IF Content(i) \in TrustedDigests THEN "trusted"
  ELSE IF i.registry \in AuditableRegistries THEN "auditable" ELSE "deployer_supplied"

\* TrustPolicy::classify: of the reference, whatever the tag names.
Classify(i) ==
  IF i.ref \in TrustedDigests THEN "trusted"
  ELSE IF i.registry \in AuditableRegistries THEN "auditable" ELSE "deployer_supplied"

BuildImage(j) == IF image[j] = NONE THEN DefaultImage ELSE image[j]

\* check_sep58_metadata reads the chain again and never fails the job.
CheckMetadata(j) ==
  /\ Goto(j, "check", "fetch")
  /\ \/ \E w \in FetchContractWasm :
          flag' = [flag EXCEPT ![j] = CrossCheck(Embedded(w), request[j])]
     \/ UNCHANGED flag
  /\ tier' = [tier EXCEPT ![j] = Classify(BuildImage(j))]
  /\ UNCHANGED <<chain, tagged, request, image, onchain, ran, rebuilt, record, window>>

\* The two containers; each looks the image reference up by itself.
RunContainer(j) == ran' = [ran EXCEPT ![j] = @ \cup {Content(BuildImage(j))}]

FetchDependencies(j) ==
  /\ Goto(j, "fetch", "build")
  /\ RunContainer(j)
  /\ UNCHANGED <<chain, tagged, request, image, onchain, flag, tier, rebuilt, record, window>>

\* A source and an image can be made to give any Wasm.
Build(j, w) ==
  /\ Goto(j, "build", "publish")
  /\ RunContainer(j)
  /\ rebuilt' = [rebuilt EXCEPT ![j] = w]
  /\ UNCHANGED <<chain, tagged, request, image, onchain, flag, tier, record, window>>

\* The task is over, and what it carried is gone.
Forget(j) ==
  /\ onchain' = [onchain EXCEPT ![j] = NONE]
  /\ flag' = [flag EXCEPT ![j] = "unknown"]
  /\ tier' = [tier EXCEPT ![j] = "deployer_supplied"]
  /\ rebuilt' = [rebuilt EXCEPT ![j] = NONE]

\* A call fails, the build fails, or BUILD_TIMEOUT_SECS pass.
Fail(j) ==
  /\ pc[j] \in Execute
  /\ pc' = [pc EXCEPT ![j] = "failed"]
  /\ Forget(j)
  /\ ran' = [ran EXCEPT ![j] = {}]
  /\ window' = [window EXCEPT ![j] = {}]
  /\ UNCHANGED <<chain, tagged, request, image, record>>

-----------------------------------------------------------------------------
(* The task: publish *)

\* Mistake: a difference counts as a failed build.
VerdictOrFailure(j) == IF rebuilt[j] = onchain[j] THEN "verified" ELSE "failed"

\* Mistake: the verdict is taken against the chain as it is by now.
VerdictNow(j) == IF rebuilt[j] = chain THEN "verified" ELSE "mismatch"

\* hashes_match
Verdict(j) == IF rebuilt[j] = onchain[j] THEN "verified" ELSE "mismatch"

Publish(j) ==
  /\ Goto(j, "publish", "finish")
  /\ record' = [job |-> j, wasm_hash |-> onchain[j], rebuilt_wasm_hash |-> rebuilt[j],
                trust_tier |-> tier[j], status |-> Verdict(j), sep58 |-> flag[j]]
  /\ UNCHANGED <<chain, tagged, jobVars, window>>

\* finish_job, with the verdict of the outcome.
Finish(j) ==
  /\ Goto(j, "finish", Verdict(j))
  /\ Forget(j)
  /\ UNCHANGED <<chain, tagged, request, image, ran, record, window>>

\* GET /badge: "unverified", "mismatch", or the tier of a verified build.
Badge ==
  CASE record = NONE -> "unverified"
    [] record # NONE /\ record.status = "mismatch" -> "mismatch"
    [] OTHER -> record.trust_tier

-----------------------------------------------------------------------------
Submit(j) == (\E r \in Requests : CheckExists(j, r)) \/ PrefillAndInsert(j) \/ Refuse(j)

Task(j) ==
  \/ Claim(j) \/ ResolveHash(j) \/ CheckMetadata(j)
  \/ FetchDependencies(j) \/ (\E w \in Wasms : Build(j, w)) \/ Fail(j)
  \/ Publish(j) \/ Finish(j)

Next ==
  \/ \E w \in Wasms \cup {NONE} : Upgrade(w)
  \/ \E t \in Tags, d \in Digests : Repoint(t, d)
  \/ \E j \in Jobs : Submit(j) \/ Task(j)

Spec == Init /\ [][Next]_vars

-----------------------------------------------------------------------------
(* Properties *)

TypeOK ==
  /\ chain \in Wasms \cup {NONE}
  /\ tagged \in [Tags -> Digests]
  /\ pc \in [Jobs -> Request \cup {"queued", "failed"} \cup Running \cup Verdicts]
  /\ request \in [Jobs -> Requests \cup {NONE}]
  /\ image \in [Jobs -> Images \cup {NONE}]
  /\ onchain \in [Jobs -> Wasms \cup {NONE}]
  /\ flag \in [Jobs -> Flags]
  /\ tier \in [Jobs -> Tiers]
  /\ ran \in [Jobs -> SUBSET Digests]
  /\ rebuilt \in [Jobs -> Wasms \cup {NONE}]
  /\ record \in Records \cup {NONE}
  /\ window \in [Jobs -> SUBSET Wasms]

\* A record of the trusted tier was built by allowlisted images and nothing
\* else, wherever tags were pointed in the meantime; and only one whose build gave
\* the recorded hash has the badge to show for it.
TrustedIsEarned ==
  /\ record # NONE /\ record.trust_tier = "trusted" =>
       ran[record.job] \subseteq TrustedDigests
  /\ Badge = "trusted" => record.rebuilt_wasm_hash = record.wasm_hash

\* The hash a record is about, unless the submitter set it, was the contract's
\* at some moment between the claim and the verdict: never one from before.
RecordedHashWasLive ==
  record # NONE /\ request[record.job].expected = NONE =>
    record.wasm_hash \in window[record.job]

\* What a record says of the SEP-58 metadata is true of a Wasm the contract had
\* while the job ran; of the recorded one, if the contract was not upgraded.
FlagIsAboutLiveWasm ==
  record # NONE =>
    LET r == request[record.job]
        Claimed(m) == m # NONE /\ m.source_repo = r.repo_url /\ m.commit_sha = r.commit_sha
        live == window[record.job]
    IN  /\ record.sep58 = "agrees" => \E w \in live : Claimed(Metadata[w])
        /\ record.sep58 = "differs" => \E w \in live : ~Claimed(Metadata[w])

\* A job waits with the image its submitter named, or, if none was named, with
\* none or one that the contract embedded while the request was handled.
ImageIsNamedOrEmbedded ==
  \A j \in Jobs : pc[j] = "queued" =>
    \/ image[j] = request[j].image
    \/ /\ request[j].image = NONE
       /\ \E w \in window[j] : Metadata[w] # NONE /\ image[j] = Metadata[w].image

\* The jobs of the contract keep what the service promises: in particular the
\* verdict of the record and the one the job ends in are the same.
Status(j) ==
  CASE pc[j] \in Request -> "absent"
    [] pc[j] \in Running -> "running"
    [] OTHER -> pc[j]

Published(j) ==
  CASE pc[j] = "finish" -> Verdict(j)
    [] pc[j] \in Verdicts -> pc[j]
    [] OTHER -> "none"

Abs == INSTANCE VerificationSpec
         WITH Targets <- {"contract"},
              TargetOf <- [j \in Jobs |-> "contract"],
              status <- [j \in Jobs |-> Status(j)],
              published <- [j \in Jobs |-> Published(j)],
              canonical <- [t \in {"contract"} |-> IF record = NONE THEN NONE ELSE record.job]

ImplementsVerificationSpec == Abs!Spec

-----------------------------------------------------------------------------
\* models.rs, of Verified: "Rebuilt Wasm matched the on-chain hash."
VerifiedMatchesChain ==
  record # NONE /\ record.status = "verified" =>
    record.rebuilt_wasm_hash \in window[record.job]
=============================================================================
