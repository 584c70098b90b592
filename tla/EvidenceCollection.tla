------------------------- MODULE EvidenceCollection -------------------------
(***************************************************************************)
(* How the evidence that a conversion is supported comes about. On a       *)
(* native machine of each target fluxform-ffmpeg-profile verifies an       *)
(* archive of ffmpeg against the checked-in profile and reports what is in *)
(* it; run_manifest_samples runs the corpus with the installed tools,      *)
(* unless that report does not allow it; a workflow job or a reviewer      *)
(* binds the two reports with a provenance record. collect_sample_reports  *)
(* then reads a directory with three files for each target and says        *)
(* whether they prove the support.                                         *)
(*                                                                         *)
(* Between any two steps the checkout, the installed tools, the archives   *)
(* and the collected files may change. A digest of a content is the        *)
(* content, or its name where the contents are constants. One program that *)
(* runs in a checkout finds it unchanged until it ends, the collector      *)
(* excepted; the tools are not replaced while the corpus runs.             *)
(***************************************************************************)
EXTENDS SampleRun

CONSTANTS
  Target,       \* TARGETS
  Tree,         \* contents of the repository
  FirstTree,    \* those the branch may have at first
  Package,      \* local packages, "capabilities" among them
  Depends,      \* [Package -> set of packages it names by a path]
  Content,      \* [Tree -> what its profile, its catalog with the manifest, its packages are]
  Gate,         \* [profile -> its distribution gate is approved]
  Rows,         \* [profile -> set of its artifact rows]
  Samples,      \* [catalog -> set of samples with their edges]
  Tool,         \* executables
  Archive,      \* archives of them
  FirstTool, FirstArchive, \* what every machine has at first
  Manual,       \* stands for the run of a job that no workflow started
  Nothing,      \* no document
  MaxRuns,      \* workflow runs (bound of the model)
  MaxJobs,      \* jobs (bound of the model)
  MaxMishaps    \* changes from outside (bound of the model)

ProfileOf == [v \in Tree |-> Content[v]["profile"]]
CatalogOf == [v \in Tree |-> Content[v]["catalog"]]
Profile == {ProfileOf[v] : v \in Tree}
Catalog == {CatalogOf[v] : v \in Tree}
File == {"profile", "sample", "provenance"}

\* BuildProfile::load refuses other documents.
validate_document(p) ==
  /\ \A r, q \in Rows[p] : r.id = q.id => r = q
  /\ Gate[p] => \A t \in Target : \E r \in Rows[p] : r.target = t /\ r.status = "approved"
ASSUME ProfileAssumption == \A p \in Profile : validate_document(p)

\* SampleCatalogV1::load and validate_manifest_samples refuse other catalogs; a file has a
\* rotation only as a property of its video.
validate_samples(c) ==
  /\ IsFiniteSet(Samples[c])
  /\ \A s, q \in Samples[c] : s.id = q.id => s = q
  /\ \A s \in Samples[c] :
       /\ s.edge.category \in {"audio", "image", "video"} /\ s.outcome \in {"success", "error"}
       /\ {"codecs", "audio", "video", "frames", "rotated", "tags"} \subseteq DOMAIN s.file
       /\ s.file.audio \in Nat /\ s.file.video \in Nat /\ s.file.frames \in Nat
       /\ s.file.rotated \in BOOLEAN /\ (s.file.rotated => s.file.video > 0)
ASSUME CatalogAssumption == \A c \in Catalog : validate_samples(c)

ASSUME PackageAssumption ==
  IsFiniteSet(Package) /\ "capabilities" \in Package /\ Depends \in [Package -> SUBSET Package]
ASSUME MachineAssumption ==
  /\ IsFiniteSet(Target) /\ FirstTree \subseteq Tree
  /\ FirstTool \in Tool /\ FirstArchive \in Archive /\ \A a \in Archive : a.tool \in Tool
  /\ Gate \in [Profile -> BOOLEAN]
  /\ \A p \in Profile : \A r \in Rows[p] :
       /\ r.id \in STRING /\ r.target \in Target /\ r.status \in {"candidate", "approved"}
       /\ r.archive \in Archive
ASSUME BoundsAssumption == MaxRuns \in Nat /\ MaxJobs \in Nat /\ MaxMishaps \in Nat

VARIABLES
  repo,      \* content of the branch
  runs,      \* content each workflow run was started on
  job,       \* [Target -> the job of its native machine]
  jobs,      \* number of jobs so far
  tmp,       \* [Target -> its extraction directory is there]
  installed, \* [Target -> executables under the configured paths]
  archive,   \* [Target -> archive under the configured path]
  bundles,   \* what jobs have uploaded or reviewers transferred
  dir,       \* [Target -> the files collected for it]
  coll,      \* the collector
  mishaps

machines == <<job, jobs, tmp, installed, archive>>
vars == <<repo, runs, machines, bundles, dir, coll, mishaps>>

ProfileReport == [target : Target, profile : Profile, gate : BOOLEAN, row : STRING,
                  status : {"candidate", "approved"}, archive : Archive, tool : Tool]
\* The results of a run are given by the tools that ran and the catalog they ran on; what is
\* measured of two runs (nth) is never the same.
SampleReport == [target : Target, tree : Tree, catalog : Catalog, commit : Tree,
                 profile : Profile, row : STRING, tool : Tool,
                 status : {"blocked", "failed", "passed"}, by : Tool, nth : 1..MaxJobs]
ProvenanceWith(Hash) ==
  [target : Target, tree : Tree, commit : Tree, run : Nat \cup {Manual}, profile : ProfileReport,
   sample : SampleReport, reviewed : BOOLEAN, transfer : Hash]
TransferHash == ProfileReport \X SampleReport \X ProvenanceWith({Nothing})
ProvenanceReport == ProvenanceWith(TransferHash \cup {Nothing})
ASSUME NothingAssumption ==
  /\ Nothing \notin ProfileReport \cup SampleReport \cup ProvenanceReport \cup TransferHash
  /\ Manual \notin Nat /\ Nothing \notin {"passed", "blocked"}
Step == {"idle", "started", "opened", "extracting", "probing", "reported", "sampled"}
Verifying == {"extracting", "probing"}

----------------------------------------------------------------------------
(* The digest of what the evidence rests on: the profile, the catalog, and the packages that *)
(* the runner's own reaches. Nothing else of the repository is in it.                        *)

local_dependency_closure ==
  LET Visited[n \in 0..Cardinality(Package)] ==
        IF n = 0 THEN {"capabilities"}
        ELSE Visited[n - 1] \cup UNION {Depends[p] : p \in Visited[n - 1]}
  IN Visited[Cardinality(Package)]

compute_evidence_input_digest ==
  [v \in Tree |-> [p \in {"profile", "catalog"} \cup local_dependency_closure |-> Content[v][p]]]
SameEvidence(v, w) == compute_evidence_input_digest[v] = compute_evidence_input_digest[w]

----------------------------------------------------------------------------
(* The native machine: fluxform-ffmpeg-profile verify *)

RowOf(p, id) == {r \in Rows[p] : r.id = id}
Idle == [pc |-> "idle", run |-> Manual, commit |-> Nothing, tree |-> Nothing, row |-> Nothing,
         report |-> Nothing, sample |-> Nothing]

\* A workflow run checks out the commit it was started on, in every job.
Dispatch ==
  /\ coll.pc = "idle"
  /\ Len(runs) < MaxRuns
  /\ runs' = Append(runs, repo)
  /\ UNCHANGED <<repo, machines, bundles, dir, coll, mishaps>>

\* The configuration of the machine names the row. Machines share nothing before they upload:
\* a job starts when no other runs.
Start(t, run, v, r) ==
  /\ \A u \in Target : job[u].pc = "idle"
  /\ jobs < MaxJobs /\ coll.pc = "idle"
  /\ job' = [job EXCEPT ![t] = [Idle EXCEPT !.pc = "started", !.run = run, !.commit = v,
                                            !.tree = v, !.row = r]]
  /\ jobs' = jobs + 1
  /\ UNCHANGED <<repo, runs, tmp, installed, archive, bundles, dir, coll, mishaps>>

StartInRun(t) == \E k \in DOMAIN runs : \E r \in Rows[ProfileOf[runs[k]]] : Start(t, k, runs[k], r)
StartByHand(t) == \E r \in Rows[ProfileOf[repo]] : Start(t, Manual, repo, r)

\* The directory is removed on every way out. When that fails, so does the verification; what
\* is left behind then has no reader.
Close(t) == tmp' = [tmp EXCEPT ![t] = FALSE]

Ends(t) == job' = [job EXCEPT ![t] = Idle]
Abandon(t) == Close(t) /\ Ends(t)

verify_archive_identity(t) ==
  /\ job[t].pc = "started"
  /\ IF archive[t] = job[t].row.archive /\ job[t].row.target = t
       THEN job' = [job EXCEPT ![t].pc = "opened"] /\ UNCHANGED tmp
       ELSE Abandon(t)
  /\ UNCHANGED <<repo, runs, jobs, installed, archive, bundles, dir, coll, mishaps>>

\* The archive is opened again and copied; what was copied is hashed, inspected and extracted.
CopyMatches(t) == archive[t] = job[t].row.archive
Inspected(a) == a.layout = "siblings"
copy_authenticated_archive(t) ==
  /\ job[t].pc = "opened"
  /\ IF CopyMatches(t) /\ Inspected(archive[t])
       THEN /\ tmp' = [tmp EXCEPT ![t] = TRUE]
            /\ job' = [job EXCEPT ![t].pc = "extracting"]
       ELSE Abandon(t)
  /\ UNCHANGED <<repo, runs, jobs, installed, archive, bundles, dir, coll, mishaps>>

\* The extractor ends; what it wrote is measured against the row.
extract_and_verify(t) ==
  /\ job[t].pc = "extracting"
  /\ \E ok \in BOOLEAN :
       IF ok /\ job[t].row.archive.tool = job[t].row.tool
         THEN job' = [job EXCEPT ![t].pc = "probing"] /\ UNCHANGED tmp
         ELSE Abandon(t)
  /\ UNCHANGED <<repo, runs, jobs, installed, archive, bundles, dir, coll, mishaps>>

\* The one row of the target whose tools these are.
artifact_for_report(p, t, tool) ==
  LET found == {r \in Rows[p] : r.target = t /\ r.tool = tool}
  IN IF Cardinality(found) = 1 THEN found ELSE {}

ReportOf(t) ==
  LET p == ProfileOf[job[t].tree]
      r == job[t].row
  IN [target |-> t, profile |-> p, gate |-> Gate[p], row |-> r.id, status |-> r.status,
      archive |-> r.archive, tool |-> r.archive.tool]

validate(t, report) ==
  job[t].row \in artifact_for_report(ProfileOf[job[t].tree], t, report.tool)

approved_artifact(p, id) == {r \in RowOf(p, id) : r.status = "approved"}

verify_identity(report, p) ==
  \E r \in approved_artifact(p, report.row) :
    /\ report.profile = p /\ report.gate = Gate[p] /\ report.status = r.status
    /\ report.target = r.target /\ report.archive = r.archive /\ report.tool = r.tool

\* What the program checks of its own report before it writes it.
run_verify(report, p) == report.status = "approved" => verify_identity(report, p)

\* The probes end; the report is written when the directory is gone.
collect_from_archive(t) ==
  /\ job[t].pc = "probing"
  /\ LET report == ReportOf(t)
         p == ProfileOf[job[t].tree]
     IN \/ /\ validate(t, report)
           /\ run_verify(report, p)
           /\ Close(t)
           /\ job' = [job EXCEPT ![t].pc = "reported", ![t].report = report]
        \/ Abandon(t)
  /\ UNCHANGED <<repo, runs, jobs, installed, archive, bundles, dir, coll, mishaps>>

\* A child that does not end is killed: EXTRACT_TIMEOUT, PROBE_TIMEOUT.
TimeOut(t) ==
  /\ job[t].pc \in Verifying
  /\ Abandon(t)
  /\ UNCHANGED <<repo, runs, jobs, installed, archive, bundles, dir, coll, mishaps>>

----------------------------------------------------------------------------
(* The native machine: run_manifest_samples, and the binding of its report *)

\* The executables under the configured paths are hashed before they run.
verify_executable_identity(t) == installed[t] = job[t].report.tool

Unblocked(t) ==
  LET p == ProfileOf[job[t].tree]
      report == job[t].report
  IN /\ Gate[p] /\ report.gate
     /\ report.status = "approved"
     /\ report.profile = p
     /\ verify_identity(report, p)
     /\ verify_executable_identity(t)

\* What the corpus of a catalog gives with some tools, and which results hold for which catalog.
Outcome == [tool \in Tool |-> [c \in Catalog |->
              {execute_one(tool, s.edge, s) : s \in Samples[c]}]]
Holds == [tool \in Tool |-> [ran \in Catalog |-> [c \in Catalog |->
            ResultsHold(Outcome[tool][ran], Samples[c])]]]
AllPassed == [tool \in Tool |-> [c \in Catalog |->
               \A r \in Outcome[tool][c] : r.status = "passed"]]

run_manifest_samples(t) ==
  /\ job[t].pc = "reported"
  /\ LET v == job[t].tree
         c == CatalogOf[v]
         status == IF ~Unblocked(t) THEN "blocked"
                   ELSE IF AllPassed[installed[t]][c] THEN "passed" ELSE "failed"
         sample == [target |-> t, tree |-> v, catalog |-> c, commit |-> job[t].commit,
                    profile |-> job[t].report.profile, row |-> job[t].report.row,
                    tool |-> job[t].report.tool, status |-> status, by |-> installed[t],
                    nth |-> jobs]
     IN \* a step of a workflow whose program fails ends the job
        IF job[t].run # Manual /\ status # "passed" THEN Ends(t)
        ELSE job' = [job EXCEPT ![t].pc = "sampled", ![t].sample = sample]
  /\ UNCHANGED <<repo, runs, jobs, tmp, installed, archive, bundles, dir, coll, mishaps>>

\* The hash over both reports and the provenance without this hash.
compute_manual_transfer_sha256_WithItself(profile, sample, provenance) ==
  <<profile, sample, provenance>>
compute_manual_transfer_sha256(profile, sample, provenance) ==
  <<profile, sample, [provenance EXCEPT !.transfer = Nothing]>>

Provenance(t) ==
  [target |-> t, tree |-> job[t].sample.tree, commit |-> job[t].commit, run |-> job[t].run,
   profile |-> job[t].report, sample |-> job[t].sample,
   reviewed |-> job[t].run = Manual, transfer |-> Nothing]

Bind(t) ==
  /\ job[t].pc = "sampled"
  /\ LET draft == Provenance(t)
         hash == compute_manual_transfer_sha256(job[t].report, job[t].sample, draft)
         provenance == IF draft.reviewed THEN [draft EXCEPT !.transfer = hash] ELSE draft
     IN bundles' = bundles \cup {[profile |-> job[t].report, sample |-> job[t].sample,
                                  provenance |-> provenance]}
  /\ Ends(t)
  /\ UNCHANGED <<repo, runs, jobs, tmp, installed, archive, dir, coll, mishaps>>

----------------------------------------------------------------------------
(* What happens from outside *)

NoFiles == [f \in File |-> Nothing]

Mishap == mishaps < MaxMishaps /\ coll.pc # "done" /\ mishaps' = mishaps + 1

EditRepo ==
  /\ Mishap
  /\ repo' \in Tree \ {repo}
  /\ UNCHANGED <<runs, machines, bundles, dir, coll>>

\* Only in a checkout of a person, between two programs; its commit stays.
EditClone(t) ==
  /\ Mishap
  /\ job[t].pc \in {"reported", "sampled"} /\ job[t].run = Manual
  /\ \E v \in Tree \ {job[t].tree} : job' = [job EXCEPT ![t].tree = v]
  /\ UNCHANGED <<repo, runs, jobs, tmp, installed, archive, bundles, dir, coll>>

Upgrade(t) ==
  /\ Mishap /\ coll.pc = "idle"
  /\ \E x \in Tool \ {installed[t]} : installed' = [installed EXCEPT ![t] = x]
  /\ UNCHANGED <<repo, runs, job, jobs, tmp, archive, bundles, dir, coll>>

Reprovision(t) ==
  /\ Mishap /\ coll.pc = "idle"
  /\ \E a \in Archive \ {archive[t]} : archive' = [archive EXCEPT ![t] = a]
  /\ UNCHANGED <<repo, runs, job, jobs, tmp, installed, bundles, dir, coll>>

\* A file that is still to be read is lost, or exchanged for that of another bundle.
StillToRead(t) == (IF coll.pc = "targets" THEN {} ELSE {"provenance"})
               \cup (IF t \in DOMAIN coll.accepted THEN {} ELSE {"profile", "sample"})
Swap(t) ==
  /\ Mishap
  /\ coll.pc # "idle"
  /\ \E b \in bundles \cup {NoFiles}, f \in StillToRead(t) :
       b[f] # dir[t][f] /\ dir' = [dir EXCEPT ![t][f] = b[f]]
  /\ UNCHANGED <<repo, runs, machines, bundles, coll>>

----------------------------------------------------------------------------
(* The collector *)

Empty == [t \in Target |-> NoFiles]

Candidates(t) == {b \in bundles : b.provenance.target = t}

\* The artifacts of a run are downloaded, or bundles are copied, one for each target that has
\* any; then the digest of the checkout is taken. A job that still runs would only add a bundle
\* to exchange files with: none does.
Gather ==
  /\ coll.pc = "idle" /\ \A t \in Target : job[t].pc = "idle"
  /\ bundles # {}
  /\ dir' \in {d \in [Target -> bundles \cup {NoFiles}] :
                \A t \in Target : IF Candidates(t) = {} THEN d[t] = NoFiles
                                  ELSE d[t] \in Candidates(t)}
  /\ coll' = [coll EXCEPT !.pc = "digest", !.tree = repo]
  /\ UNCHANGED <<repo, runs, machines, bundles, mishaps>>

Block_Forgets == UNCHANGED coll
Block == coll' = [coll EXCEPT !.pc = "done", !.verdict = "blocked"]

\* The documents are loaded, and later hashed, from files.
LoadDocuments ==
  /\ coll.pc = "digest"
  /\ coll' = [coll EXCEPT !.pc = "loaded", !.catalog = CatalogOf[repo]]
  /\ UNCHANGED <<repo, runs, machines, bundles, dir, mishaps>>

HashDocuments ==
  /\ coll.pc = "loaded"
  /\ coll' = [coll EXCEPT !.pc = "hashed", !.hashed = CatalogOf[repo], !.profile = ProfileOf[repo]]
  /\ UNCHANGED <<repo, runs, machines, bundles, dir, mishaps>>

\* The mode that these records have in common, {} if there is none.
determine_collection_mode(records) ==
  IF \A r \in records : ~r.reviewed /\ r.run # Manual
    THEN IF Cardinality({r.run : r \in records}) = 1 THEN {"workflow"} ELSE {}
  ELSE IF \A r \in records : r.reviewed /\ r.run = Manual /\ r.transfer # Nothing THEN {"manual"}
  ELSE {}

validate_exact_files(t) == \A f \in File : dir[t][f] # Nothing

ReadProvenance ==
  /\ coll.pc = "hashed"
  /\ IF \A t \in Target : validate_exact_files(t)
       THEN LET modes == determine_collection_mode({dir[t].provenance : t \in Target})
            IN IF modes = {} THEN Block
               ELSE coll' = [coll EXCEPT !.pc = "targets", !.mode = CHOOSE m \in modes : TRUE,
                                         !.provenance = [t \in Target |-> dir[t].provenance]]
       ELSE Block
  /\ UNCHANGED <<repo, runs, machines, bundles, dir, mishaps>>

validate_provenance_identity_NoSample(t, provenance, profile, sample) ==
  provenance.target = t /\ SameEvidence(provenance.tree, coll.tree) /\ provenance.profile = profile
validate_provenance_identity(t, provenance, profile, sample) ==
  /\ provenance.target = t
  /\ SameEvidence(provenance.tree, coll.tree)
  /\ provenance.profile = profile
  /\ provenance.sample = sample

TransferMatches(provenance, profile, sample) ==
  coll.mode = "manual" =>
    provenance.transfer = compute_manual_transfer_sha256(profile, sample, provenance)

ReportsAgree(t, provenance, profile, sample) ==
  /\ profile.target = t /\ sample.target = t
  /\ SameEvidence(sample.tree, coll.tree)
  /\ sample.profile = profile.profile /\ sample.row = profile.row /\ sample.tool = profile.tool
  /\ sample.commit = provenance.commit
  /\ sample.catalog = coll.hashed

validate_run_report_inputs(sample) ==
  sample.status = "passed" /\ Holds[sample.by][sample.catalog][coll.catalog]

Proven(t, provenance, profile, sample) ==
  /\ profile # Nothing /\ sample # Nothing
  /\ validate_provenance_identity(t, provenance, profile, sample)
  /\ TransferMatches(provenance, profile, sample)
  /\ ReportsAgree(t, provenance, profile, sample)
  /\ validate_run_report_inputs(sample)
  /\ Gate[coll.profile]
  /\ verify_identity(profile, coll.profile)

CollectTarget(t) ==
  /\ coll.pc = "targets" /\ t \notin DOMAIN coll.accepted
  /\ IF Proven(t, coll.provenance[t], dir[t].profile, dir[t].sample)
       THEN coll' = [coll EXCEPT !.accepted =
              [u \in DOMAIN @ \cup {t} |->
                 IF u = t THEN [profile |-> dir[t].profile, sample |-> dir[t].sample,
                                provenance |-> coll.provenance[t]]
                 ELSE coll.accepted[u]]]
       ELSE Block
  /\ UNCHANGED <<repo, runs, machines, bundles, dir, mishaps>>

Aggregate ==
  /\ coll.pc = "targets" /\ DOMAIN coll.accepted = Target
  /\ coll' = [coll EXCEPT !.pc = "done", !.verdict = "passed"]
  /\ UNCHANGED <<repo, runs, machines, bundles, dir, mishaps>>

----------------------------------------------------------------------------
Init ==
  /\ repo \in FirstTree /\ runs = <<>>
  /\ job = [t \in Target |-> Idle] /\ jobs = 0
  /\ tmp = [t \in Target |-> FALSE]
  /\ installed = [t \in Target |-> FirstTool] /\ archive = [t \in Target |-> FirstArchive]
  /\ bundles = {} /\ dir = Empty
  /\ coll = [pc |-> "idle", tree |-> Nothing, catalog |-> Nothing, hashed |-> Nothing,
             profile |-> Nothing, mode |-> Nothing, provenance |-> Nothing,
             accepted |-> <<>>, verdict |-> Nothing]
  /\ mishaps = 0

Program(t) ==
  \/ verify_archive_identity(t) \/ copy_authenticated_archive(t) \/ extract_and_verify(t)
  \/ collect_from_archive(t) \/ TimeOut(t) \/ run_manifest_samples(t) \/ Bind(t)
Outside(t) == EditClone(t) \/ Upgrade(t) \/ Reprovision(t) \/ Swap(t)
Collect ==
  \/ LoadDocuments \/ HashDocuments \/ ReadProvenance
  \/ \E t \in Target : CollectTarget(t)
  \/ Aggregate

Next ==
  \/ Dispatch \/ EditRepo \/ Gather \/ Collect
  \/ \E t \in Target : StartInRun(t) \/ StartByHand(t) \/ Program(t) \/ Outside(t)

Spec == Init /\ [][Next]_vars
\* The programs run; that anybody starts one is nobody's promise.
FairSpec == Spec /\ WF_vars(Collect) /\ \A t \in Target : WF_vars(Program(t))

----------------------------------------------------------------------------
(* Properties *)

TypeOK ==
  /\ repo \in Tree /\ runs \in Seq(Tree)
  /\ \A t \in Target :
       /\ job[t].pc \in Step /\ job[t].run \in DOMAIN runs \cup {Manual}
       /\ job[t].pc # "idle" => job[t].tree \in Tree /\ job[t].commit \in Tree
       /\ job[t].report \in ProfileReport \cup {Nothing}
       /\ job[t].sample \in SampleReport \cup {Nothing}
       /\ job[t].pc \in {"reported", "sampled"} => job[t].report # Nothing
       /\ tmp[t] \in BOOLEAN /\ installed[t] \in Tool /\ archive[t] \in Archive
  /\ \A b \in bundles : b.profile \in ProfileReport /\ b.sample \in SampleReport
  /\ DOMAIN coll.accepted \subseteq Target

\* A file that the edge's policies allow: what an accepted conversion must have given. This
\* does not go through the observations or the expectations of the runner.
Allowed(edge, file, out) ==
  LET kept == out.tags \ Structural
  IN /\ out.codecs = {edge.codec}
     /\ edge.metadata = "strip" => kept = {}
     /\ kept \subseteq file.tags
     /\ edge.orientation = "apply_to_pixels" => ~out.rotated
Converts(tool, sample) ==
  \E out \in Convert(tool, build_ffmpeg_arguments(sample.edge, sample), sample.edge, sample.file) :
    Allowed(sample.edge, sample.file, out)

\* Each target ran the corpus that is checked in, by the executables that the checked-in
\* profile has approved for it, found in the approved archive, and they convert each valid
\* sample as its edge allows.
Supported ==
  \A t \in Target :
    LET a == coll.accepted[t]
        p == ProfileOf[coll.tree]
    IN /\ Gate[p]
       /\ \E r \in Rows[p] : /\ r.target = t /\ r.status = "approved"
                             /\ r.tool = a.sample.by /\ r.archive.tool = a.sample.by
       /\ \A s \in Samples[CatalogOf[coll.tree]] :
            s.outcome = "success" => Converts(a.sample.by, s)

\* What an accepted run has executed is what the collector's checkout has: its profile, its
\* catalog, and every package that the runner may reach.
Reached(p) ==
  \A S \in SUBSET Package :
    "capabilities" \in S /\ (\A q \in S : Depends[q] \subseteq S) => p \in S
SameInputs ==
  \A t \in Target, p \in {"profile", "catalog"} \cup {q \in Package : Reached(q)} :
    Content[coll.accepted[t].sample.tree][p] = Content[coll.tree][p]

\* Each target's reports are those one job bound together, and all targets come from one
\* workflow run, or all from reviewers.
OneOrigin ==
  \E origin \in DOMAIN runs \cup {Manual} :
    \A t \in Target : /\ coll.accepted[t] \in bundles
                      /\ coll.accepted[t].provenance.run = origin

\* An accepted collection proves support, whatever was edited, installed, provisioned or
\* exchanged while jobs and collector read their files (collect, validate_provenance_identity).
AggregateIsSound == coll.verdict = "passed" => Supported /\ SameInputs /\ OneOrigin

\* Where nothing was changed from outside, reports that passed are never refused: what the three
\* programs write and what the collector expects of it agree.
Gathered == \A t \in Target : dir[t] \in bundles /\ dir[t].sample.status = "passed"
HonestIsAccepted ==
  coll.pc = "done" /\ mishaps = 0 /\ Gathered
    /\ Cardinality({dir[t].provenance.run : t \in Target}) = 1
  => coll.verdict = "passed"

\* Every job ends, whatever its children do, and so does the collector.
JobsEnd == \A t \in Target : []<>(job[t].pc = "idle")
CollectionEnds == []<>(coll.pc \in {"idle", "done"})
EveryoneEnds == JobsEnd /\ CollectionEnds
=============================================================================
