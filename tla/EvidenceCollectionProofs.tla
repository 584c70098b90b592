---------------------- MODULE EvidenceCollectionProofs ----------------------
(***************************************************************************)
(* Theorems about the collected evidence, for any targets, trees, tools,   *)
(* archives, corpora, packages, runs, jobs and changes from outside.       *)
(***************************************************************************)
EXTENDS EvidenceCollection, FiniteSetTheorems, WellFoundedInduction, TLAPS

-----------------------------------------------------------------------------
(* What the runner reaches: the closure that is computed in rounds.         *)

Rounds == Cardinality(Package)
Widened(V) == V \cup UNION {Depends[p] : p \in V}
Closed(V) == \A q \in V : Depends[q] \subseteq V

\* The first rounds of local_dependency_closure, up to one of them.
Visits(f, last) ==
  f = [n \in 0..last |-> IF n = 0 THEN {"capabilities"} ELSE Widened(f[n - 1])]

\* Every non-empty set of naturals has a least element.
LEMMA LeastNatural ==
  ASSUME NEW T \in SUBSET Nat, T # {}
  PROVE  \E x \in T : \A y \in T : x <= y
<1> DEFINE Less == {p \in Nat \X Nat : p[1] < p[2]}
<1>1. IsWellFoundedOn(Less, Nat)
  BY NatLessThanWellFounded, Zenon DEF OpToRel
<1> HIDE DEF Less
<1>2. PICK x \in T : \A y \in T : ~ (<<y, x>> \in Less)
  BY <1>1, WFMin, Zenon
<1>3. ASSUME NEW y \in T
      PROVE  x <= y
  <2>1. y \in Nat /\ x \in Nat /\ <<y, x>> \in Nat \X Nat
    OBVIOUS
  <2>2. ~ (y < x)
    BY <1>2, <2>1 DEF Less
  <2>3. QED
    BY <2>1, <2>2
<1>4. QED
  BY <1>3

\* Any number of rounds can be made.
LEMMA RoundsExist ==
  ASSUME NEW last \in Nat
  PROVE  \E f : Visits(f, last)
<1> DEFINE Bad == {n \in Nat : ~ \E f : Visits(f, n)}
<1>1. SUFFICES ASSUME Bad # {} PROVE FALSE
  OBVIOUS
<1>2. PICK n \in Bad : \A k \in Bad : n <= k
  BY <1>1, LeastNatural, Bad \in SUBSET Nat
<1>3. n \in Nat /\ ~ \E f : Visits(f, n)
  OBVIOUS
<1>4. CASE n = 0
  <2>1. Visits([k \in 0..0 |-> {"capabilities"}], 0)
    BY DEF Visits
  <2>2. QED
    BY <1>3, <1>4, <2>1
<1>5. CASE n # 0
  <2>1. n - 1 \in Nat /\ n - 1 \notin Bad
    BY <1>2, <1>3, <1>5
  <2>2. PICK g : Visits(g, n - 1)
    BY <2>1
  <2> DEFINE f == [k \in 0..n |-> IF k = 0 THEN {"capabilities"} ELSE Widened(g[k - 1])]
  <2>3. \A k \in 0..(n - 1) : g[k] = IF k = 0 THEN {"capabilities"} ELSE Widened(g[k - 1])
    BY <2>2 DEF Visits
  <2>4. \A k \in 0..(n - 1) : f[k] = g[k]
    BY <1>3, <2>3
  <2>5. \A k \in 0..n : k # 0 => k - 1 \in 0..(n - 1)
    BY <1>3
  <2>6. \A k \in 0..n : f[k] = IF k = 0 THEN {"capabilities"} ELSE Widened(f[k - 1])
    BY <2>4, <2>5
  <2>7. Visits(f, n)
    BY <2>6 DEF Visits
  <2>8. QED
    BY <1>3, <2>7
<1>6. QED
  BY <1>4, <1>5

\* After each round, nothing more is reached, or one package more than rounds were made.
Progress(V, n) ==
  /\ IsFiniteSet(V) /\ V \subseteq Package /\ "capabilities" \in V
  /\ Closed(V) \/ Cardinality(V) >= n + 1

\* A round keeps that.
LEMMA RoundProgress ==
  ASSUME NEW V, NEW n \in Nat, Progress(V, n)
  PROVE  Progress(Widened(V), n + 1)
<1>1. Widened(V) \subseteq Package
  BY PackageAssumption DEF Progress, Widened
<1>2. IsFiniteSet(Widened(V)) /\ V \subseteq Widened(V)
  BY <1>1, PackageAssumption, FS_Subset DEF Widened
<1>3. CASE Closed(V)
  <2>1. Widened(V) = V
    BY <1>3 DEF Closed, Widened
  <2>2. QED
    BY <1>3, <2>1 DEF Progress
<1>4. CASE ~ Closed(V)
  <2>1. Widened(V) # V
    BY <1>4 DEF Closed, Widened
  <2>2. Cardinality(V) \in Nat /\ Cardinality(Widened(V)) \in Nat
    BY <1>2, FS_CardinalityType DEF Progress
  <2>3. Cardinality(V) <= Cardinality(Widened(V)) /\ Cardinality(V) # Cardinality(Widened(V))
    BY <1>2, <2>1, FS_Subset
  <2>4. Cardinality(Widened(V)) >= (n + 1) + 1
    BY <1>4, <2>2, <2>3 DEF Progress
  <2>5. QED
    BY <1>1, <1>2, <2>4 DEF Progress
<1>5. QED
  BY <1>3, <1>4

\* A round reaches nothing that is not reached.
LEMMA RoundIsReached ==
  ASSUME NEW V, V \subseteq {p \in Package : Reached(p)}
  PROVE  Widened(V) \subseteq {p \in Package : Reached(p)}
<1> SUFFICES ASSUME NEW p \in V, NEW q \in Depends[p]
             PROVE  q \in Package /\ Reached(q)
  BY DEF Widened
<1>1. p \in Package /\ Reached(p)
  OBVIOUS
<1>2. q \in Package
  BY <1>1, PackageAssumption
<1>3. \A S \in SUBSET Package : p \in S /\ (\A r \in S : Depends[r] \subseteq S) => q \in S
  OBVIOUS
<1>4. Reached(q)
  BY <1>1, <1>3 DEF Reached
<1>5. QED
  BY <1>2, <1>4

\* The packages of the digest are those that the runner reaches, through any others
\* (local_dependency_closure): as many rounds as there are packages are enough.
THEOREM ClosureIsReached ==
  local_dependency_closure = {p \in Package : Reached(p)}
<1> DEFINE V == CHOOSE f : Visits(f, Rounds)
           Fine(n) == Progress(V[n], n) /\ V[n] \subseteq {p \in Package : Reached(p)}
           Bad == {n \in 0..Rounds : ~ Fine(n)}
<1>1. local_dependency_closure = V[Rounds]
  BY DEF local_dependency_closure, Visits, Rounds, Widened
<1>2. Rounds \in Nat
  BY PackageAssumption, FS_CardinalityType DEF Rounds
<1>3. Visits(V, Rounds)
  BY <1>2, RoundsExist
<1>4. \A n \in 0..Rounds : V[n] = IF n = 0 THEN {"capabilities"} ELSE Widened(V[n - 1])
  BY <1>3 DEF Visits
<1> HIDE DEF V
<1>5. Fine(0)
  <2>1. V[0] = {"capabilities"}
    BY <1>2, <1>4
  <2>2. IsFiniteSet({"capabilities"}) /\ Cardinality({"capabilities"}) = 1
    BY FS_Singleton
  <2>3. Reached("capabilities")
    BY DEF Reached
  <2>4. QED
    BY <2>1, <2>2, <2>3, PackageAssumption DEF Progress
<1>6. ASSUME NEW n \in 0..Rounds, n # 0, Fine(n - 1)
      PROVE  Fine(n)
  <2>1. V[n] = Widened(V[n - 1]) /\ n - 1 \in Nat /\ (n - 1) + 1 = n
    BY <1>2, <1>4, <1>6
  <2>2. Progress(V[n], n)
    BY <1>6, <2>1, RoundProgress
  <2>3. QED
    BY <1>6, <2>1, <2>2, RoundIsReached
<1> HIDE DEF Fine
<1>7. Fine(Rounds)
  <2>1. SUFFICES ASSUME Bad # {} PROVE FALSE
    BY <1>2
  <2>2. PICK n \in Bad : \A k \in Bad : n <= k
    BY <2>1, LeastNatural, Bad \in SUBSET Nat
  <2>3. n \in 0..Rounds /\ ~ Fine(n) /\ n # 0
    BY <1>5
  <2>4. n - 1 \in 0..Rounds /\ n - 1 \notin Bad
    BY <1>2, <2>2, <2>3
  <2>5. QED
    BY <1>6, <2>3, <2>4
<1>8. Closed(V[Rounds])
  <2>1. Progress(V[Rounds], Rounds)
    BY <1>7 DEF Fine
  <2>2. IsFiniteSet(V[Rounds]) /\ Cardinality(V[Rounds]) \in Nat /\ Cardinality(V[Rounds]) <= Rounds
    BY <2>1, PackageAssumption, FS_Subset, FS_CardinalityType DEF Progress, Rounds
  <2>3. QED
    BY <1>2, <2>1, <2>2 DEF Progress
<1>9. ASSUME NEW p \in Package, Reached(p)
      PROVE  p \in V[Rounds]
  <2>1. V[Rounds] \in SUBSET Package /\ "capabilities" \in V[Rounds]
    BY <1>7 DEF Fine, Progress
  <2>2. QED
    BY <1>8, <1>9, <2>1 DEF Reached, Closed
<1>10. QED
  BY <1>1, <1>7, <1>9 DEF Fine

-----------------------------------------------------------------------------
(* What a sample that passed says of the tool that ran it.                  *)

\* The result of a sample names its sample.
LEMMA ResultNamesSample ==
  ASSUME NEW tool, NEW s
  PROVE  execute_one(tool, s.edge, s).sample = s.id
<1> DEFINE result == build_result(s.edge, s)
<1>1. "sample" \in DOMAIN result /\ result.sample = s.id
  BY DEF build_result
<1> HIDE DEF result
<1>2. \A code, invoked, input, output :
        /\ Failed(result, code, invoked, input, output).sample = s.id
        /\ Passed(result, code, invoked, input, output).sample = s.id
  BY <1>1 DEF Failed, Passed
<1>3. \A seen : /\ ExecuteInvalid(tool, s.edge, s, result, seen).sample = s.id
                /\ ExecuteValid(tool, s.edge, s, result, seen).sample = s.id
  BY <1>2 DEF ExecuteInvalid, ExecuteValid
<1>4. QED
  BY <1>2, <1>3 DEF execute_one, result

\* The observation of a sample that passed: its input was as declared, and its output as
\* expected, or it was refused with its code.
Observed(tool, s, seen) ==
  /\ seen # Unread /\ validate_sample_input(s, s.edge, seen)
  /\ \/ /\ s.outcome = "error"
        /\ execute_one(tool, s.edge, s) =
             Passed(build_result(s.edge, s), s.error, FALSE, seen, Unread)
     \/ /\ s.outcome # "error"
        /\ LET outputs == Convert(tool, build_ffmpeg_arguments(s.edge, s), s.edge, s.file)
               out == observed_media(CHOOSE f \in outputs : TRUE)
           IN /\ outputs # {}
              /\ validate_output(expected_output(s.edge, s), out, s, seen)
              /\ execute_one(tool, s.edge, s) =
                   Passed(build_result(s.edge, s), "", TRUE, seen, out)

\* A result of Failed has not passed.
LEMMA FailedIsNotPassed ==
  ASSUME NEW edge, NEW s, NEW code, NEW invoked, NEW input, NEW output
  PROVE  Failed(build_result(edge, s), code, invoked, input, output).status # "passed"
BY DEF Failed, build_result

\* A view of a file is an observation.
LEMMA ViewsAreRead ==
  ASSUME NEW s, NEW seen \in augment_multiframe_observation(s, s.file)
  PROVE  seen # Unread
<1>1. "frames" \notin DOMAIN Unread
  BY DEF Unread
<1>2. "frames" \in DOMAIN observed_media(s.file)
  BY DEF observed_media
<1>3. "frames" \in DOMAIN seen
  BY <1>2, Zenon DEF augment_multiframe_observation
<1>4. QED
  BY <1>1, <1>3

\* execute_one lets a sample pass on no other way.
LEMMA PassedIsObserved ==
  ASSUME NEW tool, NEW s, execute_one(tool, s.edge, s).status = "passed"
  PROVE  \E seen : Observed(tool, s, seen)
<1> DEFINE result == build_result(s.edge, s)
           views == augment_multiframe_observation(s, s.file)
           seen == CHOOSE v \in views : TRUE
           outputs == Convert(tool, build_ffmpeg_arguments(s.edge, s), s.edge, s.file)
           out == observed_media(CHOOSE f \in outputs : TRUE)
           one == execute_one(tool, s.edge, s)
<1>1. one = IF views = {}
              THEN Failed(result, "sample_validation_failed", FALSE, observed_media(s.file), Unread)
            ELSE IF ~validate_sample_input(s, s.edge, seen)
              THEN Failed(result, "sample_validation_failed", FALSE, seen, Unread)
            ELSE IF s.outcome = "error" THEN ExecuteInvalid(tool, s.edge, s, result, seen)
            ELSE ExecuteValid(tool, s.edge, s, result, seen)
  BY DEF execute_one
<1>2. \A code, invoked, input, output :
        Failed(result, code, invoked, input, output).status # "passed"
  BY FailedIsNotPassed
<1>3. result.args = build_ffmpeg_arguments(s.edge, s)
  BY DEF build_result
<1>4. ExecuteInvalid(tool, s.edge, s, result, seen) =
        IF classify_invalid_sample(s, s.edge, s.file, seen) = {}
          THEN Failed(result, "sample_validation_failed", FALSE, seen, Unread)
          ELSE Passed(result, s.error, FALSE, seen, Unread)
  BY DEF ExecuteInvalid
<1>5. ExecuteValid(tool, s.edge, s, result, seen) =
        IF outputs = {} THEN Failed(result, "ffmpeg_conversion_failed", TRUE, seen, Unread)
        ELSE IF validate_output(expected_output(s.edge, s), out, s, seen)
               THEN Passed(result, "", TRUE, seen, out)
               ELSE Failed(result, "output_validation_failed", TRUE, seen, out)
  BY <1>3 DEF ExecuteValid
<1>6. views # {} => seen \in views
  OBVIOUS
<1> HIDE DEF result, views, seen, outputs, out
<1>7. views # {} /\ validate_sample_input(s, s.edge, seen)
  BY <1>1, <1>2
<1>8. seen # Unread
  BY <1>6, <1>7, ViewsAreRead DEF views
<1>9. CASE s.outcome = "error"
  <2>1. one = ExecuteInvalid(tool, s.edge, s, result, seen)
    BY <1>1, <1>7, <1>9
  <2>2. one = Passed(result, s.error, FALSE, seen, Unread)
    BY <1>2, <1>4, <2>1
  <2>3. QED
    BY <1>7, <1>8, <1>9, <2>2 DEF Observed, result
<1>10. CASE s.outcome # "error"
  <2>1. one = ExecuteValid(tool, s.edge, s, result, seen)
    BY <1>1, <1>7, <1>10
  <2>2. /\ outputs # {} /\ validate_output(expected_output(s.edge, s), out, s, seen)
        /\ one = Passed(result, "", TRUE, seen, out)
    BY <1>2, <1>5, <2>1
  <2>3. QED
    BY <1>7, <1>8, <1>10, <2>2 DEF Observed, result, outputs, out
<1>11. QED
  BY <1>9, <1>10

\* An observation of an output is one.
LEMMA OutputIsRead ==
  ASSUME NEW file
  PROVE  observed_media(file) # Unread
<1>1. "frames" \notin DOMAIN Unread
  BY DEF Unread
<1>2. "frames" \in DOMAIN observed_media(file)
  BY DEF observed_media
<1>3. QED
  BY <1>1, <1>2

\* The collector finds of a result that passed what the runner has put there.
LEMMA PassedHolds ==
  ASSUME NEW tool, NEW s, s.outcome \in {"success", "error"},
         execute_one(tool, s.edge, s).status = "passed"
  PROVE  ResultHolds(execute_one(tool, s.edge, s), s)
<1>1. PICK one : one = execute_one(tool, s.edge, s)
  OBVIOUS
<1>2. SUFFICES ResultHolds(one, s)
  BY <1>1
<1>3. PICK seen : Observed(tool, s, seen)
  BY PassedIsObserved
<1>4. seen # Unread /\ validate_sample_input(s, s.edge, seen)
  BY <1>3 DEF Observed
<1>5. CASE s.outcome = "error"
  <2>1. one = Passed(build_result(s.edge, s), s.error, FALSE, seen, Unread)
    BY <1>1, <1>3, <1>5 DEF Observed
  <2>2. /\ one.status = "passed" /\ one.edge = s.edge /\ one.file = s.file
        /\ one.outcome = s.outcome /\ one.error = s.error
        /\ one.expected = expected_output(s.edge, s)
        /\ one.args = build_ffmpeg_arguments(s.edge, s)
        /\ one.code = s.error /\ one.invoked = FALSE /\ one.input = seen /\ one.output = Unread
    BY <2>1 DEF Passed, build_result
  <2>3. QED
    BY <1>4, <1>5, <2>2 DEF ResultHolds, EdgeOf
<1>6. CASE s.outcome = "success"
  <2>1. PICK out :
          /\ out # Unread
          /\ one = Passed(build_result(s.edge, s), "", TRUE, seen, out)
          /\ validate_output(expected_output(s.edge, s), out, s, seen)
    <3>1. s.outcome # "error"
      BY <1>6
    <3>2. QED
      BY <1>1, <1>3, <3>1, OutputIsRead DEF Observed
  <2>2. /\ one.status = "passed" /\ one.edge = s.edge /\ one.file = s.file
        /\ one.outcome = s.outcome /\ one.error = s.error
        /\ one.expected = expected_output(s.edge, s)
        /\ one.args = build_ffmpeg_arguments(s.edge, s)
        /\ one.code = "" /\ one.invoked = TRUE /\ one.input = seen /\ one.output = out
    BY <2>1 DEF Passed, build_result
  <2>3. QED
    BY <1>4, <1>6, <2>1, <2>2 DEF ResultHolds, EdgeOf
<1>7. QED
  BY <1>5, <1>6

\* So a corpus that passed is one whose results hold: one for each sample, and no other.
LEMMA AllPassedHold ==
  ASSUME NEW tool \in Tool, NEW c \in Catalog, AllPassed[tool][c]
  PROVE  Holds[tool][c][c]
<1> DEFINE ResultOf == [s \in Samples[c] |-> execute_one(tool, s.edge, s)]
           results == {execute_one(tool, s.edge, s) : s \in Samples[c]}
<1>1. Outcome[tool][c] = results
  BY DEF Outcome
<1>2. \A s \in Samples[c] : execute_one(tool, s.edge, s).status = "passed"
  BY <1>1 DEF AllPassed
<1>3. \A s \in Samples[c] : execute_one(tool, s.edge, s).sample = s.id
  BY ResultNamesSample
<1>4. /\ IsFiniteSet(Samples[c]) /\ \A s, q \in Samples[c] : s.id = q.id => s = q
      /\ \A s \in Samples[c] : s.outcome \in {"success", "error"}
  BY CatalogAssumption DEF validate_samples
<1>5. {r.sample : r \in results} = {s.id : s \in Samples[c]}
  BY <1>3
<1>6. \A s \in Samples[c] : \A r \in results : r.sample = s.id => ResultHolds(r, s)
  BY <1>2, <1>3, <1>4, PassedHolds
<1>7. Cardinality(results) = Cardinality(Samples[c])
  <2>1. /\ ResultOf \in [Samples[c] -> results]
        /\ \A r \in results : \E s \in Samples[c] : ResultOf[s] = r
    OBVIOUS
  <2>2. \A s, q \in Samples[c] : ResultOf[s] = ResultOf[q] => s = q
    BY <1>3, <1>4
  <2> HIDE DEF ResultOf, results
  <2>3. ResultOf \in Bijection(Samples[c], results)
    BY <2>1, <2>2, Zenon DEF Bijection, Injection, IsInjective, Surjection
  <2>4. ExistsBijection(Samples[c], results)
    BY <2>3 DEF ExistsBijection
  <2>5. QED
    BY <1>4, <2>4, FS_Bijection
<1> HIDE DEF results
<1>8. ResultsHold(results, Samples[c])
  BY <1>5, <1>6, <1>7 DEF ResultsHold
<1>9. QED
  BY <1>1, <1>8 DEF Holds

\* What a tool keeps of a file and what it changes.
LEMMA ConvertGives ==
  ASSUME NEW tool, NEW args, NEW edge, NEW file, NEW out \in Convert(tool, args, edge, file),
         {"codecs", "audio", "video", "frames", "rotated", "tags"} \subseteq DOMAIN file
  PROVE  /\ out.codecs = {args.codec}
         /\ out.rotated = (file.rotated /\ ~args.autorotate)
         /\ out.tags \subseteq file.tags \cup {"encoder"}
         /\ out.audio = file.audio /\ out.video = file.video /\ out.frames = file.frames
<1>1. out = [file EXCEPT
          !.container = CASE edge.output = "mp4" -> "mov" [] edge.output = "m4a" -> "mov"
                          [] edge.output = "png" -> "png_pipe",
          !.codecs = {args.codec},
          !.rotated = @ /\ ~args.autorotate,
          !.tags = (IF args.metadata \/ tool.convert = "keeps_tags" THEN @ ELSE {})
                     \cup {"encoder"}]
  BY Zenon DEF Convert
<1>2. PICK container : out = [file EXCEPT
          !.container = container, !.codecs = {args.codec}, !.rotated = @ /\ ~args.autorotate,
          !.tags = (IF args.metadata \/ tool.convert = "keeps_tags" THEN @ ELSE {})
                     \cup {"encoder"}]
  BY <1>1, Zenon
<1>3. /\ out.codecs = {args.codec} /\ out.rotated = (file.rotated /\ ~args.autorotate)
      /\ out.audio = file.audio /\ out.video = file.video /\ out.frames = file.frames
  BY <1>2, Zenon
<1>4. out.tags = (IF args.metadata \/ tool.convert = "keeps_tags" THEN file.tags ELSE {})
                   \cup {"encoder"}
  BY <1>2, Zenon
<1>5. QED
  BY <1>3, <1>4

\* An output that was validated is one that the policies of the edge allow.
LEMMA PassedConverts ==
  ASSUME NEW tool, NEW c \in Catalog, NEW s \in Samples[c], s.outcome = "success",
         execute_one(tool, s.edge, s).status = "passed"
  PROVE  Converts(tool, s)
<1> DEFINE args == build_ffmpeg_arguments(s.edge, s)
           outputs == Convert(tool, args, s.edge, s.file)
           out == CHOOSE f \in outputs : TRUE
           seen == observed_media(out)
           expected == expected_output(s.edge, s)
<1>1. PICK input : Observed(tool, s, input)
  BY PassedIsObserved
<1>2. outputs # {} /\ validate_output(expected, seen, s, input)
  BY <1>1 DEF Observed
<1>3. out \in outputs
  BY <1>2
<1>4. /\ s.edge.category \in {"audio", "image", "video"}
      /\ {"codecs", "audio", "video", "frames", "rotated", "tags"} \subseteq DOMAIN s.file
      /\ s.file.audio \in Nat /\ s.file.video \in Nat /\ s.file.frames \in Nat
      /\ s.file.rotated \in BOOLEAN /\ (s.file.rotated => s.file.video > 0)
  BY CatalogAssumption DEF validate_samples
<1>5. /\ args.codec = s.edge.codec
      /\ args.autorotate = (s.edge.category # "audio" /\ s.edge.orientation = "apply_to_pixels")
  BY DEF build_ffmpeg_arguments
<1>6. /\ expected.codecs = {s.edge.codec} /\ expected.metadata = s.edge.metadata
      /\ expected.topology = TopologyOf(s.edge.category)
  BY DEF expected_output
<1> HIDE DEF args, expected, outputs
<1>7. /\ out.codecs = {args.codec}
      /\ out.rotated = (s.file.rotated /\ ~args.autorotate)
      /\ out.tags \subseteq s.file.tags \cup {"encoder"}
      /\ out.audio = s.file.audio /\ out.video = s.file.video /\ out.frames = s.file.frames
  BY <1>3, <1>4, ConvertGives DEF outputs
<1>8. seen.keys = UserKeys(out.tags) /\ seen.topology = Topology(out, FrameCount(out))
  BY DEF observed_media
<1>9. /\ s.edge.metadata = "strip" => seen.keys = {}
      /\ seen.topology = TopologyOf(s.edge.category)
  BY <1>2, <1>6 DEF validate_output
<1> HIDE DEF out, seen
<1>10. out.codecs = {s.edge.codec}
  BY <1>5, <1>7
<1>11. s.edge.metadata = "strip" => out.tags \ Structural = {}
  BY <1>8, <1>9 DEF UserKeys
<1>12. out.tags \ Structural \subseteq s.file.tags
  BY <1>7 DEF Structural
<1>13. s.edge.orientation = "apply_to_pixels" => ~out.rotated
  <2>1. CASE s.edge.category # "audio"
    BY <1>5, <1>7, <2>1
  <2>2. CASE s.edge.category = "audio"
    <3>1. Topology(out, FrameCount(out)) = "single_audio_stream"
      BY <1>8, <1>9, <2>2 DEF TopologyOf
    <3>2. out.video = 0
      <4>1. out.audio \in Nat /\ out.video \in Nat /\ FrameCount(out) \in Nat
        BY <1>4, <1>7 DEF FrameCount
      <4>2. (out.audio = 1 /\ out.video = 0) \/ Topology(out, FrameCount(out)) # "single_audio_stream"
        BY <4>1 DEF Topology
      <4>3. QED
        BY <3>1, <4>2
    <3>3. QED
      BY <1>4, <1>7, <3>2
  <2>3. QED
    BY <2>1, <2>2
<1>14. Allowed(s.edge, s.file, out)
  BY <1>10, <1>11, <1>12, <1>13 DEF Allowed
<1>15. QED
  BY <1>3, <1>14 DEF Converts, outputs, args

\* Tools with which a corpus passed convert every valid sample of it as its edge allows.
LEMMA AllPassedConvert ==
  ASSUME NEW tool \in Tool, NEW c \in Catalog, AllPassed[tool][c],
         NEW s \in Samples[c], s.outcome = "success"
  PROVE  Converts(tool, s)
<1>1. execute_one(tool, s.edge, s) \in Outcome[tool][c]
  BY DEF Outcome
<1>2. execute_one(tool, s.edge, s).status = "passed"
  BY <1>1 DEF AllPassed
<1>3. QED
  BY <1>2, PassedConverts

-----------------------------------------------------------------------------
(* The inductive invariant                                                  *)

Bundle == [profile : ProfileReport, sample : SampleReport, provenance : ProvenanceReport]
Paper == ProfileReport \cup SampleReport \cup ProvenanceReport \cup {Nothing}
AnyRow == {Nothing} \cup UNION {Rows[p] : p \in Profile}

JobType ==
  [pc : Step, run : Nat \cup {Manual}, commit : Tree \cup {Nothing}, tree : Tree \cup {Nothing},
   row : AnyRow, report : ProfileReport \cup {Nothing}, sample : SampleReport \cup {Nothing}]
CollStep == {"idle", "digest", "loaded", "hashed", "targets", "done"}
CollType ==
  [pc : CollStep, tree : Tree \cup {Nothing}, catalog : Catalog \cup {Nothing},
   hashed : Catalog \cup {Nothing}, profile : Profile \cup {Nothing},
   mode : {"workflow", "manual", Nothing}, provenance : [Target -> ProvenanceReport] \cup {Nothing},
   accepted : UNION {[S -> Bundle] : S \in SUBSET Target}, verdict : {"passed", "blocked", Nothing}]

Typing ==
  /\ repo \in Tree /\ runs \in Seq(Tree)
  /\ job \in [Target -> JobType] /\ jobs \in 0..MaxJobs
  /\ tmp \in [Target -> BOOLEAN] /\ installed \in [Target -> Tool]
  /\ archive \in [Target -> Archive]
  /\ bundles \subseteq Bundle /\ dir \in [Target -> [File -> Paper]]
  /\ coll \in CollType /\ mishaps \in Nat

Origins == DOMAIN runs \cup {Manual}

\* What a report on an archive, and one on the corpus, say that is so: the tool is that of the
\* archive, a corpus passed by the tools that the profile and the catalog of its tree require.
GoodReport(t, report) == report.target = t /\ report.tool = report.archive.tool
GoodSample(report, x) ==
  /\ x.catalog = CatalogOf[x.tree]
  /\ x.target = report.target /\ x.profile = report.profile /\ x.row = report.row
  /\ x.tool = report.tool
  /\ x.status = "passed" =>
       /\ x.profile = ProfileOf[x.tree] /\ Gate[x.profile] /\ x.by = x.tool
       /\ verify_identity(report, ProfileOf[x.tree])
       /\ AllPassed[x.by][x.catalog]

JobOK(t, j) ==
  /\ j.run \in Origins
  /\ j.pc # "idle" => jobs > 0 /\ j.tree \in Tree /\ j.commit \in Tree
  /\ j.pc \in {"started", "opened", "extracting", "probing"} => j.row \in Rows[ProfileOf[j.tree]]
  /\ j.pc \in {"reported", "sampled"} => j.report \in ProfileReport /\ GoodReport(t, j.report)
  /\ j.pc = "sampled" =>
       j.sample \in SampleReport /\ GoodSample(j.report, j.sample) /\ j.sample.commit = j.commit
  /\ mishaps = 0 /\ j.pc # "idle" => j.tree = repo
  /\ mishaps = 0 /\ j.pc = "sampled" => j.sample.tree = repo
JobsOK == \A t \in Target : JobOK(t, job[t])

\* What a job bound together.
Bound(b) ==
  /\ GoodReport(b.profile.target, b.profile) /\ GoodSample(b.profile, b.sample)
  /\ b.provenance.profile = b.profile /\ b.provenance.sample = b.sample
  /\ b.provenance.target = b.profile.target /\ b.provenance.tree \in Tree
  /\ b.provenance.tree = b.sample.tree /\ b.provenance.commit = b.sample.commit
  /\ b.provenance.run \in Origins
  /\ b.provenance.reviewed = (b.provenance.run = Manual)
  /\ b.provenance.reviewed =>
       b.provenance.transfer = compute_manual_transfer_sha256(b.profile, b.sample, b.provenance)
  /\ mishaps = 0 => b.sample.tree = repo
BundlesOK == \A b \in bundles : Bound(b)

\* A record that somebody reads is one that a job wrote.
Written(x) == \E b \in bundles : x = b.provenance
DirOK == \A t \in Target : dir[t].provenance # Nothing => Written(dir[t].provenance)

OriginsOf(provenance) == {provenance[t].run : t \in Target}
ModeOK ==
  /\ coll.provenance \in [Target -> ProvenanceReport]
  /\ \A t \in Target : Written(coll.provenance[t])
  /\ \/ coll.mode = "workflow" /\ Cardinality(OriginsOf(coll.provenance)) = 1
     \/ coll.mode = "manual" /\ \A t \in Target : coll.provenance[t].reviewed

AcceptedOK(t) ==
  LET a == coll.accepted[t]
  IN /\ a \in bundles /\ a.provenance = coll.provenance[t]
     /\ Proven(t, a.provenance, a.profile, a.sample)

CollOK ==
  /\ coll.pc # "idle" => coll.tree \in Tree
  /\ coll.pc \in {"idle", "digest", "loaded", "hashed"} => DOMAIN coll.accepted = {}
  /\ coll.pc = "targets" \/ coll.verdict = "passed" => ModeOK
  /\ \A t \in DOMAIN coll.accepted : AcceptedOK(t)
  /\ coll.pc # "done" => coll.verdict = Nothing
  /\ coll.verdict = "passed" => DOMAIN coll.accepted = Target

\* Where nothing was changed from outside, all is of one tree, and the collector refuses nothing
\* that passed.
Honest ==
  /\ \A t \in Target : dir[t] # NoFiles /\ dir[t].sample.status = "passed"
  /\ Cardinality({dir[t].provenance.run : t \in Target}) = 1
Quiet ==
  /\ \A k \in DOMAIN runs : runs[k] = repo
  /\ coll.pc # "idle" =>
       coll.tree = repo /\ \A t \in Target : dir[t] = NoFiles \/ dir[t] \in Candidates(t)
  /\ coll.pc \in {"loaded", "hashed", "targets"} => coll.catalog = CatalogOf[repo]
  /\ coll.pc \in {"hashed", "targets"} => /\ coll.hashed = CatalogOf[repo]
                                           /\ coll.profile = ProfileOf[repo]
  /\ coll.pc = "targets" => coll.provenance = [t \in Target |-> dir[t].provenance]
  /\ coll.pc = "done" /\ Honest => coll.verdict = "passed"

IInv ==
  Typing /\ JobsOK /\ BundlesOK /\ DirOK /\ CollOK /\ (mishaps = 0 => Quiet)

-----------------------------------------------------------------------------
(* What the invariant gives                                                 *)

\* Two trees with one digest have what the runner reaches in common.
LEMMA EvidenceAgrees ==
  ASSUME NEW v \in Tree, NEW w \in Tree, SameEvidence(v, w),
         NEW p \in {"profile", "catalog"} \cup {q \in Package : Reached(q)}
  PROVE  Content[v][p] = Content[w][p]
<1>1. p \in {"profile", "catalog"} \cup local_dependency_closure
  BY ClosureIsReached
<1> DEFINE D == {"profile", "catalog"} \cup local_dependency_closure
<1>2. [q \in D |-> Content[v][q]] = [q \in D |-> Content[w][q]]
  BY DEF SameEvidence, compute_evidence_input_digest
<1> HIDE DEF D
<1>3. [q \in D |-> Content[v][q]][p] = [q \in D |-> Content[w][q]][p]
  BY <1>2
<1>4. QED
  BY <1>1, <1>3 DEF D

\* What was accepted is what one job has bound, of a corpus that passed on the same inputs.
LEMMA AcceptedIs ==
  ASSUME IInv, coll.pc # "idle", NEW t \in Target, AcceptedOK(t)
  PROVE  LET a == coll.accepted[t]
         IN /\ a \in bundles /\ a \in Bundle /\ Bound(a)
            /\ a.profile.target = t /\ a.sample.status = "passed"
            /\ coll.tree \in Tree /\ a.sample.tree \in Tree
            /\ SameEvidence(a.sample.tree, coll.tree)
<1>1. PICK a : a = coll.accepted[t]
  OBVIOUS
<1>2. a \in bundles /\ Proven(t, a.provenance, a.profile, a.sample)
  BY <1>1 DEF AcceptedOK
<1>3. a \in Bundle /\ Bound(a) /\ coll.tree \in Tree
  BY <1>2 DEF IInv, Typing, BundlesOK, CollOK
<1>4. a.sample.tree \in Tree
  BY <1>3 DEF Bundle, SampleReport
<1>5. a.profile.target = t /\ SameEvidence(a.sample.tree, coll.tree)
  BY <1>2 DEF Proven, ReportsAgree
<1>6. a.sample.status = "passed"
  BY <1>2 DEF Proven, validate_run_report_inputs
<1>7. QED
  BY <1>1, <1>2, <1>3, <1>4, <1>5, <1>6

\* So the target's tools, rows and conversions are those of the collector's checkout.
LEMMA AcceptedIsSupported ==
  ASSUME IInv, coll.pc # "idle", NEW t \in Target, AcceptedOK(t)
  PROVE  LET a == coll.accepted[t]
             p == ProfileOf[coll.tree]
         IN /\ Gate[p]
            /\ \E r \in Rows[p] : /\ r.target = t /\ r.status = "approved"
                                  /\ r.tool = a.sample.by /\ r.archive.tool = a.sample.by
            /\ \A s \in Samples[CatalogOf[coll.tree]] :
                 s.outcome = "success" => Converts(a.sample.by, s)
<1>1. PICK a : a = coll.accepted[t]
  OBVIOUS
<1>2. /\ a \in bundles /\ a \in Bundle /\ Bound(a)
      /\ a.profile.target = t /\ a.sample.status = "passed"
      /\ coll.tree \in Tree /\ a.sample.tree \in Tree
      /\ SameEvidence(a.sample.tree, coll.tree)
  BY <1>1, AcceptedIs
<1>3. /\ Content[a.sample.tree]["profile"] = Content[coll.tree]["profile"]
      /\ Content[a.sample.tree]["catalog"] = Content[coll.tree]["catalog"]
  <2>1. {"profile", "catalog"} \subseteq {"profile", "catalog"} \cup {q \in Package : Reached(q)}
    OBVIOUS
  <2>2. \A p \in {"profile", "catalog"} : Content[a.sample.tree][p] = Content[coll.tree][p]
    BY <1>2, <2>1, EvidenceAgrees, Zenon
  <2>3. QED
    BY <2>2
<1>4. /\ ProfileOf[a.sample.tree] = ProfileOf[coll.tree]
      /\ CatalogOf[a.sample.tree] = CatalogOf[coll.tree]
  BY <1>2, <1>3 DEF ProfileOf, CatalogOf
<1>5. PICK p, c : p = ProfileOf[coll.tree] /\ c = CatalogOf[coll.tree] /\ c \in Catalog
  BY <1>2 DEF Catalog
<1>6. /\ a.sample.catalog = c /\ a.sample.profile = p /\ Gate[p]
      /\ a.sample.by = a.sample.tool /\ a.sample.tool = a.profile.tool
      /\ verify_identity(a.profile, p) /\ AllPassed[a.sample.by][c]
  BY <1>2, <1>4, <1>5 DEF Bound, GoodSample
<1>7. a.sample.by = a.profile.archive.tool
  BY <1>2, <1>6 DEF Bound, GoodReport
<1>8. \E r \in Rows[p] : /\ r.target = t /\ r.status = "approved"
                         /\ r.tool = a.sample.by /\ r.archive.tool = a.sample.by
  BY <1>2, <1>6, <1>7 DEF verify_identity, approved_artifact, RowOf
<1>9. a.sample.by \in Tool
  BY <1>2 DEF Bundle, SampleReport
<1>10. \A s \in Samples[c] : s.outcome = "success" => Converts(a.sample.by, s)
  BY <1>5, <1>6, <1>9, AllPassedConvert
<1>11. QED
  BY <1>1, <1>5, <1>6, <1>8, <1>10

\* All targets' records come from one run, or all from reviewers.
LEMMA AcceptedAreOfOneOrigin ==
  ASSUME IInv, ModeOK, \A t \in Target : AcceptedOK(t)
  PROVE  OneOrigin
<1>1. \A t \in Target : /\ coll.accepted[t] \in bundles
                        /\ coll.accepted[t].provenance = coll.provenance[t]
                        /\ Bound(coll.accepted[t])
  BY DEF AcceptedOK, IInv, BundlesOK
<1>2. \A t \in Target : /\ coll.provenance[t].run \in Origins
                        /\ coll.provenance[t].reviewed = (coll.provenance[t].run = Manual)
  BY <1>1 DEF Bound
<1>3. CASE coll.mode = "workflow" /\ Cardinality(OriginsOf(coll.provenance)) = 1
  <2> DEFINE R == OriginsOf(coll.provenance)
             RunOf == [t \in Target |-> coll.provenance[t].run]
  <2>1. IsFiniteSet(R)
    <3>1. RunOf \in Surjection(Target, R)
      BY DEF Surjection, OriginsOf
    <3>2. QED
      BY <3>1, MachineAssumption, FS_Surjection
  <2>2. PICK origin : R = {origin}
    BY <1>3, <2>1, FS_Singleton
  <2>3. \A t \in Target : coll.provenance[t].run = origin
    BY <2>2 DEF OriginsOf
  <2>4. origin \in Origins
    BY <1>2, <2>2, <2>3 DEF OriginsOf
  <2>5. QED
    BY <1>1, <2>3, <2>4 DEF OneOrigin, Origins
<1>4. CASE coll.mode = "manual" /\ \A t \in Target : coll.provenance[t].reviewed
  <2>1. \A t \in Target : coll.provenance[t].run = Manual
    BY <1>2, <1>4
  <2>2. QED
    BY <1>1, <2>1 DEF OneOrigin, Origins
<1>5. QED
  BY <1>3, <1>4 DEF ModeOK

\* A collection that the invariant allows to pass proves support.
LEMMA InvIsSound ==
  ASSUME IInv
  PROVE  AggregateIsSound
<1> SUFFICES ASSUME coll.verdict = "passed"
             PROVE  Supported /\ SameInputs /\ OneOrigin
  BY DEF AggregateIsSound
<1>1. ModeOK /\ DOMAIN coll.accepted = Target /\ coll.pc = "done"
  BY NothingAssumption DEF IInv, CollOK
<1>2. \A t \in Target : AcceptedOK(t)
  BY <1>1 DEF IInv, CollOK
<1>3. coll.pc # "idle"
  BY <1>1
<1>4. Supported
  BY <1>2, <1>3, AcceptedIsSupported, Zenon DEF Supported
<1>5. SameInputs
  <2> SUFFICES ASSUME NEW t \in Target,
                      NEW p \in {"profile", "catalog"} \cup {q \in Package : Reached(q)}
               PROVE  Content[coll.accepted[t].sample.tree][p] = Content[coll.tree][p]
    BY Zenon DEF SameInputs
  <2>2. PICK a : a = coll.accepted[t]
    OBVIOUS
  <2>3. /\ coll.tree \in Tree /\ a.sample.tree \in Tree
        /\ SameEvidence(a.sample.tree, coll.tree)
    BY <1>2, <1>3, <2>2, AcceptedIs
  <2>4. Content[a.sample.tree][p] = Content[coll.tree][p]
    BY <2>3, EvidenceAgrees, Zenon
  <2>5. QED
    BY <2>2, <2>4
<1>6. OneOrigin
  BY <1>1, <1>2, AcceptedAreOfOneOrigin
<1>7. QED
  BY <1>4, <1>5, <1>6

\* The invariant refuses no honest collection.
LEMMA InvIsHonest ==
  ASSUME IInv
  PROVE  HonestIsAccepted
<1> SUFFICES ASSUME coll.pc = "done", mishaps = 0, Gathered,
                    Cardinality({dir[t].provenance.run : t \in Target}) = 1
             PROVE  coll.verdict = "passed"
  BY DEF HonestIsAccepted
<1>1. \A t \in Target : dir[t] # NoFiles
  <2>1. \A t \in Target : dir[t].profile \in ProfileReport
    BY DEF Gathered, IInv, Typing, Bundle
  <2>2. NoFiles.profile = Nothing
    BY DEF NoFiles, File
  <2>3. QED
    BY <2>1, <2>2, NothingAssumption
<1>2. Honest
  BY <1>1 DEF Honest, Gathered
<1>3. QED
  BY <1>2 DEF IInv, Quiet

\* The types are part of the invariant.
LEMMA InvIsTyped ==
  ASSUME IInv
  PROVE  TypeOK
<1>1. repo \in Tree /\ runs \in Seq(Tree)
  BY DEF IInv, Typing
<1>2. \A t \in Target : tmp[t] \in BOOLEAN /\ installed[t] \in Tool /\ archive[t] \in Archive
  BY DEF IInv, Typing
<1>3. ASSUME NEW t \in Target
      PROVE  /\ job[t].pc \in Step /\ job[t].run \in DOMAIN runs \cup {Manual}
             /\ job[t].pc # "idle" => job[t].tree \in Tree /\ job[t].commit \in Tree
             /\ job[t].report \in ProfileReport \cup {Nothing}
             /\ job[t].sample \in SampleReport \cup {Nothing}
             /\ job[t].pc \in {"reported", "sampled"} => job[t].report # Nothing
  <2>1. job[t] \in JobType /\ JobOK(t, job[t])
    BY DEF IInv, Typing, JobsOK
  <2>2. QED
    BY <2>1, NothingAssumption DEF JobType, JobOK, Origins
<1>4. \A b \in bundles : b.profile \in ProfileReport /\ b.sample \in SampleReport
  BY DEF IInv, Typing, Bundle
<1>5. DOMAIN coll.accepted \subseteq Target
  BY DEF IInv, Typing, CollType
<1>6. QED
  BY <1>1, <1>2, <1>3, <1>4, <1>5 DEF TypeOK

-----------------------------------------------------------------------------
(* What a step keeps that leaves something alone                            *)

\* Nothing happens from outside in a step of the programs, and before it if not after it.
Calm == (mishaps' = 0 => mishaps = 0 /\ repo' = repo) /\ DOMAIN runs \subseteq DOMAIN runs'

\* What is known of a job rests on the constants, and on runs that only grow.
LEMMA JobKept ==
  ASSUME NEW t, NEW j, JobOK(t, j), Calm, jobs > 0 => jobs' > 0
  PROVE  JobOK(t, j)'
BY DEF JobOK, Calm, Origins, GoodReport, GoodSample, verify_identity, approved_artifact, RowOf

\* So does what is known of a bundle.
LEMMA BundlesKept ==
  ASSUME NEW b, Bound(b), Calm
  PROVE  Bound(b)'
BY DEF Bound, Calm, Origins, GoodReport, GoodSample, verify_identity, approved_artifact, RowOf,
       compute_manual_transfer_sha256

\* Files that stay are still written by jobs.
LEMMA DirKept ==
  ASSUME DirOK, dir' = dir, bundles \subseteq bundles'
  PROVE  DirOK'
BY DEF DirOK, Written

\* What the collector found does not depend on what is not its own.
LEMMA ProvenKept ==
  ASSUME NEW t, NEW provenance, NEW profile, NEW sample, Proven(t, provenance, profile, sample),
         coll'.tree = coll.tree, coll'.catalog = coll.catalog, coll'.hashed = coll.hashed,
         coll'.profile = coll.profile, coll'.mode = coll.mode
  PROVE  Proven(t, provenance, profile, sample)'
BY DEF Proven, validate_provenance_identity, TransferMatches, ReportsAgree,
       validate_run_report_inputs, verify_identity, approved_artifact, RowOf, SameEvidence

\* What was accepted stays so while the collector's documents and mode stay.
LEMMA AcceptedKept ==
  ASSUME NEW t, AcceptedOK(t), bundles \subseteq bundles',
         coll'.accepted[t] = coll.accepted[t], coll'.provenance = coll.provenance,
         coll'.tree = coll.tree, coll'.catalog = coll.catalog, coll'.hashed = coll.hashed,
         coll'.profile = coll.profile, coll'.mode = coll.mode
  PROVE  AcceptedOK(t)'
<1>1. PICK a : a = coll.accepted[t]
  OBVIOUS
<1>2. a \in bundles' /\ a.provenance = coll'.provenance[t] /\ a = coll'.accepted[t]
  BY <1>1 DEF AcceptedOK
<1>3. Proven(t, a.provenance, a.profile, a.sample)
  BY <1>1 DEF AcceptedOK
<1>4. Proven(t, a.provenance, a.profile, a.sample)'
  BY <1>3, ProvenKept
<1>5. QED
  BY <1>2, <1>4 DEF AcceptedOK

\* The mode was determined from records that stay.
LEMMA ModeKept ==
  ASSUME ModeOK, bundles \subseteq bundles', coll'.provenance = coll.provenance,
         coll'.mode = coll.mode
  PROVE  ModeOK'
BY DEF ModeOK, Written, OriginsOf

\* What the collector has, when others make a step.
LEMMA CollKept ==
  ASSUME CollOK, coll' = coll, bundles \subseteq bundles'
  PROVE  CollOK'
<1>1. ModeOK => ModeOK'
  BY ModeKept
<1>2. \A t : AcceptedOK(t) => AcceptedOK(t)'
  BY AcceptedKept
<1>3. QED
  BY <1>1, <1>2 DEF CollOK

\* The quiet world, when a job makes a step.
LEMMA QuietKept ==
  ASSUME Quiet, repo' = repo, runs' = runs, dir' = dir, coll' = coll, bundles \subseteq bundles'
  PROVE  Quiet'
BY DEF Quiet, Honest, Candidates

\* A step of one job.
LEMMA JobStep ==
  ASSUME IInv, NEW t \in Target, UNCHANGED <<repo, runs, bundles, dir, coll, mishaps>>,
         jobs' \in 0..MaxJobs, jobs <= jobs', job' \in [Target -> JobType],
         \A u \in Target \ {t} : job'[u] = job[u], JobOK(t, job[t])',
         tmp' \in [Target -> BOOLEAN], installed' \in [Target -> Tool],
         archive' \in [Target -> Archive]
  PROVE  IInv'
<1>1. Typing'
  BY DEF IInv, Typing
<1>2. Calm /\ (jobs > 0 => jobs' > 0)
  BY DEF Calm, IInv, Typing
<1>3. JobsOK'
  <2>1. ASSUME NEW u \in Target, u # t
        PROVE  JobOK(u, job[u])'
    <3>1. PICK j : j = job[u] /\ j = job'[u]
      BY <2>1
    <3>2. JobOK(u, j)'
      BY <1>2, <3>1, JobKept DEF IInv, JobsOK
    <3>3. QED
      BY <3>1, <3>2
  <2>2. QED
    BY <2>1 DEF JobsOK
<1>4. BundlesOK'
  BY <1>2, BundlesKept DEF IInv, BundlesOK
<1>5. DirOK' /\ CollOK'
  BY DirKept, CollKept DEF IInv
<1>6. mishaps' = 0 => Quiet'
  BY QuietKept DEF IInv
<1>7. QED
  BY <1>1, <1>3, <1>4, <1>5, <1>6 DEF IInv

-----------------------------------------------------------------------------
(* The jobs                                                                 *)

\* What the invariant says of one job.
LEMMA JobIs ==
  ASSUME IInv, NEW t \in Target
  PROVE  job[t] \in JobType /\ JobOK(t, job[t])
BY DEF IInv, Typing, JobsOK

\* The values of a row, and of a tree's documents.
LEMMA RowIs ==
  ASSUME NEW v \in Tree, NEW r \in Rows[ProfileOf[v]]
  PROVE  /\ ProfileOf[v] \in Profile /\ CatalogOf[v] \in Catalog /\ Gate[ProfileOf[v]] \in BOOLEAN
         /\ r \in AnyRow /\ r.id \in STRING /\ r.target \in Target
         /\ r.status \in {"candidate", "approved"} /\ r.archive \in Archive
         /\ r.archive.tool \in Tool
<1>1. ProfileOf[v] \in Profile /\ CatalogOf[v] \in Catalog
  BY DEF Profile, Catalog
<1>2. QED
  BY <1>1, MachineAssumption DEF AnyRow

\* A job that ends.
LEMMA EndsStep ==
  ASSUME IInv, NEW t \in Target, UNCHANGED <<repo, runs, jobs, bundles, dir, coll, mishaps>>,
         Ends(t), UNCHANGED <<installed, archive>>, tmp' \in [Target -> BOOLEAN]
  PROVE  IInv'
<1>1. /\ job' \in [Target -> JobType] /\ job'[t] = Idle
      /\ \A u \in Target \ {t} : job'[u] = job[u]
  BY DEF Ends, Idle, IInv, Typing, JobType, Step, AnyRow
<1>2. JobOK(t, Idle)'
  BY DEF JobOK, Idle, Origins
<1>3. JobOK(t, job[t])'
  BY <1>1, <1>2
<1>4. /\ installed' \in [Target -> Tool] /\ archive' \in [Target -> Archive]
      /\ jobs' \in 0..MaxJobs /\ jobs <= jobs'
  BY BoundsAssumption DEF IInv, Typing
<1>5. QED
  BY <1>1, <1>3, <1>4, JobStep

\* A job whose verification is given up.
LEMMA AbandonStep ==
  ASSUME IInv, NEW t \in Target, UNCHANGED <<repo, runs, jobs, bundles, dir, coll, mishaps>>,
         Abandon(t), UNCHANGED <<installed, archive>>
  PROVE  IInv'
<1>1. tmp' \in [Target -> BOOLEAN]
  BY DEF Abandon, Close, IInv, Typing
<1>2. QED
  BY <1>1, EndsStep DEF Abandon

\* A job that goes on with what it has.
LEMMA AdvanceStep ==
  ASSUME IInv, NEW t \in Target, UNCHANGED <<repo, runs, jobs, bundles, dir, coll, mishaps>>,
         UNCHANGED <<installed, archive>>, tmp' \in [Target -> BOOLEAN],
         job[t].pc \in {"started", "opened", "extracting", "probing"},
         NEW pc \in {"started", "opened", "extracting", "probing"},
         job' = [job EXCEPT ![t].pc = pc]
  PROVE  IInv'
<1>1. job[t] \in JobType /\ JobOK(t, job[t])
  BY JobIs
<1>2. job'[t] = [job[t] EXCEPT !.pc = pc] /\ \A u \in Target \ {t} : job'[u] = job[u]
  BY DEF IInv, Typing
<1>3. PICK j, k : j = job[t] /\ k = job'[t]
  OBVIOUS
<1>4. /\ k \in JobType /\ k.pc = pc /\ k.run = j.run /\ k.commit = j.commit /\ k.tree = j.tree
      /\ k.row = j.row
  BY <1>1, <1>2, <1>3 DEF JobType, Step
<1>5. job' \in [Target -> JobType]
  BY <1>2, <1>3, <1>4 DEF IInv, Typing
<1>6. JobOK(t, k)'
  BY <1>1, <1>3, <1>4 DEF JobOK, Origins
<1>7. JobOK(t, job[t])'
  BY <1>3, <1>6
<1>8. /\ installed' \in [Target -> Tool] /\ archive' \in [Target -> Archive]
      /\ jobs' \in 0..MaxJobs /\ jobs <= jobs'
  BY BoundsAssumption DEF IInv, Typing
<1>9. QED
  BY <1>2, <1>5, <1>7, <1>8, JobStep

\* Start, with any run, tree and row.
LEMMA StartStep ==
  ASSUME IInv, NEW t \in Target, NEW run \in Origins, NEW v \in Tree,
         NEW r \in Rows[ProfileOf[v]], Start(t, run, v, r), mishaps = 0 => v = repo
  PROVE  IInv'
<1>1. PICK k : k = [Idle EXCEPT !.pc = "started", !.run = run, !.commit = v, !.tree = v, !.row = r]
  OBVIOUS
<1>2. job' = [job EXCEPT ![t] = k] /\ jobs' = jobs + 1 /\ jobs < MaxJobs
  BY <1>1 DEF Start
<1>3. /\ k.pc = "started" /\ k.run = run /\ k.commit = v /\ k.tree = v /\ k.row = r
      /\ k.report = Nothing /\ k.sample = Nothing /\ k \in JobType
  <2>1. run \in Nat \cup {Manual}
    BY DEF Origins, IInv, Typing
  <2>2. QED
    BY <1>1, <2>1, RowIs DEF Idle, JobType, Step
<1>4. job' \in [Target -> JobType] /\ job'[t] = k /\ \A u \in Target \ {t} : job'[u] = job[u]
  BY <1>2, <1>3 DEF IInv, Typing
<1>5. UNCHANGED <<repo, runs, bundles, dir, coll, mishaps, tmp, installed, archive>>
  BY DEF Start
<1>6. jobs \in 0..MaxJobs /\ jobs' \in 0..MaxJobs /\ jobs <= jobs' /\ jobs' > 0
  BY <1>2, BoundsAssumption DEF IInv, Typing
<1>7. JobOK(t, k)'
  BY <1>3, <1>5, <1>6 DEF JobOK, Origins
<1>8. JobOK(t, job[t])'
  BY <1>4, <1>7
<1>9. /\ tmp' \in [Target -> BOOLEAN] /\ installed' \in [Target -> Tool]
      /\ archive' \in [Target -> Archive]
  BY <1>5 DEF IInv, Typing
<1>10. QED
  BY <1>4, <1>5, <1>6, <1>8, <1>9, JobStep

\* A job of a workflow has the content the run was started on.
LEMMA StartInRunStep ==
  ASSUME IInv, NEW t \in Target, StartInRun(t)
  PROVE  IInv'
<1>1. PICK k \in DOMAIN runs : \E r \in Rows[ProfileOf[runs[k]]] : Start(t, k, runs[k], r)
  BY DEF StartInRun
<1>2. PICK r \in Rows[ProfileOf[runs[k]]] : Start(t, k, runs[k], r)
  BY <1>1
<1>3. runs[k] \in Tree /\ k \in Origins /\ (mishaps = 0 => runs[k] = repo)
  BY DEF IInv, Typing, Origins, Quiet
<1>4. QED
  BY <1>2, <1>3, StartStep

\* A job by hand has that of the branch.
LEMMA StartByHandStep ==
  ASSUME IInv, NEW t \in Target, StartByHand(t)
  PROVE  IInv'
<1>1. PICK r \in Rows[ProfileOf[repo]] : Start(t, Manual, repo, r)
  BY DEF StartByHand
<1>2. repo \in Tree /\ Manual \in Origins
  BY DEF IInv, Typing, Origins
<1>3. QED
  BY <1>1, <1>2, StartStep

\* verify_archive_identity, copy_authenticated_archive, extract_and_verify.
LEMMA OpenStep ==
  ASSUME IInv, NEW t \in Target,
         verify_archive_identity(t) \/ copy_authenticated_archive(t) \/ extract_and_verify(t)
  PROVE  IInv'
<1>1. UNCHANGED <<repo, runs, jobs, installed, archive, bundles, dir, coll, mishaps>>
  BY DEF verify_archive_identity, copy_authenticated_archive, extract_and_verify
<1>2. CASE Abandon(t)
  BY <1>1, <1>2, AbandonStep
<1>3. CASE verify_archive_identity(t) /\ ~ Abandon(t)
  <2>1. job[t].pc = "started" /\ job' = [job EXCEPT ![t].pc = "opened"] /\ tmp' = tmp
    BY <1>3 DEF verify_archive_identity
  <2>2. tmp' \in [Target -> BOOLEAN]
    BY <2>1 DEF IInv, Typing
  <2>3. QED
    BY <1>1, <2>1, <2>2, AdvanceStep
<1>4. CASE copy_authenticated_archive(t) /\ ~ Abandon(t)
  <2>1. /\ job[t].pc = "opened" /\ job' = [job EXCEPT ![t].pc = "extracting"]
        /\ tmp' = [tmp EXCEPT ![t] = TRUE]
    BY <1>4 DEF copy_authenticated_archive
  <2>2. tmp' \in [Target -> BOOLEAN]
    BY <2>1 DEF IInv, Typing
  <2>3. QED
    BY <1>1, <2>1, <2>2, AdvanceStep
<1>5. CASE extract_and_verify(t) /\ ~ Abandon(t)
  <2>1. job[t].pc = "extracting" /\ job' = [job EXCEPT ![t].pc = "probing"] /\ tmp' = tmp
    BY <1>5 DEF extract_and_verify
  <2>2. tmp' \in [Target -> BOOLEAN]
    BY <2>1 DEF IInv, Typing
  <2>3. QED
    BY <1>1, <2>1, <2>2, AdvanceStep
<1>6. QED
  BY <1>2, <1>3, <1>4, <1>5

\* TimeOut.
LEMMA TimeOutStep ==
  ASSUME IInv, NEW t \in Target, TimeOut(t)
  PROVE  IInv'
BY AbandonStep DEF TimeOut

\* collect_from_archive: the report is about the tool of the row's archive.
LEMMA CollectFromArchiveStep ==
  ASSUME IInv, NEW t \in Target, collect_from_archive(t)
  PROVE  IInv'
<1>1. UNCHANGED <<repo, runs, jobs, installed, archive, bundles, dir, coll, mishaps>>
  BY DEF collect_from_archive
<1>2. CASE Abandon(t)
  BY <1>1, <1>2, AbandonStep
<1>3. CASE ~ Abandon(t)
  <2>1. PICK report : report = ReportOf(t)
    OBVIOUS
  <2>2. /\ job[t].pc = "probing" /\ validate(t, report) /\ Close(t)
        /\ job' = [job EXCEPT ![t].pc = "reported", ![t].report = report]
    BY <1>3, <2>1 DEF collect_from_archive
  <2>3. PICK j, k : j = job[t] /\ k = job'[t]
    OBVIOUS
  <2>4. j \in JobType /\ JobOK(t, j) /\ j.pc = "probing"
    BY <2>2, <2>3, JobIs
  <2>5. j.tree \in Tree /\ j.row \in Rows[ProfileOf[j.tree]]
    BY <2>4 DEF JobOK
  <2>6. report \in ProfileReport /\ GoodReport(t, report)
    <3>1. report = [target |-> t, profile |-> ProfileOf[j.tree], gate |-> Gate[ProfileOf[j.tree]],
                    row |-> j.row.id, status |-> j.row.status, archive |-> j.row.archive,
                    tool |-> j.row.archive.tool]
      BY <2>1, <2>3 DEF ReportOf
    <3>2. QED
      BY <2>5, <3>1, RowIs DEF ProfileReport, GoodReport
  <2>7. /\ k = [j EXCEPT !.pc = "reported", !.report = report]
        /\ \A u \in Target \ {t} : job'[u] = job[u]
    BY <2>2, <2>3 DEF IInv, Typing
  <2>8. /\ k \in JobType /\ k.pc = "reported" /\ k.run = j.run /\ k.commit = j.commit
        /\ k.tree = j.tree /\ k.report = report
    BY <2>4, <2>6, <2>7 DEF JobType, Step
  <2>9. job' \in [Target -> JobType]
    BY <2>2, <2>3, <2>8 DEF IInv, Typing
  <2>10. JobOK(t, k)'
    BY <1>1, <2>4, <2>6, <2>8 DEF JobOK, Origins, GoodReport
  <2>11. JobOK(t, job[t])'
    BY <2>3, <2>10
  <2>12. /\ tmp' \in [Target -> BOOLEAN] /\ installed' \in [Target -> Tool]
         /\ archive' \in [Target -> Archive] /\ jobs' \in 0..MaxJobs /\ jobs <= jobs'
    BY <1>1, <2>2, BoundsAssumption DEF IInv, Typing, Close
  <2>13. QED
    BY <1>1, <2>7, <2>9, <2>11, <2>12, JobStep
<1>4. QED
  BY <1>2, <1>3

\* run_manifest_samples: a corpus that passed did so with the reported tools.
LEMMA SampleStep ==
  ASSUME IInv, NEW t \in Target, run_manifest_samples(t)
  PROVE  IInv'
<1>1. UNCHANGED <<repo, runs, jobs, tmp, installed, archive, bundles, dir, coll, mishaps>>
  BY DEF run_manifest_samples
<1>2. tmp' \in [Target -> BOOLEAN]
  BY <1>1 DEF IInv, Typing
<1>3. CASE Ends(t)
  BY <1>1, <1>2, <1>3, EndsStep
<1>4. CASE ~ Ends(t)
  <2>1. PICK j, k : j = job[t] /\ k = job'[t]
    OBVIOUS
  <2>2. j \in JobType /\ JobOK(t, j) /\ j.pc = "reported"
    BY <2>1, JobIs DEF run_manifest_samples
  <2>3. PICK c, p, tool : c = CatalogOf[j.tree] /\ p = ProfileOf[j.tree] /\ tool = installed[t]
    OBVIOUS
  <2>4. PICK status :
          status = IF ~Unblocked(t) THEN "blocked"
                   ELSE IF AllPassed[tool][c] THEN "passed" ELSE "failed"
    OBVIOUS
  <2>5. PICK x : x = [target |-> t, tree |-> j.tree, catalog |-> c, commit |-> j.commit,
                      profile |-> j.report.profile, row |-> j.report.row,
                      tool |-> j.report.tool, status |-> status, by |-> tool, nth |-> jobs]
    OBVIOUS
  <2>6. job' = [job EXCEPT ![t].pc = "sampled", ![t].sample = x]
    BY <1>4, <2>1, <2>3, <2>4, <2>5 DEF run_manifest_samples
  <2>7. /\ j.tree \in Tree /\ j.commit \in Tree /\ jobs > 0 /\ j.report \in ProfileReport
        /\ GoodReport(t, j.report)
    BY <2>2 DEF JobOK
  <2>8. x \in SampleReport
    <3>1. c \in Catalog /\ tool \in Tool /\ jobs \in 1..MaxJobs
      BY <2>3, <2>7, BoundsAssumption DEF IInv, Typing, Catalog
    <3>2. status \in {"blocked", "failed", "passed"}
      BY <2>4
    <3>3. QED
      BY <2>5, <2>7, <3>1, <3>2 DEF SampleReport, ProfileReport
  <2>9. status = "passed" =>
          /\ Gate[p] /\ j.report.profile = p /\ verify_identity(j.report, p)
          /\ tool = j.report.tool /\ AllPassed[tool][c]
    <3>1. SUFFICES ASSUME status = "passed"
                   PROVE  Unblocked(t) /\ AllPassed[tool][c]
      BY <2>1, <2>3 DEF Unblocked, verify_executable_identity
    <3>2. QED
      BY <2>4, <3>1
  <2>10. GoodSample(j.report, x) /\ x.commit = j.commit /\ x.tree = j.tree
    BY <2>3, <2>5, <2>7, <2>9 DEF GoodSample, GoodReport
  <2>11. /\ k = [j EXCEPT !.pc = "sampled", !.sample = x]
         /\ \A u \in Target \ {t} : job'[u] = job[u]
    BY <2>1, <2>6 DEF IInv, Typing
  <2>12. /\ k \in JobType /\ k.pc = "sampled" /\ k.run = j.run /\ k.commit = j.commit
         /\ k.tree = j.tree /\ k.report = j.report /\ k.sample = x
    BY <2>2, <2>8, <2>11 DEF JobType, Step
  <2>13. job' \in [Target -> JobType]
    BY <2>1, <2>6, <2>12 DEF IInv, Typing
  <2>14. JobOK(t, k)
    BY <2>2, <2>8, <2>10, <2>12 DEF JobOK
  <2>15. JobOK(t, k)'
    BY <1>1, <2>14, JobKept DEF Calm
  <2>16. JobOK(t, job[t])'
    BY <2>1, <2>15
  <2>17. /\ installed' \in [Target -> Tool] /\ archive' \in [Target -> Archive]
         /\ jobs' \in 0..MaxJobs /\ jobs <= jobs'
    BY <1>1, BoundsAssumption DEF IInv, Typing
  <2>18. QED
    BY <1>1, <1>2, <2>11, <2>13, <2>16, <2>17, JobStep
<1>5. QED
  BY <1>3, <1>4

\* What Bind adds is a bundle that binds the two reports.
LEMMA BindIsBound ==
  ASSUME IInv, NEW t \in Target, job[t].pc = "sampled",
         NEW draft, draft = Provenance(t),
         NEW provenance,
         provenance = IF draft.reviewed
                        THEN [draft EXCEPT !.transfer =
                                compute_manual_transfer_sha256(job[t].report, job[t].sample, draft)]
                        ELSE draft,
         NEW b, b = [profile |-> job[t].report, sample |-> job[t].sample, provenance |-> provenance]
  PROVE  b \in Bundle /\ Bound(b)
<1>1. PICK j : j = job[t]
  OBVIOUS
<1>2. j \in JobType /\ JobOK(t, j) /\ j.pc = "sampled"
  BY <1>1, JobIs
<1>3. /\ j.report \in ProfileReport /\ GoodReport(t, j.report)
      /\ j.sample \in SampleReport /\ GoodSample(j.report, j.sample) /\ j.sample.commit = j.commit
      /\ j.run \in Origins /\ j.run \in Nat \cup {Manual} /\ j.commit \in Tree
      /\ (mishaps = 0 => j.sample.tree = repo)
  BY <1>2 DEF JobOK, JobType
<1>4. PICK hash : hash = compute_manual_transfer_sha256(j.report, j.sample, draft)
  OBVIOUS
<1>5. draft = [target |-> t, tree |-> j.sample.tree, commit |-> j.commit, run |-> j.run,
               profile |-> j.report, sample |-> j.sample,
               reviewed |-> j.run = Manual, transfer |-> Nothing]
  BY <1>1 DEF Provenance
<1>6. j.sample.tree \in Tree
  BY <1>3 DEF SampleReport
<1>7. draft \in ProvenanceWith({Nothing})
  BY <1>3, <1>5, <1>6 DEF ProvenanceWith
<1>8. [draft EXCEPT !.transfer = Nothing] = draft
  BY <1>5
<1>9. hash = <<j.report, j.sample, draft>> /\ hash \in TransferHash
  BY <1>3, <1>4, <1>7, <1>8 DEF compute_manual_transfer_sha256, TransferHash
<1>10. /\ provenance.target = t /\ provenance.tree = j.sample.tree /\ provenance.commit = j.commit
       /\ provenance.run = j.run /\ provenance.profile = j.report /\ provenance.sample = j.sample
       /\ provenance.reviewed = (j.run = Manual)
       /\ provenance.transfer = IF j.run = Manual THEN hash ELSE Nothing
       /\ provenance = [target |-> t, tree |-> j.sample.tree, commit |-> j.commit, run |-> j.run,
                        profile |-> j.report, sample |-> j.sample, reviewed |-> j.run = Manual,
                        transfer |-> IF j.run = Manual THEN hash ELSE Nothing]
  <2>1. PICK reviewed \in BOOLEAN : reviewed = (j.run = Manual)
    OBVIOUS
  <2>2. draft = [target |-> t, tree |-> j.sample.tree, commit |-> j.commit, run |-> j.run,
                 profile |-> j.report, sample |-> j.sample,
                 reviewed |-> reviewed, transfer |-> Nothing]
    BY <1>5, <2>1
  <2>3. draft.reviewed = reviewed
    BY <2>2
  <2>4. PICK transfer : transfer = IF j.run = Manual THEN hash ELSE Nothing
    OBVIOUS
  <2>5. provenance = [target |-> t, tree |-> j.sample.tree, commit |-> j.commit, run |-> j.run,
                      profile |-> j.report, sample |-> j.sample,
                      reviewed |-> reviewed, transfer |-> transfer]
    <3>1. CASE j.run = Manual
      <4>1. provenance = [draft EXCEPT !.transfer = hash]
        BY <1>1, <1>4, <2>1, <2>3, <3>1
      <4>2. QED
        BY <2>2, <2>4, <3>1, <4>1
    <3>2. CASE j.run # Manual
      <4>1. provenance = draft
        BY <2>1, <2>3, <3>2
      <4>2. QED
        BY <2>2, <2>4, <3>2, <4>1
    <3>3. QED
      BY <3>1, <3>2
  <2>6. /\ provenance.target = t /\ provenance.tree = j.sample.tree
        /\ provenance.commit = j.commit /\ provenance.run = j.run
        /\ provenance.profile = j.report /\ provenance.sample = j.sample
        /\ provenance.reviewed = reviewed /\ provenance.transfer = transfer
    BY <2>5
  <2>7. QED
    BY <2>1, <2>4, <2>5, <2>6
<1>11. provenance \in ProvenanceReport
  BY <1>3, <1>6, <1>9, <1>10 DEF ProvenanceReport, ProvenanceWith
<1>12. [provenance EXCEPT !.transfer = Nothing] = draft
  BY <1>5, <1>10
<1>13. /\ b.profile = j.report /\ b.sample = j.sample /\ b.provenance = provenance /\ b \in Bundle
  BY <1>1, <1>3, <1>11 DEF Bundle
<1>14. provenance.reviewed => 
         provenance.transfer = compute_manual_transfer_sha256(j.report, j.sample, provenance)
  BY <1>9, <1>10, <1>12 DEF compute_manual_transfer_sha256
<1>15. j.report.target = t
  BY <1>3 DEF GoodReport
<1>16. Bound(b)
  BY <1>3, <1>6, <1>10, <1>13, <1>14, <1>15 DEF Bound
<1>17. QED
  BY <1>13, <1>16

\* Bind.
LEMMA BindStep ==
  ASSUME IInv, NEW t \in Target, Bind(t)
  PROVE  IInv'
<1>1. /\ UNCHANGED <<repo, runs, jobs, tmp, installed, archive, dir, coll, mishaps>>
      /\ job[t].pc = "sampled" /\ Ends(t)
  BY DEF Bind
<1>2. PICK draft : draft = Provenance(t)
  OBVIOUS
<1>3. PICK provenance :
        provenance = IF draft.reviewed
                       THEN [draft EXCEPT !.transfer =
                               compute_manual_transfer_sha256(job[t].report, job[t].sample, draft)]
                       ELSE draft
  OBVIOUS
<1>4. PICK b : b = [profile |-> job[t].report, sample |-> job[t].sample, provenance |-> provenance]
  OBVIOUS
<1>5. bundles' = bundles \cup {b}
  BY <1>2, <1>3, <1>4 DEF Bind
<1>6. b \in Bundle /\ Bound(b)
  BY <1>1, <1>2, <1>3, <1>4, BindIsBound
<1>7. /\ job' \in [Target -> JobType] /\ job'[t] = Idle
      /\ \A u \in Target \ {t} : job'[u] = job[u]
  BY <1>1 DEF Ends, Idle, IInv, Typing, JobType, Step, AnyRow
<1>8. Typing'
  BY <1>1, <1>5, <1>6, <1>7 DEF IInv, Typing
<1>9. Calm
  BY <1>1 DEF Calm
<1>10. JobsOK'
  <2>1. JobOK(t, Idle)'
    BY DEF JobOK, Idle, Origins
  <2>2. JobOK(t, job[t])'
    BY <1>7, <2>1
  <2>3. ASSUME NEW u \in Target, u # t
        PROVE  JobOK(u, job[u])'
    <3>1. PICK j : j = job[u] /\ j = job'[u]
      BY <1>7, <2>3
    <3>2. JobOK(u, j)'
      BY <1>1, <1>9, <3>1, JobKept DEF IInv, JobsOK
    <3>3. QED
      BY <3>1, <3>2
  <2>4. QED
    BY <2>2, <2>3 DEF JobsOK
<1>11. BundlesOK'
  <2>1. \A a \in bundles \cup {b} : Bound(a)'
    BY <1>6, <1>9, BundlesKept DEF IInv, BundlesOK
  <2>2. QED
    BY <1>5, <2>1 DEF BundlesOK
<1>12. DirOK' /\ CollOK'
  BY <1>1, <1>5, DirKept, CollKept DEF IInv
<1>13. mishaps' = 0 => Quiet'
  BY <1>1, <1>5, QuietKept DEF IInv
<1>14. QED
  BY <1>8, <1>10, <1>11, <1>12, <1>13 DEF IInv

-----------------------------------------------------------------------------
(* What happens from outside                                                *)

\* Dispatch.
LEMMA DispatchStep ==
  ASSUME IInv, Dispatch
  PROVE  IInv'
<1>1. /\ runs' = Append(runs, repo)
      /\ UNCHANGED <<repo, machines, bundles, dir, coll, mishaps>>
  BY DEF Dispatch
<1>2. /\ UNCHANGED <<repo, job, jobs, tmp, installed, archive, bundles, dir, coll, mishaps>>
      /\ runs \in Seq(Tree) /\ repo \in Tree
  BY <1>1 DEF machines, IInv, Typing
<1>3. /\ runs' \in Seq(Tree) /\ DOMAIN runs \subseteq DOMAIN runs'
      /\ \A k \in DOMAIN runs' : (k \in DOMAIN runs /\ runs'[k] = runs[k]) \/ runs'[k] = repo
  BY <1>1, <1>2
<1>4. Calm
  BY <1>2, <1>3 DEF Calm
<1>5. Typing'
  BY <1>2, <1>3 DEF IInv, Typing
<1>6. JobsOK'
  <2>1. ASSUME NEW u \in Target
        PROVE  JobOK(u, job[u])'
    <3>1. PICK j : j = job[u] /\ j = job'[u]
      BY <1>2
    <3>2. JobOK(u, j)'
      BY <1>2, <1>4, <3>1, JobKept DEF IInv, JobsOK
    <3>3. QED
      BY <3>1, <3>2
  <2>2. QED
    BY <2>1 DEF JobsOK
<1>7. BundlesOK'
  BY <1>2, <1>4, BundlesKept DEF IInv, BundlesOK
<1>8. DirOK' /\ CollOK'
  BY <1>2, DirKept, CollKept DEF IInv
<1>9. mishaps' = 0 => Quiet'
  BY <1>2, <1>3 DEF IInv, Quiet, Honest, Candidates
<1>10. QED
  BY <1>5, <1>6, <1>7, <1>8, <1>9 DEF IInv

\* A change from outside: nothing that was said of a world without any is left to show.
LEMMA MishapStep ==
  ASSUME IInv, Mishap, repo' \in Tree, UNCHANGED <<runs, jobs, tmp, bundles, coll>>,
         job' \in [Target -> JobType], JobsOK', installed' \in [Target -> Tool],
         archive' \in [Target -> Archive], dir' \in [Target -> [File -> Paper]], DirOK'
  PROVE  IInv'
<1>1. mishaps' \in Nat /\ mishaps' # 0
  BY DEF Mishap, IInv, Typing
<1>2. Typing'
  BY <1>1 DEF IInv, Typing
<1>3. Calm
  BY <1>1 DEF Calm
<1>4. BundlesOK'
  BY <1>3, BundlesKept DEF IInv, BundlesOK
<1>5. CollOK'
  BY CollKept DEF IInv
<1>6. QED
  BY <1>1, <1>2, <1>4, <1>5 DEF IInv

\* Jobs that go on as they are while something else changes.
LEMMA JobsKept ==
  ASSUME IInv, Mishap, UNCHANGED <<runs, job, jobs>>
  PROVE  JobsOK'
<1>1. Calm
  BY DEF Mishap, Calm, IInv, Typing
<1>2. ASSUME NEW u \in Target
      PROVE  JobOK(u, job[u])'
  <2>1. PICK j : j = job[u] /\ j = job'[u]
    OBVIOUS
  <2>2. JobOK(u, j)'
    BY <1>1, <2>1, JobKept DEF IInv, JobsOK
  <2>3. QED
    BY <2>1, <2>2
<1>3. QED
  BY <1>2 DEF JobsOK

\* EditRepo.
LEMMA EditRepoStep ==
  ASSUME IInv, EditRepo
  PROVE  IInv'
<1>1. /\ Mishap /\ repo' \in Tree
      /\ UNCHANGED <<runs, job, jobs, tmp, installed, archive, bundles, dir, coll>>
  BY DEF EditRepo, machines
<1>2. JobsOK' /\ DirOK'
  BY <1>1, JobsKept, DirKept DEF IInv
<1>3. /\ job' \in [Target -> JobType] /\ installed' \in [Target -> Tool]
      /\ archive' \in [Target -> Archive] /\ dir' \in [Target -> [File -> Paper]]
  BY <1>1 DEF IInv, Typing
<1>4. QED
  BY <1>1, <1>2, <1>3, MishapStep

\* EditClone: the reports that were written stay as they are.
LEMMA EditCloneStep ==
  ASSUME IInv, NEW t \in Target, EditClone(t)
  PROVE  IInv'
<1>1. /\ Mishap /\ job[t].pc \in {"reported", "sampled"}
      /\ UNCHANGED <<repo, runs, jobs, tmp, installed, archive, bundles, dir, coll>>
  BY DEF EditClone
<1>2. PICK v \in Tree : job' = [job EXCEPT ![t].tree = v]
  BY DEF EditClone
<1>3. PICK j, k : j = job[t] /\ k = job'[t]
  OBVIOUS
<1>4. j \in JobType /\ JobOK(t, j)
  BY <1>3, JobIs
<1>5. k = [j EXCEPT !.tree = v] /\ \A u \in Target \ {t} : job'[u] = job[u]
  BY <1>2, <1>3 DEF IInv, Typing
<1>6. /\ k \in JobType /\ k.pc = j.pc /\ k.run = j.run /\ k.commit = j.commit /\ k.tree = v
      /\ k.report = j.report /\ k.sample = j.sample
  BY <1>4, <1>5 DEF JobType
<1>7. job' \in [Target -> JobType]
  BY <1>2, <1>3, <1>6 DEF IInv, Typing
<1>8. mishaps' # 0
  BY <1>1 DEF Mishap, IInv, Typing
<1>9. JobOK(t, k)'
  BY <1>1, <1>3, <1>4, <1>6, <1>8
  DEF JobOK, Origins, GoodReport, GoodSample, verify_identity, approved_artifact, RowOf
<1>10. JobsOK'
  <2>1. JobOK(t, job[t])'
    BY <1>3, <1>9
  <2>2. ASSUME NEW u \in Target, u # t
        PROVE  JobOK(u, job[u])'
    <3>1. PICK i : i = job[u] /\ i = job'[u]
      BY <1>5, <2>2
    <3>2. Calm
      BY <1>1, <1>8 DEF Calm
    <3>3. JobOK(u, i)'
      BY <1>1, <3>1, <3>2, JobKept DEF IInv, JobsOK
    <3>4. QED
      BY <3>1, <3>3
  <2>3. QED
    BY <2>1, <2>2 DEF JobsOK
<1>11. /\ repo' \in Tree /\ installed' \in [Target -> Tool]
       /\ archive' \in [Target -> Archive] /\ dir' \in [Target -> [File -> Paper]]
  BY <1>1 DEF IInv, Typing
<1>12. DirOK'
  BY <1>1, DirKept DEF IInv
<1>13. QED
  BY <1>1, <1>7, <1>10, <1>11, <1>12, MishapStep

\* Upgrade and Reprovision.
LEMMA MachineChangeStep ==
  ASSUME IInv, NEW t \in Target, Upgrade(t) \/ Reprovision(t)
  PROVE  IInv'
<1>1. Mishap /\ UNCHANGED <<repo, runs, job, jobs, tmp, bundles, dir, coll>>
  BY DEF Upgrade, Reprovision
<1>2. JobsOK' /\ DirOK'
  BY <1>1, JobsKept, DirKept DEF IInv
<1>3. installed' \in [Target -> Tool] /\ archive' \in [Target -> Archive]
  <2>1. CASE Upgrade(t)
    BY <2>1 DEF Upgrade, IInv, Typing
  <2>2. CASE Reprovision(t)
    BY <2>2 DEF Reprovision, IInv, Typing
  <2>3. QED
    BY <2>1, <2>2
<1>4. repo' \in Tree /\ job' \in [Target -> JobType] /\ dir' \in [Target -> [File -> Paper]]
  BY <1>1 DEF IInv, Typing
<1>5. QED
  BY <1>1, <1>2, <1>3, <1>4, MishapStep

\* What may be put into the directory.
LEMMA FilesArePapers ==
  ASSUME IInv, NEW b \in bundles \cup {NoFiles}
  PROVE  /\ b \in [File -> Paper]
         /\ b["provenance"] # Nothing => Written(b["provenance"])
<1>1. CASE b \in bundles
  <2>1. b \in Bundle
    BY <1>1 DEF IInv, Typing
  <2>2. b \in [File -> Paper]
    BY <2>1 DEF Bundle, File, Paper
  <2>3. QED
    BY <1>1, <2>2 DEF Written
<1>2. CASE b = NoFiles
  BY <1>2 DEF NoFiles, Paper, File
<1>3. QED
  BY <1>1, <1>2

\* Swap: what is put in is of a bundle, or missing.
LEMMA SwapStep ==
  ASSUME IInv, NEW t \in Target, Swap(t)
  PROVE  IInv'
<1>1. Mishap /\ UNCHANGED <<repo, runs, job, jobs, tmp, installed, archive, bundles, coll>>
  BY DEF Swap, machines
<1>2. PICK b \in bundles \cup {NoFiles}, f \in StillToRead(t) : dir' = [dir EXCEPT ![t][f] = b[f]]
  BY DEF Swap
<1>3. f \in File
  BY <1>2 DEF StillToRead, File
<1>4. /\ b \in [File -> Paper]
      /\ b["provenance"] # Nothing => Written(b["provenance"])
  BY FilesArePapers
<1>5. dir' \in [Target -> [File -> Paper]]
  BY <1>2, <1>3, <1>4 DEF IInv, Typing
<1>6. \A u \in Target : dir'[u]["provenance"] \in {dir[u]["provenance"], b["provenance"]}
  BY <1>2, <1>3 DEF IInv, Typing, File
<1>7. \A x : Written(x) => Written(x)'
  BY <1>1 DEF Written
<1>8. DirOK'
  BY <1>4, <1>6, <1>7 DEF DirOK, IInv
<1>9. /\ repo' \in Tree /\ job' \in [Target -> JobType] /\ installed' \in [Target -> Tool]
      /\ archive' \in [Target -> Archive]
  BY <1>1 DEF IInv, Typing
<1>10. QED
  BY <1>1, <1>5, <1>8, <1>9, JobsKept, MishapStep

-----------------------------------------------------------------------------
(* The collector                                                            *)

\* A step of the collector, or its start.
LEMMA CollectorStep ==
  ASSUME IInv, UNCHANGED <<repo, runs, machines, bundles, mishaps>>,
         dir' \in [Target -> [File -> Paper]], DirOK',
         coll' \in CollType, CollOK', mishaps = 0 => Quiet'
  PROVE  IInv'
<1>1. /\ UNCHANGED <<repo, runs, job, jobs, tmp, installed, archive, bundles, mishaps>>
  BY DEF machines
<1>2. Calm
  BY <1>1 DEF Calm
<1>3. Typing'
  BY <1>1 DEF IInv, Typing
<1>4. JobsOK'
  <2>1. ASSUME NEW u \in Target
        PROVE  JobOK(u, job[u])'
    <3>1. PICK j : j = job[u] /\ j = job'[u]
      BY <1>1
    <3>2. JobOK(u, j)'
      BY <1>1, <1>2, <3>1, JobKept DEF IInv, JobsOK
    <3>3. QED
      BY <3>1, <3>2
  <2>2. QED
    BY <2>1 DEF JobsOK
<1>5. BundlesOK'
  BY <1>1, <1>2, BundlesKept DEF IInv, BundlesOK
<1>6. QED
  BY <1>1, <1>3, <1>4, <1>5 DEF IInv

\* Gather.
LEMMA GatherStep ==
  ASSUME IInv, Gather
  PROVE  IInv'
<1>1. /\ coll.pc = "idle" /\ coll' = [coll EXCEPT !.pc = "digest", !.tree = repo]
      /\ UNCHANGED <<repo, runs, machines, bundles, mishaps>>
      /\ dir' \in [Target -> bundles \cup {NoFiles}]
      /\ \A t \in Target : IF Candidates(t) = {} THEN dir'[t] = NoFiles ELSE dir'[t] \in Candidates(t)
  BY DEF Gather
<1>2. coll \in CollType /\ repo \in Tree
  BY DEF IInv, Typing
<1>3. /\ coll' \in CollType /\ coll'.pc = "digest" /\ coll'.tree = repo
      /\ coll'.accepted = coll.accepted /\ coll'.verdict = coll.verdict
  BY <1>1, <1>2 DEF CollType, CollStep
<1>4. dir' \in [Target -> [File -> Paper]]
  BY <1>1, FilesArePapers
<1>5. DirOK'
  <2>1. \A t \in Target : dir'[t]["provenance"] # Nothing => Written(dir'[t]["provenance"])
    BY <1>1, FilesArePapers
  <2>2. \A x : Written(x) => Written(x)'
    BY <1>1 DEF Written
  <2>3. QED
    BY <2>1, <2>2 DEF DirOK
<1>6. CollOK'
  <2>1. DOMAIN coll'.accepted = {} /\ coll'.verdict = Nothing
    BY <1>1, <1>3 DEF IInv, CollOK
  <2>2. QED
    BY <1>2, <1>3, <2>1, NothingAssumption DEF CollOK
<1>7. mishaps = 0 => Quiet'
  <2>1. \A t \in Target : dir'[t] = NoFiles \/ dir'[t] \in Candidates(t)'
    BY <1>1 DEF Candidates
  <2>2. QED
    BY <1>1, <1>3, <2>1 DEF IInv, Quiet
<1>8. QED
  BY <1>1, <1>3, <1>4, <1>5, <1>6, <1>7, CollectorStep

\* LoadDocuments and HashDocuments.
LEMMA LoadStep ==
  ASSUME IInv, LoadDocuments \/ HashDocuments
  PROVE  IInv'
<1>1. /\ UNCHANGED <<repo, runs, machines, bundles, dir, mishaps>>
      /\ coll.pc \in {"digest", "loaded"}
  BY DEF LoadDocuments, HashDocuments
<1>2. coll \in CollType /\ repo \in Tree /\ CatalogOf[repo] \in Catalog /\ ProfileOf[repo] \in Profile
  BY DEF IInv, Typing, Catalog, Profile
<1>3. /\ coll' \in CollType /\ coll'.tree = coll.tree
      /\ coll'.accepted = coll.accepted /\ coll'.verdict = coll.verdict
      /\ \/ coll.pc = "digest" /\ coll'.pc = "loaded" /\ coll'.catalog = CatalogOf[repo]
         \/ /\ coll.pc = "loaded" /\ coll'.pc = "hashed" /\ coll'.catalog = coll.catalog
            /\ coll'.hashed = CatalogOf[repo] /\ coll'.profile = ProfileOf[repo]
  BY <1>2 DEF LoadDocuments, HashDocuments, CollType, CollStep
<1>4. CollOK'
  <2>1. DOMAIN coll'.accepted = {} /\ coll'.verdict = Nothing
    BY <1>1, <1>3 DEF IInv, CollOK
  <2>2. coll'.tree \in Tree
    BY <1>1, <1>3 DEF IInv, CollOK
  <2>3. QED
    BY <1>3, <2>1, <2>2, NothingAssumption DEF CollOK
<1>5. mishaps = 0 => Quiet'
  BY <1>1, <1>3 DEF IInv, Quiet, Candidates
<1>6. dir' \in [Target -> [File -> Paper]] /\ DirOK'
  BY <1>1, DirKept DEF IInv, Typing
<1>7. QED
  BY <1>1, <1>3, <1>4, <1>5, <1>6, CollectorStep

\* A verdict of blocked is harmless, unless nothing was changed and all reports passed.
LEMMA BlockStep ==
  ASSUME IInv, Block, UNCHANGED <<repo, runs, machines, bundles, dir, mishaps>>,
         coll.pc # "idle", mishaps = 0 => ~ Honest
  PROVE  IInv'
<1>1. coll \in CollType
  BY DEF IInv, Typing
<1>2. /\ coll' \in CollType /\ coll'.pc = "done" /\ coll'.verdict = "blocked"
      /\ coll'.accepted = coll.accepted /\ coll'.tree = coll.tree /\ coll'.mode = coll.mode
      /\ coll'.provenance = coll.provenance /\ coll'.catalog = coll.catalog
      /\ coll'.hashed = coll.hashed /\ coll'.profile = coll.profile
  BY <1>1 DEF Block, CollType, CollStep
<1>3. CollOK'
  <2>1. \A t : AcceptedOK(t) => AcceptedOK(t)'
    BY <1>2, AcceptedKept
  <2>2. QED
    BY <1>2, <2>1, NothingAssumption DEF IInv, CollOK
<1>4. mishaps = 0 => Quiet'
  BY <1>2 DEF IInv, Quiet, Candidates, Honest
<1>5. dir' \in [Target -> [File -> Paper]] /\ DirOK'
  BY DirKept DEF IInv, Typing
<1>6. QED
  BY <1>2, <1>3, <1>4, <1>5, CollectorStep

\* The files of honest machines: what they are, and where they come from.
LEMMA HonestFiles ==
  ASSUME IInv, mishaps = 0, Honest, coll.pc # "idle", NEW t \in Target
  PROVE  /\ dir[t] \in bundles /\ dir[t] \in Bundle /\ Bound(dir[t])
         /\ dir[t].provenance.target = t /\ dir[t].sample.status = "passed"
         /\ dir[t].sample.tree = repo /\ coll.tree = repo
<1>1. coll.tree = repo /\ dir[t] \in Candidates(t) /\ dir[t].sample.status = "passed"
  BY DEF IInv, Quiet, Honest
<1>2. dir[t] \in bundles /\ dir[t].provenance.target = t
  BY <1>1 DEF Candidates
<1>3. dir[t] \in Bundle /\ Bound(dir[t])
  BY <1>2 DEF IInv, Typing, BundlesOK
<1>4. dir[t].sample.tree = repo
  BY <1>3 DEF Bound
<1>5. QED
  BY <1>1, <1>2, <1>3, <1>4

\* They have all their files, and one mode.
LEMMA HonestHaveMode ==
  ASSUME IInv, mishaps = 0, Honest, coll.pc # "idle"
  PROVE  /\ \A t \in Target : validate_exact_files(t)
         /\ determine_collection_mode({dir[t].provenance : t \in Target}) # {}
<1>1. \A t \in Target : /\ dir[t] \in Bundle /\ Bound(dir[t])
  BY HonestFiles
<1>2. ASSUME NEW t \in Target
      PROVE  validate_exact_files(t)
  <2>1. /\ dir[t].profile \in ProfileReport /\ dir[t].sample \in SampleReport
        /\ dir[t].provenance \in ProvenanceReport
    BY <1>1 DEF Bundle
  <2>2. dir[t].profile # Nothing /\ dir[t].sample # Nothing /\ dir[t].provenance # Nothing
    BY <2>1, NothingAssumption
  <2>3. QED
    BY <2>2 DEF validate_exact_files, File
<1> DEFINE records == {dir[t].provenance : t \in Target}
           R == {dir[t].provenance.run : t \in Target}
<1>3. PICK origin : R = {origin}
  <2>1. IsFiniteSet(R)
    <3>1. [t \in Target |-> dir[t].provenance.run] \in Surjection(Target, R)
      BY DEF Surjection
    <3>2. QED
      BY <3>1, MachineAssumption, FS_Surjection
  <2>2. Cardinality(R) = 1
    BY DEF Honest
  <2>3. QED
    BY <2>1, <2>2, FS_Singleton
<1>4. PICK u \in Target : TRUE
  BY <1>3
<1>5. \A t \in Target : dir[t].provenance.run = origin
  BY <1>3
<1>6. {r.run : r \in records} = R
  OBVIOUS
<1>7. \A t \in Target : /\ dir[t].provenance.reviewed = (origin = Manual)
                        /\ dir[t].provenance.reviewed => dir[t].provenance.transfer # Nothing
  <2>1. SUFFICES ASSUME NEW t \in Target
                 PROVE  /\ dir[t].provenance.reviewed = (origin = Manual)
                        /\ dir[t].provenance.reviewed => dir[t].provenance.transfer # Nothing
    OBVIOUS
  <2>2. Bound(dir[t])
    BY <1>1
  <2>3. /\ dir[t].provenance.reviewed = (origin = Manual)
        /\ dir[t].provenance.reviewed =>
             dir[t].provenance.transfer =
               compute_manual_transfer_sha256(dir[t].profile, dir[t].sample, dir[t].provenance)
    BY <1>5, <2>2 DEF Bound
  <2>4. dir[t].provenance.transfer \in TransferHash \cup {Nothing}
    BY <1>1 DEF Bundle, ProvenanceReport, ProvenanceWith
  <2>5. compute_manual_transfer_sha256(dir[t].profile, dir[t].sample, dir[t].provenance) \in TransferHash
    <3>1. /\ dir[t].profile \in ProfileReport /\ dir[t].sample \in SampleReport
          /\ dir[t].provenance \in ProvenanceReport
      BY <1>1 DEF Bundle
    <3>2. [dir[t].provenance EXCEPT !.transfer = Nothing] \in ProvenanceWith({Nothing})
      BY <3>1 DEF ProvenanceReport, ProvenanceWith
    <3>3. QED
      BY <3>1, <3>2 DEF compute_manual_transfer_sha256, TransferHash
  <2>6. QED
    BY <2>3, <2>5, NothingAssumption
<1>8. determine_collection_mode(records) # {}
  <2>1. CASE origin = Manual
    <3>1. dir[u].provenance \in records /\ dir[u].provenance.reviewed
      BY <1>4, <1>7, <2>1
    <3>2. \A r \in records : r.reviewed /\ r.run = Manual /\ r.transfer # Nothing
      BY <1>5, <1>7, <2>1
    <3> HIDE DEF records
    <3>3. QED
      BY <3>1, <3>2 DEF determine_collection_mode
  <2>2. CASE origin # Manual
    <3>1. \A r \in records : ~r.reviewed /\ r.run # Manual
      BY <1>5, <1>7, <2>2
    <3>2. Cardinality({r.run : r \in records}) = 1
      BY <1>6 DEF Honest
    <3> HIDE DEF records
    <3>3. QED
      BY <3>1, <3>2 DEF determine_collection_mode
  <2>3. QED
    BY <2>1, <2>2
<1>9. QED
  BY <1>2, <1>8

\* The mode that was determined says where the records come from.
LEMMA ModeIs ==
  ASSUME NEW records, NEW m \in determine_collection_mode(records)
  PROVE  \/ m = "workflow" /\ Cardinality({r.run : r \in records}) = 1
         \/ m = "manual" /\ \A r \in records : r.reviewed
BY DEF determine_collection_mode

\* ReadProvenance: honest records have a mode.
LEMMA ReadProvenanceStep ==
  ASSUME IInv, ReadProvenance
  PROVE  IInv'
<1> DEFINE records == {dir[t].provenance : t \in Target}
           modes == determine_collection_mode(records)
<1>1. coll.pc = "hashed" /\ UNCHANGED <<repo, runs, machines, bundles, dir, mishaps>>
  BY DEF ReadProvenance
<1>2. CASE Block
  <2>1. CASE mishaps = 0 /\ Honest
    <3>1. (\A t \in Target : validate_exact_files(t)) /\ modes # {}
      BY <1>1, <2>1, HonestHaveMode
    <3>2. coll' = [coll EXCEPT !.pc = "targets", !.mode = CHOOSE m \in modes : TRUE,
                               !.provenance = [t \in Target |-> dir[t].provenance]]
      BY <3>1 DEF ReadProvenance
    <3>3. coll'.pc = "done" /\ coll'.pc = "targets"
      BY <1>2, <3>2 DEF Block, IInv, Typing, CollType
    <3>4. QED
      BY <3>3
  <2>2. QED
    BY <1>1, <1>2, <2>1, BlockStep
<1>3. CASE ~ Block
  <2>1. PICK m, provenance :
          m = (CHOOSE x \in modes : TRUE) /\ provenance = [t \in Target |-> dir[t].provenance]
    OBVIOUS
  <2>2. /\ \A t \in Target : validate_exact_files(t)
        /\ modes # {}
        /\ coll' = [coll EXCEPT !.pc = "targets", !.mode = m, !.provenance = provenance]
    BY <1>3, <2>1 DEF ReadProvenance
  <2>3. m \in modes
    BY <2>1, <2>2
  <2>4. \/ m = "workflow" /\ Cardinality({r.run : r \in records}) = 1
        \/ m = "manual" /\ \A r \in records : r.reviewed
    BY <2>3, ModeIs
  <2>5. \A t \in Target : provenance[t] = dir[t].provenance /\ Written(provenance[t])
    BY <2>1, <2>2 DEF validate_exact_files, File, IInv, DirOK
  <2>6. provenance \in [Target -> ProvenanceReport]
    BY <2>1, <2>5 DEF Written, Bundle, IInv, Typing
  <2>7. /\ coll' \in CollType /\ coll'.pc = "targets" /\ coll'.mode = m
        /\ coll'.provenance = provenance /\ coll'.tree = coll.tree
        /\ coll'.accepted = coll.accepted /\ coll'.verdict = coll.verdict
        /\ coll'.catalog = coll.catalog /\ coll'.hashed = coll.hashed
        /\ coll'.profile = coll.profile
    BY <2>2, <2>4, <2>6 DEF IInv, Typing, CollType, CollStep
  <2>8. {r.run : r \in records} = OriginsOf(provenance)
    BY <2>5 DEF OriginsOf
  <2>9. ModeOK'
    <3>1. \A t \in Target : Written(provenance[t])'
      BY <1>1, <2>5 DEF Written
    <3>2. \/ m = "workflow" /\ Cardinality(OriginsOf(provenance)) = 1
          \/ m = "manual" /\ \A t \in Target : provenance[t].reviewed
      BY <2>4, <2>5, <2>8
    <3>3. OriginsOf(coll'.provenance) = OriginsOf(provenance)
      BY <2>7
    <3>4. QED
      BY <2>6, <2>7, <3>1, <3>2, <3>3 DEF ModeOK, OriginsOf
  <2>10. CollOK'
    <3>1. DOMAIN coll'.accepted = {} /\ coll'.verdict = Nothing /\ coll'.tree \in Tree
      BY <1>1, <2>7 DEF IInv, CollOK
    <3>2. QED
      BY <2>7, <2>9, <3>1, NothingAssumption DEF CollOK
  <2>11. mishaps = 0 => Quiet'
    BY <1>1, <2>1, <2>7 DEF IInv, Quiet, Candidates
  <2>12. dir' \in [Target -> [File -> Paper]] /\ DirOK'
    BY <1>1, DirKept DEF IInv, Typing
  <2>13. QED
    BY <1>1, <2>7, <2>10, <2>11, <2>12, CollectorStep
<1>4. QED
  BY <1>2, <1>3

\* What honest machines wrote proves what the collector wants to see.
LEMMA HonestProven ==
  ASSUME IInv, mishaps = 0, Honest, coll.pc = "targets", NEW t \in Target
  PROVE  Proven(t, coll.provenance[t], dir[t].profile, dir[t].sample)
<1>1. PICK b : b = dir[t]
  OBVIOUS
<1>2. /\ b \in bundles /\ b \in Bundle /\ Bound(b) /\ b.provenance.target = t
      /\ b.sample.status = "passed" /\ b.sample.tree = repo /\ coll.tree = repo /\ repo \in Tree
  BY <1>1, HonestFiles DEF IInv, Typing
<1>3. /\ coll.catalog = CatalogOf[repo] /\ coll.hashed = CatalogOf[repo]
      /\ coll.profile = ProfileOf[repo] /\ coll.provenance[t] = b.provenance
  BY <1>1 DEF IInv, Quiet
<1>4. /\ b.sample.profile = ProfileOf[repo] /\ Gate[b.sample.profile]
      /\ b.sample.by = b.sample.tool /\ verify_identity(b.profile, ProfileOf[repo])
      /\ AllPassed[b.sample.by][b.sample.catalog] /\ b.sample.catalog = CatalogOf[repo]
      /\ b.sample.target = b.profile.target /\ b.sample.profile = b.profile.profile
      /\ b.sample.row = b.profile.row /\ b.sample.tool = b.profile.tool
  BY <1>2 DEF Bound, GoodSample
<1>5. b.profile # Nothing /\ b.sample # Nothing
  <2>1. b.profile \in ProfileReport /\ b.sample \in SampleReport
    BY <1>2 DEF Bundle
  <2>2. QED
    BY <2>1, NothingAssumption
<1>6. /\ b.provenance.profile = b.profile /\ b.provenance.sample = b.sample
      /\ b.provenance.target = b.profile.target /\ b.provenance.tree = repo
      /\ b.provenance.commit = b.sample.commit
  BY <1>2 DEF Bound
<1>7. SameEvidence(repo, coll.tree)
  BY <1>2 DEF SameEvidence
<1>8. validate_provenance_identity(t, b.provenance, b.profile, b.sample)
  BY <1>2, <1>6, <1>7 DEF validate_provenance_identity
<1>9. TransferMatches(b.provenance, b.profile, b.sample)
  <2>1. SUFFICES ASSUME coll.mode = "manual"
                 PROVE  b.provenance.transfer =
                          compute_manual_transfer_sha256(b.profile, b.sample, b.provenance)
    BY DEF TransferMatches
  <2>2. b.provenance.reviewed
    BY <1>3, <2>1 DEF IInv, CollOK, ModeOK
  <2>3. QED
    BY <1>2, <2>2 DEF Bound
<1>10. ReportsAgree(t, b.provenance, b.profile, b.sample)
  BY <1>2, <1>3, <1>4, <1>6, <1>7 DEF ReportsAgree
<1>11. validate_run_report_inputs(b.sample)
  <2>1. b.sample.by \in Tool /\ CatalogOf[repo] \in Catalog
    BY <1>2 DEF Bundle, SampleReport, Catalog
  <2>2. Holds[b.sample.by][CatalogOf[repo]][CatalogOf[repo]]
    BY <1>4, <2>1, AllPassedHold
  <2>3. QED
    BY <1>2, <1>3, <1>4, <2>2 DEF validate_run_report_inputs
<1>12. Gate[coll.profile] /\ verify_identity(b.profile, coll.profile)
  BY <1>3, <1>4
<1>13. Proven(t, b.provenance, b.profile, b.sample)
  BY <1>5, <1>8, <1>9, <1>10, <1>11, <1>12 DEF Proven
<1>14. QED
  BY <1>1, <1>3, <1>13

\* CollectTarget: what is proven is a bundle; honest files are proven.
LEMMA CollectTargetStep ==
  ASSUME IInv, NEW t \in Target, CollectTarget(t)
  PROVE  IInv'
<1>1. /\ coll.pc = "targets" /\ t \notin DOMAIN coll.accepted
      /\ UNCHANGED <<repo, runs, machines, bundles, dir, mishaps>>
  BY DEF CollectTarget
<1>2. CASE ~ Proven(t, coll.provenance[t], dir[t].profile, dir[t].sample)
  <2>1. Block
    BY <1>2 DEF CollectTarget
  <2>2. mishaps = 0 => ~ Honest
    BY <1>1, <1>2, HonestProven
  <2>3. QED
    BY <1>1, <2>1, <2>2, BlockStep
<1>3. CASE Proven(t, coll.provenance[t], dir[t].profile, dir[t].sample)
  <2>1. PICK a : a = [profile |-> dir[t].profile, sample |-> dir[t].sample,
                      provenance |-> coll.provenance[t]]
    OBVIOUS
  <2>2. PICK accepted :
          accepted = [u \in DOMAIN coll.accepted \cup {t} |-> IF u = t THEN a ELSE coll.accepted[u]]
    OBVIOUS
  <2>3. coll \in CollType /\ ModeOK /\ coll.verdict = Nothing /\ coll.tree \in Tree
    BY <1>1 DEF IInv, Typing, CollOK
  <2>4. coll' = [coll EXCEPT !.accepted = accepted]
    BY <1>3, <2>1, <2>2, <2>3 DEF CollectTarget, CollType
  <2>5. /\ a.profile = dir[t].profile /\ a.sample = dir[t].sample
        /\ a.provenance = coll.provenance[t]
    BY <2>1
  <2>6. a \in bundles /\ a \in Bundle
    <3>1. PICK b \in bundles : coll.provenance[t] = b.provenance
      BY <2>3 DEF ModeOK, Written
    <3>2. b \in Bundle /\ b.provenance.profile = b.profile /\ b.provenance.sample = b.sample
      BY <3>1 DEF IInv, Typing, BundlesOK, Bound
    <3>3. a.profile = b.profile /\ a.sample = b.sample /\ a.provenance = b.provenance
      BY <1>3, <2>5, <3>1, <3>2 DEF Proven, validate_provenance_identity
    <3>4. a = b
      BY <2>1, <3>2, <3>3 DEF Bundle
    <3>5. QED
      BY <3>1, <3>2, <3>4
  <2>7. /\ DOMAIN accepted = DOMAIN coll.accepted \cup {t} /\ accepted[t] = a
        /\ \A u \in DOMAIN coll.accepted : accepted[u] = coll.accepted[u]
    BY <1>1, <2>2
  <2>8. accepted \in UNION {[S -> Bundle] : S \in SUBSET Target}
    <3>1. PICK S \in SUBSET Target : coll.accepted \in [S -> Bundle]
      BY <2>3 DEF CollType
    <3>2. accepted \in [S \cup {t} -> Bundle] /\ S \cup {t} \in SUBSET Target
      BY <2>2, <2>6, <3>1
    <3>3. QED
      BY <3>2
  <2>9. /\ coll' \in CollType /\ coll'.pc = "targets" /\ coll'.accepted = accepted
        /\ coll'.tree = coll.tree /\ coll'.mode = coll.mode /\ coll'.verdict = coll.verdict
        /\ coll'.provenance = coll.provenance /\ coll'.catalog = coll.catalog
        /\ coll'.hashed = coll.hashed /\ coll'.profile = coll.profile
    BY <1>1, <2>3, <2>4, <2>8 DEF CollType
  <2>10. \A u \in DOMAIN coll'.accepted : AcceptedOK(u)'
    <3>1. AcceptedOK(t)'
      <4>1. Proven(t, a.provenance, a.profile, a.sample)
        BY <1>3, <2>5
      <4>2. Proven(t, a.provenance, a.profile, a.sample)'
        BY <2>9, <4>1, ProvenKept
      <4>3. a \in bundles' /\ a.provenance = coll'.provenance[t] /\ coll'.accepted[t] = a
        BY <1>1, <2>5, <2>6, <2>7, <2>9
      <4>4. QED
        BY <4>2, <4>3 DEF AcceptedOK
    <3>2. ASSUME NEW u \in DOMAIN coll.accepted
          PROVE  AcceptedOK(u)'
      BY <1>1, <2>7, <2>9, AcceptedKept DEF IInv, CollOK
    <3>3. QED
      BY <2>7, <2>9, <3>1, <3>2
  <2>11. ModeOK'
    BY <1>1, <2>3, <2>9, ModeKept
  <2>12. CollOK'
    BY <2>3, <2>9, <2>10, <2>11, NothingAssumption DEF CollOK
  <2>13. mishaps = 0 => Quiet'
    BY <1>1, <2>9 DEF IInv, Quiet, Candidates
  <2>14. dir' \in [Target -> [File -> Paper]] /\ DirOK'
    BY <1>1, DirKept DEF IInv, Typing
  <2>15. QED
    BY <1>1, <2>9, <2>12, <2>13, <2>14, CollectorStep
<1>4. QED
  BY <1>2, <1>3

\* Aggregate.
LEMMA AggregateStep ==
  ASSUME IInv, Aggregate
  PROVE  IInv'
<1>1. /\ coll.pc = "targets" /\ DOMAIN coll.accepted = Target
      /\ UNCHANGED <<repo, runs, machines, bundles, dir, mishaps>>
  BY DEF Aggregate
<1>2. /\ coll' \in CollType /\ coll'.pc = "done" /\ coll'.verdict = "passed"
      /\ coll'.accepted = coll.accepted /\ coll'.tree = coll.tree /\ coll'.mode = coll.mode
      /\ coll'.provenance = coll.provenance /\ coll'.catalog = coll.catalog
      /\ coll'.hashed = coll.hashed /\ coll'.profile = coll.profile
  BY DEF Aggregate, IInv, Typing, CollType, CollStep
<1>3. ModeOK' /\ \A t : AcceptedOK(t) => AcceptedOK(t)'
  BY <1>1, <1>2, ModeKept, AcceptedKept DEF IInv, CollOK
<1>4. CollOK'
  BY <1>1, <1>2, <1>3 DEF IInv, CollOK
<1>5. mishaps = 0 => Quiet'
  BY <1>1, <1>2 DEF IInv, Quiet, Candidates
<1>6. dir' \in [Target -> [File -> Paper]] /\ DirOK'
  BY <1>1, DirKept DEF IInv, Typing
<1>7. QED
  BY <1>1, <1>2, <1>4, <1>5, <1>6, CollectorStep

-----------------------------------------------------------------------------
(* The theorems                                                             *)

\* The invariant holds at first.
LEMMA InitInv ==
  ASSUME Init
  PROVE  IInv
<1>1. coll = [pc |-> "idle", tree |-> Nothing, catalog |-> Nothing, hashed |-> Nothing,
              profile |-> Nothing, mode |-> Nothing, provenance |-> Nothing,
              accepted |-> <<>>, verdict |-> Nothing]
  BY DEF Init
<1>2. <<>> \in UNION {[S -> Bundle] : S \in SUBSET Target} /\ DOMAIN <<>> = {}
  <2>1. <<>> \in [{} -> Bundle] /\ {} \in SUBSET Target
    OBVIOUS
  <2>2. QED
    BY <2>1
<1>3. /\ coll \in CollType /\ coll.pc = "idle" /\ coll.accepted = <<>> /\ coll.verdict = Nothing
  BY <1>1, <1>2 DEF CollType, CollStep
<1>4. repo \in Tree /\ runs \in Seq(Tree) /\ bundles = {} /\ mishaps = 0 /\ runs = <<>>
  BY MachineAssumption DEF Init
<1>5. job \in [Target -> JobType] /\ \A t \in Target : job[t] = Idle
  BY DEF Init, Idle, JobType, Step, AnyRow
<1>6. dir \in [Target -> [File -> Paper]] /\ \A t \in Target : dir[t].provenance = Nothing
  BY DEF Init, Empty, NoFiles, File, Paper
<1>7. Typing
  BY <1>3, <1>4, <1>5, <1>6, MachineAssumption, BoundsAssumption DEF Init, Typing
<1>8. JobsOK
  BY <1>5 DEF JobsOK, JobOK, Idle, Origins
<1>9. BundlesOK /\ DirOK
  BY <1>4, <1>6 DEF BundlesOK, DirOK
<1>10. CollOK
  BY <1>2, <1>3, NothingAssumption DEF CollOK
<1>11. Quiet
  BY <1>3, <1>4 DEF Quiet
<1>12. QED
  BY <1>7, <1>8, <1>9, <1>10, <1>11 DEF IInv

\* Every step of the collector keeps it.
LEMMA CollectStep ==
  ASSUME IInv, Collect
  PROVE  IInv'
<1>1. CASE LoadDocuments \/ HashDocuments
  BY <1>1, LoadStep
<1>2. CASE ReadProvenance
  BY <1>2, ReadProvenanceStep
<1>3. CASE \E t \in Target : CollectTarget(t)
  BY <1>3, CollectTargetStep
<1>4. CASE Aggregate
  BY <1>4, AggregateStep
<1>5. QED
  BY <1>1, <1>2, <1>3, <1>4 DEF Collect

\* Every step of a job, and what happens to it from outside, keeps it.
LEMMA TargetStep ==
  ASSUME IInv, NEW t \in Target, StartInRun(t) \/ StartByHand(t) \/ Program(t) \/ Outside(t)
  PROVE  IInv'
<1>1. CASE StartInRun(t) \/ StartByHand(t)
  BY <1>1, StartInRunStep, StartByHandStep
<1>2. CASE Program(t)
  BY <1>2, OpenStep, CollectFromArchiveStep, TimeOutStep, SampleStep, BindStep DEF Program
<1>3. CASE Outside(t)
  BY <1>3, EditCloneStep, MachineChangeStep, SwapStep DEF Outside
<1>4. QED
  BY <1>1, <1>2, <1>3

\* So does a step that changes nothing.
LEMMA StutterStep ==
  ASSUME IInv, UNCHANGED vars
  PROVE  IInv'
<1>1. /\ UNCHANGED <<repo, runs, machines, bundles, dir, mishaps>> /\ coll' = coll
      /\ runs' = runs /\ bundles' = bundles /\ dir' = dir /\ repo' = repo
  BY DEF vars
<1>2. coll' \in CollType /\ dir' \in [Target -> [File -> Paper]]
  BY <1>1 DEF IInv, Typing
<1>3. DirOK' /\ CollOK'
  BY <1>1, DirKept, CollKept DEF IInv
<1>4. mishaps = 0 => Quiet'
  BY <1>1, QuietKept DEF IInv
<1>5. QED
  BY <1>1, <1>2, <1>3, <1>4, CollectorStep

\* The invariant holds of every execution.
LEMMA Invariance == Spec => []IInv
<1>1. Init => IInv
  BY InitInv
<1>2. IInv /\ [Next]_vars => IInv'
  <2>1. ASSUME IInv, Next
        PROVE  IInv'
    BY <2>1, DispatchStep, EditRepoStep, GatherStep, CollectStep, TargetStep DEF Next
  <2>2. QED
    BY <2>1, StutterStep
<1>3. QED
  BY <1>1, <1>2, PTL DEF Spec

\* Every variable keeps its type, and what a job has written is a report.
THEOREM Typed == Spec => []TypeOK
<1>1. IInv => TypeOK
  BY InvIsTyped
<1>2. QED
  BY <1>1, Invariance, PTL

\* An accepted collection proves support (collect, validate_provenance_identity), whatever the
\* number of targets, runs and jobs, and whatever was edited, installed, provisioned or exchanged.
THEOREM AggregatesAreSound == Spec => []AggregateIsSound
<1>1. IInv => AggregateIsSound
  BY InvIsSound
<1>2. QED
  BY <1>1, Invariance, PTL

\* Reports that passed are never refused where nothing was changed from outside: what
\* fluxform-ffmpeg-profile, run_manifest_samples and the transfer write, the collector accepts.
THEOREM HonestReportsAreAccepted == Spec => []HonestIsAccepted
<1>1. IInv => HonestIsAccepted
  BY InvIsHonest
<1>2. QED
  BY <1>1, Invariance, PTL

=============================================================================
