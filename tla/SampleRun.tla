----------------------------- MODULE SampleRun -----------------------------
(***************************************************************************)
(* One sample of the capability corpus, run by run_manifest_samples: what  *)
(* ffprobe shows of a file, the checks of the input, the classes of        *)
(* invalid samples, the conversion, the checks of the output, the result   *)
(* that is reported, and the check the collector makes of it afterwards.   *)
(*                                                                         *)
(* A file is a record of what these checks read of it:                     *)
(*   container, codecs, audio (number of audio streams), video (of video   *)
(*   streams), frames (nb_read_frames), dim, ms, pixel (pix_fmt), rotated, *)
(*   tags, blocks (the blocks of a GIF, the chunks of a WebP, the page     *)
(*   chain of a TIFF, the markers of a JPEG, in order).                    *)
(* A sample is a row of samples.toml, an edge one of capabilities-v1.toml; *)
(* a row names its file by the file's hash, that is, by the file.          *)
(***************************************************************************)
EXTENDS Integers, Sequences, FiniteSets

INPUT_DURATION_TOLERANCE_MS == 20
OUTPUT_DURATION_TOLERANCE_MS == 100
ANIMATED == {"gif", "webp", "tiff"}
STILL == {"image2", "jpeg_pipe", "png_pipe", "webp_pipe", "tiff_pipe", "gif"}
Unread == [container |-> "unread"]   \* no observation, and a file whose structure is broken
Difference(a, b) == IF a > b THEN a - b ELSE b - a

----------------------------------------------------------------------------
(* What is observed of a file. *)

FrameCount(file) == file.frames

Topology(file, frames) ==
  CASE file.audio > 0 /\ file.video > 0 -> "single_video_and_audio"
    [] file.audio > 1 /\ file.video = 0 -> "multiple_audio_streams"
    [] file.audio = 1 /\ file.video = 0 -> "single_audio_stream"
    [] file.audio = 0 /\ file.video > 1 -> "multiple_video_streams"
    [] file.audio = 0 /\ file.video <= 1 /\ frames > 1 -> "multiple_video_frames"
    [] file.audio = 0 /\ file.video <= 1 /\ frames <= 1 ->
         IF file.container \in STILL THEN "single_video_frame" ELSE "single_video_stream"

\* Any pixel format with an "a" in its name has alpha, the gray ones too.
HasAlpha(pixel) == pixel \in {"rgba", "bgra", "gray"}

\* Tags of the container and of the muxer are not the user's.
Structural == {"encoder", "major_brand", "handler_name", "vendor_id"}
UserKeys(tags) == tags \ Structural

observed_media(file) ==
  [container |-> file.container, codecs |-> file.codecs,
   topology |-> Topology(file, FrameCount(file)),
   dim |-> IF file.video = 0 THEN 0 ELSE file.dim,
   ms |-> IF file.container \in STILL /\ FrameCount(file) <= 1 /\ file.video = 1
            THEN 0 ELSE file.ms,
   alpha |-> file.video > 0 /\ HasAlpha(file.pixel),
   rotated |-> file.video > 0 /\ file.rotated,
   keys |-> UserKeys(file.tags), frames |-> FrameCount(file)]

\* The images before the trailer of a GIF, if nothing but images and extensions is there.
GifFrames(blocks) ==
  LET ends == {i \in DOMAIN blocks : blocks[i] = "trailer"}
  IN {Cardinality({j \in 1..(i - 1) : blocks[j] = "image"}) :
        i \in {k \in ends : \A j \in 1..(k - 1) : blocks[j] \in {"image", "extension"}}}

\* The ANMF chunks of a WebP that has a canvas.
WebpFrames(blocks) ==
  LET frames == {i \in DOMAIN blocks : blocks[i] = "ANMF"}
  IN IF frames = {} \/ \A i \in DOMAIN blocks : blocks[i] # "VP8X"
       THEN {} ELSE {Cardinality(frames)}

\* The pages of a TIFF: block i of the file is the page at offset i, its value the next offset.
PAGES == 32
TiffPages(blocks) ==
  LET At[n \in 0..PAGES] == IF n = 0 THEN IF blocks = <<>> THEN 0 ELSE 1
                            ELSE IF At[n - 1] \in DOMAIN blocks THEN blocks[At[n - 1]] ELSE 0
      last == {n \in 0..PAGES : At[n] = 0 /\ \A k \in 0..(n - 1) : At[k] \in DOMAIN blocks}
  IN last

FramesInBytes(sample, file) ==
  CASE sample.id = "gif" -> GifFrames(file.blocks)
    [] sample.id = "webp" -> WebpFrames(file.blocks)
    [] sample.id = "tiff" -> TiffPages(file.blocks)

\* {} when the structure of the file is broken.
augment_multiframe_observation(sample, file) ==
  LET seen == observed_media(file)
  IN IF sample.id \notin ANIMATED THEN {seen}
     ELSE {[seen EXCEPT !.frames = n, !.codecs = IF @ = {} /\ sample.id = "webp" THEN {"webp"} ELSE @,
                        !.topology = IF n > 1 THEN "multiple_video_frames"
                                     ELSE "single_video_frame"] :
             n \in FramesInBytes(sample, file)}

----------------------------------------------------------------------------
(* What is expected. *)

container_matches(expected, container) ==
  container \in CASE expected = "m4a" -> {"mov"} [] expected = "mp4" -> {"mov"}
                  [] expected = "jpeg" -> {"jpeg_pipe", "image2"}
                  [] expected = "png" -> {"png_pipe", "image2"}
                  [] expected = "webp" -> {"webp_pipe"}
                  [] expected = "tiff" -> {"tiff_pipe"}
                  [] OTHER -> {expected}

TopologyOf(category) ==
  CASE category = "audio" -> "single_audio_stream"
    [] category = "image" -> "single_video_frame"
    [] category = "video" -> "single_video_stream"

Least(a, b) == IF a < b THEN a ELSE b

expected_output(edge, sample) ==
  [container |-> edge.output, codecs |-> {edge.codec}, topology |-> TopologyOf(edge.category),
   dim |-> sample.dim, maxDim |-> edge.maxDim, ms |-> sample.ms,
   maxMs |-> Least(edge.maxMs, IF sample.ms = 0 THEN edge.maxMs
                               ELSE sample.ms + OUTPUT_DURATION_TOLERANCE_MS),
   alpha |-> edge.alpha, orientation |-> edge.orientation, metadata |-> edge.metadata]

\* The arguments that decide what the output looks like, and the file they name.
build_ffmpeg_arguments(edge, sample) ==
  [input |-> sample.id, output |-> <<edge.id, sample.id>>, codec |-> edge.codec,
   autorotate |-> edge.category # "audio" /\ edge.orientation = "apply_to_pixels",
   metadata |-> edge.metadata = "preserve", muxer |-> edge.output]

\* A sample's declaration against what is observed of its file.
validate_sample_input(sample, edge, seen) ==
  /\ container_matches(sample.container, seen.container)
  /\ \/ sample.id \in ANIMATED \/ seen.container = edge.demuxer
     \/ sample.id = "truncated" /\ seen.container = "image2"
  /\ sample.codecs = seen.codecs
  /\ seen.topology = sample.topology
  /\ seen.dim = sample.dim
  /\ Difference(seen.ms, sample.ms) <= INPUT_DURATION_TOLERANCE_MS
  /\ sample.alpha # "not_applicable" => (seen.alpha <=> sample.alpha = "present")
  /\ sample.orientation # "not_applicable" => (seen.rotated <=> sample.orientation = "present")
  /\ (seen.keys # {}) <=> (sample.metadata = "present")
  /\ sample.outcome = "success" => seen.topology = edge.topology

\* The code of a sample that must be refused, {} if it is not invalid in the way it should be.
classify_invalid_sample(sample, edge, file, seen) ==
  CASE sample.error = "unsupported_input" ->
         IF \E c \in sample.codecs : c # edge.input THEN {"unsupported_input"} ELSE {}
    [] sample.error = "invalid_input" ->
         IF /\ sample.container = "jpeg"
            /\ (file.blocks = <<>> \/ file.blocks[Len(file.blocks)] # "end" \/ seen.dim = 0)
           THEN {"invalid_input"} ELSE {}
    [] sample.error = "unsupported_conversion" ->
         IF sample.id \in ANIMATED /\ seen.frames >= 2 THEN {"unsupported_conversion"} ELSE {}

SafeImageKeys == {"orientation", "icc_profile"}

validate_output(expected, seen, sample, input) ==
  /\ container_matches(expected.container, seen.container)
  /\ seen.codecs = expected.codecs
  /\ seen.topology = expected.topology
  /\ seen.dim = expected.dim /\ seen.dim <= expected.maxDim
  /\ sample.ms > 0 => seen.ms <= expected.maxMs
  /\ expected.ms > 0 => Difference(seen.ms, expected.ms) <= OUTPUT_DURATION_TOLERANCE_MS
  /\ sample.alpha # "not_applicable" =>
       (seen.alpha <=> expected.alpha = "preserve_if_present" /\ sample.alpha = "present")
  /\ sample.orientation # "not_applicable" =>
       (seen.rotated <=> expected.orientation = "preserve_tag" /\ sample.orientation = "present")
  /\ seen.keys = CASE expected.metadata = "strip" -> {}
                   [] expected.metadata = "preserve" -> input.keys
                   [] expected.metadata = "safe_image_metadata" -> input.keys \cap SafeImageKeys

----------------------------------------------------------------------------
(* The tools. An ffmpeg either obeys its arguments, or copies the tags it was told to strip, *)
(* or fails.                                                                                 *)

Convert(tool, args, edge, file) ==
  IF tool.convert = "fails" THEN {}
  ELSE {[file EXCEPT
          !.container = CASE edge.output = "mp4" -> "mov" [] edge.output = "m4a" -> "mov"
                          [] edge.output = "png" -> "png_pipe",
          !.codecs = {args.codec},
          !.rotated = @ /\ ~args.autorotate,
          !.tags = (IF args.metadata \/ tool.convert = "keeps_tags" THEN @ ELSE {})
                     \cup {"encoder"}]}

----------------------------------------------------------------------------
(* A result, and how it comes about. *)

build_result(edge, sample) ==
  [edge |-> edge, sample |-> sample.id, file |-> sample.file, outcome |-> sample.outcome,
   error |-> sample.error, expected |-> expected_output(edge, sample),
   args |-> build_ffmpeg_arguments(edge, sample),
   status |-> "blocked", code |-> "", invoked |-> FALSE, input |-> Unread, output |-> Unread]

Failed(result, code, invoked, input, output) ==
  [result EXCEPT !.status = "failed", !.code = code, !.invoked = invoked,
                 !.input = input, !.output = output]
Passed(result, code, invoked, input, output) ==
  [result EXCEPT !.status = "passed", !.code = code, !.invoked = invoked,
                 !.input = input, !.output = output]

\* A sample that must be refused: ffmpeg is never started on it.
ExecuteInvalid(tool, edge, sample, result, seen) ==
  IF classify_invalid_sample(sample, edge, sample.file, seen) = {}
    THEN Failed(result, "sample_validation_failed", FALSE, seen, Unread)
    ELSE Passed(result, sample.error, FALSE, seen, Unread)

ExecuteValid(tool, edge, sample, result, seen) ==
  LET outputs == Convert(tool, result.args, edge, sample.file)
  IN IF outputs = {} THEN Failed(result, "ffmpeg_conversion_failed", TRUE, seen, Unread)
     ELSE LET out == observed_media(CHOOSE f \in outputs : TRUE)
          IN IF validate_output(expected_output(edge, sample), out, sample, seen)
               THEN Passed(result, "", TRUE, seen, out)
               ELSE Failed(result, "output_validation_failed", TRUE, seen, out)

execute_one(tool, edge, sample) ==
  LET result == build_result(edge, sample)
      views == augment_multiframe_observation(sample, sample.file)
  IN IF views = {}
       THEN Failed(result, "sample_validation_failed", FALSE, observed_media(sample.file), Unread)
     ELSE LET seen == CHOOSE v \in views : TRUE
          IN IF ~validate_sample_input(sample, edge, seen)
               THEN Failed(result, "sample_validation_failed", FALSE, seen, Unread)
             ELSE IF sample.outcome = "error" THEN ExecuteInvalid(tool, edge, sample, result, seen)
             ELSE ExecuteValid(tool, edge, sample, result, seen)

----------------------------------------------------------------------------
(* What the collector checks again, of each result and of their set. A catalog is a set of   *)
(* samples, each with the edge that names it; validate_manifest_samples has seen to it that  *)
(* every sample is named once.                                                               *)

EdgeOf(sample) == sample.edge

ResultHolds(result, sample) ==
  /\ result.status = "passed"
  /\ result.edge = EdgeOf(sample) /\ result.file = sample.file
  /\ result.outcome = sample.outcome /\ result.error = sample.error
  /\ result.expected = expected_output(EdgeOf(sample), sample)
  /\ result.args = build_ffmpeg_arguments(EdgeOf(sample), sample)
  /\ result.input # Unread
  /\ sample.outcome = "success" => result.code = "" /\ result.invoked /\ result.output # Unread
  /\ sample.outcome = "error" =>
       result.code = sample.error /\ ~result.invoked /\ result.output = Unread
  /\ validate_sample_input(sample, EdgeOf(sample), result.input)
  /\ sample.outcome = "success" =>
       validate_output(result.expected, result.output, sample, result.input)

ResultsHold(results, catalog) ==
  /\ {r.sample : r \in results} = {s.id : s \in catalog}
  /\ Cardinality(results) = Cardinality(catalog)
  /\ \A s \in catalog : \A r \in results : r.sample = s.id => ResultHolds(r, s)
=============================================================================
