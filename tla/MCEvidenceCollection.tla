------------------------ MODULE MCEvidenceCollection ------------------------
(* Two targets, four contents of the repository: a blocked profile, an      *)
(* approved one, one with another catalog, and one with another version of  *)
(* a package that the runner reaches through a second. Of the executables   *)
(* one obeys its arguments and one keeps the tags it should strip.          *)
EXTENDS EvidenceCollection, TLC

CONSTANTS t1, t2

good == [id |-> "good", convert |-> "obeys"]
leaky == [id |-> "leaky", convert |-> "keeps_tags"]
MCFirstTool == good
MCTool == {good, leaky}

pack(tool) == [tool |-> tool, layout |-> "siblings"]
MCFirstArchive == pack(good)
MCArchive == {pack(good), pack(leaky), [tool |-> good, layout |-> "twice"]}

row(t, id, status, tool) == [id |-> id, target |-> t, status |-> status, tool |-> tool,
                             archive |-> pack(tool)]
MCTree == {"blocked", "open", "tagged", "patched"}
MCFirstTree == {"blocked", "open"}
MCPackage == {"capabilities", "profile_crate", "parser", "desktop"}
MCDepends == [capabilities |-> {"profile_crate"}, profile_crate |-> {"parser"}, parser |-> {},
              desktop |-> {"capabilities"}]
content(profile, catalog, parser) ==
  [profile |-> profile, catalog |-> catalog, capabilities |-> 1, profile_crate |-> 1,
   parser |-> parser, desktop |-> parser]
MCContent == [blocked |-> content("p0", "plain", 1), open |-> content("p1", "plain", 1),
              tagged |-> content("p1", "tags", 1), patched |-> content("p1", "plain", 2)]
MCGate == [p0 |-> FALSE, p1 |-> TRUE]
MCRows ==
  [p0 |-> {row(t1, "a1", "candidate", good), row(t2, "a2", "candidate", good)},
   p1 |-> {row(t1, "a1", "approved", good), row(t2, "a2", "approved", good),
           row(t2, "b2", "candidate", leaky)}]

\* The corpus of testdata/media/v1, or some of it: a video and a codec that is not supported,
\* an image, a truncated one and the three animated ones.
mov == [container |-> "mov", codecs |-> {"h264"}, audio |-> 0, video |-> 1, frames |-> 1, dim |-> 64,
        ms |-> 1000, pixel |-> "yuv", rotated |-> FALSE, tags |-> {"handler_name"}, blocks |-> <<>>]
hevc == [mov EXCEPT !.codecs = {"hevc"}]
titled == [mov EXCEPT !.tags = {"handler_name", "title"}]
jpeg == [mov EXCEPT !.container = "jpeg_pipe", !.codecs = {"mjpeg"}, !.dim = 32, !.ms = 40,
                    !.tags = {}, !.blocks = <<"data", "end">>]
cut == [jpeg EXCEPT !.blocks = <<"data">>]
gif == [jpeg EXCEPT !.container = "gif", !.codecs = {"gif"}, !.frames = 2, !.ms = 1000,
                    !.pixel = "bgra", !.blocks = <<"extension", "image", "image", "trailer">>]
webp == [gif EXCEPT !.container = "webp_pipe", !.codecs = {"webp"},
                    !.blocks = <<"VP8X", "ANMF", "ANMF">>]
tiff == [jpeg EXCEPT !.container = "tiff_pipe", !.codecs = {"tiff"}, !.pixel = "rgba", !.ms = 40,
                     !.blocks = <<2, 0>>]

video == [id |-> "video.mov-to-mp4", category |-> "video", demuxer |-> "mov", input |-> "h264",
          topology |-> "single_video_stream", output |-> "mp4", codec |-> "h264",
          alpha |-> "discard", orientation |-> "apply_to_pixels", metadata |-> "strip",
          maxDim |-> 1080, maxMs |-> 600000]
image == [video EXCEPT !.id = "image.jpeg-to-png", !.category = "image", !.demuxer = "jpeg_pipe",
                       !.input = "mjpeg", !.topology = "single_video_frame", !.output = "png",
                       !.codec = "png", !.alpha = "preserve_if_present",
                       !.metadata = "safe_image_metadata", !.maxDim = 4096]

sample(edge, id, file, container, error) ==
  LET seen == observed_media(file)
  IN [edge |-> edge, id |-> id, file |-> file, container |-> container, codecs |-> file.codecs,
      topology |-> IF id \in ANIMATED THEN "multiple_video_frames" ELSE seen.topology,
      dim |-> file.dim, ms |-> seen.ms, alpha |-> IF seen.alpha THEN "present" ELSE "absent",
      orientation |-> "none", metadata |-> IF seen.keys # {} THEN "present" ELSE "none",
      outcome |-> IF error = "" THEN "success" ELSE "error", error |-> error]

Images == {sample(image, "jpeg", jpeg, "jpeg", ""), sample(image, "truncated", cut, "jpeg", "invalid_input"),
           sample(image, "gif", gif, "gif", "unsupported_conversion"),
           sample(image, "webp", webp, "webp", "unsupported_conversion"),
           sample(image, "tiff", tiff, "tiff", "unsupported_conversion")}
MCSamples ==
  [plain |-> {sample(video, "mov", mov, "mov", ""), sample(video, "hevc", hevc, "mov", "unsupported_input")}
             \cup Images,
   tags |-> {sample(video, "titled", titled, "mov", "")} \cup Images]
=============================================================================
