--------------------------- MODULE MCBatchQueue ---------------------------
(***************************************************************************)
(* An instance of BatchQueue for TLC: a video and a document.              *)
(***************************************************************************)
EXTENDS BatchQueue, TLC

CONSTANTS clip, paper

Extensions == (clip :> "mp4") @@ (paper :> "pdf")
=============================================================================
