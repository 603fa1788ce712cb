-------------------------- MODULE MCUploadPipeline --------------------------
(* An instance of UploadPipeline for TLC: one row, two pipelines. *)
EXTENDS UploadPipeline, TLC

CONSTANTS w1, w2, h1

OneEntry == {1}

=============================================================================
