----------------------------- MODULE MCFrameQueue -----------------------------
(* FrameQueue on a few viewers and pictures.                                *)
EXTENDS FrameQueue
=============================================================================
