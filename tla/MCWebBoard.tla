----------------------------- MODULE MCWebBoard -----------------------------
(* Instances of WebBoard for TLC. *)
EXTENDS WebBoard, TLC
=============================================================================
