-------------------------- MODULE MCMotionDetection -------------------------
(* Small instances of MotionDetection: one caller, two objects in turn.    *)
EXTENDS MotionDetection
=============================================================================
