------------------------------- MODULE MCRtmp -------------------------------
(* Steps within half the timestamps' range, one of them back. *)
EXTENDS Rtmp

StepsMC == {3, -2}
=============================================================================
