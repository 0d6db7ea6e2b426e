----------------------------- MODULE MCStreamIO -----------------------------
(* Instances of StreamIO for TLC.                                          *)
EXTENDS StreamIO

SampleArrivals ==
  { <<>>, << <<1, 2, 3>>, <<4>> >>, << <<1, 2>>, <<>>, <<3, 4, 5>> >>, << <<1>>, <<>> >> }
=============================================================================
