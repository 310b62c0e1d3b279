---------------------------- MODULE MCDht11Sampler -----------------------------
(* Frames, delays and line faults for TLC. *)
EXTENDS Dht11Sampler

\* The frame in the comment of dht11.c, two below zero, one whose sum exceeds
\* a byte and one with every bit clear.
MCFrames == {<<26, 0, 19, 8>>, <<45, 0, 129, 5>>, <<45, 0, 128, 5>>,
             <<200, 9, 100, 7>>, <<0, 0, 0, 0>>}

MCLines    == {"sensor", "high", "low"}
MCJitters  == {0, 20}      \* 20 is the most that a pulse of 71 us can lose
MCPreempts == {23, 150}    \* just short of a pulse of 24 us; longer than a bit
=============================================================================
