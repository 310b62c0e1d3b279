----------------------------- MODULE MCDht11Driver -----------------------------
(* Model values and bounds for TLC. *)
EXTENDS Dht11Driver

MCTextLens   == {1, 3}     \* a text shorter and one longer than the error text
MCSampleIds  == 1..4       \* as many as the buffer has bytes: one is always unused
MCReadCounts == {1, 2}     \* a read shorter than a text and one that is clamped
=============================================================================
