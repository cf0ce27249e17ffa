------------------------------- MODULE MCMixer -------------------------------
(* Small inputs for the mixer: every queue of at most MaxLen samples.      *)
EXTENDS Mixer

CONSTANT MaxLen

Samples == {-3, 1, 2}

MCQueues == UNION {[1 .. n -> Samples] : n \in 0 .. MaxLen}
=============================================================================
