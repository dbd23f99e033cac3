---------------------------- MODULE MCOutputSink ----------------------------
(* TLC instance of OutputSink; the streams are interchangeable.            *)
EXTENDS OutputSink, TLC

Symmetry == Permutations(Streams)

\* Two streams share the sink in the plain case, with two pieces of one and one of the
\* other; rotations by request and by copying are checked with the longer output of one.
Bounded ==
    IF copyAndTruncate \/ forced > 0 THEN \E s \in Streams : produced[s] = 0
    ELSE /\ \A s \in Streams : produced[s] < MaxOut
         /\ \E s \in Streams : produced[s] < MaxOut - 1
=============================================================================
