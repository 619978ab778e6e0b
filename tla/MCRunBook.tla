------------------------------- MODULE MCRunBook -------------------------------
(* Model-checking instance of the harness and its histograms. *)
EXTENDS RunBook

\* Four buckets; zero and one tick fall into different ones.
MCBounds == <<0, 1, 3, 63>>

\* The fixed-width constructor never breaks its own rules, short of a largest
\* latency that is kInfinity itself.
ASSUME FixedWidthIsValid ==
  \A max \in Word \ {0, kInfinity} : \A width \in 1 .. max :
    ValidBounds(FixedWidthBounds(width, max))
=============================================================================
