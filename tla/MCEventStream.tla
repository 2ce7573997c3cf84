--------------------------- MODULE MCEventStream ---------------------------
(* EventStream on small sets of streams and devices. *)
EXTENDS EventStream, TLC

CONSTANTS s1, s2

\* Devices are interchangeable.
Symmetry == Permutations(Devices)

Scenario(n, u, e, r) ==
  [streams |-> SubSeq(<<s1, s2>>, 1, n), upsets |-> u, events |-> e, runs |-> r]

\* A burst of events with nothing else going on; streams that come and go, or
\* stop reading; a feed that fails; revocations, with an event and with a
\* failing feed.
SafetyScenarios ==
  {Scenario(2, {}, 2, 1), Scenario(2, {"gone"}, 1, 2),
   Scenario(1, {"stall", "gone"}, 3, 1),
   Scenario(2, {"engine"}, 1, 2), Scenario(2, {"revoke"}, 1, 1),
   Scenario(2, {"engine", "revoke"}, 0, 2)}

\* Each reason to end, and as many runs as streams; a client that stops
\* reading, alone and next to another.
LivenessScenarios ==
  {Scenario(2, {"engine"}, 0, 2), Scenario(2, {"revoke"}, 0, 2),
   Scenario(2, {"gone"}, 0, 2), Scenario(2, {"shutdown"}, 0, 2),
   Scenario(2, {"stall"}, 0, 2), Scenario(1, Upsets, 0, 1)}
=============================================================================
