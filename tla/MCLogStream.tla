---------------------------- MODULE MCLogStream ----------------------------
(* LogStream on small sets of streams and devices. *)
EXTENDS LogStream

CONSTANTS s1, s2

\* A host ceiling that two devices reach together, and one above the cap of
\* a single device.
MCCaps == {<<1, 1>>, <<2, 1>>}

Scenario(n, u, l) == [requests |-> SubSeq(<<s1, s2>>, 1, n), upsets |-> u, lines |-> l]

\* Two streams under each reason to end on its own, or with a log that
\* delivers a line, and one stream whose client stops reading and that has
\* every reason to end.
MCScenarios ==
  {Scenario(2, {"gone"}, 0), Scenario(2, {"revoke"}, 0),
   Scenario(2, {"shutdown"}, 0), Scenario(2, {}, 1), Scenario(1, Upsets, 1)}

\* Devices are interchangeable: the device of one stream can be fixed.
MCInit ==
  Init /\ dev[s1] = CHOOSE d \in Devices : TRUE

MCSpec == MCInit /\ [][Next]_vars /\ Fairness
=============================================================================
