----------------------------- MODULE EventFeed -----------------------------
(***************************************************************************)
(* What GET /v1/events keeps to towards a client: one snapshot of the      *)
(* containers, taken after the stream was accepted, then every event since *)
(* that, each once and in order and none before it happened, and at most   *)
(* one word about why the stream is over.  An event the snapshot already   *)
(* includes may be repeated, and events may still follow the last word.    *)
(*                                                                         *)
(* Three of the four reasons are then true: lagged, superseded, revoked.   *)
(* The fourth is not always: a stream that is told that the Engine is      *)
(* unavailable had its feed broken off by the Engine, or else had joined a *)
(* subscription that the agent itself gave up (Truthful).                  *)
(***************************************************************************)
EXTENDS Integers, Sequences

CONSTANTS Streams, Devices

VARIABLES
  happened,   \* container events so far, numbered from 1
  dev,        \* the device each stream belongs to
  opened,     \* streams the agent has accepted
  barred,     \* devices that were revoked
  cut,        \* streams whose feed the Engine broke off
  abandoned,  \* streams whose feed the agent gave up
  seen,       \* the events in the snapshot taken for each stream, or -1
  sent        \* the frames each stream was sent

vars == <<happened, dev, opened, barred, cut, abandoned, seen, sent>>

Init ==
  /\ happened = 0
  /\ dev \in [Streams -> Devices]
  /\ opened = {} /\ barred = {} /\ cut = {} /\ abandoned = {}
  /\ seen = [s \in Streams |-> -1]
  /\ sent = [s \in Streams |-> <<>>]

Reasons == {"engine", "lagged", "superseded", "revoked"}

\* Where the events are among the frames of a stream, and the last of them, or 0.
Events(frames) == {i \in DOMAIN frames : frames[i].kind = "health"}

LastEvent(frames) ==
  IF Events(frames) = {} THEN 0
  ELSE frames[CHOOSE i \in Events(frames) : \A j \in Events(frames) : j <= i].n

LastSent(s) == LastEvent(sent[s])

Say(s, kind, i) ==
  /\ sent' = [sent EXCEPT ![s] = Append(@, [kind |-> kind, n |-> i])]
  /\ UNCHANGED <<happened, dev, opened, barred, cut, abandoned, seen>>

Happen ==
  /\ happened' = happened + 1
  /\ UNCHANGED <<dev, opened, barred, cut, abandoned, seen, sent>>

Open(s) ==
  /\ dev[s] \notin barred
  /\ opened' = opened \cup {s}
  /\ UNCHANGED <<happened, dev, barred, cut, abandoned, seen, sent>>

Bar(d) ==
  /\ barred' = barred \cup {d}
  /\ UNCHANGED <<happened, dev, opened, cut, abandoned, seen, sent>>

\* Streams lose their feed, to the Engine or to the agent.
Cut(S) ==
  /\ cut' = cut \cup S
  /\ UNCHANGED <<happened, dev, opened, barred, abandoned, seen, sent>>

Abandon(S) ==
  /\ abandoned' = abandoned \cup S
  /\ UNCHANGED <<happened, dev, opened, barred, cut, seen, sent>>

\* The snapshot is taken, and sent some time later.
Look(s) ==
  /\ s \in opened /\ sent[s] = <<>>
  /\ seen' = [seen EXCEPT ![s] = happened]
  /\ UNCHANGED <<happened, dev, opened, barred, cut, abandoned, sent>>

Snapshot(s) ==
  /\ seen[s] >= 0 /\ sent[s] = <<>>
  /\ Say(s, "snapshot", seen[s])

\* The first event may be an old one, but never leaves a gap after the
\* snapshot; each further one is the next.
Event(s, i) ==
  /\ sent[s] # <<>> /\ i <= happened
  /\ IF LastSent(s) = 0 THEN i <= seen[s] + 1 ELSE i = LastSent(s) + 1
  /\ Say(s, "health", i)

\* Lagged: there is an event this stream will not be sent.  Superseded: the
\* device has opened another stream.  Engine: the stream has lost its feed,
\* and the Engine broke it off or the agent gave it up.
Truthful(s, why) ==
  /\ why = "engine" => s \in cut \cup abandoned
  /\ why = "lagged" => LastSent(s) < happened
  /\ why = "superseded" => \E q \in opened \ {s} : dev[q] = dev[s]
  /\ why = "revoked" => dev[s] \in barred

End(s, why) ==
  /\ sent[s] # <<>>
  /\ \A i \in DOMAIN sent[s] : sent[s][i].kind \notin Reasons
  /\ Truthful(s, why)
  /\ Say(s, why, 0)

Next ==
  \/ Happen
  \/ \E d \in Devices : Bar(d)
  \/ \E S \in SUBSET Streams : Cut(S) \/ Abandon(S)
  \/ \E s \in Streams :
       \/ Open(s) \/ Look(s) \/ Snapshot(s)
       \/ \E i \in 1..happened : Event(s, i)
       \/ \E why \in Reasons : End(s, why)

Spec == Init /\ [][Next]_vars
=============================================================================
