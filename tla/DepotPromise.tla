---------------------------- MODULE DepotPromise ----------------------------
(***************************************************************************)
(* What a depot promises to whoever stores contents in it, without blocks, *)
(* segments or logs: a content that is asked for becomes readable or is    *)
(* discarded, and a readable one stays so until it is removed.             *)
(***************************************************************************)

CONSTANT Content

VARIABLES
  stored,  \* contents that can be read back
  asked    \* contents put in an open batch and not committed

vars == <<stored, asked>>

Init == stored = {} /\ asked = {}

\* Batch.Put of a content that the depot does not have.
Ask(x) ==
  /\ x \notin stored \cup asked
  /\ asked' = asked \cup {x}
  /\ UNCHANGED stored

\* Commit, one content after another.
Publish(x) ==
  /\ x \in asked
  /\ stored' = stored \cup {x}
  /\ asked' = asked \ {x}

\* Remove.
Forget(x) ==
  /\ x \in stored \cup asked
  /\ stored' = stored \ {x}
  /\ asked' = asked \ {x}

\* Abort or a crash: nothing committed is touched.
Discard ==
  /\ asked' = {}
  /\ UNCHANGED stored

Next ==
  \/ \E x \in Content : Ask(x) \/ Publish(x) \/ Forget(x)
  \/ Discard

Spec == Init /\ [][Next]_vars
=============================================================================
