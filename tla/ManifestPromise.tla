-------------------------- MODULE ManifestPromise --------------------------
(***************************************************************************)
(* What a shared manifest promises to the processes that edit it: one book *)
(* of items (entries and folders).  What a process asks for is kept as a   *)
(* whole by its next save, and a save changes nothing else.                *)
(***************************************************************************)

CONSTANTS Proc, Item, Absent, Quiet

VARIABLES
  book,   \* [Item -> value or Absent]
  asked   \* [Proc -> [Item -> value, Absent or Quiet]]: edits not yet saved

vars == <<book, asked>>

Nothing == [i \in Item |-> Quiet]

Init ==
  /\ book = [i \in Item |-> Absent]
  /\ asked = [p \in Proc |-> Nothing]

\* Edits of p in memory: more items, or other values, never fewer items.
Ask(p) ==
  /\ \A q \in Proc \ {p} : asked'[q] = asked[q]
  /\ \A i \in Item : asked[p][i] # Quiet => asked'[p][i] # Quiet
  /\ UNCHANGED book

\* A save of p.
Keep(p) ==
  /\ book' = [i \in Item |-> IF asked[p][i] = Quiet THEN book[i]
                                                    ELSE asked[p][i]]
  /\ asked' = [asked EXCEPT ![p] = Nothing]

\* p dies before it saves.
Lose(p) ==
  /\ asked' = [asked EXCEPT ![p] = Nothing]
  /\ UNCHANGED book

Next == \E p \in Proc : Ask(p) \/ Keep(p) \/ Lose(p)

Spec == Init /\ [][Next]_vars
=============================================================================
