----------------------------- MODULE ReaderInv -----------------------------
(***************************************************************************)
(* The invariants that the properties of DepotReader rest on: which file a *)
(* segment number stands for, what a place holds, what the process knows   *)
(* of the logs, and what a second attempt has seen.                        *)
(***************************************************************************)
EXTENDS DepotReader

Memory == [rcp : [Content -> Nat], roff : Nat, rino : Nat,
           idx : [Content -> Loc \cup {NoLoc}], ioff : Nat, iino : Nat]

\* No number of a segment is above the files that were made.
Numbered == \A s \in Ids : s <= Len(files)

\* A read has a place to look at, and a file while it reads.
Located ==
  \A t \in Thread :
    /\ pc[t] \in {"frame", "read"} => job[t].loc \in Loc
    /\ pc[t] = "read" => job[t].file \in 1 .. Len(files)

----------------------------------------------------------------------------
(* Where no number is given twice.                                         *)

\* A number stands for the file that got it first, on disk and in a read, and
\* the newest file is never deleted.
OneFile ==
  /\ \A s \in Seg : segs[s] \in {0, s} /\ fds[s] \in {0, s}
  /\ files # <<>> => Len(files) \in Ids
  /\ phase # "delete" => victims = {}
  /\ Len(files) \notin victims
  /\ \A t \in Thread : pc[t] = "read" => job[t].file = job[t].loc.seg

\* What the place l holds, whether or not its file has been deleted.
Holds(l, c) ==
  /\ l.seg \in DOMAIN files /\ l.off \in DOMAIN files[l.seg]
  /\ files[l.seg][l.off] = c

\* The index, on disk and in memory, names places that hold the block.
LogHolds == \A i \in DOMAIN ilog : Holds(ilog[i].loc, ilog[i].c)
MemHolds == \A c \in Content : mem.idx[c] # NoLoc => Holds(mem.idx[c], c)

\* The cache has one frame for a place, and what the place holds.
CacheHolds ==
  /\ \A i, k \in DOMAIN cache : cache[i].loc = cache[k].loc => i = k
  /\ \A i \in DOMAIN cache : Holds(cache[i].loc, cache[i].bytes)

\* A read looks for the content that it was asked for, and where that is.
ReadHolds ==
  \A t \in Thread : LET j == job[t] IN
    /\ j.got \in {j.c, Bad}
    /\ pc[t] \in {"lookup", "frame", "read", "drop", "reindex"} => j.block = j.c
    /\ pc[t] \in {"frame", "read"} => Holds(j.loc, j.c)

----------------------------------------------------------------------------
(* Where no inode is given twice, either.                                  *)

\* Entry i of a log is the last for c among the first n.
LastIn(log, n, c, i) ==
  i \in 1 .. n /\ log[i].c = c /\ \A k \in i + 1 .. n : log[k].c # c

NoneIn(log, n, c) == \A k \in 1 .. n : log[k].c # c

\* The first n records of recipes.log say that the recipe of c is at p.
SaysRecipe(log, n, c, p) ==
  \/ p = 0 /\ NoneIn(log, n, c)
  \/ \E i \in 1 .. n : LastIn(log, n, c, i) /\ p = IF log[i].put THEN i ELSE 0

\* The first n records of index.log say that the block c is at l.
SaysPlace(log, n, c, l) ==
  \/ l = NoLoc /\ NoneIn(log, n, c)
  \/ \E i \in 1 .. n : LastIn(log, n, c, i) /\ l = log[i].loc

\* What a process remembers of a log that has the inode seen last is what the
\* part that it has read says; an inode that was seen is not seen again.
Remembers ==
  /\ mem.rino <= rino /\ mem.iino <= iino
  /\ mem.rino = rino =>
       /\ mem.roff <= Len(rlog)
       /\ \A c \in Content : SaysRecipe(rlog, mem.roff, c, mem.rcp[c])
  /\ mem.iino = iino =>
       /\ mem.ioff <= Len(ilog)
       /\ \A c \in Content : SaysPlace(ilog, mem.ioff, c, mem.idx[c])

\* index.log has a block once, in a segment that is there to stay.
Placed ==
  /\ \A i, k \in DOMAIN ilog : ilog[i].c = ilog[k].c => i = k
  /\ \A i \in DOMAIN ilog : ilog[i].loc.seg \in Ids \ victims

\* What has a recipe is in the index.
LiveIndexed == \A c \in Live : \E i \in DOMAIN ilog : ilog[i].c = c

\* A second attempt that nothing has disturbed sees both logs as they are.
SeesNow ==
  \A t \in Thread : LET j == job[t] IN
    /\ pc[t] # "idle" => j.got = j.c
    /\ pc[t] = "recipe" => j.try = 0
    /\ pc[t] # "idle" /\ j.here => j.c \in Live
    /\ pc[t] = "read" /\ j.closed => ~j.calm
    /\ pc[t] = "decode" /\ j.try = 1 /\ j.calm =>
         /\ mem.rino = rino /\ j.pos \in DOMAIN rlog
         /\ rlog[j.pos] = [c |-> j.c, put |-> TRUE]
    /\ pc[t] = "lookup" /\ j.try = 1 /\ j.calm => mem.iino = iino
    /\ pc[t] \in {"frame", "read"} /\ j.try = 1 /\ j.calm =>
         \E i \in DOMAIN ilog : ilog[i] = [c |-> j.c, loc |-> j.loc]
    /\ j.got = Bad => ~j.calm \/ ~j.here
=============================================================================
