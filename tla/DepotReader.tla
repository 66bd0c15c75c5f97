---------------------------- MODULE DepotReader ----------------------------
(***************************************************************************)
(* Reads of the depot in a process that does not write it (internal/store: *)
(* store.go, recipes.go, cache.go).  The process remembers what it has     *)
(* read of recipes.log and index.log, keeps descriptors of segments open   *)
(* and recent frames in memory, and takes no lock of other processes: what *)
(* it remembers may be out of date, and a read that fails is tried once    *)
(* more with the logs read anew.                                           *)
(*                                                                         *)
(* The writer is another process; its batches and collections, with all    *)
(* that may go wrong in them, are in Depot.  Here a content is one block,  *)
(* a frame holds one block, and a log is a sequence of records.            *)
(*                                                                         *)
(* The fields calm and here of a read are history variables.               *)
(***************************************************************************)
EXTENDS Naturals, Sequences, SequencesExt, FiniteSets, FiniteSetsExt

CONSTANTS
  Thread,     \* readers in the process
  Content,    \* contents; also their blocks
  Bad,        \* no bytes: an error
  SegMax,     \* frames in a segment (SegmentSize)
  CacheMax,   \* frames in the cache (CacheBytes)
  Races,      \* "reuse": the number of a deleted segment is given again
              \* "inode": a log gets the inode of an earlier one
              \* "align": a record stands where another one of the same
              \*          length stood before its log was rewritten
  MaxLog,     \* (bound) records in recipes.log when one is added
  MaxFiles,   \* (bound) segment files ever made
  MaxInode    \* (bound) inodes of a log

ASSUME ReaderAssumption ==
  /\ Bad \notin Content /\ IsFiniteSet(Content)
  /\ SegMax \in Nat \ {0} /\ CacheMax \in Nat \ {0}
  /\ Races \subseteq {"reuse", "inode", "align"}
  /\ MaxLog \in Nat /\ MaxFiles \in Nat /\ MaxInode \in Nat \ {0}

Seg   == 1 .. MaxFiles
Loc   == [seg : Seg, off : Nat \ {0}]
NoLoc == [seg |-> 0, off |-> 0]

VARIABLES
  rlog,     \* recipes.log: contents put and deleted
  rino,     \* its inode
  ilog,     \* index.log: where a block is
  iino,     \* its inode
  segs,     \* [Seg -> the file of that name, or 0]
  files,    \* segment files, deleted ones included: their frames
  phase,    \* step of the collector of the writer
  victims,  \* segments it is going to delete
  mem,      \* what the reading process remembers of both logs
  fds,      \* [Seg -> the file that its descriptor reads, or 0]
  cache,    \* frames in memory, the one used last first
  pc,       \* [Thread -> step]
  job       \* [Thread -> the read under way, or the last one]

disk    == <<rlog, rino, ilog, iino, segs, files, phase, victims>>
process == <<mem, fds, cache>>
vars    == <<rlog, rino, ilog, iino, segs, files, phase, victims,
             mem, fds, cache, pc, job>>

Recipe == [c : Content, put : BOOLEAN]
Index  == [c : Content, loc : Loc]
Frame  == [loc : Loc, bytes : Content]
Step   == {"idle", "recipe", "decode", "reread", "lookup", "frame", "read",
           "drop", "reindex"}

\* c: the content asked for; block: the one its recipe names; try: the second
\* attempt; file: the descriptor's file; closed: it was closed; got: the
\* result.  calm: no log was rewritten, no segment deleted and no descriptor
\* of this read closed during it; here: the content was there all the time.
Job == [c : Content, block : Content, pos : Nat, try : 0 .. 1,
        loc : Loc \cup {NoLoc}, file : Nat, closed : BOOLEAN,
        got : Content \cup {Bad}, calm : BOOLEAN, here : BOOLEAN]

Asked(c, there) ==
  [c |-> c, block |-> c, pos |-> 0, try |-> 0, loc |-> NoLoc, file |-> 0,
   closed |-> FALSE, got |-> c, calm |-> TRUE, here |-> there]

Nowhere  == [c \in Content |-> NoLoc]
NoRecipe == [c \in Content |-> 0]

Init ==
  /\ rlog = <<>> /\ rino = 1 /\ ilog = <<>> /\ iino = 1
  /\ segs = [s \in Seg |-> 0] /\ files = <<>>
  /\ phase = "idle" /\ victims = {}
  /\ mem = [rcp |-> NoRecipe, roff |-> 0, rino |-> 1,
            idx |-> Nowhere, ioff |-> 0, iino |-> 1]
  /\ fds = [s \in Seg |-> 0] /\ cache = <<>>
  /\ pc = [t \in Thread |-> "idle"]
  /\ job \in [Thread -> {Asked(c, TRUE) : c \in Content}]

----------------------------------------------------------------------------
(* The logs.                                                               *)

\* Position of the last record for c behind the first n records, or 0.
LastFor(log, n, c) == Max({0} \cup {i \in n + 1 .. Len(log) : log[i].c = c})

\* What was known, and then the records behind the first n.
Recipes(known, n) ==
  [c \in Content |-> LET i == LastFor(rlog, n, c) IN
     IF i = 0 THEN known[c] ELSE IF rlog[i].put THEN i ELSE 0]

Places(known, n) ==
  [c \in Content |-> LET i == LastFor(ilog, n, c) IN
     IF i = 0 THEN known[c] ELSE ilog[i].loc]

\* (mutant of Rewritten: only a log that got shorter is read from its start)
Shorter(ino, now, off, len) == len < off

\* The log is not the one that was read so far.
Rewritten(ino, now, off, len) == ino # now \/ len < off

\* refreshLocked of a process that remembers m.
Refreshed(m) ==
  LET rNew == Rewritten(m.rino, rino, m.roff, Len(rlog))
      iNew == Rewritten(m.iino, iino, m.ioff, Len(ilog))
  IN
  [rcp  |-> IF rNew THEN Recipes(NoRecipe, 0) ELSE Recipes(m.rcp, m.roff),
   roff |-> Len(rlog), rino |-> rino,
   idx  |-> IF iNew THEN Places(Nowhere, 0) ELSE Places(m.idx, m.ioff),
   ioff |-> Len(ilog), iino |-> iino]

Live  == {c \in Content : Recipes(NoRecipe, 0)[c] # 0}
Place == Places(Nowhere, 0)

----------------------------------------------------------------------------
(* The writer.                                                             *)

Ids == {s \in Seg : segs[s] # 0}
Top == Max({0} \cup Ids)

\* openSegWriter: the last segment, or one more when it is full.
Target ==
  IF Top = 0 \/ Len(files[segs[Top]]) >= SegMax THEN Top + 1 ELSE Top

\* The frames fs go to the end of segment s, which may be new.
WriteFrames(s, fs) ==
  IF s \in Ids
  THEN /\ files' = [files EXCEPT ![segs[s]] = @ \o fs]
       /\ UNCHANGED segs
  ELSE /\ Len(files) < MaxFiles
       /\ files' = Append(files, fs)
       /\ segs' = [segs EXCEPT ![s] = Len(files) + 1]

InSegment(s) == IF s \in Ids THEN Len(files[segs[s]]) ELSE 0

\* A batch of one content; a block that the index has is not written again.
Store(c) ==
  /\ phase = "idle" /\ Len(rlog) < MaxLog /\ c \notin Live
  /\ IF Place[c] # NoLoc
     THEN UNCHANGED <<segs, files, ilog>>
     ELSE /\ WriteFrames(Target, <<c>>)
          /\ ilog' = Append(ilog, [c |-> c, loc |-> [seg |-> Target,
                                            off |-> InSegment(Target) + 1]])
  /\ rlog' = Append(rlog, [c |-> c, put |-> TRUE])
  /\ UNCHANGED <<rino, iino, phase, victims, process, pc, job>>

RemoveContent(c) ==
  /\ phase = "idle" /\ Len(rlog) < MaxLog /\ c \in Live
  /\ rlog' = Append(rlog, [c |-> c, put |-> FALSE])
  /\ job' = [t \in Thread |-> IF job[t].c = c THEN [job[t] EXCEPT !.here = FALSE]
                                              ELSE job[t]]
  /\ UNCHANGED <<rino, ilog, iino, segs, files, phase, victims, process, pc>>

\* A new file is renamed over the log: its inode is not the old one's.
NewInode(ino) ==
  IF "inode" \in Races THEN (1 .. MaxInode) \ {ino}
                       ELSE {i \in 1 .. MaxInode : i = ino + 1}

Disturbed == [t \in Thread |-> [job[t] EXCEPT !.calm = FALSE]]

\* compactRecipesLocked: live recipes only, in the order of a Go map.
CompactRecipes ==
  /\ phase = "idle" /\ phase' = "swap"
  /\ IF Len(rlog) = Cardinality(Live)
     THEN UNCHANGED <<rlog, rino, job>>
     ELSE /\ rlog' \in {[i \in DOMAIN s |-> [c |-> s[i], put |-> TRUE]] :
                          s \in SetToSeqs(Live)}
          /\ rino' \in NewInode(rino)
          /\ job' = Disturbed
  /\ UNCHANGED <<ilog, iino, segs, files, victims, process, pc>>

In(s) == {c \in Content : Place[c].seg = s}

\* Segments without live blocks go; the collector may rewrite others that
\* have dead ones.
MayRewrite(vs) ==
  /\ vs \subseteq {s \in Ids : ~(In(s) \subseteq Live)}
                     \cup {s \in Ids : In(s) = {}}
  /\ {s \in Ids : In(s) \cap Live = {}} \subseteq vs

\* Blocks that move, and blocks, dead ones included, that stay.
Moving(vs)  == {c \in Live : Place[c].seg \in vs}
Staying(vs) == {c \in Content : Place[c].seg \in Ids \ vs}

\* Index of the depot when the blocks in moved are in segment Top + 1.
NewPlaces(vs, moved) ==
  [c \in Staying(vs) \cup Range(moved) |->
     IF c \in Staying(vs) THEN Place[c]
     ELSE [seg |-> Top + 1, off |-> CHOOSE i \in DOMAIN moved : moved[i] = c]]

AsLog(places) ==
  LET cs == SetToSeq(DOMAIN places)
  IN  [i \in DOMAIN cs |-> [c |-> cs[i], loc |-> places[cs[i]]]]

\* gc: the live blocks are copied, then the new index is renamed into place.
SwapIndex(vs) ==
  LET moved == SetToSeq(Moving(vs)) IN
  /\ phase = "swap" /\ vs # {} /\ MayRewrite(vs)
  /\ "reuse" \in Races \/ Top \notin vs \/ moved # <<>>
  /\ IF moved = <<>> THEN UNCHANGED <<segs, files>> ELSE WriteFrames(Top + 1, moved)
  /\ ilog' = AsLog(NewPlaces(vs, moved))
  /\ iino' \in NewInode(iino)
  /\ phase' = "delete" /\ victims' = vs
  /\ job' = Disturbed
  /\ UNCHANGED <<rlog, rino, process, pc>>

\* Nothing is dead enough, or an error ends the collection.
StopsCollecting ==
  /\ phase = "swap" /\ phase' = "idle"
  /\ UNCHANGED <<rlog, rino, ilog, iino, segs, files, victims, process, pc, job>>

\* A crash, or an error of os.Remove, leaves some of them.
DeleteSegments(gone) ==
  /\ phase = "delete" /\ phase' = "idle"
  /\ gone \subseteq victims
  /\ segs' = [s \in Seg |-> IF s \in gone THEN 0 ELSE segs[s]]
  /\ victims' = {}
  /\ job' = Disturbed
  /\ UNCHANGED <<rlog, rino, ilog, iino, files, process, pc>>

----------------------------------------------------------------------------
(* A read: Recipe, then chunkPayload.                                      *)

Set(t, s, j) ==
  /\ pc' = [pc EXCEPT ![t] = s]
  /\ job' = [job EXCEPT ![t] = j]

Ends(t, got) ==
  LET j == job[t] IN
  Set(t, "idle", [Asked(j.c, j.here) EXCEPT !.got = got, !.calm = j.calm])

Start(t, c) ==
  /\ pc[t] = "idle"
  /\ Set(t, "recipe", Asked(c, c \in Live))
  /\ UNCHANGED <<disk, process>>

\* The position that the process knows now, or an error.
AtRecipe(t, j) ==
  IF mem'.rcp[j.c] = 0 THEN Ends(t, Bad)
  ELSE Set(t, "decode", [j EXCEPT !.pos = mem'.rcp[j.c]])

\* The logs are read on when something is not known.
IfMissing(missing) == IF missing THEN Refreshed(mem) ELSE mem

FindRecipe(t) ==
  /\ pc[t] = "recipe"
  /\ mem' = IfMissing(mem.rcp[job[t].c] = 0)
  /\ AtRecipe(t, job[t])
  /\ UNCHANGED <<disk, fds, cache>>

\* What the bytes at position i decode as, for a process that knows the log
\* with inode ino.  The record of the wanted content may have moved by a few
\* bytes even where it has the same number.
Decoded(i, c) ==
  IF i \notin DOMAIN rlog \/ ~rlog[i].put THEN {Bad}
  ELSE IF mem.rino = rino /\ rlog[i].c = c THEN {c}
  ELSE IF "align" \in Races \/ rlog[i].c = c THEN {rlog[i].c, Bad} ELSE {Bad}

Decode(t) ==
  /\ pc[t] = "decode"
  /\ \E b \in Decoded(job[t].pos, job[t].c) :
       IF b # Bad
       THEN Set(t, "lookup", [job[t] EXCEPT !.block = b, !.try = 0])
       ELSE IF job[t].try = 0 THEN Set(t, "reread", job[t]) ELSE Ends(t, Bad)
  /\ UNCHANGED <<disk, process>>

\* rcpIno = 0: recipes.log from its start.
RereadRecipes(t) ==
  /\ pc[t] = "reread"
  /\ mem' = Refreshed([mem EXCEPT !.rino = 0])
  /\ AtRecipe(t, [job[t] EXCEPT !.try = 1])
  /\ UNCHANGED <<disk, fds, cache>>

Lookup(t) ==
  /\ pc[t] = "lookup"
  /\ mem' = IfMissing(mem.idx[job[t].block] = NoLoc)
  /\ IF mem'.idx[job[t].block] = NoLoc THEN Ends(t, Bad)
     ELSE Set(t, "frame", [job[t] EXCEPT !.loc = mem'.idx[job[t].block]])
  /\ UNCHANGED <<disk, fds, cache>>

\* An attempt came to nothing.
Missed(t) ==
  IF job[t].try = 0 THEN Set(t, "drop", job[t]) ELSE Ends(t, Bad)

\* A frame is there: if it is long enough its bytes are taken for the block.
Deliver(t, bytes) ==
  \/ Ends(t, bytes)
  \/ bytes # job[t].block /\ Missed(t)

\* (mutant of Cached: the key lacks the segment)
CachedAtOffset(l) == SelectInSeq(cache, LAMBDA f : f.loc.off = l.off)

Cached(l) == SelectInSeq(cache, LAMBDA f : f.loc = l)

CacheHit(t) ==
  LET i == Cached(job[t].loc) IN
  /\ pc[t] = "frame" /\ i # 0
  /\ Deliver(t, cache[i].bytes)
  /\ cache' = <<cache[i]>> \o RemoveAt(cache, i)
  /\ UNCHANGED <<disk, mem, fds>>

\* segReader: a descriptor that is open is used, whatever has its name now.
Descriptor(s) == IF fds[s] # 0 THEN fds[s] ELSE segs[s]

OpenSegment(t) ==
  LET s == job[t].loc.seg
      f == Descriptor(s)
  IN
  /\ pc[t] = "frame" /\ Cached(job[t].loc) = 0
  /\ IF f = 0 THEN Missed(t) /\ UNCHANGED fds
     ELSE /\ Set(t, "read", [job[t] EXCEPT !.file = f, !.closed = FALSE])
          /\ fds' = [fds EXCEPT ![s] = f]
  /\ UNCHANGED <<disk, mem, cache>>

\* (mutant of Kept: a frame is only added)
KeptAll(frame) == <<frame>> \o cache

\* (mutant of Kept: what another reader has put is not looked at)
KeptTwice(frame) == SubSeq(<<frame>> \o cache, 1, Min({CacheMax, Len(cache) + 1}))

\* put: another reader may have put the frame meanwhile.
Kept(frame) ==
  IF Cached(frame.loc) # 0 THEN cache
  ELSE SubSeq(<<frame>> \o cache, 1, Min({CacheMax, Len(cache) + 1}))

ReadFrame(t) ==
  LET j == job[t] IN
  /\ pc[t] = "read"
  /\ IF j.closed \/ j.loc.off > Len(files[j.file])
     THEN Missed(t) /\ UNCHANGED cache
     ELSE /\ Deliver(t, files[j.file][j.loc.off])
          /\ cache' = Kept([loc |-> j.loc, bytes |-> files[j.file][j.loc.off]])
  /\ UNCHANGED <<disk, mem, fds>>

\* dropSegReaders and cache.clear: the readers of the process share both.
Drop(t) ==
  /\ pc[t] = "drop"
  /\ fds' = [s \in Seg |-> 0] /\ cache' = <<>>
  /\ pc' = [pc EXCEPT ![t] = "reindex"]
  /\ job' = [u \in Thread |-> IF u # t /\ pc[u] = "read"
               THEN [job[u] EXCEPT !.closed = TRUE, !.calm = FALSE] ELSE job[u]]
  /\ UNCHANGED <<disk, mem>>

\* idxIno = 0: index.log from its start.
ForReindex(m) == [m EXCEPT !.iino = 0]

Reindex(t) ==
  /\ pc[t] = "reindex"
  /\ mem' = Refreshed(ForReindex(mem))
  /\ Set(t, "lookup", [job[t] EXCEPT !.try = 1])
  /\ UNCHANGED <<disk, fds, cache>>

----------------------------------------------------------------------------
Write ==
  \/ \E c \in Content : Store(c) \/ RemoveContent(c)
  \/ CompactRecipes
  \/ \E vs \in SUBSET Seg : SwapIndex(vs) \/ DeleteSegments(vs)
  \/ StopsCollecting

Proceed(t) ==
  \/ FindRecipe(t) \/ Decode(t) \/ RereadRecipes(t)
  \/ Lookup(t) \/ CacheHit(t) \/ OpenSegment(t) \/ ReadFrame(t)
  \/ Drop(t) \/ Reindex(t)

Next ==
  \/ Write
  \/ \E t \in Thread : Proceed(t) \/ \E c \in Content : Start(t, c)

Spec == Init /\ [][Next]_vars

----------------------------------------------------------------------------
\* Every variable has a value of its type.
TypeOK ==
  /\ rlog \in Seq(Recipe) /\ ilog \in Seq(Index)
  /\ rino \in 1 .. MaxInode /\ iino \in 1 .. MaxInode
  /\ segs \in [Seg -> 0 .. Len(files)] /\ files \in Seq(Seq(Content))
  /\ phase \in {"idle", "swap", "delete"} /\ victims \subseteq Seg
  /\ mem \in [rcp : [Content -> Nat], roff : Nat, rino : Nat,
              idx : [Content -> Loc \cup {NoLoc}], ioff : Nat, iino : Nat]
  /\ fds \in [Seg -> 0 .. Len(files)]
  /\ cache \in Seq(Frame) /\ Len(cache) <= CacheMax
  /\ pc \in [Thread -> Step] /\ job \in [Thread -> Job]

\* A read gives the bytes of the content it was asked for, or an error:
\* never those of another content, although ReadAt compares no hash and what
\* the process remembers may be older than several collections.
ReadsRight == \A t \in Thread : job[t].got \in {job[t].c, Bad}

\* A read of a content that was there all the time fails only if a collection
\* rewrote or deleted something while it ran, or another reader closed the
\* descriptor it was using: what is out of date costs a second attempt, and no
\* more (chunkPayload, Recipe).
Served ==
  \A t \in Thread : job[t].got = Bad => ~job[t].calm \/ ~job[t].here

\* Two frames of one place are not both in the cache, and what it holds is
\* what the segment of that number has, or had when it was deleted.
CacheSound ==
  /\ \A i, k \in DOMAIN cache : cache[i].loc = cache[k].loc => i = k
  /\ \A i \in DOMAIN cache : \A s \in Ids :
       cache[i].loc.seg = s =>
         /\ cache[i].loc.off <= Len(files[segs[s]])
         /\ cache[i].bytes = files[segs[s]][cache[i].loc.off]
=============================================================================
