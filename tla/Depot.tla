------------------------------- MODULE Depot -------------------------------
(***************************************************************************)
(* The block depot of internal/store: segments of frames, index.log and    *)
(* recipes.log on disk, the one writer that the mutex wmu and the flock    *)
(* let in, and the five sessions a writer can run: a batch of Puts         *)
(* (store.go), rebaseOrphans and Optimize (optimize.go), gc (gc.go) and    *)
(* Recompress (cold.go).  Every durable step is an action, so a crash or   *)
(* an error can fall between any two of them.                              *)
(*                                                                         *)
(* A frame is the set of <<chunk, form>> pairs stored in it.  The form of  *)
(* a chunk is Whole, or the chunk its delta was taken against.             *)
(***************************************************************************)
EXTENDS Integers, Sequences

CONSTANTS
  Chunk,        \* blocks, named by their SHA-256
  Content,      \* contents, named by theirs
  parts,        \* [Content -> SUBSET Chunk]: the blocks of a recipe
  Mono,         \* contents that are one block, stored untransformed
  Whole,        \* the form of a block that is not a delta
  MaxSeg,       \* bound on segment ids
  MaxSlot,      \* SegmentSize, in frames
  HaveZstdMax,  \* the cgo build: Recompress is available
  Faults        \* which I/O errors the disk may return

ASSUME SizeAssumption == MaxSeg \in Nat /\ MaxSlot \in Nat \ {0}

ASSUME DataAssumption ==
  /\ Whole \notin Chunk
  /\ parts \in [Content -> SUBSET Chunk]
  /\ Mono \subseteq Content
  /\ \A x \in Mono : \E c \in Chunk : parts[x] = {c}

ASSUME FaultAssumption ==
  /\ HaveZstdMax \in BOOLEAN
  /\ Faults \subseteq {"tornFrame", "tornIndex"}

Seg   == 1 .. MaxSeg
Slot  == 1 .. MaxSlot
Pos   == Seg \X Slot
NoPos == <<0, 0>>
Form  == Chunk \cup {Whole}
Loc   == [pos : Pos \cup {NoPos}, form : Form]
NoLoc == [pos |-> NoPos, form |-> Whole]
Item  == [c : Chunk, form : Form, pos : Pos \cup {NoPos}]

VARIABLES
  disk,      \* [Pos -> set of pairs]: the readable frame at a position
  torn,      \* positions holding the bytes of a frame cut short
  segs,      \* segment files that exist
  idx,       \* [Chunk -> Loc]: index.log as a reader decodes it
  tornLog,   \* index.log ends in half a record
  rcp,       \* [Content -> kind]: recipes.log as a reader decodes it
  lock,      \* "free", or the session that holds wmu and the flock
  stage,     \* where that session is
  w,         \* its segWriter: segment and frames in it
  unsynced,  \* frames written and not yet fsynced
  items,     \* blocks of the open batch, in order: chunk, form, position
  written,   \* how many of them are in a frame (the rest is in memory)
  indexed,   \* how many of them are in index.log
  queued,    \* [Content -> kind]: recipes waiting for the Commit
  newIdx,    \* the index that gc or Recompress is building
  copy,      \* frames it still has to copy
  move,      \* live blocks it still has to put in new frames
  victims    \* segments it will delete

diskVars  == <<disk, torn, segs>>
logVars   == <<idx, tornLog, rcp>>
batchVars == <<items, written, indexed, queued>>
planVars  == <<newIdx, copy, move, victims>>
vars == <<disk, torn, segs, idx, tornLog, rcp, lock, stage, w, unsynced,
          items, written, indexed, queued, newIdx, copy, move, victims>>

Kind     == {"none", "one", "put"}
NoRecipe == [x \in Content |-> "none"]
NoIdx    == [c \in Chunk |-> NoLoc]
NoWriter == [seg |-> 0, size |-> 0]
Batches  == {"put", "rebase", "optimize"}

Init ==
  /\ disk = [p \in Pos |-> {}] /\ torn = {} /\ segs = {}
  /\ idx = NoIdx /\ tornLog = FALSE /\ rcp = NoRecipe
  /\ lock = "free" /\ stage = "idle" /\ w = NoWriter /\ unsynced = {}
  /\ items = <<>> /\ written = 0 /\ indexed = 0 /\ queued = NoRecipe
  /\ newIdx = NoIdx /\ copy = {} /\ move = {} /\ victims = {}

----------------------------------------------------------------------------
(* What the disk says.                                                     *)

Known(c)   == idx[c].pos # NoPos
IsWhole(c) == Known(c) /\ idx[c].form = Whole
IsDelta(c) == Known(c) /\ idx[c].form # Whole
Stored     == {x \in Content : rcp[x] # "none"}

\* (mutant of RecipeChunks: the short records are overlooked)
LongRecipeChunks == UNION {parts[x] : x \in {y \in Content : rcp[y] = "put"}}

RecipeChunks == UNION {parts[x] : x \in Stored}

\* (mutant of DeltaBases: the bases of live deltas only)
LiveDeltaBases == {idx[c].form : c \in {d \in RecipeChunks : IsDelta(d)}}

\* The bases of every delta of the index, dead ones too: deduplication may
\* bring a dead delta back, and it needs its base then.
DeltaBases == {idx[c].form : c \in {d \in Chunk : IsDelta(d)}}

Live == RecipeChunks \cup DeltaBases

\* The chunks whose index record points into the frame at p.
At(p) == {c \in Chunk : idx[c].pos = p}

Occupied(p) == disk[p] # {} \/ p \in torn

\* The walk over frame headers stops at the first one it cannot parse, so it
\* never sees a frame that lies after a torn one.
Seen(p) ==
  /\ disk[p] # {}
  /\ \A q \in torn : q[1] = p[1] => q[2] > p[2]

----------------------------------------------------------------------------
(* The segment writer.                                                     *)

Newest(s) == s \in segs /\ \A t \in segs : t <= s

\* (mutant of NextSeg: the newest id is taken again)
NewestAgain(s) == s \in Seg /\ (Newest(s) \/ (segs = {} /\ s = 1))

NextSeg(s) ==
  /\ s \in Seg /\ \A t \in segs : t < s
  /\ s = 1 \/ s - 1 \in segs

\* n frames (or remains of frames) in the file of segment s
EndsAt(s, n) ==
  /\ \A k \in n + 1 .. MaxSlot : ~Occupied(<<s, k>>)
  /\ n > 0 => Occupied(<<s, n>>)

OpenWriter(forceNew) ==
  \E s \in Seg, n \in 0 .. MaxSlot :
    /\ \/ ~forceNew /\ Newest(s) /\ EndsAt(s, n) /\ n < MaxSlot
       \/ NextSeg(s) /\ n = 0
          /\ (forceNew \/ \A t \in segs : Newest(t) => EndsAt(t, MaxSlot))
    /\ w' = [seg |-> s, size |-> n]
    /\ segs' = segs \cup {s}

\* Where the next frame goes: this segment, or a new one if this is full.
Target(p) ==
  IF w.size < MaxSlot THEN p = <<w.seg, w.size + 1>>
                      ELSE p[2] = 1 /\ NextSeg(p[1])

\* (mutant of Closed: the fsync is skipped)
NotSynced == unsynced

\* What is still unsynced after sync() or close() of the writer, and once
\* the writer is at p: a full segment is closed before the next is opened.
Closed   == {}
Carry(p) == IF p[1] = w.seg THEN unsynced ELSE Closed

WriteFrame(p, body) ==
  /\ Target(p)
  /\ disk' = [disk EXCEPT ![p] = body]
  /\ torn' = torn \ {p}
  /\ segs' = segs \cup {p[1]}
  /\ w' = [seg |-> p[1], size |-> p[2]]
  /\ unsynced' = Carry(p) \cup {p}

\* The write fails half way (disk full): the remains stay in the file, and
\* the writer does not advance over them.
TornWrite(p) ==
  /\ "tornFrame" \in Faults
  /\ Target(p)
  /\ torn' = torn \cup {p}
  /\ segs' = segs \cup {p[1]}
  /\ w' = [seg |-> p[1], size |-> p[2] - 1]
  /\ unsynced' = Carry(p)
  /\ UNCHANGED disk

----------------------------------------------------------------------------
(* A batch: Begin, Put, the frames it cuts, Commit, Close or Abort.        *)

Begin(session) ==
  /\ lock = "free"
  /\ lock' = session /\ stage' = "fill"
  /\ OpenWriter(FALSE)
  /\ tornLog' = FALSE
  /\ UNCHANGED <<disk, torn, idx, rcp, unsynced, batchVars, planVars>>

Filling(session) == lock = session /\ stage = "fill"

Pending      == {items[i].c : i \in DOMAIN items}
PendingWhole == {items[i].c : i \in {j \in DOMAIN items : items[j].form = Whole}}

AddItem(c, f) ==
  /\ items' = Append(items, [c |-> c, form |-> f, pos |-> NoPos])
  /\ UNCHANGED <<diskVars, logVars, lock, stage, w, unsynced, written,
                 indexed, queued, planVars>>

\* A block the batch may take a delta against: kept whole by this batch, or
\* whole in the depot.
BaseChoices(c) == {b \in Chunk \ {c} : b \in PendingWhole \/ IsWhole(b)}

PutChunk(c) ==
  /\ Filling("put")
  /\ c \notin Pending /\ ~Known(c)
  /\ \E f \in {Whole} \cup BaseChoices(c) : AddItem(c, f)

\* The short record: a recipe whose one block is the content and is whole.
RecordKind(x) ==
  IF x \in Mono /\ \A c \in parts[x] : c \in PendingWhole \/ IsWhole(c)
  THEN "one" ELSE "put"

PutRecipe(x) ==
  /\ Filling("put")
  /\ \A c \in parts[x] : c \in Pending \/ Known(c)
  /\ rcp[x] = "none" /\ queued[x] = "none"
  /\ queued' = [queued EXCEPT ![x] = RecordKind(x)]
  /\ UNCHANGED <<diskVars, logVars, lock, stage, w, unsynced, items, written,
                 indexed, planVars>>

\* A block accepted as the new base of c by Optimize or rebaseOrphans.
UsableBase(b, c) ==
  /\ b # c /\ b \in RecipeChunks
  /\ ~\E i \in DOMAIN items : items[i].c = b /\ items[i].form # Whole
  /\ IsWhole(b)

RebaseDelta(c) ==
  /\ Filling("rebase")
  /\ c \in RecipeChunks /\ IsDelta(c) /\ idx[c].form \notin RecipeChunks
  /\ c \notin Pending
  /\ \E f \in {Whole} \cup {b \in Chunk : UsableBase(b, c)} : AddItem(c, f)

\* (mutant of IsBase: the deltas of this very batch are overlooked)
IsIndexedBase(c) == c \in DeltaBases

IsBase(c) == c \in DeltaBases \/ \E i \in DOMAIN items : items[i].form = c

\* (mutant of ShortBlock: no block is kept whole for a short recipe)
NoShortBlock(c) == FALSE

\* Short recipes take the content's size from the index, so their block
\* stays whole.
ShortBlock(c) == \E x \in Content : rcp[x] = "one" /\ parts[x] = {c}

Convertible(c) ==
  /\ c \in RecipeChunks /\ IsWhole(c) /\ c \notin Pending
  /\ ~IsBase(c) /\ ~ShortBlock(c)

OptimizeChunk(c) ==
  /\ Filling("optimize")
  /\ Convertible(c)
  /\ \E b \in Chunk : UsableBase(b, c) /\ AddItem(c, b)

\* The frame made of the next blocks in memory, up to the n-th.
CutFrame(n, p) ==
  /\ lock \in Batches /\ stage = "fill"
  /\ WriteFrame(p, {<<items[i].c, items[i].form>> : i \in written + 1 .. n})
  /\ items' = [i \in DOMAIN items |->
                 IF i \in written + 1 .. n THEN [items[i] EXCEPT !.pos = p]
                                           ELSE items[i]]
  /\ written' = n
  /\ UNCHANGED <<logVars, lock, stage, indexed, queued, planVars>>

\* A round writes several frames; when one fails, the retry writes the whole
\* round again, from a frame boundary k on.
Boundary(k) == k \in 1 .. written - 1 => items[k].pos # items[k + 1].pos

CutFrameFails(k, p) ==
  /\ lock \in Batches /\ stage = "fill" /\ written < Len(items)
  /\ Boundary(k)
  /\ TornWrite(p)
  /\ items' = [i \in DOMAIN items |->
                 IF i \in k + 1 .. written THEN [items[i] EXCEPT !.pos = NoPos]
                                           ELSE items[i]]
  /\ written' = k
  /\ UNCHANGED <<logVars, lock, stage, indexed, queued, planVars>>

\* (mutant of AllWritten: the blocks still in memory are forgotten)
AnyWritten == TRUE

\* Commit, 1: the last frames are cut and the blocks reach the disk.
AllWritten == written = Len(items)

Commit ==
  /\ lock \in Batches /\ stage = "fill" /\ AllWritten
  /\ items # <<>> \/ queued # NoRecipe
  /\ unsynced' = Closed
  /\ stage' = "index"
  /\ UNCHANGED <<diskVars, logVars, lock, w, batchVars, planVars>>

\* Commit, 2: the index reaches the disk, one record after another.
AppendIndex ==
  /\ stage = "index" /\ ~tornLog /\ indexed < Len(items)
  /\ LET r == items[indexed + 1]
     IN  idx' = [idx EXCEPT ![r.c] = [pos |-> r.pos, form |-> r.form]]
  /\ indexed' = indexed + 1
  /\ UNCHANGED <<diskVars, tornLog, rcp, lock, stage, w, unsynced, items,
                 written, queued, planVars>>

\* A batch of Puts goes on after a Commit, with whatever it has not
\* forgotten; rebaseOrphans and Optimize commit once, in their Close.
Resumed == IF lock = "put" THEN "fill" ELSE "closing"

\* The append stops inside a record; the batch stays open with its records.
AppendIndexTorn ==
  /\ "tornIndex" \in Faults
  /\ stage = "index" /\ ~tornLog /\ indexed < Len(items)
  /\ tornLog' = TRUE /\ stage' = Resumed
  /\ UNCHANGED <<diskVars, idx, rcp, lock, w, unsynced, batchVars, planVars>>

\* (mutant of AllIndexed: off by one)
LastNotIndexed == indexed >= Len(items) - 1

\* The records are in (or, appended behind half a record, are truncated with
\* it by the refresh that follows): the batch forgets its blocks.
AllIndexed == indexed = Len(items)

IndexRefreshed ==
  /\ stage = "index"
  /\ tornLog \/ AllIndexed
  /\ items' = <<>> /\ written' = 0 /\ indexed' = 0 /\ tornLog' = FALSE
  /\ stage' = "recipes"
  /\ UNCHANGED <<diskVars, idx, rcp, lock, w, unsynced, queued, planVars>>

\* Commit, 3: the recipes.
AppendRecipe(x) ==
  /\ stage = "recipes" /\ queued[x] # "none"
  /\ rcp' = [rcp EXCEPT ![x] = queued[x]]
  /\ queued' = [queued EXCEPT ![x] = "none"]
  /\ UNCHANGED <<diskVars, idx, tornLog, lock, stage, w, unsynced, items,
                 written, indexed, planVars>>

\* The Commit is over, or it stopped with an error.
CommitReturns ==
  /\ stage \in {"index", "recipes"}
  /\ stage' = Resumed
  /\ UNCHANGED <<diskVars, logVars, lock, w, unsynced, batchVars, planVars>>

\* Close after its Commit, or Abort.
Release ==
  /\ stage \in {"fill", "closing"}
  /\ lock' = "free" /\ stage' = "idle" /\ w' = NoWriter
  /\ unsynced' = Closed
  /\ items' = <<>> /\ written' = 0 /\ indexed' = 0 /\ queued' = NoRecipe
  /\ UNCHANGED <<diskVars, logVars, planVars>>

\* Store.Remove under its own lock, or Batch.Remove under the batch's.
Remove(x) ==
  /\ lock = "free" \/ Filling("put")
  /\ rcp[x] # "none" \/ queued[x] # "none"
  /\ rcp' = [rcp EXCEPT ![x] = "none"]
  /\ queued' = [queued EXCEPT ![x] = "none"]
  /\ tornLog' = FALSE
  /\ UNCHANGED <<diskVars, idx, lock, stage, w, unsynced, items, written,
                 indexed, planVars>>

----------------------------------------------------------------------------
(* gc and Recompress: both write the frames they keep to new segments,     *)
(* swap the index by rename and then delete the old segments.              *)

Frames(R) == {p \in Pos : p[1] \in R /\ disk[p] # {}}
LiveFrame(p) == At(p) \cap Live # {}

\* Nothing alive in the segment: deleted without copying anything.
Dead(s) == \A p \in Pos : p[1] = s => ~LiveFrame(p)

\* No frame the walk sees: it counts as a segment of no bytes.
Blind(s) == \A p \in Frames({s}) : ~Seen(p)

\* Nothing in the frame is garbage: dead, or a form the index has replaced.
AllLive(p) ==
  \A cf \in disk[p] : cf[1] \in Live /\ idx[cf[1]] = [pos |-> p, form |-> cf[2]]

\* Garbage in a frame that the walk sees and that is not copied as it is.
Reclaimable(s, V) == \E p \in Frames({s}) \ V : Seen(p) /\ ~AllLive(p)

\* A frame the walk did not see counts no bytes, so it is never "too dead".
MustCopy(p) == LiveFrame(p) /\ ~Seen(p)

\* R is rewritten; the frames of V are copied as they are (their dead blocks
\* stay indexed), the live blocks of the other frames of R are moved.
GcPlan(R, V) ==
  /\ lock = "free"
  /\ \A s \in segs : Dead(s) \/ Blind(s) => s \in R
  /\ \A s \in R : Dead(s) \/ Blind(s) \/ Reclaimable(s, V)
  /\ \A p \in Frames(R) : MustCopy(p) => p \in V
  /\ lock' = "gc" /\ stage' = "copy" /\ victims' = R /\ copy' = V
  /\ move' = {c \in Live : idx[c].pos[1] \in R /\ idx[c].pos \notin V}
  /\ newIdx' = [c \in Chunk |-> IF idx[c].pos[1] \in R THEN NoLoc ELSE idx[c]]
  /\ IF V = {} /\ move' = {} THEN UNCHANGED <<w, segs>> ELSE OpenWriter(TRUE)
  /\ tornLog' = FALSE
  /\ UNCHANGED <<disk, torn, idx, rcp, unsynced, batchVars>>

\* Recompress picks whole segments and copies the frames that the header
\* walk lists and the index uses.
ColdPlan(R) ==
  /\ HaveZstdMax
  /\ lock = "free"
  /\ \A s \in R : \E p \in Frames({s}) : Seen(p)
  /\ lock' = "cold" /\ stage' = "copy" /\ victims' = R
  /\ copy' = {p \in Frames(R) : Seen(p) /\ At(p) # {}}
  /\ move' = {} /\ newIdx' = idx
  /\ OpenWriter(TRUE)
  /\ tornLog' = FALSE
  /\ UNCHANGED <<disk, torn, idx, rcp, unsynced, batchVars>>

CopyFrame(p, q) ==
  /\ stage = "copy" /\ p \in copy
  /\ WriteFrame(q, disk[p])
  /\ newIdx' = [c \in Chunk |-> IF c \in At(p) THEN [idx[c] EXCEPT !.pos = q]
                                              ELSE newIdx[c]]
  /\ copy' = copy \ {p}
  /\ UNCHANGED <<logVars, lock, stage, batchVars, move, victims>>

MoveBlocks(M, q) ==
  /\ stage = "copy" /\ copy = {}
  /\ WriteFrame(q, {<<c, idx[c].form>> : c \in M})
  /\ newIdx' = [c \in Chunk |-> IF c \in M THEN [idx[c] EXCEPT !.pos = q]
                                           ELSE newIdx[c]]
  /\ move' = move \ M
  /\ UNCHANGED <<logVars, lock, stage, batchVars, copy, victims>>

SwapIndex ==
  /\ stage = "copy" /\ copy = {} /\ move = {}
  /\ unsynced' = Closed
  /\ w' = NoWriter
  /\ idx' = newIdx /\ newIdx' = NoIdx
  /\ stage' = "delete"
  /\ UNCHANGED <<diskVars, tornLog, rcp, lock, batchVars, copy, move, victims>>

DeleteSegment(s) ==
  /\ stage = "delete" /\ s \in victims
  /\ segs' = segs \ {s}
  /\ disk' = [p \in Pos |-> IF p[1] = s THEN {} ELSE disk[p]]
  /\ torn' = {p \in torn : p[1] # s}
  /\ victims' = victims \ {s}
  /\ UNCHANGED <<logVars, lock, stage, w, unsynced, batchVars, newIdx, copy, move>>

PlanDropped == newIdx' = NoIdx /\ copy' = {} /\ move' = {} /\ victims' = {}

\* The end, or a return with an error: before the swap nothing is lost, and
\* after it a segment that could not be removed stays as garbage.
RewriteReturns ==
  /\ stage \in {"copy", "delete"}
  /\ lock' = "free" /\ stage' = "idle" /\ w' = NoWriter
  /\ unsynced' = Closed
  /\ PlanDropped
  /\ UNCHANGED <<diskVars, logVars, batchVars>>

RewriteWriteFails(p) ==
  /\ stage = "copy" /\ (copy # {} \/ move # {})
  /\ "tornFrame" \in Faults /\ Target(p)
  /\ torn' = torn \cup {p} /\ segs' = segs \cup {p[1]}
  /\ unsynced' = Closed
  /\ lock' = "free" /\ stage' = "idle" /\ w' = NoWriter
  /\ PlanDropped
  /\ UNCHANGED <<disk, logVars, batchVars>>

----------------------------------------------------------------------------
(* The machine stops.  Frames not yet fsynced survive whole, as a torn     *)
(* frame or not at all; everything in memory goes.                         *)

\* Remains are torn only where a later write of the file survives, or where
\* the disk tears.
CrashOutcome(keep, holes) ==
  /\ \A p \in unsynced \ (keep \cup holes) :
       \A q \in keep \cup holes \cup torn : q[1] = p[1] => q[2] < p[2]
  /\ "tornFrame" \notin Faults => holes = {}

Crash ==
  /\ lock # "free"
  /\ \E keep \in SUBSET unsynced : \E holes \in SUBSET (unsynced \ keep) :
       /\ CrashOutcome(keep, holes)
       /\ disk' = [p \in Pos |-> IF p \in unsynced \ keep THEN {} ELSE disk[p]]
       /\ torn' = torn \cup holes
  /\ lock' = "free" /\ stage' = "idle" /\ w' = NoWriter /\ unsynced' = {}
  /\ items' = <<>> /\ written' = 0 /\ indexed' = 0 /\ queued' = NoRecipe
  /\ PlanDropped
  /\ UNCHANGED <<segs, logVars>>

----------------------------------------------------------------------------

Fill ==
  \/ \E session \in Batches : Begin(session)
  \/ \E c \in Chunk : PutChunk(c) \/ RebaseDelta(c) \/ OptimizeChunk(c)
  \/ \E x \in Content : PutRecipe(x) \/ Remove(x)
  \/ \E n \in written + 1 .. Len(items), p \in Pos : CutFrame(n, p)
  \/ \E k \in indexed .. written, p \in Pos : CutFrameFails(k, p)

Publish ==
  \/ Commit
  \/ AppendIndex \/ AppendIndexTorn \/ IndexRefreshed
  \/ \E x \in Content : AppendRecipe(x)
  \/ CommitReturns \/ Release

Rewrite ==
  \/ \E R \in (SUBSET segs) \ {{}} :
       \/ \E V \in SUBSET {p \in Frames(R) : LiveFrame(p)} : GcPlan(R, V)
       \/ ColdPlan(R)
  \/ \E p \in copy, q \in Pos : CopyFrame(p, q)
  \/ \E M \in (SUBSET move) \ {{}}, q \in Pos : MoveBlocks(M, q)
  \/ SwapIndex
  \/ \E s \in victims : DeleteSegment(s)
  \/ RewriteReturns
  \/ \E p \in Pos : RewriteWriteFails(p)

Next == Fill \/ Publish \/ Rewrite \/ Crash

Spec == Init /\ [][Next]_vars

----------------------------------------------------------------------------
(* Properties.                                                             *)

TypeOK ==
  /\ disk \in [Pos -> SUBSET (Chunk \X Form)]
  /\ torn \subseteq Pos /\ segs \subseteq Seg /\ unsynced \subseteq Pos
  /\ idx \in [Chunk -> Loc] /\ newIdx \in [Chunk -> Loc]
  /\ rcp \in [Content -> Kind] /\ queued \in [Content -> Kind]
  /\ tornLog \in BOOLEAN
  /\ lock \in Batches \cup {"free", "gc", "cold"}
  /\ stage \in {"idle", "fill", "index", "recipes", "closing", "copy", "delete"}
  /\ w \in [seg : Seg \cup {0}, size : 0 .. MaxSlot]
  /\ items \in Seq(Item)
  /\ written \in 0 .. Len(items) /\ indexed \in 0 .. written
  /\ copy \subseteq Pos /\ move \subseteq Chunk /\ victims \subseteq Seg

\* The bytes of c are where the index says, in the form it says.
Holds(c) == Known(c) /\ <<c, idx[c].form>> \in disk[idx[c].pos]

\* c can be read: directly, or against a base that is itself whole.
BlockReadable(c) == Holds(c) /\ (IsDelta(c) => IsWhole(idx[c].form) /\ Holds(idx[c].form))

Intact(x) == \A c \in parts[x] : BlockReadable(c)

\* Every content with a recipe on disk can be read back, at every moment and
\* after every crash.
Readable == \A x \in Stored : Intact(x)

\* Every indexed block can be read, the dead ones that deduplication may
\* bring back included: no dangling position, no delta of a delta and no
\* delta whose base the collector took.
IndexSound == \A c \in Chunk : Known(c) => BlockReadable(c)

\* Blocks before index: the index never points to a frame that a power cut
\* can still take.
IndexedOnDisk == \A c \in Chunk : idx[c].pos \notin unsynced

\* A short recipe has its one block whole in the index, which is where the
\* size of the content is read.
ShortIsWhole ==
  \A x \in Content : rcp[x] = "one" => \A c \in parts[x] : IsWhole(c)

\* The depot keeps its promise: a content becomes readable only by a commit of
\* a batch that asked for it, and stays readable through every collection,
\* rewrite and crash until somebody removes it.
Promise == INSTANCE DepotPromise WITH
  stored <- {x \in Stored : Intact(x)},
  asked  <- {x \in Content : queued[x] # "none"}

KeepsPromise == Promise!Spec
============================================================================
