-------------------------- MODULE DepotSafetyProof --------------------------
(***************************************************************************)
(* IndexInv is an inductive invariant of Depot, and IndexSound and         *)
(* IndexedOnDisk follow from it.  Its parts are proved in the order        *)
(* Control, Fresh, the batch (BatchInv), Synced, the plan of gc or         *)
(* Recompress (PlanInv) and IndexSound, each from the parts before it.     *)
(***************************************************************************)
EXTENDS DepotTypeProof

\* A batch with no blocks has written and logged none.
LEMMA NoItems == TypeOK /\ items = <<>> => written = 0 /\ indexed = 0
  BY ItemsType

\* Each session goes through its own stages, under its lock.
LEMMA ControlNext ==
  ASSUME TypeOK, Control, [Next]_vars
  PROVE  Control'
  <1>1. CASE Fill
    <2>1. ASSUME NEW session \in Batches, Begin(session) PROVE Control'
      BY <2>1, NoItems DEF Control, Begin, Batches, BatchStages, RewriteStages, batchVars
    <2>2. ASSUME NEW c \in Chunk, PutChunk(c) \/ RebaseDelta(c) \/ OptimizeChunk(c)
          PROVE  Control'
      BY <2>2 DEF Control, PutChunk, RebaseDelta, OptimizeChunk, AddItem, Filling, Batches,
         BatchStages, RewriteStages
    <2>3. ASSUME NEW x \in Content, PutRecipe(x) PROVE Control'
      BY <2>3 DEF Control, PutRecipe, Filling, Batches, BatchStages, RewriteStages
    <2>4. ASSUME NEW x \in Content, Remove(x) PROVE Control'
      <3>1. queued' = [queued EXCEPT ![x] = "none"] /\ (lock = "put" \/ lock = "free")
        BY <2>4 DEF Remove, Filling
      <3>2. queued = NoRecipe => queued' = NoRecipe
        BY <3>1 DEF NoRecipe
      <3> QED
        BY <2>4, <3>2 DEF Control, Remove, Batches, BatchStages, RewriteStages
    <2>5. ASSUME NEW n \in written + 1 .. Len(items), NEW p \in Pos, CutFrame(n, p)
          PROVE  Control'
      BY <2>5 DEF Control, CutFrame, BatchStages, RewriteStages, Batches
    <2>6. ASSUME NEW k \in indexed .. written, NEW p \in Pos, CutFrameFails(k, p)
          PROVE  Control'
      BY <2>6 DEF Control, CutFrameFails, BatchStages, RewriteStages, Batches
    <2> QED
      BY <1>1, <2>1, <2>2, <2>3, <2>4, <2>5, <2>6 DEF Fill
  <1>2. CASE Publish
    <2>1. CASE Commit
      BY <2>1 DEF Control, Commit, Batches, BatchStages, RewriteStages, batchVars
    <2>2. CASE AppendIndex \/ AppendIndexTorn \/ CommitReturns
      BY <2>2 DEF Control, AppendIndex, AppendIndexTorn, CommitReturns, Resumed, Batches,
         BatchStages, RewriteStages, batchVars
    <2>3. CASE IndexRefreshed
      BY <2>3 DEF Control, IndexRefreshed, Batches, BatchStages, RewriteStages
    <2>4. ASSUME NEW x \in Content, AppendRecipe(x) PROVE Control'
      <3>1. queued = NoRecipe => queued' = NoRecipe
        BY <2>4 DEF AppendRecipe, NoRecipe
      <3> QED
        BY <2>4, <3>1 DEF Control, AppendRecipe, Batches, BatchStages, RewriteStages
    <2>5. CASE Release
      BY <2>5 DEF Control, Release, Batches, BatchStages, RewriteStages
    <2> QED
      BY <1>2, <2>1, <2>2, <2>3, <2>4, <2>5 DEF Publish
  <1>3. CASE Rewrite
    <2>1. ASSUME NEW R \in SUBSET segs, NEW V, GcPlan(R, V) PROVE Control'
      BY <2>1 DEF Control, GcPlan, Batches, BatchStages, RewriteStages, batchVars
    <2>2. ASSUME NEW R \in SUBSET segs, ColdPlan(R) PROVE Control'
      BY <2>2 DEF Control, ColdPlan, Batches, BatchStages, RewriteStages, batchVars
    <2>3. ASSUME NEW p, NEW q, CopyFrame(p, q) PROVE Control'
      BY <2>3 DEF Control, CopyFrame, Batches, BatchStages, RewriteStages, batchVars
    <2>4. ASSUME NEW M, NEW q, MoveBlocks(M, q) PROVE Control'
      BY <2>4 DEF Control, MoveBlocks, Batches, BatchStages, RewriteStages, batchVars
    <2>5. CASE SwapIndex
      BY <2>5 DEF Control, SwapIndex, Batches, BatchStages, RewriteStages, batchVars
    <2>6. ASSUME NEW s, DeleteSegment(s) PROVE Control'
      BY <2>6 DEF Control, DeleteSegment, Batches, BatchStages, RewriteStages, batchVars
    <2>7. ASSUME RewriteReturns \/ \E p \in Pos : RewriteWriteFails(p) PROVE Control'
      BY <2>7 DEF Control, RewriteReturns, RewriteWriteFails, Batches, BatchStages,
         RewriteStages, batchVars
    <2> QED
      BY <1>3, <2>1, <2>2, <2>3, <2>4, <2>5, <2>6, <2>7 DEF Rewrite
  <1>4. CASE Crash
    BY <1>4 DEF Control, Crash, Batches, BatchStages, RewriteStages
  <1>5. CASE UNCHANGED vars
    BY <1>5 DEF Control, vars
  <1> QED
    BY <1>1, <1>2, <1>3, <1>4, <1>5 DEF Next

\* Where the disk tears no frame, there are no remains of frames.
LEMMA NoTearNext ==
  ASSUME SeesAll, TypeOK, NoTear, [Next]_vars
  PROVE  NoTear'
  <1> SUFFICES ASSUME HaveZstdMax PROVE torn' = {}
    BY DEF NoTear
  <1>0. torn = {} /\ "tornFrame" \notin Faults
    BY DEF SeesAll, NoTear
  <1>1. CASE Fill
    BY <1>0, <1>1 DEF Fill, Begin, PutChunk, RebaseDelta, OptimizeChunk, AddItem, PutRecipe, Remove,
       CutFrame, CutFrameFails, WriteFrame, TornWrite, diskVars
  <1>2. CASE Publish
    BY <1>0, <1>2 DEF Publish, Commit, AppendIndex, AppendIndexTorn, IndexRefreshed, AppendRecipe,
       CommitReturns, Release, diskVars
  <1>3. CASE Rewrite
    BY <1>0, <1>3 DEF Rewrite, GcPlan, ColdPlan, CopyFrame, MoveBlocks, SwapIndex, DeleteSegment,
       RewriteReturns, RewriteWriteFails, WriteFrame, diskVars
  <1>4. CASE Crash
    BY <1>0, <1>4 DEF Crash, CrashOutcome
  <1>5. CASE UNCHANGED vars
    BY <1>0, <1>5 DEF vars
  <1> QED
    BY <1>1, <1>2, <1>3, <1>4, <1>5 DEF Next

\* The next frame goes where there is none.
LEMMA TargetFree ==
  ASSUME TypeOK, Fresh, NEW p \in Pos, Target(p)
  PROVE  /\ disk[p] = {} /\ p[1] \in Seg /\ p[2] \in Nat
         /\ p = <<p[1], p[2]>>
         /\ (p[1] = w.seg /\ p[2] = w.size + 1) \/ p[1] \notin segs
  <1>1. p[1] \in Seg /\ p[2] \in Nat /\ p = <<p[1], p[2]>> /\ w.size \in Nat
    BY DEF Pos, Slot, TypeOK
  <1>2. CASE w.size < MaxSlot
    BY <1>1, <1>2 DEF Target, Fresh
  <1>3. CASE ~(w.size < MaxSlot)
    <2>1. p[1] \notin segs
      BY <1>1, <1>3, SizeAssumption DEF Target, NextSeg, TypeOK, Seg
    <2> QED
      BY <1>1, <2>1 DEF Fresh
  <1> QED
    BY <1>2, <1>3

\* writeFrame adds a frame at the end and touches no other.
LEMMA FreshWrite ==
  ASSUME TypeOK, Fresh, NEW p \in Pos, NEW body, WriteFrame(p, body)
  PROVE  Fresh' /\ \A q \in Pos : q # p => disk'[q] = disk[q]
  <1>1. Target(p) /\ disk' = [disk EXCEPT ![p] = body] /\ segs' = segs \cup {p[1]}
        /\ w' = [seg |-> p[1], size |-> p[2]]
    BY DEF WriteFrame
  <1>2. \A q \in Pos : q # p => disk'[q] = disk[q]
    BY <1>1 DEF TypeOK
  <1>3. ASSUME NEW q \in Pos, q[1] \notin segs' PROVE disk'[q] = {}
    BY <1>1, <1>2, <1>3 DEF Fresh
  <1>4. ASSUME NEW q \in Pos, q[1] = p[1], q[2] > p[2] PROVE disk'[q] = {}
    <2>1. q # p /\ q[2] \in Nat /\ p[2] \in Nat
      BY <1>4 DEF Pos, Slot
    <2> QED
      BY <1>1, <1>2, <1>4, <2>1, TargetFree DEF Fresh, TypeOK
  <1> QED
    BY <1>1, <1>2, <1>3, <1>4 DEF Fresh

\* The remains of a failed write leave no frame past the end.
LEMMA FreshTorn ==
  ASSUME TypeOK, Fresh, NEW p \in Pos, Target(p),
         disk' = disk, segs' = segs \cup {p[1]}, w' = [seg |-> p[1], size |-> p[2] - 1]
  PROVE  Fresh'
  <1>1. ASSUME NEW q \in Pos, q[1] = p[1], q[2] > p[2] - 1 PROVE disk[q] = {}
    <2>1. q[2] \in Nat /\ p[2] \in Nat /\ q = <<q[1], q[2]>>
      BY DEF Pos, Slot
    <2> QED
      BY <1>1, <2>1, TargetFree DEF Fresh, TypeOK
  <1> QED
    BY <1>1 DEF Fresh

\* openSegWriter starts at the end of the newest segment, or in a new one.
LEMMA FreshOpen ==
  ASSUME TypeOK, Fresh, NEW forceNew, OpenWriter(forceNew), disk' = disk
  PROVE  Fresh'
  <1>1. PICK s \in Seg, n \in 0 .. MaxSlot :
          /\ EndsAt(s, n) \/ (NextSeg(s) /\ n = 0)
          /\ w' = [seg |-> s, size |-> n]
          /\ segs' = segs \cup {s}
    BY DEF OpenWriter
  <1>2. ASSUME NEW p \in Pos, p[1] = s, p[2] > n PROVE disk[p] = {}
    <2>1. p = <<s, p[2]>> /\ p[2] \in 1 .. MaxSlot
      BY <1>2 DEF Pos, Slot
    <2>2. CASE EndsAt(s, n)
      BY <1>2, <2>1, <2>2, SizeAssumption DEF EndsAt, Occupied
    <2>3. CASE NextSeg(s)
      BY <1>2, <2>3 DEF NextSeg, Fresh, TypeOK, Seg
    <2> QED
      BY <1>1, <2>2, <2>3
  <1> QED
    BY <1>1, <1>2 DEF Fresh

\* No step puts a frame past the end of the segment being written.
LEMMA FreshNext ==
  ASSUME TypeOK, Control, Fresh, [Next]_vars
  PROVE  Fresh'
  <1>1. CASE Fill
    <2>1. ASSUME NEW session \in Batches, Begin(session) PROVE Fresh'
      BY <2>1, FreshOpen DEF Begin
    <2>2. ASSUME NEW c \in Chunk, PutChunk(c) \/ RebaseDelta(c) \/ OptimizeChunk(c)
          PROVE  Fresh'
      BY <2>2 DEF PutChunk, RebaseDelta, OptimizeChunk, AddItem, Fresh, diskVars
    <2>3. ASSUME NEW x \in Content, PutRecipe(x) \/ Remove(x) PROVE Fresh'
      BY <2>3 DEF PutRecipe, Remove, Fresh, diskVars
    <2>4. ASSUME NEW n \in written + 1 .. Len(items), NEW p \in Pos, CutFrame(n, p)
          PROVE  Fresh'
      BY <2>4, FreshWrite DEF CutFrame
    <2>5. ASSUME NEW k \in indexed .. written, NEW p \in Pos, CutFrameFails(k, p)
          PROVE  Fresh'
      BY <2>5, FreshTorn DEF CutFrameFails, TornWrite
    <2> QED
      BY <1>1, <2>1, <2>2, <2>3, <2>4, <2>5 DEF Fill
  <1>2. CASE Publish
    <2>1. disk' = disk /\ segs' = segs /\ (w' = w \/ w' = NoWriter)
      BY <1>2 DEF Publish, Commit, AppendIndex, AppendIndexTorn, IndexRefreshed, AppendRecipe,
         CommitReturns, Release, diskVars
    <2> QED
      BY <2>1 DEF Fresh, NoWriter, Pos, Seg
  <1>3. CASE Rewrite
    <2>1. ASSUME NEW R \in SUBSET segs, NEW V, GcPlan(R, V) PROVE Fresh'
      <3>1. CASE UNCHANGED <<w, segs>>
        BY <2>1, <3>1 DEF GcPlan, Fresh
      <3>2. CASE OpenWriter(TRUE)
        BY <2>1, <3>2, FreshOpen DEF GcPlan
      <3> QED
        BY <2>1, <3>1, <3>2 DEF GcPlan
    <2>2. ASSUME NEW R \in SUBSET segs, ColdPlan(R) PROVE Fresh'
      BY <2>2, FreshOpen DEF ColdPlan
    <2>3. ASSUME NEW p \in copy, NEW q \in Pos, CopyFrame(p, q) PROVE Fresh'
      BY <2>3, FreshWrite DEF CopyFrame
    <2>4. ASSUME NEW M \in SUBSET move, NEW q \in Pos, MoveBlocks(M, q) PROVE Fresh'
      BY <2>4, FreshWrite DEF MoveBlocks
    <2>5. CASE SwapIndex \/ RewriteReturns
      <3>1. disk' = disk /\ segs' = segs /\ w' = NoWriter
        BY <2>5 DEF SwapIndex, RewriteReturns, diskVars
      <3> QED
        BY <3>1 DEF Fresh, NoWriter, Pos, Seg
    <2>6. ASSUME NEW s \in victims, DeleteSegment(s) PROVE Fresh'
      BY <2>6 DEF DeleteSegment, Fresh, TypeOK
    <2>7. ASSUME NEW p \in Pos, RewriteWriteFails(p) PROVE Fresh'
      <3>1. disk' = disk /\ segs \subseteq segs' /\ w' = NoWriter
        BY <2>7 DEF RewriteWriteFails
      <3> QED
        BY <3>1 DEF Fresh, NoWriter, Pos, Seg
    <2> QED
      BY <1>3, <2>1, <2>2, <2>3, <2>4, <2>5, <2>6, <2>7 DEF Rewrite
  <1>4. CASE Crash
    BY <1>4 DEF Crash, Fresh, NoWriter, Pos, Seg
  <1>5. CASE UNCHANGED vars
    BY <1>5 DEF Fresh, vars
  <1> QED
    BY <1>1, <1>2, <1>3, <1>4, <1>5 DEF Next

\* A frame goes away only by a crash before its fsync or with its segment.
LEMMA DiskKeeps ==
  ASSUME TypeOK, Fresh, [Next]_vars, NEW p \in Pos, ~(disk[p] \subseteq disk'[p])
  PROVE  \/ Crash /\ p \in unsynced
         \/ DeleteSegment(p[1]) /\ p[1] \in victims
  <1>1. CASE Fill
    <2>1. ASSUME NEW n \in written + 1 .. Len(items), NEW q \in Pos, CutFrame(n, q)
          PROVE  FALSE
      BY <2>1, FreshWrite, TargetFree DEF CutFrame, WriteFrame
    <2> QED
      BY <1>1, <2>1 DEF Fill, Begin, PutChunk, RebaseDelta, OptimizeChunk, AddItem, PutRecipe,
         Remove, CutFrameFails, TornWrite, diskVars
  <1>2. CASE Publish
    BY <1>2 DEF Publish, Commit, AppendIndex, AppendIndexTorn, IndexRefreshed, AppendRecipe,
       CommitReturns, Release, diskVars
  <1>3. CASE Rewrite
    <2>1. ASSUME NEW q \in Pos, NEW f \in copy, CopyFrame(f, q) PROVE FALSE
      BY <2>1, FreshWrite, TargetFree DEF CopyFrame, WriteFrame
    <2>2. ASSUME NEW q \in Pos, NEW M, MoveBlocks(M, q) PROVE FALSE
      BY <2>2, FreshWrite, TargetFree DEF MoveBlocks, WriteFrame
    <2>3. ASSUME NEW s \in victims, DeleteSegment(s) PROVE p[1] = s
      BY <2>3 DEF DeleteSegment
    <2> QED
      BY <1>3, <2>1, <2>2, <2>3 DEF Rewrite, GcPlan, ColdPlan, SwapIndex, RewriteReturns,
         RewriteWriteFails, diskVars
  <1>4. CASE Crash
    BY <1>4 DEF Crash
  <1>5. CASE UNCHANGED vars
    BY <1>5 DEF vars
  <1> QED
    BY <1>1, <1>2, <1>3, <1>4, <1>5 DEF Next

----------------------------------------------------------------------------
(* The open batch.                                                         *)

BatchInv == Framed /\ Logged /\ Once /\ Based /\ NewOnly

\* A batch without blocks satisfies its invariant.
LEMMA BatchEmpty ==
  ASSUME TypeOK', items' = <<>>
  PROVE  BatchInv'
  BY DEF BatchInv, Framed, Logged, Once, Based, NewOnly

\* A step that leaves the batch and the index alone, and no frame of it lost.
LEMMA BatchIdle ==
  ASSUME TypeOK, BatchInv, UNCHANGED <<items, written, indexed, idx>>,
         lock' = "put" => lock = "put",
         \A p \in Pos : disk[p] \subseteq disk'[p]
  PROVE  BatchInv'
  <1>1. Framed' /\ Logged' /\ Once'
    BY DEF BatchInv, Framed, Logged, Once
  <1>2. Based' /\ NewOnly'
    BY DEF BatchInv, Based, NewOnly, IsWhole, IsDelta, Known
  <1> QED
    BY <1>1, <1>2 DEF BatchInv

\* What lets AddItem(c, f) join the batch.
Fits(c, f) ==
  /\ c \notin Pending
  /\ f # Whole => /\ IsWhole(f) \/ f \in Pending
                  /\ f # c
                  /\ \A j \in DOMAIN items : items[j].c = f => items[j].form = Whole
  /\ f # Whole => \A i \in DOMAIN items : items[i].form # c
  /\ f # Whole => \A d \in Chunk : IsDelta(d) => idx[d].form # c
  /\ lock = "put" => ~Known(c)

\* A block that fits is queued: its base is whole and it is nobody's base.
LEMMA BatchAdd ==
  ASSUME TypeOK, BatchInv, NEW c \in Chunk, NEW f \in Form, Fits(c, f), AddItem(c, f)
  PROVE  BatchInv'
  <1> DEFINE it == [c |-> c, form |-> f, pos |-> NoPos]
             N == Len(items)
  <1>1. /\ N \in Nat /\ DOMAIN items = 1 .. N /\ DOMAIN items' = 1 .. N + 1
        /\ items'[N + 1] = it /\ \A i \in 1 .. N : items'[i] = items[i]
        /\ written <= N /\ written \in Nat /\ indexed <= N /\ indexed \in Nat
    <2>1. items \in Seq(Item) /\ it \in Item
      BY DEF TypeOK, Item
    <2> QED
      BY <2>1, ItemsType, AppendProperties, LenProperties DEF AddItem
  <1>2. UNCHANGED <<disk, idx, lock, written, indexed>>
    BY DEF AddItem, diskVars, logVars
  <1>3. Framed' /\ Logged'
    BY <1>1, <1>2 DEF BatchInv, Framed, Logged
  <1>4. Once'
    BY <1>1 DEF BatchInv, Once, Fits, Pending
  <1>5. Based'
    <2>1. ASSUME NEW i \in 1 .. N + 1, items'[i].form # Whole
          PROVE  \/ idx'[items'[i].form].pos # NoPos /\ idx'[items'[i].form].form = Whole
                 \/ \E j \in 1 .. N + 1 : j < i /\ items'[j].c = items'[i].form
      <3>1. CASE i = N + 1
        BY <1>1, <1>2, <2>1, <3>1 DEF Fits, Pending, IsWhole, Known
      <3>2. CASE i \in 1 .. N
        BY <1>1, <1>2, <2>1, <3>2 DEF BatchInv, Based, IsWhole, Known
      <3> QED
        BY <1>1, <3>1, <3>2
    <2>2. ASSUME NEW i \in 1 .. N + 1, NEW j \in 1 .. N + 1, items'[i].form = items'[j].c
          PROVE  items'[j].form = Whole
      <3>1. CASE i \in 1 .. N /\ j \in 1 .. N
        BY <1>1, <2>2, <3>1 DEF BatchInv, Based
      <3>2. CASE i \in 1 .. N /\ j = N + 1
        BY <1>1, <2>2, <3>2 DEF Fits
      <3>3. CASE i = N + 1 /\ j \in 1 .. N
        BY <1>1, <2>2, <3>3, ItemsType, DataAssumption DEF Fits, Item
      <3>4. CASE i = N + 1 /\ j = N + 1
        BY <1>1, <2>2, <3>4 DEF Fits
      <3> QED
        BY <1>1, <3>1, <3>2, <3>3, <3>4
    <2>3. ASSUME NEW i \in 1 .. N + 1, NEW d \in Chunk, i > indexed, IsDelta(d)',
                 idx'[d].form = items'[i].c
          PROVE  items'[i].form = Whole
      <3>0. IsDelta(d) /\ idx[d].form = items'[i].c
        BY <1>2, <2>3 DEF IsDelta, Known
      <3>1. CASE i = N + 1
        BY <1>1, <3>0, <3>1 DEF Fits
      <3>2. CASE i \in 1 .. N
        BY <1>1, <2>3, <3>0, <3>2 DEF BatchInv, Based
      <3> QED
        BY <1>1, <3>1, <3>2
    <2> QED
      BY <1>1, <1>2, <2>1, <2>2, <2>3 DEF Based, IsWhole, Known
  <1>6. NewOnly'
    BY <1>1, <1>2 DEF BatchInv, NewOnly, Fits, Known
  <1> QED
    BY <1>3, <1>4, <1>5, <1>6 DEF BatchInv

\* No delta, in the index or in the batch, has a base that is neither whole in
\* the index nor in the batch.
LEMMA NoOrphan ==
  ASSUME TypeOK, BatchInv, IndexSound, NEW c \in Chunk, ~IsWhole(c), c \notin Pending
  PROVE  /\ \A i \in DOMAIN items : items[i].form # c
         /\ \A d \in Chunk : IsDelta(d) => idx[d].form # c
  <1>1. ASSUME NEW i \in DOMAIN items PROVE items[i].form # c
    BY DataAssumption DEF BatchInv, Based, Pending
  <1>2. ASSUME NEW d \in Chunk, IsDelta(d) PROVE idx[d].form # c
    BY <1>2 DEF IndexSound, BlockReadable, IsDelta
  <1> QED
    BY <1>1, <1>2

\* Put: tryDelta takes only whole bases, and the block is new.
LEMMA PutFits ==
  ASSUME TypeOK, BatchInv, IndexSound, NEW c \in Chunk, PutChunk(c)
  PROVE  \E f \in Form : Fits(c, f) /\ AddItem(c, f)
  <1>1. PICK f \in {Whole} \cup BaseChoices(c) : AddItem(c, f)
    BY DEF PutChunk
  <1>2. f \in Form /\ c \notin Pending /\ ~Known(c)
    BY <1>1 DEF PutChunk, Form, BaseChoices
  <1>3. ASSUME f # Whole
        PROVE  /\ IsWhole(f) \/ f \in Pending
               /\ f # c
               /\ \A j \in DOMAIN items : items[j].c = f => items[j].form = Whole
    <2>1. f \in Chunk \ {c} /\ (f \in PendingWhole \/ IsWhole(f))
      BY <1>1, <1>3 DEF BaseChoices
    <2>2. ASSUME NEW j \in DOMAIN items, items[j].c = f PROVE items[j].form = Whole
      <3>1. CASE f \in PendingWhole
        <4>1. PICK i \in DOMAIN items : items[i].c = f /\ items[i].form = Whole
          BY <3>1 DEF PendingWhole
        <4> QED
          BY <2>2, <4>1 DEF BatchInv, Once
      <3>2. CASE IsWhole(f)
        <4>1. j <= indexed
          BY <2>2, <3>2, ItemsType DEF IsWhole, BatchInv, NewOnly, PutChunk, Filling
        <4>2. idx[f] = [pos |-> items[j].pos, form |-> items[j].form]
          BY <2>2, <4>1 DEF BatchInv, Logged
        <4> QED
          BY <3>2, <4>2 DEF IsWhole
      <3> QED
        BY <2>1, <3>1, <3>2
    <2> QED
      BY <2>1, <2>2 DEF PendingWhole, Pending
  <1>4. Fits(c, f)
    BY <1>2, <1>3, NoOrphan DEF Fits, IsWhole
  <1> QED
    BY <1>1, <1>2, <1>4

\* rebaseOrphans: the new base is whole and used by a recipe.
LEMMA RebaseFits ==
  ASSUME TypeOK, BatchInv, IndexSound, NEW c \in Chunk, RebaseDelta(c)
  PROVE  \E f \in Form : Fits(c, f) /\ AddItem(c, f)
  <1>1. PICK f \in {Whole} \cup {b \in Chunk : UsableBase(b, c)} : AddItem(c, f)
    BY DEF RebaseDelta
  <1>2. f \in Form /\ c \notin Pending /\ ~IsWhole(c) /\ lock # "put"
    BY <1>1 DEF RebaseDelta, Form, IsWhole, IsDelta, Filling
  <1>3. f # Whole => UsableBase(f, c)
    BY <1>1
  <1> QED
    BY <1>1, <1>2, <1>3, NoOrphan DEF Fits, UsableBase

\* Optimize: no base becomes a delta, and the base stays whole.
LEMMA OptimizeFits ==
  ASSUME TypeOK, BatchInv, IndexSound, NEW c \in Chunk, OptimizeChunk(c)
  PROVE  \E f \in Form : Fits(c, f) /\ AddItem(c, f)
  <1>1. PICK f \in Chunk : UsableBase(f, c) /\ AddItem(c, f)
    BY DEF OptimizeChunk
  <1>2. f \in Form /\ c \notin Pending /\ lock # "put" /\ ~IsBase(c)
    BY DEF OptimizeChunk, Form, Convertible, Filling
  <1>3. /\ \A i \in DOMAIN items : items[i].form # c
        /\ \A d \in Chunk : IsDelta(d) => idx[d].form # c
    BY <1>2 DEF IsBase, DeltaBases
  <1> QED
    BY <1>1, <1>2, <1>3 DEF Fits, UsableBase

\* writeJobs: the frame holds the blocks that get its position.
LEMMA BatchCut ==
  ASSUME TypeOK, Fresh, BatchInv, NEW n \in written + 1 .. Len(items), NEW p \in Pos,
         CutFrame(n, p)
  PROVE  BatchInv'
  <1> DEFINE body == {<<items[i].c, items[i].form>> : i \in written + 1 .. n}
  <1>1. /\ DOMAIN items' = DOMAIN items
        /\ \A i \in DOMAIN items : items'[i].c = items[i].c /\ items'[i].form = items[i].form
        /\ \A i \in DOMAIN items : i <= written => items'[i] = items[i]
        /\ \A i \in written + 1 .. n : items'[i].pos = p
        /\ UNCHANGED <<idx, indexed, lock>> /\ written' = n
    BY ItemsType DEF CutFrame, logVars, Item
  <1>2. disk[p] = {} /\ disk'[p] = body /\ \A q \in Pos : q # p => disk'[q] = disk[q]
    BY TargetFree DEF CutFrame, WriteFrame, TypeOK
  <1>3. Framed'
    <2> SUFFICES ASSUME NEW i \in DOMAIN items, i <= n
                 PROVE  /\ items'[i].pos \in Pos
                        /\ <<items[i].c, items[i].form>> \in disk'[items'[i].pos]
      BY <1>1 DEF Framed
    <2>1. CASE i <= written
      BY <1>1, <1>2, <2>1 DEF BatchInv, Framed
    <2>2. CASE i \in written + 1 .. n
      BY <1>1, <1>2, <2>2
    <2> QED
      BY <2>1, <2>2, ItemsType
  <1>4. Logged'
    BY <1>1, ItemsType DEF BatchInv, Logged
  <1>5. Once' /\ NewOnly'
    BY <1>1 DEF BatchInv, Once, NewOnly, Known
  <1>6. Based'
    BY <1>1 DEF BatchInv, Based, IsWhole, IsDelta, Known
  <1> QED
    BY <1>3, <1>4, <1>5, <1>6 DEF BatchInv

\* writeJobs with an error: the frames that count are still there.
LEMMA BatchCutFails ==
  ASSUME TypeOK, Fresh, BatchInv, NEW k \in indexed .. written, NEW p \in Pos,
         CutFrameFails(k, p)
  PROVE  BatchInv'
  <1>1. /\ DOMAIN items' = DOMAIN items
        /\ \A i \in DOMAIN items : items'[i].c = items[i].c /\ items'[i].form = items[i].form
        /\ \A i \in DOMAIN items : i <= k => items'[i] = items[i]
        /\ UNCHANGED <<disk, idx, indexed, lock>> /\ written' = k
    BY ItemsType DEF CutFrameFails, TornWrite, logVars, Item
  <1>2. Framed'
    <2>1. ASSUME NEW i \in DOMAIN items, i <= k PROVE i <= written
      BY <2>1, ItemsType
    <2> QED
      BY <1>1, <2>1 DEF BatchInv, Framed
  <1>5. Logged'
    <2>1. ASSUME NEW i \in DOMAIN items, i <= indexed PROVE i <= k
      BY <2>1, ItemsType
    <2> QED
      BY <1>1, <2>1 DEF BatchInv, Logged
  <1>3. Once' /\ NewOnly'
    BY <1>1 DEF BatchInv, Once, NewOnly, Known
  <1>4. Based'
    BY <1>1 DEF BatchInv, Based, IsWhole, IsDelta, Known
  <1> QED
    BY <1>2, <1>3, <1>4, <1>5 DEF BatchInv

\* The record that AppendIndex writes.
LEMMA NextRecord ==
  ASSUME TypeOK, AllCut, BatchInv, AppendIndex
  PROVE  LET r == items[indexed + 1]
         IN  /\ indexed + 1 \in DOMAIN items /\ r \in Item /\ r.pos \in Pos
             /\ <<r.c, r.form>> \in disk[r.pos]
             /\ idx'[r.c] = [pos |-> r.pos, form |-> r.form]
             /\ \A d \in Chunk : d # r.c => idx'[d] = idx[d]
             /\ indexed' = indexed + 1
             /\ UNCHANGED <<disk, items, written, lock, unsynced>>
  <1> DEFINE r == items[indexed + 1]
  <1>1. indexed + 1 \in DOMAIN items /\ r \in Item /\ indexed + 1 <= written
    BY ItemsType DEF AppendIndex, AllCut, AllWritten
  <1>2. r.pos \in Pos /\ <<r.c, r.form>> \in disk[r.pos]
    BY <1>1 DEF BatchInv, Framed
  <1>3. idx' = [idx EXCEPT ![r.c] = [pos |-> r.pos, form |-> r.form]] /\ r.c \in Chunk
    BY <1>1 DEF AppendIndex, Item
  <1> QED
    BY <1>1, <1>2, <1>3 DEF AppendIndex, TypeOK, diskVars

\* One more record in index.log: it is the block's own.
LEMMA BatchAppend ==
  ASSUME TypeOK, AllCut, BatchInv, AppendIndex
  PROVE  BatchInv'
  <1> DEFINE r == items[indexed + 1]
  <1>1. /\ indexed + 1 \in DOMAIN items /\ r \in Item /\ r.pos \in Pos
        /\ idx'[r.c] = [pos |-> r.pos, form |-> r.form]
        /\ \A d \in Chunk : d # r.c => idx'[d] = idx[d]
        /\ indexed' = indexed + 1 /\ indexed \in Nat
        /\ UNCHANGED <<disk, items, written, lock>>
        /\ DOMAIN items \subseteq Nat
    BY NextRecord, ItemsType
  <1>2. Framed' /\ Once'
    BY <1>1 DEF BatchInv, Framed, Once
  <1>3. Logged'
    BY <1>1, ItemsType DEF BatchInv, Logged, Once, Item
  <1>4. NewOnly'
    BY <1>1, ItemsType DEF BatchInv, NewOnly, Once, Known, Item
  <1>5. Based'
    <2>1. ASSUME NEW i \in DOMAIN items, items[i].form # Whole
          PROVE  \/ idx'[items[i].form].pos # NoPos /\ idx'[items[i].form].form = Whole
                 \/ \E j \in DOMAIN items : j < i /\ items[j].c = items[i].form
      <3>1. CASE items[i].form = r.c
        <4>1. r.form = Whole
          BY <1>1, <3>1 DEF BatchInv, Based
        <4> QED
          BY <1>1, <3>1, <4>1 DEF NoPos, Pos, Seg
      <3>2. CASE items[i].form # r.c
        <4>1. items[i].form \in Chunk
          BY <2>1, ItemsType DEF Item, Form
        <4> QED
          BY <1>1, <2>1, <3>2, <4>1 DEF BatchInv, Based, IsWhole, Known
      <3> QED
        BY <3>1, <3>2
    <2>2. ASSUME NEW i \in DOMAIN items, NEW d \in Chunk, i > indexed + 1,
                 idx'[d].pos # NoPos, idx'[d].form # Whole, idx'[d].form = items[i].c
          PROVE  items[i].form = Whole
      <3>1. CASE d = r.c
        BY <1>1, <2>2, <3>1 DEF BatchInv, Based
      <3>2. CASE d # r.c
        BY <1>1, <2>2, <3>2 DEF BatchInv, Based, IsDelta, Known
      <3> QED
        BY <3>1, <3>2
    <2> QED
      BY <1>1, <2>1, <2>2 DEF BatchInv, Based, IsWhole, IsDelta, Known
  <1> QED
    BY <1>2, <1>3, <1>4, <1>5 DEF BatchInv

\* Every step keeps the invariant of the open batch.
LEMMA BatchNext ==
  ASSUME TypeOK, TypeOK', AllCut, Control, Control', Fresh, BatchInv, IndexSound, [Next]_vars
  PROVE  BatchInv'
  <1>0. ASSUME items = <<>>, items' = items PROVE BatchInv'
    BY <1>0, BatchEmpty
  <1>1. CASE Fill
    <2>1. ASSUME NEW session \in Batches, Begin(session) PROVE BatchInv'
      BY <2>1, <1>0 DEF Begin, Control, Batches, batchVars
    <2>2. ASSUME NEW c \in Chunk, PutChunk(c) \/ RebaseDelta(c) \/ OptimizeChunk(c)
          PROVE  BatchInv'
      BY <2>2, PutFits, RebaseFits, OptimizeFits, BatchAdd
    <2>3. ASSUME NEW x \in Content, PutRecipe(x) \/ Remove(x) PROVE BatchInv'
      BY <2>3, BatchIdle DEF PutRecipe, Remove, diskVars, logVars
    <2>4. ASSUME NEW n \in written + 1 .. Len(items), NEW p \in Pos, CutFrame(n, p)
          PROVE  BatchInv'
      BY <2>4, BatchCut
    <2>5. ASSUME NEW k \in indexed .. written, NEW p \in Pos, CutFrameFails(k, p)
          PROVE  BatchInv'
      BY <2>5, BatchCutFails
    <2> QED
      BY <1>1, <2>1, <2>2, <2>3, <2>4, <2>5 DEF Fill
  <1>2. CASE Publish
    <2>1. CASE AppendIndex
      BY <2>1, BatchAppend
    <2>2. CASE IndexRefreshed \/ Release
      BY <2>2, BatchEmpty DEF IndexRefreshed, Release
    <2>3. CASE Commit \/ AppendIndexTorn \/ CommitReturns \/ \E x \in Content : AppendRecipe(x)
      BY <2>3, BatchIdle DEF Commit, AppendIndexTorn, CommitReturns, AppendRecipe, diskVars,
         logVars, batchVars
    <2> QED
      BY <1>2, <2>1, <2>2, <2>3 DEF Publish
  <1>3. CASE Rewrite
    <2>1. lock \notin Batches
      BY <1>3 DEF Rewrite, GcPlan, ColdPlan, CopyFrame, MoveBlocks, SwapIndex, DeleteSegment,
         RewriteReturns, RewriteWriteFails, Control, BatchStages, RewriteStages, Batches
    <2>2. items' = items
      BY <1>3 DEF Rewrite, GcPlan, ColdPlan, CopyFrame, MoveBlocks, SwapIndex, DeleteSegment,
         RewriteReturns, RewriteWriteFails, batchVars
    <2> QED
      BY <1>0, <2>1, <2>2 DEF Control
  <1>4. CASE Crash
    BY <1>4, BatchEmpty DEF Crash
  <1>5. CASE UNCHANGED vars
    BY <1>5, BatchIdle DEF vars
  <1> QED
    BY <1>1, <1>2, <1>3, <1>4, <1>5 DEF Next

----------------------------------------------------------------------------
(* The index.                                                              *)

\* An indexed block lies in a frame that exists, never where the next goes.
LEMMA IndexedAway ==
  ASSUME TypeOK, Fresh, IndexSound, NEW p \in Pos, Target(p), NEW c \in Chunk
  PROVE  idx[c].pos # p
  <1>1. disk[p] = {} /\ p # NoPos
    BY TargetFree DEF NoPos, Seg
  <1> QED
    BY <1>1 DEF IndexSound, BlockReadable, Holds, Known

\* Every step keeps the index away from unsynced frames: blocks reach the
\* disk before index.log (Batch.Commit) and before the rename (gc, Recompress).
LEMMA SyncedNext ==
  ASSUME TypeOK, Control, Fresh, IndexSound, Synced, [Next]_vars
  PROVE  Synced'
  <1>0. ASSUME NEW p \in Pos, NEW body, WriteFrame(p, body), idx' = idx
        PROVE  IndexedOnDisk'
    BY <1>0, IndexedAway DEF WriteFrame, Carry, Closed, Synced, IndexedOnDisk
  <1>1. CASE Fill
    <2>1. stage' # "index"
      BY <1>1 DEF Fill, Begin, PutChunk, RebaseDelta, OptimizeChunk, AddItem, PutRecipe, Remove,
         CutFrame, CutFrameFails, Filling, Control, Batches, BatchStages, RewriteStages
    <2>2. idx' = idx
      BY <1>1 DEF Fill, Begin, PutChunk, RebaseDelta, OptimizeChunk, AddItem, PutRecipe, Remove,
         CutFrame, CutFrameFails, logVars
    <2>3. ASSUME NEW n \in written + 1 .. Len(items), NEW p \in Pos, CutFrame(n, p)
          PROVE  IndexedOnDisk'
      BY <2>2, <2>3, <1>0 DEF CutFrame
    <2>4. ASSUME unsynced' \subseteq unsynced PROVE IndexedOnDisk'
      BY <2>2, <2>4 DEF Synced, IndexedOnDisk
    <2>5. ASSUME NEW k \in indexed .. written, NEW p \in Pos, CutFrameFails(k, p)
          PROVE  unsynced' \subseteq unsynced
      BY <2>5 DEF CutFrameFails, TornWrite, Carry, Closed
    <2> QED
      BY <1>1, <2>1, <2>3, <2>4, <2>5 DEF Synced, Fill, Begin, PutChunk, RebaseDelta,
         OptimizeChunk, AddItem, PutRecipe, Remove
  <1>2. CASE Publish
    <2>1. CASE AppendIndex
      BY <2>1 DEF AppendIndex, Synced, IndexedOnDisk
    <2>2. CASE Commit \/ Release
      BY <2>2 DEF Commit, Release, Closed, Synced, IndexedOnDisk
    <2>3. CASE AppendIndexTorn \/ IndexRefreshed \/ CommitReturns
               \/ \E x \in Content : AppendRecipe(x)
      BY <2>3 DEF AppendIndexTorn, IndexRefreshed, CommitReturns, AppendRecipe, Resumed, Synced,
         IndexedOnDisk, logVars
    <2> QED
      BY <1>2, <2>1, <2>2, <2>3 DEF Publish
  <1>3. CASE Rewrite
    <2>1. stage' # "index"
      BY <1>3 DEF Rewrite, GcPlan, ColdPlan, CopyFrame, MoveBlocks, SwapIndex, DeleteSegment,
         RewriteReturns, RewriteWriteFails
    <2>2. ASSUME NEW p \in copy, NEW q \in Pos, CopyFrame(p, q) PROVE IndexedOnDisk'
      BY <2>2, <1>0 DEF CopyFrame, logVars
    <2>3. ASSUME NEW M, NEW q \in Pos, MoveBlocks(M, q) PROVE IndexedOnDisk'
      BY <2>3, <1>0 DEF MoveBlocks, logVars
    <2>4. ASSUME unsynced' = {} PROVE IndexedOnDisk'
      BY <2>4 DEF IndexedOnDisk
    <2>5. ASSUME UNCHANGED <<idx, unsynced>> PROVE IndexedOnDisk'
      BY <2>5 DEF Synced, IndexedOnDisk
    <2> QED
      BY <1>3, <2>1, <2>2, <2>3, <2>4, <2>5 DEF Synced, Rewrite, GcPlan, ColdPlan, SwapIndex,
         DeleteSegment, RewriteReturns, RewriteWriteFails, Closed, logVars
  <1>4. CASE Crash
    BY <1>4 DEF Crash, Synced, IndexedOnDisk
  <1>5. CASE UNCHANGED vars
    BY <1>5 DEF Synced, IndexedOnDisk, vars
  <1> QED
    BY <1>1, <1>2, <1>3, <1>4, <1>5 DEF Next

----------------------------------------------------------------------------
(* The plan of gc and Recompress.                                          *)

PlanInv == PlanHolds /\ PlanCovers /\ PlanApart

\* No plan outside gc and Recompress.
LEMMA PlanNone ==
  ASSUME TypeOK', newIdx' = NoIdx, victims' = {}, stage' \notin RewriteStages
  PROVE  PlanInv'
  BY DEF PlanInv, PlanHolds, PlanCovers, PlanApart, NoIdx, NoLoc, RewriteStages

\* What is live depends on the index and the recipes only.
LEMMA LiveSame == UNCHANGED <<idx, rcp>> => Live' = Live
  BY DEF Live, RecipeChunks, Stored, DeltaBases, IsDelta, Known

\* gc and Recompress write to segments that they will not delete.
LEMMA NewFrameStays ==
  ASSUME TypeOK, Fresh, PlanApart, stage = "copy", copy # {} \/ move # {},
         NEW q \in Pos, Target(q)
  PROVE  q[1] \notin victims /\ q # NoPos
  BY TargetFree DEF PlanApart, NoPos, Seg

\* An indexed block has a position, never the empty one.
LEMMA KnownPos ==
  ASSUME TypeOK, NEW c \in Chunk
  PROVE  /\ Known(c) => idx[c].pos \in Pos
         /\ newIdx[c].pos # NoPos => newIdx[c].pos \in Pos
         /\ NoPos \notin Pos /\ NoPos[1] = 0 /\ 0 \notin Seg
  BY DEF TypeOK, Known, Loc, NoPos, Pos, Seg

\* A frame written by gc or Recompress, for both kinds of frames: the blocks D
\* that it holds move in the new index, and no other.
LEMMA PlanWrite ==
  ASSUME TypeOK, Fresh, IndexSound, PlanInv, stage = "copy",
         NEW q \in Pos, NEW body, WriteFrame(q, body),
         copy # {} \/ move # {},
         NEW D \in SUBSET Chunk,
         \A c \in D : Known(c) /\ <<c, idx[c].form>> \in body,
         newIdx' = [c \in Chunk |-> IF c \in D THEN [idx[c] EXCEPT !.pos = q] ELSE newIdx[c]],
         copy' \subseteq copy, \A c \in Chunk : idx[c].pos \in copy \ copy' => c \in D,
         move' \subseteq move, move \ move' \subseteq D,
         UNCHANGED <<idx, rcp, stage, victims>>
  PROVE  PlanInv'
  <1>1. disk[q] = {} /\ disk'[q] = body /\ \A p \in Pos : p # q => disk'[p] = disk[p]
    BY TargetFree DEF WriteFrame, TypeOK
  <1>2. q[1] \notin victims /\ q # NoPos
    BY NewFrameStays DEF WriteFrame, PlanInv
  <1>3. PlanHolds'
    <2> SUFFICES ASSUME NEW c \in Chunk, newIdx'[c].pos # NoPos
                 PROVE  /\ Known(c) /\ newIdx'[c].form = idx[c].form
                        /\ <<c, idx[c].form>> \in disk'[newIdx'[c].pos]
                        /\ newIdx'[c].pos[1] \in victims =>
                             newIdx'[c].pos \in copy' /\ newIdx'[c].pos = idx[c].pos
      BY DEF PlanHolds, Known
    <2>1. CASE c \in D
      <3>1. newIdx'[c].pos = q /\ newIdx'[c].form = idx[c].form
        BY <2>1 DEF TypeOK, Loc
      <3> QED
        BY <1>1, <1>2, <2>1, <3>1
    <2>2. CASE c \notin D
      <3>1. newIdx'[c] = newIdx[c]
        BY <2>2
      <3>2. newIdx[c].pos \in Pos
        BY <3>1, KnownPos
      <3>3. /\ Known(c) /\ newIdx[c].form = idx[c].form
            /\ <<c, idx[c].form>> \in disk[newIdx[c].pos]
            /\ newIdx[c].pos[1] \in victims => newIdx[c].pos \in copy /\ newIdx[c].pos = idx[c].pos
        BY <3>1 DEF PlanInv, PlanHolds
      <3> QED
        BY <1>1, <2>2, <3>1, <3>2, <3>3
    <2> QED
      BY <2>1, <2>2
  <1>4. PlanCovers'
    <2> SUFFICES ASSUME NEW c \in Live, Known(c)
                 PROVE  newIdx'[c].pos # NoPos \/ c \in move' \/ idx[c].pos \in copy'
      BY LiveSame DEF PlanCovers, Known
    <2>1. c \in Chunk /\ (newIdx[c].pos # NoPos \/ c \in move \/ idx[c].pos \in copy)
      BY LiveType DEF PlanInv, PlanCovers
    <2>2. c \in D => newIdx'[c].pos = q
      BY <2>1 DEF TypeOK, Loc
    <2>3. c \notin D => newIdx'[c] = newIdx[c]
      BY <2>1
    <2> QED
      BY <1>2, <2>1, <2>2, <2>3
  <1>5. PlanApart'
    BY <1>2 DEF PlanInv, PlanApart, WriteFrame, Known, RewriteStages
  <1> QED
    BY <1>3, <1>4, <1>5 DEF PlanInv

\* The writer that a plan opens is on a segment that did not exist.
LEMMA NewWriter ==
  ASSUME TypeOK, OpenWriter(TRUE)
  PROVE  w'.seg \notin segs /\ segs \subseteq segs'
  BY DEF OpenWriter, NextSeg, Seg, TypeOK

\* The plan of gc keeps every live block: outside the rewritten segments, in a
\* frame to copy or among the blocks to move.
LEMMA PlanGc ==
  ASSUME TypeOK, TypeOK', IndexSound, NEW R \in SUBSET segs, NEW V \in SUBSET Frames(R),
         GcPlan(R, V)
  PROVE  PlanInv'
  <1>0. UNCHANGED <<disk, idx, rcp>> /\ stage' = "copy" /\ copy' = V /\ victims' = R
    BY DEF GcPlan
  <1>1. ASSUME NEW c \in Chunk
        PROVE  newIdx'[c] = IF idx[c].pos[1] \in R THEN NoLoc ELSE idx[c]
    BY DEF GcPlan
  <1>2. PlanHolds'
    <2> SUFFICES ASSUME NEW c \in Chunk, newIdx'[c].pos # NoPos
                 PROVE  /\ Known(c) /\ newIdx'[c] = idx[c] /\ newIdx'[c].pos[1] \notin R
                        /\ <<c, idx[c].form>> \in disk[idx[c].pos]
      BY <1>0 DEF PlanHolds, Known
    <2>1. idx[c].pos[1] \notin R /\ newIdx'[c] = idx[c]
      BY <1>1 DEF NoLoc
    <2> QED
      BY <2>1 DEF IndexSound, BlockReadable, Holds, Known
  <1>3. PlanCovers'
    <2> SUFFICES ASSUME NEW c \in Live, Known(c)
                 PROVE  newIdx'[c].pos # NoPos \/ c \in move' \/ idx[c].pos \in V
      BY <1>0, LiveSame DEF PlanCovers, Known
    <2>1. idx[c].pos[1] \in R /\ idx[c].pos \notin V => c \in move'
      BY DEF GcPlan
    <2> QED
      BY <1>1, <2>1, LiveType DEF Known
  <1>4. PlanApart'
    <2>1. R \subseteq segs' /\ (V # {} \/ move' # {} => w'.seg \notin R)
      BY NewWriter DEF GcPlan
    <2>2. \A c \in move' : Known(c)
      BY LiveType, KnownPos DEF GcPlan, Known, TypeOK
    <2> QED
      BY <1>0, <2>1, <2>2 DEF PlanApart, Known, RewriteStages
  <1> QED
    BY <1>2, <1>3, <1>4 DEF PlanInv

\* The plan of Recompress does too, when the walk over headers sees all frames.
LEMMA PlanCold ==
  ASSUME TypeOK, TypeOK', NoTear, IndexSound, NEW R \in SUBSET segs, ColdPlan(R)
  PROVE  PlanInv'
  <1>0. /\ UNCHANGED <<disk, idx, rcp>> /\ stage' = "copy" /\ victims' = R
        /\ newIdx' = idx /\ move' = {}
        /\ copy' = {p \in Frames(R) : Seen(p) /\ At(p) # {}}
    BY DEF ColdPlan
  <1>1. ASSUME NEW c \in Chunk, Known(c), idx[c].pos[1] \in R PROVE idx[c].pos \in copy'
    <2>1. idx[c].pos \in Pos /\ disk[idx[c].pos] # {}
      BY <1>1, KnownPos DEF IndexSound, BlockReadable, Holds
    <2>2. Seen(idx[c].pos)
      BY <2>1 DEF Seen, NoTear, ColdPlan
    <2> QED
      BY <1>0, <1>1, <2>1, <2>2 DEF Frames, At
  <1>2. PlanHolds'
    BY <1>0, <1>1 DEF PlanHolds, IndexSound, BlockReadable, Holds, Known
  <1>3. PlanCovers'
    BY <1>0 DEF PlanCovers, Known
  <1>4. PlanApart'
    BY <1>0, NewWriter DEF ColdPlan, PlanApart, RewriteStages
  <1> QED
    BY <1>2, <1>3, <1>4 DEF PlanInv

\* A copied frame.
LEMMA PlanCopy ==
  ASSUME TypeOK, Fresh, IndexSound, PlanInv, NEW p \in copy, NEW q \in Pos, CopyFrame(p, q)
  PROVE  PlanInv'
  <1>1. p \in Pos /\ At(p) \in SUBSET Chunk
    BY DEF TypeOK, At
  <1>2. \A c \in At(p) : Known(c) /\ <<c, idx[c].form>> \in disk[p]
    BY <1>1, KnownPos DEF At, IndexSound, BlockReadable, Holds, Known
  <1>3. \A c \in Chunk : idx[c].pos \in copy \ (copy \ {p}) => c \in At(p)
    BY DEF At
  <1> QED
    BY <1>1, <1>2, <1>3, PlanWrite DEF CopyFrame, logVars

\* Moved blocks.
LEMMA PlanMove ==
  ASSUME TypeOK, Fresh, IndexSound, PlanInv, NEW M \in SUBSET move, M # {}, NEW q \in Pos,
         MoveBlocks(M, q)
  PROVE  PlanInv'
  <1>1. M \in SUBSET Chunk /\ move # {} /\ move \ (move \ M) \subseteq M /\ stage = "copy"
    BY DEF TypeOK, MoveBlocks
  <1>2. \A c \in M : Known(c) /\ <<c, idx[c].form>> \in {<<d, idx[d].form>> : d \in M}
    BY <1>1 DEF PlanInv, PlanApart
  <1> QED
    BY <1>1, <1>2, PlanWrite DEF MoveBlocks, logVars

\* Every step keeps the invariant of the plan.
LEMMA PlanNext ==
  ASSUME TypeOK, TypeOK', Control, Control', Fresh, NoTear, IndexSound, PlanInv, [Next]_vars
  PROVE  PlanInv'
  <1>1. CASE Fill \/ Publish
    <2>1. UNCHANGED <<newIdx, victims>>
      BY <1>1 DEF Fill, Begin, PutChunk, RebaseDelta, OptimizeChunk, AddItem, PutRecipe, Remove,
         CutFrame, CutFrameFails, Publish, Commit, AppendIndex, AppendIndexTorn, IndexRefreshed,
         AppendRecipe, CommitReturns, Release, planVars
    <2>2. stage \notin RewriteStages /\ stage' \notin RewriteStages
      <3>1. (lock = "free" \/ lock \in Batches) /\ (lock' = "free" \/ lock' \in Batches)
        BY <1>1 DEF Fill, Begin, PutChunk, RebaseDelta, OptimizeChunk, AddItem, PutRecipe, Remove,
           CutFrame, CutFrameFails, Publish, Commit, AppendIndex, AppendIndexTorn, IndexRefreshed,
           AppendRecipe, CommitReturns, Release, Filling, Control, Batches, BatchStages
      <3> QED
        BY <3>1 DEF Control, Batches
    <2> QED
      BY <2>1, <2>2, PlanNone DEF PlanInv, PlanApart, RewriteStages
  <1>2. CASE Rewrite
    <2>1. ASSUME NEW R \in SUBSET segs, NEW V \in SUBSET {p \in Frames(R) : LiveFrame(p)},
                 GcPlan(R, V)
          PROVE  PlanInv'
      BY <2>1, PlanGc
    <2>2. ASSUME NEW R \in SUBSET segs, ColdPlan(R) PROVE PlanInv'
      BY <2>2, PlanCold
    <2>3. ASSUME NEW p \in copy, NEW q \in Pos, CopyFrame(p, q) PROVE PlanInv'
      BY <2>3, PlanCopy
    <2>4. ASSUME NEW M \in (SUBSET move) \ {{}}, NEW q \in Pos, MoveBlocks(M, q) PROVE PlanInv'
      BY <2>4, PlanMove
    <2>5. CASE SwapIndex
      <3>1. PlanHolds' /\ PlanCovers'
        BY <2>5 DEF SwapIndex, PlanHolds, PlanCovers, NoIdx, NoLoc
      <3>2. \A c \in Chunk : newIdx[c].pos[1] \notin victims
        <4> SUFFICES ASSUME NEW c \in Chunk PROVE newIdx[c].pos[1] \notin victims
          OBVIOUS
        <4>1. CASE newIdx[c].pos = NoPos
          <5>1. NoPos[1] = 0 /\ 0 \notin Seg
            BY KnownPos
          <5> QED
            BY <4>1, <5>1 DEF TypeOK
        <4>2. CASE newIdx[c].pos # NoPos
          <5>1. newIdx[c].pos[1] \in victims => newIdx[c].pos \in copy
            BY <4>2 DEF PlanInv, PlanHolds
          <5>2. copy = {}
            BY <2>5 DEF SwapIndex
          <5> QED
            BY <5>1, <5>2
        <4> QED
          BY <4>1, <4>2
      <3> QED
        BY <2>5, <3>1, <3>2 DEF SwapIndex, PlanInv, PlanApart, RewriteStages
    <2>6. ASSUME NEW s \in victims, DeleteSegment(s) PROVE PlanInv'
      <3>1. /\ stage = "delete" /\ UNCHANGED <<idx, stage, newIdx>>
            /\ victims' \subseteq victims /\ newIdx = NoIdx
        BY <2>6 DEF DeleteSegment, logVars, PlanInv, PlanApart
      <3>2. PlanHolds' /\ PlanCovers'
        BY <3>1 DEF PlanHolds, PlanCovers, NoIdx, NoLoc
      <3> QED
        BY <3>1, <3>2 DEF PlanInv, PlanApart, RewriteStages
    <2>7. CASE RewriteReturns \/ \E p \in Pos : RewriteWriteFails(p)
      BY <2>7, PlanNone DEF RewriteReturns, RewriteWriteFails, PlanDropped, RewriteStages
    <2> QED
      BY <1>2, <2>1, <2>2, <2>3, <2>4, <2>5, <2>6, <2>7 DEF Rewrite
  <1>3. CASE Crash
    BY <1>3, PlanNone DEF Crash, PlanDropped, RewriteStages
  <1>4. CASE UNCHANGED vars
    BY <1>4, LiveSame DEF PlanInv, PlanHolds, PlanCovers, PlanApart, Known, vars
  <1> QED
    BY <1>1, <1>2, <1>3, <1>4 DEF Next

----------------------------------------------------------------------------
(* Every indexed block can be read.                                        *)

\* A record appended by Commit points to a frame that holds the block, and
\* leaves every delta with its base.
LEMMA SoundAppend ==
  ASSUME TypeOK, AllCut, BatchInv, IndexSound, AppendIndex
  PROVE  IndexSound'
  <1>1. PICK i \in DOMAIN items, c \in Chunk, f \in Form, p \in Pos :
          /\ i = indexed + 1 /\ items[i].c = c /\ items[i].form = f
          /\ <<c, f>> \in disk[p]
          /\ idx'[c] = [pos |-> p, form |-> f]
          /\ \A d \in Chunk : d # c => idx'[d] = idx[d]
          /\ disk' = disk
    BY NextRecord DEF Item
  <1>2. Known(c)' /\ Holds(c)'
    BY <1>1, KnownPos DEF Known, Holds
  <1>3. ASSUME f # Whole PROVE IsWhole(f)' /\ Holds(f)'
    <2>1. f \in Chunk /\ f # c
      BY <1>1, <1>3 DEF Form, BatchInv, Based
    <2>2. IsWhole(f)
      <3>1. ASSUME NEW j \in DOMAIN items, j < i, items[j].c = f
            PROVE  IsWhole(f)
        <4>1. j <= indexed /\ j <= written /\ items[j].form = Whole
          BY <3>1, <1>1, ItemsType DEF BatchInv, Based
        <4>2. items[j].pos \in Pos
          BY <4>1 DEF BatchInv, Framed
        <4>3. idx[f] = [pos |-> items[j].pos, form |-> items[j].form]
          BY <3>1, <4>1 DEF BatchInv, Logged
        <4> QED
          BY <4>1, <4>2, <4>3, KnownPos DEF IsWhole, Known
      <3> QED
        BY <1>1, <1>3, <3>1 DEF BatchInv, Based
    <2>3. Holds(f)
      BY <2>1, <2>2 DEF IndexSound, BlockReadable, IsWhole
    <2> QED
      BY <1>1, <2>1, <2>2, <2>3 DEF IsWhole, Known, Holds
  <1>4. ASSUME NEW d \in Chunk, d # c, Known(d)
        PROVE  Holds(d)' /\ \A b \in Form : idx[d].form = b /\ IsDelta(d) => IsWhole(b)' /\ Holds(b)'
    <2>1. Holds(d)'
      BY <1>1, <1>4 DEF IndexSound, BlockReadable, Holds, Known
    <2>2. ASSUME NEW b \in Form, idx[d].form = b, IsDelta(d)
          PROVE  IsWhole(b)' /\ Holds(b)'
      <3>1. IsWhole(b) /\ Holds(b) /\ b \in Chunk
        BY <1>4, <2>2 DEF IndexSound, BlockReadable, IsDelta, Form
      <3>2. CASE b = c
        <4>1. f = Whole
          BY <1>1, <2>2, <3>2, ItemsType DEF BatchInv, Based
        <4> QED
          BY <1>1, <1>2, <3>2, <4>1 DEF IsWhole
      <3>3. CASE b # c
        BY <1>1, <3>1, <3>3 DEF IsWhole, Known, Holds
      <3> QED
        BY <3>2, <3>3
    <2> QED
      BY <2>1, <2>2
  <1>5. ASSUME NEW d \in Chunk, Known(d)' PROVE BlockReadable(d)'
    <2>1. CASE d = c
      BY <1>1, <1>2, <1>3, <2>1 DEF BlockReadable, IsDelta
    <2>2. CASE d # c
      <3>1. Known(d) /\ idx'[d] = idx[d] /\ idx[d].form \in Form /\ (IsDelta(d)' => IsDelta(d))
        BY <1>1, <1>5, <2>2 DEF Known, IsDelta, TypeOK, Loc
      <3> QED
        BY <1>4, <2>2, <3>1 DEF BlockReadable
    <2> QED
      BY <2>1, <2>2
  <1> QED
    BY <1>5 DEF IndexSound

\* The rename of the new index drops dead blocks only.
LEMMA SoundSwap ==
  ASSUME TypeOK, IndexSound, PlanInv, SwapIndex
  PROVE  IndexSound'
  <1>1. idx' = newIdx /\ disk' = disk /\ stage = "copy" /\ copy = {} /\ move = {}
    BY DEF SwapIndex, diskVars
  <1>2. ASSUME NEW c \in Chunk, newIdx[c].pos # NoPos
        PROVE  /\ Known(c) /\ newIdx[c].form = idx[c].form
               /\ <<c, idx[c].form>> \in disk[newIdx[c].pos]
    BY <1>2 DEF PlanInv, PlanHolds
  <1>3. ASSUME NEW c \in Chunk, Known(c)' PROVE Holds(c)' /\ Known(c)
    BY <1>1, <1>2, <1>3 DEF Known, Holds
  <1>4. ASSUME NEW c \in Chunk, IsDelta(c)', NEW b \in Form, b = newIdx[c].form
        PROVE  IsWhole(b)' /\ Holds(b)'
    <2>1. IsDelta(c) /\ idx[c].form = b
      BY <1>1, <1>2, <1>4 DEF IsDelta, Known
    <2>2. IsWhole(b) /\ b \in Live /\ b \in Chunk
      BY <2>1 DEF IndexSound, BlockReadable, IsDelta, Live, DeltaBases, Form
    <2>3. newIdx[b].pos # NoPos
      BY <1>1, <2>2 DEF PlanInv, PlanCovers, IsWhole
    <2> QED
      BY <1>1, <1>2, <1>3, <2>2, <2>3 DEF IsWhole, Known
  <1>5. ASSUME NEW c \in Chunk, Known(c)' PROVE BlockReadable(c)'
    <2>1. newIdx[c].form \in Form
      BY DEF TypeOK, Loc
    <2> QED
      BY <1>1, <1>3, <1>4, <1>5, <2>1 DEF BlockReadable
  <1> QED
    BY <1>5 DEF IndexSound

\* A step that leaves the index alone loses no frame that the index uses.
LEMMA SoundIdle ==
  ASSUME TypeOK, Fresh, Synced, PlanInv, IndexSound, [Next]_vars, idx' = idx
  PROVE  IndexSound'
  <1>1. ASSUME NEW c \in Chunk, Known(c) PROVE disk[idx[c].pos] \subseteq disk'[idx[c].pos]
    <2>1. idx[c].pos \in Pos /\ idx[c].pos \notin unsynced
      BY <1>1, KnownPos DEF Synced, IndexedOnDisk
    <2>2. ASSUME DeleteSegment(idx[c].pos[1]), idx[c].pos[1] \in victims PROVE FALSE
      BY <2>2 DEF DeleteSegment, PlanInv, PlanApart
    <2> QED
      BY <2>1, <2>2, DiskKeeps
  <1>2. ASSUME NEW c \in Chunk, Holds(c) PROVE Holds(c)'
    BY <1>1, <1>2 DEF Holds, Known
  <1>3. ASSUME NEW c \in Chunk, Known(c) PROVE BlockReadable(c)'
    <2>1. Holds(c)'
      BY <1>2, <1>3 DEF IndexSound, BlockReadable
    <2>2. ASSUME IsDelta(c), NEW b \in Form, idx[c].form = b PROVE IsWhole(b)' /\ Holds(b)'
      <3>1. IsWhole(b) /\ Holds(b) /\ b \in Chunk
        BY <1>3, <2>2 DEF IndexSound, BlockReadable, IsDelta, Form
      <3> QED
        BY <1>2, <3>1 DEF IsWhole, Known
    <2>3. idx[c].form \in Form /\ (IsDelta(c)' => IsDelta(c))
      BY DEF TypeOK, Loc, IsDelta, Known
    <2> QED
      BY <2>1, <2>2, <2>3 DEF BlockReadable
  <1> QED
    BY <1>3 DEF IndexSound, Known

\* Every step keeps the index sound.
LEMMA SoundNext ==
  ASSUME TypeOK, AllCut, Fresh, BatchInv, Synced, PlanInv, IndexSound, [Next]_vars
  PROVE  IndexSound'
  <1>1. \/ AppendIndex \/ SwapIndex
        \/ idx' = idx
    <2>1. CASE Fill
      BY <2>1 DEF Fill, Begin, PutChunk, RebaseDelta, OptimizeChunk, AddItem, PutRecipe, Remove,
         CutFrame, CutFrameFails, logVars
    <2>2. CASE Publish
      BY <2>2 DEF Publish, Commit, AppendIndexTorn, IndexRefreshed, AppendRecipe, CommitReturns,
         Release, logVars
    <2>3. CASE Rewrite
      BY <2>3 DEF Rewrite, GcPlan, ColdPlan, CopyFrame, MoveBlocks, DeleteSegment, RewriteReturns,
         RewriteWriteFails, logVars
    <2>4. CASE Crash \/ UNCHANGED vars
      BY <2>4 DEF Crash, logVars, vars
    <2> QED
      BY <2>1, <2>2, <2>3, <2>4 DEF Next
  <1> QED
    BY <1>1, SoundAppend, SoundSwap, SoundIdle

----------------------------------------------------------------------------

\* The empty depot satisfies the invariant.
LEMMA IndexInit == Init => IndexInv
  <1> SUFFICES ASSUME Init PROVE IndexInv
    OBVIOUS
  <1>1. TypeOK /\ AllCut /\ NoTear
    BY TypeInit DEF Init, AllCut, NoTear
  <1>2. Control
    BY DEF Init, Control, Batches, BatchStages, RewriteStages
  <1>3. Fresh
    BY DEF Init, Fresh
  <1>4. items = <<>> /\ newIdx = NoIdx /\ idx = NoIdx /\ victims = {} /\ stage = "idle" /\ unsynced = {}
    BY DEF Init
  <1>5. Framed /\ Logged /\ Once /\ Based /\ NewOnly
    BY <1>4 DEF Framed, Logged, Once, Based, NewOnly
  <1>6. Synced
    BY <1>4 DEF Synced, IndexedOnDisk
  <1>7. PlanHolds /\ PlanCovers /\ PlanApart
    BY <1>4 DEF PlanHolds, PlanCovers, PlanApart, NoIdx, NoLoc, RewriteStages
  <1>8. IndexSound
    BY <1>4 DEF IndexSound, Known, NoIdx, NoLoc
  <1> QED
    BY <1>1, <1>2, <1>3, <1>5, <1>6, <1>7, <1>8 DEF IndexInv

\* Every step keeps it.
LEMMA IndexNext ==
  ASSUME SeesAll, IndexInv, [Next]_vars
  PROVE  IndexInv'
  <1>1. TypeOK' /\ AllCut' /\ Control' /\ Fresh' /\ NoTear'
    BY TypeNext, ControlNext, FreshNext, NoTearNext DEF IndexInv
  <1>2. BatchInv /\ PlanInv
    BY DEF IndexInv, BatchInv, PlanInv
  <1>3. BatchInv' /\ Synced' /\ PlanInv' /\ IndexSound'
    BY <1>1, <1>2, BatchNext, SyncedNext, PlanNext, SoundNext DEF IndexInv
  <1> QED
    BY <1>1, <1>3 DEF IndexInv, BatchInv, PlanInv

\* IndexInv holds always.
LEMMA IndexAlways ==
  ASSUME SeesAll
  PROVE  Spec => []IndexInv
  <1>1. Init => IndexInv
    BY IndexInit
  <1>2. IndexInv /\ [Next]_vars => IndexInv'
    BY IndexNext
  <1> QED
    BY <1>1, <1>2, PTL DEF Spec

\* Where no frame is torn in a depot that Recompress runs on, every indexed
\* block can be read, dead ones included: the order of Commit, gc and
\* Recompress is enough, whatever the sessions and wherever the crashes, torn
\* appends to index.log included.
THEOREM IndexSafe ==
  ASSUME SeesAll
  PROVE  Spec => []IndexSound
  <1>1. IndexInv => IndexSound
    BY DEF IndexInv
  <1> QED
    BY <1>1, IndexAlways, PTL

\* There, too, index.log never points to a frame that a power cut may take:
\* the frames are synced before the log is appended to or replaced, in Commit
\* as in gc and Recompress.
THEOREM IndexDurable ==
  ASSUME SeesAll
  PROVE  Spec => []IndexedOnDisk
  <1>1. IndexInv => IndexedOnDisk
    BY DEF IndexInv, Synced
  <1> QED
    BY <1>1, IndexAlways, PTL
=============================================================================
