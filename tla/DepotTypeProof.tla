--------------------------- MODULE DepotTypeProof ---------------------------
(***************************************************************************)
(* TypeOK is an invariant of Depot: one lemma per action, or per operator  *)
(* that several actions share.                                             *)
(***************************************************************************)
EXTENDS DepotInv, TLAPS, SequenceTheorems

Writer == [seg : Seg \cup {0}, size : 0 .. MaxSlot]
Stages == {"idle", "fill", "index", "recipes", "closing", "copy", "delete"}
Locks  == Batches \cup {"free", "gc", "cold"}

\* The depot that Open creates has the right types.
LEMMA TypeInit == Init => TypeOK
  <1> SUFFICES ASSUME Init PROVE TypeOK
    OBVIOUS
  <1>1. <<>> \in Seq(Item) /\ Len(<<>>) = 0
    OBVIOUS
  <1>2. NoIdx \in [Chunk -> Loc] /\ NoRecipe \in [Content -> Kind]
    BY DEF NoIdx, NoLoc, Loc, Form, NoRecipe, Kind
  <1>3. NoWriter \in Writer
    BY SizeAssumption DEF NoWriter, Seg, Writer
  <1>4. [p \in Pos |-> {}] \in [Pos -> SUBSET (Chunk \X Form)]
    OBVIOUS
  <1>5. items \in Seq(Item) /\ written \in 0 .. Len(items) /\ indexed \in 0 .. written
    BY <1>1 DEF Init
  <1> QED
    BY <1>2, <1>3, <1>4, <1>5 DEF Init, TypeOK, Writer

\* Begin opens a writer on a segment within the bound.
LEMMA TypeBegin ==
  ASSUME TypeOK, NEW session \in Batches, Begin(session)
  PROVE  TypeOK'
  <1>1. w' \in Writer /\ segs' \subseteq Seg
    BY SizeAssumption DEF TypeOK, Begin, OpenWriter, NextSeg, Newest, Seg, Writer
  <1> QED
    BY <1>1 DEF TypeOK, Begin, batchVars, planVars, Writer

\* A function on 1 .. n is a sequence of length n.
LEMMA FunSeq ==
  ASSUME NEW S, NEW n \in Nat, NEW f \in [1 .. n -> S]
  PROVE  f \in Seq(S) /\ Len(f) = n
  <1>1. f \in Seq(S)
    BY SeqDef
  <1> QED
    BY <1>1, LenProperties

\* The blocks of the open batch as a function, and its two counters.
LEMMA ItemsType ==
  ASSUME TypeOK
  PROVE  /\ items \in [1 .. Len(items) -> Item]
         /\ DOMAIN items = 1 .. Len(items) /\ Len(items) \in Nat
         /\ written \in Nat /\ indexed \in Nat /\ written <= Len(items)
         /\ indexed <= written
  BY LenProperties DEF TypeOK

\* A block queued by Put, rebaseOrphans or Optimize.
LEMMA TypeAdd ==
  ASSUME TypeOK, NEW c \in Chunk, NEW f \in Form, AddItem(c, f)
  PROVE  TypeOK'
  <1> DEFINE it == [c |-> c, form |-> f, pos |-> NoPos]
  <1>1. it \in Item
    BY DEF Item
  <1>2. items \in Seq(Item)
    BY DEF TypeOK
  <1>3. items' \in Seq(Item) /\ Len(items') = Len(items) + 1
    BY <1>1, <1>2, AppendProperties DEF AddItem
  <1>4. written' \in 0 .. Len(items') /\ indexed' \in 0 .. written'
    BY <1>3, ItemsType DEF AddItem
  <1> QED
    BY <1>3, <1>4 DEF TypeOK, AddItem, diskVars, logVars, planVars

\* writeFrame, for whoever calls it: a batch, gc or Recompress.
LEMMA TypeWrite ==
  ASSUME TypeOK, NEW p \in Pos, NEW body \in SUBSET (Chunk \X Form),
         WriteFrame(p, body)
  PROVE  /\ disk' \in [Pos -> SUBSET (Chunk \X Form)]
         /\ torn' \subseteq Pos /\ segs' \subseteq Seg
         /\ w' \in Writer /\ unsynced' \subseteq Pos
  <1>1. p[1] \in Seg /\ p[2] \in 0 .. MaxSlot
    BY SizeAssumption DEF Pos, Slot
  <1>2. disk' \in [Pos -> SUBSET (Chunk \X Form)] /\ torn' \subseteq Pos
    BY DEF TypeOK, WriteFrame
  <1>3. segs' \subseteq Seg /\ w' \in Writer
    BY <1>1 DEF TypeOK, WriteFrame, Writer
  <1>4. unsynced' \subseteq Pos
    BY DEF TypeOK, WriteFrame, Carry, Closed
  <1> QED
    BY <1>2, <1>3, <1>4

\* A writeFrame that fails half way.
LEMMA TypeTorn ==
  ASSUME TypeOK, NEW p \in Pos, TornWrite(p)
  PROVE  /\ disk' = disk
         /\ torn' \subseteq Pos /\ segs' \subseteq Seg
         /\ w' \in Writer /\ unsynced' \subseteq Pos
  <1>1. p[1] \in Seg /\ p[2] - 1 \in 0 .. MaxSlot
    BY SizeAssumption DEF Pos, Slot
  <1>2. torn' \subseteq Pos /\ segs' \subseteq Seg /\ w' \in Writer
    BY <1>1 DEF TypeOK, TornWrite, Writer
  <1>3. unsynced' \subseteq Pos
    BY DEF TypeOK, TornWrite, Carry, Closed
  <1> QED
    BY <1>2, <1>3 DEF TornWrite

\* The blocks in memory of the frame that CutFrame writes.
LEMMA TypeCut ==
  ASSUME TypeOK, NEW n \in written + 1 .. Len(items), NEW p \in Pos, CutFrame(n, p)
  PROVE  TypeOK'
  <1> DEFINE body == {<<items[i].c, items[i].form>> : i \in written + 1 .. n}
  <1>1. body \in SUBSET (Chunk \X Form)
    BY ItemsType DEF Item
  <1>2. /\ disk' \in [Pos -> SUBSET (Chunk \X Form)]
        /\ torn' \subseteq Pos /\ segs' \subseteq Seg
        /\ w' \in Writer /\ unsynced' \subseteq Pos
    BY <1>1, TypeWrite DEF CutFrame
  <1>3. items' \in [1 .. Len(items) -> Item]
    <2> SUFFICES ASSUME NEW i \in 1 .. Len(items)
                 PROVE  [items[i] EXCEPT !.pos = p] \in Item
      BY ItemsType DEF CutFrame
    <2> QED
      BY ItemsType DEF Item
  <1>4. items' \in Seq(Item) /\ Len(items') = Len(items)
    BY <1>3, FunSeq, ItemsType
  <1>5. written' \in 0 .. Len(items') /\ indexed' \in 0 .. written'
    BY <1>4, ItemsType DEF CutFrame
  <1> QED
    BY <1>2, <1>4, <1>5 DEF TypeOK, CutFrame, logVars, planVars, Writer

\* writeJobs with an error: the jobs go back to memory.
LEMMA TypeCutFails ==
  ASSUME TypeOK, NEW k \in indexed .. written, NEW p \in Pos, CutFrameFails(k, p)
  PROVE  TypeOK'
  <1>2. /\ disk' = disk
        /\ torn' \subseteq Pos /\ segs' \subseteq Seg
        /\ w' \in Writer /\ unsynced' \subseteq Pos
    BY TypeTorn DEF CutFrameFails
  <1>3. items' \in [1 .. Len(items) -> Item]
    <2> SUFFICES ASSUME NEW i \in 1 .. Len(items)
                 PROVE  [items[i] EXCEPT !.pos = NoPos] \in Item
      BY ItemsType DEF CutFrameFails
    <2> QED
      BY ItemsType DEF Item
  <1>4. items' \in Seq(Item) /\ Len(items') = Len(items)
    BY <1>3, FunSeq, ItemsType
  <1>5. written' \in 0 .. Len(items') /\ indexed' \in 0 .. written'
    BY <1>4, ItemsType DEF CutFrameFails
  <1> QED
    BY <1>2, <1>4, <1>5 DEF TypeOK, CutFrameFails, logVars, planVars, Writer

\* The three sessions that queue blocks queue them in one of the forms.
LEMMA TypePut ==
  ASSUME TypeOK, NEW c \in Chunk, PutChunk(c) \/ RebaseDelta(c) \/ OptimizeChunk(c)
  PROVE  TypeOK'
  <1>1. \E f \in Form : AddItem(c, f)
    BY DEF PutChunk, RebaseDelta, OptimizeChunk, BaseChoices, Form
  <1> QED
    BY <1>1, TypeAdd

\* Put of a recipe, Remove, and the append to recipes.log.
LEMMA TypeRecipes ==
  ASSUME TypeOK, NEW x \in Content, PutRecipe(x) \/ Remove(x) \/ AppendRecipe(x)
  PROVE  TypeOK'
  <1>1. rcp' \in [Content -> Kind] /\ queued' \in [Content -> Kind] /\ tornLog' \in BOOLEAN
    BY DEF TypeOK, PutRecipe, Remove, AppendRecipe, RecordKind, Kind, logVars
  <1> QED
    BY <1>1 DEF TypeOK, PutRecipe, Remove, AppendRecipe, diskVars, logVars, planVars

\* The steps of Commit, and the release of the lock.
LEMMA TypePublish ==
  ASSUME TypeOK, AllCut, Commit \/ AppendIndex \/ AppendIndexTorn \/ IndexRefreshed
                 \/ CommitReturns \/ Release
  PROVE  TypeOK'
  <1>1. CASE Commit
    BY <1>1 DEF TypeOK, Commit, Closed, diskVars, logVars, batchVars, planVars
  <1>2. CASE AppendIndex
    <2>1. items[indexed + 1] \in Item /\ indexed + 1 \in 0 .. Len(items)
      BY <1>2, ItemsType DEF AppendIndex
    <2>2. idx' \in [Chunk -> Loc]
      BY <1>2, <2>1 DEF TypeOK, AppendIndex, Item, Loc
    <2>3. indexed' \in 0 .. written'
      BY <1>2, ItemsType DEF AppendIndex, AllCut, AllWritten
    <2> QED
      BY <1>2, <2>2, <2>3 DEF TypeOK, AppendIndex, diskVars, planVars
  <1>3. CASE AppendIndexTorn
    BY <1>3 DEF TypeOK, AppendIndexTorn, Resumed, diskVars, batchVars, planVars
  <1>4. CASE IndexRefreshed
    <2>1. items' \in Seq(Item) /\ written' \in 0 .. Len(items') /\ indexed' \in 0 .. written'
      BY <1>4 DEF IndexRefreshed
    <2> QED
      BY <1>4, <2>1 DEF TypeOK, IndexRefreshed, diskVars, planVars
  <1>5. CASE CommitReturns
    BY <1>5 DEF TypeOK, CommitReturns, Resumed, diskVars, logVars, batchVars, planVars
  <1>6. CASE Release
    <2>1. items' \in Seq(Item) /\ written' \in 0 .. Len(items') /\ indexed' \in 0 .. written'
      BY <1>6 DEF Release
    <2>2. queued' \in [Content -> Kind] /\ w' \in Writer /\ unsynced' \subseteq Pos
      BY <1>6, SizeAssumption DEF Release, NoRecipe, Kind, NoWriter, Writer, Closed
    <2> QED
      BY <1>6, <2>1, <2>2 DEF TypeOK, Release, diskVars, logVars, planVars, Writer
  <1> QED
    BY <1>1, <1>2, <1>3, <1>4, <1>5, <1>6

\* What the collector marks as live are blocks.
LEMMA LiveType == TypeOK => Live \subseteq Chunk
  <1> SUFFICES ASSUME TypeOK PROVE Live \subseteq Chunk
    OBVIOUS
  <1>1. RecipeChunks \subseteq Chunk
    BY DataAssumption DEF RecipeChunks, Stored
  <1>2. DeltaBases \subseteq Chunk
    BY DEF TypeOK, DeltaBases, IsDelta, Loc, Form
  <1> QED
    BY <1>1, <1>2 DEF Live

\* The control state that a session leaves behind when it ends.
LEMMA TypeReset ==
  ASSUME lock' = "free", stage' = "idle", w' = NoWriter, PlanDropped
  PROVE  /\ lock' \in Locks /\ stage' \in Stages /\ w' \in Writer
         /\ newIdx' \in [Chunk -> Loc] /\ copy' \subseteq Pos
         /\ move' \subseteq Chunk /\ victims' \subseteq Seg
  <1>1. newIdx' \in [Chunk -> Loc]
    BY DEF PlanDropped, NoIdx, NoLoc, Loc, Form
  <1>2. w' \in Writer
    BY SizeAssumption DEF NoWriter, Writer
  <1> QED
    BY <1>1, <1>2 DEF PlanDropped, Locks, Stages

\* The plan of gc.
LEMMA TypeGc ==
  ASSUME TypeOK, NEW R \in SUBSET segs, NEW V \in SUBSET Frames(R), GcPlan(R, V)
  PROVE  TypeOK'
  <1>1. w' \in Writer /\ segs' \subseteq Seg
    BY SizeAssumption DEF TypeOK, GcPlan, OpenWriter, NextSeg, Newest, Writer
  <1>2. copy' \subseteq Pos /\ victims' \subseteq Seg
    BY DEF TypeOK, GcPlan, Frames
  <1>3. move' \subseteq Chunk
    BY LiveType DEF GcPlan
  <1>4. newIdx' \in [Chunk -> Loc]
    BY DEF TypeOK, GcPlan, NoLoc, Loc, Form
  <1> QED
    BY <1>1, <1>2, <1>3, <1>4 DEF TypeOK, GcPlan, batchVars, Writer

\* The plan of Recompress.
LEMMA TypeCold ==
  ASSUME TypeOK, NEW R \in SUBSET segs, ColdPlan(R)
  PROVE  TypeOK'
  <1>1. w' \in Writer /\ segs' \subseteq Seg
    BY SizeAssumption DEF TypeOK, ColdPlan, OpenWriter, NextSeg, Newest, Writer
  <1>2. copy' \subseteq Pos /\ victims' \subseteq Seg
    BY DEF TypeOK, ColdPlan, Frames
  <1> QED
    BY <1>1, <1>2 DEF TypeOK, ColdPlan, batchVars, Writer

\* A frame copied as it is by gc or Recompress.
LEMMA TypeCopy ==
  ASSUME TypeOK, NEW p \in copy, NEW q \in Pos, CopyFrame(p, q)
  PROVE  TypeOK'
  <1>1. disk[p] \in SUBSET (Chunk \X Form)
    BY DEF TypeOK
  <1>2. /\ disk' \in [Pos -> SUBSET (Chunk \X Form)]
        /\ torn' \subseteq Pos /\ segs' \subseteq Seg
        /\ w' \in Writer /\ unsynced' \subseteq Pos
    BY <1>1, TypeWrite DEF CopyFrame
  <1>3. newIdx' \in [Chunk -> Loc]
    BY DEF TypeOK, CopyFrame, Loc
  <1> QED
    BY <1>2, <1>3 DEF TypeOK, CopyFrame, logVars, batchVars, Writer

\* Live blocks that gc puts in a new frame.
LEMMA TypeMove ==
  ASSUME TypeOK, NEW M \in SUBSET move, NEW q \in Pos, MoveBlocks(M, q)
  PROVE  TypeOK'
  <1>1. {<<c, idx[c].form>> : c \in M} \in SUBSET (Chunk \X Form)
    BY DEF TypeOK, Loc
  <1>2. /\ disk' \in [Pos -> SUBSET (Chunk \X Form)]
        /\ torn' \subseteq Pos /\ segs' \subseteq Seg
        /\ w' \in Writer /\ unsynced' \subseteq Pos
    BY <1>1, TypeWrite DEF MoveBlocks
  <1>3. newIdx' \in [Chunk -> Loc]
    BY DEF TypeOK, MoveBlocks, Loc
  <1> QED
    BY <1>2, <1>3 DEF TypeOK, MoveBlocks, logVars, batchVars, Writer

\* The rename of the new index.
LEMMA TypeSwap ==
  ASSUME TypeOK, SwapIndex
  PROVE  TypeOK'
  <1>1. newIdx' \in [Chunk -> Loc] /\ w' \in Writer
    BY SizeAssumption DEF SwapIndex, NoIdx, NoLoc, Loc, Form, NoWriter, Writer
  <1> QED
    BY <1>1 DEF TypeOK, SwapIndex, Closed, diskVars, batchVars, Writer

\* The removal of an old segment.
LEMMA TypeDelete ==
  ASSUME TypeOK, NEW s \in victims, DeleteSegment(s)
  PROVE  TypeOK'
  <1>1. disk' \in [Pos -> SUBSET (Chunk \X Form)]
    BY DEF TypeOK, DeleteSegment
  <1> QED
    BY <1>1 DEF TypeOK, DeleteSegment, logVars, batchVars

\* The end of gc or Recompress, with or without an error.
LEMMA TypeReturns ==
  ASSUME TypeOK, RewriteReturns \/ \E p \in Pos : RewriteWriteFails(p)
  PROVE  TypeOK'
  <1>1. /\ lock' \in Locks /\ stage' \in Stages /\ w' \in Writer
        /\ newIdx' \in [Chunk -> Loc] /\ copy' \subseteq Pos
        /\ move' \subseteq Chunk /\ victims' \subseteq Seg
    BY TypeReset DEF RewriteReturns, RewriteWriteFails
  <1>2. /\ torn' \subseteq Pos /\ segs' \subseteq Seg /\ unsynced' \subseteq Pos
        /\ UNCHANGED <<disk, logVars, batchVars>>
    BY DEF TypeOK, RewriteReturns, RewriteWriteFails, Closed, diskVars, Pos
  <1> QED
    BY <1>1, <1>2 DEF TypeOK, logVars, batchVars, Writer, Locks, Stages

\* A power cut.
LEMMA TypeCrash ==
  ASSUME TypeOK, Crash
  PROVE  TypeOK'
  <1>1. /\ lock' \in Locks /\ stage' \in Stages /\ w' \in Writer
        /\ newIdx' \in [Chunk -> Loc] /\ copy' \subseteq Pos
        /\ move' \subseteq Chunk /\ victims' \subseteq Seg
    BY TypeReset DEF Crash
  <1>2. disk' \in [Pos -> SUBSET (Chunk \X Form)] /\ torn' \subseteq Pos
    BY DEF TypeOK, Crash
  <1>3. items' \in Seq(Item) /\ written' \in 0 .. Len(items') /\ indexed' \in 0 .. written'
    BY DEF Crash
  <1>4. queued' \in [Content -> Kind] /\ unsynced' \subseteq Pos
    BY DEF Crash, NoRecipe, Kind
  <1> QED
    BY <1>1, <1>2, <1>3, <1>4 DEF TypeOK, Crash, logVars, Writer, Locks, Stages

\* Every step, the stuttering one included, keeps the types.
LEMMA TypeNext ==
  ASSUME TypeOK, AllCut, [Next]_vars
  PROVE  TypeOK' /\ AllCut'
  <1>1. TypeOK'
    <2>1. CASE Fill
      BY <2>1, TypeBegin, TypePut, TypeRecipes, TypeCut, TypeCutFails DEF Fill
    <2>2. CASE Publish
      BY <2>2, TypePublish, TypeRecipes DEF Publish
    <2>3. CASE Rewrite
      BY <2>3, TypeGc, TypeCold, TypeCopy, TypeMove, TypeSwap, TypeDelete, TypeReturns
      DEF Rewrite
    <2>4. CASE Crash
      BY <2>4, TypeCrash
    <2>5. CASE UNCHANGED vars
      BY <2>5 DEF TypeOK, vars
    <2> QED
      BY <2>1, <2>2, <2>3, <2>4, <2>5 DEF Next
  <1>2. AllCut'
    <2>1. CASE Fill
      BY <2>1 DEF Fill, Begin, PutChunk, RebaseDelta, OptimizeChunk, AddItem, PutRecipe, Remove,
         CutFrame, CutFrameFails, Filling, AllCut, AllWritten, batchVars
    <2>2. CASE Publish
      BY <2>2 DEF Publish, Commit, AppendIndex, AppendIndexTorn, IndexRefreshed, AppendRecipe,
         CommitReturns, Release, Resumed, AllCut, AllWritten, batchVars
    <2>3. CASE Rewrite
      BY <2>3 DEF Rewrite, GcPlan, ColdPlan, CopyFrame, MoveBlocks, SwapIndex, DeleteSegment,
         RewriteReturns, RewriteWriteFails, AllCut, AllWritten, batchVars
    <2>4. CASE Crash
      BY <2>4 DEF Crash, AllCut
    <2>5. CASE UNCHANGED vars
      BY <2>5 DEF AllCut, AllWritten, vars
    <2> QED
      BY <2>1, <2>2, <2>3, <2>4, <2>5 DEF Next
  <1> QED
    BY <1>1, <1>2

\* Every variable keeps its type, under every fault and after every crash; in
\* particular no batch logs a block that it has not put in a frame (Commit cuts
\* and writes the last frames before it appends to index.log).
THEOREM TypeCorrect == Spec => []TypeOK
  <1>1. Init => TypeOK /\ AllCut
    BY TypeInit DEF Init, AllCut
  <1>2. TypeOK /\ AllCut /\ [Next]_vars => TypeOK' /\ AllCut'
    BY TypeNext
  <1> QED
    BY <1>1, <1>2, PTL DEF Spec
=============================================================================
