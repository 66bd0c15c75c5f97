------------------------- MODULE DepotPromiseProof -------------------------
(***************************************************************************)
(* The recipes: Consistent is inductive, so every stored content can be    *)
(* read back, and Depot implements DepotPromise.                           *)
(***************************************************************************)
EXTENDS DepotSafetyProof

\* What a step can do to the index.
LEMMA IndexSteps ==
  ASSUME [Next]_vars
  PROVE  AppendIndex \/ SwapIndex \/ idx' = idx
  <1>1. CASE Fill
    BY <1>1 DEF Fill, Begin, PutChunk, RebaseDelta, OptimizeChunk, AddItem, PutRecipe, Remove,
       CutFrame, CutFrameFails, logVars
  <1>2. CASE Publish
    BY <1>2 DEF Publish, Commit, AppendIndexTorn, IndexRefreshed, AppendRecipe, CommitReturns,
       Release, logVars
  <1>3. CASE Rewrite
    BY <1>3 DEF Rewrite, GcPlan, ColdPlan, CopyFrame, MoveBlocks, DeleteSegment, RewriteReturns,
       RewriteWriteFails, logVars
  <1>4. CASE Crash \/ UNCHANGED vars
    BY <1>4 DEF Crash, logVars, vars
  <1> QED
    BY <1>1, <1>2, <1>3, <1>4 DEF Next

\* What a step can do to the recipes.
LEMMA RecipeSteps ==
  ASSUME [Next]_vars
  PROVE  \/ \E x \in Content : PutRecipe(x) \/ Remove(x) \/ AppendRecipe(x)
         \/ rcp' = rcp /\ (queued' = queued \/ queued' = NoRecipe)
  <1>1. CASE Fill
    BY <1>1 DEF Fill, Begin, PutChunk, RebaseDelta, OptimizeChunk, AddItem, CutFrame,
       CutFrameFails, logVars, batchVars
  <1>2. CASE Publish
    BY <1>2 DEF Publish, Commit, AppendIndex, AppendIndexTorn, IndexRefreshed, CommitReturns,
       Release, logVars, batchVars
  <1>3. CASE Rewrite
    BY <1>3 DEF Rewrite, GcPlan, ColdPlan, CopyFrame, MoveBlocks, SwapIndex, DeleteSegment,
       RewriteReturns, RewriteWriteFails, logVars, batchVars
  <1>4. CASE Crash \/ UNCHANGED vars
    BY <1>4 DEF Crash, logVars, vars
  <1> QED
    BY <1>1, <1>2, <1>3, <1>4 DEF Next

\* What a step can do to the blocks of the open batch: their order and form
\* stay until the batch forgets all of them.
LEMMA ItemSteps ==
  ASSUME TypeOK, [Next]_vars
  PROVE  \/ \E c \in Chunk, f \in Form :
              AddItem(c, f) /\ (PutChunk(c) \/ RebaseDelta(c) \/ OptimizeChunk(c))
         \/ IndexRefreshed
         \/ items' = <<>> /\ queued' = NoRecipe
         \/ /\ DOMAIN items' = DOMAIN items
            /\ \A i \in DOMAIN items : items'[i].c = items[i].c /\ items'[i].form = items[i].form
  <1>1. CASE Fill
    <2>1. ASSUME NEW c \in Chunk, PutChunk(c) \/ RebaseDelta(c)
          PROVE  \E f \in Form : AddItem(c, f)
      BY <2>1 DEF PutChunk, RebaseDelta, BaseChoices, Form
    <2>2. ASSUME NEW c \in Chunk, OptimizeChunk(c)
          PROVE  \E f \in Form : AddItem(c, f)
      BY <2>2 DEF OptimizeChunk, Form
    <2>3. ASSUME \/ \E n \in written + 1 .. Len(items), p \in Pos : CutFrame(n, p)
                 \/ \E k \in indexed .. written, p \in Pos : CutFrameFails(k, p)
          PROVE  /\ DOMAIN items' = DOMAIN items
                 /\ \A i \in DOMAIN items : items'[i].c = items[i].c /\ items'[i].form = items[i].form
      BY <2>3, ItemsType DEF CutFrame, CutFrameFails, Item
    <2>4. ASSUME \/ \E session \in Batches : Begin(session)
                 \/ \E x \in Content : PutRecipe(x) \/ Remove(x)
          PROVE  items' = items
      BY <2>4 DEF Begin, PutRecipe, Remove, batchVars
    <2> QED
      BY <1>1, <2>1, <2>2, <2>3, <2>4 DEF Fill
  <1>2. CASE Publish
    BY <1>2 DEF Publish, Commit, AppendIndex, AppendIndexTorn, AppendRecipe, CommitReturns,
       Release, batchVars
  <1>3. CASE Rewrite
    BY <1>3 DEF Rewrite, GcPlan, ColdPlan, CopyFrame, MoveBlocks, SwapIndex, DeleteSegment,
       RewriteReturns, RewriteWriteFails, batchVars
  <1>4. CASE Crash \/ UNCHANGED vars
    BY <1>4 DEF Crash, vars
  <1> QED
    BY <1>1, <1>2, <1>3, <1>4 DEF Next

\* A block stays known, unless the swap drops it for being dead.
LEMMA KnownStays ==
  ASSUME IndexInv, [Next]_vars, NEW c \in Chunk, Known(c), SwapIndex => c \in Live
  PROVE  Known(c)'
  <1>1. CASE AppendIndex
    <2>1. BatchInv
      BY DEF IndexInv, BatchInv
    <2>2. PICK d \in Chunk, p \in Pos, f \in Form :
            /\ idx'[d] = [pos |-> p, form |-> f]
            /\ \A b \in Chunk : b # d => idx'[b] = idx[b]
      BY <1>1, <2>1, NextRecord DEF IndexInv, Item
    <2> QED
      BY <2>2, KnownPos DEF Known, IndexInv
  <1>2. CASE SwapIndex
    BY <1>2, KnownPos DEF IndexInv, SwapIndex, PlanCovers, Known
  <1> QED
    BY <1>1, <1>2, IndexSteps DEF Known

\* The blocks of the batch stay pending until the batch forgets all of them.
LEMMA PendingSteps ==
  ASSUME TypeOK, [Next]_vars
  PROVE  \/ Pending \subseteq Pending' /\ PendingWhole \subseteq PendingWhole'
         \/ IndexRefreshed
         \/ items' = <<>> /\ queued' = NoRecipe
  <1>1. ASSUME NEW c \in Chunk, NEW f \in Form, AddItem(c, f)
        PROVE  /\ Pending \subseteq Pending' /\ PendingWhole \subseteq PendingWhole'
    <2>1. /\ DOMAIN items \subseteq DOMAIN items'
          /\ \A i \in DOMAIN items : items'[i] = items[i]
      <3>1. items \in Seq(Item) /\ [c |-> c, form |-> f, pos |-> NoPos] \in Item
        BY DEF TypeOK, Item
      <3> QED
        BY <3>1, <1>1, ItemsType, AppendProperties, LenProperties DEF AddItem
    <2> QED
      BY <2>1 DEF Pending, PendingWhole
  <1> QED
    BY <1>1, ItemSteps DEF Pending, PendingWhole

\* Once the whole batch is logged, each of its blocks is known in its form.
LEMMA LoggedKnown ==
  ASSUME IndexInv, AllIndexed
  PROVE  /\ \A c \in Pending : Known(c)
         /\ \A c \in PendingWhole : IsWhole(c)
  <1>1. ASSUME NEW i \in DOMAIN items
        PROVE  Known(items[i].c) /\ idx[items[i].c].form = items[i].form
    <2>1. i <= indexed /\ i <= written
      BY ItemsType DEF IndexInv, AllIndexed
    <2>2. idx[items[i].c] = [pos |-> items[i].pos, form |-> items[i].form]
      BY <2>1 DEF IndexInv, Logged
    <2>3. items[i].pos \in Pos
      BY <2>1 DEF IndexInv, Framed
    <2>4. items[i].pos # NoPos
      BY <2>3 DEF NoPos, Pos, Seg
    <2> QED
      BY <2>2, <2>4 DEF Known
  <1> QED
    BY <1>1 DEF Pending, PendingWhole, IsWhole

\* Without a torn append, index.log ends in a whole record.
LEMMA NoTornLog ==
  ASSUME WholeLog, tornLog = FALSE, [Next]_vars
  PROVE  tornLog' = FALSE
  <1>1. CASE Fill
    BY <1>1 DEF Fill, Begin, PutChunk, RebaseDelta, OptimizeChunk, AddItem, PutRecipe, Remove,
       CutFrame, CutFrameFails, logVars
  <1>2. CASE Publish
    BY <1>2 DEF WholeLog, Publish, Commit, AppendIndex, AppendIndexTorn, IndexRefreshed,
       AppendRecipe, CommitReturns, Release, logVars
  <1>3. CASE Rewrite
    BY <1>3 DEF Rewrite, GcPlan, ColdPlan, CopyFrame, MoveBlocks, SwapIndex, DeleteSegment,
       RewriteReturns, RewriteWriteFails, logVars
  <1>4. CASE Crash \/ UNCHANGED vars
    BY <1>4 DEF Crash, logVars, vars
  <1> QED
    BY <1>1, <1>2, <1>3, <1>4 DEF Next

\* Every step keeps the blocks of each recipe indexed, or in the batch.
LEMMA BackedNext ==
  ASSUME WholeLog, IndexInv, Backed, [Next]_vars
  PROVE  Backed'
  <1>1. tornLog' = FALSE
    BY NoTornLog DEF Backed
  <1>2. ASSUME NEW x \in Content, rcp[x] # "none", NEW c \in parts[x]
        PROVE  Known(c)'
    <2>1. c \in Chunk /\ Known(c) /\ c \in Live
      BY <1>2, DataAssumption DEF Backed, Stored, Live, RecipeChunks
    <2> QED
      BY <2>1, KnownStays
  <1>3. SwapIndex => queued = NoRecipe
    BY DEF SwapIndex, IndexInv, Control, Batches, BatchStages, RewriteStages
  <1>4. ASSUME NEW x \in Content, queued[x] # "none", NEW c \in parts[x], queued' # NoRecipe
        PROVE  Known(c)' \/ c \in Pending'
    <2>1. c \in Chunk /\ (Known(c) \/ c \in Pending)
      BY <1>4, DataAssumption DEF Backed
    <2>2. ~SwapIndex
      BY <1>3, <1>4 DEF NoRecipe, SwapIndex, batchVars
    <2>3. IndexRefreshed => Known(c)
      BY <2>1, LoggedKnown DEF IndexRefreshed, Backed
    <2> QED
      BY <2>1, <2>2, <2>3, <1>4, KnownStays, PendingSteps DEF IndexInv
  <1>5. ASSUME NEW x \in Content, rcp'[x] # "none", NEW c \in parts[x]
        PROVE  Known(c)'
    <2>1. CASE rcp[x] # "none"
      BY <2>1, <1>2
    <2>2. CASE AppendRecipe(x)
      <3>1. Pending = {} /\ queued[x] # "none" /\ c \in Chunk
        BY <2>2, DataAssumption DEF AppendRecipe, IndexInv, Control, Pending
      <3>2. Known(c) /\ ~SwapIndex
        BY <3>1, <2>2 DEF Backed, AppendRecipe, SwapIndex
      <3> QED
        BY <3>1, <3>2, KnownStays
    <2> QED
      BY <1>5, <2>1, <2>2, RecipeSteps DEF PutRecipe, Remove, AppendRecipe, logVars, IndexInv, TypeOK
  <1>6. ASSUME NEW x \in Content, queued'[x] # "none", NEW c \in parts[x]
        PROVE  Known(c)' \/ c \in Pending'
    <2>0. queued' # NoRecipe
      BY <1>6 DEF NoRecipe
    <2>1. CASE queued[x] # "none"
      BY <2>0, <2>1, <1>4
    <2>2. CASE PutRecipe(x)
      BY <2>2 DEF PutRecipe, Known, Pending, logVars
    <2> QED
      BY <1>6, <2>0, <2>1, <2>2, RecipeSteps DEF PutRecipe, Remove, AppendRecipe, IndexInv, TypeOK
  <1> QED
    BY <1>1, <1>5, <1>6 DEF Backed, Stored

\* Every step keeps the block of a short recipe whole.
LEMMA ShortNext ==
  ASSUME WholeLog, IndexInv, Backed, ShortKept, [Next]_vars
  PROVE  ShortKept'
  <1>0. BatchInv /\ PlanInv /\ TypeOK
    BY DEF IndexInv, BatchInv, PlanInv
  \* The block of a short recipe stays whole: no record of the batch turns it
  \* into a delta.
  <1>1. ASSUME NEW x \in Content, rcp[x] = "one" \/ queued[x] = "one",
               NEW c \in parts[x], IsWhole(c), SwapIndex => rcp[x] = "one"
        PROVE  IsWhole(c)'
    <2>0. c \in Chunk
      BY DataAssumption
    <2>1. CASE AppendIndex
      <3>1. PICK i \in DOMAIN items, d \in Chunk, f \in Form, p \in Pos :
              /\ items[i].c = d /\ items[i].form = f
              /\ idx'[d] = [pos |-> p, form |-> f]
              /\ \A b \in Chunk : b # d => idx'[b] = idx[b]
        BY <1>0, <2>1, NextRecord DEF IndexInv, Item
      <3>2. CASE c = d
        <4>1. f = Whole
          BY <1>1, <3>1, <3>2 DEF ShortKept
        <4> QED
          BY <1>0, <2>0, <3>1, <3>2, <4>1, KnownPos DEF IsWhole, Known
      <3>3. CASE c # d
        BY <1>1, <2>0, <3>1, <3>3 DEF IsWhole, Known
      <3> QED
        BY <3>2, <3>3
    <2>2. CASE SwapIndex
      <3>1. c \in Live /\ Known(c)
        BY <1>1, <2>2 DEF Live, RecipeChunks, Stored, IsWhole
      <3>2. newIdx[c].pos # NoPos
        BY <1>0, <2>2, <3>1 DEF SwapIndex, PlanInv, PlanCovers
      <3> QED
        BY <1>0, <1>1, <2>0, <2>2, <3>2 DEF SwapIndex, PlanInv, PlanHolds, IsWhole, Known
    <2>3. CASE idx' = idx
      BY <1>1, <2>3 DEF IsWhole, Known
    <2> QED
      BY <2>1, <2>2, <2>3, IndexSteps
  <1>2. SwapIndex => queued = NoRecipe /\ rcp' = rcp /\ queued' = queued
    BY DEF SwapIndex, IndexInv, Control, Batches, BatchStages, RewriteStages, batchVars
  <1>3. \A x \in Content : queued[x] = "one" /\ SwapIndex => rcp[x] = "one"
    BY <1>2 DEF NoRecipe
  <1>4. ASSUME NEW x \in Content, queued[x] = "one", NEW c \in parts[x], queued' # NoRecipe
        PROVE  IsWhole(c)' \/ c \in PendingWhole'
    <2>1. IsWhole(c) \/ c \in PendingWhole
      BY <1>4 DEF ShortKept
    <2>2. CASE IsWhole(c)
      BY <1>1, <1>3, <1>4, <2>2
    <2>3. CASE c \in PendingWhole /\ ~IsWhole(c)
      <3>1. IndexRefreshed => FALSE
        BY <2>3, LoggedKnown DEF IndexRefreshed, Backed
      <3> QED
        BY <1>0, <1>4, <2>3, <3>1, PendingSteps
    <2> QED
      BY <2>1, <2>2, <2>3
  <1>5. ShortIsWhole'
    <2> SUFFICES ASSUME NEW x \in Content, rcp'[x] = "one", NEW c \in parts[x]
                 PROVE  IsWhole(c)'
      BY DEF ShortIsWhole
    <2>1. CASE rcp[x] = "one"
      BY <1>1, <2>1 DEF ShortKept, ShortIsWhole
    <2>2. CASE AppendRecipe(x) /\ queued[x] = "one"
      <3>1. PendingWhole = {} /\ ~SwapIndex
        BY <2>2 DEF AppendRecipe, IndexInv, Control, PendingWhole, SwapIndex
      <3>2. IsWhole(c)
        BY <2>2, <3>1 DEF ShortKept
      <3> QED
        BY <1>1, <2>2, <3>1, <3>2
    <2> QED
      BY <1>0, <2>1, <2>2, RecipeSteps DEF PutRecipe, Remove, AppendRecipe, logVars, TypeOK
  \* The short records of the next state: this state's, or the one just put.
  <1>6. ASSUME NEW x \in Content, queued'[x] = "one"
        PROVE  queued' # NoRecipe /\ (queued[x] = "one" \/ (PutRecipe(x) /\ RecordKind(x) = "one"))
    BY <1>0, <1>6, RecipeSteps DEF PutRecipe, Remove, AppendRecipe, TypeOK, NoRecipe
  <1>7. ASSUME NEW x \in Content, queued'[x] = "one", NEW c \in parts[x]
        PROVE  IsWhole(c)' \/ c \in PendingWhole'
    <2>1. CASE queued[x] = "one"
      BY <1>4, <1>6, <1>7, <2>1
    <2>2. CASE PutRecipe(x) /\ RecordKind(x) = "one"
      BY <2>2 DEF PutRecipe, RecordKind, IsWhole, Known, PendingWhole, logVars
    <2> QED
      BY <1>6, <1>7, <2>1, <2>2
  <1>8. ASSUME NEW x \in Content, rcp'[x] = "one" \/ queued'[x] = "one"
        PROVE  \/ rcp[x] = "one"
               \/ queued[x] = "one"
               \/ PutRecipe(x) /\ RecordKind(x) = "one"
    <2>1. CASE rcp'[x] = "one"
      BY <1>0, <2>1, RecipeSteps DEF PutRecipe, Remove, AppendRecipe, logVars, TypeOK
    <2> QED
      BY <1>6, <1>8, <2>1
  <1>9. ASSUME NEW x \in Content, rcp'[x] = "one" \/ queued'[x] = "one"
        PROVE  /\ x \in Mono
               /\ \A i \in DOMAIN items' : items'[i].c \in parts[x] => items'[i].form = Whole
    <2>1. x \in Mono
      BY <1>8, <1>9 DEF ShortKept, RecordKind
    <2>2. PICK b \in Chunk : parts[x] = {b}
      BY <2>1, DataAssumption
    <2>3. CASE PutRecipe(x) /\ RecordKind(x) = "one"
      <3>1. items' = items /\ lock = "put" /\ (b \in PendingWhole \/ IsWhole(b))
        BY <2>2, <2>3 DEF PutRecipe, RecordKind, Filling
      <3>2. ASSUME NEW i \in DOMAIN items, items[i].c = b
            PROVE  items[i].form = Whole
        <4>1. CASE b \in PendingWhole
          BY <3>2, <4>1 DEF PendingWhole, IndexInv, Once
        <4>2. CASE IsWhole(b)
          <5>1. i <= indexed
            BY <1>0, <3>1, <3>2, <4>2, ItemsType DEF IndexInv, NewOnly, IsWhole, TypeOK
          <5>2. idx[b] = [pos |-> items[i].pos, form |-> items[i].form]
            BY <3>2, <5>1 DEF IndexInv, Logged
          <5> QED
            BY <4>2, <5>2 DEF IsWhole
        <4> QED
          BY <3>1, <4>1, <4>2
      <3> QED
        BY <2>1, <2>2, <3>1, <3>2
    <2>4. CASE rcp[x] = "one" \/ queued[x] = "one"
      <3>1. \A i \in DOMAIN items : items[i].c = b => items[i].form = Whole
        BY <2>2, <2>4 DEF ShortKept
      <3>2. lock # "put" => rcp[x] = "one"
        BY <2>4 DEF IndexInv, Control, NoRecipe
      <3>3. ~PutChunk(b) /\ ~RebaseDelta(b) /\ ~OptimizeChunk(b)
        <4>1. IsWhole(b) \/ b \in Pending
          BY <2>2, <2>4 DEF ShortKept, ShortIsWhole, Pending, PendingWhole
        <4>2. rcp[x] = "one" => IsWhole(b) /\ ShortBlock(b)
          BY <2>2 DEF ShortKept, ShortIsWhole, ShortBlock
        <4> QED
          BY <3>2, <4>1, <4>2 DEF PutChunk, RebaseDelta, OptimizeChunk, Convertible, Filling,
             IsWhole, IsDelta
      <3>4. ASSUME NEW c \in Chunk, NEW f \in Form, AddItem(c, f), c # b
            PROVE  \A i \in DOMAIN items' : items'[i].c = b => items'[i].form = Whole
        <4>1. \A i \in DOMAIN items' : (items'[i] = items[i] /\ i \in DOMAIN items) \/ items'[i].c = c
          <5>1. items \in Seq(Item) /\ [c |-> c, form |-> f, pos |-> NoPos] \in Item
            BY <1>0 DEF TypeOK, Item
          <5> QED
            BY <5>1, <3>4, AppendProperties, LenProperties DEF AddItem
        <4> QED
          BY <3>1, <3>4, <4>1
      <3>5. CASE \E c \in Chunk, f \in Form :
                   AddItem(c, f) /\ (PutChunk(c) \/ RebaseDelta(c) \/ OptimizeChunk(c))
        BY <2>1, <2>2, <3>3, <3>4, <3>5
      <3>6. CASE items' = <<>>
        BY <2>1, <3>6
      <3>7. CASE /\ DOMAIN items' = DOMAIN items
                 /\ \A i \in DOMAIN items : items'[i].c = items[i].c /\ items'[i].form = items[i].form
        BY <2>1, <2>2, <3>1, <3>7
      <3> QED
        BY <1>0, <3>5, <3>6, <3>7, ItemSteps DEF IndexRefreshed
    <2> QED
      BY <1>8, <1>9, <2>3, <2>4
  <1> QED
    BY <1>5, <1>7, <1>9 DEF ShortKept

\* The empty depot has no recipes.
LEMMA ConsistentInit ==
  Init => Backed /\ ShortKept
  BY DEF Init, Backed, ShortKept, ShortIsWhole, Stored, NoRecipe

\* Where no frame and no append is torn, recipes, index and frames go together
\* in every state reached through batches, collections, rewrites and crashes.
THEOREM AlwaysConsistent ==
  ASSUME SeesAll, WholeLog
  PROVE  Spec => []Consistent
  <1>1. Init => Consistent
    BY IndexInit, ConsistentInit DEF Consistent
  <1>2. Consistent /\ [Next]_vars => Consistent'
    BY IndexNext, BackedNext, ShortNext DEF Consistent
  <1> QED
    BY <1>1, <1>2, PTL DEF Spec

\* So each content with a recipe can be read back: what Commit has published
\* survives collections, rewrites and crashes until its removal.
THEOREM ReadBack ==
  ASSUME SeesAll, WholeLog
  PROVE  Spec => []Readable
  <1>1. Consistent => Readable
    BY DataAssumption DEF Consistent, IndexInv, IndexSound, Backed, Readable, Intact, Stored
  <1> QED
    BY <1>1, AlwaysConsistent, PTL

\* And a recipe written short has its block whole, not as a delta, through
\* rebaseOrphans, Optimize and Recompress, which write blocks anew.
THEOREM ShortStaysWhole ==
  ASSUME SeesAll, WholeLog
  PROVE  Spec => []ShortIsWhole
  <1>1. Consistent => ShortIsWhole
    BY DataAssumption DEF Consistent, IndexInv, IndexSound, Backed, ShortKept, Readable, Intact, Stored
  <1> QED
    BY <1>1, AlwaysConsistent, PTL

----------------------------------------------------------------------------
(* The depot implements DepotPromise.                                      *)

\* In a consistent depot every recipe can be read back.
LEMMA AllIntact ==
  Consistent => {x \in Stored : Intact(x)} = Stored
  BY DataAssumption DEF Consistent, IndexInv, IndexSound, Backed, Intact, Stored

\* Put of a recipe asks, Commit publishes, Remove forgets, the end of a batch
\* or a crash discards; every other step is invisible.
LEMMA PromiseStep ==
  ASSUME Consistent, Consistent', [Next]_vars
  PROVE  [Promise!Next]_(Promise!vars)
  <1>0. (Consistent => {x \in Stored : Intact(x)} = Stored)'
    BY DataAssumption DEF Consistent, IndexInv, IndexSound, Backed, Intact, Stored
  <1>1. {x \in Stored : Intact(x)} = Stored /\ {x \in Stored : Intact(x)}' = Stored'
    BY <1>0, AllIntact
  <1>2. /\ rcp \in [Content -> Kind] /\ queued \in [Content -> Kind]
        /\ rcp' \in [Content -> Kind] /\ queued' \in [Content -> Kind]
    BY DEF Consistent, IndexInv, TypeOK
  <1>3. ASSUME NEW x \in Content, PutRecipe(x)
        PROVE  Promise!Ask(x)
    BY <1>1, <1>2, <1>3 DEF PutRecipe, RecordKind, logVars, Promise!Ask, Stored
  <1>4. ASSUME NEW x \in Content, Remove(x)
        PROVE  Promise!Forget(x)
    BY <1>1, <1>2, <1>4 DEF Remove, Promise!Forget, Stored
  <1>5. ASSUME NEW x \in Content, AppendRecipe(x)
        PROVE  Promise!Publish(x)
    BY <1>1, <1>2, <1>5 DEF AppendRecipe, Promise!Publish, Stored
  <1>6. CASE rcp' = rcp /\ queued' = queued
    BY <1>1, <1>6 DEF Promise!vars, Stored
  <1>7. CASE rcp' = rcp /\ queued' = NoRecipe
    BY <1>1, <1>7 DEF Promise!Discard, Promise!Next, NoRecipe, Stored
  <1> QED
    BY <1>3, <1>4, <1>5, <1>6, <1>7, RecipeSteps DEF Promise!Next, Consistent, IndexInv

\* Seen from outside, batches, collections, rewrites and crashes are the four
\* actions of DepotPromise: no step of the depot publishes a content nobody
\* asked for, and none takes a stored one away unless it is its removal.
THEOREM PromiseKept ==
  ASSUME SeesAll, WholeLog
  PROVE  Spec => KeepsPromise
  <1>1. Init => Promise!Init
    BY DEF Init, Promise!Init, Stored, NoRecipe
  <1>2. Spec => []Consistent
    BY AlwaysConsistent
  <1>3. Consistent /\ Consistent' /\ [Next]_vars => [Promise!Next]_(Promise!vars)
    BY PromiseStep
  <1> QED
    BY <1>1, <1>2, <1>3, PTL DEF Spec, KeepsPromise, Promise!Spec
=============================================================================
