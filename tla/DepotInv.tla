------------------------------ MODULE DepotInv ------------------------------
(***************************************************************************)
(* The inductive invariant behind the safety properties of Depot, in named *)
(* parts.  MCDepot checks it; DepotSafetyProof and DepotPromiseProof       *)
(* prove it.                                                               *)
(***************************************************************************)
EXTENDS Depot

BatchStages   == {"fill", "index", "recipes", "closing"}
RewriteStages == {"copy", "delete"}

\* Who is where: a session's stages are its own, a batch's memory exists only
\* while the batch does, and contents are queued only by a batch of Puts.
Control ==
  /\ lock = "free" <=> stage = "idle"
  /\ lock \in Batches <=> stage \in BatchStages
  /\ lock \in {"gc", "cold"} <=> stage \in RewriteStages
  /\ lock \notin Batches => items = <<>>
  /\ lock # "put" => queued = NoRecipe
  /\ lock \in {"rebase", "optimize"} /\ stage = "fill" => indexed = 0
  /\ stage = "recipes" => items = <<>>

\* Nothing is logged before all of the batch is in frames.
AllCut == stage = "index" => AllWritten

\* No frame lies past the end of the writer's segment, nor in a segment that
\* does not exist: the next frame overwrites nothing.
Fresh ==
  /\ \A p \in Pos : p[1] \notin segs => disk[p] = {}
  /\ \A p \in Pos : p[1] = w.seg /\ p[2] > w.size => disk[p] = {}

\* The blocks the open batch has written are on disk, and those it has logged
\* are the index's.
Framed ==
  \A i \in DOMAIN items : i <= written =>
    /\ items[i].pos \in Pos
    /\ <<items[i].c, items[i].form>> \in disk[items[i].pos]
Logged ==
  \A i \in DOMAIN items : i <= indexed =>
    idx[items[i].c] = [pos |-> items[i].pos, form |-> items[i].form]

Once == \A i, j \in DOMAIN items : items[i].c = items[j].c => i = j

\* A delta of the batch has its base whole, in the index or earlier in the
\* batch, and the batch turns no base into a delta.
Based ==
  /\ \A i \in DOMAIN items : items[i].form # Whole =>
       \/ IsWhole(items[i].form)
       \/ \E j \in DOMAIN items : j < i /\ items[j].c = items[i].form
  /\ \A i, j \in DOMAIN items : items[i].form = items[j].c => items[j].form = Whole
  /\ \A i \in DOMAIN items, d \in Chunk :
       i > indexed /\ IsDelta(d) /\ idx[d].form = items[i].c => items[i].form = Whole

\* A batch of Puts stores only blocks that the index lacks.
NewOnly ==
  lock = "put" => \A i \in DOMAIN items : i > indexed => ~Known(items[i].c)

\* What is indexed is fsynced, and so is all of the batch while it is logged.
Synced ==
  /\ IndexedOnDisk
  /\ stage = "index" => unsynced = {}

\* The plan of gc or Recompress.  Its index points to frames that will stay,
\* or to frames that it has yet to copy, and it loses no live block.
PlanHolds ==
  \A c \in Chunk : newIdx[c].pos # NoPos =>
    /\ Known(c) /\ newIdx[c].form = idx[c].form
    /\ <<c, idx[c].form>> \in disk[newIdx[c].pos]
    /\ newIdx[c].pos[1] \in victims => newIdx[c].pos \in copy /\ newIdx[c].pos = idx[c].pos

PlanCovers ==
  stage = "copy" => \A c \in Live : Known(c) =>
    newIdx[c].pos # NoPos \/ c \in move \/ idx[c].pos \in copy

PlanApart ==
  /\ stage = "copy" =>
       /\ victims \subseteq segs
       /\ copy # {} \/ move # {} => w.seg \notin victims
       /\ \A c \in move : Known(c)
  /\ stage = "delete" => \A c \in Chunk : idx[c].pos[1] \notin victims
  /\ stage \notin RewriteStages => victims = {}
  /\ stage # "copy" => newIdx = NoIdx

\* The disk tears no frame where Recompress runs: the walk over the headers
\* sees every frame then.
SeesAll == HaveZstdMax => "tornFrame" \notin Faults
NoTear  == HaveZstdMax => torn = {}

IndexInv ==
  /\ TypeOK /\ AllCut /\ Control /\ Fresh /\ NoTear
  /\ Framed /\ Logged /\ Once /\ Based /\ NewOnly
  /\ Synced /\ PlanHolds /\ PlanCovers /\ PlanApart
  /\ IndexSound

\* No append to index.log stops inside a record.
WholeLog == "tornIndex" \notin Faults

\* Recipes after blocks: every block of a recipe on disk is indexed, every
\* block of a queued one is indexed or in the batch.
Backed ==
  /\ tornLog = FALSE
  /\ \A x \in Stored : \A c \in parts[x] : Known(c)
  /\ \A x \in Content : queued[x] # "none" => \A c \in parts[x] : Known(c) \/ c \in Pending

\* The one block of a short recipe is whole, and no open batch changes that.
ShortKept ==
  /\ ShortIsWhole
  /\ \A x \in Content : queued[x] = "one" =>
       \A c \in parts[x] : IsWhole(c) \/ c \in PendingWhole
  /\ \A x \in Content : rcp[x] = "one" \/ queued[x] = "one" =>
       /\ x \in Mono
       /\ \A i \in DOMAIN items : items[i].c \in parts[x] => items[i].form = Whole

Consistent == IndexInv /\ Backed /\ ShortKept
=============================================================================
