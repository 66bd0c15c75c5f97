--------------------------- MODULE ManifestProof ---------------------------
(***************************************************************************)
(* The safety of ManifestSync.  TypeOK is an invariant of it.  Where every *)
(* edit is marked and no two Saves overlap (Serial), Linked is one, too,   *)
(* and the file is the book of ManifestPromise.                            *)
(***************************************************************************)
EXTENDS ManifestInv, TLAPS

\* Marks that are added to, or exchanged, are marks.
LEMMA MarksFields ==
  ASSUME NEW m \in Marks, NEW us \in SUBSET Uid, NEW fs \in SUBSET Dir,
         NEW gs \in SUBSET Dir
  PROVE  /\ [m EXCEPT !.dirty = @ \cup us] \in Marks
         /\ [m EXCEPT !.deleted = @ \cup us] \in Marks
         /\ [m EXCEPT !.dirtyFolders = @ \cup fs] \in Marks
         /\ [m EXCEPT !.dirtyFolders = @ \ gs, !.deletedFolders = @ \cup fs] \in Marks
  <1>1. /\ m.dirty \cup us \in SUBSET Uid /\ m.deleted \cup us \in SUBSET Uid
        /\ m.dirtyFolders \cup fs \in SUBSET Dir /\ m.dirtyFolders \ gs \in SUBSET Dir
        /\ m.deletedFolders \cup fs \in SUBSET Dir
    BY DEF Marks
  <1>2. [m EXCEPT !.dirty = @ \cup us] \in Marks
    BY <1>1 DEF Marks
  <1>3. [m EXCEPT !.deleted = @ \cup us] \in Marks
    BY <1>1 DEF Marks
  <1>4. [m EXCEPT !.dirtyFolders = @ \cup fs] \in Marks
    BY <1>1 DEF Marks
  <1>5. [m EXCEPT !.dirtyFolders = @ \ gs, !.deletedFolders = @ \cup fs] \in Marks
    BY <1>1 DEF Marks
  <1> QED
    BY <1>2, <1>3, <1>4, <1>5

\* An entry with another path or another mode is an entry.
LEMMA EntryFields ==
  ASSUME NEW e \in Entry
  PROVE  /\ \A to \in Path : [e EXCEPT !.path = to] \in Entry
         /\ \A m \in Mode : [e EXCEPT !.mode = m] \in Entry
  BY DEF Entry

\* What Edit leaves in memory.
LEMMA EditSays ==
  ASSUME TypeOK, NEW p \in Proc, NEW STATE es, NEW STATE fs, NEW STATE mark,
         Edit(p, es, fs, mark)
  PROVE  /\ \A q \in Proc \ {p} : mem'[q] = mem[q] /\ marks'[q] = marks[q]
         /\ mem'[p].folders = fs /\ marks'[p] = mark
         /\ \A u \in Uid :
              mem'[p].entries[u] = IF u \in DOMAIN es THEN es[u]
                                                      ELSE mem[p].entries[u]
  BY DEF TypeOK, Edit

\* Edit keeps the types, given values of the right type.
LEMMA EditType ==
  ASSUME TypeOK, NEW p \in Proc, NEW STATE es, NEW STATE fs, NEW STATE mark,
         \A u \in Uid \cap DOMAIN es : es[u] \in Entry \cup {Absent},
         fs \subseteq Dir, mark \in Marks, Edit(p, es, fs, mark)
  PROVE  mem' \in [Proc -> Man] /\ marks' \in [Proc -> Marks]
  <1> DEFINE g == [u \in Uid |-> IF u \in DOMAIN es THEN es[u]
                                                    ELSE mem[p].entries[u]]
  <1>1. g \in [Uid -> Entry \cup {Absent}]
    BY DEF TypeOK, Man
  <1> HIDE DEF g
  <1>2. [entries |-> g, folders |-> fs] \in Man
    BY <1>1 DEF Man
  <1> QED
    BY <1>2 DEF TypeOK, Edit, g

\* What AskFor leaves in asked.
LEMMA AskSays ==
  ASSUME TypeOK, NEW p \in Proc, NEW STATE wish, AskFor(p, wish)
  PROVE  /\ \A q \in Proc \ {p} : asked'[q] = asked[q]
         /\ \A i \in Item :
              asked'[p][i] = IF i \in DOMAIN wish THEN wish[i] ELSE asked[p][i]
  BY DEF TypeOK, AskFor

Wish == [Item -> Entry \cup {Here, Absent, Quiet}]

\* Types of asked, as TypeOK has them.
AskedOK ==
  /\ asked \in [Proc -> Wish]
  /\ \A p \in Proc :
       /\ \A u \in Uid : asked[p][u] # Here
       /\ \A d \in Dir : asked[p][d] \in {Here, Absent, Quiet}

\* AskFor keeps the types.
LEMMA AskType ==
  ASSUME TypeOK, NEW p \in Proc, NEW STATE wish, AskFor(p, wish),
         \A u \in Uid \cap DOMAIN wish : wish[u] \in Entry \cup {Absent},
         \A d \in Dir \cap DOMAIN wish : wish[d] \in {Here, Absent}
  PROVE  AskedOK'
  <1> DEFINE g == [i \in Item |-> IF i \in DOMAIN wish THEN wish[i]
                                                       ELSE asked[p][i]]
  <1>1. g \in Wish
    BY DEF TypeOK, Wish, Item
  <1>2. \A u \in Uid : g[u] # Here
    BY ValueAssumption DEF TypeOK, Item
  <1>3. \A d \in Dir : g[d] \in {Here, Absent, Quiet}
    BY DEF TypeOK, Item
  <1>4. asked' = [asked EXCEPT ![p] = g]
    BY DEF AskFor
  <1> HIDE DEF g
  <1> QED
    BY <1>1, <1>2, <1>3, <1>4 DEF TypeOK, AskedOK, Wish

\* A call that edits, asks, and goes on to Save with s.mu held.
LEMMA TypeSaveNext ==
  ASSUME TypeOK, NEW p \in Proc, SaveUnderMu(p, "call"),
         mem' \in [Proc -> Man], marks' \in [Proc -> Marks], AskedOK',
         stored' \subseteq Content, UNCHANGED <<manifest, inSync, job>>
  PROVE  TypeOK'
  BY DEF TypeOK, SaveUnderMu, AskedOK, Wish, Thread, Step

\* Add keeps the types.
LEMMA TypeAdd ==
  ASSUME TypeOK, NEW p \in Proc, NEW u \in Uid, NEW n \in Name,
         NEW c \in Content, Add(p, u, n, c)
  PROVE  TypeOK'
  <1> DEFINE es == New(u, <<Root, n>>, c)
             mk == MarkDirty(p, {u})
  <1>1. DOMAIN es = {u} /\ es[u] \in Entry
    BY NameAssumption DEF New, Entry, Path, Place
  <1>2. mk \in Marks /\ mem[p].folders \subseteq Dir
    BY MarksFields DEF TypeOK, MarkDirty, Man
  <1>3. Edit(p, es, mem[p].folders, mk) /\ AskFor(p, es)
    BY DEF Add, EditEntries
  <1>4. Dir \cap DOMAIN es = {}
    BY <1>1, NameAssumption
  <1> HIDE DEF es, mk
  <1>5. mem' \in [Proc -> Man] /\ marks' \in [Proc -> Marks]
    BY <1>1, <1>2, <1>3, EditType
  <1>6. AskedOK'
    BY <1>1, <1>3, <1>4, AskType
  <1> QED
    BY <1>5, <1>6 DEF Add, Put, TypeOK, AskedOK, Wish, Thread, Step

\* The types after a call that edits entries and goes on to Save.
LEMMA TypeOneEntry ==
  ASSUME TypeOK, NEW p \in Proc, NEW us \in SUBSET Uid, NEW STATE es,
         NEW STATE mk, mk \in Marks, DOMAIN es = us,
         \A u \in us : es[u] \in Entry \cup {Absent},
         EditEntries(p, es, mk), AskFor(p, es), SaveUnderMu(p, "call"),
         stored' \subseteq Content, UNCHANGED <<manifest, inSync, job>>
  PROVE  TypeOK'
  <1>2. mem[p].folders \subseteq Dir
    BY DEF TypeOK, Man
  <1>3. Edit(p, es, mem[p].folders, mk)
    BY DEF EditEntries
  <1>4. Dir \cap DOMAIN es = {} /\ \A u \in Uid \cap DOMAIN es : es[u] \in Entry \cup {Absent}
    BY NameAssumption
  <1>5. mem' \in [Proc -> Man] /\ marks' \in [Proc -> Marks]
    BY <1>2, <1>3, <1>4, EditType
  <1>6. AskedOK'
    BY <1>4, AskType
  <1> QED
    BY <1>5, <1>6, TypeSaveNext

\* RenameEntry keeps the types.
LEMMA TypeRename ==
  ASSUME TypeOK, NEW p \in Proc, NEW u \in Uid, NEW to \in Path,
         RenameEntry(p, u, to)
  PROVE  TypeOK'
  <1> DEFINE es == [x \in {u} |-> [mem[p].entries[u] EXCEPT !.path = to]]
  <1>0. mem[p].entries[u] \in Entry
    BY DEF TypeOK, Man, RenameEntry, Has
  <1>1. DOMAIN es = {u} /\ es[u] \in Entry
    BY <1>0, EntryFields
  <1>2. MarkDirty(p, {u}) \in Marks
    BY MarksFields DEF TypeOK, MarkDirty
  <1>3. EditEntries(p, es, MarkDirty(p, {u})) /\ AskFor(p, es)
    BY DEF RenameEntry
  <1> HIDE DEF es
  <1> QED
    BY <1>1, <1>2, <1>3, TypeOneEntry DEF RenameEntry, TypeOK

\* Entries that change folder stay entries.
LEMMA MovedType ==
  ASSUME TypeOK, NEW p \in Proc, NEW us \in SUBSET Present(p), NEW d \in Place
  PROVE  DOMAIN Moved(p, us, d) = us /\ \A u \in us : Moved(p, us, d)[u] \in Entry
  <1> SUFFICES ASSUME NEW u \in us
               PROVE  [mem[p].entries[u] EXCEPT !.path = <<d, @[2]>>] \in Entry
    BY DEF Moved
  <1>1. mem[p].entries[u] \in Entry
    BY DEF TypeOK, Man, Present, Has
  <1>2. <<d, mem[p].entries[u].path[2]>> \in Path
    BY <1>1 DEF Entry, Path
  <1> QED
    BY <1>1, <1>2 DEF Entry

\* MoveEntry keeps the types.
LEMMA TypeMove ==
  ASSUME TypeOK, NEW p \in Proc, NEW u \in Uid, NEW d \in Place,
         MoveEntry(p, u, d)
  PROVE  TypeOK'
  <1> DEFINE es == Moved(p, {u}, d)
  <1>1. DOMAIN es = {u} /\ \A x \in {u} : es[x] \in Entry
    BY MovedType DEF MoveEntry, Has, Present
  <1>2. MarkDirty(p, {u}) \in Marks
    BY MarksFields DEF TypeOK, MarkDirty
  <1>3. EditEntries(p, es, MarkDirty(p, {u})) /\ AskFor(p, es)
    BY DEF MoveEntry
  <1> HIDE DEF es
  <1> QED
    BY <1>1, <1>2, <1>3, TypeOneEntry DEF MoveEntry, TypeOK

\* SetEntryMode keeps the types.
LEMMA TypeChmod ==
  ASSUME TypeOK, NEW p \in Proc, NEW u \in Uid, NEW m \in Mode,
         SetEntryMode(p, u, m)
  PROVE  TypeOK'
  <1> DEFINE es == [x \in {u} |-> [mem[p].entries[u] EXCEPT !.mode = m]]
  <1>0. mem[p].entries[u] \in Entry
    BY DEF TypeOK, Man, SetEntryMode, Has
  <1>1. DOMAIN es = {u} /\ es[u] \in Entry
    BY <1>0, EntryFields
  <1>2. marks[p] \in Marks
    BY DEF TypeOK
  <1>3. EditEntries(p, es, marks[p]) /\ AskFor(p, es)
    BY DEF SetEntryMode
  <1> HIDE DEF es
  <1> QED
    BY <1>1, <1>2, <1>3, TypeOneEntry DEF SetEntryMode, TypeOK

\* The types after a removal, whoever asks for it.
LEMMA TypeRemoval ==
  ASSUME TypeOK, NEW p \in Proc, NEW us \in SUBSET Uid, RemoveLocked(p, us)
  PROVE  /\ mem' \in [Proc -> Man] /\ marks' \in [Proc -> Marks]
         /\ AskedOK' /\ stored' \subseteq Content
  <1> DEFINE es == [u \in us |-> Absent]
             mk == [marks[p] EXCEPT !.deleted = @ \cup us]
  <1>1. mk \in Marks /\ mem[p].folders \subseteq Dir
    BY MarksFields DEF TypeOK, Man
  <1>2. Edit(p, es, mem[p].folders, mk) /\ AskFor(p, es)
    BY DEF RemoveLocked, EditEntries
  <1>3. Dir \cap DOMAIN es = {} /\ \A u \in Uid \cap DOMAIN es : es[u] = Absent
    BY NameAssumption
  <1> HIDE DEF es, mk
  <1>4. mem' \in [Proc -> Man] /\ marks' \in [Proc -> Marks]
    BY <1>1, <1>2, <1>3, EditType
  <1>5. AskedOK'
    BY <1>2, <1>3, AskType
  <1> QED
    BY <1>4, <1>5 DEF RemoveLocked, TypeOK

\* The types after a call that edits folders and goes on to Save.
LEMMA TypeFolders ==
  ASSUME TypeOK, NEW p \in Proc, NEW STATE es, NEW STATE fs, NEW STATE mk,
         NEW STATE wish,
         \A u \in Uid \cap DOMAIN es : es[u] \in Entry \cup {Absent},
         fs \subseteq Dir, mk \in Marks, Edit(p, es, fs, mk),
         \A u \in Uid \cap DOMAIN wish : wish[u] \in Entry \cup {Absent},
         \A d \in Dir \cap DOMAIN wish : wish[d] \in {Here, Absent},
         AskFor(p, wish), SaveUnderMu(p, "call"),
         UNCHANGED <<manifest, inSync, job, stored>>
  PROVE  TypeOK'
  <1>1. mem' \in [Proc -> Man] /\ marks' \in [Proc -> Marks]
    BY EditType
  <1>2. AskedOK'
    BY AskType
  <1> QED
    BY <1>1, <1>2, TypeSaveNext DEF TypeOK

\* CreateFolder keeps the types.
LEMMA TypeCreateFolder ==
  ASSUME TypeOK, NEW p \in Proc, NEW d \in Dir, CreateFolder(p, d)
  PROVE  TypeOK'
  <1> DEFINE es == [u \in {} |-> Absent]
             fs == mem[p].folders \cup {d}
             mk == [marks[p] EXCEPT !.dirtyFolders = @ \cup {d}]
             wish == [f \in {d} |-> Here]
  <1>1. fs \subseteq Dir /\ mk \in Marks
    BY MarksFields DEF TypeOK, Man
  <1>2. DOMAIN es = {} /\ DOMAIN wish = {d} /\ wish[d] = Here /\ d \notin Uid
    BY NameAssumption
  <1>3. Edit(p, es, fs, mk) /\ AskFor(p, wish)
    BY DEF CreateFolder
  <1> HIDE DEF es, fs, mk, wish
  <1> QED
    BY <1>1, <1>2, <1>3, TypeFolders DEF CreateFolder

\* setFolders leaves marks.
LEMMA SetFoldersType ==
  ASSUME TypeOK, NEW p \in Proc, NEW us \in SUBSET Uid, NEW fs \in SUBSET Dir
  PROVE  SetFolders(p, us, fs) \in Marks
  <1>1. MarkDirty(p, us) \in Marks
    BY MarksFields DEF TypeOK, MarkDirty
  <1>2. mem[p].folders \cup fs \in SUBSET Dir /\ mem[p].folders \ fs \in SUBSET Dir
    BY DEF TypeOK, Man
  <1> QED
    BY <1>1, <1>2, MarksFields DEF SetFolders

\* DeleteFolder keeps the types.
LEMMA TypeDeleteFolder ==
  ASSUME TypeOK, NEW p \in Proc, NEW d \in Dir, DeleteFolder(p, d)
  PROVE  TypeOK'
  <1> DEFINE us == Inside(p, d)
             es == Moved(p, us, Root)
             fs == mem[p].folders \ {d}
             mk == SetFolders(p, us, fs)
             wish == [i \in us \cup {d} |-> IF i = d THEN Absent ELSE es[i]]
  <1>0. us \subseteq Present(p) /\ us \subseteq Uid
    BY DEF Inside, Present
  <1>1. fs \subseteq Dir /\ mk \in Marks
    BY <1>0, SetFoldersType DEF TypeOK, Man
  <1>2. DOMAIN es = us /\ \A u \in us : es[u] \in Entry
    BY <1>0, MovedType DEF Place
  <1>3. Edit(p, es, fs, mk) /\ AskFor(p, wish)
    BY DEF DeleteFolder
  <1>4. DOMAIN wish = us \cup {d} /\ wish[d] = Absent /\ d \notin Uid
        /\ \A u \in us : wish[u] = es[u]
    BY <1>0, NameAssumption
  <1>5. \A f \in Dir \cap (us \cup {d}) : f = d
    BY <1>0, NameAssumption
  <1> HIDE DEF us, es, fs, mk, wish
  <1> QED
    BY <1>0, <1>1, <1>2, <1>3, <1>4, <1>5, TypeFolders DEF DeleteFolder

\* RenameFolder keeps the types.
LEMMA TypeRenameFolder ==
  ASSUME TypeOK, NEW p \in Proc, NEW d \in Dir, NEW e \in Dir,
         RenameFolder(p, d, e)
  PROVE  TypeOK'
  <1> DEFINE us == Inside(p, d)
             es == Moved(p, us, e)
             fs == (mem[p].folders \ {d}) \cup {e}
             mk == SetFolders(p, Present(p), fs)
             wish == [i \in us \cup {d, e} |->
                        CASE i = d -> Absent [] i = e -> Here [] OTHER -> es[i]]
  <1>0. us \subseteq Present(p) /\ us \subseteq Uid /\ Present(p) \subseteq Uid
    BY DEF Inside, Present
  <1>1. fs \subseteq Dir /\ mk \in Marks
    BY <1>0, SetFoldersType DEF TypeOK, Man
  <1>2. DOMAIN es = us /\ \A u \in us : es[u] \in Entry
    BY <1>0, MovedType DEF Place
  <1>3. Edit(p, es, fs, mk) /\ AskFor(p, wish)
    BY DEF RenameFolder
  <1>a. d # e
    BY DEF RenameFolder, HasFolder
  <1>4. DOMAIN wish = us \cup {d, e} /\ wish[d] = Absent /\ wish[e] = Here
        /\ \A u \in us : wish[u] = es[u]
    BY <1>0, <1>a, NameAssumption
  <1>5. \A f \in Dir \cap (us \cup {d, e}) : f \in {d, e}
    BY <1>0, NameAssumption
  <1>6. d \notin Uid /\ e \notin Uid
    BY NameAssumption
  <1> HIDE DEF us, es, fs, mk, wish
  <1> QED
    BY <1>0, <1>1, <1>2, <1>3, <1>4, <1>5, <1>6, TypeFolders DEF RenameFolder

\* Remove keeps the types.
LEMMA TypeRemove ==
  ASSUME TypeOK, NEW p \in Proc, NEW us \in SUBSET Uid, Remove(p, us)
  PROVE  TypeOK'
  <1>1. RemoveLocked(p, us) /\ SaveUnderMu(p, "call")
        /\ UNCHANGED <<manifest, inSync, job>>
    BY DEF Remove
  <1> QED
    BY <1>1, TypeRemoval, TypeSaveNext

----------------------------------------------------------------------------
(* Types of an import.                                                     *)

\* A job that advances is a job.
LEMMA JobFields ==
  ASSUME NEW j \in Job
  PROVE  /\ [j EXCEPT !.in = TRUE, !.own = TRUE] \in Job
         /\ [j EXCEPT !.own = FALSE] \in Job
  BY DEF Job

\* ImportFile keeps the types.
LEMMA TypeImportFile ==
  ASSUME TypeOK, NEW p \in Proc, NEW u \in Uid, NEW to \in Path,
         NEW c \in Content, ImportFile(p, u, to, c)
  PROVE  TypeOK'
  <1> DEFINE j == [uid |-> u, path |-> to, id |-> c, in |-> FALSE, own |-> FALSE]
  <1>1. j \in Job
    BY DEF Job
  <1>2. job' = [job EXCEPT ![p] = j]
    BY DEF ImportFile, BeginImport
  <1> HIDE DEF j
  <1> QED
    BY <1>1, <1>2 DEF ImportFile, TypeOK, Thread, Step

\* ImportOver keeps the types.
LEMMA TypeImportOver ==
  ASSUME TypeOK, NEW p \in Proc, NEW u \in Uid, NEW to \in Path,
         NEW c \in Content, NEW old \in Uid, ImportOver(p, u, to, c, old)
  PROVE  TypeOK'
  <1> DEFINE j == [uid |-> u, path |-> to, id |-> c, in |-> FALSE, own |-> FALSE]
  <1>1. j \in Job
    BY DEF Job
  <1>2. job' = [job EXCEPT ![p] = j]
    BY DEF ImportOver, BeginImport
  <1>3. RemoveLocked(p, {old})
    BY DEF ImportOver
  <1>4. mem' \in [Proc -> Man] /\ marks' \in [Proc -> Marks] /\ AskedOK'
        /\ stored' \subseteq Content
    BY <1>3, TypeRemoval
  <1> HIDE DEF j
  <1> QED
    BY <1>1, <1>2, <1>4 DEF ImportOver, SaveUnderMu, TypeOK, AskedOK, Wish, Thread, Step

\* ImportAppends keeps the types.
LEMMA TypeImportAppends ==
  ASSUME TypeOK, NEW p \in Proc, ImportAppends(p)
  PROVE  TypeOK'
  <1> DEFINE u  == job[p].uid
             es == New(u, <<Root, job[p].path[2]>>, job[p].id)
             mk == MarkDirty(p, {u})
             j  == [job[p] EXCEPT !.in = TRUE, !.own = TRUE]
  <1>1. job[p] \in Job
    BY DEF ImportAppends, TypeOK
  <1>2. u \in Uid /\ job[p].path \in Path /\ job[p].id \in Content
    BY <1>1 DEF Job
  <1>3. DOMAIN es = {u} /\ es[u] \in Entry
    BY <1>2, NameAssumption DEF New, Entry, Path, Place
  <1>4. mk \in Marks /\ mem[p].folders \subseteq Dir
    BY <1>2, MarksFields DEF TypeOK, MarkDirty, Man
  <1>5. Edit(p, es, mem[p].folders, mk) /\ AskFor(p, es)
    BY DEF ImportAppends, EditEntries
  <1>6. Dir \cap DOMAIN es = {}
    BY <1>2, <1>3, NameAssumption
  <1>7. j \in Job
    BY <1>1, JobFields
  <1>8. job' = [job EXCEPT ![p] = j]
    BY DEF ImportAppends, TypeOK
  <1>9. stored' \subseteq Content
    BY <1>2 DEF ImportAppends, Put, TypeOK
  <1> HIDE DEF u, es, mk, j
  <1>10. mem' \in [Proc -> Man] /\ marks' \in [Proc -> Marks]
    BY <1>2, <1>3, <1>4, <1>5, EditType
  <1>11. AskedOK'
    BY <1>2, <1>3, <1>5, <1>6, AskType
  <1>12. job' \in [Proc -> Job \cup {NoJob}]
         /\ \A q \in Proc : job[q] \in Job => job'[q] \in Job
    BY <1>7, <1>8 DEF TypeOK
  <1>13. pc' \in [Proc -> [Thread -> Step]]
         /\ \A q \in Proc : pc'[q]["import"] # "idle" => pc[q]["import"] # "idle"
    BY DEF ImportAppends, TypeOK, Thread, Step
  <1>14. UNCHANGED <<manifest, inSync, mu>>
    BY DEF ImportAppends
  <1> QED
    BY <1>9, <1>10, <1>11, <1>12, <1>13, <1>14 DEF TypeOK, AskedOK, Wish

\* ImportFails keeps the types.
LEMMA TypeImportFails ==
  ASSUME TypeOK, NEW p \in Proc, ImportFails(p)
  PROVE  TypeOK'
  BY DEF ImportFails, TypeOK, Thread, Step

\* ImportPlaces keeps the types.
LEMMA TypeImportPlaces ==
  ASSUME TypeOK, NEW p \in Proc, ImportPlaces(p)
  PROVE  TypeOK'
  <1> DEFINE u  == job[p].uid
             es == [x \in {u} |-> [mem[p].entries[u] EXCEPT !.path = job[p].path]]
  <1>1. job[p] \in Job
    BY DEF ImportPlaces, TypeOK
  <1>2. u \in Uid /\ job[p].path \in Path
    BY <1>1 DEF Job
  <1>3. CASE Has(p, u)
    <2>1. mem[p].entries[u] \in Entry
      BY <1>2, <1>3 DEF TypeOK, Man, Has
    <2>2. DOMAIN es = {u} /\ es[u] \in Entry /\ Dir \cap {u} = {}
      BY <1>2, <2>1, EntryFields, NameAssumption
    <2>3. AskFor(p, es)
          /\ (Edit(p, es, mem[p].folders, marks[p]) \/ UNCHANGED <<mem, marks>>)
      BY <1>3 DEF ImportPlaces, EditEntries
    <2> HIDE DEF es, u
    <2>4. AskedOK'
      BY <1>2, <2>2, <2>3, AskType
    <2>5. marks[p] \in Marks /\ mem[p].folders \subseteq Dir
      BY DEF TypeOK, Man
    <2>6. mem' \in [Proc -> Man] /\ marks' \in [Proc -> Marks]
      <3>1. CASE Edit(p, es, mem[p].folders, marks[p])
        BY <1>2, <2>2, <2>5, <3>1, EditType
      <3>2. CASE UNCHANGED <<mem, marks>>
        BY <3>2 DEF TypeOK
      <3> QED
        BY <2>3, <3>1, <3>2
    <2> QED
      BY <1>1, <2>4, <2>6 DEF ImportPlaces, TypeOK, AskedOK, Wish, Thread, Step
  <1>4. CASE ~Has(p, u)
    <2>1. UNCHANGED <<mem, marks, asked>>
      BY <1>4 DEF ImportPlaces
    <2> QED
      BY <1>1, <2>1 DEF ImportPlaces, TypeOK, Thread, Step
  <1> QED
    BY <1>3, <1>4

----------------------------------------------------------------------------
(* Types of a Save.                                                        *)

\* What mergeExternal leaves is a manifest.
LEMMA MergedType ==
  ASSUME TypeOK, NEW p \in Proc
  PROVE  Merged(p) \in Man
  <1> DEFINE g == [u \in Uid |->
                     IF u \in Kept(p) THEN mem[p].entries[u]
                     ELSE IF u \in Dropped(p) THEN Absent ELSE manifest.entries[u]]
  <1>1. g \in [Uid -> Entry \cup {Absent}]
    BY DEF TypeOK, Man
  <1>2. MergedFolders(p) \subseteq Dir
    BY DEF TypeOK, Man, MergedFolders
  <1>3. Merged(p) = [entries |-> g, folders |-> MergedFolders(p)]
    BY DEF Merged
  <1> HIDE DEF g
  <1> QED
    BY <1>1, <1>2, <1>3 DEF Man

\* The steps of Save keep the types.
LEMMA TypeSave ==
  ASSUME TypeOK, NEW p \in Proc, NEW t \in Thread, Save(p, t)
  PROVE  TypeOK'
  <1>1. CASE SaveMerges(p, t)
    <2>1. mem' \in [Proc -> Man]
      BY <1>1, MergedType DEF SaveMerges, TypeOK
    <2>2. job' \in [Proc -> Job \cup {NoJob}]
          /\ \A q \in Proc : job[q] \in Job => job'[q] \in Job
      <3> DEFINE j == [job[p] EXCEPT !.own = FALSE]
      <3>1. job' = job \/ (job[p].own /\ job' = [job EXCEPT ![p] = j])
        BY <1>1 DEF SaveMerges
      <3>2. job \in [Proc -> Job \cup {NoJob}]
        BY DEF TypeOK
      <3>3. job[p].own => job[p] \in Job
        BY <3>2 DEF NoJob
      <3>4. job[p].own => j \in Job
        BY <3>3, JobFields
      <3> HIDE DEF j
      <3> QED
        BY <3>1, <3>2, <3>4
    <2>3. pc' \in [Proc -> [Thread -> Step]]
          /\ \A q \in Proc : pc'[q]["import"] # "idle" => pc[q]["import"] # "idle"
      BY <1>1 DEF SaveMerges, TypeOK, Thread, Step
    <2>4. UNCHANGED <<manifest, inSync, marks, mu, stored, asked>>
      BY <1>1 DEF SaveMerges
    <2> QED
      BY <2>1, <2>2, <2>3, <2>4 DEF TypeOK
  <1>2. CASE SaveWrites(p, t)
    BY <1>2, ValueAssumption DEF SaveWrites, TypeOK, Thread, Step, Nothing, Item
  <1>3. CASE SaveFails(p, t)
    BY <1>3 DEF SaveFails, TypeOK, Thread, Step, Unlock
  <1>4. CASE SaveReturns(p, t)
    <2>1. NoMarks \in Marks
      BY DEF NoMarks, Marks
    <2>2. job' \in [Proc -> Job \cup {NoJob}]
      BY <1>4 DEF SaveReturns, TypeOK, JobAfter
    <2>3. \A q \in Proc : pc'[q]["import"] # "idle" => job'[q] \in Job
      BY <1>4 DEF SaveReturns, TypeOK, JobAfter, Resumes, Thread
    <2>4. mu' \in [Proc -> Thread \cup {"free"}] /\ pc' \in [Proc -> [Thread -> Step]]
      BY <1>4 DEF SaveReturns, TypeOK, Unlock, Step
    <2>5. marks' \in [Proc -> Marks] /\ inSync' \in [Proc -> BOOLEAN]
      BY <1>4, <2>1 DEF SaveReturns, TypeOK, Cleared, Stamped
    <2> QED
      BY <1>4, <2>2, <2>3, <2>4, <2>5 DEF SaveReturns, TypeOK
  <1> QED
    BY <1>1, <1>2, <1>3, <1>4 DEF Save

\* A restart keeps the types.
LEMMA TypeRestart ==
  ASSUME TypeOK, NEW p \in Proc, Restart(p)
  PROVE  TypeOK'
  <1>1. NoMarks \in Marks /\ Idle \in [Thread -> Step] /\ Idle["import"] = "idle"
    BY DEF NoMarks, Marks, Idle, Step, Thread
  <1>2. Nothing \in Wish /\ (\A u \in Uid : Nothing[u] # Here)
        /\ \A d \in Dir : Nothing[d] = Quiet
    BY ValueAssumption DEF Nothing, Wish, Item
  <1> QED
    BY <1>1, <1>2 DEF Restart, TypeOK, Wish

----------------------------------------------------------------------------
\* The types hold at the start.
LEMMA TypeInit == Init => TypeOK
  <1> SUFFICES ASSUME Init PROVE TypeOK
    OBVIOUS
  <1>1. NoMarks \in Marks /\ Idle \in [Thread -> Step] /\ Idle["import"] = "idle"
    BY DEF NoMarks, Marks, Idle, Step, Thread
  <1>2. Nothing \in Wish /\ (\A u \in Uid : Nothing[u] # Here)
        /\ \A d \in Dir : Nothing[d] = Quiet
    BY ValueAssumption DEF Nothing, Wish, Item
  <1>3. Empty \in Man
    BY DEF Empty, Man
  <1> QED
    BY <1>1, <1>2, <1>3 DEF Init, TypeOK, Wish

\* Every step keeps the types.
LEMMA TypeNext ==
  ASSUME TypeOK, [Next]_vars
  PROVE  TypeOK'
  <1>1. CASE UNCHANGED vars
    BY <1>1 DEF vars, TypeOK
  <1>2. CASE Next
    <2>1. PICK p \in Proc : Call(p) \/ Import(p) \/ Restart(p)
                            \/ \E t \in Thread : Proceed(p, t)
      BY <1>2 DEF Next
    <2>2. CASE Call(p)
      BY <2>2, TypeAdd, TypeRename, TypeMove, TypeChmod, TypeRemove,
         TypeCreateFolder, TypeDeleteFolder, TypeRenameFolder DEF Call
    <2>3. CASE Import(p)
      BY <2>3, TypeImportFile, TypeImportOver DEF Import
    <2>4. CASE Restart(p)
      BY <2>4, TypeRestart
    <2>5. CASE \E t \in Thread : Proceed(p, t)
      BY <2>5, TypeSave, TypeImportAppends, TypeImportFails, TypeImportPlaces
      DEF Proceed
    <2> QED
      BY <2>1, <2>2, <2>3, <2>4, <2>5
  <1> QED
    BY <1>1, <1>2

\* TypeOK is an invariant, whatever the processes, the operations and faults
\* allowed, and the races (vault.go: Save, mergeExternal, LoadStore).
THEOREM ManifestTypeCorrect == Spec => []TypeOK
  BY TypeInit, TypeNext, PTL DEF Spec

----------------------------------------------------------------------------
(* Threads.                                                                *)

\* While a thread is busy the other one of its process is idle.
LEMMA OnlyOne ==
  ASSUME OneAtATime, NEW p \in Proc, NEW t \in Thread, pc[p][t] # "idle"
  PROVE  /\ \A s \in Thread : s # t => pc[p][s] = "idle"
         /\ InSave(p) <=> pc[p][t] \in {"write", "stamp"}
         /\ Stamping(p) <=> pc[p][t] = "stamp"
  BY DEF OneAtATime, InSave, Stamping

\* A step of a process in which one thread at most is busy, and that enters
\* Save only if no other process is inside.
LEMMA ThreadsStep ==
  ASSUME OneAtATime, NEW p \in Proc, NEW t \in Thread,
         \A q \in Proc \ {p} : pc'[q] = pc[q],
         \A s \in Thread : s # t => pc'[p][s] = "idle",
         pc'[p][t] \in {"write", "stamp"} => InSave(p) \/ \A q \in Proc : ~InSave(q)
  PROVE  OneAtATime'
  <1>1. InSave(p)' => pc'[p][t] \in {"write", "stamp"}
    BY DEF InSave
  <1>2. \A q \in Proc \ {p} : InSave(q)' => InSave(q)
    BY DEF InSave
  <1>3. \A r \in Proc : \A s, v \in Thread :
          pc'[r][s] # "idle" /\ pc'[r][v] # "idle" => s = v
    BY DEF OneAtATime
  <1>4. \A q, r \in Proc : InSave(q)' /\ InSave(r)' => q = r
    BY <1>1, <1>2 DEF OneAtATime
  <1> QED
    BY <1>3, <1>4 DEF OneAtATime, InSave

----------------------------------------------------------------------------
(* Edits.                                                                  *)

\* What a call wants of an entry is in memory and marked, and the call leaves
\* the other entries alone.
WantsEntry(p, es, mk, wish, u) ==
  IF u \in DOMAIN wish
  THEN /\ u \in DOMAIN es /\ es[u] = wish[u] /\ wish[u] # Quiet
       /\ IF wish[u] = Absent THEN u \in mk.deleted ELSE u \in mk.dirty \ mk.deleted
  ELSE /\ u \notin DOMAIN es
       /\ u \in mk.dirty <=> u \in marks[p].dirty
       /\ u \in mk.deleted <=> u \in marks[p].deleted

\* The same for a folder.
WantsFolder(p, fs, mk, wish, d) ==
  IF d \in DOMAIN wish
  THEN \/ wish[d] = Absent /\ d \notin fs /\ d \in mk.deletedFolders
       \/ wish[d] = Here /\ d \in fs \cap mk.dirtyFolders
  ELSE /\ d \in fs <=> d \in mem[p].folders
       /\ d \in mk.dirtyFolders <=> d \in marks[p].dirtyFolders
       /\ d \in mk.deletedFolders <=> d \in marks[p].deletedFolders

\* An edit that marks what it changes keeps Owed and UpToDate.
LEMMA EditOwed ==
  ASSUME TypeOK, Owed, UpToDate, NEW p \in Proc, NEW STATE es, NEW STATE fs,
         NEW STATE mk, NEW STATE wish, Edit(p, es, fs, mk), AskFor(p, wish),
         \A u \in Uid : WantsEntry(p, es, mk, wish, u),
         \A d \in Dir : WantsFolder(p, fs, mk, wish, d),
         UNCHANGED <<manifest, inSync>>,
         \A q \in Proc \ {p} : pc'[q] = pc[q],
         ~Stamping(p), ~Stamping(p)', ~InSave(p)'
  PROVE  Owed' /\ UpToDate'
  <1>1. /\ \A q \in Proc \ {p} : mem'[q] = mem[q] /\ marks'[q] = marks[q]
        /\ mem'[p].folders = fs /\ marks'[p] = mk
        /\ \A u \in Uid :
             mem'[p].entries[u] = IF u \in DOMAIN es THEN es[u]
                                                     ELSE mem[p].entries[u]
    BY EditSays
  <1>2. /\ \A q \in Proc \ {p} : asked'[q] = asked[q]
        /\ \A i \in Uid \cup Dir :
             asked'[p][i] = IF i \in DOMAIN wish THEN wish[i] ELSE asked[p][i]
    BY AskSays DEF Item
  <1>3. ASSUME NEW u \in Uid PROVE OwedEntry(p, u)'
    <2>1. OwedEntry(p, u)
      BY DEF Owed
    <2>2. WantsEntry(p, es, mk, wish, u)
      OBVIOUS
    <2> QED
      BY <1>1, <1>2, <2>1, <2>2, ValueAssumption DEF OwedEntry, WantsEntry, Has
  <1>4. ASSUME NEW d \in Dir PROVE OwedFolder(p, d)'
    <2>1. OwedFolder(p, d)
      BY DEF Owed
    <2>2. WantsFolder(p, fs, mk, wish, d)
      OBVIOUS
    <2> QED
      BY <1>1, <1>2, <2>1, <2>2, ValueAssumption DEF OwedFolder, WantsFolder
  <1>5. ASSUME NEW q \in Proc, q # p
        PROVE  IF Stamping(q)' THEN asked'[q] = Nothing
               ELSE /\ \A u \in Uid : OwedEntry(q, u)'
                    /\ \A d \in Dir : OwedFolder(q, d)'
    <2>1. mem'[q] = mem[q] /\ marks'[q] = marks[q] /\ asked'[q] = asked[q]
          /\ pc'[q] = pc[q]
      BY <1>1, <1>2, <1>5
    <2> QED
      BY <2>1, <1>5 DEF Owed, OwedEntry, OwedFolder, Stamping, Has
  <1>6. Owed'
    BY <1>3, <1>4, <1>5 DEF Owed, Nothing
  <1>7. ASSUME SameAsFile(p) PROVE SameAsFile(p)'
    <2>1. ASSUME NEW u \in Uid, asked'[p][u] = Quiet
          PROVE  mem'[p].entries[u] = manifest'.entries[u]
      BY <1>1, <1>2, <1>7, <2>1 DEF SameAsFile, WantsEntry
    <2>2. ASSUME NEW d \in Dir, asked'[p][d] = Quiet
          PROVE  d \in mem'[p].folders <=> d \in manifest'.folders
      BY <1>1, <1>2, <1>7, <2>2, ValueAssumption DEF SameAsFile, WantsFolder
    <2> QED
      BY <2>1, <2>2 DEF SameAsFile
  <1>8. ASSUME NEW q \in Proc, q # p, inSync'[q] \/ InSave(q)'
        PROVE  SameAsFile(q)'
    <2>1. mem'[q] = mem[q] /\ asked'[q] = asked[q] /\ pc'[q] = pc[q]
      BY <1>1, <1>2, <1>8
    <2>2. inSync[q] \/ InSave(q)
      BY <1>8, <2>1 DEF InSave
    <2> QED
      BY <2>1, <2>2, <1>8 DEF UpToDate, SameAsFile
  <1>9. UpToDate'
    BY <1>7, <1>8 DEF UpToDate
  <1> QED
    BY <1>6, <1>9

\* Processes that take no part in a step stay as they are.
LEMMA Others ==
  ASSUME Importing, AllSaved, NEW p \in Proc,
         \A q \in Proc \ {p} : /\ pc'[q] = pc[q] /\ job'[q] = job[q]
                               /\ marks'[q] = marks[q] /\ asked'[q] = asked[q],
         ImportOf(p)', SavedOf(p)'
  PROVE  Importing' /\ AllSaved'
  <1>1. ASSUME NEW q \in Proc, q # p PROVE ImportOf(q)' /\ SavedOf(q)'
    BY <1>1 DEF Importing, AllSaved, ImportOf, SavedOf
  <1> QED
    BY <1>1 DEF Importing, AllSaved

\* A call that marks what it changes keeps Linked.
LEMMA CallLinked ==
  ASSUME Serial, TypeOK, Linked, NEW p \in Proc, NEW STATE es, NEW STATE fs,
         NEW STATE mk, NEW STATE wish, Edit(p, es, fs, mk), AskFor(p, wish),
         \A u \in Uid : WantsEntry(p, es, mk, wish, u),
         \A d \in Dir : WantsFolder(p, fs, mk, wish, d),
         CanStart(p, "call"), pc' = [pc EXCEPT ![p]["call"] = "save"],
         UNCHANGED <<manifest, inSync, job>>
  PROVE  Linked'
  <1>1. \A s \in Thread : pc[p][s] = "idle"
    BY DEF CanStart, Serial
  <1>2. ~InSave(p) /\ ~Stamping(p)
    BY <1>1 DEF InSave, Stamping
  <1>3. "call" \in Thread /\ "import" \in Thread /\ "save" \in Step
    BY DEF Thread, Step
  <1>4. /\ OneAtATime' /\ \A q \in Proc \ {p} : pc'[q] = pc[q]
        /\ pc'[p]["call"] = "save" /\ pc'[p]["import"] = "idle"
        /\ ~InSave(p)' /\ ~Stamping(p)'
    <2>1. PICK t \in Thread : t = "call"
      BY <1>3
    <2>2. /\ \A q \in Proc \ {p} : pc'[q] = pc[q]
          /\ pc'[p][t] = "save" /\ \A s \in Thread : s # t => pc'[p][s] = "idle"
      BY <1>1, <2>1 DEF TypeOK
    <2>3. OneAtATime'
      BY <2>2, ThreadsStep DEF Linked
    <2> QED
      BY <1>3, <2>1, <2>2, <2>3 DEF InSave, Stamping
  <1>5. Owed' /\ UpToDate'
    BY <1>2, <1>4, EditOwed DEF Linked
  <1>6. \A q \in Proc \ {p} : marks'[q] = marks[q] /\ asked'[q] = asked[q]
    BY EditSays, AskSays
  <1>7. ImportOf(p)'
    BY <1>4 DEF ImportOf
  <1>8. SavedOf(p)'
    BY <1>3, <1>4 DEF SavedOf, Idle
  <1>9. Importing' /\ AllSaved'
    BY <1>4, <1>6, <1>7, <1>8, Others DEF Linked
  <1> QED
    BY <1>4, <1>5, <1>9 DEF Linked

\* An entry that is in memory is not one that was removed.
LEMMA NotRemoved ==
  ASSUME TypeOK, Linked, NEW p \in Proc, ~Stamping(p), NEW u \in Uid, Has(p, u)
  PROVE  u \notin marks[p].deleted
  BY DEF Linked, Owed, OwedEntry

\* Marks after entries were marked.
LEMMA DirtySays ==
  ASSUME TypeOK, NEW p \in Proc, NEW us \in SUBSET Uid
  PROVE  /\ MarkDirty(p, us).dirty = marks[p].dirty \cup us
         /\ MarkDirty(p, us).deleted = marks[p].deleted
         /\ MarkDirty(p, us).dirtyFolders = marks[p].dirtyFolders
         /\ MarkDirty(p, us).deletedFolders = marks[p].deletedFolders
  BY DEF TypeOK, MarkDirty, Marks

\* A call that gives values to entries and marks them keeps Linked.
LEMMA EntriesLinked ==
  ASSUME Serial, TypeOK, Linked, NEW p \in Proc, NEW us \in SUBSET Uid,
         NEW STATE es, DOMAIN es = us, \A u \in us : es[u] \in Entry,
         us \cap marks[p].deleted = {},
         EditEntries(p, es, MarkDirty(p, us)), AskFor(p, es),
         CanStart(p, "call"), pc' = [pc EXCEPT ![p]["call"] = "save"],
         UNCHANGED <<manifest, inSync, job>>
  PROVE  Linked'
  <1> DEFINE mk == MarkDirty(p, us)
             fs == mem[p].folders
  <1>1. /\ mk.dirty = marks[p].dirty \cup us /\ mk.deleted = marks[p].deleted
        /\ mk.dirtyFolders = marks[p].dirtyFolders
        /\ mk.deletedFolders = marks[p].deletedFolders
    BY DirtySays
  <1>2. Edit(p, es, fs, mk)
    BY DEF EditEntries
  <1> HIDE DEF mk
  <1>3. ASSUME NEW u \in Uid PROVE WantsEntry(p, es, mk, es, u)
    BY <1>1, ValueAssumption DEF WantsEntry
  <1>4. ASSUME NEW d \in Dir PROVE WantsFolder(p, fs, mk, es, d)
    BY <1>1, NameAssumption DEF WantsFolder
  <1> HIDE DEF fs
  <1> QED
    BY <1>2, <1>3, <1>4, CallLinked

\* Add keeps Linked.
LEMMA AddLinked ==
  ASSUME Serial, TypeOK, Linked, NEW p \in Proc, NEW u \in Uid, NEW n \in Name,
         NEW c \in Content, Add(p, u, n, c)
  PROVE  Linked'
  <1> DEFINE es == New(u, <<Root, n>>, c)
  <1>1. DOMAIN es = {u} /\ \A x \in {u} : es[x] \in Entry
    BY NameAssumption DEF New, Entry, Path, Place
  <1>2. {u} \cap marks[p].deleted = {}
    BY DEF Add, Fresh
  <1>3. EditEntries(p, es, MarkDirty(p, {u})) /\ AskFor(p, es)
        /\ CanStart(p, "call") /\ pc' = [pc EXCEPT ![p]["call"] = "save"]
        /\ UNCHANGED <<manifest, inSync, job>>
    BY DEF Add
  <1> HIDE DEF es
  <1> QED
    BY <1>1, <1>2, <1>3, EntriesLinked

\* RenameEntry keeps Linked.
LEMMA RenameLinked ==
  ASSUME Serial, TypeOK, Linked, NEW p \in Proc, NEW u \in Uid, NEW to \in Path,
         RenameEntry(p, u, to)
  PROVE  Linked'
  <1> DEFINE es == [x \in {u} |-> [mem[p].entries[u] EXCEPT !.path = to]]
  <1>0. mem[p].entries[u] \in Entry
    BY DEF TypeOK, Man, RenameEntry, Has
  <1>1. DOMAIN es = {u} /\ \A x \in {u} : es[x] \in Entry
    BY <1>0, EntryFields
  <1>2. ~Stamping(p)
    BY DEF RenameEntry, CanStart, Serial, Stamping
  <1>3. {u} \cap marks[p].deleted = {}
    BY <1>2, NotRemoved DEF RenameEntry
  <1>4. EditEntries(p, es, MarkDirty(p, {u})) /\ AskFor(p, es)
        /\ CanStart(p, "call") /\ pc' = [pc EXCEPT ![p]["call"] = "save"]
        /\ UNCHANGED <<manifest, inSync, job>>
    BY DEF RenameEntry, SaveUnderMu
  <1> HIDE DEF es
  <1> QED
    BY <1>1, <1>3, <1>4, EntriesLinked

\* MoveEntry keeps Linked.
LEMMA MoveLinked ==
  ASSUME Serial, TypeOK, Linked, NEW p \in Proc, NEW u \in Uid, NEW d \in Place,
         MoveEntry(p, u, d)
  PROVE  Linked'
  <1> DEFINE es == Moved(p, {u}, d)
  <1>1. DOMAIN es = {u} /\ \A x \in {u} : es[x] \in Entry
    BY MovedType DEF MoveEntry, Has, Present
  <1>2. ~Stamping(p)
    BY DEF MoveEntry, CanStart, Serial, Stamping
  <1>3. {u} \cap marks[p].deleted = {}
    BY <1>2, NotRemoved DEF MoveEntry
  <1>4. EditEntries(p, es, MarkDirty(p, {u})) /\ AskFor(p, es)
        /\ CanStart(p, "call") /\ pc' = [pc EXCEPT ![p]["call"] = "save"]
        /\ UNCHANGED <<manifest, inSync, job>>
    BY DEF MoveEntry, SaveUnderMu
  <1> HIDE DEF es
  <1> QED
    BY <1>1, <1>3, <1>4, EntriesLinked

\* What a removal does to an entry or a folder is what it wants.
LEMMA RemovalWants ==
  ASSUME TypeOK, NEW p \in Proc, NEW us \in SUBSET Uid, RemoveLocked(p, us)
  PROVE  \E es, mk :
           /\ Edit(p, es, mem[p].folders, mk) /\ AskFor(p, es)
           /\ mk.deleted = marks[p].deleted \cup us
           /\ \A u \in Uid : WantsEntry(p, es, mk, es, u)
           /\ \A d \in Dir : WantsFolder(p, mem[p].folders, mk, es, d)
  <1> DEFINE es == [u \in us |-> Absent]
             mk == [marks[p] EXCEPT !.deleted = @ \cup us]
             fs == mem[p].folders
  <1>1. Edit(p, es, fs, mk) /\ AskFor(p, es)
    BY DEF RemoveLocked, EditEntries
  <1>2. /\ mk.dirty = marks[p].dirty /\ mk.deleted = marks[p].deleted \cup us
        /\ mk.dirtyFolders = marks[p].dirtyFolders
        /\ mk.deletedFolders = marks[p].deletedFolders
    BY DEF TypeOK, Marks
  <1>3. DOMAIN es = us /\ \A u \in us : es[u] = Absent
    OBVIOUS
  <1> HIDE DEF es, mk
  <1>4. \A u \in Uid : WantsEntry(p, es, mk, es, u)
    BY <1>2, <1>3, ValueAssumption DEF WantsEntry
  <1>5. \A d \in Dir : WantsFolder(p, fs, mk, es, d)
    BY <1>2, <1>3, NameAssumption DEF WantsFolder
  <1> QED
    BY <1>1, <1>2, <1>4, <1>5

\* Remove keeps Linked.
LEMMA RemoveLinked ==
  ASSUME Serial, TypeOK, Linked, NEW p \in Proc, NEW us \in SUBSET Uid,
         Remove(p, us)
  PROVE  Linked'
  <1>1. RemoveLocked(p, us) /\ CanStart(p, "call")
        /\ pc' = [pc EXCEPT ![p]["call"] = "save"]
        /\ UNCHANGED <<manifest, inSync, job>>
    BY DEF Remove, SaveUnderMu
  <1> QED
    BY <1>1, RemovalWants, CallLinked

\* CreateFolder keeps Linked.
LEMMA CreateFolderLinked ==
  ASSUME Serial, TypeOK, Linked, NEW p \in Proc, NEW d \in Dir, CreateFolder(p, d)
  PROVE  Linked'
  <1> DEFINE es == [u \in {} |-> Absent]
             fs == mem[p].folders \cup {d}
             mk == [marks[p] EXCEPT !.dirtyFolders = @ \cup {d}]
             wish == [f \in {d} |-> Here]
  <1>1. /\ mk.dirty = marks[p].dirty /\ mk.deleted = marks[p].deleted
        /\ mk.dirtyFolders = marks[p].dirtyFolders \cup {d}
        /\ mk.deletedFolders = marks[p].deletedFolders
    BY DEF TypeOK, Marks
  <1>2. Edit(p, es, fs, mk) /\ AskFor(p, wish) /\ CanStart(p, "call")
        /\ pc' = [pc EXCEPT ![p]["call"] = "save"]
        /\ UNCHANGED <<manifest, inSync, job>>
    BY DEF CreateFolder, SaveUnderMu
  <1>3. DOMAIN es = {} /\ DOMAIN wish = {d} /\ wish[d] = Here
    OBVIOUS
  <1> HIDE DEF es, mk, wish
  <1>4. \A u \in Uid : WantsEntry(p, es, mk, wish, u)
    BY <1>1, <1>3, NameAssumption DEF WantsEntry
  <1>5. \A f \in Dir : WantsFolder(p, fs, mk, wish, f)
    BY <1>1, <1>3 DEF WantsFolder
  <1> HIDE DEF fs
  <1> QED
    BY <1>2, <1>4, <1>5, CallLinked

\* DeleteFolder keeps Linked: where it is allowed no Save fails, so the marks
\* of the earlier calls are gone.
LEMMA DeleteFolderLinked ==
  ASSUME Serial, TypeOK, Linked, NEW p \in Proc, NEW d \in Dir, DeleteFolder(p, d)
  PROVE  Linked'
  <1> DEFINE us == Inside(p, d)
             es == Moved(p, us, Root)
             fs == mem[p].folders \ {d}
             mk == SetFolders(p, us, fs)
             wish == [i \in us \cup {d} |-> IF i = d THEN Absent ELSE es[i]]
  <1>1. us \subseteq Uid /\ us \subseteq Present(p) /\ d \notin Uid
    BY NameAssumption DEF Inside, Present
  <1>2. pc[p] = Idle /\ ~Stamping(p)
    BY DEF DeleteFolder, CanStart, Serial, TypeOK, Idle, Stamping
  <1>3. asked[p] = Nothing
    BY <1>2 DEF DeleteFolder, Serial, EditsMarked, Linked, AllSaved, SavedOf
  <1>4. (\A u \in Uid : asked[p][u] = Quiet) /\ \A f \in Dir : asked[p][f] = Quiet
    BY <1>3 DEF Nothing, Item
  <1>5. (\A u \in Uid : OwedEntry(p, u)) /\ \A f \in Dir : OwedFolder(p, f)
    BY <1>2 DEF Linked, Owed
  <1>6. /\ \A u \in Uid : u \notin marks[p].dirty \cup marks[p].deleted
        /\ \A f \in Dir : f \notin marks[p].dirtyFolders \cup marks[p].deletedFolders
    BY <1>4, <1>5 DEF OwedEntry, OwedFolder
  <1>7. DOMAIN es = us /\ \A u \in us : es[u] \in Entry
    BY <1>1, MovedType DEF Place
  <1>8. /\ mk.dirty = marks[p].dirty \cup us /\ mk.deleted = marks[p].deleted
        /\ mk.dirtyFolders = marks[p].dirtyFolders \ (mem[p].folders \cup fs)
        /\ mk.deletedFolders = marks[p].deletedFolders \cup (mem[p].folders \ fs)
    <2>1. MarkDirty(p, us) \in Marks
      BY <1>1, MarksFields DEF TypeOK, MarkDirty
    <2> QED
      BY <1>1, <2>1, DirtySays DEF SetFolders, Marks
  <1>9. /\ DOMAIN wish = us \cup {d} /\ wish[d] = Absent
        /\ \A u \in us : wish[u] = es[u]
    BY <1>1
  <1>10. Edit(p, es, fs, mk) /\ AskFor(p, wish) /\ CanStart(p, "call")
         /\ pc' = [pc EXCEPT ![p]["call"] = "save"]
         /\ UNCHANGED <<manifest, inSync, job>> /\ d \in mem[p].folders
    BY DEF DeleteFolder, SaveUnderMu
  <1>11. fs = mem[p].folders \ {d}
    OBVIOUS
  <1> HIDE DEF us, es, fs, mk, wish
  <1>12. ASSUME NEW u \in Uid PROVE WantsEntry(p, es, mk, wish, u)
    BY <1>1, <1>6, <1>7, <1>8, <1>9, ValueAssumption DEF WantsEntry
  <1>13. ASSUME NEW f \in Dir PROVE WantsFolder(p, fs, mk, wish, f)
    BY <1>1, <1>6, <1>8, <1>9, <1>10, <1>11, NameAssumption DEF WantsFolder
  <1> QED
    BY <1>10, <1>12, <1>13, CallLinked

\* Every call keeps Linked; SetEntryMode and RenameFolder are not among them.
LEMMA EveryCallLinked ==
  ASSUME Serial, TypeOK, Linked, NEW p \in Proc, Call(p)
  PROVE  Linked'
  <1>1. \A u \in Uid, m \in Mode : ~SetEntryMode(p, u, m)
    BY DEF SetEntryMode, Serial, EditsMarked
  <1>2. \A d, e \in Dir : ~RenameFolder(p, d, e)
    BY DEF RenameFolder, Serial, EditsMarked
  <1> QED
    BY <1>1, <1>2, AddLinked, RenameLinked, MoveLinked, RemoveLinked,
       CreateFolderLinked, DeleteFolderLinked DEF Call

----------------------------------------------------------------------------
(* Imports.                                                                *)

\* A step that leaves memory, marks and requests alone keeps Owed, and
\* UpToDate when its process is not inside Save.
LEMMA QuietStep ==
  ASSUME Owed, UpToDate, NEW p \in Proc,
         UNCHANGED <<manifest, mem, inSync, marks, asked>>,
         \A q \in Proc \ {p} : pc'[q] = pc[q],
         ~Stamping(p), ~Stamping(p)', ~InSave(p)'
  PROVE  Owed' /\ UpToDate'
  <1>1. ASSUME NEW q \in Proc
        PROVE  /\ Stamping(q)' <=> Stamping(q)
               /\ InSave(q)' => InSave(q)
    BY DEF Stamping, InSave
  <1>2. Owed'
    BY <1>1 DEF Owed, OwedEntry, OwedFolder, Has, Nothing
  <1>3. UpToDate'
    BY <1>1 DEF UpToDate, SameAsFile
  <1> QED
    BY <1>2, <1>3

\* ImportFile keeps Linked.
LEMMA ImportFileLinked ==
  ASSUME Serial, TypeOK, Linked, NEW p \in Proc, NEW u \in Uid, NEW to \in Path,
         NEW c \in Content, ImportFile(p, u, to, c)
  PROVE  Linked'
  <1>1. \A s \in Thread : pc[p][s] = "idle"
    BY DEF ImportFile, BeginImport, CanStart, Serial
  <1>2. PICK t \in Thread : t = "import"
    BY DEF Thread
  <1>3. /\ \A q \in Proc \ {p} : pc'[q] = pc[q]
        /\ pc'[p][t] = "append" /\ \A s \in Thread : s # t => pc'[p][s] = "idle"
    BY <1>1, <1>2 DEF ImportFile, TypeOK
  <1>4. OneAtATime'
    BY <1>3, ThreadsStep DEF Linked
  <1>5. ~Stamping(p) /\ ~Stamping(p)' /\ ~InSave(p)'
    BY <1>1, <1>3 DEF Stamping, InSave
  <1>6. UNCHANGED <<manifest, mem, inSync, marks, asked>>
    BY DEF ImportFile
  <1>7. Owed' /\ UpToDate'
    BY <1>3, <1>5, <1>6, QuietStep DEF Linked
  <1>8. job'[p].uid = u /\ ~job'[p].in /\ \A q \in Proc \ {p} : job'[q] = job[q]
    BY DEF ImportFile, BeginImport, TypeOK
  <1>9. u \notin marks'[p].deleted
    BY <1>6 DEF ImportFile, BeginImport, Fresh
  <1>10. ImportOf(p)'
    BY <1>2, <1>3, <1>8, <1>9 DEF ImportOf
  <1>11. SavedOf(p)'
    BY <1>3 DEF SavedOf, Idle
  <1>12. Importing' /\ AllSaved'
    BY <1>3, <1>6, <1>8, <1>10, <1>11, Others DEF Linked
  <1> QED
    BY <1>4, <1>7, <1>12 DEF Linked

\* ImportFails keeps Linked.
LEMMA ImportFailsLinked ==
  ASSUME Serial, TypeOK, Linked, NEW p \in Proc, ImportFails(p)
  PROVE  Linked'
  <1>1. PICK t \in Thread : t = "import"
    BY DEF Thread
  <1>2. pc[p][t] = "append" /\ \A s \in Thread : s # t => pc[p][s] = "idle"
    BY <1>1, OnlyOne DEF ImportFails, Linked
  <1>3. /\ \A q \in Proc \ {p} : pc'[q] = pc[q]
        /\ \A s \in Thread : pc'[p][s] = "idle"
    BY <1>1, <1>2 DEF ImportFails, TypeOK
  <1>4. OneAtATime'
    BY <1>3, ThreadsStep DEF Linked
  <1>5. ~Stamping(p) /\ ~Stamping(p)' /\ ~InSave(p)'
    BY <1>2, <1>3 DEF Stamping, InSave
  <1>6. UNCHANGED <<manifest, mem, inSync, marks, asked>>
    BY DEF ImportFails
  <1>7. Owed' /\ UpToDate'
    BY <1>3, <1>5, <1>6, QuietStep DEF Linked
  <1>8. \A q \in Proc \ {p} : job'[q] = job[q]
    BY DEF ImportFails, TypeOK
  <1>9. ImportOf(p)' /\ SavedOf(p)'
    BY <1>1, <1>3 DEF ImportOf, SavedOf, ImportFails
  <1>10. Importing' /\ AllSaved'
    BY <1>3, <1>6, <1>8, <1>9, Others DEF Linked
  <1> QED
    BY <1>4, <1>7, <1>10 DEF Linked

\* ImportOver keeps Linked: the new entry is not the one that is removed.
LEMMA ImportOverLinked ==
  ASSUME Serial, TypeOK, Linked, NEW p \in Proc, NEW u \in Uid, NEW to \in Path,
         NEW c \in Content, NEW old \in Uid, ImportOver(p, u, to, c, old)
  PROVE  Linked'
  <1>1. \A s \in Thread : pc[p][s] = "idle"
    BY DEF ImportOver, BeginImport, CanStart, Serial
  <1>2. PICK t \in Thread : t = "import"
    BY DEF Thread
  <1>3. /\ \A q \in Proc \ {p} : pc'[q] = pc[q]
        /\ pc'[p][t] = "save" /\ \A s \in Thread : s # t => pc'[p][s] = "idle"
    BY <1>1, <1>2 DEF ImportOver, SaveUnderMu, TypeOK
  <1>4. OneAtATime'
    BY <1>3, ThreadsStep DEF Linked
  <1>5. ~Stamping(p) /\ ~Stamping(p)' /\ ~InSave(p)'
    BY <1>1, <1>3 DEF Stamping, InSave
  <1>6. RemoveLocked(p, {old}) /\ UNCHANGED <<manifest, inSync>>
    BY DEF ImportOver
  <1>7. PICK es, mk : /\ Edit(p, es, mem[p].folders, mk) /\ AskFor(p, es)
                      /\ mk.deleted = marks[p].deleted \cup {old}
                      /\ \A x \in Uid : WantsEntry(p, es, mk, es, x)
                      /\ \A d \in Dir : WantsFolder(p, mem[p].folders, mk, es, d)
    BY <1>6, RemovalWants
  <1>8. Owed' /\ UpToDate'
    BY <1>3, <1>5, <1>6, <1>7, EditOwed DEF Linked
  <1>9. /\ \A q \in Proc \ {p} : marks'[q] = marks[q] /\ asked'[q] = asked[q]
        /\ marks'[p] = mk
    BY <1>7, EditSays, AskSays
  <1>10. job'[p].uid = u /\ ~job'[p].in /\ \A q \in Proc \ {p} : job'[q] = job[q]
    BY DEF ImportOver, BeginImport, TypeOK
  <1>11. u # old /\ u \notin marks[p].deleted
    BY DEF ImportOver, BeginImport, Fresh
  <1>12. ImportOf(p)'
    BY <1>2, <1>3, <1>7, <1>9, <1>10, <1>11 DEF ImportOf
  <1>13. SavedOf(p)'
    BY <1>3 DEF SavedOf, Idle
  <1>14. Importing' /\ AllSaved'
    BY <1>3, <1>9, <1>10, <1>12, <1>13, Others DEF Linked
  <1> QED
    BY <1>4, <1>8, <1>14 DEF Linked

\* ImportAppends keeps Linked: nobody has removed the new entry.
LEMMA ImportAppendsLinked ==
  ASSUME Serial, TypeOK, Linked, NEW p \in Proc, ImportAppends(p)
  PROVE  Linked'
  <1> DEFINE u  == job[p].uid
             es == New(u, <<Root, job[p].path[2]>>, job[p].id)
             mk == MarkDirty(p, {u})
             fs == mem[p].folders
  <1>1. PICK t \in Thread : t = "import"
    BY DEF Thread
  <1>2. pc[p][t] = "append" /\ \A s \in Thread : s # t => pc[p][s] = "idle"
    BY <1>1, OnlyOne DEF ImportAppends, Linked
  <1>3. /\ \A q \in Proc \ {p} : pc'[q] = pc[q]
        /\ pc'[p][t] = "place" /\ \A s \in Thread : s # t => pc'[p][s] = "idle"
    BY <1>1, <1>2 DEF ImportAppends, TypeOK
  <1>4. OneAtATime'
    BY <1>3, ThreadsStep DEF Linked
  <1>5. ~Stamping(p) /\ ~Stamping(p)' /\ ~InSave(p)'
    BY <1>2, <1>3 DEF Stamping, InSave
  <1>6. job[p] \in Job /\ u \in Uid /\ job[p].path \in Path /\ job[p].id \in Content
    BY DEF ImportAppends, TypeOK, Job
  <1>7. DOMAIN es = {u} /\ es[u] \in Entry
    BY <1>6, NameAssumption DEF New, Entry, Path, Place
  <1>8. u \notin marks[p].deleted
    BY <1>1, <1>2 DEF Linked, Importing, ImportOf
  <1>9. Edit(p, es, fs, mk) /\ AskFor(p, es) /\ UNCHANGED <<manifest, inSync>>
    BY DEF ImportAppends, EditEntries
  <1>10. /\ mk.dirty = marks[p].dirty \cup {u} /\ mk.deleted = marks[p].deleted
         /\ mk.dirtyFolders = marks[p].dirtyFolders
         /\ mk.deletedFolders = marks[p].deletedFolders
    BY <1>6, DirtySays
  <1>11. /\ \A q \in Proc \ {p} : job'[q] = job[q]
         /\ job'[p].uid = u /\ job'[p].in /\ job'[p].own
    <2>1. job' = [job EXCEPT ![p] = [job[p] EXCEPT !.in = TRUE, !.own = TRUE]]
      BY DEF ImportAppends, TypeOK
    <2> QED
      BY <1>6, <2>1 DEF TypeOK, Job
  <1> HIDE DEF u, es, mk
  <1>12. ASSUME NEW x \in Uid PROVE WantsEntry(p, es, mk, es, x)
    BY <1>7, <1>8, <1>10, ValueAssumption DEF WantsEntry
  <1>13. ASSUME NEW d \in Dir PROVE WantsFolder(p, fs, mk, es, d)
    BY <1>6, <1>7, <1>10, NameAssumption DEF WantsFolder
  <1> HIDE DEF fs
  <1>14. Owed' /\ UpToDate'
    BY <1>3, <1>5, <1>9, <1>12, <1>13, EditOwed DEF Linked
  <1>15. /\ \A q \in Proc \ {p} : marks'[q] = marks[q] /\ asked'[q] = asked[q]
         /\ asked'[p][u] = es[u]
    BY <1>6, <1>7, <1>9, EditSays, AskSays DEF Item
  <1>16. ImportOf(p)'
    BY <1>1, <1>3, <1>7, <1>11, <1>15, ValueAssumption DEF ImportOf
  <1>17. SavedOf(p)'
    BY <1>3 DEF SavedOf, Idle
  <1>18. Importing' /\ AllSaved'
    BY <1>3, <1>11, <1>15, <1>16, <1>17, Others DEF Linked
  <1> QED
    BY <1>4, <1>14, <1>18 DEF Linked

\* ImportPlaces keeps Linked: no Save has come between, so the mark of the
\* append is still there, and the thread holds the entry of the manifest.
LEMMA ImportPlacesLinked ==
  ASSUME Serial, TypeOK, Linked, NEW p \in Proc, ImportPlaces(p)
  PROVE  Linked'
  <1> DEFINE u  == job[p].uid
             es == [x \in {u} |-> [mem[p].entries[u] EXCEPT !.path = job[p].path]]
             mk == marks[p]
             fs == mem[p].folders
  <1>1. PICK t \in Thread : t = "import"
    BY DEF Thread
  <1>2. pc[p][t] = "place" /\ \A s \in Thread : s # t => pc[p][s] = "idle"
    BY <1>1, OnlyOne DEF ImportPlaces, Linked
  <1>3. /\ \A q \in Proc \ {p} : pc'[q] = pc[q]
        /\ pc'[p][t] = "save" /\ \A s \in Thread : s # t => pc'[p][s] = "idle"
    BY <1>1, <1>2 DEF ImportPlaces, TypeOK
  <1>4. OneAtATime'
    BY <1>3, ThreadsStep DEF Linked
  <1>5. ~Stamping(p) /\ ~Stamping(p)' /\ ~InSave(p)'
    BY <1>2, <1>3 DEF Stamping, InSave
  <1>6. job[p] \in Job /\ u \in Uid /\ job[p].path \in Path
    BY DEF ImportPlaces, TypeOK, Job
  <1>7. job[p].own /\ asked[p][u] \notin {Quiet, Absent}
    BY <1>1, <1>2 DEF Linked, Importing, ImportOf
  <1>8. mem[p].entries[u] # Absent /\ u \in mk.dirty \ mk.deleted
    BY <1>5, <1>6, <1>7 DEF Linked, Owed, OwedEntry
  <1>9. mem[p].entries[u] \in Entry
    BY <1>6, <1>8 DEF TypeOK, Man
  <1>10. DOMAIN es = {u} /\ es[u] \in Entry
    BY <1>6, <1>9, EntryFields
  <1>11. Edit(p, es, fs, mk) /\ AskFor(p, es) /\ UNCHANGED <<manifest, inSync, job>>
    BY <1>7, <1>8 DEF ImportPlaces, EditEntries, Has
  <1> HIDE DEF u, es
  <1>12. ASSUME NEW x \in Uid PROVE WantsEntry(p, es, mk, es, x)
    BY <1>8, <1>10, ValueAssumption DEF WantsEntry
  <1>13. ASSUME NEW d \in Dir PROVE WantsFolder(p, fs, mk, es, d)
    BY <1>6, <1>10, NameAssumption DEF WantsFolder
  <1>14. /\ \A q \in Proc \ {p} : marks'[q] = marks[q] /\ asked'[q] = asked[q]
         /\ marks'[p] = marks[p]
    BY <1>11, EditSays, AskSays
  <1>15. ImportOf(p)'
    BY <1>1, <1>3, <1>8, <1>11, <1>14 DEF ImportOf, u
  <1> HIDE DEF fs, mk
  <1>16. Owed' /\ UpToDate'
    BY <1>3, <1>5, <1>11, <1>12, <1>13, EditOwed DEF Linked
  <1>17. SavedOf(p)'
    BY <1>3 DEF SavedOf, Idle
  <1>18. Importing' /\ AllSaved'
    BY <1>3, <1>11, <1>14, <1>15, <1>17, Others DEF Linked
  <1> QED
    BY <1>4, <1>16, <1>18 DEF Linked

----------------------------------------------------------------------------
(* Save.                                                                   *)

\* What mergeExternal leaves where the process owes what OwedEntry and
\* OwedFolder say: what was asked for stays, the rest is the file's.
LEMMA MergedSays ==
  ASSUME TypeOK, Linked, NEW p \in Proc, ~Stamping(p)
  PROVE  /\ \A u \in Uid :
              Merged(p).entries[u] = IF asked[p][u] = Quiet THEN manifest.entries[u]
                                                            ELSE mem[p].entries[u]
         /\ \A d \in Dir :
              d \in Merged(p).folders <=>
                IF asked[p][d] = Quiet THEN d \in manifest.folders
                                       ELSE d \in mem[p].folders
  <1>1. ASSUME NEW u \in Uid
        PROVE  Merged(p).entries[u] =
                 IF asked[p][u] = Quiet THEN manifest.entries[u]
                                        ELSE mem[p].entries[u]
    <2>1. OwedEntry(p, u)
      BY DEF Linked, Owed
    <2>2. Merged(p).entries[u] =
            IF u \in Kept(p) THEN mem[p].entries[u]
            ELSE IF u \in Dropped(p) THEN Absent ELSE manifest.entries[u]
      BY DEF Merged
    <2>3. CASE asked[p][u] = Quiet
      BY <2>1, <2>2, <2>3 DEF OwedEntry, Kept, Dropped
    <2>4. CASE asked[p][u] = Absent
      BY <2>1, <2>2, <2>4, ValueAssumption
      DEF OwedEntry, Kept, Dropped, Present, Has
    <2>5. CASE asked[p][u] \notin {Quiet, Absent}
      BY <2>1, <2>2, <2>5 DEF OwedEntry, Kept, Dropped, Present, Has
    <2> QED
      BY <2>3, <2>4, <2>5
  <1>2. ASSUME NEW d \in Dir
        PROVE  d \in Merged(p).folders <=>
                 IF asked[p][d] = Quiet THEN d \in manifest.folders
                                        ELSE d \in mem[p].folders
    <2>1. OwedFolder(p, d) /\ asked[p][d] \in {Here, Absent, Quiet}
      BY DEF Linked, Owed, TypeOK
    <2>2. Merged(p).folders = MergedFolders(p)
      BY DEF Merged
    <2> QED
      BY <2>1, <2>2, ValueAssumption DEF OwedFolder, MergedFolders
  <1> QED
    BY <1>1, <1>2

\* A process that enters Save has, or takes, what the file says.
LEMMA SaveMergesLinked ==
  ASSUME Serial, TypeOK, Linked, NEW p \in Proc, NEW t \in Thread,
         SaveMerges(p, t)
  PROVE  Linked'
  <1>1. pc[p][t] = "save" /\ \A s \in Thread : s # t => pc[p][s] = "idle"
    BY OnlyOne DEF SaveMerges, Linked
  <1>2. /\ \A q \in Proc \ {p} : pc'[q] = pc[q]
        /\ pc'[p][t] = "write" /\ \A s \in Thread : s # t => pc'[p][s] = "idle"
    BY <1>1 DEF SaveMerges, TypeOK
  <1>3. \A q \in Proc : ~InSave(q)
    BY DEF SaveMerges, Serial
  <1>4. OneAtATime'
    BY <1>2, <1>3, ThreadsStep DEF Linked
  <1>5. ~Stamping(p) /\ ~Stamping(p)'
    BY <1>1, <1>2 DEF Stamping
  <1>6. /\ UNCHANGED <<manifest, inSync, marks, asked>>
        /\ \A q \in Proc \ {p} : mem'[q] = mem[q]
    BY DEF SaveMerges, TypeOK
  <1>7. /\ \A u \in Uid : asked[p][u] # Quiet =>
             mem'[p].entries[u] = mem[p].entries[u]
        /\ \A d \in Dir : asked[p][d] # Quiet =>
             (d \in mem'[p].folders <=> d \in mem[p].folders)
        /\ SameAsFile(p)'
    <2>1. CASE inSync[p]
      <3>1. mem' = mem /\ SameAsFile(p)
        BY <2>1 DEF SaveMerges, Linked, UpToDate
      <3> QED
        BY <1>6, <3>1 DEF SameAsFile
    <2>2. CASE ~inSync[p]
      <3>1. mem'[p] = Merged(p)
        BY <2>2 DEF SaveMerges, TypeOK
      <3> QED
        BY <1>5, <1>6, <3>1, MergedSays DEF SameAsFile
    <2> QED
      BY <2>1, <2>2
  <1>8. ASSUME NEW u \in Uid PROVE OwedEntry(p, u)'
    <2>1. OwedEntry(p, u)
      BY <1>5 DEF Linked, Owed
    <2> QED
      BY <1>6, <1>7, <2>1, ValueAssumption DEF OwedEntry, Has
  <1>9. ASSUME NEW d \in Dir PROVE OwedFolder(p, d)'
    <2>1. OwedFolder(p, d)
      BY <1>5 DEF Linked, Owed
    <2> QED
      BY <1>6, <1>7, <2>1, ValueAssumption DEF OwedFolder
  <1>10. ASSUME NEW q \in Proc, q # p
         PROVE  IF Stamping(q)' THEN asked'[q] = Nothing
                ELSE /\ \A u \in Uid : OwedEntry(q, u)'
                     /\ \A d \in Dir : OwedFolder(q, d)'
    BY <1>2, <1>6, <1>10 DEF Linked, Owed, OwedEntry, OwedFolder, Stamping, Has
  <1>11. Owed'
    BY <1>5, <1>8, <1>9, <1>10 DEF Owed, Nothing
  <1>12. ASSUME NEW q \in Proc, q # p, inSync'[q] \/ InSave(q)'
         PROVE  SameAsFile(q)'
    <2>1. inSync[q] \/ InSave(q)
      BY <1>2, <1>6, <1>12 DEF InSave
    <2> QED
      BY <1>6, <1>12, <2>1 DEF Linked, UpToDate, SameAsFile
  <1>13. UpToDate'
    BY <1>7, <1>12 DEF UpToDate
  <1>14. \A q \in Proc : job'[q].uid = job[q].uid /\ job'[q].in = job[q].in
    <2>1. job \in [Proc -> Job \cup {NoJob}]
      BY DEF TypeOK
    <2>2. CASE job' = job
      BY <2>2
    <2>3. CASE job[p].own /\ job' = [job EXCEPT ![p] = [job[p] EXCEPT !.own = FALSE]]
      <3>1. job[p] \in Job
        BY <2>1, <2>3 DEF NoJob
      <3>2. [job[p] EXCEPT !.own = FALSE].uid = job[p].uid
            /\ [job[p] EXCEPT !.own = FALSE].in = job[p].in
        BY <3>1 DEF Job
      <3> QED
        BY <2>1, <2>3, <3>2
    <2> QED
      BY <2>2, <2>3 DEF SaveMerges
  <1>15. \A q \in Proc \ {p} : job'[q] = job[q]
    BY DEF SaveMerges, TypeOK
  <1>16. ImportOf(p)'
    <2>1. pc[p]["import"] # "idle" <=> pc'[p]["import"] # "idle"
      BY <1>1, <1>2 DEF Thread
    <2>2. pc'[p]["import"] \notin {"append", "place"}
      BY <1>2 DEF Thread
    <2> QED
      BY <1>6, <1>14, <2>1, <2>2 DEF ImportOf, Linked, Importing
  <1>17. SavedOf(p)'
    BY <1>2 DEF SavedOf, Idle
  <1>18. Importing' /\ AllSaved'
    BY <1>2, <1>6, <1>15, <1>16, <1>17, Others DEF Linked
  <1> QED
    BY <1>4, <1>11, <1>13, <1>18 DEF Linked

\* The file that is renamed into place is the writer's memory, and no process
\* takes its own for the file's.
LEMMA SaveWritesLinked ==
  ASSUME Serial, TypeOK, Linked, NEW p \in Proc, NEW t \in Thread,
         SaveWrites(p, t)
  PROVE  Linked'
  <1>1. pc[p][t] = "write" /\ \A s \in Thread : s # t => pc[p][s] = "idle"
    BY OnlyOne DEF SaveWrites, Linked
  <1>2. /\ \A q \in Proc \ {p} : pc'[q] = pc[q]
        /\ pc'[p][t] = "stamp" /\ \A s \in Thread : s # t => pc'[p][s] = "idle"
    BY <1>1 DEF SaveWrites, TypeOK
  <1>3. InSave(p)
    BY <1>1 DEF InSave
  <1>4. OneAtATime'
    BY <1>2, <1>3, ThreadsStep DEF Linked
  <1>5. Stamping(p)'
    BY <1>2 DEF Stamping
  <1>6. /\ UNCHANGED <<mem, marks, job>> /\ manifest' = mem[p]
        /\ asked'[p] = Nothing /\ \A q \in Proc \ {p} : asked'[q] = asked[q]
        /\ \A q \in Proc : ~inSync'[q]
    BY DEF SaveWrites, TypeOK
  <1>7. ASSUME NEW q \in Proc, q # p
        PROVE  IF Stamping(q)' THEN asked'[q] = Nothing
               ELSE /\ \A u \in Uid : OwedEntry(q, u)'
                    /\ \A d \in Dir : OwedFolder(q, d)'
    BY <1>2, <1>6, <1>7 DEF Linked, Owed, OwedEntry, OwedFolder, Stamping, Has
  <1>8. Owed'
    BY <1>5, <1>6, <1>7 DEF Owed, Nothing
  <1>9. \A q \in Proc : InSave(q)' => q = p
    BY <1>2, <1>3 DEF InSave, Linked, OneAtATime
  <1>10. SameAsFile(p)'
    BY <1>6 DEF SameAsFile
  <1>11. UpToDate'
    BY <1>6, <1>9, <1>10 DEF UpToDate
  <1>12. ImportOf(p)'
    <2>1. pc[p]["import"] # "idle" <=> pc'[p]["import"] # "idle"
      BY <1>1, <1>2 DEF Thread
    <2>2. pc'[p]["import"] \notin {"append", "place"}
      BY <1>2 DEF Thread
    <2> QED
      BY <1>6, <2>1, <2>2 DEF ImportOf, Linked, Importing
  <1>13. SavedOf(p)'
    BY <1>6 DEF SavedOf, Nothing
  <1>14. Importing' /\ AllSaved'
    BY <1>2, <1>6, <1>12, <1>13, Others DEF Linked
  <1> QED
    BY <1>4, <1>8, <1>11, <1>14 DEF Linked

\* A Save that fails keeps the marks of what is owed.
LEMMA SaveFailsLinked ==
  ASSUME Serial, TypeOK, Linked, NEW p \in Proc, NEW t \in Thread,
         SaveFails(p, t)
  PROVE  Linked'
  <1>1. pc[p][t] = "write" /\ \A s \in Thread : s # t => pc[p][s] = "idle"
    BY OnlyOne DEF SaveFails, Linked
  <1>2. /\ \A q \in Proc \ {p} : pc'[q] = pc[q]
        /\ \A s \in Thread : pc'[p][s] = "idle"
    BY <1>1 DEF SaveFails, TypeOK
  <1>3. OneAtATime'
    BY <1>2, ThreadsStep DEF Linked
  <1>4. ~Stamping(p) /\ ~Stamping(p)' /\ ~InSave(p)'
    BY <1>1, <1>2 DEF Stamping, InSave
  <1>5. UNCHANGED <<manifest, mem, inSync, marks, asked>>
    BY DEF SaveFails
  <1>6. Owed' /\ UpToDate'
    BY <1>2, <1>4, <1>5, QuietStep DEF Linked
  <1>7. \A q \in Proc \ {p} : job'[q] = job[q]
    BY DEF SaveFails, TypeOK
  <1>8. ImportOf(p)' /\ SavedOf(p)'
    BY <1>2 DEF ImportOf, SavedOf, SaveFails, Thread
  <1>9. Importing' /\ AllSaved'
    BY <1>2, <1>5, <1>7, <1>8, Others DEF Linked
  <1> QED
    BY <1>3, <1>6, <1>9 DEF Linked

\* The marks go when nothing is owed.
LEMMA SaveReturnsLinked ==
  ASSUME Serial, TypeOK, Linked, NEW p \in Proc, NEW t \in Thread,
         SaveReturns(p, t)
  PROVE  Linked'
  <1>1. pc[p][t] = "stamp" /\ \A s \in Thread : s # t => pc[p][s] = "idle"
    BY OnlyOne DEF SaveReturns, Linked
  <1>2. /\ \A q \in Proc \ {p} : pc'[q] = pc[q]
        /\ pc'[p][t] = (IF Resumes(p, t) THEN "append" ELSE "idle")
        /\ \A s \in Thread : s # t => pc'[p][s] = "idle"
    BY <1>1 DEF SaveReturns, TypeOK
  <1>3. OneAtATime'
    BY <1>2, ThreadsStep DEF Linked
  <1>4. Stamping(p) /\ InSave(p) /\ ~Stamping(p)' /\ ~InSave(p)'
    BY <1>1, <1>2 DEF Stamping, InSave
  <1>5. /\ UNCHANGED <<manifest, mem, asked>> /\ marks'[p] = NoMarks
        /\ \A q \in Proc \ {p} : /\ marks'[q] = marks[q] /\ inSync'[q] = inSync[q]
                                 /\ job'[q] = job[q]
    BY DEF SaveReturns, Cleared, TypeOK
  <1>6. asked'[p] = Nothing
    BY <1>4, <1>5 DEF Linked, Owed
  <1>7. (\A u \in Uid : asked'[p][u] = Quiet) /\ \A d \in Dir : asked'[p][d] = Quiet
    BY <1>6 DEF Nothing, Item
  <1>8. (\A u \in Uid : OwedEntry(p, u)') /\ \A d \in Dir : OwedFolder(p, d)'
    BY <1>5, <1>7, ValueAssumption DEF OwedEntry, OwedFolder, NoMarks
  <1>9. ASSUME NEW q \in Proc, q # p
        PROVE  IF Stamping(q)' THEN asked'[q] = Nothing
               ELSE /\ \A u \in Uid : OwedEntry(q, u)'
                    /\ \A d \in Dir : OwedFolder(q, d)'
    BY <1>2, <1>5, <1>9 DEF Linked, Owed, OwedEntry, OwedFolder, Stamping, Has
  <1>10. Owed'
    BY <1>4, <1>8, <1>9 DEF Owed, Nothing
  <1>11. SameAsFile(p)'
    BY <1>4, <1>5 DEF Linked, UpToDate, SameAsFile
  <1>12. ASSUME NEW q \in Proc, q # p, inSync'[q] \/ InSave(q)'
         PROVE  SameAsFile(q)'
    <2>1. inSync[q] \/ InSave(q)
      BY <1>2, <1>5, <1>12 DEF InSave
    <2> QED
      BY <1>5, <1>12, <2>1 DEF Linked, UpToDate, SameAsFile
  <1>13. UpToDate'
    BY <1>11, <1>12 DEF UpToDate
  <1>14. ImportOf(p)'
    <2>1. marks'[p].deleted = {}
      BY <1>5 DEF NoMarks
    <2>2. pc'[p]["import"] # "place"
      BY <1>2 DEF Thread
    <2>3. ASSUME pc'[p]["import"] = "append" PROVE ~job'[p].in
      <3>1. Resumes(p, t)
        BY <1>2, <2>3 DEF Thread
      <3> QED
        BY <3>1 DEF SaveReturns, JobAfter, Resumes, TypeOK
    <2> QED
      BY <2>1, <2>2, <2>3 DEF ImportOf
  <1>15. SavedOf(p)'
    BY <1>6 DEF SavedOf, Nothing
  <1>16. Importing' /\ AllSaved'
    BY <1>2, <1>5, <1>14, <1>15, Others DEF Linked
  <1> QED
    BY <1>3, <1>10, <1>13, <1>16 DEF Linked

----------------------------------------------------------------------------
(* A restart, the start, and all steps.                                    *)

\* A process that loads the vault owes nothing.
LEMMA RestartLinked ==
  ASSUME Serial, TypeOK, Linked, NEW p \in Proc, Restart(p)
  PROVE  Linked'
  <1>1. PICK t \in Thread : TRUE
    BY DEF Thread
  <1>2. /\ \A q \in Proc \ {p} : pc'[q] = pc[q]
        /\ \A s \in Thread : pc'[p][s] = "idle"
    BY DEF Restart, TypeOK, Idle
  <1>3. OneAtATime'
    BY <1>1, <1>2, ThreadsStep DEF Linked
  <1>4. ~Stamping(p)' /\ ~InSave(p)'
    BY <1>2 DEF Stamping, InSave
  <1>5. /\ manifest' = manifest /\ mem'[p] = manifest /\ marks'[p] = NoMarks
        /\ asked'[p] = Nothing
        /\ \A q \in Proc \ {p} :
             /\ mem'[q] = mem[q] /\ marks'[q] = marks[q] /\ asked'[q] = asked[q]
             /\ inSync'[q] = inSync[q] /\ job'[q] = job[q]
    BY DEF Restart, TypeOK
  <1>6. (\A u \in Uid : asked'[p][u] = Quiet) /\ \A d \in Dir : asked'[p][d] = Quiet
    BY <1>5 DEF Nothing, Item
  <1>7. (\A u \in Uid : OwedEntry(p, u)') /\ \A d \in Dir : OwedFolder(p, d)'
    BY <1>5, <1>6, ValueAssumption DEF OwedEntry, OwedFolder, NoMarks
  <1>8. ASSUME NEW q \in Proc, q # p
        PROVE  IF Stamping(q)' THEN asked'[q] = Nothing
               ELSE /\ \A u \in Uid : OwedEntry(q, u)'
                    /\ \A d \in Dir : OwedFolder(q, d)'
    BY <1>2, <1>5, <1>8 DEF Linked, Owed, OwedEntry, OwedFolder, Stamping, Has
  <1>9. Owed'
    BY <1>4, <1>7, <1>8 DEF Owed, Nothing
  <1>10. ASSUME NEW q \in Proc, q # p, inSync'[q] \/ InSave(q)'
         PROVE  SameAsFile(q)'
    <2>1. inSync[q] \/ InSave(q)
      BY <1>2, <1>5, <1>10 DEF InSave
    <2> QED
      BY <1>5, <1>10, <2>1 DEF Linked, UpToDate, SameAsFile
  <1>11. UpToDate'
    BY <1>5, <1>10 DEF UpToDate, SameAsFile
  <1>12. ImportOf(p)' /\ SavedOf(p)'
    BY <1>2, <1>5 DEF ImportOf, SavedOf, Nothing, Thread
  <1>13. Importing' /\ AllSaved'
    BY <1>2, <1>5, <1>12, Others DEF Linked
  <1> QED
    BY <1>3, <1>9, <1>11, <1>13 DEF Linked

\* Linked holds at the start.
LEMMA LinkedInit == Init => Linked
  <1> SUFFICES ASSUME Init PROVE Linked
    OBVIOUS
  <1>1. \A p \in Proc : \A t \in Thread : pc[p][t] = "idle"
    BY DEF Init, Idle
  <1>2. OneAtATime
    BY <1>1 DEF OneAtATime, InSave
  <1>3. Importing
    BY <1>1 DEF Importing, ImportOf, Thread
  <1>4. \A p \in Proc : /\ asked[p] = Nothing /\ marks[p] = NoMarks /\ mem[p] = manifest
                        /\ \A u \in Uid : asked[p][u] = Quiet
                        /\ \A d \in Dir : asked[p][d] = Quiet
    BY DEF Init, Nothing, Item
  <1>5. Owed
    <2>1. ASSUME NEW p \in Proc
          PROVE  /\ \A u \in Uid : OwedEntry(p, u)
                 /\ \A d \in Dir : OwedFolder(p, d)
      BY <1>4, ValueAssumption DEF OwedEntry, OwedFolder, NoMarks
    <2>2. \A p \in Proc : ~Stamping(p)
      BY <1>1 DEF Stamping
    <2> QED
      BY <2>1, <2>2 DEF Owed
  <1>6. UpToDate /\ AllSaved
    BY <1>4 DEF UpToDate, SameAsFile, AllSaved, SavedOf
  <1> QED
    BY <1>2, <1>3, <1>5, <1>6 DEF Linked

\* Every step keeps Linked.
LEMMA LinkedNext ==
  ASSUME Serial, TypeOK, Linked, [Next]_vars
  PROVE  Linked'
  <1>1. CASE UNCHANGED vars
    BY <1>1 DEF vars, Linked, OneAtATime, Importing, ImportOf, Owed, OwedEntry,
       OwedFolder, UpToDate, SameAsFile, AllSaved, SavedOf, InSave, Stamping, Has
  <1>2. CASE Next
    <2>1. PICK p \in Proc : Call(p) \/ Import(p) \/ Restart(p)
                            \/ \E t \in Thread : Proceed(p, t)
      BY <1>2 DEF Next
    <2>2. CASE Call(p)
      BY <2>2, EveryCallLinked
    <2>3. CASE Import(p)
      BY <2>3, ImportFileLinked, ImportOverLinked DEF Import
    <2>4. CASE Restart(p)
      BY <2>4, RestartLinked
    <2>5. CASE \E t \in Thread : Proceed(p, t)
      BY <2>5, SaveMergesLinked, SaveWritesLinked, SaveFailsLinked,
         SaveReturnsLinked, ImportAppendsLinked, ImportFailsLinked,
         ImportPlacesLinked DEF Proceed, Save
    <2> QED
      BY <2>1, <2>2, <2>3, <2>4, <2>5
  <1> QED
    BY <1>1, <1>2

\* Linked is an invariant wherever every edit is marked and Saves do not
\* overlap: memory, marks and file never part (vault.go: Save, mergeExternal,
\* clearSyncState).
THEOREM ManifestLinked ==
  ASSUME Serial
  PROVE  Spec => []Linked
  <1>1. Init => TypeOK /\ Linked
    BY TypeInit, LinkedInit
  <1>2. TypeOK /\ Linked /\ [Next]_vars => (TypeOK /\ Linked)'
    BY TypeNext, LinkedNext
  <1> QED
    BY <1>1, <1>2, PTL DEF Spec

----------------------------------------------------------------------------
(* The promise.                                                            *)

\* The file at the start is an empty book.
LEMMA BookInit == Init => Promise!Init
  BY DEF Init, Promise!Init, Promise!Nothing, Nothing, Book, Empty, Item

\* An edit asks: it takes back nothing, and does not touch the file.
LEMMA EditAsks ==
  ASSUME TypeOK, NEW p \in Proc, NEW STATE wish, AskFor(p, wish),
         \A i \in Item \cap DOMAIN wish : wish[i] # Quiet,
         UNCHANGED manifest
  PROVE  Promise!Ask(p)
  <1>1. /\ \A q \in Proc \ {p} : asked'[q] = asked[q]
        /\ \A i \in Item :
             asked'[p][i] = IF i \in DOMAIN wish THEN wish[i] ELSE asked[p][i]
    BY AskSays
  <1>2. Book' = Book
    BY DEF Book
  <1> QED
    BY <1>1, <1>2 DEF Promise!Ask

\* A removal asks.
LEMMA RemovalAsks ==
  ASSUME TypeOK, NEW p \in Proc, NEW us \in SUBSET Uid, RemoveLocked(p, us),
         UNCHANGED manifest
  PROVE  Promise!Ask(p)
  <1> DEFINE es == [u \in us |-> Absent]
  <1>1. AskFor(p, es) /\ \A i \in DOMAIN es : es[i] # Quiet
    BY ValueAssumption DEF RemoveLocked
  <1> HIDE DEF es
  <1> QED
    BY <1>1, EditAsks

\* Every call asks.
LEMMA CallAsks ==
  ASSUME Serial, TypeOK, NEW p \in Proc, Call(p)
  PROVE  Promise!Ask(p)
  <1>1. ASSUME NEW u \in Uid, NEW n \in Name, NEW c \in Content, Add(p, u, n, c)
        PROVE  Promise!Ask(p)
    <2> DEFINE es == New(u, <<Root, n>>, c)
    <2>1. DOMAIN es = {u} /\ es[u] \in Entry
      BY NameAssumption DEF New, Entry, Path, Place
    <2>2. AskFor(p, es) /\ UNCHANGED manifest
      BY <1>1 DEF Add
    <2> HIDE DEF es
    <2> QED
      BY <2>1, <2>2, EditAsks, ValueAssumption
  <1>2. ASSUME NEW u \in Uid, NEW to \in Path, RenameEntry(p, u, to)
        PROVE  Promise!Ask(p)
    <2> DEFINE es == [x \in {u} |-> [mem[p].entries[u] EXCEPT !.path = to]]
    <2>1. mem[p].entries[u] \in Entry
      BY <1>2 DEF TypeOK, Man, RenameEntry, Has
    <2>2. DOMAIN es = {u} /\ es[u] \in Entry
      BY <2>1, EntryFields
    <2>3. AskFor(p, es) /\ UNCHANGED manifest
      BY <1>2 DEF RenameEntry
    <2> HIDE DEF es
    <2> QED
      BY <2>2, <2>3, EditAsks, ValueAssumption
  <1>3. ASSUME NEW u \in Uid, NEW d \in Place, MoveEntry(p, u, d)
        PROVE  Promise!Ask(p)
    <2> DEFINE es == Moved(p, {u}, d)
    <2>1. DOMAIN es = {u} /\ \A x \in {u} : es[x] \in Entry
      BY <1>3, MovedType DEF MoveEntry, Has, Present
    <2>2. AskFor(p, es) /\ UNCHANGED manifest
      BY <1>3 DEF MoveEntry
    <2> HIDE DEF es
    <2> QED
      BY <2>1, <2>2, EditAsks, ValueAssumption
  <1>4. ASSUME NEW us \in SUBSET Uid, Remove(p, us)
        PROVE  Promise!Ask(p)
    BY <1>4, RemovalAsks DEF Remove
  <1>5. ASSUME NEW d \in Dir, CreateFolder(p, d)
        PROVE  Promise!Ask(p)
    <2> DEFINE wish == [f \in {d} |-> Here]
    <2>1. DOMAIN wish = {d} /\ wish[d] = Here
      OBVIOUS
    <2>2. AskFor(p, wish) /\ UNCHANGED manifest
      BY <1>5 DEF CreateFolder
    <2> HIDE DEF wish
    <2> QED
      BY <2>1, <2>2, EditAsks, ValueAssumption
  <1>6. ASSUME NEW d \in Dir, DeleteFolder(p, d)
        PROVE  Promise!Ask(p)
    <2> DEFINE us == Inside(p, d)
               es == Moved(p, us, Root)
               wish == [i \in us \cup {d} |-> IF i = d THEN Absent ELSE es[i]]
    <2>1. us \subseteq Present(p)
      BY DEF Inside
    <2>2. DOMAIN es = us /\ \A u \in us : es[u] \in Entry
      BY <2>1, MovedType DEF Place
    <2>3. AskFor(p, wish) /\ UNCHANGED manifest
      BY <1>6 DEF DeleteFolder
    <2> HIDE DEF us, es
    <2>4. \A i \in DOMAIN wish : wish[i] # Quiet
      BY <2>2, ValueAssumption
    <2> HIDE DEF wish
    <2> QED
      BY <2>3, <2>4, EditAsks
  <1>7. \A u \in Uid, m \in Mode : ~SetEntryMode(p, u, m)
    BY DEF SetEntryMode, Serial, EditsMarked
  <1>8. \A d, e \in Dir : ~RenameFolder(p, d, e)
    BY DEF RenameFolder, Serial, EditsMarked
  <1> QED
    BY <1>1, <1>2, <1>3, <1>4, <1>5, <1>6, <1>7, <1>8 DEF Call

\* An import asks when it removes, appends and places, and only then.
LEMMA ImportAsks ==
  ASSUME TypeOK, NEW p \in Proc,
         Import(p) \/ ImportAppends(p) \/ ImportFails(p) \/ ImportPlaces(p)
  PROVE  Promise!Ask(p) \/ UNCHANGED <<manifest, asked>>
  <1>1. ASSUME NEW u \in Uid, NEW to \in Path, NEW c \in Content, NEW old \in Uid,
               ImportOver(p, u, to, c, old)
        PROVE  Promise!Ask(p)
    BY <1>1, RemovalAsks DEF ImportOver
  <1>2. ASSUME NEW u \in Uid, NEW to \in Path, NEW c \in Content,
               ImportFile(p, u, to, c)
        PROVE  UNCHANGED <<manifest, asked>>
    BY <1>2 DEF ImportFile
  <1>3. CASE ImportAppends(p)
    <2> DEFINE es == New(job[p].uid, <<Root, job[p].path[2]>>, job[p].id)
    <2>1. job[p] \in Job
      BY <1>3 DEF ImportAppends, TypeOK
    <2>2. DOMAIN es = {job[p].uid} /\ es[job[p].uid] \in Entry
      BY <2>1, NameAssumption DEF Job, New, Entry, Path, Place
    <2>3. AskFor(p, es) /\ UNCHANGED manifest
      BY <1>3 DEF ImportAppends
    <2> HIDE DEF es
    <2> QED
      BY <2>2, <2>3, EditAsks, ValueAssumption
  <1>4. CASE ImportFails(p)
    BY <1>4 DEF ImportFails
  <1>5. CASE ImportPlaces(p)
    <2> DEFINE u  == job[p].uid
               es == [x \in {u} |-> [mem[p].entries[u] EXCEPT !.path = job[p].path]]
    <2>1. job[p] \in Job
      BY <1>5 DEF ImportPlaces, TypeOK
    <2>2. CASE Has(p, u)
      <3>1. u \in Uid /\ job[p].path \in Path
        BY <2>1 DEF Job
      <3>2. mem[p].entries[u] \in Entry
        BY <2>2, <3>1 DEF TypeOK, Man, Has
      <3>3. DOMAIN es = {u} /\ es[u] \in Entry
        BY <3>1, <3>2, EntryFields
      <3>4. AskFor(p, es) /\ UNCHANGED manifest
        BY <1>5, <2>2 DEF ImportPlaces
      <3> HIDE DEF es, u
      <3> QED
        BY <3>3, <3>4, EditAsks, ValueAssumption
    <2>3. CASE ~Has(p, u)
      BY <1>5, <2>3 DEF ImportPlaces
    <2> QED
      BY <2>2, <2>3
  <1> QED
    BY <1>1, <1>2, <1>3, <1>4, <1>5 DEF Import

\* A file that is renamed into place keeps all that its writer was asked for,
\* and the rest of the book.
LEMMA WriteKeeps ==
  ASSUME TypeOK, Linked, NEW p \in Proc, NEW t \in Thread, SaveWrites(p, t)
  PROVE  Promise!Keep(p)
  <1>1. pc[p][t] = "write" /\ \A s \in Thread : s # t => pc[p][s] = "idle"
    BY OnlyOne DEF SaveWrites, Linked
  <1>2. ~Stamping(p) /\ InSave(p)
    BY <1>1 DEF Stamping, InSave
  <1>3. SameAsFile(p)
    BY <1>2 DEF Linked, UpToDate
  <1>4. manifest' = mem[p]
    BY DEF SaveWrites
  <1>5. ASSUME NEW u \in Uid
        PROVE  mem[p].entries[u] = IF asked[p][u] = Quiet THEN manifest.entries[u]
                                                         ELSE asked[p][u]
    <2>1. OwedEntry(p, u)
      BY <1>2 DEF Linked, Owed
    <2> QED
      BY <1>3, <2>1 DEF OwedEntry, SameAsFile, Has
  <1>6. ASSUME NEW d \in Dir
        PROVE  (IF d \in mem[p].folders THEN Here ELSE Absent)
                 = IF asked[p][d] = Quiet
                   THEN IF d \in manifest.folders THEN Here ELSE Absent
                   ELSE asked[p][d]
    <2>1. OwedFolder(p, d) /\ asked[p][d] \in {Here, Absent, Quiet}
      BY <1>2 DEF Linked, Owed, TypeOK
    <2> QED
      BY <1>3, <2>1 DEF OwedFolder, SameAsFile
  <1>7. Book' = [i \in Item |-> IF asked[p][i] = Quiet THEN Book[i]
                                                       ELSE asked[p][i]]
    <2>1. Book' = [i \in Item |-> IF i \in Uid THEN mem[p].entries[i]
                                  ELSE IF i \in mem[p].folders THEN Here ELSE Absent]
      BY <1>4 DEF Book
    <2>2. ASSUME NEW i \in Item
          PROVE  (IF i \in Uid THEN mem[p].entries[i]
                  ELSE IF i \in mem[p].folders THEN Here ELSE Absent)
                 = IF asked[p][i] = Quiet THEN Book[i] ELSE asked[p][i]
      <3>1. CASE i \in Uid
        BY <1>5, <3>1 DEF Book, Item
      <3>2. CASE i \in Dir /\ i \notin Uid
        BY <1>6, <3>2 DEF Book, Item
      <3> QED
        BY <3>1, <3>2 DEF Item
    <2> QED
      BY <2>1, <2>2
  <1>8. asked' = [asked EXCEPT ![p] = Promise!Nothing]
    BY DEF SaveWrites, Nothing, Promise!Nothing
  <1> QED
    BY <1>7, <1>8 DEF Promise!Keep

\* Every step of the system is a step of the promise, or none.
LEMMA BookNext ==
  ASSUME Serial, TypeOK, Linked, [Next]_vars
  PROVE  [Promise!Next]_(Promise!vars)
  <1>1. ASSUME UNCHANGED <<manifest, asked>> PROVE UNCHANGED Promise!vars
    BY <1>1 DEF Promise!vars, Book
  <1>2. CASE UNCHANGED vars
    BY <1>1, <1>2 DEF vars
  <1>3. CASE Next
    <2>1. PICK p \in Proc : Call(p) \/ Import(p) \/ Restart(p)
                            \/ \E t \in Thread : Proceed(p, t)
      BY <1>3 DEF Next
    <2>2. CASE Call(p)
      BY <2>2, CallAsks DEF Promise!Next
    <2>3. CASE Import(p)
      BY <1>1, <2>3, ImportAsks DEF Promise!Next
    <2>4. CASE Restart(p)
      <3>1. Promise!Lose(p)
        BY <2>4 DEF Restart, Promise!Lose, Promise!Nothing, Nothing, Book
      <3> QED
        BY <3>1 DEF Promise!Next
    <2>5. CASE \E t \in Thread : Proceed(p, t)
      <3>1. PICK t \in Thread : Proceed(p, t)
        BY <2>5
      <3>2. CASE SaveWrites(p, t)
        BY <3>2, WriteKeeps DEF Promise!Next
      <3>3. CASE SaveMerges(p, t) \/ SaveFails(p, t) \/ SaveReturns(p, t)
        BY <1>1, <3>3 DEF SaveMerges, SaveFails, SaveReturns
      <3>4. CASE ImportAppends(p) \/ ImportFails(p) \/ ImportPlaces(p)
        BY <1>1, <3>4, ImportAsks DEF Promise!Next
      <3> QED
        BY <3>1, <3>2, <3>3, <3>4 DEF Proceed, Save
    <2> QED
      BY <2>1, <2>2, <2>3, <2>4, <2>5
  <1> QED
    BY <1>2, <1>3

\* Wherever every edit is marked and Saves do not overlap, no process loses an
\* edit to another one: the file is the book of ManifestPromise (vault.go:
\* mergeExternal).
THEOREM ManifestIsSharedBook ==
  ASSUME Serial
  PROVE  Spec => SharedBook
  <1>1. Init => TypeOK /\ Linked
    BY TypeInit, LinkedInit
  <1>2. TypeOK /\ Linked /\ [Next]_vars => (TypeOK /\ Linked)'
    BY TypeNext, LinkedNext
  <1>3. TypeOK /\ Linked /\ [Next]_vars => [Promise!Next]_(Promise!vars)
    BY BookNext
  <1> QED
    BY <1>1, <1>2, <1>3, BookInit, PTL DEF Spec, SharedBook, Promise!Spec

----------------------------------------------------------------------------
(* The contents of the entries, where one process has the vault.           *)

\* A thread that does not leave the end of a Save keeps Settled.
LEMMA SettledStays ==
  ASSUME TypeOK, Settled, inSync' = inSync, NEW p \in Proc, NEW t \in Thread,
         pc[p][t] # "stamp", NEW s, pc' = [pc EXCEPT ![p][t] = s]
  PROVE  Settled'
  <1>1. ASSUME NEW q \in Proc, NEW r \in Thread, pc[q][r] = "stamp"
        PROVE  pc'[q][r] = "stamp"
    BY <1>1 DEF TypeOK
  <1> QED
    BY <1>1 DEF Settled, Stamping

\* An edit that leaves every entry its content, of entries that are there.
LEMMA SameContents ==
  ASSUME TypeOK, Alone, Stocked, NEW p \in Proc,
         NEW STATE es, NEW STATE fs, NEW STATE mk, NEW STATE wish,
         Edit(p, es, fs, mk), AskFor(p, wish), UNCHANGED <<manifest, stored>>,
         \A u \in Uid \cap DOMAIN es :
           Has(p, u) /\ es[u] \in Entry /\ es[u].id = mem[p].entries[u].id,
         \A u \in Uid \cap DOMAIN wish : Has(p, u) /\ wish[u] # Absent
  PROVE  InStore' /\ Followed' /\ \A u \in Uid : Has(p, u)' <=> Has(p, u)
  <1>1. ASSUME NEW u \in Uid
        PROVE  /\ Has(p, u)' <=> Has(p, u)
               /\ Has(p, u) => mem'[p].entries[u].id = mem[p].entries[u].id
    BY EditSays, ValueAssumption DEF Has
  <1>2. ASSUME NEW u \in Uid
        PROVE  asked'[p][u] = Absent <=> asked[p][u] = Absent
    BY AskSays DEF Stocked, InStore, Item
  <1>3. \A q \in Proc : q = p
    BY DEF Alone
  <1>4. InStore'
    BY <1>1, <1>2, <1>3 DEF Stocked, InStore
  <1>5. Followed'
    BY <1>1, <1>2, <1>3 DEF Stocked, Followed
  <1> QED
    BY <1>1, <1>4, <1>5

\* addFile: the content of the new entry is stored, or an entry has it already.
LEMMA NewContent ==
  ASSUME TypeOK, Alone, Stocked, NEW p \in Proc, NEW u \in Uid, NEW at, NEW c \in Content,
         NEW STATE mk, EditEntries(p, New(u, at, c), mk), AskFor(p, New(u, at, c)),
         stored' = Put(p, c), manifest.entries[u] = Absent, manifest' = manifest,
         at \in Path
  PROVE  /\ InStore' /\ Followed'
         /\ \A v \in Uid : v # u => (Has(p, v)' <=> Has(p, v))
  <1> DEFINE es == New(u, at, c)
  <1>1. DOMAIN es = {u} /\ es[u] \in Entry /\ es[u].id = c
    BY NameAssumption DEF New, Entry
  <1>2. Edit(p, es, mem[p].folders, mk) /\ AskFor(p, es)
    BY DEF EditEntries
  <1>3. c \in stored' /\ stored \subseteq stored'
    BY DEF Put, Present, Stocked, InStore
  <1> HIDE DEF es
  <1>4. /\ \A v \in Uid : mem'[p].entries[v] = IF v = u THEN es[u] ELSE mem[p].entries[v]
        /\ \A v \in Uid : asked'[p][v] = IF v = u THEN es[u] ELSE asked[p][v]
    BY <1>1, <1>2, EditSays, AskSays DEF Item
  <1>5. \A q \in Proc : q = p
    BY DEF Alone
  <1>6. InStore'
    BY <1>1, <1>3, <1>4, <1>5, ValueAssumption DEF Stocked, InStore, Has
  <1>7. Followed'
    BY <1>4, <1>5 DEF Stocked, Followed, Has
  <1> QED
    BY <1>4, <1>6, <1>7 DEF Has

\* releaseBlocks: what another entry has stays in the depot.
LEMMA RemovalContent ==
  ASSUME TypeOK, Alone, Stocked, NEW p \in Proc, NEW us \in SUBSET Uid,
         RemoveLocked(p, us), manifest' = manifest
  PROVE  InStore' /\ Followed' /\ \A u \in Uid : Has(p, u)' => Has(p, u)
  <1> DEFINE es == [u \in us |-> Absent]
             mk == [marks[p] EXCEPT !.deleted = @ \cup us]
  <1>1. Edit(p, es, mem[p].folders, mk) /\ AskFor(p, es)
    BY DEF RemoveLocked, EditEntries
  <1>2. DOMAIN es = us /\ \A u \in us : es[u] = Absent
    OBVIOUS
  <1> HIDE DEF es, mk
  <1>3. /\ \A u \in Uid : mem'[p].entries[u] = IF u \in us THEN Absent ELSE mem[p].entries[u]
        /\ \A u \in Uid : asked'[p][u] = IF u \in us THEN Absent ELSE asked[p][u]
    BY <1>1, <1>2, EditSays, AskSays DEF Item
  <1>4. \A q \in Proc : q = p
    BY DEF Alone
  <1>5. ASSUME NEW u \in Uid \ us, Has(p, u)
        PROVE  mem[p].entries[u].id \in stored'
    BY <1>5 DEF Stocked, InStore, RemoveLocked, Unowned, Present
  <1>6. InStore'
    BY <1>3, <1>4, <1>5 DEF Stocked, InStore, Has
  <1>7. Followed'
    BY <1>3, <1>4 DEF Stocked, Followed, Has
  <1> QED
    BY <1>3, <1>6, <1>7 DEF Has

\* Where the manifest, the depot, memory and what was asked stay, so do the
\* contents.
LEMMA ContentsStay ==
  ASSUME Stocked, UNCHANGED <<manifest, mem, stored, asked>>
  PROVE  InStore' /\ Followed' /\ \A p \in Proc, u \in Uid : Has(p, u)' <=> Has(p, u)
  BY DEF Stocked, InStore, Followed, Has

\* A call that edits entries and saves keeps the rest.
LEMMA CallStocked ==
  ASSUME TypeOK, Alone, Stocked, NEW p \in Proc, InStore', Followed', manifest' = manifest,
         inSync' = inSync, job' = job, pc[p]["call"] = "idle",
         pc' = [pc EXCEPT ![p]["call"] = "save"],
         \A u \in Uid : Has(p, u)' => Has(p, u) \/ job[p].uid # u
  PROVE  Stocked'
  <1>1. Settled'
    BY SettledStays DEF Stocked, Thread
  <1>2. pc'[p]["import"] = pc[p]["import"] /\ \A q \in Proc : q = p
    BY DEF Alone, TypeOK, Thread
  <1>3. pc[p]["import"] # "idle" => job[p].uid \in Uid
    BY DEF TypeOK, Job
  <1>4. NewName'
    BY <1>2, <1>3 DEF Stocked, NewName
  <1> QED
    BY <1>1, <1>4 DEF Stocked

\* What a call of the user is: idle before, in Save after.
LEMMA CallGoes ==
  ASSUME TypeOK, NEW p \in Proc, CanStart(p, "call"), SaveUnderMu(p, "call")
  PROVE  pc[p]["call"] = "idle" /\ pc' = [pc EXCEPT ![p]["call"] = "save"]
  BY DEF CanStart, SaveUnderMu

\* A call that edits entries that are there, and goes on to Save.
LEMMA EditStocked ==
  ASSUME TypeOK, Alone, Stocked, NEW p \in Proc,
         NEW STATE es, NEW STATE fs, NEW STATE mk, NEW STATE wish,
         Edit(p, es, fs, mk), AskFor(p, wish), UNCHANGED <<manifest, inSync, job, stored>>,
         \A u \in Uid \cap DOMAIN es :
           Has(p, u) /\ es[u] \in Entry /\ es[u].id = mem[p].entries[u].id,
         \A u \in Uid \cap DOMAIN wish : Has(p, u) /\ wish[u] # Absent,
         CanStart(p, "call"), SaveUnderMu(p, "call")
  PROVE  Stocked'
  <1>1. InStore' /\ Followed' /\ \A u \in Uid : Has(p, u)' <=> Has(p, u)
    BY SameContents
  <1> QED
    BY <1>1, CallGoes, CallStocked

\* An entry with another path or mode has the content that it had.
LEMMA IdStays ==
  ASSUME NEW e \in Entry, NEW at, NEW m
  PROVE  [e EXCEPT !.path = at].id = e.id /\ [e EXCEPT !.mode = m].id = e.id
  BY DEF Entry

\* Entries that change folder have the content that they had.
LEMMA MovedSays ==
  ASSUME TypeOK, NEW p \in Proc, NEW us \in SUBSET Present(p), NEW d \in Place
  PROVE  /\ DOMAIN Moved(p, us, d) = us
         /\ \A u \in us : /\ Has(p, u) /\ Moved(p, us, d)[u] \in Entry
                          /\ Moved(p, us, d)[u].id = mem[p].entries[u].id
  <1>1. ASSUME NEW u \in us
        PROVE  Has(p, u) /\ Moved(p, us, d)[u].id = mem[p].entries[u].id
    <2>1. mem[p].entries[u] \in Entry /\ Has(p, u)
      BY DEF TypeOK, Man, Present, Has
    <2>2. Moved(p, us, d)[u] = [mem[p].entries[u] EXCEPT !.path = <<d, mem[p].entries[u].path[2]>>]
      BY <2>1 DEF Moved, Entry
    <2> QED
      BY <2>1, <2>2, IdStays
  <1> QED
    BY <1>1, MovedType

\* Add keeps the contents.
LEMMA AddStocked ==
  ASSUME TypeOK, Alone, Stocked, NEW p \in Proc, NEW u \in Uid, NEW n \in Name,
         NEW c \in Content, Add(p, u, n, c)
  PROVE  Stocked'
  <1>1. <<Root, n>> \in Path
    BY DEF Path, Place
  <1>2. /\ EditEntries(p, New(u, <<Root, n>>, c), MarkDirty(p, {u}))
        /\ AskFor(p, New(u, <<Root, n>>, c)) /\ stored' = Put(p, c)
        /\ UNCHANGED <<manifest, inSync, job>> /\ pc[p]["call"] = "idle"
        /\ pc' = [pc EXCEPT ![p]["call"] = "save"]
        /\ manifest.entries[u] = Absent /\ job[p].uid # u
    BY DEF Add, Fresh, CanStart
  <1>3. /\ InStore' /\ Followed'
        /\ \A v \in Uid : v # u => (Has(p, v)' <=> Has(p, v))
    BY <1>1, <1>2, NewContent
  <1> QED
    BY <1>2, <1>3, CallStocked

\* RenameEntry keeps the contents.
LEMMA RenameStocked ==
  ASSUME TypeOK, Alone, Stocked, NEW p \in Proc, NEW u \in Uid, NEW to \in Path,
         RenameEntry(p, u, to)
  PROVE  Stocked'
  <1> DEFINE es == [x \in {u} |-> [mem[p].entries[u] EXCEPT !.path = to]]
  <1>1. Has(p, u) /\ mem[p].entries[u] \in Entry
    BY DEF TypeOK, Man, RenameEntry, Has
  <1>2. DOMAIN es = {u} /\ es[u] \in Entry /\ es[u].id = mem[p].entries[u].id
    BY <1>1, EntryFields, IdStays
  <1>3. /\ Edit(p, es, mem[p].folders, MarkDirty(p, {u})) /\ AskFor(p, es)
        /\ UNCHANGED <<manifest, inSync, job, stored>>
        /\ CanStart(p, "call") /\ SaveUnderMu(p, "call")
    BY DEF RenameEntry, EditEntries
  <1> HIDE DEF es
  <1>4. es[u] # Absent
    BY <1>2, ValueAssumption
  <1> QED
    BY <1>1, <1>2, <1>3, <1>4, EditStocked

\* MoveEntry keeps the contents.
LEMMA MoveStocked ==
  ASSUME TypeOK, Alone, Stocked, NEW p \in Proc, NEW u \in Uid, NEW d \in Place,
         MoveEntry(p, u, d)
  PROVE  Stocked'
  <1> DEFINE es == Moved(p, {u}, d)
  <1>1. {u} \in SUBSET Present(p)
    BY DEF MoveEntry, Present
  <1>2. DOMAIN es = {u} /\ \A v \in {u} : Has(p, v) /\ es[v] \in Entry
                                          /\ es[v].id = mem[p].entries[v].id
    BY <1>1, MovedSays
  <1>3. /\ Edit(p, es, mem[p].folders, MarkDirty(p, {u})) /\ AskFor(p, es)
        /\ UNCHANGED <<manifest, inSync, job, stored>>
        /\ CanStart(p, "call") /\ SaveUnderMu(p, "call")
    BY DEF MoveEntry, EditEntries
  <1> HIDE DEF es
  <1>4. \A v \in {u} : es[v] # Absent
    BY <1>2, ValueAssumption
  <1> QED
    BY <1>2, <1>3, <1>4, EditStocked

\* SetEntryMode keeps the contents: that it marks nothing does not matter here.
LEMMA ChmodStocked ==
  ASSUME TypeOK, Alone, Stocked, NEW p \in Proc, NEW u \in Uid, NEW m \in Mode,
         SetEntryMode(p, u, m)
  PROVE  Stocked'
  <1> DEFINE es == [x \in {u} |-> [mem[p].entries[u] EXCEPT !.mode = m]]
  <1>1. Has(p, u) /\ mem[p].entries[u] \in Entry
    BY DEF TypeOK, Man, SetEntryMode, Has
  <1>2. DOMAIN es = {u} /\ es[u] \in Entry /\ es[u].id = mem[p].entries[u].id
    BY <1>1, EntryFields, IdStays
  <1>3. /\ Edit(p, es, mem[p].folders, marks[p]) /\ AskFor(p, es)
        /\ UNCHANGED <<manifest, inSync, job, stored>>
        /\ CanStart(p, "call") /\ SaveUnderMu(p, "call")
    BY DEF SetEntryMode, EditEntries
  <1> HIDE DEF es
  <1>4. es[u] # Absent
    BY <1>2, ValueAssumption
  <1> QED
    BY <1>1, <1>2, <1>3, <1>4, EditStocked

\* Remove keeps what the other entries hold.
LEMMA RemoveStocked ==
  ASSUME TypeOK, Alone, Stocked, NEW p \in Proc, NEW us \in SUBSET Uid, Remove(p, us)
  PROVE  Stocked'
  <1>1. /\ RemoveLocked(p, us) /\ UNCHANGED <<manifest, inSync, job>>
        /\ CanStart(p, "call") /\ SaveUnderMu(p, "call")
    BY DEF Remove
  <1>2. InStore' /\ Followed' /\ \A u \in Uid : Has(p, u)' => Has(p, u)
    BY <1>1, RemovalContent
  <1> QED
    BY <1>1, <1>2, CallGoes, CallStocked

\* CreateFolder keeps the contents.
LEMMA CreateFolderStocked ==
  ASSUME TypeOK, Alone, Stocked, NEW p \in Proc, NEW d \in Dir, CreateFolder(p, d)
  PROVE  Stocked'
  <1> DEFINE es == [u \in {} |-> Absent]
             fs == mem[p].folders \cup {d}
             mk == [marks[p] EXCEPT !.dirtyFolders = @ \cup {d}]
             wish == [f \in {d} |-> Here]
  <1>1. DOMAIN es = {} /\ DOMAIN wish = {d} /\ d \notin Uid
    BY NameAssumption
  <1>2. /\ Edit(p, es, fs, mk) /\ AskFor(p, wish)
        /\ UNCHANGED <<manifest, inSync, job, stored>>
        /\ CanStart(p, "call") /\ SaveUnderMu(p, "call")
    BY DEF CreateFolder
  <1> HIDE DEF es, fs, mk, wish
  <1> QED
    BY <1>1, <1>2, EditStocked

\* DeleteFolder keeps the contents of the entries that it moves to the root.
LEMMA DeleteFolderStocked ==
  ASSUME TypeOK, Alone, Stocked, NEW p \in Proc, NEW d \in Dir, DeleteFolder(p, d)
  PROVE  Stocked'
  <1> DEFINE us == Inside(p, d)
             es == Moved(p, us, Root)
             fs == mem[p].folders \ {d}
             mk == SetFolders(p, us, fs)
             wish == [i \in us \cup {d} |-> IF i = d THEN Absent ELSE es[i]]
  <1>0. us \in SUBSET Present(p) /\ us \subseteq Uid /\ Root \in Place
    BY DEF Inside, Present, Place
  <1>1. DOMAIN es = us /\ \A u \in us : Has(p, u) /\ es[u] \in Entry
                                        /\ es[u].id = mem[p].entries[u].id
    BY <1>0, MovedSays
  <1>2. DOMAIN wish = us \cup {d} /\ d \notin Uid /\ \A u \in us : wish[u] = es[u]
    BY <1>0, NameAssumption
  <1>3. /\ Edit(p, es, fs, mk) /\ AskFor(p, wish)
        /\ UNCHANGED <<manifest, inSync, job, stored>>
        /\ CanStart(p, "call") /\ SaveUnderMu(p, "call")
    BY DEF DeleteFolder
  <1> HIDE DEF us, es, fs, mk, wish
  <1>4. \A u \in us : es[u] # Absent
    BY <1>1, ValueAssumption
  <1> QED
    BY <1>1, <1>2, <1>3, <1>4, EditStocked

\* RenameFolder keeps the contents of the entries that it takes along.
LEMMA RenameFolderStocked ==
  ASSUME TypeOK, Alone, Stocked, NEW p \in Proc, NEW d \in Dir, NEW e \in Dir,
         RenameFolder(p, d, e)
  PROVE  Stocked'
  <1> DEFINE us == Inside(p, d)
             es == Moved(p, us, e)
             fs == (mem[p].folders \ {d}) \cup {e}
             mk == SetFolders(p, Present(p), fs)
             wish == [i \in us \cup {d, e} |->
                        CASE i = d -> Absent [] i = e -> Here [] OTHER -> es[i]]
  <1>0. us \in SUBSET Present(p) /\ us \subseteq Uid /\ e \in Place
    BY DEF Inside, Present, Place
  <1>1. DOMAIN es = us /\ \A u \in us : Has(p, u) /\ es[u] \in Entry
                                        /\ es[u].id = mem[p].entries[u].id
    BY <1>0, MovedSays
  <1>2. /\ DOMAIN wish = us \cup {d, e} /\ d \notin Uid /\ e \notin Uid
        /\ \A u \in us : wish[u] = es[u]
    BY <1>0, NameAssumption
  <1>3. /\ Edit(p, es, fs, mk) /\ AskFor(p, wish)
        /\ UNCHANGED <<manifest, inSync, job, stored>>
        /\ CanStart(p, "call") /\ SaveUnderMu(p, "call")
    BY DEF RenameFolder
  <1> HIDE DEF us, es, fs, mk, wish
  <1>4. \A u \in us : es[u] # Absent
    BY <1>1, ValueAssumption
  <1> QED
    BY <1>1, <1>2, <1>3, <1>4, EditStocked

\* A step of an import that begins or goes on, with memory and file as they
\* are or with entries gone.
LEMMA ImportGoes ==
  ASSUME TypeOK, Alone, Stocked, NEW p \in Proc, InStore', Followed',
         UNCHANGED <<manifest, inSync>>, pc[p]["import"] # "stamp",
         NEW s, pc' = [pc EXCEPT ![p]["import"] = s],
         NEW j, j = job'[p], s = "append" => ~j.in,
         s # "idle" /\ ~j.in =>
           mem'[p].entries[j.uid] = Absent /\ manifest.entries[j.uid] = Absent
  PROVE  Stocked'
  <1>1. Settled'
    BY SettledStays DEF Stocked, Thread
  <1>2. pc'[p]["import"] = s /\ \A q \in Proc : q = p
    BY DEF Alone, TypeOK, Thread
  <1>3. ASSUME NEW q \in Proc
        PROVE  /\ pc'[q]["import"] = "append" => ~job'[q].in
               /\ pc'[q]["import"] # "idle" /\ ~job'[q].in =>
                    mem'[q].entries[job'[q].uid] = Absent
                    /\ manifest'.entries[job'[q].uid] = Absent
    BY <1>2
  <1>4. NewName'
    BY <1>3 DEF NewName, Has
  <1> QED
    BY <1>1, <1>4 DEF Stocked

\* An import begins with a name that nobody has seen.
LEMMA BeginSays ==
  ASSUME TypeOK, NEW p \in Proc, NEW u \in Uid, NEW to \in Path, NEW c \in Content,
         BeginImport(p, u, to, c)
  PROVE  /\ job'[p].uid = u /\ ~job'[p].in /\ pc[p]["import"] = "idle"
         /\ ~Has(p, u) /\ manifest.entries[u] = Absent
  BY DEF BeginImport, CanStart, Fresh, TypeOK

\* ImportFile keeps the contents.
LEMMA ImportFileStocked ==
  ASSUME TypeOK, Alone, Stocked, NEW p \in Proc, NEW u \in Uid, NEW to \in Path,
         NEW c \in Content, ImportFile(p, u, to, c)
  PROVE  Stocked'
  <1>1. /\ UNCHANGED <<manifest, mem, inSync, stored, asked>> /\ BeginImport(p, u, to, c)
        /\ pc' = [pc EXCEPT ![p]["import"] = "append"]
    BY DEF ImportFile
  <1>2. InStore' /\ Followed' /\ (Has(p, u)' <=> Has(p, u))
    BY <1>1, ContentsStay
  <1>3. job'[p].uid = u /\ ~job'[p].in /\ pc[p]["import"] = "idle" /\ ~Has(p, u)
        /\ manifest.entries[u] = Absent
    BY <1>1, BeginSays
  <1>4. PICK j : j = job'[p]
    OBVIOUS
  <1>5. ~j.in /\ mem'[p].entries[j.uid] = Absent /\ manifest.entries[j.uid] = Absent
    BY <1>2, <1>3, <1>4 DEF Has
  <1> QED
    BY <1>1, <1>2, <1>3, <1>4, <1>5, ImportGoes

\* So does the removal of the entry that holds the path.
LEMMA ImportOverStocked ==
  ASSUME TypeOK, Alone, Stocked, NEW p \in Proc, NEW u \in Uid, NEW to \in Path,
         NEW c \in Content, NEW old \in Uid, ImportOver(p, u, to, c, old)
  PROVE  Stocked'
  <1>1. /\ RemoveLocked(p, {old}) /\ UNCHANGED <<manifest, inSync>>
        /\ pc' = [pc EXCEPT ![p]["import"] = "save"] /\ BeginImport(p, u, to, c)
    BY DEF ImportOver, SaveUnderMu
  <1>2. InStore' /\ Followed' /\ (Has(p, u)' => Has(p, u))
    BY <1>1, RemovalContent
  <1>3. job'[p].uid = u /\ ~job'[p].in /\ pc[p]["import"] = "idle" /\ ~Has(p, u)
        /\ manifest.entries[u] = Absent
    BY <1>1, BeginSays
  <1>4. PICK j : j = job'[p]
    OBVIOUS
  <1>5. ~j.in /\ mem'[p].entries[j.uid] = Absent /\ manifest.entries[j.uid] = Absent
    BY <1>2, <1>3, <1>4 DEF Has
  <1> QED
    BY <1>1, <1>2, <1>3, <1>4, <1>5, ImportGoes

\* addFile stores the content of the entry that it appends.
LEMMA ImportAppendsStocked ==
  ASSUME TypeOK, Alone, Stocked, NEW p \in Proc, ImportAppends(p)
  PROVE  Stocked'
  <1>1. job[p] \in Job /\ pc[p]["import"] = "append" /\ UNCHANGED <<manifest, inSync>>
        /\ pc' = [pc EXCEPT ![p]["import"] = "place"]
    BY DEF ImportAppends, TypeOK
  <1>2. PICK u, at, c : u = job[p].uid /\ at = <<Root, job[p].path[2]>> /\ c = job[p].id
    OBVIOUS
  <1>3. u \in Uid /\ at \in Path /\ c \in Content
    BY <1>1, <1>2 DEF Job, Path, Place
  <1>4. /\ EditEntries(p, New(u, at, c), MarkDirty(p, {u})) /\ AskFor(p, New(u, at, c))
        /\ stored' = Put(p, c)
    BY <1>2 DEF ImportAppends
  <1>5. manifest.entries[u] = Absent
    BY <1>1, <1>2 DEF Stocked, NewName
  <1>6. InStore' /\ Followed'
    BY <1>1, <1>3, <1>4, <1>5, NewContent
  <1>7. PICK j : j = job'[p]
    OBVIOUS
  <1>8. j.in
    BY <1>1, <1>7 DEF ImportAppends, TypeOK, Job
  <1>9. PICK s : s = "place" /\ s # "append"
    OBVIOUS
  <1> QED
    BY <1>1, <1>6, <1>7, <1>8, <1>9, ImportGoes

\* An import that fails stores nothing.
LEMMA ImportFailsStocked ==
  ASSUME TypeOK, Alone, Stocked, NEW p \in Proc, ImportFails(p)
  PROVE  Stocked'
  <1>1. /\ pc[p]["import"] = "append" /\ pc' = [pc EXCEPT ![p]["import"] = "idle"]
        /\ UNCHANGED <<manifest, mem, inSync, stored, asked>>
    BY DEF ImportFails
  <1>2. InStore' /\ Followed'
    BY <1>1, ContentsStay
  <1>3. PICK j : j = job'[p]
    OBVIOUS
  <1>4. PICK s : s = "idle" /\ s # "append"
    OBVIOUS
  <1> QED
    BY <1>1, <1>2, <1>3, <1>4, ImportGoes

\* The path is set, wherever the entry is: in memory, or on an object that the
\* manifest has no more.
LEMMA ImportPlacesStocked ==
  ASSUME TypeOK, Alone, Stocked, NEW p \in Proc, ImportPlaces(p)
  PROVE  Stocked'
  <1> DEFINE u  == job[p].uid
             es == [x \in {u} |-> [mem[p].entries[u] EXCEPT !.path = job[p].path]]
  <1>1. /\ pc[p]["import"] = "place" /\ pc' = [pc EXCEPT ![p]["import"] = "save"]
        /\ UNCHANGED <<manifest, inSync, job, stored>> /\ u \in Uid /\ job[p].path \in Path
        /\ IF Has(p, u) THEN AskFor(p, es) ELSE UNCHANGED asked
        /\ IF Has(p, u) /\ job[p].own THEN EditEntries(p, es, marks[p])
                                      ELSE UNCHANGED <<mem, marks>>
    BY DEF ImportPlaces, TypeOK, Job
  <1>2. InStore' /\ Followed' /\ \A v \in Uid : Has(p, v)' <=> Has(p, v)
    <2>1. CASE ~Has(p, u)
      BY <1>1, <2>1, ContentsStay
    <2>2. CASE Has(p, u)
      <3>1. mem[p].entries[u] \in Entry
        BY <1>1, <2>2 DEF TypeOK, Man, Has
      <3>2. DOMAIN es = {u} /\ es[u] \in Entry /\ es[u].id = mem[p].entries[u].id
        BY <1>1, <3>1, EntryFields, IdStays
      <3>3. AskFor(p, es)
        BY <1>1, <2>2
      <3>4. CASE job[p].own
        <4>1. Edit(p, es, mem[p].folders, marks[p])
          BY <1>1, <2>2, <3>4 DEF EditEntries
        <4> HIDE DEF es
        <4>2. es[u] # Absent
          BY <3>2, ValueAssumption
        <4> QED
          BY <1>1, <2>2, <3>2, <3>3, <4>1, <4>2, SameContents
      <3>5. CASE ~job[p].own
        <4>1. UNCHANGED <<mem, manifest, stored>>
          BY <1>1, <3>5
        <4> HIDE DEF es
        <4>2. \A v \in Uid : asked'[p][v] = IF v = u THEN es[u] ELSE asked[p][v]
          BY <3>2, <3>3, AskSays DEF Item
        <4>3. \A v \in Uid : asked'[p][v] = Absent => asked[p][v] = Absent
          BY <3>2, <4>2, ValueAssumption
        <4>4. \A v \in Uid : asked[p][v] = Absent => asked'[p][v] = Absent
          BY <1>1, <2>2, <4>2 DEF Stocked, InStore
        <4>5. \A q \in Proc : q = p
          BY DEF Alone
        <4>6. InStore'
          BY <4>1, <4>3, <4>5 DEF Stocked, InStore, Has
        <4>7. Followed'
          BY <4>1, <4>4, <4>5 DEF Stocked, Followed, Has
        <4> QED
          BY <4>1, <4>6, <4>7 DEF Has
      <3> QED
        BY <3>4, <3>5
    <2> QED
      BY <2>1, <2>2
  <1>3. ~job[p].in => ~Has(p, u)' /\ manifest.entries[u] = Absent
    BY <1>1, <1>2 DEF Stocked, NewName
  <1>4. PICK j : j = job'[p]
    OBVIOUS
  <1>5. ~j.in => mem'[p].entries[j.uid] = Absent /\ manifest.entries[j.uid] = Absent
    BY <1>1, <1>3, <1>4 DEF Has
  <1>6. PICK s : s = "save" /\ s # "append"
    OBVIOUS
  <1> QED
    BY <1>1, <1>2, <1>4, <1>5, <1>6, ImportGoes

\* With the file as it left it, a Save merges nothing.
LEMMA SaveMergesStocked ==
  ASSUME TypeOK, Alone, Stocked, NEW p \in Proc, NEW t \in Thread, SaveMerges(p, t)
  PROVE  Stocked'
  <1>1. /\ pc[p][t] = "save" /\ ~InSave(p) /\ pc' = [pc EXCEPT ![p][t] = "write"]
        /\ UNCHANGED <<manifest, inSync, stored, asked>>
    BY DEF SaveMerges
  <1>2. inSync[p] = TRUE
    BY <1>1 DEF Stocked, Settled, Stamping, InSave, TypeOK
  <1>3. mem' = mem /\ job' = job
    BY <1>2 DEF SaveMerges
  <1>4. InStore' /\ Followed' /\ \A u \in Uid : Has(p, u)' <=> Has(p, u)
    BY <1>1, <1>3, ContentsStay
  <1>5. Settled'
    BY <1>1, SettledStays DEF Stocked
  <1>6. pc'[p]["import"] \in {pc[p]["import"], "write"} /\ \A q \in Proc : q = p
    BY <1>1 DEF Alone, TypeOK, Thread
  <1>7. pc'[p]["import"] = "write" => pc[p]["import"] # "idle"
    BY <1>1 DEF TypeOK, Thread
  <1>8. NewName'
    BY <1>1, <1>3, <1>6, <1>7 DEF Stocked, NewName, Has
  <1> QED
    BY <1>4, <1>5, <1>8 DEF Stocked

\* The file becomes what memory is, and what was asked for is done.
LEMMA SaveWritesStocked ==
  ASSUME TypeOK, Alone, Stocked, NEW p \in Proc, NEW t \in Thread, SaveWrites(p, t)
  PROVE  Stocked'
  <1>1. /\ pc[p][t] = "write" /\ pc' = [pc EXCEPT ![p][t] = "stamp"] /\ manifest' = mem[p]
        /\ asked' = [asked EXCEPT ![p] = Nothing] /\ UNCHANGED <<mem, job, stored>>
    BY DEF SaveWrites
  <1>2. \A q \in Proc : q = p
    BY DEF Alone
  <1>3. pc'[p][t] = "stamp"
    BY <1>1 DEF TypeOK
  <1>4. \A u \in Uid : asked'[p][u] # Absent
    BY <1>1, ValueAssumption DEF TypeOK, Nothing, Item
  <1>5. Settled'
    BY <1>2, <1>3 DEF Settled, Stamping
  <1>6. InStore' /\ Followed'
    BY <1>1, <1>2, <1>4 DEF Stocked, InStore, Followed, Has
  <1>7. pc'[p]["import"] = pc[p]["import"] \/ (pc[p]["import"] = "write" /\ pc'[p]["import"] = "stamp")
    BY <1>1 DEF TypeOK, Thread
  <1>8. NewName'
    BY <1>1, <1>2, <1>7 DEF Stocked, NewName, Has
  <1> QED
    BY <1>5, <1>6, <1>8 DEF Stocked

\* A Save that fails changes neither the file nor memory.
LEMMA SaveFailsStocked ==
  ASSUME TypeOK, Alone, Stocked, NEW p \in Proc, NEW t \in Thread, SaveFails(p, t)
  PROVE  Stocked'
  <1>1. /\ pc[p][t] = "write" /\ pc' = [pc EXCEPT ![p][t] = "idle"]
        /\ job' = IF t = "import" THEN [job EXCEPT ![p] = NoJob] ELSE job
        /\ UNCHANGED <<manifest, mem, inSync, stored, asked>>
    BY DEF SaveFails
  <1>2. InStore' /\ Followed' /\ \A u \in Uid : Has(p, u)' <=> Has(p, u)
    BY <1>1, ContentsStay
  <1>3. Settled'
    BY <1>1, SettledStays DEF Stocked
  <1>4. \A q \in Proc : q = p
    BY DEF Alone
  <1>5. CASE t = "import"
    <2>1. pc'[p]["import"] = "idle"
      BY <1>1, <1>5 DEF TypeOK
    <2>2. NewName'
      BY <1>4, <2>1 DEF NewName
    <2> QED
      BY <1>2, <1>3, <2>2 DEF Stocked
  <1>6. CASE t # "import"
    <2>1. pc'[p]["import"] = pc[p]["import"] /\ job' = job
      BY <1>1, <1>6 DEF TypeOK, Thread
    <2>2. NewName'
      BY <1>1, <1>4, <2>1 DEF Stocked, NewName, Has
    <2> QED
      BY <1>2, <1>3, <2>2 DEF Stocked
  <1> QED
    BY <1>5, <1>6

\* The end of a Save notes the file as its own, and lets the import go on.
LEMMA SaveReturnsStocked ==
  ASSUME TypeOK, Alone, Stocked, NEW p \in Proc, NEW t \in Thread, SaveReturns(p, t)
  PROVE  Stocked'
  <1>1. /\ pc[p][t] = "stamp" /\ inSync' = [inSync EXCEPT ![p] = TRUE]
        /\ pc' = [pc EXCEPT ![p][t] = IF Resumes(p, t) THEN "append" ELSE "idle"]
        /\ job' = [job EXCEPT ![p] = JobAfter(p, t)]
        /\ UNCHANGED <<manifest, mem, stored, asked>>
    BY DEF SaveReturns, Stamped
  <1>2. InStore' /\ Followed' /\ \A u \in Uid : Has(p, u)' <=> Has(p, u)
    BY <1>1, ContentsStay
  <1>3. \A q \in Proc : q = p
    BY DEF Alone
  <1>4. Settled'
    BY <1>1, <1>3, Zenon DEF Settled, TypeOK
  <1>5. CASE t = "import" /\ job[p].in
    <2>1. pc'[p]["import"] = "idle"
      BY <1>1, <1>5 DEF TypeOK, Resumes
    <2>2. NewName'
      BY <1>3, <2>1 DEF NewName
    <2> QED
      BY <1>2, <1>4, <2>2 DEF Stocked
  <1>6. CASE t # "import" \/ ~job[p].in
    <2>1. job'[p] = job[p]
      BY <1>1, <1>6 DEF TypeOK, JobAfter, Resumes
    <2>2. pc'[p]["import"] = pc[p]["import"]
          \/ (pc[p]["import"] = "stamp" /\ pc'[p]["import"] = "append" /\ ~job[p].in)
      BY <1>1, <1>6 DEF TypeOK, Thread, Resumes
    <2>3. NewName'
      BY <1>1, <1>3, <2>1, <2>2 DEF Stocked, NewName, Has
    <2> QED
      BY <1>2, <1>4, <2>3 DEF Stocked
  <1> QED
    BY <1>5, <1>6

\* At first there is nothing.
LEMMA StockedInit == Init => Stocked
  BY ValueAssumption DEF Init, Stocked, Settled, InStore, Followed, NewName, Has, Empty,
                         Idle, Thread

\* Every step keeps the contents of the entries.
LEMMA StockedNext ==
  ASSUME Alone, TypeOK, Stocked, [Next]_vars
  PROVE  Stocked'
  <1>1. CASE UNCHANGED vars
    BY <1>1 DEF vars, Stocked, Settled, Stamping, InStore, Followed, NewName, Has
  <1>2. CASE Next
    <2>1. PICK p \in Proc : Call(p) \/ Import(p) \/ Restart(p)
                            \/ \E t \in Thread : Proceed(p, t)
      BY <1>2 DEF Next
    <2>2. CASE Call(p)
      BY <2>2, AddStocked, RenameStocked, MoveStocked, ChmodStocked, RemoveStocked,
         CreateFolderStocked, DeleteFolderStocked, RenameFolderStocked DEF Call
    <2>3. CASE Import(p)
      BY <2>3, ImportFileStocked, ImportOverStocked DEF Import
    <2>4. CASE Restart(p)
      BY <2>4 DEF Restart, Alone
    <2>5. CASE \E t \in Thread : Proceed(p, t)
      BY <2>5, SaveMergesStocked, SaveWritesStocked, SaveFailsStocked,
         SaveReturnsStocked, ImportAppendsStocked, ImportFailsStocked,
         ImportPlacesStocked DEF Proceed, Save
    <2> QED
      BY <2>1, <2>2, <2>3, <2>4, <2>5
  <1> QED
    BY <1>1, <1>2

\* Where one process has the vault and is not killed, every entry of the file
\* that nobody asked to remove has its content in the depot, whatever its two
\* threads do at once and whichever Save fails (releaseBlocks, addFile).
THEOREM ManifestBacked ==
  ASSUME Alone
  PROVE  Spec => []Backed
  <1>1. Init => TypeOK /\ Stocked
    BY TypeInit, StockedInit
  <1>2. TypeOK /\ Stocked /\ [Next]_vars => (TypeOK /\ Stocked)'
    BY TypeNext, StockedNext
  <1>3. TypeOK /\ Stocked => Backed
    BY DEF Alone, Stocked, InStore, Followed, Backed
  <1> QED
    BY <1>1, <1>2, <1>3, PTL DEF Spec
=============================================================================
