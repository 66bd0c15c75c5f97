----------------------------- MODULE FuseProof -----------------------------
(***************************************************************************)
(* The properties of FusePending, for any number of threads, names and     *)
(* staging files: TypeOK whatever races there are, the others without any. *)
(***************************************************************************)
EXTENDS FuseInv, FiniteSetTheorems, SequenceTheorems, TLAPS

----------------------------------------------------------------------------
(* Staging files.                                                          *)

\* The fields of a staging file that the sets of FuseInv are about.
LEMMA Fields ==
  ASSUME TypeOK, NEW f \in File
  PROVE  /\ Mem(f) \in Staging
         /\ (Mem(f).open <=> f \in Opened) /\ (Mem(f).staged <=> f \in Staged)
         /\ (Mem(f).meta <=> f \in Metas) /\ (Mem(f).closed <=> f \in Closed)
         /\ (Mem(f).importing <=> f \in Taken) /\ (Mem(f).imported <=> f \in Moved)
         /\ (Mem(f).orphan <=> f \in Orphans)
         /\ (Mem(f).name = None <=> f \notin Used)
  <1>1. Mem(f) \in Staging
    BY DEF TypeOK, Mem
  <1> QED
    BY <1>1, Zenon DEF Opened, Staged, Metas, Closed, Taken, Moved, Orphans, Used

\* The sets go by the fields.
LEMMA SetsFollow ==
  /\ (\A g \in File : Mem(g)'.open = Mem(g).open) => Opened' = Opened
  /\ (\A g \in File : Mem(g)'.staged = Mem(g).staged) => Staged' = Staged
  /\ (\A g \in File : Mem(g)'.meta = Mem(g).meta) => Metas' = Metas
  /\ (\A g \in File : Mem(g)'.closed = Mem(g).closed) => Closed' = Closed
  /\ (\A g \in File : Mem(g)'.importing = Mem(g).importing) => Taken' = Taken
  /\ (\A g \in File : Mem(g)'.imported = Mem(g).imported) => Moved' = Moved
  /\ (\A g \in File : Mem(g)'.orphan = Mem(g).orphan) => Orphans' = Orphans
  /\ (\A g \in File : Mem(g)'.name = Mem(g).name) => Used' = Used
  BY Zenon DEF Opened, Staged, Metas, Closed, Taken, Moved, Orphans, Used

\* Claim, PutFails: importing.
LEMMA ChangeTaken ==
  ASSUME TypeOK, NEW f \in File, NEW b \in BOOLEAN,
         file' = [file EXCEPT ![f].importing = b]
  PROVE  /\ file' \in [File -> Staging]
         /\ Taken' = IF b THEN Taken \cup {f} ELSE Taken \ {f}
         /\ Opened' = Opened /\ Staged' = Staged /\ Metas' = Metas /\ Closed' = Closed
         /\ Moved' = Moved /\ Orphans' = Orphans /\ Used' = Used
         /\ \A g \in File : NameOf(g)' = NameOf(g) /\ Mem(g)'.data = Mem(g).data
         /\ \A g \in File : g # f => Mem(g)' = Mem(g)
  <1>1. Mem(f)' = [Mem(f) EXCEPT !.importing = b] /\ \A g \in File : g # f => Mem(g)' = Mem(g)
    BY DEF Mem, TypeOK
  <1>2. Mem(f) \in Staging /\ \A g \in File : Mem(g) \in Staging
    BY DEF Mem, TypeOK
  <1>3. Mem(f)' \in Staging /\ Mem(f)'.importing = b
    BY <1>1, <1>2 DEF Staging
  <1>4. /\ Mem(f)'.open = Mem(f).open /\ Mem(f)'.staged = Mem(f).staged
        /\ Mem(f)'.meta = Mem(f).meta /\ Mem(f)'.closed = Mem(f).closed
        /\ Mem(f)'.imported = Mem(f).imported /\ Mem(f)'.orphan = Mem(f).orphan
        /\ Mem(f)'.name = Mem(f).name /\ Mem(f)'.data = Mem(f).data
    BY <1>1, <1>2 DEF Staging
  <1>5. file' \in [File -> Staging]
    BY <1>1, <1>2, <1>3 DEF TypeOK, Mem
  <1>6. /\ Opened' = Opened /\ Staged' = Staged /\ Metas' = Metas /\ Closed' = Closed
        /\ Moved' = Moved /\ Orphans' = Orphans /\ Used' = Used
    BY <1>1, <1>4, SetsFollow, Zenon
  <1>7. Taken' = IF b THEN Taken \cup {f} ELSE Taken \ {f}
    <2>1. \A g \in File : g # f => (g \in Taken' <=> g \in Taken)
      BY <1>1, Zenon DEF Taken
    <2>2. f \in Taken' <=> b
      BY <1>3, Zenon DEF Taken
    <2>3. Taken' \subseteq File /\ Taken \subseteq File
      BY DEF Taken
    <2> QED
      BY <2>1, <2>2, <2>3
  <1> QED
    BY <1>1, <1>4, <1>5, <1>6, <1>7, Zenon DEF NameOf

\* dropPending: the .meta goes.
LEMMA ChangeMeta ==
  ASSUME TypeOK, NEW f \in File,
         file' = [file EXCEPT ![f].meta = FALSE]
  PROVE  /\ file' \in [File -> Staging]
         /\ Metas' = Metas \ {f}
         /\ Opened' = Opened /\ Staged' = Staged /\ Closed' = Closed /\ Taken' = Taken
         /\ Moved' = Moved /\ Orphans' = Orphans /\ Used' = Used
         /\ \A g \in File : NameOf(g)' = NameOf(g) /\ Mem(g)'.data = Mem(g).data
         /\ \A g \in File : g # f => Mem(g)' = Mem(g)
  <1>1. Mem(f)' = [Mem(f) EXCEPT !.meta = FALSE] /\ \A g \in File : g # f => Mem(g)' = Mem(g)
    BY DEF Mem, TypeOK
  <1>2. Mem(f) \in Staging /\ \A g \in File : Mem(g) \in Staging
    BY DEF Mem, TypeOK
  <1>3. Mem(f)' \in Staging /\ Mem(f)'.meta = FALSE
    BY <1>1, <1>2 DEF Staging
  <1>4. /\ Mem(f)'.open = Mem(f).open /\ Mem(f)'.staged = Mem(f).staged
        /\ Mem(f)'.closed = Mem(f).closed /\ Mem(f)'.importing = Mem(f).importing
        /\ Mem(f)'.imported = Mem(f).imported /\ Mem(f)'.orphan = Mem(f).orphan
        /\ Mem(f)'.name = Mem(f).name /\ Mem(f)'.data = Mem(f).data
    BY <1>1, <1>2 DEF Staging
  <1>5. file' \in [File -> Staging]
    BY <1>1, <1>2, <1>3 DEF TypeOK, Mem
  <1>6. /\ Opened' = Opened /\ Staged' = Staged /\ Closed' = Closed /\ Taken' = Taken
        /\ Moved' = Moved /\ Orphans' = Orphans /\ Used' = Used
    BY <1>1, <1>4, SetsFollow, Zenon
  <1>7. Metas' = Metas \ {f}
    <2>1. \A g \in File : g # f => (g \in Metas' <=> g \in Metas)
      BY <1>1, Zenon DEF Metas
    <2>2. f \notin Metas'
      BY <1>3, Zenon DEF Metas
    <2>3. Metas' \subseteq File /\ Metas \subseteq File
      BY DEF Metas
    <2> QED
      BY <2>1, <2>2, <2>3
  <1> QED
    BY <1>1, <1>4, <1>5, <1>6, <1>7, Zenon DEF NameOf

\* Write: one more.
LEMMA ChangeData ==
  ASSUME TypeOK, NEW f \in File, Mem(f).data < MaxWrites,
         file' = [file EXCEPT ![f].data = @ + 1]
  PROVE  /\ file' \in [File -> Staging]
         /\ Opened' = Opened /\ Staged' = Staged /\ Metas' = Metas /\ Closed' = Closed
         /\ Taken' = Taken /\ Moved' = Moved /\ Orphans' = Orphans /\ Used' = Used
         /\ \A g \in File : NameOf(g)' = NameOf(g)
         /\ \A g \in File : g # f => Mem(g)' = Mem(g)
  <1>1. Mem(f)' = [Mem(f) EXCEPT !.data = Mem(f).data + 1] /\ \A g \in File : g # f => Mem(g)' = Mem(g)
    BY DEF Mem, TypeOK
  <1>2. Mem(f) \in Staging /\ \A g \in File : Mem(g) \in Staging
    BY DEF Mem, TypeOK
  <1>3. Mem(f)' \in Staging /\ Mem(f)'.data = Mem(f).data + 1
    BY <1>1, <1>2, FuseAssumption DEF Staging
  <1>4. /\ Mem(f)'.open = Mem(f).open /\ Mem(f)'.staged = Mem(f).staged
        /\ Mem(f)'.meta = Mem(f).meta /\ Mem(f)'.closed = Mem(f).closed
        /\ Mem(f)'.importing = Mem(f).importing /\ Mem(f)'.imported = Mem(f).imported
        /\ Mem(f)'.orphan = Mem(f).orphan /\ Mem(f)'.name = Mem(f).name
    BY <1>1, <1>2 DEF Staging
  <1>5. file' \in [File -> Staging]
    BY <1>1, <1>2, <1>3 DEF TypeOK, Mem
  <1>6. /\ Opened' = Opened /\ Staged' = Staged /\ Metas' = Metas /\ Closed' = Closed
        /\ Taken' = Taken /\ Moved' = Moved /\ Orphans' = Orphans /\ Used' = Used
    BY <1>1, <1>4, SetsFollow, Zenon
  <1> QED
    BY <1>1, <1>4, <1>5, <1>6, Zenon DEF NameOf

\* Release: the handle goes.
LEMMA ChangeOpen ==
  ASSUME TypeOK, NEW f \in File,
         file' = [file EXCEPT ![f].open = FALSE]
  PROVE  /\ file' \in [File -> Staging]
         /\ Opened' = Opened \ {f}
         /\ Staged' = Staged /\ Metas' = Metas /\ Closed' = Closed /\ Taken' = Taken
         /\ Moved' = Moved /\ Orphans' = Orphans /\ Used' = Used
         /\ \A g \in File : NameOf(g)' = NameOf(g) /\ Mem(g)'.data = Mem(g).data
         /\ \A g \in File : g # f => Mem(g)' = Mem(g)
  <1>1. Mem(f)' = [Mem(f) EXCEPT !.open = FALSE] /\ \A g \in File : g # f => Mem(g)' = Mem(g)
    BY DEF Mem, TypeOK
  <1>2. Mem(f) \in Staging /\ \A g \in File : Mem(g) \in Staging
    BY DEF Mem, TypeOK
  <1>3. Mem(f)' \in Staging /\ Mem(f)'.open = FALSE
    BY <1>1, <1>2 DEF Staging
  <1>4. /\ Mem(f)'.staged = Mem(f).staged /\ Mem(f)'.meta = Mem(f).meta
        /\ Mem(f)'.closed = Mem(f).closed /\ Mem(f)'.importing = Mem(f).importing
        /\ Mem(f)'.imported = Mem(f).imported /\ Mem(f)'.orphan = Mem(f).orphan
        /\ Mem(f)'.name = Mem(f).name /\ Mem(f)'.data = Mem(f).data
    BY <1>1, <1>2 DEF Staging
  <1>5. file' \in [File -> Staging]
    BY <1>1, <1>2, <1>3 DEF TypeOK, Mem
  <1>6. /\ Staged' = Staged /\ Metas' = Metas /\ Closed' = Closed /\ Taken' = Taken
        /\ Moved' = Moved /\ Orphans' = Orphans /\ Used' = Used
    BY <1>1, <1>4, SetsFollow, Zenon
  <1>7. Opened' = Opened \ {f}
    <2>1. \A g \in File : g # f => (g \in Opened' <=> g \in Opened)
      BY <1>1, Zenon DEF Opened
    <2>2. f \notin Opened'
      BY <1>3, Zenon DEF Opened
    <2>3. Opened' \subseteq File /\ Opened \subseteq File
      BY DEF Opened
    <2> QED
      BY <2>1, <2>2, <2>3
  <1> QED
    BY <1>1, <1>4, <1>5, <1>6, <1>7, Zenon DEF NameOf

\* Release: the handle goes, and it marks the record of its own file.
LEMMA ChangeClosed ==
  ASSUME TypeOK, NEW f \in File,
         file' = [[file EXCEPT ![f].open = FALSE] EXCEPT ![f].closed = TRUE]
  PROVE  /\ file' \in [File -> Staging]
         /\ Opened' = Opened \ {f}
         /\ Closed' = Closed \cup {f}
         /\ Staged' = Staged /\ Metas' = Metas /\ Taken' = Taken /\ Moved' = Moved
         /\ Orphans' = Orphans /\ Used' = Used
         /\ \A g \in File : NameOf(g)' = NameOf(g) /\ Mem(g)'.data = Mem(g).data
         /\ \A g \in File : g # f => Mem(g)' = Mem(g)
  <1>1. Mem(f)' = [Mem(f) EXCEPT !.open = FALSE, !.closed = TRUE] /\ \A g \in File : g # f => Mem(g)' = Mem(g)
    BY DEF Mem, TypeOK
  <1>2. Mem(f) \in Staging /\ \A g \in File : Mem(g) \in Staging
    BY DEF Mem, TypeOK
  <1>3. Mem(f)' \in Staging /\ Mem(f)'.open = FALSE /\ Mem(f)'.closed = TRUE
    BY <1>1, <1>2 DEF Staging
  <1>4. /\ Mem(f)'.staged = Mem(f).staged /\ Mem(f)'.meta = Mem(f).meta
        /\ Mem(f)'.importing = Mem(f).importing /\ Mem(f)'.imported = Mem(f).imported
        /\ Mem(f)'.orphan = Mem(f).orphan /\ Mem(f)'.name = Mem(f).name
        /\ Mem(f)'.data = Mem(f).data
    BY <1>1, <1>2 DEF Staging
  <1>5. file' \in [File -> Staging]
    BY <1>1, <1>2, <1>3 DEF TypeOK, Mem
  <1>6. /\ Staged' = Staged /\ Metas' = Metas /\ Taken' = Taken /\ Moved' = Moved
        /\ Orphans' = Orphans /\ Used' = Used
    BY <1>1, <1>4, SetsFollow, Zenon
  <1>7. Opened' = Opened \ {f}
    <2>1. \A g \in File : g # f => (g \in Opened' <=> g \in Opened)
      BY <1>1, Zenon DEF Opened
    <2>2. f \notin Opened'
      BY <1>3, Zenon DEF Opened
    <2>3. Opened' \subseteq File /\ Opened \subseteq File
      BY DEF Opened
    <2> QED
      BY <2>1, <2>2, <2>3
  <1>8. Closed' = Closed \cup {f}
    <2>1. \A g \in File : g # f => (g \in Closed' <=> g \in Closed)
      BY <1>1, Zenon DEF Closed
    <2>2. f \in Closed'
      BY <1>3, Zenon DEF Closed
    <2>3. Closed' \subseteq File /\ Closed \subseteq File
      BY DEF Closed
    <2> QED
      BY <2>1, <2>2, <2>3
  <1> QED
    BY <1>1, <1>4, <1>5, <1>6, <1>7, <1>8, Zenon DEF NameOf

\* A record is marked.
LEMMA ChangeMarked ==
  ASSUME TypeOK, NEW f \in File,
         file' = [file EXCEPT ![f].closed = TRUE]
  PROVE  /\ file' \in [File -> Staging]
         /\ Closed' = Closed \cup {f}
         /\ Opened' = Opened /\ Staged' = Staged /\ Metas' = Metas /\ Taken' = Taken /\ Moved' = Moved
         /\ Orphans' = Orphans /\ Used' = Used
         /\ \A g \in File : NameOf(g)' = NameOf(g) /\ Mem(g)'.data = Mem(g).data
         /\ \A g \in File : g # f => Mem(g)' = Mem(g)
  <1>1. Mem(f)' = [Mem(f) EXCEPT !.closed = TRUE] /\ \A g \in File : g # f => Mem(g)' = Mem(g)
    BY DEF Mem, TypeOK
  <1>2. Mem(f) \in Staging /\ \A g \in File : Mem(g) \in Staging
    BY DEF Mem, TypeOK
  <1>3. Mem(f)' \in Staging /\ Mem(f)'.closed = TRUE
    BY <1>1, <1>2 DEF Staging
  <1>4. /\ Mem(f)'.open = Mem(f).open
        /\ Mem(f)'.staged = Mem(f).staged /\ Mem(f)'.meta = Mem(f).meta
        /\ Mem(f)'.importing = Mem(f).importing /\ Mem(f)'.imported = Mem(f).imported
        /\ Mem(f)'.orphan = Mem(f).orphan /\ Mem(f)'.name = Mem(f).name
        /\ Mem(f)'.data = Mem(f).data
    BY <1>1, <1>2 DEF Staging
  <1>5. file' \in [File -> Staging]
    BY <1>1, <1>2, <1>3 DEF TypeOK, Mem
  <1>6. /\ Opened' = Opened /\ Staged' = Staged /\ Metas' = Metas /\ Taken' = Taken /\ Moved' = Moved
        /\ Orphans' = Orphans /\ Used' = Used
    BY <1>1, <1>4, SetsFollow, Zenon
  <1>7. Closed' = Closed \cup {f}
    <2>1. \A g \in File : g # f => (g \in Closed' <=> g \in Closed)
      BY <1>1, Zenon DEF Closed
    <2>2. f \in Closed'
      BY <1>3, Zenon DEF Closed
    <2>3. Closed' \subseteq File /\ Closed \subseteq File
      BY DEF Closed
    <2> QED
      BY <2>1, <2>2, <2>3
  <1> QED
    BY <1>1, <1>4, <1>5, <1>6, <1>7, Zenon DEF NameOf

\* Unlink: the file is an orphan.
LEMMA ChangeOrphan ==
  ASSUME TypeOK, NEW f \in File,
         file' = [file EXCEPT ![f] = Orphan(@)]
  PROVE  /\ file' \in [File -> Staging]
         /\ Orphans' = Orphans \cup {f}
         /\ Staged' = Staged \ {f}
         /\ Metas' = Metas \ {f}
         /\ Opened' = Opened /\ Closed' = Closed /\ Taken' = Taken /\ Moved' = Moved
         /\ Used' = Used
         /\ \A g \in File : NameOf(g)' = NameOf(g) /\ Mem(g)'.data = Mem(g).data
         /\ \A g \in File : g # f => Mem(g)' = Mem(g)
  <1>1. Mem(f)' = [Mem(f) EXCEPT !.orphan = TRUE, !.staged = FALSE, !.meta = FALSE] /\ \A g \in File : g # f => Mem(g)' = Mem(g)
    BY DEF Mem, TypeOK, Orphan
  <1>2. Mem(f) \in Staging /\ \A g \in File : Mem(g) \in Staging
    BY DEF Mem, TypeOK
  <1>3. Mem(f)' \in Staging /\ Mem(f)'.orphan = TRUE /\ Mem(f)'.staged = FALSE /\ Mem(f)'.meta = FALSE
    BY <1>1, <1>2 DEF Staging
  <1>4. /\ Mem(f)'.open = Mem(f).open /\ Mem(f)'.closed = Mem(f).closed
        /\ Mem(f)'.importing = Mem(f).importing /\ Mem(f)'.imported = Mem(f).imported
        /\ Mem(f)'.name = Mem(f).name /\ Mem(f)'.data = Mem(f).data
    BY <1>1, <1>2 DEF Staging
  <1>5. file' \in [File -> Staging]
    BY <1>1, <1>2, <1>3 DEF TypeOK, Mem
  <1>6. /\ Opened' = Opened /\ Closed' = Closed /\ Taken' = Taken /\ Moved' = Moved
        /\ Used' = Used
    BY <1>1, <1>4, SetsFollow, Zenon
  <1>7. Orphans' = Orphans \cup {f}
    <2>1. \A g \in File : g # f => (g \in Orphans' <=> g \in Orphans)
      BY <1>1, Zenon DEF Orphans
    <2>2. f \in Orphans'
      BY <1>3, Zenon DEF Orphans
    <2>3. Orphans' \subseteq File /\ Orphans \subseteq File
      BY DEF Orphans
    <2> QED
      BY <2>1, <2>2, <2>3
  <1>8. Staged' = Staged \ {f}
    <2>1. \A g \in File : g # f => (g \in Staged' <=> g \in Staged)
      BY <1>1, Zenon DEF Staged
    <2>2. f \notin Staged'
      BY <1>3, Zenon DEF Staged
    <2>3. Staged' \subseteq File /\ Staged \subseteq File
      BY DEF Staged
    <2> QED
      BY <2>1, <2>2, <2>3
  <1>9. Metas' = Metas \ {f}
    <2>1. \A g \in File : g # f => (g \in Metas' <=> g \in Metas)
      BY <1>1, Zenon DEF Metas
    <2>2. f \notin Metas'
      BY <1>3, Zenon DEF Metas
    <2>3. Metas' \subseteq File /\ Metas \subseteq File
      BY DEF Metas
    <2> QED
      BY <2>1, <2>2, <2>3
  <1> QED
    BY <1>1, <1>4, <1>5, <1>6, <1>7, <1>8, <1>9, Zenon DEF NameOf

\* Clean: the staging file goes, its content is in the vault.
LEMMA ChangeMoved ==
  ASSUME TypeOK, NEW f \in File,
         file' = [file EXCEPT ![f].staged = FALSE, ![f].imported = TRUE]
  PROVE  /\ file' \in [File -> Staging]
         /\ Staged' = Staged \ {f}
         /\ Moved' = Moved \cup {f}
         /\ Opened' = Opened /\ Metas' = Metas /\ Closed' = Closed /\ Taken' = Taken
         /\ Orphans' = Orphans /\ Used' = Used
         /\ \A g \in File : NameOf(g)' = NameOf(g) /\ Mem(g)'.data = Mem(g).data
         /\ \A g \in File : g # f => Mem(g)' = Mem(g)
  <1>1. Mem(f)' = [Mem(f) EXCEPT !.staged = FALSE, !.imported = TRUE] /\ \A g \in File : g # f => Mem(g)' = Mem(g)
    BY DEF Mem, TypeOK
  <1>2. Mem(f) \in Staging /\ \A g \in File : Mem(g) \in Staging
    BY DEF Mem, TypeOK
  <1>3. Mem(f)' \in Staging /\ Mem(f)'.staged = FALSE /\ Mem(f)'.imported = TRUE
    BY <1>1, <1>2 DEF Staging
  <1>4. /\ Mem(f)'.open = Mem(f).open /\ Mem(f)'.meta = Mem(f).meta
        /\ Mem(f)'.closed = Mem(f).closed /\ Mem(f)'.importing = Mem(f).importing
        /\ Mem(f)'.orphan = Mem(f).orphan /\ Mem(f)'.name = Mem(f).name
        /\ Mem(f)'.data = Mem(f).data
    BY <1>1, <1>2 DEF Staging
  <1>5. file' \in [File -> Staging]
    BY <1>1, <1>2, <1>3 DEF TypeOK, Mem
  <1>6. /\ Opened' = Opened /\ Metas' = Metas /\ Closed' = Closed /\ Taken' = Taken
        /\ Orphans' = Orphans /\ Used' = Used
    BY <1>1, <1>4, SetsFollow, Zenon
  <1>7. Staged' = Staged \ {f}
    <2>1. \A g \in File : g # f => (g \in Staged' <=> g \in Staged)
      BY <1>1, Zenon DEF Staged
    <2>2. f \notin Staged'
      BY <1>3, Zenon DEF Staged
    <2>3. Staged' \subseteq File /\ Staged \subseteq File
      BY DEF Staged
    <2> QED
      BY <2>1, <2>2, <2>3
  <1>8. Moved' = Moved \cup {f}
    <2>1. \A g \in File : g # f => (g \in Moved' <=> g \in Moved)
      BY <1>1, Zenon DEF Moved
    <2>2. f \in Moved'
      BY <1>3, Zenon DEF Moved
    <2>3. Moved' \subseteq File /\ Moved \subseteq File
      BY DEF Moved
    <2> QED
      BY <2>1, <2>2, <2>3
  <1> QED
    BY <1>1, <1>4, <1>5, <1>6, <1>7, <1>8, Zenon DEF NameOf

\* A handle of its own, and a new record: Create, OpenWrite.
LEMMA RegisterSays ==
  ASSUME TypeOK, NEW n \in Name, NEW f \in File, Register(n, f)
  PROVE  /\ file' \in [File -> Staging] /\ pending' \in [Name -> File \cup {None}]
         /\ f \notin Used /\ Used' = Used \cup {f} /\ Opened' = Opened \cup {f}
         /\ Staged' = Staged \cup {f} /\ Metas' = Metas \cup {f} /\ Closed' = Closed
         /\ Taken' = Taken /\ Moved' = Moved /\ Orphans' = Orphans
         /\ f \notin Closed /\ f \notin Moved /\ f \notin Taken /\ f \notin Orphans
         /\ NameOf(f)' = n /\ \A g \in File : g # f => Mem(g)' = Mem(g)
         /\ pending' = [pending EXCEPT ![n] = f]
  <1> DEFINE m == [Unused EXCEPT !.name = n, !.open = TRUE, !.staged = TRUE, !.meta = TRUE]
  <1>1. /\ Mem(f) = Unused /\ file' = [file EXCEPT ![f] = m]
        /\ pending' = [pending EXCEPT ![n] = f]
    BY DEF Register
  <1>2. Unused \in Staging /\ m \in Staging
    <2>1. 0 \in 0 .. MaxWrites
      BY FuseAssumption
    <2> QED
      BY <2>1 DEF Unused, Staging
  <1>3. /\ m.name = n /\ m.open = TRUE /\ m.staged = TRUE /\ m.meta = TRUE
        /\ m.closed = FALSE /\ m.orphan = FALSE /\ m.importing = FALSE /\ m.imported = FALSE
    BY DEF Unused
  <1>4. /\ Mem(f).name = None /\ Mem(f).open = FALSE /\ Mem(f).staged = FALSE /\ Mem(f).meta = FALSE
        /\ Mem(f).closed = FALSE /\ Mem(f).orphan = FALSE /\ Mem(f).importing = FALSE
        /\ Mem(f).imported = FALSE
    BY <1>1 DEF Unused
  <1> HIDE DEF m
  <1>5. Mem(f)' = m /\ \A g \in File : g # f => Mem(g)' = Mem(g)
    BY <1>1 DEF Mem, TypeOK
  <1>6. file' \in [File -> Staging]
    BY <1>1, <1>2 DEF TypeOK
  <1>7. /\ Used' \subseteq File /\ Opened' \subseteq File /\ Staged' \subseteq File
        /\ Metas' \subseteq File /\ Closed' \subseteq File /\ Taken' \subseteq File
        /\ Moved' \subseteq File /\ Orphans' \subseteq File
        /\ Used \subseteq File /\ Opened \subseteq File /\ Staged \subseteq File
        /\ Metas \subseteq File /\ Closed \subseteq File /\ Taken \subseteq File
        /\ Moved \subseteq File /\ Orphans \subseteq File
    BY DEF Opened, Staged, Metas, Closed, Taken, Moved, Orphans, Used
  <1>8. \A g \in File : g # f =>
          /\ (g \in Used' <=> g \in Used) /\ (g \in Opened' <=> g \in Opened)
          /\ (g \in Staged' <=> g \in Staged) /\ (g \in Metas' <=> g \in Metas)
          /\ (g \in Closed' <=> g \in Closed) /\ (g \in Taken' <=> g \in Taken)
          /\ (g \in Moved' <=> g \in Moved) /\ (g \in Orphans' <=> g \in Orphans)
    BY <1>5, Zenon DEF Opened, Staged, Metas, Closed, Taken, Moved, Orphans, Used
  <1>9. /\ f \notin Used /\ f \notin Opened /\ f \notin Staged /\ f \notin Metas
        /\ f \notin Closed /\ f \notin Taken /\ f \notin Moved /\ f \notin Orphans
    BY <1>4, Zenon DEF Opened, Staged, Metas, Closed, Taken, Moved, Orphans, Used
  <1>10. n # None
    BY FuseAssumption
  <1>11. /\ f \in Used' /\ f \in Opened' /\ f \in Staged' /\ f \in Metas'
    BY <1>3, <1>5, <1>10, Zenon DEF Opened, Staged, Metas, Used
  <1>12. f \notin Closed' /\ f \notin Taken' /\ f \notin Moved' /\ f \notin Orphans'
    BY <1>3, <1>5, Zenon DEF Closed, Taken, Moved, Orphans
  <1>13. /\ Used' = Used \cup {f} /\ Opened' = Opened \cup {f}
         /\ Staged' = Staged \cup {f} /\ Metas' = Metas \cup {f}
    BY <1>7, <1>8, <1>9, <1>11
  <1>14. Closed' = Closed /\ Taken' = Taken /\ Moved' = Moved /\ Orphans' = Orphans
    BY <1>7, <1>8, <1>9, <1>12
  <1>15. NameOf(f)' = n
    BY <1>3, <1>5 DEF NameOf
  <1>16. pending' \in [Name -> File \cup {None}]
    BY <1>1 DEF TypeOK
  <1> QED
    BY <1>1, <1>5, <1>6, <1>9, <1>13, <1>14, <1>15, <1>16

\* A kill leaves of the maps nothing, and of the spool what has a .meta.
LEMMA CrashSays ==
  ASSUME TypeOK, Crash
  PROVE  /\ file' \in [File -> Staging]
         /\ Opened' = {} /\ Closed' = {} /\ Taken' = {} /\ Metas' \subseteq Staged \cap Metas
         /\ Staged' \subseteq Staged /\ Moved' = Moved /\ Orphans' = Orphans /\ Used' = Used
         /\ \A g \in File : NameOf(g)' = NameOf(g) /\ Mem(g)'.data = Mem(g).data
         /\ \A g \in File : Mem(g) = Unused => Mem(g)' = Unused
         /\ "old" \notin Races => /\ owed \cap Staged \subseteq Staged'
                                 /\ owed \cap Staged \cap Metas \subseteq Metas'
         /\ pending' = [n \in Name |-> None] /\ reading' = [r \in Reader |-> None]
         /\ pc' = [t \in Importer |-> "idle"] /\ job' = [t \in Importer |-> NoJob]
  <1>1. PICK tmps \in SUBSET Aged, metas \in SUBSET Aged :
          file' = [f \in File |-> [Mem(f) EXCEPT !.open = FALSE, !.closed = FALSE,
                                      !.importing = FALSE,
                                      !.staged = @ /\ f \notin tmps,
                                      !.meta = InSpool(f) /\ f \notin metas]]
    BY DEF Crash
  <1>2. \A g \in File :
          /\ Mem(g)' \in Staging
          /\ Mem(g)'.open = FALSE /\ Mem(g)'.closed = FALSE /\ Mem(g)'.importing = FALSE
          /\ Mem(g)'.staged = (Mem(g).staged /\ g \notin tmps)
          /\ Mem(g)'.meta = (InSpool(g) /\ g \notin metas)
          /\ Mem(g)'.imported = Mem(g).imported /\ Mem(g)'.orphan = Mem(g).orphan
          /\ Mem(g)'.name = Mem(g).name /\ Mem(g)'.data = Mem(g).data
    <2> TAKE g \in File
    <2> DEFINE b == Mem(g).staged /\ g \notin tmps
               c == InSpool(g) /\ g \notin metas
    <2>1. Mem(g)' = [Mem(g) EXCEPT !.open = FALSE, !.closed = FALSE,
                                   !.importing = FALSE, !.staged = b, !.meta = c]
      BY <1>1 DEF Mem
    <2>2. Mem(g) \in Staging /\ b \in BOOLEAN /\ c \in BOOLEAN
      BY DEF Mem, TypeOK, InSpool, Staging
    <2> HIDE DEF b, c
    <2>3. /\ Mem(g)' \in Staging
          /\ Mem(g)'.open = FALSE /\ Mem(g)'.closed = FALSE /\ Mem(g)'.importing = FALSE
          /\ Mem(g)'.meta = c /\ Mem(g)'.staged = b
          /\ Mem(g)'.imported = Mem(g).imported /\ Mem(g)'.orphan = Mem(g).orphan
          /\ Mem(g)'.name = Mem(g).name /\ Mem(g)'.data = Mem(g).data
      BY <2>1, <2>2 DEF Staging
    <2> QED
      BY <2>3 DEF b, c
  <1>3. file' \in [File -> Staging]
    <2>1. DOMAIN file' = File /\ file' = [f \in File |-> file'[f]]
      BY <1>1
    <2> QED
      BY <2>1, <1>2 DEF Mem
  <1>4. Moved' = Moved /\ Orphans' = Orphans /\ Used' = Used
    BY <1>2, SetsFollow, Zenon
  <1>5. \A g \in File : /\ g \notin Opened' /\ g \notin Closed' /\ g \notin Taken'
                       /\ (g \in Staged' <=> g \in Staged /\ g \notin tmps)
                       /\ (g \in Metas' <=> g \in Staged /\ g \in Metas /\ g \notin metas)
    BY <1>2, Zenon DEF Opened, Closed, Taken, Staged, Metas, InSpool
  <1>6. /\ Opened' \subseteq File /\ Closed' \subseteq File /\ Taken' \subseteq File
        /\ Staged' \subseteq File /\ Metas' \subseteq File
        /\ Staged \subseteq File /\ Metas \subseteq File
    BY DEF Opened, Closed, Taken, Staged, Metas
  <1>7. /\ Opened' = {} /\ Closed' = {} /\ Taken' = {}
        /\ Metas' \subseteq Staged \cap Metas /\ Staged' \subseteq Staged
    BY <1>5, <1>6
  <1>8. ASSUME "old" \notin Races
        PROVE  owed \cap Staged \subseteq Staged' /\ owed \cap Staged \cap Metas \subseteq Metas'
    <2>1. \A g \in owed \cap Staged : g \notin tmps /\ g \notin metas
      BY <1>1, <1>8 DEF Aged
    <2> QED
      BY <2>1, <1>5, <1>6
  <1>9. ASSUME NEW g \in File, Mem(g) = Unused
        PROVE  Mem(g)' = Unused
    <2> DEFINE q == Mem(g)'
    <2>1. q \in Staging
      BY <1>2
    <2>2. /\ ~Mem(g).staged /\ ~InSpool(g) /\ Mem(g).imported = FALSE /\ Mem(g).orphan = FALSE
          /\ Mem(g).name = None /\ Mem(g).data = 0
      BY <1>9 DEF Unused, InSpool
    <2>3. /\ q.open = FALSE /\ q.closed = FALSE /\ q.importing = FALSE /\ q.meta = FALSE
          /\ q.staged = FALSE /\ q.imported = FALSE /\ q.orphan = FALSE
          /\ q.name = None /\ q.data = 0
      BY <1>2, <2>2
    <2> HIDE DEF q
    <2>4. q = Unused
      BY <2>1, <2>3 DEF Unused, Staging
    <2> QED
      BY <2>4 DEF q
  <1> QED
    BY <1>2, <1>3, <1>4, <1>7, <1>8, <1>9, Zenon DEF NameOf, Crash

\* dropPending: the record of the name goes, and the .meta of its file.
LEMMA DropRecordSays ==
  ASSUME TypeOK, NEW n \in Name, DropRecord(n, file)
  PROVE  /\ file' \in [File -> Staging] /\ pending' \in [Name -> File \cup {None}]
         /\ pending' = [pending EXCEPT ![n] = None]
         /\ Metas' = Metas \ {pending[n]}
         /\ Opened' = Opened /\ Staged' = Staged /\ Closed' = Closed /\ Taken' = Taken
         /\ Moved' = Moved /\ Orphans' = Orphans /\ Used' = Used
         /\ \A g \in File : NameOf(g)' = NameOf(g) /\ Mem(g)'.data = Mem(g).data
         /\ \A g \in File : g # pending[n] => Mem(g)' = Mem(g)
  <1>1. /\ pending' = [pending EXCEPT ![n] = None]
        /\ pending' \in [Name -> File \cup {None}] /\ pending[n] \in File \cup {None}
    BY DEF DropRecord, TypeOK
  <1>2. CASE pending[n] = None
    <2>1. file' = file
      BY <1>2 DEF DropRecord
    <2>2. \A g \in File : Mem(g)' = Mem(g)
      BY <2>1 DEF Mem
    <2>3. /\ Metas' = Metas
          /\ Opened' = Opened /\ Staged' = Staged /\ Closed' = Closed /\ Taken' = Taken
          /\ Moved' = Moved /\ Orphans' = Orphans /\ Used' = Used
      BY <2>2, SetsFollow, Zenon
    <2>4. None \notin Metas
      BY FuseAssumption DEF Metas
    <2>5. Metas' = Metas \ {pending[n]}
      BY <2>3, <2>4, <1>2
    <2>6. \A g \in File : NameOf(g)' = NameOf(g) /\ Mem(g)'.data = Mem(g).data
      BY <2>2, Zenon DEF NameOf
    <2> QED
      BY <1>1, <2>1, <2>2, <2>3, <2>5, <2>6 DEF TypeOK
  <1>3. CASE pending[n] # None
    <2>1. pending[n] \in File /\ file' = [file EXCEPT ![pending[n]].meta = FALSE]
      BY <1>1, <1>3 DEF DropRecord
    <2> QED
      BY <1>1, <2>1, ChangeMeta
  <1> QED
    BY <1>2, <1>3

----------------------------------------------------------------------------
(* Importers.                                                              *)

\* Only t takes a step.
Others(t) == \A u \in Importer : u # t => pc'[u] = pc[u] /\ job'[u] = job[u]

\* The next step of t, its request as it was.
LEMMA GotoSays ==
  ASSUME TypeOK, NEW t \in Importer, NEW s \in Step, Goto(t, s), UNCHANGED job
  PROVE  /\ pc' \in [Importer -> Step] /\ job' \in [Importer -> Job] /\ Others(t)
         /\ pc'[t] = s /\ job'[t] = job[t]
  BY DEF TypeOK, Goto, Others

\* What t has of its request but the file at hand.
Rest(t) == <<job[t].op, job[t].todo, job[t].name, job[t].to>>

\* The file at hand is put down, the rest of the request stays.
LEMMA NextOneSays ==
  ASSUME TypeOK, NEW t \in Importer, NextOne(t)
  PROVE  /\ pc' \in [Importer -> Step] /\ job' \in [Importer -> Job] /\ Others(t)
         /\ pc'[t] = "next" /\ Rest(t)' = Rest(t)
  <1>1. /\ pc' = [pc EXCEPT ![t] = "next"]
        /\ job' = [job EXCEPT ![t] = [[job[t] EXCEPT !.at = None] EXCEPT !.file = None]]
    BY DEF NextOne, Goto, TypeOK
  <1>2. job[t] \in Job /\ "next" \in Step
    BY DEF TypeOK, Step
  <1>3. /\ job'[t] \in Job /\ job'[t].op = job[t].op /\ job'[t].todo = job[t].todo
        /\ job'[t].name = job[t].name /\ job'[t].to = job[t].to
    BY <1>1, <1>2 DEF TypeOK, Job
  <1>4. Others(t)
    BY <1>1 DEF Others, TypeOK
  <1>5. pc' \in [Importer -> Step] /\ job' \in [Importer -> Job] /\ pc'[t] = "next"
    BY <1>1, <1>2, <1>3 DEF TypeOK
  <1> QED
    BY <1>3, <1>4, <1>5, Zenon DEF Rest

\* An importer that has no request.
LEMMA NoJobSays ==
  /\ NoJob \in Job /\ NoJob.op = "tick" /\ NoJob.todo = {}
  BY DEF NoJob, Job, Op

\* The request ends.
LEMMA ReturnSays ==
  ASSUME TypeOK, NEW t \in Importer, Return(t)
  PROVE  /\ pc' \in [Importer -> Step] /\ job' \in [Importer -> Job] /\ Others(t)
         /\ pc'[t] = "idle" /\ job'[t] = NoJob
  BY NoJobSays DEF TypeOK, Return, Goto, Others, Step

\* What a snapshot of names is.
LEMMA SnapshotSays ==
  ASSUME TypeOK, NEW ns \in SUBSET Name
  PROVE  /\ Snapshot(ns) \in SUBSET (Name \X File)
         /\ \A x : x \in Snapshot(ns) <=> \E n \in ns : /\ x = <<n, pending[n]>>
                                                       /\ pending[n] # None
  BY DEF Snapshot, TypeOK

\* A request begins with its snapshot, and nothing else changes.
LEMMA BeginSays ==
  ASSUME TypeOK, NEW t \in Importer, NEW op \in Op, NEW ns \in SUBSET Name,
         NEW n \in Name \cup {None}, NEW to \in Name \cup {None}, Begin(t, op, ns, n, to)
  PROVE  /\ pc' \in [Importer -> Step] /\ job' \in [Importer -> Job] /\ Others(t)
         /\ pc[t] = "idle" /\ pc'[t] = "next"
         /\ job'[t].op = op /\ job'[t].todo = Snapshot(ns)
         /\ job'[t].name = n /\ job'[t].to = to
         /\ UNCHANGED <<file, pending, entries, reading, owed>>
  <1> DEFINE j == [NoJob EXCEPT !.op = op, !.todo = Snapshot(ns), !.name = n, !.to = to]
  <1>1. /\ pc' = [pc EXCEPT ![t] = "next"] /\ job' = [job EXCEPT ![t] = j]
    BY DEF Begin, Goto
  <1>2. NoJob \in Job /\ Snapshot(ns) \in SUBSET (Name \X File)
    BY NoJobSays, SnapshotSays
  <1>3. j \in Job
    BY <1>2 DEF Job
  <1>4. j.op = op /\ j.todo = Snapshot(ns) /\ j.name = n /\ j.to = to
    BY <1>2 DEF Job
  <1> HIDE DEF j
  <1>5. pc[t] = "idle" /\ UNCHANGED <<file, pending, entries, reading, owed>>
    BY DEF Begin
  <1>6. /\ pc' \in [Importer -> Step] /\ job' \in [Importer -> Job] /\ Others(t)
        /\ pc'[t] = "next" /\ job'[t] = j
    BY <1>1, <1>3 DEF TypeOK, Step, Others
  <1> QED
    BY <1>4, <1>5, <1>6

\* A request that gives a file up goes on to drop its record if it is forced.
LEMMA RefusedSays ==
  ASSUME TypeOK, NEW t \in Importer, Refused(t)
  PROVE  /\ pc' \in [Importer -> Step] /\ job' \in [Importer -> Job] /\ Others(t)
         /\ Rest(t)' = Rest(t)
         /\ \/ Forcing(t) /\ pc'[t] = "drop" /\ job'[t] = job[t]
            \/ ~Forcing(t) /\ pc'[t] = "next"
  <1>1. CASE Forcing(t)
    <2>1. Goto(t, "drop") /\ UNCHANGED job /\ "drop" \in Step
      BY <1>1 DEF Refused, Step
    <2> QED
      BY <1>1, <2>1, GotoSays DEF Rest
  <1>2. CASE ~Forcing(t)
    <2>1. NextOne(t)
      BY <1>2 DEF Refused
    <2> QED
      BY <1>2, <2>1, NextOneSays
  <1> QED
    BY <1>1, <1>2

\* What Pick takes of the snapshot, and where it goes with it.
LEMMA PickSays ==
  ASSUME TypeOK, NEW t \in Importer, Pick(t)
  PROVE  \E x \in job[t].todo :
           /\ pc' \in [Importer -> Step] /\ job' \in [Importer -> Job] /\ Others(t)
           /\ pc[t] = "next" /\ x \in Name \X File
           /\ job'[t].op = job[t].op /\ job'[t].todo = job[t].todo \ {x}
           /\ job'[t].name = job[t].name /\ job'[t].to = job[t].to
           /\ \/ /\ job'[t].at = x[1] /\ job'[t].file = x[2]
                 /\ \/ pc'[t] = "claim" /\ Ready(job[t].op, x[2])
                    \/ pc'[t] = "drop" /\ job[t].op = "settle" /\ ~Ready(job[t].op, x[2])
              \/ pc'[t] = "next" /\ job[t].op # "settle" /\ ~Ready(job[t].op, x[2])
           /\ UNCHANGED <<file, pending, entries, reading, owed>>
  <1> DEFINE rest(x) == [job EXCEPT ![t].todo = @ \ {x}]
             take(x) == [rest(x) EXCEPT ![t].at = x[1], ![t].file = x[2]]
  <1>1. PICK x \in job[t].todo :
          \/ Ready(job[t].op, x[2]) /\ Goto(t, "claim") /\ job' = take(x)
          \/ /\ ~Ready(job[t].op, x[2])
             /\ \/ job[t].op = "settle" /\ Goto(t, "drop") /\ job' = take(x)
                \/ job[t].op # "settle" /\ job' = rest(x) /\ UNCHANGED pc
    BY DEF Pick
  <1>2. /\ job[t] \in Job /\ x \in Name \X File /\ pc[t] = "next"
        /\ UNCHANGED <<file, pending, entries, reading, owed>>
        /\ "claim" \in Step /\ "drop" \in Step
    BY DEF TypeOK, Job, Pick, Step
  <1>3. /\ rest(x)[t] \in Job /\ rest(x)[t].op = job[t].op
        /\ rest(x)[t].todo = job[t].todo \ {x}
        /\ rest(x)[t].name = job[t].name /\ rest(x)[t].to = job[t].to
        /\ rest(x) \in [Importer -> Job]
        /\ \A u \in Importer : u # t => rest(x)[u] = job[u]
    <2>1. rest(x) = [job EXCEPT ![t] = [job[t] EXCEPT !.todo = job[t].todo \ {x}]]
      BY DEF TypeOK
    <2>2. [job[t] EXCEPT !.todo = job[t].todo \ {x}] \in Job
      BY <1>2 DEF Job
    <2> QED
      BY <2>1, <2>2, <1>2 DEF TypeOK, Job
  <1>4. /\ take(x)[t] \in Job /\ take(x)[t].op = job[t].op
        /\ take(x)[t].todo = job[t].todo \ {x}
        /\ take(x)[t].name = job[t].name /\ take(x)[t].to = job[t].to
        /\ take(x)[t].at = x[1] /\ take(x)[t].file = x[2]
        /\ take(x) \in [Importer -> Job]
        /\ \A u \in Importer : u # t => take(x)[u] = job[u]
    <2> DEFINE r == rest(x)
               a == [r EXCEPT ![t].at = x[1]]
    <2>1. r[t] \in Job /\ r \in [Importer -> Job] /\ x[1] \in Name /\ x[2] \in File
      BY <1>2, <1>3
    <2>2. take(x) = [a EXCEPT ![t].file = x[2]]
      OBVIOUS
    <2> HIDE DEF r
    <2>3. /\ a[t] \in Job /\ a[t].op = r[t].op /\ a[t].todo = r[t].todo /\ a[t].name = r[t].name
          /\ a[t].to = r[t].to /\ a[t].at = x[1] /\ a \in [Importer -> Job]
          /\ \A u \in Importer : u # t => a[u] = r[u]
      BY <2>1 DEF Job
    <2> HIDE DEF a, take
    <2>4. /\ take(x)[t] \in Job /\ take(x)[t].op = a[t].op /\ take(x)[t].todo = a[t].todo
          /\ take(x)[t].name = a[t].name /\ take(x)[t].to = a[t].to
          /\ take(x)[t].at = a[t].at /\ take(x)[t].file = x[2]
          /\ take(x) \in [Importer -> Job]
          /\ \A u \in Importer : u # t => take(x)[u] = a[u]
      BY <2>1, <2>2, <2>3 DEF Job
    <2>5. r = rest(x)
      BY DEF r
    <2> HIDE DEF rest
    <2> QED
      BY <2>3, <2>4, <2>5, <1>3
  <1> HIDE DEF take, rest
  <1>5. CASE Ready(job[t].op, x[2]) /\ Goto(t, "claim") /\ job' = take(x)
    <2>1. pc' \in [Importer -> Step] /\ pc'[t] = "claim" /\ Others(t)
      BY <1>2, <1>4, <1>5 DEF TypeOK, Goto, Others
    <2> QED
      BY <2>1, <1>2, <1>4, <1>5
  <1>6. CASE /\ ~Ready(job[t].op, x[2]) /\ job[t].op = "settle"
             /\ Goto(t, "drop") /\ job' = take(x)
    <2>1. pc' \in [Importer -> Step] /\ pc'[t] = "drop" /\ Others(t)
      BY <1>2, <1>4, <1>6 DEF TypeOK, Goto, Others
    <2> QED
      BY <2>1, <1>2, <1>4, <1>6
  <1>7. CASE /\ ~Ready(job[t].op, x[2]) /\ job[t].op # "settle"
             /\ job' = rest(x) /\ UNCHANGED pc
    <2>1. pc' \in [Importer -> Step] /\ pc'[t] = "next" /\ Others(t)
      BY <1>2, <1>3, <1>7 DEF TypeOK, Others
    <2> QED
      BY <2>1, <1>2, <1>3, <1>7
  <1> QED
    BY <1>1, <1>5, <1>6, <1>7

----------------------------------------------------------------------------
(* Types and names.                                                        *)

\* A staging file keeps its name.
NamesKept == \A g \in File : NameOf(g) # None => NameOf(g)' = NameOf(g)

\* Who takes no step stays fit.
LEMMA FitStays ==
  ASSUME TypeInv, NamesKept, NEW u \in Importer, pc'[u] = pc[u], job'[u] = job[u]
  PROVE  Fit(u)'
  <1>1. Fit(u) /\ job[u] \in Job
    BY DEF TypeInv, TypeOK
  <1>2. AtWork(u)' <=> AtWork(u)
    BY DEF AtWork
  <1>3. \A x \in job[u].todo : NameOf(x[2])' = x[1]
    <2> TAKE x \in job[u].todo
    <2>1. x \in Name \X File /\ NameOf(x[2]) = x[1] /\ x[1] # None
      BY <1>1, FuseAssumption DEF Fit, Job
    <2> QED
      BY <2>1 DEF NamesKept
  <1>4. AtWork(u) => NameOf(job[u].file)' = job[u].at
    BY <1>1, FuseAssumption DEF Fit, NamesKept
  <1> QED
    BY <1>1, <1>2, <1>3, <1>4 DEF Fit

\* A step of t, and a step of none.
LEMMA TypeStep ==
  ASSUME TypeInv, TypeOK', NamesKept, FilesNamed', RecordsNamed',
         NEW t \in Importer, Others(t), Fit(t)'
  PROVE  TypeInv'
  <1>1. ASSUME NEW u \in Importer, u # t
        PROVE  Fit(u)'
    BY <1>1, FitStays DEF Others
  <1>2. \A u \in Importer : Fit(u)'
    BY <1>1
  <1> QED
    BY <1>2 DEF TypeInv

\* A step of a handle keeps the types: the importers stay fit.
LEMMA TypeHandle ==
  ASSUME TypeInv, TypeOK', NamesKept, FilesNamed', RecordsNamed', UNCHANGED <<pc, job>>
  PROVE  TypeInv'
  <1>1. \A u \in Importer : Fit(u)'
    BY FitStays
  <1> QED
    BY <1>1 DEF TypeInv

\* The files stay, and so do their names.
LEMMA SameNames ==
  ASSUME TypeInv, UNCHANGED file
  PROVE  NamesKept /\ FilesNamed'
  BY DEF TypeInv, NamesKept, FilesNamed, NameOf, Mem

\* Only one file changes, one that has its name.
LEMMA OneNamed ==
  ASSUME TypeInv, NEW f, NameOf(f) # None,
         \A g \in File : NameOf(g)' = NameOf(g),
         \A g \in File : g # f => Mem(g)' = Mem(g)
  PROVE  NamesKept /\ FilesNamed'
  <1>1. NamesKept
    BY DEF NamesKept
  <1>2. FilesNamed'
    <2>1. ASSUME NEW g \in File, NameOf(g)' = None
          PROVE  Mem(g)' = Unused
      <3>1. NameOf(g) = None /\ g # f
        BY <2>1
      <3>2. Mem(g) = Unused /\ Mem(g)' = Mem(g)
        BY <3>1 DEF TypeInv, FilesNamed
      <3> QED
        BY <3>2
    <2> QED
      BY <2>1 DEF FilesNamed
  <1> QED
    BY <1>1, <1>2

\* No record is new.
LEMMA RecordsStay ==
  ASSUME TypeInv, NamesKept, \A n \in Name : pending'[n] \in {pending[n], None}
  PROVE  RecordsNamed'
  <1>1. ASSUME NEW n \in Name, pending'[n] # None
        PROVE  file'[pending'[n]].name = n
    <2>1. PICK f \in File : f = pending[n] /\ f = pending'[n]
      BY <1>1 DEF TypeInv, TypeOK
    <2>2. NameOf(f) = n /\ n # None
      BY <1>1, <2>1, FuseAssumption DEF TypeInv, RecordsNamed
    <2>3. NameOf(f)' = n
      BY <2>2 DEF NamesKept
    <2> QED
      BY <2>1, <2>3 DEF NameOf, Mem
  <1> QED
    BY <1>1 DEF RecordsNamed, NameOf, Mem

\* The request of t, with another file at hand or none.
LEMMA FitNext ==
  ASSUME TypeInv, NamesKept, NEW t \in Importer, Rest(t)' = Rest(t),
         \/ pc'[t] = "next"
         \/ AtWork(t) /\ job'[t] = job[t]
  PROVE  Fit(t)'
  <1>1. Fit(t) /\ job[t] \in Job
    BY DEF TypeInv, TypeOK
  <1>2. /\ job'[t].op = job[t].op /\ job'[t].todo = job[t].todo
        /\ job'[t].name = job[t].name /\ job'[t].to = job[t].to
    BY DEF Rest
  <1>3. \A x \in job[t].todo : NameOf(x[2])' = x[1]
    <2> TAKE x \in job[t].todo
    <2>1. x \in Name \X File /\ NameOf(x[2]) = x[1] /\ x[1] # None
      BY <1>1, FuseAssumption DEF Fit, Job
    <2> QED
      BY <2>1 DEF NamesKept
  <1>4. CASE pc'[t] = "next"
    <2>1. ~AtWork(t)'
      BY <1>4 DEF AtWork
    <2> QED
      BY <1>1, <1>2, <1>3, <2>1 DEF Fit
  <1>5. CASE AtWork(t) /\ job'[t] = job[t]
    <2>1. job[t].file \in File /\ job[t].at \in Name /\ NameOf(job[t].file) = job[t].at
      BY <1>1, <1>5 DEF Fit
    <2>2. PICK f \in File : f = job[t].file
      BY <2>1
    <2>3. NameOf(f)' = job[t].at
      BY <2>1, <2>2, FuseAssumption DEF NamesKept
    <2>4. NameOf(job[t].file)' = job[t].at
      BY <2>2, <2>3, <1>5 DEF NameOf, Mem
    <2> QED
      BY <1>1, <1>2, <1>3, <1>5, <2>1, <2>4 DEF Fit
  <1> QED
    BY <1>4, <1>5

\* An importer that has no request is fit.
LEMMA FitIdle ==
  ASSUME NEW t \in Importer, pc'[t] = "idle", job'[t] = NoJob
  PROVE  Fit(t)'
  BY NoJobSays DEF Fit, AtWork

\* A request that begins.
LEMMA FitBegin ==
  ASSUME TypeInv, UNCHANGED <<file, pending>>, NEW t \in Importer, NEW ns \in SUBSET Name,
         job'[t].todo = Snapshot(ns), pc'[t] = "next",
         t = Janitor => job'[t].op = "tick",
         job'[t].op \in {"open", "rename"} => job'[t].name \in Name,
         job'[t].op = "rename" => job'[t].to \in Name
  PROVE  Fit(t)'
  <1>1. \A x \in job'[t].todo : NameOf(x[2])' = x[1]
    <2> TAKE x \in job'[t].todo
    <2>1. PICK n \in ns : x = <<n, pending[n]>> /\ pending[n] # None
      BY SnapshotSays DEF TypeInv
    <2>2. NameOf(pending[n]) = n
      BY <2>1 DEF TypeInv, RecordsNamed
    <2> QED
      BY <2>1, <2>2 DEF NameOf, Mem
  <1>2. ~AtWork(t)'
    BY DEF AtWork
  <1> QED
    BY <1>1, <1>2 DEF Fit

\* What the entries of a name become is a sequence of versions.
LEMMA VersionsSay ==
  /\ \A s \in Seq(Version) : s # <<>> => Tail(s) \in Seq(Version) /\ Head(s) \in Version
  /\ \A s \in Seq(Version), v \in Version : Append(s, v) \in Seq(Version)
  /\ \A s \in Seq(Version) : Displaced(s) \in Seq(Version)
  /\ \A s \in Seq(Version), k \in Nat : SubSeq(s, k + 1, Len(s)) \in Seq(Version)
  /\ \A v \in Version : <<v>> \in Seq(Version)
  <1>1. \A s \in Seq(Version) : s # <<>> => Tail(s) \in Seq(Version) /\ Head(s) \in Version
    OBVIOUS
  <1>2. \A s \in Seq(Version) : Displaced(s) \in Seq(Version)
    BY <1>1 DEF Displaced
  <1>3. \A s \in Seq(Version), k \in Nat : SubSeq(s, k + 1, Len(s)) \in Seq(Version)
    <2> TAKE s \in Seq(Version), k \in Nat
    <2>1. \A i \in (k + 1) .. Len(s) : i \in 1 .. Len(s)
      OBVIOUS
    <2>2. \A i \in (k + 1) .. Len(s) : s[i] \in Version
      BY <2>1
    <2> QED
      BY <2>2, SubSeqProperties
  <1>4. \A s \in Seq(Version), v \in Version : Append(s, v) \in Seq(Version)
    OBVIOUS
  <1>5. \A v \in Version : <<v>> \in Seq(Version)
    OBVIOUS
  <1> QED
    BY <1>1, <1>2, <1>3, <1>4, <1>5

\* Create and OpenWrite give a file its name and the name its record.
LEMMA RegisterNames ==
  ASSUME TypeInv, NEW n \in Name, NEW f \in File, Register(n, f)
  PROVE  NamesKept /\ FilesNamed' /\ RecordsNamed'
  <1>1. /\ f \notin Used /\ NameOf(f)' = n
        /\ \A g \in File : g # f => Mem(g)' = Mem(g)
        /\ pending' = [pending EXCEPT ![n] = f]
    BY RegisterSays DEF TypeInv
  <1>2. NameOf(f) = None /\ n # None
    BY <1>1, FuseAssumption DEF Used, NameOf
  <1>3. NamesKept
    BY <1>1, <1>2 DEF NamesKept, NameOf
  <1>4. FilesNamed'
    BY <1>1, <1>2 DEF FilesNamed, NameOf, TypeInv
  <1>5. ASSUME NEW m \in Name, pending'[m] # None
        PROVE  file'[pending'[m]].name = m
    <2>1. CASE m = n
      BY <2>1, <1>1 DEF NameOf, Mem, TypeInv, TypeOK
    <2>2. CASE m # n
      <3>1. PICK g \in File : g = pending[m] /\ g = pending'[m]
        BY <2>2, <1>1, <1>5 DEF TypeInv, TypeOK
      <3>2. NameOf(g) = m /\ m # None
        BY <1>5, <3>1, FuseAssumption DEF TypeInv, RecordsNamed
      <3>3. NameOf(g)' = m
        BY <3>2, <1>3 DEF NamesKept
      <3> QED
        BY <3>1, <3>3 DEF NameOf, Mem
    <2> QED
      BY <2>1, <2>2
  <1>6. RecordsNamed'
    BY <1>5 DEF RecordsNamed, NameOf, Mem
  <1> QED
    BY <1>3, <1>4, <1>6

\* Create keeps the types.
LEMMA TypeCreate ==
  ASSUME TypeInv, NEW n \in Name, NEW f \in File, Create(n, f)
  PROVE  TypeInv'
  <1>1. Register(n, f) /\ UNCHANGED <<entries, pc, job, reading, owed>>
    BY DEF Create
  <1>2. TypeOK'
    BY <1>1, RegisterSays DEF TypeInv, TypeOK
  <1> QED
    BY <1>1, <1>2, RegisterNames, TypeHandle

\* Write keeps the types.
LEMMA TypeWrite ==
  ASSUME TypeInv, NEW f \in File, Write(f)
  PROVE  TypeInv'
  <1>1. /\ file' = [file EXCEPT ![f].data = @ + 1] /\ Mem(f).data < MaxWrites /\ Mem(f).open
        /\ UNCHANGED <<pending, entries, pc, job, reading, owed>>
    BY DEF Write
  <1>2. /\ file' \in [File -> Staging] /\ \A g \in File : NameOf(g)' = NameOf(g)
        /\ \A g \in File : g # f => Mem(g)' = Mem(g)
    BY <1>1, ChangeData DEF TypeInv
  <1>3. TypeOK'
    BY <1>1, <1>2 DEF TypeInv, TypeOK
  <1>4. NameOf(f) # None
    BY <1>1 DEF TypeInv, FilesNamed, Unused
  <1>5. NamesKept /\ FilesNamed'
    BY <1>2, <1>4, OneNamed
  <1>6. RecordsNamed'
    BY <1>1, <1>5, RecordsStay
  <1> QED
    BY <1>1, <1>3, <1>5, <1>6, TypeHandle

\* A handle that is released may mark the record of another one.
LEMMA TypeRelease ==
  ASSUME TypeInv, NEW f \in File, Release(f)
  PROVE  TypeInv'
  <1> DEFINE p == ReleasedRecord(f)
             g == [file EXCEPT ![f].open = FALSE]
  <1>1. /\ Mem(f).open
        /\ file' = IF p = None THEN g ELSE [g EXCEPT ![p].closed = TRUE]
        /\ owed' = IF Mem(f).orphan THEN owed ELSE (owed \ WrittenOver(NameOf(f))) \cup {f}
        /\ UNCHANGED <<pending, entries, pc, job, reading>>
    BY DEF Release, NameOf
  <1>2. NameOf(f) \in Name
    <2>1. NameOf(f) # None
      BY <1>1 DEF TypeInv, FilesNamed, Unused
    <2> QED
      BY <2>1 DEF TypeInv, TypeOK, Staging, NameOf, Mem
  <1>3. p \in File \cup {None} /\ (p # None => NameOf(p) = NameOf(f))
    BY <1>2 DEF ReleasedRecord, NameOf, TypeInv, TypeOK, RecordsNamed
  <1>4. /\ g \in [File -> Staging] /\ \A h \in File : g[h].name = file[h].name
        /\ \A h \in File : h # f => g[h] = file[h]
    BY DEF TypeInv, TypeOK, Staging
  <1>5. /\ file' \in [File -> Staging] /\ \A h \in File : file'[h].name = file[h].name
        /\ \A h \in File : h # f /\ h # p => file'[h] = file[h]
    <2> HIDE DEF g, p
    <2>1. CASE p = None
      BY <1>1, <1>4, <2>1
    <2>2. CASE p # None
      <3>1. file' = [g EXCEPT ![p].closed = TRUE] /\ p \in File
        BY <1>1, <1>3, <2>2
      <3>2. /\ file'[p] = [g[p] EXCEPT !.closed = TRUE] /\ g[p] \in Staging
            /\ \A h \in File : h # p => file'[h] = g[h]
        BY <3>1, <1>4
      <3>3. file'[p] \in Staging /\ file'[p].name = g[p].name
        BY <3>2 DEF Staging
      <3>4. \A h \in File : file'[h] \in Staging /\ file'[h].name = file[h].name
        BY <3>2, <3>3, <1>4
      <3> QED
        BY <3>1, <3>2, <3>4, <1>4
    <2> QED
      BY <2>1, <2>2
  <1> HIDE DEF g, p
  <1>6. NamesKept
    BY <1>5 DEF NamesKept, NameOf, Mem
  <1>7. FilesNamed'
    <2>1. ASSUME NEW h \in File, NameOf(h)' = None
          PROVE  Mem(h)' = Unused
      <3>1. NameOf(h) = None
        BY <2>1, <1>5 DEF NameOf, Mem
      <3>2. h # f /\ h # p
        BY <3>1, <1>2, <1>3, FuseAssumption
      <3>3. file'[h] = file[h] /\ Mem(h) = Unused
        BY <3>1, <3>2, <1>5 DEF TypeInv, FilesNamed
      <3> QED
        BY <3>3 DEF Mem
    <2> QED
      BY <2>1 DEF FilesNamed
  <1>8. RecordsNamed'
    BY <1>1, <1>6, RecordsStay
  <1>9. TypeOK'
    BY <1>1, <1>5 DEF TypeInv, TypeOK
  <1> QED
    BY <1>1, <1>6, <1>7, <1>8, <1>9, TypeHandle

\* The release of a handle that reads changes one record, or none.
LEMMA ReleaseReadSays ==
  ASSUME TypeInv, NEW r \in Reader, ReleaseRead(r)
  PROVE  /\ reading' \in [Reader -> Name \cup {None}]
         /\ UNCHANGED <<pending, entries, pc, job, owed>>
         /\ \/ UNCHANGED file
            \/ \E p \in File :
                 /\ \E n \in Name : pending[n] = p
                 /\ "read" \in Races \/ p \notin Opened \ Orphans
                 /\ file' = [file EXCEPT ![p].closed = TRUE]
  <1> DEFINE p == pending[reading[r]]
  <1>1. /\ reading[r] \in Name
        /\ "read" \in Races \/ p \notin {f \in File : Mem(f).open /\ ~Mem(f).orphan}
        /\ reading' = [reading EXCEPT ![r] = None]
        /\ file' = IF p = None THEN file ELSE [file EXCEPT ![p].closed = TRUE]
        /\ UNCHANGED <<pending, entries, pc, job, owed>>
    BY DEF ReleaseRead, TypeInv, TypeOK
  <1>2. p \in File \cup {None} /\ \E n \in Name : pending[n] = p
    BY <1>1 DEF TypeInv, TypeOK
  <1>3. reading' \in [Reader -> Name \cup {None}]
    BY <1>1 DEF TypeInv, TypeOK
  <1>4. p \in Opened \ Orphans => p \in {f \in File : Mem(f).open /\ ~Mem(f).orphan}
    BY DEF Opened, Orphans
  <1> HIDE DEF p
  <1> QED
    BY <1>1, <1>2, <1>3, <1>4

\* A handle that reads, too, when it is released.
LEMMA TypeReleaseRead ==
  ASSUME TypeInv, NEW r \in Reader, ReleaseRead(r)
  PROVE  TypeInv'
  <1>1. /\ reading' \in [Reader -> Name \cup {None}]
        /\ UNCHANGED <<pending, entries, pc, job, owed>>
    BY ReleaseReadSays
  <1>2. CASE UNCHANGED file
    <2>1. NamesKept /\ FilesNamed' /\ RecordsNamed'
      BY <1>1, <1>2, SameNames, RecordsStay
    <2>2. TypeOK'
      BY <1>1, <1>2 DEF TypeInv, TypeOK
    <2> QED
      BY <1>1, <2>1, <2>2, TypeHandle
  <1>3. ASSUME NEW p \in File, \E n \in Name : pending[n] = p,
               file' = [file EXCEPT ![p].closed = TRUE]
        PROVE  TypeInv'
    <2>1. /\ file' \in [File -> Staging] /\ \A g \in File : NameOf(g)' = NameOf(g)
          /\ \A g \in File : g # p => Mem(g)' = Mem(g)
      BY <1>3, ChangeMarked DEF TypeInv
    <2>2. NameOf(p) # None
      BY <1>3, FuseAssumption DEF TypeInv, RecordsNamed
    <2>3. NamesKept /\ FilesNamed'
      BY <2>1, <2>2, OneNamed
    <2>4. RecordsNamed'
      BY <1>1, <2>3, RecordsStay
    <2>5. TypeOK'
      BY <1>1, <2>1 DEF TypeInv, TypeOK
    <2> QED
      BY <1>1, <2>3, <2>4, <2>5, TypeHandle
  <1> QED
    BY <1>2, <1>3, ReleaseReadSays

\* Unlink keeps the types, of what is pending and of what is not.
LEMMA TypeUnlink ==
  ASSUME TypeInv, NEW n \in Name, UnlinkPending(n) \/ UnlinkEntry(n)
  PROVE  TypeInv'
  <1>1. CASE UnlinkPending(n)
    <2> DEFINE f == pending[n]
    <2>1. /\ f # None /\ file' = [file EXCEPT ![f] = Orphan(@)] /\ owed' = owed \ {f}
          /\ UNCHANGED <<pending, entries, pc, job, reading>>
      BY <1>1 DEF UnlinkPending
    <2>2. f \in File /\ NameOf(f) # None
      BY <2>1, FuseAssumption DEF TypeInv, TypeOK, RecordsNamed
    <2> HIDE DEF f
    <2>3. /\ file' \in [File -> Staging] /\ \A g \in File : NameOf(g)' = NameOf(g)
          /\ \A g \in File : g # f => Mem(g)' = Mem(g)
      BY <2>1, <2>2, ChangeOrphan DEF TypeInv
    <2>4. NamesKept /\ FilesNamed'
      BY <2>2, <2>3, OneNamed
    <2>5. RecordsNamed'
      BY <2>1, <2>4, RecordsStay
    <2>6. TypeOK'
      BY <2>1, <2>3 DEF TypeInv, TypeOK
    <2> QED
      BY <2>1, <2>4, <2>5, <2>6, TypeHandle
  <1>2. CASE UnlinkEntry(n)
    <2>1. /\ entries[n] # <<>> /\ entries' = [entries EXCEPT ![n] = Tail(@)]
          /\ owed' = owed \ Files(entries[n])
          /\ UNCHANGED <<file, pending, pc, job, reading>>
      BY <1>2 DEF UnlinkEntry
    <2>2. NamesKept /\ FilesNamed'
      BY <2>1, SameNames
    <2>3. RecordsNamed'
      BY <2>1, <2>2, RecordsStay
    <2>4. entries' \in [Name -> Seq(Version)]
      BY <2>1, VersionsSay DEF TypeInv, TypeOK
    <2>5. TypeOK'
      BY <2>1, <2>4 DEF TypeInv, TypeOK
    <2> QED
      BY <2>1, <2>2, <2>3, <2>5, TypeHandle
  <1> QED
    BY <1>1, <1>2

\* A request that begins keeps the types.
LEMMA TypeRequest ==
  ASSUME TypeInv, Tick \/ Requests
  PROVE  TypeInv'
  <1>1. ASSUME NEW t \in Importer, NEW op \in Op, NEW ns \in SUBSET Name,
               NEW n \in Name \cup {None}, NEW to \in Name \cup {None}, Begin(t, op, ns, n, to),
               t = Janitor => op = "tick", op \in {"open", "rename"} => n \in Name,
               op = "rename" => to \in Name
        PROVE  TypeInv'
    <2>1. /\ pc' \in [Importer -> Step] /\ job' \in [Importer -> Job] /\ Others(t)
          /\ pc'[t] = "next" /\ job'[t].op = op /\ job'[t].todo = Snapshot(ns)
          /\ job'[t].name = n /\ job'[t].to = to
          /\ UNCHANGED <<file, pending, entries, reading, owed>>
      BY <1>1, BeginSays DEF TypeInv
    <2>2. NamesKept /\ FilesNamed' /\ RecordsNamed'
      BY <2>1, SameNames, RecordsStay
    <2>3. TypeOK'
      BY <2>1 DEF TypeInv, TypeOK
    <2>4. Fit(t)'
      BY <1>1, <2>1, FitBegin
    <2> QED
      BY <2>1, <2>2, <2>3, <2>4, TypeStep
  <1>2. CASE Tick
    <2>1. Begin(Janitor, "tick", Name, None, None) /\ Janitor \in Importer /\ "tick" \in Op
      BY <1>2 DEF Tick, Importer, Op
    <2> QED
      BY <2>1, <1>1
  <1>3. ASSUME NEW t \in Thread,
               \/ OpenDir(t) \/ Settle(t)
               \/ \E n \in Name : Open(t, n)
               \/ \E n, to \in Name : Rename(t, n, to)
        PROVE  TypeInv'
    <2>1. t \in Importer /\ t # Janitor
      BY FuseAssumption DEF Importer
    <2>2. {"open", "list", "settle", "rename"} \subseteq Op
      BY DEF Op
    <2>3. CASE OpenDir(t) \/ Settle(t)
      <3>1. PICK op \in {"list", "settle"} : Begin(t, op, Name, None, None)
        BY <2>3 DEF OpenDir, Settle
      <3> QED
        BY <3>1, <2>1, <2>2, <1>1
    <2>4. CASE \E n \in Name : Open(t, n)
      <3>1. PICK n \in Name : Begin(t, "open", {n}, n, None)
        BY <2>4 DEF Open
      <3>2. {n} \in SUBSET Name /\ "open" \in Op
        BY <2>2
      <3> QED
        BY <3>1, <3>2, <2>1, <1>1
    <2>5. CASE \E n, to \in Name : Rename(t, n, to)
      <3>1. PICK n \in Name, to \in Name : Begin(t, "rename", {n}, n, to)
        BY <2>5 DEF Rename
      <3>2. {n} \in SUBSET Name /\ "rename" \in Op
        BY <2>2
      <3> QED
        BY <3>1, <3>2, <2>1, <1>1
    <2> QED
      BY <1>3, <2>3, <2>4, <2>5
  <1> QED
    BY <1>2, <1>3 DEF Requests

\* The file at hand, and its name.
LEMMA AtHand ==
  ASSUME TypeInv, NEW t \in Importer, AtWork(t)
  PROVE  /\ job[t].file \in File /\ job[t].at \in Name /\ NameOf(job[t].file) = job[t].at
         /\ job[t].at # None
  BY FuseAssumption DEF TypeInv, Fit

\* Pick keeps the types.
LEMMA TypePick ==
  ASSUME TypeInv, NEW t \in Importer, Pick(t)
  PROVE  TypeInv'
  <1>1. PICK x \in job[t].todo :
           /\ pc' \in [Importer -> Step] /\ job' \in [Importer -> Job] /\ Others(t)
           /\ x \in Name \X File
           /\ job'[t].op = job[t].op /\ job'[t].todo = job[t].todo \ {x}
           /\ job'[t].name = job[t].name /\ job'[t].to = job[t].to
           /\ \/ job'[t].at = x[1] /\ job'[t].file = x[2]
              \/ pc'[t] = "next"
           /\ UNCHANGED <<file, pending, entries, reading, owed>>
    BY PickSays DEF TypeInv
  <1>2. NamesKept /\ FilesNamed' /\ RecordsNamed'
    BY <1>1, SameNames, RecordsStay
  <1>3. TypeOK'
    BY <1>1 DEF TypeInv, TypeOK
  <1>4. Fit(t)'
    <2>1. \A y \in job[t].todo : NameOf(y[2])' = y[1]
      BY <1>1 DEF TypeInv, Fit, NameOf, Mem
    <2>2. AtWork(t)' => /\ job'[t].file \in File /\ job'[t].at \in Name
                        /\ NameOf(x[2])' = x[1] /\ job'[t].at = x[1] /\ job'[t].file = x[2]
      BY <1>1, <2>1 DEF AtWork
    <2>3. AtWork(t)' => NameOf(job[t].file)' = job'[t].at
      BY <2>2 DEF NameOf, Mem
    <2> QED
      BY <1>1, <2>1, <2>2, <2>3 DEF Fit, TypeInv
  <1> QED
    BY <1>1, <1>2, <1>3, <1>4, TypeStep

\* A request that ends keeps the types.
LEMMA TypeEnd ==
  ASSUME TypeInv, NEW t \in Importer,
         \/ Done(t) \/ RenameEntry(t)
         \/ \E r \in Reader : OpenRead(t, r)
         \/ \E f \in File : OpenWrite(t, f)
  PROVE  TypeInv'
  <1>1. Return(t)
    BY DEF Done, RenameEntry, OpenRead, OpenWrite
  <1>2. /\ pc' \in [Importer -> Step] /\ job' \in [Importer -> Job] /\ Others(t)
        /\ pc'[t] = "idle" /\ job'[t] = NoJob
    BY <1>1, ReturnSays DEF TypeInv
  <1>3. Fit(t)'
    BY <1>2, FitIdle
  <1>4. CASE Done(t)
    <2>1. UNCHANGED <<file, pending, entries, reading, owed>>
      BY <1>4 DEF Done
    <2>2. TypeOK'
      BY <1>2, <2>1 DEF TypeInv, TypeOK
    <2> QED
      BY <2>1, <2>2, <1>2, <1>3, SameNames, RecordsStay, TypeStep
  <1>5. CASE RenameEntry(t)
    <2> DEFINE n == job[t].name
               m == job[t].to
    <2>1. /\ UNCHANGED <<file, pending, reading, owed>> /\ job[t].op = "rename"
          /\ entries[n] # <<>>
          /\ entries' = [entries EXCEPT ![n] = Tail(@), ![m] = <<Head(entries[n])>>]
      BY <1>5 DEF RenameEntry
    <2>2. n \in Name /\ m \in Name
      BY <2>1 DEF TypeInv, Fit
    <2> HIDE DEF n, m
    <2>3. Tail(entries[n]) \in Seq(Version) /\ <<Head(entries[n])>> \in Seq(Version)
      BY <2>1, <2>2, VersionsSay DEF TypeInv, TypeOK
    <2>4. entries' \in [Name -> Seq(Version)]
      BY <2>1, <2>2, <2>3 DEF TypeInv, TypeOK
    <2>5. TypeOK'
      BY <1>2, <2>1, <2>4 DEF TypeInv, TypeOK
    <2> QED
      BY <2>1, <2>5, <1>2, <1>3, SameNames, RecordsStay, TypeStep
  <1>6. ASSUME NEW f \in File, OpenWrite(t, f)
        PROVE  TypeInv'
    <2>1. Register(job[t].name, f) /\ UNCHANGED <<entries, reading, owed>> /\ job[t].op = "open"
      BY <1>6 DEF OpenWrite
    <2>2. job[t].name \in Name
      BY <2>1 DEF TypeInv, Fit
    <2>3. TypeOK'
      BY <1>2, <2>1, <2>2, RegisterSays DEF TypeInv, TypeOK
    <2> QED
      BY <2>1, <2>2, <2>3, <1>2, <1>3, RegisterNames, TypeStep
  <1>7. ASSUME NEW r \in Reader, OpenRead(t, r)
        PROVE  TypeInv'
    <2>1. /\ UNCHANGED <<file, pending, entries, owed>> /\ job[t].op = "open"
          /\ reading' = [reading EXCEPT ![r] = job[t].name]
      BY <1>7 DEF OpenRead
    <2>2. job[t].name \in Name
      BY <2>1 DEF TypeInv, Fit
    <2>3. TypeOK'
      BY <1>2, <2>1, <2>2 DEF TypeInv, TypeOK
    <2> QED
      BY <2>1, <2>3, <1>2, <1>3, SameNames, RecordsStay, TypeStep
  <1> QED
    BY <1>4, <1>5, <1>6, <1>7

\* A step of importPending: t is at work, and goes on with the file or is
\* through with it.
LEMMA TypeWork ==
  ASSUME TypeInv, NEW t \in Importer, AtWork(t), NamesKept, FilesNamed', Others(t),
         file' \in [File -> Staging], pending' \in [Name -> File \cup {None}],
         entries' \in [Name -> Seq(Version)], UNCHANGED <<reading, owed>>,
         \A n \in Name : pending'[n] \in {pending[n], None},
         pc' \in [Importer -> Step], job' \in [Importer -> Job],
         Rest(t)' = Rest(t), pc'[t] = "next" \/ job'[t] = job[t]
  PROVE  TypeInv'
  <1>1. TypeOK'
    BY DEF TypeInv, TypeOK
  <1>2. RecordsNamed' /\ Fit(t)'
    BY RecordsStay, FitNext
  <1> QED
    BY <1>1, <1>2, TypeStep

\* The steps of importPending keep the types.
LEMMA TypeImport ==
  ASSUME TypeInv, NEW t \in Importer, Import(t)
  PROVE  TypeInv'
  <1> DEFINE f == job[t].file
             n == job[t].at
  <1>1. AtWork(t) /\ f \in File /\ n \in Name /\ NameOf(f) = n /\ n # None
    <2>1. AtWork(t)
      BY DEF Import, Claim, Stat, RemoveOld, Put, PutFails, Clean, Drop, AtWork
    <2> QED
      BY <2>1, AtHand
  <1>2. /\ TypeOK /\ entries \in [Name -> Seq(Version)]
        /\ pending \in [Name -> File \cup {None}] /\ file \in [File -> Staging]
    BY DEF TypeInv, TypeOK
  <1>3. ASSUME NEW s \in Step, Goto(t, s), UNCHANGED job
        PROVE  /\ pc' \in [Importer -> Step] /\ job' \in [Importer -> Job] /\ Others(t)
               /\ Rest(t)' = Rest(t) /\ job'[t] = job[t]
    BY <1>2, <1>3, GotoSays DEF Rest
  <1>4. ASSUME Refused(t) \/ NextOne(t)
        PROVE  /\ pc' \in [Importer -> Step] /\ job' \in [Importer -> Job] /\ Others(t)
               /\ Rest(t)' = Rest(t) /\ (pc'[t] = "next" \/ job'[t] = job[t])
    BY <1>2, <1>4, RefusedSays, NextOneSays
  <1>5. {"stat", "remove", "put", "clean", "drop"} \subseteq Step
    BY DEF Step
  <1>6. ASSUME \A g \in File : NameOf(g)' = NameOf(g), \A g \in File : g # f => Mem(g)' = Mem(g)
        PROVE  NamesKept /\ FilesNamed'
    <2>1. NameOf(f) # None
      BY <1>1
    <2> HIDE DEF f
    <2> QED
      BY <2>1, <1>6, OneNamed
  <1>7. ASSUME DropRecord(n, file)
        PROVE  /\ file' \in [File -> Staging] /\ pending' \in [Name -> File \cup {None}]
               /\ \A m \in Name : pending'[m] \in {pending[m], None}
               /\ NamesKept /\ FilesNamed'
    <2> HIDE DEF n
    <2>1. /\ file' \in [File -> Staging] /\ pending' \in [Name -> File \cup {None}]
          /\ pending' = [pending EXCEPT ![n] = None]
          /\ \A g \in File : NameOf(g)' = NameOf(g)
          /\ \A g \in File : g # pending[n] => Mem(g)' = Mem(g)
      BY <1>1, <1>2, <1>7, DropRecordSays
    <2>2. \A m \in Name : pending'[m] \in {pending[m], None}
      BY <1>2, <2>1
    <2>3. CASE pending[n] = None
      <3>1. UNCHANGED file
        BY <1>7, <2>3 DEF DropRecord
      <3> QED
        BY <2>1, <2>2, <3>1, SameNames
    <2>4. CASE pending[n] # None
      <3>1. NameOf(pending[n]) # None
        BY <1>1, <2>4, FuseAssumption DEF TypeInv, RecordsNamed
      <3>2. NamesKept /\ FilesNamed'
        BY <2>1, <3>1, OneNamed
      <3> QED
        BY <2>1, <2>2, <3>2
    <2> QED
      BY <2>3, <2>4
  <1>8. UNCHANGED file => NamesKept /\ FilesNamed'
    BY SameNames
  <1> HIDE DEF f, n
  <1>9. CASE Claim(t)
    <2>1. UNCHANGED <<pending, entries, reading, owed>>
      BY <1>9 DEF Claim
    <2>2. CASE Busy(f)
      <3>1. Refused(t) /\ UNCHANGED file
        BY <1>9, <2>2 DEF Claim, f
      <3> QED
        BY <2>1, <3>1, <1>1, <1>2, <1>4, <1>8, TypeWork
    <2>3. CASE ~Busy(f)
      <3>1. file' = [file EXCEPT ![f].importing = TRUE] /\ Goto(t, "stat") /\ UNCHANGED job
        BY <1>9, <2>3 DEF Claim, f
      <3>2. /\ file' \in [File -> Staging] /\ \A g \in File : NameOf(g)' = NameOf(g)
            /\ \A g \in File : g # f => Mem(g)' = Mem(g)
        BY <3>1, <1>1, <1>2, ChangeTaken
      <3> QED
        BY <2>1, <3>1, <3>2, <1>1, <1>2, <1>3, <1>5, <1>6, TypeWork
    <2> QED
      BY <2>2, <2>3
  <1>10. CASE Stat(t)
    <2>1. UNCHANGED <<entries, reading, owed>>
      BY <1>10 DEF Stat
    <2>2. CASE Mem(f).staged
      <3>1. Goto(t, "remove") /\ UNCHANGED <<file, pending, job>>
        BY <1>10, <2>2 DEF Stat, f
      <3> QED
        BY <2>1, <3>1, <1>1, <1>2, <1>3, <1>5, <1>8, TypeWork
    <2>3. CASE ~Mem(f).staged
      <3>1. DropRecord(n, file) /\ Refused(t)
        BY <1>10, <2>3 DEF Stat, f, n
      <3> QED
        BY <2>1, <3>1, <1>1, <1>2, <1>4, <1>7, TypeWork
    <2> QED
      BY <2>2, <2>3
  <1>11. CASE RemoveOld(t)
    <2>1. /\ entries' = [entries EXCEPT ![n] = Displaced(@)] /\ Goto(t, "put")
          /\ UNCHANGED <<file, pending, job, reading, owed>>
      BY <1>1, <1>11 DEF RemoveOld, NameOf, f, n
    <2>2. entries' \in [Name -> Seq(Version)]
      BY <2>1, <1>1, <1>2, VersionsSay
    <2> QED
      BY <2>1, <2>2, <1>1, <1>2, <1>3, <1>5, <1>8, TypeWork
  <1>12. CASE Put(t)
    <2>1. /\ entries' = [entries EXCEPT ![n] = Append(@, <<f, Mem(f).data>>)]
          /\ Goto(t, "clean") /\ UNCHANGED <<file, pending, job, reading, owed>>
      BY <1>1, <1>12 DEF Put, NameOf, f, n
    <2>2. <<f, Mem(f).data>> \in Version
      BY <1>1, <1>2 DEF Version, Staging, Mem
    <2>3. entries' \in [Name -> Seq(Version)]
      BY <2>1, <2>2, <1>1, <1>2, VersionsSay
    <2> QED
      BY <2>1, <2>3, <1>1, <1>2, <1>3, <1>5, <1>8, TypeWork
  <1>13. CASE PutFails(t)
    <2>1. /\ file' = [file EXCEPT ![f] = AfterFailure(@)] /\ Refused(t)
          /\ UNCHANGED <<pending, reading, entries, owed>>
      BY <1>13 DEF PutFails, f
    <2>2. file' = [file EXCEPT ![f].importing = FALSE]
      BY <2>1 DEF AfterFailure
    <2>3. /\ file' \in [File -> Staging] /\ \A g \in File : NameOf(g)' = NameOf(g)
          /\ \A g \in File : g # f => Mem(g)' = Mem(g)
      BY <2>2, <1>1, <1>2, ChangeTaken
    <2> QED
      BY <2>1, <2>3, <1>1, <1>2, <1>4, <1>6, TypeWork
  <1>14. CASE Clean(t)
    <2>1. /\ file' = [file EXCEPT ![f].staged = FALSE, ![f].imported = TRUE]
          /\ Goto(t, "drop") /\ UNCHANGED <<pending, entries, job, reading, owed>>
      BY <1>14 DEF Clean, f
    <2>2. /\ file' \in [File -> Staging] /\ \A g \in File : NameOf(g)' = NameOf(g)
          /\ \A g \in File : g # f => Mem(g)' = Mem(g)
      BY <2>1, <1>1, <1>2, ChangeMoved
    <2> QED
      BY <2>1, <2>2, <1>1, <1>2, <1>3, <1>5, <1>6, TypeWork
  <1>15. CASE Drop(t)
    <2>1. DropRecord(n, file) /\ NextOne(t) /\ UNCHANGED <<entries, reading, owed>>
      BY <1>15 DEF Drop, n
    <2> QED
      BY <2>1, <1>1, <1>2, <1>4, <1>7, TypeWork
  <1> QED
    BY <1>9, <1>10, <1>11, <1>12, <1>13, <1>14, <1>15 DEF Import

\* A crash keeps the types.
LEMMA TypeCrash ==
  ASSUME TypeInv, Crash
  PROVE  TypeInv'
  <1>1. /\ file' \in [File -> Staging] /\ \A g \in File : NameOf(g)' = NameOf(g)
        /\ pending' = [n \in Name |-> None] /\ reading' = [r \in Reader |-> None]
        /\ pc' = [t \in Importer |-> "idle"] /\ job' = [t \in Importer |-> NoJob]
    BY CrashSays DEF TypeInv
  <1>2. \A n \in Name : Cardinality(SpoolOf(n)) \in Nat
    BY FS_Subset, FS_CardinalityType, FuseAssumption DEF SpoolOf
  <1>3. entries' = [n \in Name |-> SubSeq(entries[n], Cardinality(SpoolOf(n)) + 1,
                                           Len(entries[n]))]
    BY DEF Crash
  <1>4. entries' \in [Name -> Seq(Version)]
    BY <1>2, <1>3, VersionsSay DEF TypeInv, TypeOK
  <1>5. TypeOK'
    BY <1>1, <1>4, NoJobSays DEF TypeInv, TypeOK, Crash, Step
  <1>6. NamesKept
    BY <1>1 DEF NamesKept
  <1>7. FilesNamed'
    BY CrashSays DEF TypeInv, FilesNamed
  <1>8. RecordsNamed'
    BY <1>1 DEF RecordsNamed
  <1>9. \A t \in Importer : Fit(t)'
    BY <1>1, FitIdle
  <1> QED
    BY <1>5, <1>7, <1>8, <1>9 DEF TypeInv

\* The types at the beginning.
LEMMA TypeInit ==
  ASSUME Init
  PROVE  TypeInv
  <1>1. \A f \in File : Mem(f) = Unused
    BY DEF Init, Mem
  <1>2. 0 \in 0 .. MaxWrites
    BY FuseAssumption
  <1>3. Unused \in Staging
    BY <1>2 DEF Unused, Staging
  <1>4. /\ file = [f \in File |-> Unused] /\ pending = [n \in Name |-> None]
        /\ entries = [n \in Name |-> <<>>] /\ reading = [r \in Reader |-> None] /\ owed = {}
        /\ pc = [t \in Importer |-> "idle"] /\ job = [t \in Importer |-> NoJob]
    BY DEF Init
  <1>5. file \in [File -> Staging]
    BY <1>3, <1>4
  <1>6. TypeOK
    BY <1>2, <1>4, <1>5, NoJobSays DEF TypeOK, Step
  <1>7. FilesNamed /\ RecordsNamed
    BY <1>1, <1>4 DEF FilesNamed, RecordsNamed
  <1>8. \A t \in Importer : Fit(t)
    BY <1>4, NoJobSays DEF Fit, AtWork
  <1> QED
    BY <1>6, <1>7, <1>8 DEF TypeInv

\* Every step keeps the types.
LEMMA TypeNext ==
  ASSUME TypeInv, [Next]_vars
  PROVE  TypeInv'
  <1>1. CASE Tick \/ Requests
    BY <1>1, TypeRequest
  <1>2. CASE Handles
    BY <1>2, TypeCreate, TypeWrite, TypeRelease, TypeReleaseRead, TypeUnlink DEF Handles
  <1>3. CASE Crash
    BY <1>3, TypeCrash
  <1>4. ASSUME NEW t \in Importer, Proceed(t)
        PROVE  TypeInv'
    BY <1>4, TypePick, TypeEnd, TypeImport DEF Proceed
  <1>5. CASE UNCHANGED vars
    BY <1>5 DEF vars, TypeInv, TypeOK, FilesNamed, RecordsNamed, Fit, AtWork, NameOf, Mem
  <1> QED
    BY <1>1, <1>2, <1>3, <1>4, <1>5 DEF Next

\* The types, at every step.
LEMMA TypeAlways ==
  Spec => []TypeInv
  BY TypeInit, TypeNext, PTL DEF Spec

\* Every variable keeps its type, whatever races there are: no request, no
\* handle and no import is about a name or a file that is not there.
THEOREM FuseTypeCorrect ==
  Spec => []TypeOK
  BY TypeAlways, PTL DEF TypeInv

----------------------------------------------------------------------------
(* Without races.  Steps that leave the imports alone.                     *)

\* No import begins, goes on or ends, and no one waits for more than before.
Calm ==
  \A u \in Importer :
    /\ AtWork(u)' <=> AtWork(u)
    /\ AtWork(u) => pc'[u] = pc[u] /\ job'[u] = job[u]
    /\ \A n \in Name, f \in File : Binds(u, n, f)' => Binds(u, n, f)
    /\ \A f \in File : Awaits(u, f)' => Awaits(u, f)
    /\ \A f \in File : Forcing(u)' /\ f \in Snapped(u)' => Forcing(u) /\ f \in Snapped(u)

\* Who takes no step is as before.
LEMMA Still ==
  ASSUME NEW u \in Importer, pc'[u] = pc[u], job'[u] = job[u]
  PROVE  /\ AtWork(u)' <=> AtWork(u)
         /\ Forcing(u)' <=> Forcing(u)
         /\ Snapped(u)' = Snapped(u)
         /\ \A n \in Name, f \in File :
              /\ Binds(u, n, f)' <=> Binds(u, n, f)
              /\ Replacing(u, n, f)' => pc[u] = pc'[u]
         /\ \A f \in File : /\ Holds(u, f)' <=> Holds(u, f)
                            /\ Awaits(u, f)' <=> Awaits(u, f)
  BY DEF AtWork, Forcing, Settling, Snapped, Binds, Holds, Holding, Awaits

\* A step of no importer.
LEMMA StillCalm ==
  ASSUME UNCHANGED <<pc, job>>
  PROVE  Calm
  BY Still DEF Calm

\* A request that ends.
LEMMA ReturnCalm ==
  ASSUME TypeInv, NEW t \in Importer, pc[t] = "next", Return(t)
  PROVE  Calm
  <1>1. Others(t) /\ pc'[t] = "idle" /\ job'[t] = NoJob
    BY ReturnSays DEF TypeInv
  <1>2. ~AtWork(t) /\ ~AtWork(t)' /\ Snapped(t)' = {} /\ \A f \in File : ~Awaits(t, f)'
    BY <1>1, NoJobSays DEF AtWork, Snapped, Awaits
  <1>3. \A n \in Name, f \in File : ~Binds(t, n, f)'
    BY <1>1, <1>2, NoJobSays DEF Binds
  <1>4. ASSUME NEW u \in Importer, u # t
        PROVE  pc'[u] = pc[u] /\ job'[u] = job[u]
    BY <1>1, <1>4 DEF Others
  <1> QED
    BY <1>2, <1>3, <1>4, Still DEF Calm

\* Steps at work are the same, then.
LEMMA CalmSays ==
  ASSUME Calm
  PROVE  /\ Held' = Held
         /\ \A u \in Importer, f \in File : Holds(u, f)' <=> Holds(u, f)
         /\ \A u \in Importer, s \in {"claim", "stat", "remove", "put", "clean", "drop"} :
              /\ pc'[u] = s <=> pc[u] = s
              /\ pc[u] = s => /\ job'[u].file = job[u].file /\ job'[u].at = job[u].at
                              /\ Forcing(u)' <=> Forcing(u)
  <1>1. \A u \in Importer, f \in File : Holds(u, f)' <=> Holds(u, f)
    BY DEF Calm, Holds, Holding, AtWork
  <1>2. Held' = Held
    BY <1>1 DEF Held
  <1>3. \A u \in Importer, s \in {"claim", "stat", "remove", "put", "clean", "drop"} :
          /\ pc'[u] = s <=> pc[u] = s
          /\ pc[u] = s => /\ job'[u].file = job[u].file /\ job'[u].at = job[u].at
                          /\ Forcing(u)' <=> Forcing(u)
    BY DEF Calm, AtWork, Forcing
  <1> QED
    BY <1>1, <1>2, <1>3

\* The sets are of staging files.
LEMMA InFile ==
  /\ Opened \subseteq File /\ Staged \subseteq File /\ Metas \subseteq File
  /\ Taken \subseteq File /\ Moved \subseteq File /\ Orphans \subseteq File
  /\ Closed \subseteq File /\ Used \subseteq File /\ Held \subseteq File
  BY DEF Opened, Staged, Metas, Taken, Moved, Orphans, Closed, Used, Held

\* The files, the records and the vault stay.
Quiet ==
  /\ Opened' = Opened /\ Staged' = Staged /\ Metas' = Metas
  /\ \A f \in Opened \ Orphans : f \in Closed' => f \in Closed
  /\ Taken' = Taken /\ Moved' = Moved /\ Orphans' = Orphans /\ Used' = Used
  /\ \A f \in File : NameOf(f)' = NameOf(f)

VaultStays ==
  /\ \A n \in Name : At(n)' = At(n)
  /\ Stored' = Stored /\ OnePath' /\ Whole'

\* The files stay.
LEMMA QuietSays ==
  ASSUME UNCHANGED file
  PROVE  Quiet
  <1>1. \A f \in File : Mem(f)' = Mem(f)
    BY DEF Mem
  <1> QED
    BY <1>1, SetsFollow, Zenon DEF Quiet, NameOf

\* The vault stays, and what it has is as whole as it was.
LEMMA VaultSays ==
  ASSUME UNCHANGED entries, \A f \in File : Mem(f)'.data = Mem(f).data, OnePath, Whole
  PROVE  VaultStays
  BY DEF VaultStays, At, Stored, OnePath, Whole

\* Nothing happens.
LEMMA QuietKeeps ==
  ASSUME FuseInv, Calm, Quiet, VaultStays, UNCHANGED <<pending, owed>>
  PROVE  FuseInv'
  <1>1. /\ \A u \in Importer : /\ AtWork(u)' <=> AtWork(u)
                               /\ \A n \in Name, f \in File : Binds(u, n, f)' => Binds(u, n, f)
                               /\ \A f \in File : Awaits(u, f)' => Awaits(u, f)
                               /\ \A f \in File : Forcing(u)' /\ f \in Snapped(u)' =>
                                                    Forcing(u) /\ f \in Snapped(u)
    BY DEF Calm
  <1>2. /\ Held' = Held
        /\ \A u \in Importer, f \in File : Holds(u, f)' <=> Holds(u, f)
        /\ \A u \in Importer, s \in {"claim", "stat", "remove", "put", "clean", "drop"} :
             /\ pc'[u] = s <=> pc[u] = s
             /\ pc[u] = s => /\ job'[u].file = job[u].file /\ job'[u].at = job[u].at
                             /\ Forcing(u)' <=> Forcing(u)
    BY CalmSays
  <1>3. Spooled'
    BY <1>2 DEF FuseInv, Spooled, Quiet
  <1>4. OpenAlone'
    BY <1>1, InFile DEF FuseInv, OpenAlone, Quiet
  <1>5. OwnRecord' /\ OneFile'
    BY <1>1 DEF FuseInv, OwnRecord, OneFile
  <1>6. Awaited'
    BY <1>1, <1>2 DEF FuseInv, Awaited, Quiet
  <1>7. Exclusive'
    BY <1>2 DEF FuseInv, Exclusive, Quiet
  <1>8. Once'
    BY <1>1, <1>2, InFile DEF FuseInv, Once, Quiet
  <1>9. Dropping'
    BY <1>2 DEF FuseInv, Dropping, Quiet
  <1>10. StoredClosed' /\ OwedClosed' /\ Whole' /\ OnePath'
    BY DEF FuseInv, StoredClosed, OwedClosed, Quiet, VaultStays
  <1>11. Leaving'
    BY <1>2 DEF FuseInv, Leaving, VaultStays
  <1>12. Room' /\ CleanAfter'
    BY <1>2 DEF FuseInv, Room, CleanAfter, VaultStays
  <1>13. Replaces'
    BY <1>2 DEF FuseInv, Replaces, Replacing, ForIt, VaultStays, Quiet
  <1>14. Somewhere'
    BY <1>2 DEF FuseInv, Somewhere, VaultStays, Quiet
  <1> QED
    BY <1>3, <1>4, <1>5, <1>6, <1>7, <1>8, <1>9, <1>10, <1>11, <1>12, <1>13, <1>14 DEF FuseInv

\* A file that is not used is nowhere.
LEMMA UnusedNowhere ==
  ASSUME TypeInv, FuseInv, NEW f \in File, f \notin Used
  PROVE  /\ \A n \in Name : pending[n] # f
         /\ \A u \in Importer : ~Awaits(u, f) /\ ~Holds(u, f) /\ (AtWork(u) => job[u].file # f)
         /\ f \notin Stored /\ f \notin owed /\ f \notin Held
  <1>1. NameOf(f) = None
    BY DEF Used, NameOf
  <1>2. \A n \in Name : pending[n] # f
    BY <1>1, FuseAssumption DEF TypeInv, RecordsNamed
  <1>3. ASSUME NEW u \in Importer
        PROVE  ~Awaits(u, f) /\ ~Holds(u, f) /\ (AtWork(u) => job[u].file # f)
    <2>1. AtWork(u) => job[u].file # f
      BY <1>1, AtHand
    <2>2. f \notin Snapped(u)
      <3>1. ASSUME NEW n \in Name, <<n, f>> \in job[u].todo
            PROVE  FALSE
        <4>1. NameOf(f) = n
          BY <3>1 DEF TypeInv, Fit
        <4> QED
          BY <1>1, <4>1, FuseAssumption
      <3> QED
        BY <3>1 DEF Snapped
    <2> QED
      BY <2>1, <2>2 DEF Awaits, Holds, Holding, AtWork
  <1>4. f \notin Stored /\ f \notin owed
    BY DEF FuseInv, StoredClosed, OwedClosed
  <1> QED
    BY <1>2, <1>3, <1>4 DEF Held

\* The janitor settles nothing.
LEMMA JanitorTicks ==
  ASSUME TypeInv
  PROVE  Janitor \in Importer /\ job[Janitor].op = "tick" /\ ~Settling(Janitor) /\ ~Forcing(Janitor)
  BY DEF TypeInv, Fit, Importer, Settling, Forcing

\* What a name is free of.
LEMMA FreeSays ==
  ASSUME TypeInv, Races = {}, NEW n \in Name, Free(n)
  PROVE  /\ pending[n] \in Orphans \cup {None}
         /\ \A f \in Opened : NameOf(f) # n
         /\ \A u \in Importer, f \in File : ~Binds(u, n, f)
  <1>1. ~Importing(n) /\ ~Ahead(n) /\ NoRecordOf(n) /\ \A f \in File : Mem(f).name = n => ~Mem(f).open
    BY DEF Free
  <1>2. ASSUME NEW u \in Importer, NEW f \in File, Binds(u, n, f)
        PROVE  FALSE
    <2>1. CASE AtWork(u) /\ job[u].at = n
      BY <2>1, <1>1 DEF Importing, AtWork
    <2>2. CASE Settling(u) /\ <<n, f>> \in job[u].todo
      <3>1. u \in Thread
        BY <2>2, JanitorTicks DEF Importer
      <3> QED
        BY <2>2, <3>1, <1>1 DEF Ahead
    <2> QED
      BY <1>2, <2>1, <2>2 DEF Binds
  <1> QED
    BY <1>1, <1>2 DEF NoRecordOf, Opened, NameOf

\* A new handle finds its name free.
LEMMA RegisterKeeps ==
  ASSUME TypeInv, FuseInv, Races = {}, NEW n \in Name, NEW f \in File,
         Register(n, f), Free(n), UNCHANGED <<entries, owed>>, Calm
  PROVE  FuseInv'
  <1>1. /\ f \notin Used /\ Used' = Used \cup {f} /\ Opened' = Opened \cup {f}
        /\ Staged' = Staged \cup {f} /\ Metas' = Metas \cup {f} /\ Closed' = Closed
        /\ Taken' = Taken /\ Moved' = Moved /\ Orphans' = Orphans
        /\ f \notin Closed /\ f \notin Moved /\ f \notin Taken /\ f \notin Orphans
        /\ NameOf(f)' = n /\ \A g \in File : g # f => Mem(g)' = Mem(g)
        /\ pending' = [pending EXCEPT ![n] = f] /\ pending \in [Name -> File \cup {None}]
    BY RegisterSays DEF TypeInv, TypeOK
  <1>2. /\ \A m \in Name : pending[m] # f
        /\ \A u \in Importer : ~Awaits(u, f) /\ ~Holds(u, f) /\ (AtWork(u) => job[u].file # f)
        /\ f \notin Stored /\ f \notin owed /\ f \notin Held
    BY <1>1, UnusedNowhere
  <1>3. /\ pending[n] \in Orphans \cup {None}
        /\ \A g \in Opened : NameOf(g) # n
        /\ \A u \in Importer, g \in File : ~Binds(u, n, g)
    BY FreeSays
  <1>4. /\ \A u \in Importer : /\ AtWork(u)' <=> AtWork(u)
                               /\ AtWork(u) => pc'[u] = pc[u] /\ job'[u] = job[u]
                               /\ \A m \in Name, g \in File : Binds(u, m, g)' => Binds(u, m, g)
                               /\ \A g \in File : Awaits(u, g)' => Awaits(u, g)
                               /\ \A g \in File : Forcing(u)' /\ g \in Snapped(u)' =>
                                                    Forcing(u) /\ g \in Snapped(u)
    BY DEF Calm
  <1>5. /\ Held' = Held
        /\ \A u \in Importer, g \in File : Holds(u, g)' <=> Holds(u, g)
        /\ \A u \in Importer, s \in {"claim", "stat", "remove", "put", "clean", "drop"} :
             /\ pc'[u] = s <=> pc[u] = s
             /\ pc[u] = s => /\ job'[u].file = job[u].file /\ job'[u].at = job[u].at
                             /\ Forcing(u)' <=> Forcing(u)
    BY CalmSays
  <1>6. \A g \in File : g # f => NameOf(g)' = NameOf(g)
    BY <1>1 DEF NameOf
  <1>7. /\ \A m \in Name : At(m)' = At(m) /\ f \notin At(m)
        /\ Stored' = Stored /\ OnePath' /\ Whole'
    <2>1. \A m \in Name : At(m)' = At(m) /\ f \notin At(m)
      BY <1>2 DEF At, Stored
    <2>2. Stored' = Stored /\ OnePath'
      BY DEF Stored, OnePath, FuseInv, At
    <2>3. Whole'
      <3>1. ASSUME NEW m \in Name, NEW g \in File, NEW i \in DOMAIN entries[m], entries[m][i][1] = g
            PROVE  entries[m][i][2] = Mem(g)'.data
        <4>1. g \in At(m)
          BY <3>1 DEF At, Files
        <4>2. Mem(g)' = Mem(g)
          BY <4>1, <2>1, <1>1
        <4> QED
          BY <3>1, <4>2 DEF FuseInv, Whole
      <3> QED
        BY <3>1 DEF Whole
    <2> QED
      BY <2>1, <2>2, <2>3
  <1>8. f \notin Snapped(Janitor) /\ \A u \in Importer : f \notin Snapped(u)
    BY <1>2, JanitorTicks DEF Awaits
  <1>9. Spooled'
    BY <1>1, <1>2, <1>5 DEF FuseInv, Spooled
  <1>10. OpenAlone'
    <2>1. ASSUME NEW g \in Opened', NEW m \in Name, NameOf(g)' = m, g # f
          PROVE  /\ pending'[m] = g /\ g \notin Closed' \ Orphans' /\ g \notin Moved'
                 /\ \A t \in Importer : /\ \A h \in File : ~Binds(t, m, h)'
                                        /\ Forcing(t)' => g \notin Snapped(t)'
      <3>1. g \in Opened /\ g \in File /\ NameOf(g) = m /\ m # n
        BY <2>1, <1>1, <1>3, <1>6, InFile
      <3> QED
        BY <3>1, <1>1, <1>4, InFile DEF FuseInv, OpenAlone
    <2>2. /\ pending'[n] = f /\ f \notin Closed' \ Orphans' /\ f \notin Moved'
          /\ \A t \in Importer : /\ \A h \in File : ~Binds(t, n, h)'
                                 /\ Forcing(t)' => f \notin Snapped(t)'
      BY <1>1, <1>3, <1>4, <1>8
    <2> QED
      BY <1>1, <2>1, <2>2 DEF OpenAlone
  <1>11. OwnRecord' /\ OneFile'
    BY <1>1, <1>3, <1>4 DEF FuseInv, OwnRecord, OneFile
  <1>12. Awaited'
    BY <1>1, <1>3, <1>4, <1>5, FuseAssumption DEF FuseInv, Awaited
  <1>13. Exclusive'
    BY <1>1, <1>5 DEF FuseInv, Exclusive
  <1>14. Once'
    BY <1>1, <1>4, <1>5, InFile DEF FuseInv, Once
  <1>15. Dropping'
    BY <1>1, <1>5 DEF FuseInv, Dropping
  <1>16. StoredClosed' /\ OwedClosed'
    BY <1>1, <1>2, <1>7 DEF FuseInv, StoredClosed, OwedClosed
  <1>17. Leaving'
    BY <1>1, <1>2, <1>5, <1>7 DEF FuseInv, Leaving
  <1>18. Room' /\ CleanAfter'
    BY <1>5, <1>7 DEF FuseInv, Room, CleanAfter
  <1>19. Replaces'
    <2>1. ASSUME NEW m \in Name, NEW g \in File, pending'[m] = g, g \notin Opened' \cup Orphans'
          PROVE  ForIt(m, g)'
      BY <2>1, <1>1, <1>7 DEF FuseInv, Replaces, ForIt
    <2>2. ASSUME NEW m \in Name, NEW g \in File, NEW t \in Importer, Replacing(t, m, g)'
          PROVE  ForIt(m, g)'
      <3>1. Replacing(t, m, g)
        BY <2>2, <1>1, <1>2, <1>5 DEF Replacing, AtWork
      <3> QED
        BY <3>1, <1>7 DEF FuseInv, Replaces, ForIt
    <2> QED
      BY <2>1, <2>2 DEF Replaces
  <1>20. Somewhere'
    BY <1>1, <1>2, <1>5, <1>7 DEF FuseInv, Somewhere
  <1> QED
    BY <1>7, <1>9, <1>10, <1>11, <1>12, <1>13, <1>14, <1>15, <1>16, <1>17, <1>18, <1>19, <1>20
       DEF FuseInv

\* A write goes to an open file, and of those the vault has nothing.
LEMMA WriteKeeps ==
  ASSUME TypeInv, FuseInv, NEW f \in File, Write(f)
  PROVE  FuseInv'
  <1>1. /\ f \in Opened /\ Mem(f).data < MaxWrites /\ file' = [file EXCEPT ![f].data = @ + 1]
        /\ UNCHANGED <<pending, entries, pc, job, reading, owed>>
    BY DEF Write, Opened
  <1>2. /\ Opened' = Opened /\ Staged' = Staged /\ Metas' = Metas /\ Closed' = Closed
        /\ Taken' = Taken /\ Moved' = Moved /\ Orphans' = Orphans /\ Used' = Used
        /\ \A g \in File : NameOf(g)' = NameOf(g)
        /\ \A g \in File : g # f => Mem(g)' = Mem(g)
    BY <1>1, ChangeData DEF TypeInv
  <1>3. \A n \in Name : f \notin At(n)
    BY <1>1 DEF FuseInv, StoredClosed, Stored
  <1>4. VaultStays
    <2>1. ASSUME NEW m \in Name, NEW g \in File, NEW i \in DOMAIN entries[m], entries[m][i][1] = g
          PROVE  entries[m][i][2] = Mem(g)'.data
      <3>1. g \in At(m)
        BY <2>1 DEF At, Files
      <3>2. Mem(g)' = Mem(g)
        BY <3>1, <1>2, <1>3
      <3> QED
        BY <2>1, <3>2 DEF FuseInv, Whole
    <2>2. Whole'
      BY <1>1, <2>1 DEF Whole
    <2> QED
      BY <1>1, <2>2 DEF VaultStays, At, Stored, OnePath, FuseInv
  <1> QED
    BY <1>1, <1>2, <1>4, StillCalm, QuietKeeps DEF Quiet

\* The handle's own record is the one that a release marks, and what was
\* there before is not owed any more.
LEMMA ReleaseKeeps ==
  ASSUME TypeInv, FuseInv, NEW f \in File, Release(f)
  PROVE  FuseInv'
  <1> DEFINE n == NameOf(f)
             gone == At(n) \cup {g \in File : Mem(g).name = n /\ Mem(g).staged}
  <1>1. /\ f \in Opened
        /\ owed' = IF f \in Orphans THEN owed ELSE (owed \ gone) \cup {f}
        /\ UNCHANGED <<pending, entries, pc, job, reading>>
    BY DEF Release, Opened, Orphans, WrittenOver, NameOf, At
  <1>2. n \in Name
    <2>1. n # None
      BY <1>1 DEF TypeInv, FilesNamed, Unused, Opened
    <2> QED
      BY <2>1 DEF TypeInv, TypeOK, Staging, NameOf, Mem
  <1>3. /\ pending[n] = f /\ f \notin Moved
        /\ \A t \in Importer : \A g \in File : ~Binds(t, n, g)
    BY <1>1, <1>2 DEF FuseInv, OpenAlone
  <1>4. file' = [[file EXCEPT ![f].open = FALSE] EXCEPT ![f].closed = TRUE]
    <2>1. ReleasedRecord(f) = f
      BY <1>3 DEF ReleasedRecord, NameOf
    <2> QED
      BY <2>1, FuseAssumption DEF Release
  <1>5. /\ Opened' = Opened \ {f} /\ Closed' = Closed \cup {f} /\ Staged' = Staged
        /\ Metas' = Metas /\ Taken' = Taken /\ Moved' = Moved /\ Orphans' = Orphans
        /\ Used' = Used
        /\ \A g \in File : NameOf(g)' = NameOf(g) /\ Mem(g)'.data = Mem(g).data
    BY <1>4, ChangeClosed DEF TypeInv
  <1> HIDE DEF n
  <1>6. /\ \A m \in Name : At(m)' = At(m) /\ f \notin At(m)
        /\ Stored' = Stored /\ OnePath' /\ Whole' /\ f \notin Stored
    <2>1. f \notin Stored
      BY <1>1 DEF FuseInv, StoredClosed
    <2>2. VaultStays
      BY <1>1, <1>5, VaultSays DEF FuseInv
    <2> QED
      BY <2>1, <2>2 DEF VaultStays, Stored
  <1>7. Calm
    BY <1>1, StillCalm
  <1>8. \A u \in Importer : /\ \A m \in Name, g \in File : Binds(u, m, g)' => Binds(u, m, g)
                            /\ \A g \in File : Awaits(u, g)' => Awaits(u, g)
                            /\ \A g \in File : Forcing(u)' /\ g \in Snapped(u)' =>
                                                 Forcing(u) /\ g \in Snapped(u)
    BY <1>7 DEF Calm
  <1>9. /\ Held' = Held /\ \A u \in Importer, g \in File : Holds(u, g)' <=> Holds(u, g)
        /\ \A u \in Importer : Forcing(u)' <=> Forcing(u)
    BY <1>1, <1>7, CalmSays DEF Forcing
  <1>10. f \notin Orphans => f \in Staged /\ f \in Metas /\ f \in Used
    <2>1. f \in Used
      BY <1>2, FuseAssumption DEF Used, NameOf, n
    <2> QED
      BY <1>2, <1>3, <2>1 DEF FuseInv, Spooled
  <1>11. Spooled'
    BY <1>1, <1>5, <1>9 DEF FuseInv, Spooled
  <1>12. OpenAlone'
    <2>1. ASSUME NEW g \in Opened', NEW m \in Name, NameOf(g)' = m
          PROVE  /\ pending'[m] = g /\ g \notin Closed' \ Orphans' /\ g \notin Moved'
                 /\ \A t \in Importer : /\ \A h \in File : ~Binds(t, m, h)'
                                        /\ Forcing(t)' => g \notin Snapped(t)'
      <3>1. g \in Opened /\ g \in File /\ NameOf(g) = m /\ g # f
        BY <2>1, <1>5, InFile
      <3> QED
        BY <3>1, <2>1, <1>1, <1>5, <1>8 DEF FuseInv, OpenAlone
    <2> QED
      BY <2>1 DEF OpenAlone
  <1>13. OwnRecord' /\ OneFile'
    BY <1>1, <1>8 DEF FuseInv, OwnRecord, OneFile
  <1>14. Awaited'
    BY <1>1, <1>5, <1>8, <1>9 DEF FuseInv, Awaited
  <1>15. Exclusive'
    BY <1>5, <1>9 DEF FuseInv, Exclusive
  <1>16. Once'
    BY <1>1, <1>5, <1>8, InFile DEF FuseInv, Once
  <1>17. Dropping'
    BY <1>1, <1>5, <1>9 DEF FuseInv, Dropping
  <1>18. StoredClosed'
    BY <1>5, <1>6 DEF FuseInv, StoredClosed
  <1>19. OwedClosed'
    BY <1>1, <1>5, <1>10 DEF FuseInv, OwedClosed
  <1>20. Leaving' /\ Room'
    BY <1>1, <1>6 DEF FuseInv, Leaving, Room
  <1>21. \A m \in Name, g \in File : ForIt(m, g) => ForIt(m, g)'
    BY <1>1, <1>6 DEF ForIt
  <1>22. Replaces'
    <2>1. ASSUME NEW m \in Name, NEW g \in File, pending'[m] = g, g \notin Opened' \cup Orphans'
          PROVE  ForIt(m, g)'
      <3>1. CASE g = f
        <4>1. m = n
          BY <2>1, <3>1, <1>1, FuseAssumption DEF TypeInv, RecordsNamed, n
        <4> QED
          BY <2>1, <3>1, <4>1, <1>1, <1>5, <1>6 DEF ForIt
      <3>2. CASE g # f
        <4>1. pending[m] = g /\ g \notin Opened \cup Orphans
          BY <2>1, <3>2, <1>1, <1>5
        <4> QED
          BY <4>1, <1>21 DEF FuseInv, Replaces
      <3> QED
        BY <3>1, <3>2
    <2>2. ASSUME NEW m \in Name, NEW g \in File, NEW t \in Importer, Replacing(t, m, g)'
          PROVE  ForIt(m, g)'
      <3>1. Replacing(t, m, g)
        BY <2>2, <1>1, <1>5 DEF Replacing
      <3> QED
        BY <3>1, <1>21 DEF FuseInv, Replaces
    <2> QED
      BY <2>1, <2>2 DEF Replaces
  <1>23. CleanAfter'
    <2>1. ASSUME NEW t \in Importer, NEW g \in File, pc'[t] = "clean", job'[t].file = g, g \in owed'
          PROVE  g \in Stored'
      <3>1. pc[t] = "clean" /\ job[t].file = g
        BY <2>1, <1>1
      <3>2. g # f
        <4>1. SUFFICES ASSUME g = f PROVE FALSE
          OBVIOUS
        <4>2. AtWork(t) /\ job[t].at = n
          BY <3>1, <4>1, AtHand DEF AtWork, n
        <4> QED
          BY <3>1, <4>1, <4>2, <1>3 DEF Binds
      <3> QED
        BY <3>1, <3>2, <2>1, <1>1, <1>6 DEF FuseInv, CleanAfter
    <2> QED
      BY <2>1 DEF CleanAfter
  <1>24. Somewhere'
    BY <1>1, <1>5, <1>6, <1>10 DEF FuseInv, Somewhere
  <1> QED
    BY <1>6, <1>11, <1>12, <1>13, <1>14, <1>15, <1>16, <1>17, <1>18, <1>19, <1>20, <1>22, <1>23,
       <1>24 DEF FuseInv

\* A handle that reads marks no record but of a file that is closed or unlinked.
LEMMA ReleaseReadKeeps ==
  ASSUME TypeInv, FuseInv, Races = {}, NEW r \in Reader, ReleaseRead(r)
  PROVE  FuseInv'
  <1>1. UNCHANGED <<pending, entries, pc, job, owed>>
    BY ReleaseReadSays
  <1>2. Calm
    BY <1>1, StillCalm
  <1>3. CASE UNCHANGED file
    <2>1. Quiet
      BY <1>3, QuietSays
    <2>2. VaultStays
      BY <1>1, <1>3, VaultSays DEF FuseInv, Mem
    <2> QED
      BY <1>1, <1>2, <2>1, <2>2, QuietKeeps
  <1>4. ASSUME NEW p \in File, p \notin Opened \ Orphans, file' = [file EXCEPT ![p].closed = TRUE]
        PROVE  FuseInv'
    <2>1. /\ Closed' = Closed \cup {p}
          /\ Opened' = Opened /\ Staged' = Staged /\ Metas' = Metas /\ Taken' = Taken
          /\ Moved' = Moved /\ Orphans' = Orphans /\ Used' = Used
          /\ \A g \in File : NameOf(g)' = NameOf(g) /\ Mem(g)'.data = Mem(g).data
      BY <1>4, ChangeMarked DEF TypeInv
    <2>2. Quiet
      BY <1>4, <2>1 DEF Quiet
    <2>3. VaultStays
      BY <1>1, <2>1, VaultSays DEF FuseInv
    <2> QED
      BY <1>1, <1>2, <2>2, <2>3, QuietKeeps
  <1> QED
    BY <1>3, <1>4, ReleaseReadSays

\* What is unlinked is not in the vault, since no import has come as far.
LEMMA UnlinkPendingKeeps ==
  ASSUME TypeInv, FuseInv, Races = {}, NEW n \in Name, UnlinkPending(n)
  PROVE  FuseInv'
  <1> DEFINE f == pending[n]
  <1>1. /\ f # None /\ file' = [file EXCEPT ![f] = Orphan(@)] /\ owed' = owed \ {f}
        /\ UNCHANGED <<pending, entries, pc, job, reading>>
        /\ ~\E t \in Importer : pc[t] \in {"clean", "drop"} /\ job[t].at = n
    BY DEF UnlinkPending
  <1>2. f \in File /\ NameOf(f) = n
    BY <1>1 DEF TypeInv, TypeOK, RecordsNamed
  <1>3. f = pending[n]
    OBVIOUS
  <1> HIDE DEF f
  <1>4. /\ Orphans' = Orphans \cup {f} /\ Staged' = Staged \ {f} /\ Metas' = Metas \ {f}
        /\ Opened' = Opened /\ Closed' = Closed /\ Taken' = Taken /\ Moved' = Moved
        /\ Used' = Used
        /\ \A g \in File : NameOf(g)' = NameOf(g)
        /\ \A g \in File : g # f => Mem(g)' = Mem(g)
    BY <1>1, <1>2, ChangeOrphan DEF TypeInv
  <1>5. f \notin Stored
    <2>1. SUFFICES ASSUME f \in Stored PROVE FALSE
      OBVIOUS
    <2>2. PICK t \in Importer : pc[t] \in {"clean", "drop"} /\ job[t].file = f
      BY <2>1, <1>3 DEF FuseInv, Leaving
    <2>3. job[t].at = n
      BY <2>2, <1>2, AtHand DEF AtWork
    <2> QED
      BY <2>2, <2>3, <1>1
  <1>6. /\ \A m \in Name : At(m)' = At(m)
        /\ Stored' = Stored /\ OnePath' /\ Whole'
    <2>1. ASSUME NEW m \in Name, NEW g \in File, NEW i \in DOMAIN entries[m], entries[m][i][1] = g
          PROVE  entries[m][i][2] = Mem(g)'.data
      <3>1. g \in Stored
        BY <2>1 DEF At, Files, Stored
      <3>2. Mem(g)' = Mem(g)
        BY <3>1, <1>4, <1>5
      <3> QED
        BY <2>1, <3>2 DEF FuseInv, Whole
    <2>2. Whole'
      BY <1>1, <2>1 DEF Whole
    <2> QED
      BY <1>1, <2>2 DEF At, Stored, OnePath, FuseInv
  <1>7. Calm
    BY <1>1, StillCalm
  <1>8. \A u \in Importer : /\ \A m \in Name, g \in File : Binds(u, m, g)' => Binds(u, m, g)
                            /\ \A g \in File : Awaits(u, g)' => Awaits(u, g)
                            /\ \A g \in File : Forcing(u)' /\ g \in Snapped(u)' =>
                                                 Forcing(u) /\ g \in Snapped(u)
    BY <1>7 DEF Calm
  <1>9. /\ Held' = Held /\ \A u \in Importer, g \in File : Holds(u, g)' <=> Holds(u, g)
        /\ \A u \in Importer : Forcing(u)' <=> Forcing(u)
    BY <1>1, <1>7, CalmSays DEF Forcing
  <1>10. Spooled'
    BY <1>1, <1>4, <1>9 DEF FuseInv, Spooled
  <1>11. OpenAlone'
    BY <1>1, <1>4, <1>8, InFile DEF FuseInv, OpenAlone
  <1>12. OwnRecord' /\ OneFile'
    BY <1>1, <1>8 DEF FuseInv, OwnRecord, OneFile
  <1>13. Awaited'
    BY <1>1, <1>4, <1>8, <1>9 DEF FuseInv, Awaited
  <1>14. Exclusive'
    BY <1>4, <1>9 DEF FuseInv, Exclusive
  <1>15. Once'
    BY <1>1, <1>4, <1>8, InFile DEF FuseInv, Once
  <1>16. Dropping'
    BY <1>1, <1>4, <1>9 DEF FuseInv, Dropping
  <1>17. StoredClosed' /\ OwedClosed'
    BY <1>1, <1>4, <1>5, <1>6 DEF FuseInv, StoredClosed, OwedClosed
  <1>18. Leaving' /\ Room' /\ CleanAfter'
    BY <1>1, <1>6 DEF FuseInv, Leaving, Room, CleanAfter
  <1>19. Replaces'
    BY <1>1, <1>4, <1>6 DEF FuseInv, Replaces, Replacing, ForIt
  <1>20. Somewhere'
    BY <1>1, <1>4, <1>6 DEF FuseInv, Somewhere
  <1> QED
    BY <1>6, <1>10, <1>11, <1>12, <1>13, <1>14, <1>15, <1>16, <1>17, <1>18, <1>19, <1>20
       DEF FuseInv

----------------------------------------------------------------------------
(* The entries of a path.                                                  *)

\* What a path has, where it has one entry at most.
LEMMA FewEntries ==
  /\ DOMAIN <<>> = {} /\ Files(<<>>) = {}
  /\ \A s \in Seq(Version) : Files(s) = {} => s = <<>>
  /\ \A s \in Seq(Version) : Len(s) <= 1 => /\ s # <<>> => Tail(s) = <<>>
                                            /\ s # <<>> => s = <<Head(s)>>
                                            /\ Displaced(s) = <<>>
  /\ \A v \in Version : /\ Append(<<>>, v) = <<v>> /\ Files(<<v>>) = {v[1]}
                        /\ DOMAIN <<v>> = {1} /\ <<v>>[1] = v /\ Len(<<v>>) = 1
  <1>1. DOMAIN <<>> = {} /\ Files(<<>>) = {}
    <2>1. DOMAIN <<>> = {}
      OBVIOUS
    <2> QED
      BY <2>1 DEF Files
  <1>2. ASSUME NEW s \in Seq(Version), Files(s) = {}
        PROVE  s = <<>>
    <2>1. DOMAIN s = {}
      BY <1>2 DEF Files
    <2> QED
      BY <2>1
  <1>3. ASSUME NEW s \in Seq(Version), Len(s) <= 1
        PROVE  /\ s # <<>> => Tail(s) = <<>>
               /\ s # <<>> => s = <<Head(s)>>
               /\ Displaced(s) = <<>>
    <2>1. s # <<>> => Len(s) = 1
      <3> DEFINE k == Len(s)
      <3>1. k \in Nat /\ k <= 1 /\ (k = 0 => s = <<>>)
        BY <1>3, EmptySeq, LenProperties
      <3> HIDE DEF k
      <3>2. s # <<>> => k = 1
        BY <3>1
      <3> QED
        BY <3>2 DEF k
    <2>2. s # <<>> => Tail(s) = <<>>
      <3>1. s # <<>> => Tail(s) \in Seq(Version) /\ Len(Tail(s)) = 0
        BY <2>1, HeadTailProperties
      <3> QED
        BY <3>1, EmptySeq
    <2>3. s # <<>> => s = <<Head(s)>>
      BY <2>1
    <2> QED
      BY <2>2, <2>3 DEF Displaced
  <1>4. ASSUME NEW v \in Version
        PROVE  /\ Append(<<>>, v) = <<v>> /\ Files(<<v>>) = {v[1]}
               /\ DOMAIN <<v>> = {1} /\ <<v>>[1] = v /\ Len(<<v>>) = 1
    <2>1. DOMAIN <<v>> = {1} /\ <<v>>[1] = v /\ Len(<<v>>) = 1
      OBVIOUS
    <2>2. Files(<<v>>) = {v[1]}
      BY <2>1 DEF Files
    <2>3. Append(<<>>, v) = <<v>>
      OBVIOUS
    <2> QED
      BY <2>1, <2>2, <2>3
  <1> QED
    BY <1>1, <1>2, <1>3, <1>4

\* The entry of a path goes.
LEMMA VaultEmpties ==
  ASSUME TypeInv, FuseInv, NEW n \in Name, entries' = [entries EXCEPT ![n] = <<>>],
         \A g \in File : Mem(g)'.data = Mem(g).data
  PROVE  /\ At(n)' = {} /\ \A m \in Name : m # n => At(m)' = At(m)
         /\ OnePath' /\ Whole'
         /\ Stored' \subseteq Stored /\ \A g \in Stored : g \notin At(n) => g \in Stored'
  <1>1. entries'[n] = <<>> /\ \A m \in Name : m # n => entries'[m] = entries[m]
    BY DEF TypeInv, TypeOK
  <1>2. At(n)' = {} /\ \A m \in Name : m # n => At(m)' = At(m)
    BY <1>1, FewEntries DEF At
  <1>3. OnePath'
    BY <1>1 DEF FuseInv, OnePath
  <1>4. Whole'
    <2>1. DOMAIN entries'[n] = {}
      BY <1>1
    <2> QED
      BY <1>1, <2>1 DEF FuseInv, Whole
  <1>5. Stored' \subseteq Stored /\ \A g \in Stored : g \notin At(n) => g \in Stored'
    BY <1>2 DEF Stored
  <1> QED
    BY <1>2, <1>3, <1>4, <1>5

\* An entry comes to a path that has none.
LEMMA VaultGains ==
  ASSUME TypeInv, FuseInv, NEW n \in Name, NEW f \in File, At(n) = {},
         entries' = [entries EXCEPT ![n] = Append(@, <<f, Mem(f).data>>)],
         \A g \in File : Mem(g)'.data = Mem(g).data
  PROVE  /\ At(n)' = {f} /\ \A m \in Name : m # n => At(m)' = At(m)
         /\ OnePath' /\ Whole' /\ Stored' = Stored \cup {f}
  <1> DEFINE v == <<f, Mem(f).data>>
  <1>1. v \in Version /\ v[1] = f /\ v[2] = Mem(f).data
    BY DEF TypeInv, TypeOK, Version, Staging, Mem
  <1>2. entries[n] = <<>>
    BY FewEntries DEF At, TypeInv, TypeOK
  <1> HIDE DEF v
  <1>3. entries'[n] = <<v>> /\ \A m \in Name : m # n => entries'[m] = entries[m]
    BY <1>1, <1>2, FewEntries DEF TypeInv, TypeOK, v
  <1>4. At(n)' = {f} /\ \A m \in Name : m # n => At(m)' = At(m)
    BY <1>1, <1>3, FewEntries DEF At
  <1>5. OnePath'
    BY <1>1, <1>3, FewEntries DEF FuseInv, OnePath
  <1>6. Whole'
    <2>1. \A i \in DOMAIN entries'[n] : entries'[n][i] = v
      BY <1>1, <1>3, FewEntries
    <2>2. \A g \in File : \A i \in DOMAIN entries'[n] :
            entries'[n][i][1] = g => entries'[n][i][2] = Mem(g)'.data
      BY <1>1, <2>1
    <2>3. \A m \in Name, g \in File : m # n =>
            \A i \in DOMAIN entries'[m] :
              entries'[m][i][1] = g => entries'[m][i][2] = Mem(g)'.data
      BY <1>3 DEF FuseInv, Whole
    <2> QED
      BY <2>2, <2>3 DEF Whole
  <1>7. Stored' = Stored \cup {f}
    BY <1>4 DEF Stored
  <1> QED
    BY <1>4, <1>5, <1>6, <1>7

\* The entry of a path goes to another one.
LEMMA VaultMoves ==
  ASSUME TypeInv, FuseInv, NEW n \in Name, NEW m \in Name, entries[n] # <<>>, entries[m] = <<>>,
         entries'[n] = Tail(entries[n]), entries'[m] = <<Head(entries[n])>>,
         \A k \in Name : k # n /\ k # m => entries'[k] = entries[k],
         \A g \in File : Mem(g)'.data = Mem(g).data
  PROVE  /\ At(n)' = {} /\ At(m)' = At(n) /\ At(m) = {} /\ n # m
         /\ \A k \in Name \ {n, m} : At(k)' = At(k)
         /\ OnePath' /\ Whole' /\ Stored' = Stored
  <1>1. /\ n # m /\ Tail(entries[n]) = <<>> /\ entries[n] = <<Head(entries[n])>>
    BY FewEntries DEF TypeInv, TypeOK, FuseInv, OnePath
  <1>2. /\ entries'[n] = <<>> /\ entries'[m] = entries[n]
        /\ \A k \in Name \ {n, m} : entries'[k] = entries[k]
    BY <1>1 DEF TypeInv, TypeOK
  <1>3. /\ At(n)' = {} /\ At(m)' = At(n) /\ At(m) = {}
        /\ \A k \in Name \ {n, m} : At(k)' = At(k)
    BY <1>2, FewEntries DEF At
  <1>4. OnePath'
    BY <1>2 DEF FuseInv, OnePath
  <1>5. Whole'
    <2>1. \A g \in File : \A i \in DOMAIN entries'[n] :
            entries'[n][i][1] = g => entries'[n][i][2] = Mem(g)'.data
      <3>1. DOMAIN entries'[n] = {}
        <4>1. entries'[n] = <<>>
          BY <1>2, Zenon
        <4> QED
          BY <4>1, FewEntries, Zenon
      <3> QED
        BY <3>1
    <2>2. \A g \in File : \A i \in DOMAIN entries'[m] :
            entries'[m][i][1] = g => entries'[m][i][2] = Mem(g)'.data
      BY <1>2 DEF FuseInv, Whole
    <2>3. ASSUME NEW k \in Name, NEW g \in File, NEW i \in DOMAIN entries'[k],
                 entries'[k][i][1] = g
          PROVE  entries'[k][i][2] = Mem(g)'.data
      <3>1. CASE k = n
        BY <2>1, <2>3, <3>1
      <3>2. CASE k = m
        BY <2>2, <2>3, <3>2
      <3>3. CASE k # n /\ k # m
        <4>1. entries'[k] = entries[k]
          BY <1>2, <3>3
        <4> QED
          BY <2>3, <4>1 DEF FuseInv, Whole
      <3> QED
        BY <3>1, <3>2, <3>3
    <2> QED
      BY <2>3 DEF Whole
  <1>6. Stored' = Stored
    BY <1>1, <1>3 DEF Stored
  <1> QED
    BY <1>1, <1>3, <1>4, <1>5, <1>6

\* What is unlinked in the vault is no longer owed.
LEMMA UnlinkEntryKeeps ==
  ASSUME TypeInv, FuseInv, NEW n \in Name, UnlinkEntry(n)
  PROVE  FuseInv'
  <1>1. /\ entries[n] # <<>> /\ entries' = [entries EXCEPT ![n] = Tail(@)]
        /\ owed' = owed \ At(n) /\ UNCHANGED <<file, pending, pc, job, reading>>
    BY DEF UnlinkEntry, At
  <1>2. entries' = [entries EXCEPT ![n] = <<>>]
    BY <1>1, FewEntries DEF TypeInv, TypeOK, FuseInv, OnePath
  <1>3. Quiet /\ \A g \in File : Mem(g)'.data = Mem(g).data
    BY <1>1, QuietSays DEF Mem
  <1>4. /\ At(n)' = {} /\ \A m \in Name : m # n => At(m)' = At(m)
        /\ OnePath' /\ Whole'
        /\ Stored' \subseteq Stored /\ \A g \in Stored : g \notin At(n) => g \in Stored'
    BY <1>2, <1>3, VaultEmpties
  <1>5. \A m \in Name : At(m)' \subseteq At(m)
    BY <1>4
  <1>6. Calm
    BY <1>1, StillCalm
  <1>7. \A u \in Importer : /\ \A m \in Name, g \in File : Binds(u, m, g)' => Binds(u, m, g)
                            /\ \A g \in File : Awaits(u, g)' => Awaits(u, g)
                            /\ \A g \in File : Forcing(u)' /\ g \in Snapped(u)' =>
                                                 Forcing(u) /\ g \in Snapped(u)
    BY <1>6 DEF Calm
  <1>8. /\ Held' = Held /\ \A u \in Importer, g \in File : Holds(u, g)' <=> Holds(u, g)
        /\ \A u \in Importer : Forcing(u)' <=> Forcing(u)
    BY <1>1, <1>6, CalmSays DEF Forcing
  <1>9. Spooled'
    BY <1>1, <1>3, <1>8 DEF FuseInv, Spooled, Quiet
  <1>10. OpenAlone'
    BY <1>1, <1>3, <1>7, InFile DEF FuseInv, OpenAlone, Quiet
  <1>11. OwnRecord' /\ OneFile'
    BY <1>1, <1>7 DEF FuseInv, OwnRecord, OneFile
  <1>12. Awaited'
    BY <1>1, <1>3, <1>7, <1>8 DEF FuseInv, Awaited, Quiet
  <1>13. Exclusive'
    BY <1>3, <1>8 DEF FuseInv, Exclusive, Quiet
  <1>14. Once'
    BY <1>1, <1>3, <1>7, InFile DEF FuseInv, Once, Quiet
  <1>15. Dropping'
    BY <1>1, <1>3, <1>8 DEF FuseInv, Dropping, Quiet
  <1>16. StoredClosed' /\ OwedClosed'
    BY <1>1, <1>3, <1>4 DEF FuseInv, StoredClosed, OwedClosed, Quiet
  <1>17. Leaving' /\ Room'
    BY <1>1, <1>4, <1>5 DEF FuseInv, Leaving, Room
  <1>18. CleanAfter'
    BY <1>1, <1>4 DEF FuseInv, CleanAfter
  <1>19. Replaces'
    BY <1>1, <1>3, <1>5 DEF FuseInv, Replaces, Replacing, ForIt, Quiet
  <1>20. Somewhere'
    BY <1>1, <1>3, <1>4 DEF FuseInv, Somewhere, Quiet
  <1> QED
    BY <1>4, <1>9, <1>10, <1>11, <1>12, <1>13, <1>14, <1>15, <1>16, <1>17, <1>18, <1>19, <1>20
       DEF FuseInv

\* The entry moves to a path that nothing is about to be imported to.
LEMMA RenameKeeps ==
  ASSUME TypeInv, FuseInv, Races = {}, NEW t \in Importer, RenameEntry(t)
  PROVE  FuseInv'
  <1>1. PICK n \in Name, m \in Name : n = job[t].name /\ m = job[t].to
    BY DEF RenameEntry, TypeInv, Fit
  <1>2. /\ pc[t] = "next" /\ job[t].op = "rename" /\ entries[n] # <<>> /\ entries[m] = <<>>
        /\ Free(m) /\ Return(t) /\ UNCHANGED <<file, pending, reading, owed>>
        /\ entries' = [entries EXCEPT ![n] = Tail(@), ![m] = <<Head(entries[n])>>]
    BY <1>1 DEF RenameEntry
  <1>3. Quiet /\ \A g \in File : Mem(g)'.data = Mem(g).data
    BY <1>2, QuietSays DEF Mem
  <1>4. /\ At(n)' = {} /\ At(m)' = At(n) /\ At(m) = {} /\ n # m
        /\ \A k \in Name \ {n, m} : At(k)' = At(k)
        /\ OnePath' /\ Whole' /\ Stored' = Stored
    <2>1. /\ entries'[n] = Tail(entries[n]) /\ entries'[m] = <<Head(entries[n])>>
          /\ \A k \in Name : k # n /\ k # m => entries'[k] = entries[k]
      BY <1>2 DEF TypeInv, TypeOK
    <2> QED
      BY <1>2, <1>3, <2>1, VaultMoves
  <1>5. /\ pending[m] \in Orphans \cup {None}
        /\ \A u \in Importer, f \in File : ~Binds(u, m, f)
    BY <1>2, FreeSays
  <1>6. \A u \in Importer : AtWork(u) => job[u].at # m
    BY <1>5, AtHand DEF Binds
  <1>7. \A k \in Name : k # m => At(k)' \subseteq At(k)
    BY <1>4
  <1>8. Calm
    BY <1>2, ReturnCalm
  <1>9. \A u \in Importer : /\ \A k \in Name, g \in File : Binds(u, k, g)' => Binds(u, k, g)
                            /\ \A g \in File : Awaits(u, g)' => Awaits(u, g)
                            /\ \A g \in File : Forcing(u)' /\ g \in Snapped(u)' =>
                                                 Forcing(u) /\ g \in Snapped(u)
    BY <1>8 DEF Calm
  <1>10. /\ Held' = Held
         /\ \A u \in Importer, f \in File : Holds(u, f)' <=> Holds(u, f)
         /\ \A u \in Importer, s \in {"claim", "stat", "remove", "put", "clean", "drop"} :
              /\ pc'[u] = s <=> pc[u] = s
              /\ pc[u] = s => /\ job'[u].file = job[u].file /\ job'[u].at = job[u].at
                              /\ Forcing(u)' <=> Forcing(u)
    BY <1>8, CalmSays
  <1>11. Spooled'
    BY <1>2, <1>3, <1>10 DEF FuseInv, Spooled, Quiet
  <1>12. OpenAlone'
    BY <1>2, <1>3, <1>9, InFile DEF FuseInv, OpenAlone, Quiet
  <1>13. OwnRecord' /\ OneFile'
    BY <1>2, <1>9 DEF FuseInv, OwnRecord, OneFile
  <1>14. Awaited'
    BY <1>2, <1>3, <1>9, <1>10 DEF FuseInv, Awaited, Quiet
  <1>15. Exclusive'
    BY <1>3, <1>10 DEF FuseInv, Exclusive, Quiet
  <1>16. Once'
    BY <1>2, <1>3, <1>9, <1>10, InFile DEF FuseInv, Once, Quiet
  <1>17. Dropping'
    BY <1>3, <1>10 DEF FuseInv, Dropping, Quiet
  <1>18. StoredClosed' /\ OwedClosed'
    BY <1>2, <1>3, <1>4 DEF FuseInv, StoredClosed, OwedClosed, Quiet
  <1>19. Leaving'
    BY <1>2, <1>4, <1>10 DEF FuseInv, Leaving
  <1>20. Room'
    BY <1>4, <1>6, <1>7, <1>10 DEF FuseInv, Room, AtWork
  <1>21. CleanAfter'
    BY <1>2, <1>4, <1>10 DEF FuseInv, CleanAfter
  <1>22. Replaces'
    <2>1. ASSUME NEW k \in Name, NEW g \in File, pending'[k] = g, g \notin Opened' \cup Orphans'
          PROVE  ForIt(k, g)'
      <3>1. k # m /\ pending[k] = g /\ g \notin Opened \cup Orphans
        BY <2>1, <1>2, <1>3, <1>5, FuseAssumption DEF Quiet
      <3> QED
        BY <3>1, <1>2, <1>7 DEF FuseInv, Replaces, ForIt
    <2>2. ASSUME NEW k \in Name, NEW g \in File, NEW u \in Importer, Replacing(u, k, g)'
          PROVE  ForIt(k, g)'
      <3>1. Replacing(u, k, g)
        BY <2>2, <1>3, <1>10 DEF Replacing, Quiet
      <3>2. k # m
        BY <3>1, <1>6 DEF Replacing, AtWork
      <3> QED
        BY <3>1, <3>2, <1>2, <1>7 DEF FuseInv, Replaces, ForIt
    <2> QED
      BY <2>1, <2>2 DEF Replaces
  <1>23. Somewhere'
    BY <1>2, <1>3, <1>4, <1>10 DEF FuseInv, Somewhere, Quiet
  <1> QED
    BY <1>4, <1>11, <1>12, <1>13, <1>14, <1>15, <1>16, <1>17, <1>18, <1>19, <1>20, <1>21, <1>22,
       <1>23 DEF FuseInv

\* A request that ends and does nothing more, or opens a file for writing.
LEMMA EndKeeps ==
  ASSUME TypeInv, FuseInv, Races = {}, NEW t \in Importer,
         Done(t) \/ (\E r \in Reader : OpenRead(t, r)) \/ \E f \in File : OpenWrite(t, f)
  PROVE  FuseInv'
  <1>1. CASE Done(t) \/ \E r \in Reader : OpenRead(t, r)
    <2>1. pc[t] = "next" /\ Return(t) /\ UNCHANGED <<file, pending, entries, owed>>
      BY <1>1 DEF Done, OpenRead
    <2>2. Calm /\ Quiet
      BY <2>1, ReturnCalm, QuietSays
    <2>3. VaultStays
      BY <2>1, VaultSays DEF FuseInv, Mem
    <2> QED
      BY <2>1, <2>2, <2>3, QuietKeeps
  <1>2. ASSUME NEW f \in File, OpenWrite(t, f)
        PROVE  FuseInv'
    <2>1. /\ pc[t] = "next" /\ job[t].op = "open" /\ Free(job[t].name) /\ Register(job[t].name, f)
          /\ Return(t) /\ UNCHANGED <<entries, reading, owed>>
      BY <1>2 DEF OpenWrite
    <2>2. job[t].name \in Name
      BY <2>1 DEF TypeInv, Fit
    <2>3. Calm
      BY <2>1, ReturnCalm
    <2> QED
      BY <2>1, <2>2, <2>3, RegisterKeeps
  <1> QED
    BY <1>1, <1>2

----------------------------------------------------------------------------
(* Requests: what they begin with, and what they pick.                     *)

\* All but t are as before.
LEMMA OthersStill ==
  ASSUME NEW t \in Importer, Others(t)
  PROVE  \A u \in Importer : u # t =>
           /\ AtWork(u)' <=> AtWork(u)
           /\ Forcing(u)' <=> Forcing(u)
           /\ Snapped(u)' = Snapped(u)
           /\ \A n \in Name, f \in File : Binds(u, n, f)' <=> Binds(u, n, f)
           /\ \A f \in File : /\ Holds(u, f)' <=> Holds(u, f)
                              /\ Awaits(u, f)' <=> Awaits(u, f)
           /\ pc'[u] = pc[u] /\ job'[u] = job[u]
  BY Still DEF Others

\* A step of t that is none of importPending.
LEMMA NoHold ==
  ASSUME NEW t \in Importer, Others(t), ~Holding(t), ~Holding(t)'
  PROVE  /\ Held' = Held
         /\ \A u \in Importer, f \in File : Holds(u, f)' <=> Holds(u, f)
         /\ \A u \in Importer, s \in {"stat", "remove", "put", "clean"} :
              /\ pc'[u] = s <=> pc[u] = s
              /\ pc[u] = s => job'[u].file = job[u].file /\ job'[u].at = job[u].at
  <1>1. \A u \in Importer, f \in File : Holds(u, f)' <=> Holds(u, f)
    BY OthersStill DEF Holds
  <1>2. Held' = Held
    BY <1>1 DEF Held
  <1>3. \A u \in Importer, s \in {"stat", "remove", "put", "clean"} :
          /\ pc'[u] = s <=> pc[u] = s
          /\ pc[u] = s => job'[u].file = job[u].file /\ job'[u].at = job[u].at
    BY DEF Others, Holding
  <1> QED
    BY <1>1, <1>2, <1>3

\* What a request that imports at once finds open it does not begin with.
LEMMA BeginKeeps ==
  ASSUME TypeInv, FuseInv, NEW t \in Importer, NEW op \in Op, NEW ns \in SUBSET Name,
         NEW n \in Name \cup {None}, NEW to \in Name \cup {None}, Begin(t, op, ns, n, to),
         op \in {"list", "settle", "rename"} => \A m \in ns : pending[m] \notin Opened
  PROVE  FuseInv'
  <1>1. /\ Others(t) /\ pc[t] = "idle" /\ pc'[t] = "next"
        /\ job'[t].op = op /\ job'[t].todo = Snapshot(ns)
        /\ UNCHANGED <<file, pending, entries, reading, owed>>
    BY BeginSays DEF TypeInv
  <1>2. Quiet /\ VaultStays
    BY <1>1, QuietSays, VaultSays DEF FuseInv, Mem
  <1>3. \A f \in File : f \in Snapped(t)' <=> \E m \in ns : pending[m] = f
    <2> TAKE f \in File
    <2>1. f \in Snapped(t)' <=> \E m \in Name : <<m, f>> \in Snapshot(ns)
      BY <1>1 DEF Snapped
    <2>2. \A m \in Name : <<m, f>> \in Snapshot(ns) <=> m \in ns /\ pending[m] = f
      <3>1. TypeOK /\ f # None
        BY FuseAssumption DEF TypeInv
      <3> QED
        BY <3>1, SnapshotSays
    <2> QED
      BY <2>1, <2>2
  <1>4. \A f \in File : Awaits(t, f)' <=> f \in Snapped(t)'
    BY <1>1 DEF Awaits
  <1>5. ASSUME NEW m \in Name, NEW f \in File, Binds(t, m, f)'
        PROVE  op \in {"settle", "rename"} /\ m \in ns /\ pending[m] = f
    <2>1. op \in {"settle", "rename"} /\ <<m, f>> \in Snapshot(ns)
      BY <1>1, <1>5 DEF Binds, AtWork, Settling
    <2> QED
      BY <2>1, SnapshotSays DEF TypeInv
  <1>6. Forcing(t)' <=> op \in {"list", "settle", "rename"}
    BY <1>1 DEF Forcing
  <1>7. \A u \in Importer : u # t =>
           /\ AtWork(u)' <=> AtWork(u)
           /\ Forcing(u)' <=> Forcing(u)
           /\ Snapped(u)' = Snapped(u)
           /\ \A m \in Name, f \in File : Binds(u, m, f)' <=> Binds(u, m, f)
           /\ \A f \in File : /\ Holds(u, f)' <=> Holds(u, f)
                              /\ Awaits(u, f)' <=> Awaits(u, f)
           /\ pc'[u] = pc[u] /\ job'[u] = job[u]
    BY <1>1, OthersStill
  <1>8. /\ Held' = Held
        /\ \A u \in Importer, f \in File : Holds(u, f)' <=> Holds(u, f)
        /\ \A u \in Importer, s \in {"stat", "remove", "put", "clean"} :
             /\ pc'[u] = s <=> pc[u] = s
             /\ pc[u] = s => job'[u].file = job[u].file /\ job'[u].at = job[u].at
    BY <1>1, NoHold DEF Holding
  <1>9. Spooled'
    BY <1>1, <1>2, <1>8 DEF FuseInv, Spooled, Quiet
  <1>10. OpenAlone'
    <2>1. ASSUME NEW f \in Opened', NEW m \in Name, NameOf(f)' = m
          PROVE  /\ pending'[m] = f /\ f \notin Closed' \ Orphans' /\ f \notin Moved'
                 /\ \A u \in Importer : /\ \A g \in File : ~Binds(u, m, g)'
                                        /\ Forcing(u)' => f \notin Snapped(u)'
      <3>1. f \in Opened /\ f \in File /\ NameOf(f) = m
        BY <2>1, <1>2, InFile DEF Quiet
      <3>2. /\ pending[m] = f /\ f \notin Closed \ Orphans /\ f \notin Moved
            /\ \A u \in Importer : /\ \A g \in File : ~Binds(u, m, g)
                                   /\ Forcing(u) => f \notin Snapped(u)
        BY <3>1 DEF FuseInv, OpenAlone
      <3>3. \A g \in File : ~Binds(t, m, g)'
        BY <3>1, <3>2, <1>5
      <3>4. Forcing(t)' => f \notin Snapped(t)'
        BY <3>1, <1>3, <1>6
      <3> QED
        BY <3>2, <3>3, <3>4, <1>1, <1>2, <1>7 DEF Quiet
    <2> QED
      BY <2>1 DEF OpenAlone
  <1>11. OwnRecord'
    BY <1>1, <1>5, <1>7 DEF FuseInv, OwnRecord
  <1>12. OneFile'
    <2>1. ASSUME NEW u \in Importer, NEW m \in Name, NEW f \in File, NEW g \in File,
                 Binds(t, m, f)', Binds(u, m, g)'
          PROVE  f = g
      <3>1. CASE u = t
        BY <2>1, <3>1, <1>5
      <3>2. CASE u # t
        BY <2>1, <3>2, <1>5, <1>7, FuseAssumption DEF FuseInv, OwnRecord
      <3> QED
        BY <3>1, <3>2
    <2>2. ASSUME NEW u \in Importer, NEW v \in Importer, NEW m \in Name, NEW f \in File,
                 NEW g \in File, Binds(u, m, f)', Binds(v, m, g)'
          PROVE  f = g
      <3>1. CASE u = t \/ v = t
        BY <2>1, <2>2, <3>1
      <3>2. CASE u # t /\ v # t
        BY <2>2, <3>2, <1>7 DEF FuseInv, OneFile
      <3> QED
        BY <3>1, <3>2
    <2> QED
      BY <2>2 DEF OneFile
  <1>13. Awaited'
    <2>1. ASSUME NEW u \in Importer, NEW f \in File, Awaits(u, f)'
          PROVE  f \in Orphans \cup Moved \cup Held \/ \E m \in Name : pending[m] = f
      BY <2>1, <1>3, <1>4, <1>7 DEF FuseInv, Awaited
    <2> QED
      BY <2>1, <1>1, <1>2, <1>8 DEF Awaited, Quiet
  <1>14. Exclusive'
    BY <1>2, <1>8 DEF FuseInv, Exclusive, Quiet
  <1>15. Once'
    <2>1. ASSUME NEW f \in Moved \ Taken, NEW u \in Importer
          PROVE  ~Awaits(u, f)'
      BY <2>1, <1>3, <1>4, <1>7, InFile DEF FuseInv, Once
    <2> QED
      BY <2>1, <1>1, <1>2, <1>8 DEF FuseInv, Once, Quiet
  <1>16. Dropping'
    BY <1>1, <1>2, <1>7, <1>8 DEF FuseInv, Dropping, Quiet
  <1>17. StoredClosed' /\ OwedClosed' /\ Whole' /\ OnePath'
    BY <1>1, <1>2 DEF FuseInv, StoredClosed, OwedClosed, Quiet, VaultStays
  <1>18. Leaving' /\ Room' /\ CleanAfter'
    BY <1>1, <1>2, <1>7 DEF FuseInv, Leaving, Room, CleanAfter, VaultStays
  <1>19. Replaces'
    BY <1>1, <1>2, <1>7 DEF FuseInv, Replaces, Replacing, ForIt, VaultStays, Quiet
  <1>20. Somewhere'
    BY <1>1, <1>2, <1>7 DEF FuseInv, Somewhere, VaultStays, Quiet
  <1> QED
    BY <1>9, <1>10, <1>11, <1>12, <1>13, <1>14, <1>15, <1>16, <1>17, <1>18, <1>19, <1>20
       DEF FuseInv

\* Every request that begins keeps the invariant.
LEMMA RequestKeeps ==
  ASSUME TypeInv, FuseInv, Races = {}, Tick \/ Requests
  PROVE  FuseInv'
  <1>1. ASSUME NEW ns \in SUBSET Name, NoneOpen(ns)
        PROVE  \A m \in ns : pending[m] \notin Opened
    BY <1>1 DEF NoneOpen, Opened
  <1>2. CASE Tick
    <2>1. Begin(Janitor, "tick", Name, None, None) /\ Janitor \in Importer /\ "tick" \in Op
      BY <1>2 DEF Tick, Importer, Op
    <2> QED
      BY <2>1, BeginKeeps
  <1>3. ASSUME NEW t \in Thread,
               \/ OpenDir(t) \/ Settle(t)
               \/ \E n \in Name : Open(t, n)
               \/ \E n, to \in Name : Rename(t, n, to)
        PROVE  FuseInv'
    <2>1. t \in Importer
      BY DEF Importer
    <2>2. {"open", "list", "settle", "rename"} \subseteq Op
      BY DEF Op
    <2>3. CASE OpenDir(t) \/ Settle(t)
      <3>1. PICK op \in {"list", "settle"} : Begin(t, op, Name, None, None)
        BY <2>3 DEF OpenDir, Settle
      <3>2. \A m \in Name : pending[m] \notin Opened
        BY <2>3, <1>1 DEF OpenDir, Settle
      <3> QED
        BY <3>1, <3>2, <2>1, <2>2, BeginKeeps
    <2>4. CASE \E n \in Name : Open(t, n)
      <3>1. PICK n \in Name : Begin(t, "open", {n}, n, None)
        BY <2>4 DEF Open
      <3>2. {n} \in SUBSET Name /\ "open" \in Op
        BY <2>2
      <3> QED
        BY <3>1, <3>2, <2>1, BeginKeeps
    <2>5. CASE \E n, to \in Name : Rename(t, n, to)
      <3>1. PICK n \in Name, to \in Name : NoneOpen({n}) /\ Begin(t, "rename", {n}, n, to)
        BY <2>5 DEF Rename
      <3>2. {n} \in SUBSET Name /\ "rename" \in Op
        BY <2>2
      <3>3. \A m \in {n} : pending[m] \notin Opened
        BY <3>1, <3>2, <1>1
      <3> QED
        BY <3>1, <3>2, <3>3, <2>1, BeginKeeps
    <2> QED
      BY <1>3, <2>3, <2>4, <2>5
  <1> QED
    BY <1>2, <1>3 DEF Requests

\* What a step of importPending leaves of who waits for what.
LEMMA WorkSays ==
  ASSUME TypeInv, NEW t \in Importer, AtWork(t), Others(t), Rest(t)' = Rest(t),
         pc'[t] # "claim", pc'[t] = "next" \/ job'[t] = job[t]
  PROVE  /\ \A u \in Importer :
              /\ \A n \in Name, g \in File : Binds(u, n, g)' => Binds(u, n, g)
              /\ \A g \in File : Awaits(u, g)' => Awaits(u, g)
              /\ \A g \in File : Forcing(u)' /\ g \in Snapped(u)' =>
                                   Forcing(u) /\ g \in Snapped(u)
              /\ Forcing(u)' <=> Forcing(u)
         /\ \A u \in Importer : u # t =>
              /\ pc'[u] = pc[u] /\ job'[u] = job[u]
              /\ \A g \in File : Holds(u, g)' <=> Holds(u, g)
  <1>1. job'[t].op = job[t].op /\ job'[t].todo = job[t].todo
    BY DEF Rest
  <1>2. Snapped(t)' = Snapped(t) /\ (Forcing(t)' <=> Forcing(t)) /\ (Settling(t)' <=> Settling(t))
    BY <1>1 DEF Snapped, Forcing, Settling
  <1>3. AtWork(t)' => job'[t] = job[t]
    BY DEF AtWork
  <1>4. \A n \in Name, g \in File : Binds(t, n, g)' => Binds(t, n, g)
    BY <1>1, <1>2, <1>3 DEF Binds
  <1>5. \A g \in File : Awaits(t, g)' => Awaits(t, g)
    BY <1>2 DEF Awaits
  <1> QED
    BY <1>2, <1>4, <1>5, OthersStill DEF Others

\* What is picked is still there, or nothing is left to import of it.
LEMMA PickKeeps ==
  ASSUME TypeInv, FuseInv, NEW t \in Importer, Pick(t)
  PROVE  FuseInv'
  <1>1. PICK n \in Name, f \in File :
          /\ <<n, f>> \in job[t].todo /\ Others(t) /\ pc[t] = "next"
          /\ job'[t].op = job[t].op /\ job'[t].todo = job[t].todo \ {<<n, f>>}
          /\ \/ /\ job'[t].at = n /\ job'[t].file = f
                /\ \/ pc'[t] = "claim" /\ Ready(job[t].op, f)
                   \/ pc'[t] = "drop" /\ job[t].op = "settle" /\ ~Ready(job[t].op, f)
             \/ pc'[t] = "next" /\ job[t].op # "settle" /\ ~Ready(job[t].op, f)
          /\ UNCHANGED <<file, pending, entries, reading, owed>>
    <2>1. PICK x \in job[t].todo :
            /\ Others(t) /\ pc[t] = "next" /\ x \in Name \X File
            /\ job'[t].op = job[t].op /\ job'[t].todo = job[t].todo \ {x}
            /\ \/ /\ job'[t].at = x[1] /\ job'[t].file = x[2]
                  /\ \/ pc'[t] = "claim" /\ Ready(job[t].op, x[2])
                     \/ pc'[t] = "drop" /\ job[t].op = "settle" /\ ~Ready(job[t].op, x[2])
               \/ pc'[t] = "next" /\ job[t].op # "settle" /\ ~Ready(job[t].op, x[2])
            /\ UNCHANGED <<file, pending, entries, reading, owed>>
      BY PickSays DEF TypeInv
    <2>2. x = <<x[1], x[2]>> /\ x[1] \in Name /\ x[2] \in File
      BY <2>1
    <2> QED
      BY <2>1, <2>2
  <1>2. NameOf(f) = n /\ f \in Snapped(t) /\ ~AtWork(t) /\ n # None /\ f # None
    <2>1. NameOf(f) = n
      BY <1>1 DEF TypeInv, Fit
    <2> QED
      BY <2>1, <1>1, FuseAssumption DEF Snapped, AtWork
  <1>3. Quiet /\ VaultStays
    BY <1>1, QuietSays, VaultSays DEF FuseInv, Mem
  <1>4. /\ Held' = Held
        /\ \A u \in Importer, g \in File : Holds(u, g)' <=> Holds(u, g)
        /\ \A u \in Importer, s \in {"stat", "remove", "put", "clean"} :
             /\ pc'[u] = s <=> pc[u] = s
             /\ pc[u] = s => job'[u].file = job[u].file /\ job'[u].at = job[u].at
    BY <1>1, NoHold DEF Holding
  <1>5. \A u \in Importer : u # t =>
           /\ AtWork(u)' <=> AtWork(u)
           /\ Forcing(u)' <=> Forcing(u)
           /\ Snapped(u)' = Snapped(u)
           /\ \A m \in Name, g \in File : Binds(u, m, g)' <=> Binds(u, m, g)
           /\ \A g \in File : /\ Holds(u, g)' <=> Holds(u, g)
                              /\ Awaits(u, g)' <=> Awaits(u, g)
           /\ pc'[u] = pc[u] /\ job'[u] = job[u]
    BY <1>1, OthersStill
  <1>6. Snapped(t)' \subseteq Snapped(t) /\ (Forcing(t)' <=> Forcing(t))
    BY <1>1 DEF Snapped, Forcing
  <1>7. \A u \in Importer, g \in File : Awaits(u, g)' => Awaits(u, g)
    <2>1. \A g \in File : Awaits(t, g)' => Awaits(t, g)
      BY <1>1, <1>2, <1>6 DEF Awaits
    <2> QED
      BY <2>1, <1>5
  <1>8. /\ pc'[t] = "drop" => f \in Orphans \cup Moved
        /\ pc'[t] = "claim" /\ job[t].op # "rename" => f \notin Orphans \cup Moved
        /\ pc'[t] = "claim" /\ job[t].op \in {"tick", "open"} => f \in Closed
        /\ pc'[t] = "claim" => Forcing(t) \/ f \in Closed
    <2>1. TypeOK /\ job[t].op \in Op
      BY DEF TypeInv, TypeOK, Job
    <2>2. (f \in Orphans <=> Mem(f).orphan) /\ (f \in Moved <=> Mem(f).imported)
          /\ (f \in Closed <=> Mem(f).closed)
      BY <2>1, Fields
    <2>3. Unimported(f) <=> f \notin Orphans \cup Moved
      BY <2>2 DEF Unimported
    <2>4. /\ job[t].op \in {"tick", "open"} => (Ready(job[t].op, f) => f \in Closed /\ Unimported(f))
          /\ job[t].op \in {"list", "settle"} => (Ready(job[t].op, f) <=> Unimported(f))
      BY <2>2 DEF Ready
    <2>5. Forcing(t) <=> job[t].op \notin {"tick", "open"}
      BY <2>1 DEF Forcing, Op
    <2> QED
      BY <1>1, <2>1, <2>3, <2>4, <2>5 DEF Op
  <1>9. f \in Orphans \cup Moved \cup Held \/ pending[n] = f
    <2>1. Awaits(t, f)
      BY <1>2 DEF Awaits
    <2>2. \A m \in Name : pending[m] = f => m = n
      BY <1>2 DEF TypeInv, RecordsNamed
    <2> QED
      BY <2>1, <2>2 DEF FuseInv, Awaited
  <1>10. ASSUME NEW m \in Name, NEW g \in File, Binds(t, m, g)'
         PROVE  \/ Binds(t, m, g)
                \/ /\ m = n /\ g = f /\ pc'[t] = "claim" /\ job[t].op # "rename"
                   /\ pending[n] = f \/ \E u \in Importer : Binds(u, n, f)
    <2>1. Settling(t)' <=> Settling(t)
      BY <1>1 DEF Settling
    <2>2. CASE Settling(t)' /\ <<m, g>> \in job'[t].todo
      BY <1>1, <2>1, <2>2 DEF Binds
    <2>3. CASE AtWork(t)' /\ job'[t].at = m /\ job'[t].file = g
      <3>1. m = n /\ g = f /\ pc'[t] \in {"claim", "drop"}
        BY <1>1, <2>3 DEF AtWork
      <3>2. CASE Settling(t)
        BY <1>1, <3>1, <3>2 DEF Binds
      <3>3. CASE ~Settling(t)
        <4>1. job[t].op \notin {"settle", "rename"} /\ pc'[t] = "claim"
          BY <1>1, <3>1, <3>3 DEF Settling
        <4>2. f \in Held \/ pending[n] = f
          BY <4>1, <1>8, <1>9
        <4>3. f \in Held => \E u \in Importer : Binds(u, n, f)
          <5>1. ASSUME NEW u \in Importer, Holds(u, f)
                PROVE  Binds(u, n, f)
            BY <5>1, <1>2, AtHand DEF Holds, Holding, AtWork, Binds
          <5> QED
            BY <5>1 DEF Held
        <4> QED
          BY <3>1, <4>1, <4>2, <4>3
      <3> QED
        BY <3>2, <3>3
    <2> QED
      BY <1>10, <2>2, <2>3 DEF Binds
  <1>11. \A u \in Importer, m \in Name, g \in File : Binds(u, m, g)' =>
           pending[m] = g \/ \E v \in Importer : Binds(v, m, g)
    BY <1>5, <1>10
  <1>12. Spooled'
    BY <1>1, <1>3, <1>4 DEF FuseInv, Spooled, Quiet
  <1>13. OpenAlone'
    <2>1. ASSUME NEW g \in Opened, NEW m \in Name, NameOf(g) = m
          PROVE  /\ pending[m] = g /\ g \notin Closed \ Orphans /\ g \notin Moved
                 /\ \A u \in Importer : /\ \A h \in File : ~Binds(u, m, h)'
                                        /\ Forcing(u)' => g \notin Snapped(u)'
      <3>1. /\ pending[m] = g /\ g \notin Closed \ Orphans /\ g \notin Moved /\ g \in File
            /\ \A u \in Importer : /\ \A h \in File : ~Binds(u, m, h)
                                   /\ Forcing(u) => g \notin Snapped(u)
        BY <2>1, InFile DEF FuseInv, OpenAlone
      <3>2. ASSUME NEW h \in File, Binds(t, m, h)'
            PROVE  FALSE
        <4>1. m = n /\ h = f /\ pc'[t] = "claim" /\ pending[n] = f
          BY <3>1, <3>2, <1>10
        <4>2. f = g
          BY <3>1, <4>1
        <4>3. job[t].op = "rename" => Forcing(t)
          BY DEF Forcing
        <4> QED
          BY <3>1, <4>1, <4>2, <4>3, <1>2, <1>8
      <3> QED
        BY <3>1, <3>2, <1>5, <1>6
    <2> QED
      BY <2>1, <1>1, <1>3, InFile DEF OpenAlone, Quiet
  <1>14. OwnRecord'
    BY <1>1, <1>11 DEF FuseInv, OwnRecord
  <1>15. OneFile'
    <2>1. ASSUME NEW m \in Name, NEW g \in File, NEW h \in File,
                 pending[m] = g \/ \E u \in Importer : Binds(u, m, g),
                 pending[m] = h \/ \E u \in Importer : Binds(u, m, h)
          PROVE  g = h
      BY <2>1, FuseAssumption DEF FuseInv, OwnRecord, OneFile
    <2> QED
      BY <2>1, <1>11 DEF OneFile
  <1>16. Awaited'
    BY <1>1, <1>3, <1>4, <1>7 DEF FuseInv, Awaited, Quiet
  <1>17. Exclusive'
    BY <1>3, <1>4 DEF FuseInv, Exclusive, Quiet
  <1>18. Once'
    BY <1>1, <1>3, <1>4, <1>7, InFile DEF FuseInv, Once, Quiet
  <1>19. Dropping'
    BY <1>1, <1>3, <1>4, <1>5, <1>8 DEF FuseInv, Dropping, Quiet
  <1>20. StoredClosed' /\ OwedClosed' /\ Whole' /\ OnePath'
    BY <1>1, <1>3 DEF FuseInv, StoredClosed, OwedClosed, Quiet, VaultStays
  <1>21. Leaving' /\ Room' /\ CleanAfter'
    BY <1>1, <1>3, <1>4, <1>5 DEF FuseInv, Leaving, Room, CleanAfter, VaultStays
  <1>22. Replaces'
    <2>1. ASSUME pc'[t] = "claim", f \in Staged \ Taken
          PROVE  ForIt(n, f)
      <3>1. pending[n] = f
        BY <2>1, <1>9 DEF FuseInv, Spooled, Exclusive
      <3>2. f \notin Orphans
        BY <2>1 DEF FuseInv, Spooled
      <3>3. f \notin Opened
        BY <2>1, <3>2, <1>2, <1>8 DEF FuseInv, OpenAlone
      <3> QED
        BY <3>1, <3>2, <3>3 DEF FuseInv, Replaces
    <2>2. ASSUME NEW m \in Name, NEW g \in File, NEW u \in Importer, Replacing(u, m, g)'
          PROVE  ForIt(m, g)
      <3>1. CASE u = t
        BY <1>1, <1>3, <2>1, <2>2, <3>1 DEF Replacing, Quiet
      <3>2. CASE u # t
        <4>1. Replacing(u, m, g)
          BY <1>3, <1>5, <2>2, <3>2 DEF Replacing, Quiet
        <4> QED
          BY <4>1 DEF FuseInv, Replaces
      <3> QED
        BY <3>1, <3>2
    <2> QED
      BY <2>2, <1>1, <1>3 DEF FuseInv, Replaces, ForIt, VaultStays, Quiet
  <1>23. Somewhere'
    BY <1>1, <1>3, <1>4 DEF FuseInv, Somewhere, VaultStays, Quiet
  <1> QED
    BY <1>12, <1>13, <1>14, <1>15, <1>16, <1>17, <1>18, <1>19, <1>20, <1>21, <1>22, <1>23
       DEF FuseInv

\* Who finds the file taken leaves it to the one that has it.
LEMMA BusyKeeps ==
  ASSUME TypeInv, FuseInv, NEW t \in Importer, Claim(t), Busy(job[t].file)
  PROVE  FuseInv'
  <1>1. PICK f \in File, n \in Name : f = job[t].file /\ n = job[t].at /\ NameOf(f) = n
    BY AtHand DEF Claim, AtWork
  <1>2. /\ pc[t] = "claim" /\ Refused(t) /\ UNCHANGED <<file, pending, entries, reading, owed>>
        /\ AtWork(t) /\ f \in Taken
    BY <1>1 DEF Claim, AtWork, Busy, Taken
  <1>3. /\ Others(t) /\ Rest(t)' = Rest(t)
        /\ \/ Forcing(t) /\ pc'[t] = "drop" /\ job'[t] = job[t]
           \/ ~Forcing(t) /\ pc'[t] = "next"
    BY <1>2, RefusedSays DEF TypeInv
  <1>4. Quiet /\ VaultStays
    BY <1>2, QuietSays, VaultSays DEF FuseInv, Mem
  <1>5. /\ \A u \in Importer :
             /\ \A m \in Name, g \in File : Binds(u, m, g)' => Binds(u, m, g)
             /\ \A g \in File : Awaits(u, g)' => Awaits(u, g)
             /\ \A g \in File : Forcing(u)' /\ g \in Snapped(u)' =>
                                  Forcing(u) /\ g \in Snapped(u)
             /\ Forcing(u)' <=> Forcing(u)
        /\ \A u \in Importer : u # t => pc'[u] = pc[u] /\ job'[u] = job[u]
    BY <1>2, <1>3, WorkSays
  <1>6. /\ Held' = Held
        /\ \A u \in Importer, g \in File : Holds(u, g)' <=> Holds(u, g)
        /\ \A u \in Importer, s \in {"stat", "remove", "put", "clean"} :
             /\ pc'[u] = s <=> pc[u] = s
             /\ pc[u] = s => job'[u].file = job[u].file /\ job'[u].at = job[u].at
    BY <1>2, <1>3, NoHold DEF Holding
  <1>7. Spooled'
    BY <1>2, <1>4, <1>6 DEF FuseInv, Spooled, Quiet
  <1>8. OpenAlone'
    BY <1>2, <1>4, <1>5, InFile DEF FuseInv, OpenAlone, Quiet
  <1>9. OwnRecord' /\ OneFile'
    BY <1>2, <1>5 DEF FuseInv, OwnRecord, OneFile
  <1>10. Awaited'
    BY <1>2, <1>4, <1>5, <1>6 DEF FuseInv, Awaited, Quiet
  <1>11. Exclusive'
    BY <1>4, <1>6 DEF FuseInv, Exclusive, Quiet
  <1>12. Once'
    BY <1>2, <1>4, <1>5, <1>6, InFile DEF FuseInv, Once, Quiet
  <1>13. Dropping'
    BY <1>1, <1>2, <1>3, <1>4, <1>5, <1>6 DEF FuseInv, Dropping, Exclusive, Quiet
  <1>14. StoredClosed' /\ OwedClosed' /\ Whole' /\ OnePath'
    BY <1>2, <1>4 DEF FuseInv, StoredClosed, OwedClosed, Quiet, VaultStays
  <1>15. Leaving' /\ Room' /\ CleanAfter'
    BY <1>2, <1>4, <1>5, <1>6 DEF FuseInv, Leaving, Room, CleanAfter, VaultStays
  <1>16. Replaces'
    BY <1>2, <1>3, <1>4, <1>5 DEF FuseInv, Replaces, Replacing, ForIt, VaultStays, Quiet
  <1>17. Somewhere'
    BY <1>2, <1>4, <1>6 DEF FuseInv, Somewhere, VaultStays, Quiet
  <1> QED
    BY <1>7, <1>8, <1>9, <1>10, <1>11, <1>12, <1>13, <1>14, <1>15, <1>16, <1>17 DEF FuseInv

\* What importPending takes has not been imported yet.
LEMMA ClaimKeeps ==
  ASSUME TypeInv, FuseInv, NEW t \in Importer, Claim(t)
  PROVE  FuseInv'
  <1>1. PICK f \in File, n \in Name : f = job[t].file /\ n = job[t].at /\ NameOf(f) = n
    BY AtHand DEF Claim, AtWork
  <1>2. CASE Busy(f)
    BY <1>1, <1>2, BusyKeeps
  <1>3. CASE ~Busy(f)
    <2>1. /\ pc[t] = "claim" /\ file' = [file EXCEPT ![f].importing = TRUE]
          /\ Goto(t, "stat") /\ UNCHANGED <<job, pending, entries, reading, owed>>
          /\ AtWork(t) /\ f \notin Taken
      BY <1>1, <1>3 DEF Claim, AtWork, Busy, Taken
    <2>2. Others(t) /\ pc'[t] = "stat" /\ job'[t] = job[t] /\ Rest(t)' = Rest(t)
      BY <2>1, GotoSays DEF TypeInv, Step, Rest
    <2>3. /\ Taken' = Taken \cup {f}
          /\ Opened' = Opened /\ Staged' = Staged /\ Metas' = Metas /\ Closed' = Closed
          /\ Moved' = Moved /\ Orphans' = Orphans /\ Used' = Used
          /\ \A g \in File : NameOf(g)' = NameOf(g) /\ Mem(g)'.data = Mem(g).data
      BY <2>1, ChangeTaken DEF TypeInv
    <2>4. VaultStays
      BY <2>1, <2>3, VaultSays DEF FuseInv
    <2>5. /\ \A u \in Importer :
               /\ \A m \in Name, g \in File : Binds(u, m, g)' => Binds(u, m, g)
               /\ \A g \in File : Awaits(u, g)' => Awaits(u, g)
               /\ \A g \in File : Forcing(u)' /\ g \in Snapped(u)' =>
                                    Forcing(u) /\ g \in Snapped(u)
               /\ Forcing(u)' <=> Forcing(u)
          /\ \A u \in Importer : u # t =>
               /\ pc'[u] = pc[u] /\ job'[u] = job[u]
               /\ \A g \in File : Holds(u, g)' <=> Holds(u, g)
      BY <2>1, <2>2, WorkSays
    <2>6. /\ \A g \in File : ~Holds(t, g) /\ (Holds(t, g)' <=> g = f)
          /\ f \notin Held
      BY <1>1, <2>1, <2>2 DEF Holds, Holding, FuseInv, Exclusive
    <2>7. Held' = Held \cup {f}
      BY <2>5, <2>6 DEF Held
    <2>8. Spooled'
      <3>1. f \in Orphans \cup Moved \/ \E m \in Name : pending[m] = f
        BY <1>1, <2>1, <2>6 DEF FuseInv, Awaited, Awaits
      <3> QED
        BY <3>1, <2>1, <2>3, <2>7 DEF FuseInv, Spooled
    <2>9. OpenAlone'
      BY <2>1, <2>3, <2>5, InFile DEF FuseInv, OpenAlone
    <2>10. OwnRecord' /\ OneFile'
      BY <2>1, <2>5 DEF FuseInv, OwnRecord, OneFile
    <2>11. Awaited'
      BY <2>1, <2>3, <2>5, <2>7 DEF FuseInv, Awaited
    <2>12. Exclusive'
      <3>1. \A u \in Importer : ~Holds(u, f)
        BY <2>6 DEF Held
      <3> QED
        BY <3>1, <2>3, <2>5, <2>6, <2>7 DEF FuseInv, Exclusive
    <2>13. Once'
      <3>1. f \notin Moved
        BY <1>1, <2>1 DEF FuseInv, Once, Awaits
      <3> QED
        BY <3>1, <1>1, <2>1, <2>2, <2>3, <2>5, InFile DEF FuseInv, Once
    <2>14. Dropping'
      BY <2>2, <2>3, <2>5, <2>7 DEF FuseInv, Dropping
    <2>15. StoredClosed' /\ OwedClosed' /\ Whole' /\ OnePath'
      BY <2>1, <2>3, <2>4 DEF FuseInv, StoredClosed, OwedClosed, VaultStays
    <2>16. Leaving' /\ Room' /\ CleanAfter'
      BY <2>1, <2>2, <2>4, <2>5 DEF FuseInv, Leaving, Room, CleanAfter, VaultStays
    <2>17. Replaces'
      <3>1. ASSUME NEW m \in Name, NEW g \in File, NEW u \in Importer, Replacing(u, m, g)'
            PROVE  Replacing(u, m, g)
        BY <3>1, <1>1, <2>1, <2>2, <2>3, <2>5 DEF Replacing
      <3> QED
        BY <3>1, <2>1, <2>3, <2>4 DEF FuseInv, Replaces, ForIt, VaultStays
    <2>18. Somewhere'
      BY <2>1, <2>2, <2>3, <2>4, <2>5 DEF FuseInv, Somewhere, VaultStays
    <2> QED
      BY <2>8, <2>9, <2>10, <2>11, <2>12, <2>13, <2>14, <2>15, <2>16, <2>17, <2>18 DEF FuseInv
  <1> QED
    BY <1>2, <1>3

\* A record goes, and with it its .meta: its file is unlinked or imported, or
\* another importer is at work on it.
LEMMA RecordGoes ==
  ASSUME TypeInv, FuseInv, NEW t \in Importer, NEW f \in File, NEW n \in Name,
         f = job[t].file, n = job[t].at, NameOf(f) = n, DropRecord(n, file),
         Others(t), Rest(t)' = Rest(t), UNCHANGED <<entries, owed>>,
         \/ /\ pc[t] = "stat" /\ f \in Orphans \cup Moved
            /\ pc'[t] = "next" \/ (pc'[t] = "drop" /\ job'[t] = job[t])
         \/ /\ pc[t] = "drop" /\ pc'[t] = "next"
  PROVE  FuseInv'
  <1>1. /\ pending' = [pending EXCEPT ![n] = None] /\ Metas' = Metas \ {pending[n]}
        /\ Opened' = Opened /\ Staged' = Staged /\ Closed' = Closed /\ Taken' = Taken
        /\ Moved' = Moved /\ Orphans' = Orphans /\ Used' = Used
        /\ \A g \in File : NameOf(g)' = NameOf(g) /\ Mem(g)'.data = Mem(g).data
    BY DropRecordSays DEF TypeInv
  <1>2. /\ pending'[n] = None /\ \A m \in Name : m # n => pending'[m] = pending[m]
        /\ n # None /\ None \notin File
    BY <1>1, FuseAssumption DEF TypeInv, TypeOK
  <1>3. /\ AtWork(t) /\ Binds(t, n, f)
        /\ pending[n] \in {f, None}
        /\ \A m \in Name, g \in File : pending[m] = g => NameOf(g) = m
    <2>1. AtWork(t) /\ Binds(t, n, f)
      BY DEF AtWork, Binds
    <2> QED
      BY <2>1, <1>2 DEF FuseInv, OwnRecord, TypeInv, RecordsNamed
  <1>4. VaultStays
    BY <1>1, VaultSays DEF FuseInv
  <1>5. /\ \A u \in Importer :
             /\ \A m \in Name, g \in File : Binds(u, m, g)' => Binds(u, m, g)
             /\ \A g \in File : Awaits(u, g)' => Awaits(u, g)
             /\ \A g \in File : Forcing(u)' /\ g \in Snapped(u)' =>
                                  Forcing(u) /\ g \in Snapped(u)
             /\ Forcing(u)' <=> Forcing(u)
        /\ \A u \in Importer : u # t =>
             /\ pc'[u] = pc[u] /\ job'[u] = job[u]
             /\ \A g \in File : Holds(u, g)' <=> Holds(u, g)
    BY <1>3, WorkSays
  <1>6. /\ \A u \in Importer, g \in File : Holds(u, g)' <=> Holds(u, g) /\ u # t
        /\ \A g \in File : Holds(t, g) => g = f /\ pc[t] = "stat"
    BY <1>5 DEF Holds, Holding
  <1>7. Held' \subseteq Held /\ Held \subseteq Held' \cup Orphans \cup Moved
    BY <1>6 DEF Held
  <1>8. f \in Orphans \cup Moved \cup Held'
    BY <1>7 DEF FuseInv, Dropping
  <1>9. Spooled'
    <2>1. ASSUME NEW m \in Name, pending'[m] \in Staged
          PROVE  pending'[m] \in Metas'
      <3>1. m # n /\ pending'[m] = pending[m]
        BY <1>2, <2>1, InFile
      <3>2. pending[m] # pending[n]
        BY <3>1, <2>1, <1>3, InFile
      <3> QED
        BY <3>1, <3>2, <2>1, <1>1 DEF FuseInv, Spooled
    <2>2. ASSUME NEW g \in Used' \ (Staged' \cup Orphans' \cup Moved')
          PROVE  g \notin Held' /\ \A m \in Name : pending'[m] # g
      <3>1. g \notin Held /\ (\A m \in Name : pending[m] # g) /\ g \in File
        BY <2>2, <1>1, InFile DEF FuseInv, Spooled
      <3> QED
        BY <3>1, <1>2, <1>7
    <2> QED
      BY <2>1, <2>2, <1>1 DEF FuseInv, Spooled
  <1>10. OpenAlone'
    <2>1. ASSUME NEW g \in Opened, NEW m \in Name, NameOf(g) = m
          PROVE  m # n
      BY <2>1, <1>3 DEF FuseInv, OpenAlone
    <2> QED
      BY <2>1, <1>1, <1>2, <1>5, InFile DEF FuseInv, OpenAlone
  <1>11. OwnRecord' /\ OneFile'
    BY <1>2, <1>5 DEF FuseInv, OwnRecord, OneFile
  <1>12. Awaited'
    <2>1. ASSUME NEW u \in Importer, NEW g \in File, Awaits(u, g)
          PROVE  g \in Orphans \cup Moved \cup Held' \/ \E m \in Name : pending'[m] = g
      <3>1. g \in Orphans \cup Moved \cup Held \/ \E m \in Name : pending[m] = g
        BY <2>1 DEF FuseInv, Awaited
      <3>2. pending[n] = g => g = f
        BY <1>2, <1>3
      <3> QED
        BY <3>1, <3>2, <1>2, <1>7, <1>8
    <2> QED
      BY <2>1, <1>1, <1>5 DEF Awaited
  <1>13. Exclusive'
    BY <1>1, <1>6, <1>7 DEF FuseInv, Exclusive
  <1>14. Once'
    BY <1>1, <1>2, <1>5, InFile DEF FuseInv, Once
  <1>15. Dropping'
    BY <1>1, <1>5, <1>7 DEF FuseInv, Dropping
  <1>16. StoredClosed' /\ OwedClosed' /\ Whole' /\ OnePath'
    BY <1>1, <1>4 DEF FuseInv, StoredClosed, OwedClosed, VaultStays
  <1>17. Leaving'
    <2>1. ASSUME NEW g \in Stored, NEW m \in Name, pending'[m] = g
          PROVE  \E u \in Importer : pc'[u] \in {"clean", "drop"} /\ job'[u].file = g
      <3>1. g \in File
        BY <2>1, InFile DEF FuseInv, StoredClosed
      <3>2. m # n /\ pending[m] = g /\ NameOf(g) = m
        BY <2>1, <3>1, <1>2, <1>3
      <3>3. PICK u \in Importer : pc[u] \in {"clean", "drop"} /\ job[u].file = g
        BY <2>1, <3>2 DEF FuseInv, Leaving
      <3>4. u # t
        BY <3>2, <3>3
      <3> QED
        BY <3>3, <3>4, <1>5
    <2> QED
      BY <2>1, <1>4 DEF Leaving, VaultStays
  <1>18. Room' /\ CleanAfter'
    BY <1>4, <1>5 DEF FuseInv, Room, CleanAfter, VaultStays
  <1>19. Replaces'
    BY <1>1, <1>2, <1>4, <1>5 DEF FuseInv, Replaces, Replacing, ForIt, VaultStays
  <1>20. Somewhere'
    <2>1. ASSUME NEW g \in owed, g \in Staged \cap Metas, g \notin Metas'
          PROVE  \/ g \in Stored
                 \/ \E u \in Importer : pc'[u] \in {"stat", "remove", "put"} /\ job'[u].file = g
      <3>1. g = f
        BY <2>1, <1>1, <1>2, <1>3, InFile
      <3>2. f \in Held'
        BY <2>1, <3>1, <1>8 DEF FuseInv, Spooled
      <3>3. PICK u \in Importer : u # t /\ Holds(u, f)
        BY <3>2, <1>6 DEF Held
      <3>4. CASE pc[u] = "clean"
        BY <2>1, <3>1, <3>3, <3>4 DEF FuseInv, CleanAfter, Holds
      <3>5. CASE pc[u] # "clean"
        BY <3>1, <3>3, <3>5, <1>5 DEF Holds, Holding
      <3> QED
        BY <3>4, <3>5
    <2>2. ASSUME NEW g \in owed, g \in Staged, NEW u \in Importer,
                 pc[u] \in {"stat", "remove", "put"}, job[u].file = g
          PROVE  pc'[u] \in {"stat", "remove", "put"} /\ job'[u].file = g
      <3>1. u # t
        BY <2>2 DEF FuseInv, Spooled
      <3> QED
        BY <2>2, <3>1, <1>5
    <2> QED
      BY <2>1, <2>2, <1>1, <1>4 DEF FuseInv, Somewhere, VaultStays
  <1> QED
    BY <1>9, <1>10, <1>11, <1>12, <1>13, <1>14, <1>15, <1>16, <1>17, <1>18, <1>19, <1>20
       DEF FuseInv

\* dropPending goes by the name, and finds no other file than it was called for.
LEMMA DropKeeps ==
  ASSUME TypeInv, FuseInv, NEW t \in Importer, Drop(t)
  PROVE  FuseInv'
  <1>1. PICK f \in File, n \in Name : f = job[t].file /\ n = job[t].at /\ NameOf(f) = n
    BY AtHand DEF Drop, AtWork
  <1>2. pc[t] = "drop" /\ DropRecord(n, file) /\ NextOne(t) /\ UNCHANGED <<entries, reading, owed>>
    BY <1>1 DEF Drop
  <1>3. Others(t) /\ pc'[t] = "next" /\ Rest(t)' = Rest(t)
    BY <1>2, NextOneSays DEF TypeInv
  <1> QED
    BY <1>1, <1>2, <1>3, RecordGoes

\* The file of a pending record that has left the spool is an orphan.
LEMMA StatKeeps ==
  ASSUME TypeInv, FuseInv, NEW t \in Importer, Stat(t)
  PROVE  FuseInv'
  <1>1. PICK f \in File, n \in Name : f = job[t].file /\ n = job[t].at /\ NameOf(f) = n
    BY AtHand DEF Stat, AtWork
  <1>2. CASE ~Mem(f).staged
    <2>1. pc[t] = "stat" /\ DropRecord(n, file) /\ Refused(t) /\ UNCHANGED <<entries, reading, owed>>
      BY <1>1, <1>2 DEF Stat
    <2>2. f \in Orphans \cup Moved
      <3>1. f \notin Staged /\ f \in Used /\ f \in Held
        BY <1>1, <1>2, <2>1, FuseAssumption DEF Staged, Used, NameOf, Held, Holds, Holding
      <3> QED
        BY <3>1 DEF FuseInv, Spooled
    <2>3. /\ Others(t) /\ Rest(t)' = Rest(t)
          /\ pc'[t] = "next" \/ (pc'[t] = "drop" /\ job'[t] = job[t])
      BY <2>1, RefusedSays DEF TypeInv
    <2> QED
      BY <1>1, <2>1, <2>2, <2>3, RecordGoes
  <1>3. CASE Mem(f).staged
    <2>1. /\ pc[t] = "stat" /\ Goto(t, "remove") /\ f \in Staged
          /\ UNCHANGED <<file, pending, job, entries, reading, owed>>
      BY <1>1, <1>3 DEF Stat, Staged
    <2>2. Others(t) /\ pc'[t] = "remove" /\ job'[t] = job[t] /\ Rest(t)' = Rest(t)
      BY <2>1, GotoSays DEF TypeInv, Step, Rest
    <2>3. Quiet /\ VaultStays
      BY <2>1, QuietSays, VaultSays DEF FuseInv, Mem
    <2>4. /\ \A u \in Importer :
               /\ \A m \in Name, g \in File : Binds(u, m, g)' => Binds(u, m, g)
               /\ \A g \in File : Awaits(u, g)' => Awaits(u, g)
               /\ \A g \in File : Forcing(u)' /\ g \in Snapped(u)' =>
                                    Forcing(u) /\ g \in Snapped(u)
               /\ Forcing(u)' <=> Forcing(u)
          /\ \A u \in Importer : u # t =>
               /\ pc'[u] = pc[u] /\ job'[u] = job[u]
               /\ \A g \in File : Holds(u, g)' <=> Holds(u, g)
      BY <2>1, <2>2, WorkSays DEF AtWork
    <2>5. \A u \in Importer, g \in File : Holds(u, g)' <=> Holds(u, g)
      BY <2>1, <2>2, <2>4 DEF Holds, Holding
    <2>6. Held' = Held
      BY <2>5 DEF Held
    <2>7. Spooled'
      BY <2>1, <2>3, <2>6 DEF FuseInv, Spooled, Quiet
    <2>8. OpenAlone'
      BY <2>1, <2>3, <2>4, InFile DEF FuseInv, OpenAlone, Quiet
    <2>9. OwnRecord' /\ OneFile'
      BY <2>1, <2>4 DEF FuseInv, OwnRecord, OneFile
    <2>10. Awaited'
      BY <2>1, <2>3, <2>4, <2>6 DEF FuseInv, Awaited, Quiet
    <2>11. Exclusive'
      BY <2>3, <2>5, <2>6 DEF FuseInv, Exclusive, Quiet
    <2>12. Once'
      BY <2>1, <2>2, <2>3, <2>4, InFile DEF FuseInv, Once, Quiet
    <2>13. Dropping'
      BY <2>2, <2>3, <2>4, <2>6 DEF FuseInv, Dropping, Quiet
    <2>14. StoredClosed' /\ OwedClosed' /\ Whole' /\ OnePath'
      BY <2>1, <2>3 DEF FuseInv, StoredClosed, OwedClosed, Quiet, VaultStays
    <2>15. Leaving' /\ Room' /\ CleanAfter'
      BY <2>1, <2>2, <2>3, <2>4 DEF FuseInv, Leaving, Room, CleanAfter, VaultStays
    <2>16. Replaces'
      <3>1. ASSUME NEW m \in Name, NEW g \in File, NEW u \in Importer, Replacing(u, m, g)'
            PROVE  Replacing(u, m, g)
        BY <3>1, <1>1, <2>1, <2>2, <2>3, <2>4 DEF Replacing, Quiet
      <3> QED
        BY <3>1, <2>1, <2>3 DEF FuseInv, Replaces, ForIt, VaultStays, Quiet
    <2>17. Somewhere'
      BY <2>1, <2>2, <2>3, <2>4 DEF FuseInv, Somewhere, VaultStays, Quiet
    <2> QED
      BY <2>7, <2>8, <2>9, <2>10, <2>11, <2>12, <2>13, <2>14, <2>15, <2>16, <2>17 DEF FuseInv
  <1> QED
    BY <1>2, <1>3

\* What goes on in importPending between the claim and the end: the files and
\* the records stay.
LEMMA MiddleKeeps ==
  ASSUME TypeInv, FuseInv, NEW t \in Importer,
         pc[t] \in {"remove", "put"}, Others(t), job'[t] = job[t], Rest(t)' = Rest(t),
         \/ pc[t] = "remove" /\ pc'[t] = "put"
         \/ pc[t] = "put" /\ pc'[t] = "clean",
         UNCHANGED <<file, pending, owed>>
  PROVE  /\ Quiet
         /\ \A u \in Importer : u # t => pc'[u] = pc[u] /\ job'[u] = job[u]
         /\ Spooled' /\ OpenAlone' /\ OwnRecord' /\ OneFile' /\ Awaited' /\ Exclusive'
         /\ Once' /\ Dropping' /\ OwedClosed'
  <1>1. Quiet
    BY QuietSays
  <1>2. /\ \A u \in Importer :
             /\ \A m \in Name, g \in File : Binds(u, m, g)' => Binds(u, m, g)
             /\ \A g \in File : Awaits(u, g)' => Awaits(u, g)
             /\ \A g \in File : Forcing(u)' /\ g \in Snapped(u)' =>
                                  Forcing(u) /\ g \in Snapped(u)
             /\ Forcing(u)' <=> Forcing(u)
        /\ \A u \in Importer : u # t =>
             /\ pc'[u] = pc[u] /\ job'[u] = job[u]
             /\ \A g \in File : Holds(u, g)' <=> Holds(u, g)
    BY WorkSays DEF AtWork
  <1>3. \A u \in Importer, g \in File : Holds(u, g)' <=> Holds(u, g)
    BY <1>2 DEF Holds, Holding
  <1>4. Held' = Held
    BY <1>3 DEF Held
  <1>5. Spooled'
    BY <1>1, <1>4 DEF FuseInv, Spooled, Quiet
  <1>6. OpenAlone'
    BY <1>1, <1>2, InFile DEF FuseInv, OpenAlone, Quiet
  <1>7. OwnRecord' /\ OneFile'
    BY <1>2 DEF FuseInv, OwnRecord, OneFile
  <1>8. Awaited'
    BY <1>1, <1>2, <1>4 DEF FuseInv, Awaited, Quiet
  <1>9. Exclusive'
    BY <1>1, <1>3, <1>4 DEF FuseInv, Exclusive, Quiet
  <1>10. Once'
    BY <1>1, <1>2, InFile DEF FuseInv, Once, Quiet
  <1>11. Dropping'
    BY <1>1, <1>2, <1>4 DEF FuseInv, Dropping, Quiet
  <1>12. OwedClosed'
    BY <1>1 DEF FuseInv, OwedClosed, Quiet
  <1> QED
    BY <1>1, <1>2, <1>5, <1>6, <1>7, <1>8, <1>9, <1>10, <1>11, <1>12

\* What ImportFile takes out has been written over by what it puts in.
LEMMA RemoveOldKeeps ==
  ASSUME TypeInv, FuseInv, NEW t \in Importer, RemoveOld(t)
  PROVE  FuseInv'
  <1>1. PICK f \in File, n \in Name : f = job[t].file /\ n = job[t].at /\ NameOf(f) = n
    BY AtHand DEF RemoveOld, AtWork
  <1>2. /\ pc[t] = "remove" /\ entries' = [entries EXCEPT ![n] = Displaced(@)]
        /\ Goto(t, "put") /\ UNCHANGED <<file, pending, job, reading, owed>>
    BY <1>1 DEF RemoveOld, NameOf
  <1>3. Others(t) /\ pc'[t] = "put" /\ job'[t] = job[t] /\ Rest(t)' = Rest(t)
    BY <1>2, GotoSays DEF TypeInv, Step, Rest
  <1>4. /\ Quiet
        /\ \A u \in Importer : u # t => pc'[u] = pc[u] /\ job'[u] = job[u]
        /\ Spooled' /\ OpenAlone' /\ OwnRecord' /\ OneFile' /\ Awaited' /\ Exclusive'
        /\ Once' /\ Dropping' /\ OwedClosed'
    BY <1>2, <1>3, MiddleKeeps
  <1>5. entries' = [entries EXCEPT ![n] = <<>>]
    BY <1>2, FewEntries DEF TypeInv, TypeOK, FuseInv, OnePath
  <1>6. /\ At(n)' = {} /\ \A m \in Name : m # n => At(m)' = At(m)
        /\ OnePath' /\ Whole'
        /\ Stored' \subseteq Stored /\ \A g \in Stored : g \notin At(n) => g \in Stored'
    BY <1>2, <1>5, VaultEmpties DEF Mem
  <1>7. \A m \in Name : At(m)' \subseteq At(m)
    BY <1>6
  <1>8. \A g \in owed : g \in At(n) => g = f
    BY <1>1, <1>2 DEF FuseInv, Replaces, Replacing, ForIt
  <1>9. StoredClosed'
    BY <1>4, <1>6 DEF FuseInv, StoredClosed, Quiet
  <1>10. Leaving'
    BY <1>2, <1>4, <1>6 DEF FuseInv, Leaving
  <1>11. Room'
    BY <1>1, <1>3, <1>4, <1>6, <1>7 DEF FuseInv, Room
  <1>12. CleanAfter'
    <2>1. ASSUME NEW u \in Importer, NEW g \in File, pc[u] = "clean", job[u].file = g, g \in owed
          PROVE  g \in Stored'
      <3>1. g # f
        BY <1>1, <1>2, <2>1 DEF FuseInv, Exclusive, Holds, Holding
      <3> QED
        BY <2>1, <3>1, <1>6, <1>8 DEF FuseInv, CleanAfter
    <2> QED
      BY <2>1, <1>2, <1>3, <1>4 DEF CleanAfter
  <1>13. Replaces'
    <2>1. ASSUME NEW m \in Name, NEW g \in File, NEW u \in Importer, Replacing(u, m, g)'
          PROVE  Replacing(u, m, g)
      BY <2>1, <1>3, <1>4 DEF Replacing, Quiet
    <2> QED
      BY <2>1, <1>2, <1>4, <1>7 DEF FuseInv, Replaces, ForIt, Quiet
  <1>14. Somewhere'
    <2>1. f \in Stored => f \in Staged
      <3>1. f \in Used /\ f \notin Moved /\ f \in Held
        BY <1>1, <1>2, FuseAssumption DEF FuseInv, Once, Used, NameOf, Held, Holds, Holding
      <3> QED
        BY <3>1 DEF FuseInv, Spooled, StoredClosed
    <2>2. ASSUME NEW g \in owed, g \in Stored, g \notin Stored'
          PROVE  g = f /\ g \in Staged
      BY <2>1, <2>2, <1>6, <1>8
    <2>3. \A u \in Importer : pc[u] \in {"stat", "remove", "put"} =>
            pc'[u] \in {"stat", "remove", "put"} /\ job'[u] = job[u]
      BY <1>2, <1>3, <1>4
    <2> QED
      BY <2>2, <2>3, <1>1, <1>2, <1>3, <1>4 DEF FuseInv, Somewhere, Quiet
  <1> QED
    BY <1>4, <1>6, <1>9, <1>10, <1>11, <1>12, <1>13, <1>14 DEF FuseInv

\* The new entry finds its path empty, and no one else about to write there.
LEMMA PutKeeps ==
  ASSUME TypeInv, FuseInv, NEW t \in Importer, Put(t)
  PROVE  FuseInv'
  <1>1. PICK f \in File, n \in Name : f = job[t].file /\ n = job[t].at /\ NameOf(f) = n
    BY AtHand DEF Put, AtWork
  <1>2. /\ pc[t] = "put" /\ f \in Staged
        /\ entries' = [entries EXCEPT ![n] = Append(@, <<f, Mem(f).data>>)]
        /\ Goto(t, "clean") /\ UNCHANGED <<file, pending, job, reading, owed>>
    BY <1>1 DEF Put, NameOf, Staged
  <1>3. Others(t) /\ pc'[t] = "clean" /\ job'[t] = job[t] /\ Rest(t)' = Rest(t)
    BY <1>2, GotoSays DEF TypeInv, Step, Rest
  <1>4. /\ Quiet
        /\ \A u \in Importer : u # t => pc'[u] = pc[u] /\ job'[u] = job[u]
        /\ Spooled' /\ OpenAlone' /\ OwnRecord' /\ OneFile' /\ Awaited' /\ Exclusive'
        /\ Once' /\ Dropping' /\ OwedClosed'
    BY <1>2, <1>3, MiddleKeeps
  <1>5. At(n) = {}
    BY <1>1, <1>2 DEF FuseInv, Room
  <1>6. /\ At(n)' = {f} /\ \A m \in Name : m # n => At(m)' = At(m)
        /\ OnePath' /\ Whole' /\ Stored' = Stored \cup {f}
    BY <1>2, <1>5, VaultGains DEF Mem
  <1>7. Binds(t, n, f) /\ Holds(t, f) /\ n # None /\ f # None
    BY <1>1, <1>2, FuseAssumption DEF Binds, AtWork, Holds, Holding
  <1>8. \A u \in Importer, g \in File : Binds(u, n, g) => g = f
    BY <1>7 DEF FuseInv, OneFile
  <1>9. StoredClosed'
    <2>1. f \in Used /\ f \notin Orphans /\ f \notin Opened
      BY <1>1, <1>2, <1>7 DEF FuseInv, Spooled, OpenAlone, Used, NameOf
    <2> QED
      BY <2>1, <1>4, <1>6 DEF FuseInv, StoredClosed, Quiet
  <1>10. Leaving'
    BY <1>1, <1>2, <1>3, <1>4, <1>6 DEF FuseInv, Leaving
  <1>11. Room'
    <2>1. ASSUME NEW u \in Importer, pc[u] = "put", job[u].at = n
          PROVE  u = t
      <3>1. Binds(u, n, f) /\ job[u].file = f
        <4>1. PICK g \in File : g = job[u].file
          BY <2>1, AtHand DEF AtWork
        <4>2. Binds(u, n, g)
          BY <2>1, <4>1 DEF Binds, AtWork
        <4> QED
          BY <4>1, <4>2, <1>8
      <3>2. Holds(u, f)
        BY <2>1, <3>1 DEF Holds, Holding
      <3> QED
        BY <3>2, <1>7 DEF FuseInv, Exclusive
    <2> QED
      BY <2>1, <1>3, <1>4, <1>6 DEF FuseInv, Room
  <1>12. CleanAfter'
    BY <1>1, <1>2, <1>3, <1>4, <1>6 DEF FuseInv, CleanAfter
  <1>13. Replaces'
    <2>1. ASSUME NEW m \in Name, NEW g \in File, NEW u \in Importer, Replacing(u, m, g)'
          PROVE  Replacing(u, m, g)
      BY <2>1, <1>3, <1>4 DEF Replacing, Quiet
    <2>2. \A g \in File : pending[n] = g => g = f
      BY <1>7, FuseAssumption DEF FuseInv, OwnRecord
    <2>3. \A g \in File, u \in Importer : Replacing(u, n, g) => g = f
      BY <1>8 DEF Replacing, Binds, AtWork
    <2> QED
      BY <2>1, <2>2, <2>3, <1>2, <1>4, <1>6 DEF FuseInv, Replaces, ForIt, Quiet
  <1>14. Somewhere'
    BY <1>1, <1>2, <1>3, <1>4, <1>6 DEF FuseInv, Somewhere, Quiet
  <1> QED
    BY <1>4, <1>6, <1>9, <1>10, <1>11, <1>12, <1>13, <1>14 DEF FuseInv

\* A failed import leaves its file registered, where no one drops the record
\* behind its back.
LEMMA PutFailsKeeps ==
  ASSUME TypeInv, FuseInv, Races = {}, NEW t \in Importer, PutFails(t)
  PROVE  FuseInv'
  <1>1. PICK f \in File, n \in Name : f = job[t].file /\ n = job[t].at /\ NameOf(f) = n
    BY AtHand DEF PutFails, AtWork
  <1>2. /\ pc[t] = "put" /\ file' = [file EXCEPT ![f].importing = FALSE] /\ Refused(t)
        /\ UNCHANGED <<pending, entries, owed>> /\ AtWork(t)
        /\ f \in Staged => pending[n] = f /\ \A u \in Importer : ~Forcing(u)
    BY <1>1 DEF PutFails, AfterFailure, MayFail, Staged, AtWork
  <1>3. /\ Others(t) /\ Rest(t)' = Rest(t)
        /\ \/ Forcing(t) /\ pc'[t] = "drop" /\ job'[t] = job[t]
           \/ ~Forcing(t) /\ pc'[t] = "next"
    BY <1>2, RefusedSays DEF TypeInv
  <1>4. /\ Taken' = Taken \ {f}
        /\ Opened' = Opened /\ Staged' = Staged /\ Metas' = Metas /\ Closed' = Closed
        /\ Moved' = Moved /\ Orphans' = Orphans /\ Used' = Used
        /\ \A g \in File : NameOf(g)' = NameOf(g) /\ Mem(g)'.data = Mem(g).data
    <2>1. TypeOK /\ FALSE \in BOOLEAN
      BY DEF TypeInv
    <2> QED
      BY <1>2, <2>1, ChangeTaken
  <1>5. VaultStays
    BY <1>2, <1>4, VaultSays DEF FuseInv
  <1>6. /\ \A u \in Importer :
             /\ \A m \in Name, g \in File : Binds(u, m, g)' => Binds(u, m, g)
             /\ \A g \in File : Awaits(u, g)' => Awaits(u, g)
             /\ \A g \in File : Forcing(u)' /\ g \in Snapped(u)' =>
                                  Forcing(u) /\ g \in Snapped(u)
             /\ Forcing(u)' <=> Forcing(u)
        /\ \A u \in Importer : u # t =>
             /\ pc'[u] = pc[u] /\ job'[u] = job[u]
             /\ \A g \in File : Holds(u, g)' <=> Holds(u, g)
    BY <1>2, <1>3, WorkSays
  <1>7. /\ \A u \in Importer, g \in File : Holds(u, g)' <=> Holds(u, g) /\ u # t
        /\ \A g \in File : Holds(t, g) <=> g = f
    BY <1>1, <1>2, <1>3, <1>6 DEF Holds, Holding
  <1>8. Held' = Held \ {f} /\ \A u \in Importer : u # t => ~Holds(u, f)
    BY <1>7 DEF Held, FuseInv, Exclusive
  <1>9. f \notin Opened /\ (f \in Staged => f \notin Orphans)
    <2>1. Binds(t, n, f)
      BY <1>1, <1>2 DEF Binds
    <2> QED
      BY <2>1, <1>1 DEF FuseInv, Spooled, OpenAlone
  <1>10. f \in Orphans \/ (pending[n] = f /\ \A u \in Importer : ~Forcing(u))
    <2>1. f \in Used /\ f \notin Moved /\ f \in Held
      BY <1>1, <1>2, <1>7, FuseAssumption DEF Used, NameOf, FuseInv, Once, Held
    <2> QED
      BY <2>1, <1>2 DEF FuseInv, Spooled
  <1>11. Spooled'
    BY <1>2, <1>4, <1>8 DEF FuseInv, Spooled
  <1>12. OpenAlone'
    BY <1>2, <1>4, <1>6, InFile DEF FuseInv, OpenAlone
  <1>13. OwnRecord' /\ OneFile'
    BY <1>2, <1>6 DEF FuseInv, OwnRecord, OneFile
  <1>14. Awaited'
    BY <1>2, <1>4, <1>6, <1>8, <1>10 DEF FuseInv, Awaited
  <1>15. Exclusive'
    BY <1>4, <1>7, <1>8, <1>10 DEF FuseInv, Exclusive
  <1>16. Once'
    <2>1. f \notin Moved
      BY <1>1, <1>2 DEF FuseInv, Once
    <2> QED
      BY <2>1, <1>2, <1>3, <1>4, <1>6, InFile DEF FuseInv, Once
  <1>17. Dropping'
    <2>1. pc'[t] = "drop" => f \in Orphans /\ job'[t].file = f
      BY <1>1, <1>3, <1>10
    <2>2. \A u \in Importer : Forcing(u) => f \in Orphans
      BY <1>10
    <2> QED
      BY <2>1, <2>2, <1>4, <1>6, <1>8 DEF FuseInv, Dropping
  <1>18. StoredClosed' /\ OwedClosed' /\ Whole' /\ OnePath'
    BY <1>2, <1>4, <1>5 DEF FuseInv, StoredClosed, OwedClosed, VaultStays
  <1>19. Leaving' /\ Room' /\ CleanAfter'
    BY <1>2, <1>3, <1>5, <1>6 DEF FuseInv, Leaving, Room, CleanAfter, VaultStays
  <1>20. Replaces'
    <2>1. f \in Staged => ForIt(n, f)
      BY <1>2, <1>9 DEF FuseInv, Replaces
    <2>2. ASSUME NEW m \in Name, NEW g \in File, NEW u \in Importer, Replacing(u, m, g)'
          PROVE  ForIt(m, g)
      <3>1. u # t /\ pc'[u] = pc[u] /\ job'[u] = job[u]
        BY <2>2, <1>3, <1>6 DEF Replacing
      <3>2. CASE g # f
        <4>1. Replacing(u, m, g)
          BY <2>2, <3>1, <3>2, <1>4 DEF Replacing
        <4> QED
          BY <4>1 DEF FuseInv, Replaces
      <3>3. CASE g = f
        <4>1. m = n
          BY <2>2, <3>1, <3>3, <1>1, AtHand DEF Replacing, AtWork
        <4>2. CASE pc[u] = "claim"
          BY <2>1, <2>2, <3>1, <3>3, <4>1, <4>2, <1>4 DEF Replacing
        <4>3. CASE pc[u] # "claim"
          <5>1. Replacing(u, m, g)
            BY <2>2, <3>1, <4>3, <1>4 DEF Replacing
          <5> QED
            BY <5>1 DEF FuseInv, Replaces
        <4> QED
          BY <4>2, <4>3
      <3> QED
        BY <3>2, <3>3
    <2> QED
      BY <2>2, <1>2, <1>4, <1>5 DEF FuseInv, Replaces, ForIt, VaultStays
  <1>21. Somewhere'
    <2>1. f \in Staged => f \in Metas
      BY <1>2 DEF FuseInv, Spooled
    <2> QED
      BY <2>1, <1>1, <1>2, <1>4, <1>5, <1>6 DEF FuseInv, Somewhere, VaultStays
  <1> QED
    BY <1>11, <1>12, <1>13, <1>14, <1>15, <1>16, <1>17, <1>18, <1>19, <1>20, <1>21 DEF FuseInv

\* The staging file goes when the entry has come.
LEMMA CleanKeeps ==
  ASSUME TypeInv, FuseInv, NEW t \in Importer, Clean(t)
  PROVE  FuseInv'
  <1>1. PICK f \in File, n \in Name : f = job[t].file /\ n = job[t].at /\ NameOf(f) = n
    BY AtHand DEF Clean, AtWork
  <1>2. /\ pc[t] = "clean" /\ file' = [file EXCEPT ![f].staged = FALSE, ![f].imported = TRUE]
        /\ Goto(t, "drop") /\ UNCHANGED <<pending, entries, job, reading, owed>> /\ AtWork(t)
    BY <1>1 DEF Clean, AtWork
  <1>3. Others(t) /\ pc'[t] = "drop" /\ job'[t] = job[t] /\ Rest(t)' = Rest(t)
    BY <1>2, GotoSays DEF TypeInv, Step, Rest
  <1>4. /\ Staged' = Staged \ {f} /\ Moved' = Moved \cup {f}
        /\ Opened' = Opened /\ Metas' = Metas /\ Closed' = Closed /\ Taken' = Taken
        /\ Orphans' = Orphans /\ Used' = Used
        /\ \A g \in File : NameOf(g)' = NameOf(g) /\ Mem(g)'.data = Mem(g).data
    BY <1>2, ChangeMoved DEF TypeInv
  <1>5. VaultStays
    BY <1>2, <1>4, VaultSays DEF FuseInv
  <1>6. /\ \A u \in Importer :
             /\ \A m \in Name, g \in File : Binds(u, m, g)' => Binds(u, m, g)
             /\ \A g \in File : Awaits(u, g)' => Awaits(u, g)
             /\ \A g \in File : Forcing(u)' /\ g \in Snapped(u)' =>
                                  Forcing(u) /\ g \in Snapped(u)
             /\ Forcing(u)' <=> Forcing(u)
        /\ \A u \in Importer : u # t =>
             /\ pc'[u] = pc[u] /\ job'[u] = job[u]
             /\ \A g \in File : Holds(u, g)' <=> Holds(u, g)
    BY <1>2, <1>3, WorkSays
  <1>7. /\ \A u \in Importer, g \in File : Holds(u, g)' <=> Holds(u, g) /\ u # t
        /\ \A g \in File : Holds(t, g) <=> g = f
    BY <1>1, <1>2, <1>3, <1>6 DEF Holds, Holding
  <1>8. /\ Held' = Held \ {f} /\ f \in Held
        /\ \A u \in Importer : u # t => ~Holds(u, f)
    BY <1>7 DEF Held, FuseInv, Exclusive
  <1>9. f \notin Opened /\ f \in Taken
    <2>1. Binds(t, n, f)
      BY <1>1, <1>2 DEF Binds
    <2> QED
      BY <2>1, <1>1, <1>8 DEF FuseInv, OpenAlone, Exclusive
  <1>10. Spooled'
    BY <1>2, <1>4, <1>8 DEF FuseInv, Spooled
  <1>11. OpenAlone'
    BY <1>2, <1>4, <1>6, <1>9, InFile DEF FuseInv, OpenAlone
  <1>12. OwnRecord' /\ OneFile'
    BY <1>2, <1>6 DEF FuseInv, OwnRecord, OneFile
  <1>13. Awaited'
    BY <1>2, <1>4, <1>6, <1>8 DEF FuseInv, Awaited
  <1>14. Exclusive'
    BY <1>4, <1>7, <1>8 DEF FuseInv, Exclusive
  <1>15. Once'
    <2>1. \A u \in Importer, g \in File :
            pc'[u] \in {"stat", "remove", "put"} /\ job'[u].file = g => g \notin Moved'
      BY <1>3, <1>4, <1>6, <1>8 DEF FuseInv, Once, Holds, Holding
    <2>2. \A g \in Moved' \ Taken' : g \in Moved \ Taken
      BY <1>4, <1>9
    <2> QED
      BY <2>1, <2>2, <1>2, <1>6, InFile DEF FuseInv, Once
  <1>16. Dropping'
    BY <1>1, <1>3, <1>4, <1>6, <1>8 DEF FuseInv, Dropping
  <1>17. StoredClosed' /\ OwedClosed' /\ Whole' /\ OnePath'
    BY <1>2, <1>4, <1>5 DEF FuseInv, StoredClosed, OwedClosed, VaultStays
  <1>18. Leaving' /\ Room' /\ CleanAfter'
    BY <1>2, <1>3, <1>5, <1>6 DEF FuseInv, Leaving, Room, CleanAfter, VaultStays
  <1>19. Replaces'
    <2>1. ASSUME NEW m \in Name, NEW g \in File, NEW u \in Importer, Replacing(u, m, g)'
          PROVE  Replacing(u, m, g)
      BY <2>1, <1>3, <1>4, <1>6 DEF Replacing
    <2> QED
      BY <2>1, <1>2, <1>4, <1>5 DEF FuseInv, Replaces, ForIt, VaultStays
  <1>20. Somewhere'
    <2>1. f \in owed => f \in Stored
      BY <1>1, <1>2 DEF FuseInv, CleanAfter
    <2> QED
      BY <2>1, <1>2, <1>4, <1>5, <1>6 DEF FuseInv, Somewhere, VaultStays
  <1> QED
    BY <1>10, <1>11, <1>12, <1>13, <1>14, <1>15, <1>16, <1>17, <1>18, <1>19, <1>20 DEF FuseInv

----------------------------------------------------------------------------
(* A crash, and the whole.                                                 *)

\* Mounted again, the vault has what it had: what the spool has no entry of.
LEMMA CrashKeepsEntries ==
  ASSUME TypeInv, Crash, CrashSafe
  PROVE  entries' = entries
  <1>1. entries' = [n \in Name |-> SubSeq(entries[n], Cardinality(SpoolOf(n)) + 1,
                                          Len(entries[n]))]
    BY DEF Crash
  <1>2. entries = [n \in Name |-> entries[n]] /\ \A n \in Name : entries[n] \in Seq(Version)
    BY DEF TypeInv, TypeOK
  <1>3. ASSUME NEW n \in Name
        PROVE  SubSeq(entries[n], Cardinality(SpoolOf(n)) + 1, Len(entries[n])) = entries[n]
    <2>1. PICK s \in Seq(Version) : s = entries[n]
      BY <1>2
    <2>2. CASE SpoolOf(n) = {}
      <3>1. Cardinality(SpoolOf(n)) + 1 = 1
        BY <2>2, FS_EmptySet
      <3>2. SubSeq(s, 1, Len(s)) = s
        OBVIOUS
      <3> QED
        BY <2>1, <3>1, <3>2
    <2>3. CASE SpoolOf(n) # {}
      <3>1. s = <<>>
        BY <2>1, <2>3 DEF CrashSafe
      <3>2. PICK k \in Nat : k = Cardinality(SpoolOf(n))
        BY FS_Subset, FS_CardinalityType, FuseAssumption DEF SpoolOf
      <3>3. SubSeq(<<>>, k + 1, 0) = <<>>
        OBVIOUS
      <3>4. Len(s) = 0
        BY <3>1
      <3> QED
        BY <2>1, <3>1, <3>2, <3>3, <3>4
    <2> QED
      BY <2>2, <2>3
  <1> QED
    BY <1>1, <1>2, <1>3

\* What the crash leaves without a record is in the spool.
LEMMA CrashKeeps ==
  ASSUME TypeInv, FuseInv, Races = {}, Crash
  PROVE  FuseInv'
  <1>1. /\ Opened' = {} /\ Closed' = {} /\ Taken' = {} /\ Staged' \subseteq Staged
        /\ owed \cap Staged \subseteq Staged' /\ owed \cap Staged \cap Metas \subseteq Metas'
        /\ Moved' = Moved /\ Orphans' = Orphans /\ Used' = Used
        /\ \A g \in File : NameOf(g)' = NameOf(g) /\ Mem(g)'.data = Mem(g).data
        /\ \A n \in Name : pending'[n] = None
        /\ \A t \in Importer : pc'[t] = "idle" /\ job'[t] = NoJob
        /\ UNCHANGED owed /\ None \notin File
    BY CrashSays, FuseAssumption DEF TypeInv, Crash
  <1>2. CrashSafe
    BY DEF Crash
  <1>3. VaultStays
    BY <1>1, <1>2, CrashKeepsEntries, VaultSays DEF FuseInv
  <1>4. \A t \in Importer : /\ \A n \in Name, f \in File : ~Binds(t, n, f)' /\ ~Replacing(t, n, f)'
                            /\ \A f \in File : ~Awaits(t, f)' /\ ~Holds(t, f)'
    BY <1>1, NoJobSays DEF Binds, Replacing, Awaits, Snapped, Holds, Holding, AtWork
  <1>5. Held' = {}
    BY <1>4 DEF Held
  <1>6. Spooled' /\ OpenAlone'
    BY <1>1, <1>5, InFile DEF FuseInv, Spooled, OpenAlone
  <1>7. OwnRecord' /\ OneFile' /\ Awaited' /\ Exclusive'
    BY <1>1, <1>4, <1>5 DEF OwnRecord, OneFile, Awaited, Exclusive
  <1>8. Once' /\ Dropping'
    BY <1>1, <1>4, InFile DEF Once, Dropping
  <1>9. StoredClosed' /\ OwedClosed' /\ Whole' /\ OnePath'
    BY <1>1, <1>3 DEF FuseInv, StoredClosed, OwedClosed, VaultStays
  <1>10. Leaving' /\ Room' /\ CleanAfter'
    <2>1. Stored \subseteq File
      BY InFile DEF FuseInv, StoredClosed
    <2> QED
      BY <2>1, <1>1, <1>3 DEF Leaving, Room, CleanAfter, VaultStays
  <1>11. Replaces'
    BY <1>1, <1>4 DEF Replaces
  <1>12. Somewhere'
    <2>1. ASSUME NEW f \in owed, f \in Staged, NEW t \in Importer,
                 pc[t] \in {"stat", "remove", "put"}, job[t].file = f
          PROVE  f \in Metas
      BY <2>1, <1>2, InFile DEF CrashSafe, UnderWay, Staged, Metas
    <2> QED
      BY <2>1, <1>1, <1>3 DEF FuseInv, Somewhere, VaultStays
  <1> QED
    BY <1>3, <1>6, <1>7, <1>8, <1>9, <1>10, <1>11, <1>12 DEF FuseInv

\* The invariant at the beginning.
LEMMA FuseInit ==
  ASSUME Init
  PROVE  FuseInv
  <1>1. /\ \A f \in File : Mem(f) = Unused
        /\ \A n \in Name : pending[n] = None /\ entries[n] = <<>>
        /\ \A t \in Importer : pc[t] = "idle" /\ job[t] = NoJob
        /\ owed = {} /\ None \notin File
    BY FuseAssumption DEF Init, Mem
  <1>2. /\ Opened = {} /\ Staged = {} /\ Metas = {} /\ Closed = {} /\ Taken = {} /\ Moved = {}
        /\ Orphans = {} /\ Used = {}
    BY <1>1 DEF Opened, Staged, Metas, Closed, Taken, Moved, Orphans, Used, Unused
  <1>3. /\ \A n \in Name : At(n) = {}
        /\ Stored = {}
    <2>1. \A n \in Name : At(n) = {}
      BY <1>1, FewEntries DEF At
    <2> QED
      BY <2>1 DEF Stored
  <1>4. \A t \in Importer : /\ \A n \in Name, f \in File : ~Binds(t, n, f) /\ ~Replacing(t, n, f)
                            /\ \A f \in File : ~Awaits(t, f) /\ ~Holds(t, f)
    BY <1>1, NoJobSays DEF Binds, Replacing, Awaits, Snapped, Holds, Holding, AtWork
  <1>5. Held = {}
    BY <1>4 DEF Held
  <1>6. OnePath
    BY <1>1 DEF OnePath
  <1>7. Whole
    <2>1. \A n \in Name : DOMAIN entries[n] = {}
      BY <1>1, FewEntries, Zenon
    <2> QED
      BY <2>1 DEF Whole
  <1>8. Spooled /\ OpenAlone /\ OwnRecord /\ OneFile /\ Awaited /\ Exclusive /\ Once /\ Dropping
    BY <1>1, <1>2, <1>4, <1>5 DEF Spooled, OpenAlone, OwnRecord, OneFile, Awaited, Exclusive,
                                  Once, Dropping
  <1>9. StoredClosed /\ OwedClosed /\ Leaving /\ Room /\ Replaces /\ CleanAfter /\ Somewhere
    BY <1>1, <1>2, <1>3, <1>4 DEF StoredClosed, OwedClosed, Leaving, Room, Replaces, CleanAfter,
                                  Somewhere
  <1> QED
    BY <1>6, <1>7, <1>8, <1>9 DEF FuseInv

\* Nothing changes.
LEMMA StutterKeeps ==
  ASSUME FuseInv, UNCHANGED vars
  PROVE  FuseInv'
  <1>1. Calm /\ Quiet
    BY StillCalm, QuietSays DEF vars
  <1>2. VaultStays
    BY VaultSays DEF vars, FuseInv, Mem
  <1> QED
    BY <1>1, <1>2, QuietKeeps DEF vars

\* Every step keeps the invariant.
LEMMA FuseNext ==
  ASSUME TypeInv, FuseInv, Races = {}, [Next]_vars
  PROVE  FuseInv'
  <1>1. CASE Tick \/ Requests
    BY <1>1, RequestKeeps
  <1>2. CASE Handles
    <2>1. ASSUME NEW n \in Name, NEW f \in File, Create(n, f)
          PROVE  FuseInv'
      <3>1. Free(n) /\ Register(n, f) /\ UNCHANGED <<entries, pc, job, owed>>
        BY <2>1 DEF Create
      <3> QED
        BY <3>1, StillCalm, RegisterKeeps
    <2>2. ASSUME NEW f \in File, Write(f) \/ Release(f)
          PROVE  FuseInv'
      BY <2>2, WriteKeeps, ReleaseKeeps
    <2>3. ASSUME NEW n \in Name, UnlinkPending(n) \/ UnlinkEntry(n)
          PROVE  FuseInv'
      BY <2>3, UnlinkPendingKeeps, UnlinkEntryKeeps
    <2>4. ASSUME NEW r \in Reader, ReleaseRead(r)
          PROVE  FuseInv'
      BY <2>4, ReleaseReadKeeps
    <2> QED
      BY <1>2, <2>1, <2>2, <2>3, <2>4 DEF Handles
  <1>3. CASE Crash
    BY <1>3, CrashKeeps
  <1>4. ASSUME NEW t \in Importer, Proceed(t)
        PROVE  FuseInv'
    <2>1. CASE Pick(t)
      BY <2>1, PickKeeps
    <2>2. CASE Done(t) \/ (\E r \in Reader : OpenRead(t, r)) \/ \E f \in File : OpenWrite(t, f)
      BY <2>2, EndKeeps
    <2>3. CASE RenameEntry(t)
      BY <2>3, RenameKeeps
    <2>4. CASE Import(t)
      BY <2>4, ClaimKeeps, StatKeeps, RemoveOldKeeps, PutKeeps, PutFailsKeeps, CleanKeeps,
         DropKeeps DEF Import
    <2> QED
      BY <1>4, <2>1, <2>2, <2>3, <2>4 DEF Proceed
  <1>5. CASE UNCHANGED vars
    BY <1>5, StutterKeeps
  <1> QED
    BY <1>1, <1>2, <1>3, <1>4, <1>5 DEF Next

\* Without races the inductive invariant holds at every step.
LEMMA FuseAlways ==
  ASSUME Races = {}
  PROVE  Spec => [](TypeInv /\ FuseInv)
  <1>1. Init => TypeInv /\ FuseInv
    BY TypeInit, FuseInit
  <1>2. TypeInv /\ FuseInv /\ [Next]_vars => TypeInv' /\ FuseInv'
    BY TypeNext, FuseNext
  <1> QED
    BY <1>1, <1>2, PTL DEF Spec

\* What the vault has is of staging files, and the whole of them.
LEMMA StoredWhole ==
  ASSUME TypeInv, FuseInv, NEW n \in Name, NEW i \in DOMAIN entries[n]
  PROVE  /\ entries[n][i][1] \in File /\ entries[n][i][1] \in At(n)
         /\ entries[n][i][1] \in Stored
         /\ entries[n][i] = <<entries[n][i][1], Mem(entries[n][i][1]).data>>
  <1>1. entries[n][i] \in Version
    <2>1. entries[n] \in Seq(Version)
      BY DEF TypeInv, TypeOK
    <2> QED
      BY <2>1
  <1>2. PICK f \in File, d \in 0 .. MaxWrites : entries[n][i] = <<f, d>>
    BY <1>1 DEF Version
  <1>3. f \in At(n)
    BY <1>2 DEF At, Files
  <1>4. d = Mem(f).data
    BY <1>2 DEF FuseInv, Whole
  <1> QED
    BY <1>2, <1>3, <1>4 DEF Stored

\* NoLostClose: what has been closed is whole in the vault, or in the spool
\* with its .meta, or an import has it in hand; so kill -9 does not lose it.
THEOREM FuseNoLostClose ==
  ASSUME Races = {}
  PROVE  Spec => []NoLostClose
  <1>1. ASSUME TypeInv, FuseInv
        PROVE  NoLostClose
    <2>1. ASSUME NEW f \in owed
          PROVE  InVault(f) \/ InSpool(f) \/ UnderWay(f)
      <3>1. CASE f \in Stored
        <4>1. PICK n \in Name : f \in At(n)
          BY <3>1 DEF Stored
        <4>2. PICK i \in DOMAIN entries[n] : entries[n][i][1] = f
          BY <4>1 DEF At, Files
        <4>3. entries[n][i] = <<f, Mem(f).data>>
          BY <1>1, <4>2, StoredWhole
        <4> QED
          BY <4>3 DEF InVault
      <3>2. CASE f \in Staged /\ f \in Metas
        BY <3>2 DEF Staged, Metas, InSpool
      <3>3. CASE f \in Staged /\ \E t \in Importer : pc[t] \in {"stat", "remove", "put"}
                                                     /\ job[t].file = f
        BY <3>3 DEF Staged, UnderWay
      <3> QED
        BY <1>1, <2>1, <3>1, <3>2, <3>3 DEF FuseInv, Somewhere
    <2> QED
      BY <2>1 DEF NoLostClose
  <1> QED
    BY <1>1, FuseAlways, PTL

\* WholeOnly: RELEASE is where importPending starts, so what the vault has of
\* a file is the whole of it, and its handle is closed.
THEOREM FuseWholeOnly ==
  ASSUME Races = {}
  PROVE  Spec => []WholeOnly
  <1>1. ASSUME TypeInv, FuseInv
        PROVE  WholeOnly
    <2>1. ASSUME NEW n \in Name, NEW i \in DOMAIN entries[n]
          PROVE  /\ ~Mem(entries[n][i][1]).open
                 /\ entries[n][i][2] = Mem(entries[n][i][1]).data
      <3>1. PICK f \in File : f = entries[n][i][1] /\ f \in Stored
        BY <1>1, StoredWhole
      <3>2. ~Mem(f).open
        BY <1>1, <3>1 DEF FuseInv, StoredClosed, Opened
      <3>3. entries[n][i][2] = Mem(f).data
        BY <1>1, <3>1 DEF FuseInv, Whole
      <3> QED
        BY <3>1, <3>2, <3>3
    <2> QED
      BY <2>1 DEF WholeOnly
  <1> QED
    BY <1>1, FuseAlways, PTL

\* OnePath: ImportFile takes the old entry out in one step and puts the new one
\* in in another, and no two imports to a path have their steps mixed.
THEOREM FuseOnePath ==
  ASSUME Races = {}
  PROVE  Spec => []OnePath
  BY FuseAlways, PTL DEF FuseInv

\* Unlinked: what was unlinked while it was pending does not come back.
THEOREM FuseUnlinked ==
  ASSUME Races = {}
  PROVE  Spec => []Unlinked
  <1>1. ASSUME FuseInv
        PROVE  Unlinked
    <2>1. ASSUME NEW f \in File, Mem(f).orphan, NEW n \in Name, f \in At(n)
          PROVE  FALSE
      BY <1>1, <2>1 DEF FuseInv, StoredClosed, Stored, Orphans
    <2> QED
      BY <2>1 DEF Unlinked, At
  <1> QED
    BY <1>1, FuseAlways, PTL
=============================================================================
