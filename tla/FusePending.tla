---------------------------- MODULE FusePending ----------------------------
(***************************************************************************)
(* Files written through the mount (internal/fusefs).  A handle that is    *)
(* open for writing has a staging file of its own; a pending record, kept  *)
(* under the name, says when it may be imported.  A handle that reads has  *)
(* neither, and marks the record of its name all the same when it is       *)
(* released.  The janitor imports what is closed; requests for a name, a   *)
(* listing, a rename import what they find.  All of them use               *)
(* importPending, which holds no lock while it works, and dropPending,     *)
(* which goes by the name.                                                 *)
(*                                                                         *)
(* Requests of the kernel run concurrently: those that change the map of   *)
(* pending files at once are single steps, those that import have a thread.*)
(* What ImportFile does to the vault and to the depot is in ManifestSync   *)
(* and VaultBatch: here the entry at the name goes, and later a version of *)
(* the file comes.  All names are in one directory.                        *)
(*                                                                         *)
(* owed is a history variable.                                             *)
(***************************************************************************)
EXTENDS Naturals, Sequences, FiniteSets

CONSTANTS
  Thread,     \* requests that import
  Janitor,
  Name,
  File,       \* staging files, one for each handle that writes
  Reader,     \* handles that read
  None,       \* no file, no name
  Races,      \* "list":   a file still open is imported by a listing, a
              \*           rename or the removal of a folder
              \* "open":   a name is opened while it is pending, imported, or
              \*           ahead of a request that drops records by name
              \* "read":   a reader closes the name of a file still open
              \* "rename": the new name is pending or imported
              \* "unlink": a file is unlinked when it has been imported, and
              \*           its pending record is still there
              \* "fail":   an import fails that a listing does not wait for
              \* "crash":  the process is killed while an entry is
              \*           being written anew, or with its record dropped
              \* "old":    the vault is mounted a day after a file was closed
  MaxWrites   \* (bound) writes to a file

ASSUME FuseAssumption ==
  /\ Janitor \notin Thread /\ None \notin Name /\ None \notin File
  /\ IsFiniteSet(File)
  /\ Races \subseteq {"list", "open", "read", "rename", "unlink", "fail", "crash", "old"}
  /\ MaxWrites \in Nat

VARIABLES
  file,     \* [File -> the staging file, its handle and its pending record]
  pending,  \* [Name -> the file registered under it, or None]
  reading,  \* [Reader -> the name that it was opened under, or None]
  entries,  \* [Name -> versions in the vault with that path]
  pc,       \* [Importer -> step]
  job,      \* [Importer -> the request under way]
  owed      \* (history) files that were closed, and neither unlinked nor
            \* written over since

vars == <<file, pending, reading, entries, pc, job, owed>>

Importer == Thread \cup {Janitor}

\* data: writes so far; staged: the staging file is in the spool; meta: so is
\* its .meta; closed: handleClosed
Staging == [name : Name \cup {None}, data : 0 .. MaxWrites, open : BOOLEAN,
            staged : BOOLEAN, meta : BOOLEAN, closed : BOOLEAN,
            orphan : BOOLEAN, importing : BOOLEAN, imported : BOOLEAN]
Unused  == [name |-> None, data |-> 0, open |-> FALSE,
            staged |-> FALSE, meta |-> FALSE, closed |-> FALSE,
            orphan |-> FALSE, importing |-> FALSE, imported |-> FALSE]

Version == File \X (0 .. MaxWrites)
Op      == {"tick", "open", "list", "settle", "rename"}
Step    == {"idle", "next", "claim", "stat", "remove", "put", "clean",
            "drop", "open", "rename"}

\* todo: what is left of the snapshot; at, file: the pending file at hand;
\* name, to: what the request is about
Job   == [op : Op, todo : SUBSET (Name \X File), at : Name \cup {None},
          file : File \cup {None}, name : Name \cup {None}, to : Name \cup {None}]
NoJob == [op |-> "tick", todo |-> {}, at |-> None, file |-> None,
          name |-> None, to |-> None]

Init ==
  /\ file = [f \in File |-> Unused]
  /\ pending = [n \in Name |-> None] /\ reading = [r \in Reader |-> None]
  /\ entries = [n \in Name |-> <<>>]
  /\ pc = [t \in Importer |-> "idle"] /\ job = [t \in Importer |-> NoJob]
  /\ owed = {}

----------------------------------------------------------------------------
Forcing(t)   == job[t].op \in {"list", "settle", "rename"}
Importing(n) == \E t \in Importer :
                  pc[t] \in {"claim", "stat", "remove", "put", "clean", "drop"}
                    /\ job[t].at = n

Mem(f) == file[f]

\* The name has no pending record but that of an unlinked file.
Orphans       == {f \in File : Mem(f).orphan}
NoRecordOf(n) == pending[n] \in Orphans \cup {None}

\* Drops the record of every name of its snapshot, whatever it has imported.
Settling(t) == job[t].op \in {"settle", "rename"}
Ahead(n)    == \E t \in Thread : Settling(t) /\ \E f \in File : <<n, f>> \in job[t].todo

\* No other handle, record or import is at work on the name, or will be.
Free(n) ==
  \/ "open" \in Races
  \/ /\ ~Importing(n) /\ ~Ahead(n)
     /\ NoRecordOf(n)
     /\ \A f \in File : Mem(f).name = n => ~Mem(f).open

\* The kernel's lock on a folder, held while one of its names is moved or the
\* folder removed: no name in it comes or goes meanwhile.
Unlocked == \A t \in Thread : pc[t] = "idle" \/ ~Settling(t)

Goto(t, s) == pc' = [pc EXCEPT ![t] = s]

\* Through with the pending file at hand.
NextOne(t) ==
  /\ Goto(t, "next")
  /\ job' = [job EXCEPT ![t].at = None, ![t].file = None]

Return(t) ==
  /\ Goto(t, "idle")
  /\ job' = [job EXCEPT ![t] = NoJob]

----------------------------------------------------------------------------
(* Handles.                                                                *)

\* CreateTemp: which of the names not used yet makes no difference.
Fresh == CHOOSE f \in File : Mem(f) = Unused

\* registerPending of a new staging file, whatever the name had.
Register(n, f) ==
  /\ Mem(f) = Unused /\ f = Fresh
  /\ file' = [file EXCEPT ![f] = [Unused EXCEPT !.name = n, !.open = TRUE,
                                                !.staged = TRUE, !.meta = TRUE]]
  /\ pending' = [pending EXCEPT ![n] = f]

\* The kernel creates what GetAttr does not find.
Create(n, f) ==
  /\ Unlocked /\ entries[n] = <<>>
  /\ NoRecordOf(n)
  /\ Free(n)
  /\ Register(n, f)
  /\ UNCHANGED <<reading, entries, pc, job, owed>>

Write(f) ==
  /\ Mem(f).open /\ Mem(f).data < MaxWrites
  /\ file' = [file EXCEPT ![f].data = @ + 1]
  /\ UNCHANGED <<pending, reading, entries, pc, job, owed>>

\* Release marks what is registered under the handle's name.
ReleasedRecord(f) == pending[Mem(f).name]

Files(vs) == {vs[i][1] : i \in DOMAIN vs}

\* What a close writes over: what the name has, in the vault or in the spool.
WrittenOver(n) == Files(entries[n]) \cup {f \in File : Mem(f).name = n /\ Mem(f).staged}

Release(f) ==
  LET p == ReleasedRecord(f)
      g == [file EXCEPT ![f].open = FALSE]
  IN
  /\ Mem(f).open
  /\ file' = IF p = None THEN g ELSE [g EXCEPT ![p].closed = TRUE]
  /\ owed' = IF Mem(f).orphan THEN owed ELSE (owed \ WrittenOver(Mem(f).name)) \cup {f}
  /\ UNCHANGED <<pending, reading, entries, pc, job>>

\* A handle that reads marks the record of its name, too, whoever writes there.
ReleaseRead(r) ==
  LET p == pending[reading[r]] IN
  /\ reading[r] # None
  /\ "read" \in Races \/ p \notin {f \in File : Mem(f).open /\ ~Mem(f).orphan}
  /\ reading' = [reading EXCEPT ![r] = None]
  /\ file' = IF p = None THEN file ELSE [file EXCEPT ![p].closed = TRUE]
  /\ UNCHANGED <<pending, entries, pc, job, owed>>

\* (mutant of Orphan: the staging file stays)
OrphanKept(m) == [m EXCEPT !.orphan = TRUE, !.meta = FALSE]

Orphan(m) == [m EXCEPT !.orphan = TRUE, !.staged = FALSE, !.meta = FALSE]

\* Unlink: a pending file becomes an orphan, and keeps its record.
UnlinkPending(n) ==
  LET f == pending[n] IN
  /\ Unlocked /\ f # None
  /\ "unlink" \in Races \/ ~\E t \in Importer :
                              pc[t] \in {"clean", "drop"} /\ job[t].at = n
  /\ file' = [file EXCEPT ![f] = Orphan(@)]
  /\ owed' = owed \ {f}
  /\ UNCHANGED <<pending, reading, entries, pc, job>>

\* RemoveByPath
UnlinkEntry(n) ==
  /\ Unlocked /\ pending[n] = None /\ entries[n] # <<>>
  /\ owed' = owed \ Files(entries[n])
  /\ entries' = [entries EXCEPT ![n] = Tail(@)]
  /\ UNCHANGED <<file, pending, reading, pc, job>>

----------------------------------------------------------------------------
(* Requests that import first.                                             *)

\* (mutant of Snapshot: a name without a record, too)
SnapshotAll(ns) == {<<n, pending[n]>> : n \in ns}

Snapshot(ns) == {<<n, pending[n]>> : n \in {m \in ns : pending[m] # None}}

Begin(t, op, ns, n, to) ==
  /\ pc[t] = "idle"
  /\ Goto(t, "next")
  /\ job' = [job EXCEPT ![t] = [NoJob EXCEPT !.op = op, !.todo = Snapshot(ns),
                                             !.name = n, !.to = to]]
  /\ UNCHANGED <<file, pending, reading, entries, owed>>

\* A file that is still written is imported only in a race.
NoneOpen(ns) ==
  "list" \in Races \/ \A n \in ns : pending[n] \notin {f \in File : Mem(f).open}

Tick == Begin(Janitor, "tick", Name, None, None)

\* GetAttr imports and stops there; Open may go on to OpenWrite.
Open(t, n) == Begin(t, "open", {n}, n, None)
OpenDir(t) == NoneOpen(Name) /\ Begin(t, "list", Name, None, None)

\* importPendingUnder, before a folder is removed or renamed.
Settle(t) == Unlocked /\ NoneOpen(Name) /\ Begin(t, "settle", Name, None, None)

Rename(t, n, to) ==
  /\ Unlocked /\ n # to /\ NoneOpen({n})
  /\ pending[n] \notin Orphans
  /\ Begin(t, "rename", {n}, n, to)

----------------------------------------------------------------------------
(* Next of the snapshot.                                                   *)

Unimported(f) == ~Mem(f).orphan /\ ~Mem(f).imported

\* (mutant of Ready: what is still written is taken for ready)
ReadyAnyway(op, f) == op = "rename" \/ Unimported(f)

\* What a request imports of its snapshot.
Ready(op, f) ==
  CASE op \in {"tick", "open"} -> Mem(f).closed /\ Unimported(f)
    [] op \in {"list", "settle"}       -> Unimported(f)
    [] op = "rename"                   -> TRUE

Pick(t) ==
  /\ pc[t] = "next"
  /\ \E x \in job[t].todo :
       LET rest == [job EXCEPT ![t].todo = @ \ {x}]
           take == [rest EXCEPT ![t].at = x[1], ![t].file = x[2]]
       IN
       \/ Ready(job[t].op, x[2]) /\ Goto(t, "claim") /\ job' = take
       \/ /\ ~Ready(job[t].op, x[2])
          /\ IF job[t].op = "settle" THEN Goto(t, "drop") /\ job' = take
             ELSE job' = rest /\ UNCHANGED pc
  /\ UNCHANGED <<file, pending, reading, entries, owed>>

\* The request ends: GetAttr, an Open that finds nothing, a listing, ...
Done(t) ==
  LET j == job[t] IN
  /\ pc[t] = "next" /\ j.todo = {}
  /\ j.op = "rename" => entries[j.name] = <<>> \/ entries[j.to] # <<>>
  /\ Return(t)
  /\ UNCHANGED <<file, pending, reading, entries, owed>>

\* Open for reading.
OpenRead(t, r) ==
  LET n == job[t].name IN
  /\ pc[t] = "next" /\ job[t].todo = {} /\ job[t].op = "open"
  /\ entries[n] # <<>> /\ reading[r] = None
  /\ reading' = [reading EXCEPT ![r] = n]
  /\ Return(t)
  /\ UNCHANGED <<file, pending, entries, owed>>

\* Open for writing: a copy of the content to edit.
OpenWrite(t, f) ==
  LET n == job[t].name IN
  /\ pc[t] = "next" /\ job[t].todo = {} /\ job[t].op = "open"
  /\ entries[n] # <<>> /\ Free(n)
  /\ Register(n, f)
  /\ Return(t)
  /\ UNCHANGED <<reading, entries, owed>>

RenameEntry(t) ==
  LET n == job[t].name
      m == job[t].to
  IN
  /\ pc[t] = "next" /\ job[t].todo = {} /\ job[t].op = "rename"
  /\ entries[n] # <<>> /\ entries[m] = <<>>
  /\ "rename" \in Races \/ Free(m)
  /\ entries' = [entries EXCEPT ![n] = Tail(@), ![m] = <<Head(entries[n])>>]
  /\ Return(t)
  /\ UNCHANGED <<file, pending, reading, owed>>

----------------------------------------------------------------------------
(* importPending, and dropPending behind it.                               *)

\* importPending returned false: the forced ones drop the record all the same.
Refused(t) == IF Forcing(t) THEN Goto(t, "drop") /\ UNCHANGED job ELSE NextOne(t)

\* (mutant of Busy: two imports of one file)
NotBusy(f) == FALSE

Busy(f) == Mem(f).importing

Claim(t) ==
  LET f == job[t].file IN
  /\ pc[t] = "claim"
  /\ IF Busy(f) THEN Refused(t) /\ UNCHANGED file
     ELSE file' = [file EXCEPT ![f].importing = TRUE] /\ Goto(t, "stat") /\ UNCHANGED job
  /\ UNCHANGED <<pending, reading, entries, owed>>

\* dropPending goes by the name; importing stays set.
DropRecord(n, g) ==
  /\ pending' = [pending EXCEPT ![n] = None]
  /\ file' = IF pending[n] = None THEN g ELSE [g EXCEPT ![pending[n]].meta = FALSE]

Stat(t) ==
  LET f == job[t].file IN
  /\ pc[t] = "stat"
  /\ IF Mem(f).staged THEN Goto(t, "remove") /\ UNCHANGED <<file, pending, job>>
     ELSE DropRecord(job[t].at, file) /\ Refused(t)
  /\ UNCHANGED <<reading, entries, owed>>

\* (mutant of Displaced: the old entry stays)
NoneDisplaced(vs) == vs

\* What ImportFile leaves of the entries at its target.
Displaced(vs) == IF vs = <<>> THEN vs ELSE Tail(vs)

RemoveOld(t) ==
  LET n == Mem(job[t].file).name IN
  /\ pc[t] = "remove"
  /\ entries' = [entries EXCEPT ![n] = Displaced(@)]
  /\ Goto(t, "put")
  /\ UNCHANGED <<file, pending, reading, job, owed>>

Put(t) ==
  LET f == job[t].file IN
  /\ pc[t] = "put" /\ Mem(f).staged
  /\ entries' = [entries EXCEPT ![Mem(f).name] = Append(@, <<f, Mem(f).data>>)]
  /\ Goto(t, "clean")
  /\ UNCHANGED <<file, pending, reading, job, owed>>

\* A forced request that finds the import of another under way drops the
\* record behind its back.
MayFail(t) ==
  \/ "fail" \in Races
  \/ /\ pending[job[t].at] = job[t].file
     /\ \A u \in Importer : ~Forcing(u)

\* (mutant of AfterFailure: it stays importing)
Stuck(m) == m

AfterFailure(m) == [m EXCEPT !.importing = FALSE]

PutFails(t) ==
  LET f == job[t].file IN
  /\ pc[t] = "put"
  /\ Mem(f).staged => MayFail(t)
  /\ file' = [file EXCEPT ![f] = AfterFailure(@)]
  /\ Refused(t)
  /\ UNCHANGED <<pending, reading, entries, owed>>

Clean(t) ==
  /\ pc[t] = "clean"
  /\ file' = [file EXCEPT ![job[t].file].staged = FALSE,
                          ![job[t].file].imported = TRUE]
  /\ Goto(t, "drop")
  /\ UNCHANGED <<pending, reading, entries, job, owed>>

Drop(t) ==
  /\ pc[t] = "drop"
  /\ DropRecord(job[t].at, file)
  /\ NextOne(t)
  /\ UNCHANGED <<reading, entries, owed>>

----------------------------------------------------------------------------
(* The process is killed and the vault mounted again.  A crash between     *)
(* RemoveOld and Put is the business of ManifestSync.  recoverPending goes *)
(* through the .meta files; their Src is empty, so that ImportFile takes   *)
(* the old entry away and then fails, and the files stay.  cleanOldSpool   *)
(* then deletes what is older than a day, each file by its own time.       *)

InSpool(f)   == Mem(f).staged /\ Mem(f).meta
SpoolOf(n)   == {f \in File : Mem(f).name = n /\ InSpool(f)}

\* The import of f is under way, and f may be all there is of it.
UnderWay(f) ==
  /\ Mem(f).staged
  /\ \E t \in Importer : pc[t] \in {"stat", "remove", "put"} /\ job[t].file = f

\* No old entry to lose, and no import whose record a forced request dropped.
CrashSafe == /\ \A n \in Name : SpoolOf(n) # {} => entries[n] = <<>>
             /\ \A f \in File : UnderWay(f) => Mem(f).meta

\* Staging files that may be older than a day, or their .meta.
Aged == {f \in File : Mem(f).staged /\ ("old" \in Races \/ f \notin owed)}

Crash ==
  /\ \A t \in Importer : pc[t] # "put"
  /\ "crash" \in Races \/ CrashSafe
  /\ \E f \in File : Mem(f).staged
  /\ pending' = [n \in Name |-> None] /\ reading' = [r \in Reader |-> None]
  /\ \E tmps \in SUBSET Aged, metas \in SUBSET Aged :
       file' = [f \in File |-> [Mem(f) EXCEPT !.open = FALSE, !.closed = FALSE,
                                    !.importing = FALSE,
                                    !.staged = @ /\ f \notin tmps,
                                    !.meta = InSpool(f) /\ f \notin metas]]
  /\ entries' = [n \in Name |-> SubSeq(entries[n], Cardinality(SpoolOf(n)) + 1,
                                         Len(entries[n]))]
  /\ pc' = [t \in Importer |-> "idle"] /\ job' = [t \in Importer |-> NoJob]
  /\ UNCHANGED <<owed>>

----------------------------------------------------------------------------
Import(t) == \/ Claim(t) \/ Stat(t) \/ RemoveOld(t) \/ Put(t) \/ PutFails(t)
             \/ Clean(t) \/ Drop(t)

Proceed(t) == \/ Pick(t) \/ Done(t) \/ RenameEntry(t) \/ Import(t)
              \/ \E r \in Reader : OpenRead(t, r)
              \/ \E f \in File : OpenWrite(t, f)

Handles == \/ \E n \in Name, f \in File : Create(n, f)
           \/ \E f \in File : Write(f) \/ Release(f)
           \/ \E n \in Name : UnlinkPending(n) \/ UnlinkEntry(n)
           \/ \E r \in Reader : ReleaseRead(r)

Requests == \E t \in Thread :
              \/ OpenDir(t) \/ Settle(t)
              \/ \E n \in Name : Open(t, n)
              \/ \E n, to \in Name : Rename(t, n, to)

Next == \/ Tick \/ Requests \/ Handles \/ Crash
        \/ \E t \in Importer : Proceed(t)

Spec == Init /\ [][Next]_vars

\* The janitor's ticker goes on, and a request that has begun runs on: no step
\* of importPending waits for another one.  Imports do not fail for ever.
Fairness ==
  /\ WF_vars(Tick) /\ \A t \in Importer : WF_vars(Proceed(t))
  /\ SF_vars(\E t \in Importer : Put(t))

FairSpec == Spec /\ Fairness

----------------------------------------------------------------------------
(* Correctness.                                                            *)

TypeOK ==
  /\ file \in [File -> Staging] /\ pending \in [Name -> File \cup {None}]
  /\ reading \in [Reader -> Name \cup {None}]
  /\ entries \in [Name -> Seq(Version)]
  /\ pc \in [Importer -> Step] /\ job \in [Importer -> Job]
  /\ owed \in SUBSET File

InVault(f) == \E n \in Name : \E i \in DOMAIN entries[n] : entries[n][i] = <<f, Mem(f).data>>

\* "kill -9 não perde o que já fechou" (README.md:135): what has been closed is
\* whole in the vault, or in the spool with its .meta or a thread at work on it.
NoLostClose == \A f \in owed : InVault(f) \/ InSpool(f) \/ UnderWay(f)

\* "RELEASE é o único ponto garantido de 'não vêm mais dados'"
\* (fusefs.go:499-502): what the vault has of a file is the whole of it.
WholeOnly == \A n \in Name : \A i \in DOMAIN entries[n] :
               LET f == entries[n][i][1] IN
               ~Mem(f).open /\ entries[n][i][2] = Mem(f).data

\* ImportFile takes out what is at the path and puts the new entry in, in two
\* steps: a path never has two entries.
OnePath == \A n \in Name : Len(entries[n]) <= 1

\* "desvinculado antes do close: dados devem sumir" (fusefs.go:54): a file that
\* was unlinked while it was pending does not come back.
Unlinked == \A f \in File : Mem(f).orphan => \A n \in Name : f \notin Files(entries[n])

\* What is closed is in the vault in the end (the janitor, fusefs.go:61-63),
\* unless it is unlinked or written over, or the process is killed: the next
\* mount finds it in the spool without a record, and does not import it.
LeftInSpool(f) == InSpool(f) /\ ~Mem(f).closed

Imported == \A f \in File : []<>(f \in owed => InVault(f) \/ LeftInSpool(f))
=============================================================================
