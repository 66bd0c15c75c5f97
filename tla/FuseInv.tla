------------------------------ MODULE FuseInv ------------------------------
(***************************************************************************)
(* What holds in every state of FusePending, stronger than its properties  *)
(* and inductive: FuseProof proves them from it.  The staging files are    *)
(* told apart by the sets they are in, and the importers by the files that *)
(* they hold, wait for, or drop the record of.                             *)
(***************************************************************************)
EXTENDS FusePending

Opened == {f \in File : Mem(f).open}
Staged == {f \in File : Mem(f).staged}
Metas  == {f \in File : Mem(f).meta}
Closed == {f \in File : Mem(f).closed}
Taken  == {f \in File : Mem(f).importing}
Moved  == {f \in File : Mem(f).imported}
Used   == {f \in File : Mem(f).name # None}

NameOf(f) == Mem(f).name
At(n)     == Files(entries[n])
Stored    == UNION {At(n) : n \in Name}

AtWork(t)  == pc[t] \in {"claim", "stat", "remove", "put", "clean", "drop"}
Holding(t) == pc[t] \in {"stat", "remove", "put", "clean"}

\* Importer t has set importing on f, and works on it.
Holds(t, f) == Holding(t) /\ job[t].file = f
Held        == {f \in File : \E t \in Importer : Holds(t, f)}

\* Files that importer t has seen registered and may still take.
Snapped(t)   == {f \in File : \E n \in Name : <<n, f>> \in job[t].todo}
Awaits(t, f) == f \in Snapped(t) \/ (pc[t] = "claim" /\ job[t].file = f)

\* Importer t drops the record of n, whatever it finds, and takes it for f's.
Binds(t, n, f) == \/ AtWork(t) /\ job[t].at = n /\ job[t].file = f
                  \/ Settling(t) /\ <<n, f>> \in job[t].todo

----------------------------------------------------------------------------
(* With any races.                                                         *)

\* A file is found under its own name, in a record, a snapshot, an import.
FilesNamed   == \A f \in File : NameOf(f) = None => Mem(f) = Unused
RecordsNamed == \A n \in Name : pending[n] # None => NameOf(pending[n]) = n

\* The request of an importer is about what it says.
Fit(t) ==
  /\ t = Janitor => job[t].op = "tick"
  /\ job[t].op \in {"open", "rename"} => job[t].name \in Name
  /\ job[t].op = "rename" => job[t].to \in Name
  /\ \A x \in job[t].todo : NameOf(x[2]) = x[1]
  /\ AtWork(t) => /\ job[t].file \in File /\ job[t].at \in Name
                  /\ NameOf(job[t].file) = job[t].at

TypeInv == TypeOK /\ FilesNamed /\ RecordsNamed /\ \A t \in Importer : Fit(t)

----------------------------------------------------------------------------
(* Without races.                                                          *)

\* What has left the spool is unlinked, in the vault, or deleted with the old
\* files, and then nothing is about it; a record in the map has its .meta.
Spooled ==
  /\ Staged \cap Orphans = {} /\ Staged \cap Moved = {}
  /\ \A f \in Used \ (Staged \cup Orphans \cup Moved) :
       f \notin Held /\ \A n \in Name : pending[n] # f
  /\ \A n \in Name : pending[n] \in Staged => pending[n] \in Metas

\* An open handle has its name to itself; a reader marks it once it is unlinked.
OpenAlone ==
  \A f \in Opened, n \in Name : NameOf(f) = n =>
    /\ pending[n] = f /\ f \notin Closed \ Orphans /\ f \notin Moved
    /\ \A t \in Importer :
         /\ \A g \in File : ~Binds(t, n, g)
         /\ Forcing(t) => f \notin Snapped(t)

\* No record of another file is dropped.
OwnRecord == \A t \in Importer, n \in Name, f \in File :
               Binds(t, n, f) => pending[n] \in {f, None}

\* Two that drop the record of a name do so for one file.
OneFile == \A t, u \in Importer, n \in Name, f, g \in File :
             Binds(t, n, f) /\ Binds(u, n, g) => f = g

\* What may still be taken is registered, or under way, or there is nothing
\* left to import.
Awaited ==
  \A t \in Importer, f \in File : Awaits(t, f) =>
    \/ f \in Orphans \cup Moved \cup Held
    \/ \E n \in Name : pending[n] = f

\* importing: one thread at most, or there is nothing left to import.
Exclusive ==
  /\ \A t, u \in Importer, f \in File : Holds(t, f) /\ Holds(u, f) => t = u
  /\ Held \subseteq Taken /\ Taken \subseteq Held \cup Orphans \cup Moved

\* A file is not imported again.
Once ==
  /\ \A t \in Importer, f \in File :
       pc[t] \in {"stat", "remove", "put"} /\ job[t].file = f => f \notin Moved
  /\ \A f \in Moved \ Taken :
       /\ \A n \in Name : pending[n] # f
       /\ \A t \in Importer : ~Awaits(t, f)

\* A record goes with its file imported, unlinked, or in the hands of another.
Dropping ==
  \A t \in Importer, f \in File : pc[t] = "drop" /\ job[t].file = f =>
    \/ f \in Orphans \cup Moved
    \/ Forcing(t) /\ f \in Held

\* The versions in the vault are whole, and of files that are closed.
Whole == \A n \in Name, f \in File : \A i \in DOMAIN entries[n] :
           entries[n][i][1] = f => entries[n][i][2] = Mem(f).data

StoredClosed == Stored \subseteq Used /\ Stored \cap (Opened \cup Orphans) = {}

\* A file in the vault with its record still there is about to lose it.
Leaving ==
  \A f \in Stored, n \in Name : pending[n] = f =>
    \E t \in Importer : pc[t] \in {"clean", "drop"} /\ job[t].file = f

\* There is room for what is about to be written.
Room == \A t \in Importer, n \in Name : pc[t] = "put" /\ job[t].at = n => At(n) = {}

OwedClosed == owed \subseteq Used /\ owed \cap (Opened \cup Orphans) = {}

\* What an import takes out of the vault has been written over.
ForIt(n, f) == owed \cap At(n) \subseteq {f}

\* Importer t will take out what the vault has, if it gets that far.
Replacing(t, n, f) ==
  /\ job[t].at = n /\ job[t].file = f
  /\ \/ pc[t] = "claim" /\ f \in Staged \ Taken
     \/ pc[t] = "stat" /\ f \in Staged
     \/ pc[t] = "remove"

Replaces ==
  \A n \in Name, f \in File :
    /\ pending[n] = f /\ f \notin Opened \cup Orphans => ForIt(n, f)
    /\ \A t \in Importer : Replacing(t, n, f) => ForIt(n, f)

\* The staging file goes only after the entry has come.
CleanAfter == \A t \in Importer, f \in File :
                pc[t] = "clean" /\ job[t].file = f /\ f \in owed => f \in Stored

\* NoLostClose.
Somewhere ==
  \A f \in owed :
    \/ f \in Stored
    \/ f \in Staged /\ f \in Metas
    \/ f \in Staged /\ \E t \in Importer : pc[t] \in {"stat", "remove", "put"} /\ job[t].file = f

FuseInv ==
  /\ Spooled /\ OpenAlone /\ OwnRecord /\ OneFile /\ Awaited /\ Exclusive
  /\ Once /\ Dropping /\ Whole /\ StoredClosed /\ Leaving /\ OnePath /\ Room
  /\ OwedClosed /\ Replaces /\ CleanAfter /\ Somewhere
=============================================================================
