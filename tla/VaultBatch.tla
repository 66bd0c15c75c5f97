----------------------------- MODULE VaultBatch -----------------------------
(***************************************************************************)
(* The calls of one process that change its vault and its depot at once    *)
(* (internal/vault: ops.go, blocks.go, idle.go): Add of a folder, which    *)
(* keeps a batch of the depot open from file to file, Add and ImportFile   *)
(* of one file, Remove, and the idle compaction.                           *)
(*                                                                         *)
(* Two locks order them.  mu is the vault's mutex.  lock is the depot's    *)
(* (wmu and the flock): a batch has it from Begin to Close or Abort,       *)
(* another process may have it, too.  A call that wants the depot while a  *)
(* batch is published uses that batch (active) and takes no lock.          *)
(*                                                                         *)
(* A step is a stretch of code under mu, or between two of its uses.  How  *)
(* the depot stores a content is in Depot, how the manifest is saved in    *)
(* ManifestSync; owed is a history variable.                               *)
(***************************************************************************)
EXTENDS Naturals, Sequences, SequencesExt, FiniteSets

CONSTANTS
  Thread,      \* threads of the process (requests, mount, janitor, compactor)
  Nobody,      \* no thread; no content
  Other,       \* another process
  File,        \* source files
  Content,     \* contents, named by their hash
  Path,        \* places in the vault
  ContentOf,   \* [File -> Content]
  PathOf,      \* [File -> Path]
  Folders,     \* what a folder may hold: sequences of files
  Calls,       \* [Thread -> calls that the thread makes]
  Faults,      \* steps that may fail
  Races,       \* "begin":   calls while a batch is open and not published
               \* "adds":    two Adds of folders at once
               \* "pending": Remove of what an open Add counts on
  MaxEntries   \* (bound) no more files are added to so many entries

Kind == {"folder", "file", "import", "remove", "compact"}

ASSUME BatchAssumption ==
  /\ Nobody \notin Thread /\ Other \notin Thread /\ Nobody # Other
  /\ Nobody \notin Content
  /\ ContentOf \in [File -> Content] /\ PathOf \in [File -> Path]
  /\ Folders \subseteq Seq(File)
  /\ Calls \in [Thread -> SUBSET Kind]
  /\ Faults \subseteq {"begin", "walk", "put", "commit", "close", "remove"}
  /\ Races \subseteq {"begin", "adds", "pending"}
  /\ MaxEntries \in Nat

VARIABLES
  mu,       \* the thread that holds s.mu across steps, or Nobody
  lock,     \* who has the depot to write
  active,   \* activeBatch, named by the thread that began it, or Nobody
  pend,     \* batchPend: files registered when the batch is closed
  queued,   \* contents put in the open batch and not committed
  seen,     \* s.pend: contents that Has reports before their Commit
  stored,   \* contents with a recipe in the depot
  entries,  \* the manifest in memory: files in the order of their entries
  pc,       \* [Thread -> step]
  job,      \* [Thread -> the call under way]
  owed      \* (history) files reported as added, and not removed since

depot == <<lock, queued, seen, stored>>
vault == <<mu, active, pend, entries>>
vars  == <<mu, lock, active, pend, queued, seen, stored, entries, pc, job, owed>>

Step == {"idle", "begin", "publish", "walk", "replace", "file", "put",
         "close", "verify", "abort", "discard",
         "release", "gc", "check", "round"}

\* put: the file's content was put in the batch, and is to be verified
Item == [file : File, put : BOOLEAN]

\* batch and items: what the thread took of active and pend; kept: the files of
\* items that passed; out: files it is going to report; gone: the content it
\* is going to remove
Job   == [kind : Kind, todo : Seq(File), out : SUBSET File,
          batch : Thread \cup {Nobody}, items : Seq(Item), kept : Seq(File),
          gone : Content \cup {Nobody}]
NoJob == [kind |-> "remove", todo |-> <<>>, out |-> {},
          batch |-> Nobody, items |-> <<>>, kept |-> <<>>, gone |-> Nobody]

Init ==
  /\ mu = Nobody /\ lock = Nobody /\ active = Nobody /\ pend = <<>>
  /\ queued = {} /\ seen = {} /\ stored = {} /\ entries = <<>>
  /\ pc = [t \in Thread |-> "idle"] /\ job = [t \in Thread |-> NoJob]
  /\ owed = {}

----------------------------------------------------------------------------
\* How the step may end: well, or with a fault of one of the kinds fs.
Fate(fs) == {"ok"} \cup (Faults \cap fs)

Goto(t, s) == pc' = [pc EXCEPT ![t] = s]

Return(t) ==
  /\ Goto(t, "idle")
  /\ owed' = owed \cup job[t].out
  /\ job' = [job EXCEPT ![t] = NoJob]

Busy(k) == \E t \in Thread : pc[t] # "idle" /\ job[t].kind = k

\* A thread at one of these steps holds mu and wants the depot's lock.
Wants(t) == pc[t] \in {"put", "release", "gc"}

Publishing == \E t \in Thread : pc[t] = "publish"

\* The thread may go on to wait for the lock with mu held.
MayWait == "begin" \in Races \/ ~Publishing

Batched(t)  == job[t].kind = "folder"
Contents(s) == {ContentOf[s[i]] : i \in DOMAIN s}
Counted(s)  == {ContentOf[s[i].file] : i \in DOMAIN s}

\* Contents that an Add of a folder counts on for entries still to come.
Pending ==
  Counted(pend) \cup
  UNION {Counted(job[t].items) \cup Contents(job[t].kept) : t \in Thread}

\* entryByID: the entry at i is the first with content c.
ByID(i, c) ==
  /\ ContentOf[entries[i]] = c
  /\ \A j \in 1..(i - 1) : ContentOf[entries[j]] # c

----------------------------------------------------------------------------
(* Calls.                                                                  *)

Call(t, k, s, files) ==
  /\ pc[t] = "idle" /\ k \in Calls[t]
  /\ job' = [job EXCEPT ![t] = [NoJob EXCEPT !.kind = k, !.todo = files]]
  /\ Goto(t, s)
  /\ UNCHANGED <<depot, vault, owed>>

AddFolder(t) ==
  /\ "adds" \in Races \/ ~Busy("folder")
  /\ Len(entries) < MaxEntries
  /\ \E files \in Folders : Call(t, "folder", "begin", files)

AddOne(t) ==
  /\ Len(entries) < MaxEntries
  /\ \E f \in File : Call(t, "file", "file", <<f>>)

ImportFile(t) ==
  /\ Len(entries) < MaxEntries
  /\ \E f \in File : Call(t, "import", "replace", <<f>>)

CompactIdle(t) == Call(t, "compact", "check", <<>>)

----------------------------------------------------------------------------
(* The batch of an Add of a folder.                                        *)

\* beginBatch: the depot first, ...
Begin(t) ==
  /\ pc[t] = "begin" /\ lock = Nobody
  /\ "begin" \in Races \/ \A u \in Thread : ~Wants(u)
  /\ \E fate \in Fate({"begin"}) :
       IF fate = "ok"
       THEN lock' = t /\ Goto(t, "publish") /\ UNCHANGED <<job, owed>>
       ELSE UNCHANGED lock /\ Return(t)
  /\ UNCHANGED <<queued, seen, stored, vault>>

\* ... then s.mu.
Publish(t) ==
  /\ pc[t] = "publish" /\ mu = Nobody
  /\ active' = t /\ pend' = <<>>
  /\ Goto(t, "walk")
  /\ UNCHANGED <<depot, mu, entries, job, owed>>

\* WalkDir
Walk(t) ==
  /\ pc[t] = "walk"
  /\ \E fate \in Fate({"walk"}) : Goto(t, IF fate = "ok" THEN "file" ELSE "abort")
  /\ UNCHANGED <<depot, vault, job, owed>>

\* finishBatch: whatever batch and list are there now.
Finish(t) ==
  /\ pc[t] = "file" /\ Batched(t) /\ job[t].todo = <<>> /\ mu = Nobody
  /\ job' = [job EXCEPT ![t].batch = active, ![t].items = pend]
  /\ active' = Nobody /\ pend' = <<>>
  /\ Goto(t, IF active = Nobody THEN "abort" ELSE "close")
  /\ UNCHANGED <<depot, mu, entries, owed>>

\* A Commit that fails leaves what Has reports.
Close(t) ==
  /\ pc[t] = "close"
  /\ \E fate \in Fate({"close"}) :
       IF fate = "ok"
       THEN /\ stored' = stored \cup queued /\ seen' = seen \ queued
            /\ Goto(t, "verify") /\ UNCHANGED job
       ELSE /\ job' = [job EXCEPT ![t].out = {}, ![t].items = <<>>]
            /\ Goto(t, "abort") /\ UNCHANGED <<stored, seen>>
  /\ queued' = {} /\ lock' = Nobody
  /\ UNCHANGED <<vault, owed>>

\* settleItem: what was put can be read; what was a duplicate is not looked at.
Sound(item) == item.put => ContentOf[item.file] \in stored

\* One file of the list, without s.mu. (A content that was put twice is looked
\* at twice.)
Verify(t) ==
  LET item == Head(job[t].items) IN
  /\ pc[t] = "verify" /\ job[t].items # <<>>
  /\ job' = IF Sound(item)
            THEN [job EXCEPT ![t].items = Tail(@), ![t].kept = Append(@, item.file)]
            ELSE [job EXCEPT ![t].items = Tail(@), ![t].out = @ \ {item.file}]
  /\ UNCHANGED <<depot, vault, pc, owed>>

Register(t) ==
  /\ pc[t] = "verify" /\ job[t].items = <<>> /\ mu = Nobody
  /\ entries' = entries \o job[t].kept
  /\ job' = [job EXCEPT ![t].kept = <<>>]
  /\ Goto(t, "abort")
  /\ UNCHANGED <<depot, mu, active, pend, owed>>

\* (mutant of Taken: after an error nothing is left to abort)
NothingTaken == Nobody

\* (mutant of Taken: whoever writes in the depot)
Writer == lock

\* The batch that abortBatch finds, whosever it is.
Taken == active

\* The deferred abortBatch of Add.
Abort(t) ==
  /\ pc[t] = "abort" /\ mu = Nobody
  /\ active' = Nobody /\ pend' = <<>>
  /\ IF Taken = Nobody
     THEN Return(t)
     ELSE /\ job' = [job EXCEPT ![t].batch = Taken]
          /\ Goto(t, "discard") /\ UNCHANGED owed
  /\ UNCHANGED <<depot, mu, entries>>

Discard(t) ==
  /\ pc[t] = "discard"
  /\ seen' = seen \ queued /\ queued' = {} /\ lock' = Nobody
  /\ Return(t)
  /\ UNCHANGED <<stored, vault>>

----------------------------------------------------------------------------
(* addFile, once for each file of an Add.                                  *)

\* (mutant of Advance: the error of a file is not looked at)
AdvanceAnyway(t, done) ==
  job' = [job EXCEPT ![t].todo = Tail(@), ![t].out = @ \cup {Head(job[t].todo)}]

\* (mutant of Advance: the file is tried again)
TryAgain(t, done) ==
  job' = IF done THEN [job EXCEPT ![t].todo = Tail(@),
                                  ![t].out = @ \cup {Head(job[t].todo)}]
                 ELSE job

\* The file is behind the thread; done: it is in the vault.
Advance(t, done) ==
  job' = [job EXCEPT ![t].todo = Tail(@),
                     ![t].out = IF done THEN @ \cup {Head(job[t].todo)} ELSE @]

\* addFile runs: its file, the file's content, and the entry of that content.
AtFile(t) == pc[t] = "file" /\ job[t].todo # <<>> /\ mu = Nobody

The(t)    == Head(job[t].todo)
Hash(t)   == ContentOf[The(t)]
Mine(t)   == \E i \in DOMAIN entries : ByID(i, Hash(t)) /\ entries[i] = The(t)

HasContent(c) == c \in seen \cup stored
Known(t)      == Hash(t) \in Contents(entries) \/ HasContent(Hash(t))

AlreadyIn(t) ==
  /\ AtFile(t) /\ Mine(t)
  /\ Advance(t, TRUE)
  /\ UNCHANGED <<depot, vault, pc, owed>>

\* Another entry, or the depot, has the content: nothing is written.
Duplicate(t) ==
  /\ AtFile(t) /\ ~Mine(t) /\ Known(t)
  /\ IF Batched(t)
     THEN pend' = Append(pend, [file |-> The(t), put |-> FALSE]) /\ UNCHANGED entries
     ELSE entries' = Append(entries, The(t)) /\ UNCHANGED pend
  /\ Advance(t, TRUE)
  /\ UNCHANGED <<depot, mu, active, pc, owed>>

\* addToBatch: what comes from outside the Add is committed at once, with all
\* that is in the batch.
IntoBatch(t) ==
  /\ AtFile(t) /\ ~Known(t) /\ active # Nobody
  /\ \E fate \in Fate(IF Batched(t) THEN {"put"} ELSE {"put", "commit"}) :
       /\ Advance(t, fate = "ok")
       /\ CASE fate = "put" -> UNCHANGED <<depot, pend, entries>>
            [] fate = "commit" \/ (fate = "ok" /\ Batched(t)) ->
                 /\ queued' = queued \cup {Hash(t)} /\ seen' = seen \cup {Hash(t)}
                 /\ pend' = IF fate = "ok"
                            THEN Append(pend, [file |-> The(t), put |-> TRUE])
                            ELSE pend
                 /\ UNCHANGED <<lock, stored, entries>>
            [] OTHER ->
                 /\ UNCHANGED lock
                 /\ stored' = stored \cup queued \cup {Hash(t)}
                 /\ seen' = seen \ queued /\ queued' = {}
                 /\ entries' = Append(entries, The(t))
                 /\ UNCHANGED pend
  /\ UNCHANGED <<mu, active, pc, owed>>

\* putBlocks: a batch of its own, with mu held.
Alone(t) ==
  /\ AtFile(t) /\ ~Known(t) /\ active = Nobody /\ MayWait
  /\ mu' = t /\ Goto(t, "put")
  /\ UNCHANGED <<depot, active, pend, entries, job, owed>>

PutBlocks(t) ==
  /\ pc[t] = "put" /\ lock = Nobody
  /\ \E fate \in Fate({"begin", "put", "close"}) :
       /\ Advance(t, fate = "ok")
       /\ IF fate = "ok" THEN /\ stored' = stored \cup {Hash(t)}
                              /\ entries' = Append(entries, The(t))
                         ELSE UNCHANGED <<stored, entries>>
       /\ seen' = IF fate = "close" THEN seen \cup {Hash(t)} ELSE seen
  /\ mu' = Nobody /\ Goto(t, "file")
  /\ UNCHANGED <<lock, active, pend, queued, owed>>

\* Add and ImportFile of one file end.
FileIn(t) ==
  /\ pc[t] = "file" /\ ~Batched(t) /\ job[t].todo = <<>>
  /\ Return(t)
  /\ UNCHANGED <<depot, vault>>

----------------------------------------------------------------------------
(* removeLocked of the entry at i, in a call that goes on at step s.       *)

\* (mutant of Owned: no other entry is looked for)
NeverOwned(es, c) == FALSE

\* releaseBlocks: the content has an entry in the manifest.
Owned(es, c) == c \in Contents(es)

\* (mutant of InOpenBatch: Remove wants the depot's lock)
NoOpenBatch == FALSE

InOpenBatch == active # Nobody

\* Batch.Remove, Store.Remove: a content that is not committed is forgotten.
RemoveContent(c, fate) ==
  /\ seen' = seen \ {c} /\ queued' = queued \ {c}
  /\ stored' = IF fate = "ok" THEN stored \ {c} ELSE stored

\* The entry is nobody's any more: no call has to report it.
DropEntry(i) ==
  /\ entries' = RemoveAt(entries, i)
  /\ owed' = owed \ {entries[i]}

NotReported(f) == [t \in Thread |-> [job[t] EXCEPT !.out = @ \ {f}]]

RemoveLocked(t, i, s) ==
  LET c == ContentOf[entries[i]] IN
  /\ DropEntry(i)
  /\ IF Owned(RemoveAt(entries, i), c) \/ InOpenBatch
     THEN /\ job' = NotReported(entries[i])
          /\ IF Owned(RemoveAt(entries, i), c)
             THEN UNCHANGED <<queued, seen, stored>>
             ELSE \E fate \in Fate({"remove"}) : RemoveContent(c, fate)
          /\ Goto(t, s) /\ UNCHANGED mu
     ELSE /\ job' = [NotReported(entries[i]) EXCEPT ![t].gone = c]
          /\ UNCHANGED <<queued, seen, stored>>
          /\ mu' = t /\ Goto(t, "release")
  /\ UNCHANGED <<lock, active, pend>>

MayRemove(i) ==
  /\ MayWait
  /\ "pending" \in Races \/ ContentOf[entries[i]] \notin Pending

RemoveEntry(t) ==
  /\ pc[t] = "idle" /\ "remove" \in Calls[t] /\ mu = Nobody
  /\ \E i \in DOMAIN entries : MayRemove(i) /\ RemoveLocked(t, i, "idle")

\* ImportFile: the entry at the file's path goes first.
AtPath(t) == {i \in DOMAIN entries : PathOf[entries[i]] = PathOf[The(t)]}

Replace(t) ==
  /\ pc[t] = "replace" /\ mu = Nobody
  /\ \E i \in AtPath(t) :
       /\ \A j \in AtPath(t) : i <= j
       /\ MayRemove(i) /\ RemoveLocked(t, i, "file")

NothingToReplace(t) ==
  /\ pc[t] = "replace" /\ mu = Nobody /\ AtPath(t) = {}
  /\ Goto(t, "file")
  /\ UNCHANGED <<depot, vault, job, owed>>

Release(t) ==
  /\ pc[t] = "release" /\ lock = Nobody
  /\ \E fate \in Fate({"remove"}) : RemoveContent(job[t].gone, fate)
  /\ Goto(t, "gc")
  /\ UNCHANGED <<lock, vault, job, owed>>

\* GC takes the lock once more, and no content.
GC(t) ==
  /\ pc[t] = "gc" /\ lock = Nobody
  /\ mu' = Nobody
  /\ Goto(t, IF job[t].todo = <<>> THEN "idle" ELSE "file")
  /\ job' = [job EXCEPT ![t].gone = Nobody]
  /\ UNCHANGED <<depot, active, pend, entries, owed>>

----------------------------------------------------------------------------
(* CompactIdleOnce and the GC of RunIdleCompact; another process.          *)

Check(t) ==
  /\ pc[t] = "check" /\ mu = Nobody
  /\ IF active = Nobody
     THEN Goto(t, "round") /\ UNCHANGED <<job, owed>>
     ELSE Return(t)
  /\ UNCHANGED <<depot, vault>>

\* Recompress, or the last GC: the batch seen closed may be open again by now.
Round(t) ==
  /\ pc[t] = "round" /\ lock = Nobody
  /\ \/ Goto(t, "check") /\ UNCHANGED <<job, owed>>
     \/ Return(t)
  /\ UNCHANGED <<depot, vault>>

OtherLocks ==
  /\ lock = Nobody /\ lock' = Other
  /\ UNCHANGED <<queued, seen, stored, vault, pc, job, owed>>

OtherUnlocks ==
  /\ lock = Other /\ lock' = Nobody
  /\ UNCHANGED <<queued, seen, stored, vault, pc, job, owed>>

----------------------------------------------------------------------------
Starts(t) ==
  AddFolder(t) \/ AddOne(t) \/ ImportFile(t) \/ CompactIdle(t) \/ RemoveEntry(t)

Proceeds(t) ==
  \/ Begin(t) \/ Publish(t) \/ Walk(t)
  \/ AlreadyIn(t) \/ Duplicate(t) \/ IntoBatch(t) \/ Alone(t) \/ PutBlocks(t)
  \/ FileIn(t) \/ Finish(t) \/ Close(t) \/ Verify(t) \/ Register(t)
  \/ Abort(t) \/ Discard(t)
  \/ Replace(t) \/ NothingToReplace(t) \/ Release(t) \/ GC(t)
  \/ Check(t) \/ Round(t)

Next ==
  \/ \E t \in Thread : Starts(t) \/ Proceeds(t)
  \/ OtherLocks \/ OtherUnlocks

Spec == Init /\ [][Next]_vars

\* sync.Mutex hands itself to whoever waits longest, and the kernel a lock of
\* a file to one of those that wait; nobody keeps the depot for ever.
Fairness ==
  /\ \A t \in Thread : SF_vars(Proceeds(t))
  /\ WF_vars(OtherUnlocks)

FairSpec == Spec /\ Fairness

----------------------------------------------------------------------------
\* Every variable has a value of its type.
TypeOK ==
  /\ mu \in Thread \cup {Nobody}
  /\ lock \in Thread \cup {Nobody, Other}
  /\ active \in Thread \cup {Nobody}
  /\ pend \in Seq(Item)
  /\ queued \subseteq Content /\ seen \subseteq Content /\ stored \subseteq Content
  /\ entries \in Seq(File)
  /\ pc \in [Thread -> Step] /\ job \in [Thread -> Job]
  /\ owed \subseteq File

\* The content of every entry is in the depot, or in the batch that is open:
\* nothing that Add counted on as a duplicate, or as verified, goes or is
\* aborted before its entry is there (releaseBlocks, finishBatch).
Backed == Contents(entries) \subseteq stored \cup queued

\* Whatever an Add or ImportFile has reported as added has its entry, until a
\* later call removes or replaces it.
Reported == owed \subseteq {entries[i] : i \in DOMAIN entries}

\* "sem efeito se o lote já foi fechado" (ops.go:51): a batch is closed or
\* aborted by the Add that opened it, and the deferred abortBatch of an Add
\* whose batch is closed leaves that of the next Add alone.
OwnBatch ==
  [][\A t \in Thread :
       lock = t /\ lock' # t => pc[t] \in {"close", "discard"}]_vars

\* A published batch has the depot's lock, and nothing is left of a batch
\* when no folder is being added: no lock, no list, nothing that Has still
\* reports although no Commit wrote it.
NothingLeft ==
  /\ active # Nobody => lock = active
  /\ ~Busy("folder") => /\ lock \notin Thread /\ active = Nobody
                        /\ pend = <<>> /\ queued = {} /\ seen = {}

\* The Add that has the depot's lock and the call that holds s.mu do not wait
\* for each other: an Add that has yet to take s.mu before it gives the depot
\* back is never waited for with s.mu held (the comment on activeBatch,
\* vault.go:98-100).
NoWaitCycle ==
  \A t \in Thread :
    Wants(t) /\ lock \in Thread => pc[lock] \in {"close", "discard"}

\* Every call on the vault returns, whoever uses the depot meanwhile.
CallsReturn ==
  \A t \in Thread :
    pc[t] # "idle" /\ job[t].kind # "compact" ~> pc[t] = "idle"
=============================================================================
