-------------------------- MODULE BatchSafetyProof --------------------------
(***************************************************************************)
(* The safety of VaultBatch, for any number of threads, files and calls,   *)
(* where one folder is added at a time ("adds" is not among the races).    *)
(*                                                                         *)
(* Under every fault: NoWaitCycle and Reported. Control says who is where: *)
(* the one Add of a folder has the lock and the batch. Waiting adds who    *)
(* wants the lock with s.mu held, OutBacked that what a call is going to   *)
(* report is in the manifest or in its lists.                              *)
(*                                                                         *)
(* Where no Commit fails: NothingLeft and Backed.  Uncommitted says what   *)
(* the batch still holds.  For Backed the entries are not enough: Due has  *)
(* the files of the batch's lists, too, since a duplicate becomes an entry *)
(* long after somebody looked for its content.                             *)
(***************************************************************************)
EXTENDS BatchTypeProof

\* The fields of a job after each of the changes that the steps make to it.
LEMMA JobEdits ==
  ASSUME NEW jobs \in [Thread -> Job], NEW t \in Thread
  PROVE  /\ \A td, o : LET j == [jobs EXCEPT ![t].todo = td, ![t].out = o][t] IN
              /\ j.kind = jobs[t].kind /\ j.todo = td /\ j.out = o
              /\ j.items = jobs[t].items /\ j.kept = jobs[t].kept /\ j.gone = jobs[t].gone
         /\ \A b, its : LET j == [jobs EXCEPT ![t].batch = b, ![t].items = its][t] IN
              /\ j.kind = jobs[t].kind /\ j.todo = jobs[t].todo /\ j.out = jobs[t].out
              /\ j.items = its /\ j.kept = jobs[t].kept /\ j.gone = jobs[t].gone
         /\ \A b : LET j == [jobs EXCEPT ![t].batch = b][t] IN
              /\ j.kind = jobs[t].kind /\ j.todo = jobs[t].todo /\ j.out = jobs[t].out
              /\ j.items = jobs[t].items /\ j.kept = jobs[t].kept /\ j.gone = jobs[t].gone
         /\ \A its, o : LET j == [jobs EXCEPT ![t].items = its, ![t].out = o][t] IN
              /\ j.kind = jobs[t].kind /\ j.todo = jobs[t].todo /\ j.out = o
              /\ j.items = its /\ j.kept = jobs[t].kept /\ j.gone = jobs[t].gone
         /\ \A its, o : LET j == [jobs EXCEPT ![t].out = o, ![t].items = its][t] IN
              /\ j.kind = jobs[t].kind /\ j.todo = jobs[t].todo /\ j.out = o
              /\ j.items = its /\ j.kept = jobs[t].kept /\ j.gone = jobs[t].gone
         /\ \A its, k : LET j == [jobs EXCEPT ![t].items = its, ![t].kept = k][t] IN
              /\ j.kind = jobs[t].kind /\ j.todo = jobs[t].todo /\ j.out = jobs[t].out
              /\ j.items = its /\ j.kept = k /\ j.gone = jobs[t].gone
         /\ \A k : LET j == [jobs EXCEPT ![t].kept = k][t] IN
              /\ j.kind = jobs[t].kind /\ j.todo = jobs[t].todo /\ j.out = jobs[t].out
              /\ j.items = jobs[t].items /\ j.kept = k /\ j.gone = jobs[t].gone
         /\ \A c : LET j == [jobs EXCEPT ![t].gone = c][t] IN
              /\ j.kind = jobs[t].kind /\ j.todo = jobs[t].todo /\ j.out = jobs[t].out
              /\ j.items = jobs[t].items /\ j.kept = jobs[t].kept /\ j.gone = c
  BY DEF Job

\* A file that leaves what a job reports changes nothing else of the job.
LEMMA OutOnly ==
  ASSUME NEW j \in Job, NEW f
  PROVE  /\ Alike(j, [j EXCEPT !.out = @ \ {f}])
         /\ [j EXCEPT !.out = @ \ {f}].out = j.out \ {f}
  BY DEF Alike, Job

\* A removal leaves the call that makes it as it is, but for the content that
\* it is going to remove.
LEMMA RemovalSays ==
  ASSUME TypeOK, NEW t \in Thread, NEW i, NEW s, RemoveLocked(t, i, s)
  PROVE  /\ job'[t].kind = job[t].kind /\ job'[t].todo = job[t].todo
         /\ job'[t].items = job[t].items /\ job'[t].kept = job[t].kept
         /\ pc'[t] \in {s, "release"}
         /\ \A u \in Thread : job'[u].out = job[u].out \ {entries[i]}
         /\ \/ pc'[t] = s /\ job'[t].gone = job[t].gone
            \/ pc'[t] = "release" /\ job'[t].gone = ContentOf[entries[i]]
  <1> DEFINE f == entries[i]
             g == NotReported(f)
  <1>1. /\ g \in [Thread -> Job]
        /\ \A u \in Thread : g[u] = [job[u] EXCEPT !.out = @ \ {f}]
    BY NotReportedSays
  <1>2. \/ job' = g /\ pc'[t] = s
        \/ job' = [g EXCEPT ![t].gone = ContentOf[f]] /\ pc'[t] = "release"
    BY DEF TypeOK, RemoveLocked, Goto
  <1>3. \A u \in Thread : job[u] \in Job
    BY DEF TypeOK
  <1> HIDE DEF f, g
  <1>4. \A u \in Thread : Alike(job[u], g[u]) /\ g[u].out = job[u].out \ {f}
    <2> TAKE u \in Thread
    <2>1. g[u] = [job[u] EXCEPT !.out = @ \ {f}] /\ job[u] \in Job
      BY <1>1, <1>3
    <2>2. /\ Alike(job[u], [job[u] EXCEPT !.out = @ \ {f}])
          /\ [job[u] EXCEPT !.out = @ \ {f}].out = job[u].out \ {f}
      BY <2>1, OutOnly
    <2> QED
      BY <2>1, <2>2, Zenon
  <1>5. CASE job' = g /\ pc'[t] = s
    BY <1>4, <1>5 DEF Alike, f
  <1>6. CASE job' = [g EXCEPT ![t].gone = ContentOf[f]] /\ pc'[t] = "release"
    <2>1. \A u \in Thread \ {t} : job'[u] = g[u]
      BY <1>1, <1>6
    <2>2. /\ job'[t].kind = g[t].kind /\ job'[t].todo = g[t].todo
          /\ job'[t].out = g[t].out /\ job'[t].items = g[t].items
          /\ job'[t].kept = g[t].kept /\ job'[t].gone = ContentOf[f]
      BY <1>1, <1>6, JobEdits
    <2> QED
      BY <1>4, <1>6, <2>1, <2>2 DEF Alike, f
  <1> QED
    BY <1>2, <1>5, <1>6

\* The job of a thread after its call has returned, and after it has begun.
LEMMA ReturnSays ==
  ASSUME TypeOK, NEW t \in Thread, Return(t)
  PROVE  /\ pc'[t] = "idle" /\ job'[t].kind = "remove" /\ job'[t].out = {}
         /\ job'[t].items = <<>> /\ job'[t].kept = <<>>
         /\ owed' = owed \cup job[t].out
  BY DEF TypeOK, Return, Goto, NoJob

\* A call that begins has nothing to report and nothing to register.
LEMMA CallSays ==
  ASSUME TypeOK, NEW t \in Thread, NEW k, NEW s, NEW files, Call(t, k, s, files)
  PROVE  /\ pc[t] = "idle" /\ pc'[t] = s /\ job'[t].kind = k /\ job'[t].out = {}
         /\ job'[t].items = <<>> /\ job'[t].kept = <<>>
  <1>1. job'[t] = [NoJob EXCEPT !.kind = k, !.todo = files]
    BY DEF TypeOK, Call
  <1>2. pc[t] = "idle" /\ pc'[t] = s
    BY DEF TypeOK, Call, Goto
  <1> QED
    BY <1>1, <1>2 DEF NoJob

\* Advance changes what is left to do and what is reported, nothing else.
LEMMA AdvanceSays ==
  ASSUME TypeOK, NEW t \in Thread, NEW done \in BOOLEAN, Advance(t, done)
  PROVE  /\ job'[t].kind = job[t].kind /\ job'[t].items = job[t].items
         /\ job'[t].kept = job[t].kept /\ job'[t].gone = job[t].gone
         /\ job'[t].out = IF done THEN job[t].out \cup {The(t)} ELSE job[t].out
  <1>1. job' = [job EXCEPT ![t].todo = Tail(job[t].todo),
                  ![t].out = IF done THEN job[t].out \cup {The(t)} ELSE job[t].out]
    BY DEF TypeOK, Advance, The
  <1> QED
    BY <1>1, JobEdits DEF TypeOK

\* The kind of the call that a thread is in changes when it starts or returns.
LEMMA KindStays ==
  ASSUME TypeOK, NEW t \in Thread, Proceeds(t) \/ RemoveEntry(t)
  PROVE  Return(t) \/ job'[t].kind = job[t].kind
  <1>1. CASE RemoveEntry(t) \/ Replace(t)
    BY <1>1, RemovalSays DEF RemoveEntry, Replace
  <1>2. CASE AlreadyIn(t) \/ Duplicate(t) \/ IntoBatch(t) \/ PutBlocks(t)
    <2>1. PICK done \in BOOLEAN : Advance(t, done)
      BY <1>2 DEF AlreadyIn, Duplicate, IntoBatch, PutBlocks
    <2> QED
      BY <2>1, AdvanceSays
  <1>3. CASE UNCHANGED job
    BY <1>3
  <1>4. CASE Finish(t) \/ Close(t) \/ Verify(t) \/ Register(t) \/ GC(t) \/ Abort(t)
    <2>1. CASE Finish(t)
      BY <2>1, JobEdits DEF TypeOK, Finish
    <2>2. CASE Close(t)
      <3>1. job' = job \/ job' = [job EXCEPT ![t].out = {}, ![t].items = <<>>]
        BY <2>2 DEF Close
      <3>2. CASE job' = [job EXCEPT ![t].out = {}, ![t].items = <<>>]
        BY <3>2, JobEdits DEF TypeOK
      <3> QED
        BY <3>1, <3>2
    <2>3. CASE Verify(t)
      <3> DEFINE its == Tail(job[t].items)
                 k == Append(job[t].kept, Head(job[t].items).file)
                 o == job[t].out \ {Head(job[t].items).file}
      <3>1. \/ job' = [job EXCEPT ![t].items = its, ![t].kept = k]
            \/ job' = [job EXCEPT ![t].items = its, ![t].out = o]
        BY <2>3, VerifySays
      <3> HIDE DEF its, k, o
      <3>2. CASE job' = [job EXCEPT ![t].items = its, ![t].kept = k]
        BY <3>2, JobEdits DEF TypeOK
      <3>3. CASE job' = [job EXCEPT ![t].items = its, ![t].out = o]
        BY <3>3, JobEdits DEF TypeOK
      <3> QED
        BY <3>1, <3>2, <3>3
    <2>4. CASE Register(t)
      BY <2>4, JobEdits DEF TypeOK, Register
    <2>5. CASE GC(t)
      BY <2>5, JobEdits DEF TypeOK, GC
    <2>6. CASE Abort(t)
      <3>1. Return(t) \/ job' = [job EXCEPT ![t].batch = Taken]
        BY <2>6 DEF Abort
      <3>2. CASE job' = [job EXCEPT ![t].batch = Taken]
        BY <3>2, JobEdits DEF TypeOK
      <3> QED
        BY <3>1, <3>2
    <2> QED
      BY <1>4, <2>1, <2>2, <2>3, <2>4, <2>5, <2>6
  <1>5. CASE \/ Begin(t) \/ Publish(t) \/ Walk(t) \/ Alone(t) \/ FileIn(t) \/ Discard(t)
             \/ NothingToReplace(t) \/ Release(t) \/ Check(t) \/ Round(t)
    BY <1>3, <1>5
    DEF Begin, Publish, Walk, Alone, FileIn, Discard, NothingToReplace, Release,
        Check, Round
  <1> QED
    BY <1>1, <1>2, <1>4, <1>5 DEF Proceeds

\* Only the Add of a folder is at its steps, and only AddFolder makes one.
LEMMA OwnKind ==
  ASSUME TypeOK, OneFolder, LockHeld, NEW t \in Thread, Starts(t) \/ Proceeds(t),
         ~AddFolder(t)
  PROVE  /\ pc'[t] \in FolderStep => job'[t].kind = "folder"
         /\ job'[t].kind = "folder" => /\ job[t].kind = "folder"
                                       /\ pc'[t] \in FolderStep \cup {"file"}
  <1> USE DEF FolderStep, OneFolder, Batched
  <1>1. CASE AddOne(t) \/ ImportFile(t) \/ CompactIdle(t)
    <2>1. PICK k \in {"file", "import", "compact"}, s \in {"file", "replace", "check"} :
               \E files : Call(t, k, s, files)
      BY <1>1 DEF AddOne, ImportFile, CompactIdle
    <2> QED
      BY <2>1, CallSays
  <1>2. CASE Return(t)
    BY <1>2, ReturnSays
  <1>3. CASE job'[t].kind = job[t].kind /\ (RemoveEntry(t) \/ Replace(t))
    <2>1. pc[t] \in {"idle", "replace"} /\ pc'[t] \in {"idle", "file", "release"}
      BY <1>3, RemovalSays DEF RemoveEntry, Replace
    <2> QED
      BY <1>3, <2>1
  <1>4. CASE job'[t].kind = job[t].kind /\ Proceeds(t) /\ ~Replace(t) /\ ~Return(t)
    <2>1. CASE Begin(t) \/ Publish(t) \/ Walk(t)
      BY <1>4, <2>1 DEF TypeOK, Begin, Publish, Walk, Goto
    <2>2. CASE AlreadyIn(t) \/ Duplicate(t) \/ IntoBatch(t) \/ PutBlocks(t)
      BY <1>4, <2>2
      DEF TypeOK, AlreadyIn, Duplicate, IntoBatch, PutBlocks, Goto, AtFile
    <2>3. CASE Alone(t)
      <3>1. ~Batched(t)
        BY <2>3, BatchAssumption DEF LockHeld, Alone, AtFile
      <3> QED
        BY <1>4, <2>3, <3>1 DEF TypeOK, Alone, Goto
    <2>4. CASE Finish(t) \/ Close(t) \/ Verify(t) \/ Register(t)
      BY <1>4, <2>4 DEF TypeOK, Finish, Close, Verify, Register, Goto
    <2>5. CASE Abort(t) \/ Check(t) \/ Round(t)
      BY <1>4, <2>5 DEF TypeOK, Abort, Check, Round, Goto
    <2>6. CASE NothingToReplace(t) \/ Release(t) \/ GC(t)
      BY <1>4, <2>6 DEF TypeOK, NothingToReplace, Release, GC, Goto
    <2>7. CASE FileIn(t) \/ Discard(t)
      BY <1>4, <2>7 DEF FileIn, Discard
    <2> QED
      BY <1>4, <2>1, <2>2, <2>3, <2>4, <2>5, <2>6, <2>7 DEF Proceeds
  <1> QED
    BY <1>1, <1>2, <1>3, <1>4, KindStays DEF Starts

----------------------------------------------------------------------------
(* Who adds a folder, and who has the depot.                               *)

\* A step of a thread keeps OneFolder, where one folder is added at a time.
LEMMA OneFolderThread ==
  ASSUME TypeOK, OneFolder, LockHeld, "adds" \notin Races,
         NEW t \in Thread, Starts(t) \/ Proceeds(t)
  PROVE  OneFolder'
  <1>1. \A u \in Thread \ {t} : pc'[u] = pc[u] /\ job'[u].kind = job[u].kind
    BY OthersStay DEF Alike
  <1>2. CASE AddFolder(t)
    <2>1. \A u \in Thread : ~Batched(u)
      BY <1>2 DEF AddFolder, Busy, OneFolder, Batched, FolderStep
    <2>2. pc'[t] = "begin" /\ job'[t].kind = "folder"
      BY <1>2, CallSays DEF AddFolder
    <2> QED
      BY <1>1, <2>1, <2>2 DEF OneFolder, Batched, FolderStep
  <1>3. CASE ~AddFolder(t)
    BY <1>1, <1>3, OwnKind DEF OneFolder, Batched
  <1> QED
    BY <1>2, <1>3

\* A thread that neither has the depot nor comes to have it.
Apart(t) ==
  /\ pc[t] \notin {"publish", "walk", "close", "discard"}
  /\ ~(pc[t] = "file" /\ Batched(t)) /\ active # t

\* Steps of threads that keep away from the depot's lock and from the batch.
LEMMA LockApart ==
  ASSUME TypeOK, LockHeld, NEW t \in Thread,
         \A u \in Thread \ {t} : pc'[u] = pc[u] /\ job'[u].kind = job[u].kind,
         lock' = lock, active' = active,
         Apart(t), pc'[t] \notin {"publish", "walk", "close", "discard"},
         ~(pc'[t] = "file" /\ job'[t].kind = "folder")
  PROVE  LockHeld'
  BY BatchAssumption DEF LockHeld, Apart, Batched, TypeOK

\* Steps of the Add of a folder that keeps what it has.
LEMMA LockAhead ==
  ASSUME TypeOK, LockHeld, NEW t \in Thread,
         \A u \in Thread \ {t} : pc'[u] = pc[u] /\ job'[u].kind = job[u].kind,
         lock' = lock, active' = active, active = t,
         pc'[t] \in {"walk", "file", "abort"}, job'[t].kind = "folder"
  PROVE  LockHeld'
  BY BatchAssumption DEF LockHeld, Batched, TypeOK

\* Steps at a file leave locks and batch alone.
LEMMA LockAtFile ==
  ASSUME TypeOK, LockHeld, OneFolder, NEW t \in Thread,
         \A u \in Thread \ {t} : pc'[u] = pc[u] /\ job'[u].kind = job[u].kind,
         AlreadyIn(t) \/ Duplicate(t) \/ IntoBatch(t)
  PROVE  LockHeld'
  <1>1. PICK done \in BOOLEAN : Advance(t, done)
    BY DEF AlreadyIn, Duplicate, IntoBatch
  <1>2. /\ pc[t] = "file" /\ pc' = pc /\ lock' = lock /\ active' = active
        /\ job'[t].kind = job[t].kind
    BY <1>1, AdvanceSays
    DEF AlreadyIn, Duplicate, IntoBatch, AtFile, depot, vault
  <1> QED
    BY <1>2 DEF LockHeld, Batched, TypeOK

\* Begin, Publish, Finish, Close, Abort and Discard hand over the depot, or
\* the batch.
LEMMA LockHandedOver ==
  ASSUME TypeOK, LockHeld, OneFolder, NEW t \in Thread,
         \A u \in Thread \ {t} : pc'[u] = pc[u] /\ job'[u].kind = job[u].kind,
         Proceeds(t),
         \/ Begin(t) \/ Publish(t) \/ Finish(t) \/ Close(t) \/ Abort(t) \/ Discard(t)
  PROVE  LockHeld'
  <1> USE BatchAssumption DEF TypeOK
  <1>0. Batched(t)
    BY DEF OneFolder, FolderStep, Begin, Publish, Finish, Close, Abort, Discard
  <1>7. \A u \in Thread \ {t} : ~Batched(u)
    BY <1>0 DEF OneFolder
  <1>8. Return(t) \/ job'[t].kind = "folder"
    BY <1>0, KindStays DEF Batched
  <1>9. Return(t) => pc'[t] = "idle" /\ job'[t].kind = "remove"
    BY ReturnSays
  <1>1. CASE Begin(t)
    <2>0. pc[t] = "begin" /\ lock = Nobody /\ active' = active /\ active = Nobody
      BY <1>1 DEF Begin, vault, LockHeld
    <2>1. CASE lock' = t /\ pc'[t] = "publish"
      BY <1>7, <1>8, <1>9, <2>0, <2>1 DEF LockHeld, Batched
    <2>2. CASE lock' = lock /\ Return(t)
      BY <1>7, <1>9, <2>0, <2>2 DEF LockHeld, Batched
    <2> QED
      BY <1>1, <2>1, <2>2 DEF Begin, Goto
  <1>2. CASE Publish(t)
    <2>1. /\ pc[t] = "publish" /\ lock = t /\ lock' = lock /\ active' = t
          /\ pc'[t] = "walk" /\ job' = job
      BY <1>2 DEF Publish, depot, Goto, LockHeld
    <2> QED
      BY <1>0, <1>7, <2>1 DEF LockHeld, Batched
  <1>3. CASE Finish(t)
    <2>1. /\ pc[t] = "file" /\ active = t /\ lock = t /\ lock' = lock
          /\ active' = Nobody /\ pc'[t] = "close"
      BY <1>0, <1>3 DEF Finish, depot, Goto, LockHeld
    <2> QED
      BY <1>7, <1>8, <1>9, <2>1 DEF LockHeld, Batched
  <1>4. CASE Close(t)
    <2>1. /\ pc[t] = "close" /\ lock = t /\ lock' = Nobody /\ active' = active
          /\ pc'[t] \in {"verify", "abort"}
      BY <1>4 DEF Close, vault, Goto, LockHeld
    <2>2. active = Nobody
      BY <2>1 DEF LockHeld
    <2> QED
      BY <1>7, <2>1, <2>2 DEF LockHeld, Batched
  <1>5. CASE Abort(t)
    <2>1. pc[t] = "abort" /\ lock' = lock /\ active' = Nobody
      BY <1>5 DEF Abort, depot
    <2>2. CASE active = Nobody
      <3>1. Return(t)
        BY <1>5, <2>2 DEF Abort, Taken
      <3> QED
        BY <1>7, <1>9, <2>1, <2>2, <3>1 DEF LockHeld, Batched
    <2>3. CASE active # Nobody
      <3>1. active = t /\ lock = t /\ pc'[t] = "discard"
        BY <1>5, <1>7, <2>3 DEF Abort, Taken, Goto, LockHeld
      <3> QED
        BY <1>7, <1>8, <1>9, <2>1, <3>1 DEF LockHeld, Batched
    <2> QED
      BY <2>2, <2>3
  <1>6. CASE Discard(t)
    <2>1. /\ pc[t] = "discard" /\ lock = t /\ lock' = Nobody /\ active' = active
          /\ Return(t)
      BY <1>6 DEF Discard, vault, LockHeld
    <2>2. active = Nobody
      BY <2>1 DEF LockHeld
    <2> QED
      BY <1>7, <1>9, <2>1, <2>2 DEF LockHeld, Batched
  <1> QED
    BY <1>1, <1>2, <1>3, <1>4, <1>5, <1>6

\* A step of a thread keeps LockHeld.
LEMMA LockThread ==
  ASSUME TypeOK, LockHeld, OneFolder, NEW t \in Thread, Starts(t) \/ Proceeds(t)
  PROVE  LockHeld'
  <1>0. \A u \in Thread \ {t} : pc'[u] = pc[u] /\ job'[u].kind = job[u].kind
    BY OthersStay DEF Alike
  <1>1. CASE \/ Begin(t) \/ Publish(t) \/ Finish(t) \/ Close(t) \/ Abort(t)
             \/ Discard(t)
    BY <1>0, <1>1, LockHandedOver DEF Proceeds
  <1>2. CASE AlreadyIn(t) \/ Duplicate(t) \/ IntoBatch(t)
    BY <1>0, <1>2, LockAtFile
  <1>3. CASE Walk(t)
    <2>1. /\ pc[t] = "walk" /\ lock' = lock /\ active' = active /\ job' = job
          /\ pc'[t] \in {"file", "abort"}
      BY <1>3 DEF Walk, depot, vault, Goto, TypeOK
    <2>2. active = t /\ Batched(t)
      BY <2>1 DEF LockHeld, OneFolder, FolderStep
    <2> QED
      BY <1>0, <2>1, <2>2, LockAhead DEF Batched
  <1>4. CASE \/ Starts(t) \/ Alone(t) \/ PutBlocks(t) \/ FileIn(t) \/ Verify(t)
             \/ Register(t) \/ Replace(t) \/ NothingToReplace(t) \/ Release(t)
             \/ GC(t) \/ Check(t) \/ Round(t)
    <2>1. lock' = lock /\ active' = active
      BY <1>4
      DEF Starts, AddFolder, AddOne, ImportFile, CompactIdle, Call, RemoveEntry,
          RemoveLocked, Alone, PutBlocks, FileIn, Verify, Register, Replace,
          NothingToReplace, Release, GC, Check, Round, depot, vault
    <2>2. /\ pc[t] \notin {"publish", "walk", "close", "discard"}
          /\ pc[t] = "file" => ~Batched(t)
      BY <1>4, BatchAssumption
      DEF Starts, AddFolder, AddOne, ImportFile, CompactIdle, Call, RemoveEntry,
          Alone, AtFile, PutBlocks, FileIn, Verify, Register, Replace,
          NothingToReplace, Release, GC, Check, Round, LockHeld
    <2>3. pc[t] # "abort"
      BY <1>4
      DEF Starts, AddFolder, AddOne, ImportFile, CompactIdle, Call, RemoveEntry,
          Alone, AtFile, PutBlocks, FileIn, Verify, Register, Replace,
          NothingToReplace, Release, GC, Check, Round
    <2>4. Apart(t)
      BY <2>2, <2>3, BatchAssumption DEF Apart, LockHeld
    <2>5. /\ pc'[t] \notin {"publish", "walk", "close", "discard"}
          /\ ~(pc'[t] = "file" /\ job'[t].kind = "folder")
      <3>1. CASE AddFolder(t)
        BY <3>1, CallSays DEF AddFolder
      <3>2. CASE AddOne(t) \/ ImportFile(t) \/ CompactIdle(t)
        <4>1. PICK k \in {"file", "import", "compact"},
                   s \in {"file", "replace", "check"} : \E files : Call(t, k, s, files)
          BY <3>2 DEF AddOne, ImportFile, CompactIdle
        <4> QED
          BY <4>1, CallSays
      <3>3. CASE ~(AddFolder(t) \/ AddOne(t) \/ ImportFile(t) \/ CompactIdle(t))
        <4>1. pc'[t] \notin {"publish", "walk", "close", "discard"}
          <5>1. CASE RemoveEntry(t) \/ Replace(t)
            BY <5>1, RemovalSays DEF RemoveEntry, Replace
          <5>2. CASE ~(RemoveEntry(t) \/ Replace(t))
            BY <1>4, <3>3, <5>2, ReturnSays
            DEF Starts, Alone, PutBlocks, FileIn, Verify, Register,
                NothingToReplace, Release, GC, Check, Round, Goto, TypeOK
          <5> QED
            BY <5>1, <5>2
        <4>2. CASE Batched(t)
          <5>1. Verify(t) \/ Register(t)
            BY <1>4, <2>2, <3>3, <4>2
            DEF OneFolder, FolderStep, Starts, RemoveEntry, Alone, AtFile, PutBlocks,
                FileIn, Replace, NothingToReplace, Release, GC, Check, Round
          <5>2. pc'[t] # "file"
            BY <5>1 DEF Verify, Register, Goto, TypeOK
          <5> QED
            BY <4>1, <5>2
        <4>3. CASE ~Batched(t)
          <5>1. job'[t].kind # "folder"
            BY <3>3, <4>3, OwnKind DEF Batched
          <5> QED
            BY <4>1, <5>1
        <4> QED
          BY <4>2, <4>3
      <3> QED
        BY <3>1, <3>2, <3>3
    <2> QED
      BY <1>0, <2>1, <2>4, <2>5, LockApart
  <1> QED
    BY <1>1, <1>2, <1>3, <1>4 DEF Proceeds

\* Control: what the invariants below rest on.
Control == TypeOK /\ HasFile /\ OneFolder /\ LockHeld

\* At the start no folder is being added and nobody has the depot.
LEMMA ControlInit == Init => Control
  <1>1. NoJob \in Job /\ NoJob.kind = "remove"
    BY DEF NoJob, Job, Kind
  <1> QED
    BY <1>1, BatchAssumption
    DEF Init, Control, TypeOK, HasFile, OneFolder, LockHeld, Batched, FolderStep, Step

\* Other processes that lock and unlock the depot.
LEMMA ControlOther ==
  ASSUME Control, OtherLocks \/ OtherUnlocks
  PROVE  Control'
  BY BatchAssumption
  DEF Control, TypeOK, HasFile, OneFolder, LockHeld, Batched, OtherLocks, OtherUnlocks, vault

\* Every step keeps Control, where one folder is added at a time.
LEMMA ControlNext ==
  ASSUME Control, "adds" \notin Races, [Next]_vars
  PROVE  Control'
  <1>1. CASE UNCHANGED vars
    BY <1>1 DEF Control, TypeOK, HasFile, OneFolder, LockHeld, Batched, vars
  <1>2. CASE OtherLocks \/ OtherUnlocks
    BY <1>2, ControlOther
  <1>3. CASE \E t \in Thread : Starts(t) \/ Proceeds(t)
    BY <1>3, TypeThread, OneFolderThread, LockThread DEF Control
  <1> QED
    BY <1>1, <1>2, <1>3 DEF Next

----------------------------------------------------------------------------
(* Who waits for whom.                                                     *)

\* What a step may do while a thread has s.mu and wants the depot.
LEMMA MuIsHeld ==
  ASSUME TypeOK, Waiting, "begin" \notin Races, NEW u \in Thread, Wants(u),
         NEW t \in Thread \ {u}, Starts(t) \/ Proceeds(t)
  PROVE  mu' = mu /\ active' = active /\ pc'[t] # "publish"
  <1>1. mu = u /\ mu # Nobody /\ ~Wants(t)
    BY BatchAssumption DEF Waiting
  <1>2. ~(\/ Publish(t) \/ Finish(t) \/ Register(t) \/ Abort(t) \/ RemoveEntry(t)
          \/ Replace(t) \/ NothingToReplace(t) \/ Check(t) \/ AlreadyIn(t)
          \/ Duplicate(t) \/ IntoBatch(t) \/ Alone(t))
    BY <1>1
    DEF Publish, Finish, Register, Abort, RemoveEntry, Replace, NothingToReplace,
        Check, AlreadyIn, Duplicate, IntoBatch, Alone, AtFile
  <1>3. ~(PutBlocks(t) \/ Release(t) \/ GC(t))
    BY <1>1 DEF Wants, PutBlocks, Release, GC
  <1>4. CASE Begin(t)
    <2>1. ~Goto(t, "publish") /\ UNCHANGED vault
      BY <1>4 DEF Begin
    <2>2. Return(t)
      BY <1>4, <2>1 DEF Begin
    <2> QED
      BY <2>1, <2>2, ReturnSays DEF vault
  <1>5. CASE AddFolder(t) \/ AddOne(t) \/ ImportFile(t) \/ CompactIdle(t)
    <2>1. PICK k \in Kind, s \in {"begin", "file", "replace", "check"} :
            \E files : Call(t, k, s, files)
      BY <1>5 DEF AddFolder, AddOne, ImportFile, CompactIdle, Kind
    <2>2. pc'[t] = s
      BY <2>1, CallSays
    <2>3. mu' = mu /\ active' = active
      BY <2>1 DEF Call, vault
    <2> QED
      BY <2>2, <2>3
  <1>6. CASE Walk(t) \/ FileIn(t) \/ Close(t) \/ Verify(t) \/ Discard(t) \/ Round(t)
    BY <1>6, ReturnSays
    DEF TypeOK, Walk, FileIn, Close, Verify, Discard, Round, Goto, vault
  <1> QED
    BY <1>2, <1>3, <1>4, <1>5, <1>6 DEF Starts, Proceeds

\* A thread that comes to want the depot with s.mu held finds no batch, and
\* none about to be published.
LEMMA WantsSays ==
  ASSUME TypeOK, Waiting, "begin" \notin Races, NEW t \in Thread,
         Starts(t) \/ Proceeds(t), pc'[t] \in {"put", "release", "gc"}
  PROVE  mu' = t /\ active' = Nobody /\ ~Publishing /\ pc'[t] # "publish"
  <1>1. CASE Alone(t)
    BY <1>1 DEF Alone, MayWait
  <1>2. CASE RemoveEntry(t) \/ Replace(t)
    <2>1. PICK i \in DOMAIN entries, s \in {"idle", "file"} : MayRemove(i) /\ RemoveLocked(t, i, s)
      BY <1>2 DEF RemoveEntry, Replace, AtPath
    <2>2. pc'[t] = "release" /\ mu' = t /\ active = Nobody /\ active' = active
      BY <2>1 DEF RemoveLocked, InOpenBatch, Goto, TypeOK
    <2> QED
      BY <2>1, <2>2 DEF MayRemove, MayWait
  <1>3. CASE Release(t)
    <2>1. Wants(t) /\ mu' = mu /\ active' = active
      BY <1>3 DEF Wants, Release, vault
    <2> QED
      BY <2>1 DEF Waiting
  <1>4. CASE ~(Alone(t) \/ RemoveEntry(t) \/ Replace(t) \/ Release(t))
    <2>1. CASE AddFolder(t) \/ AddOne(t) \/ ImportFile(t) \/ CompactIdle(t)
      <3>1. PICK k \in Kind, s \in {"begin", "file", "replace", "check"} :
            \E files : Call(t, k, s, files)
        BY <2>1 DEF AddFolder, AddOne, ImportFile, CompactIdle, Kind
      <3> QED
        BY <3>1, CallSays
    <2>2. CASE AlreadyIn(t) \/ Duplicate(t) \/ IntoBatch(t)
      BY <2>2 DEF AlreadyIn, Duplicate, IntoBatch, AtFile
    <2>3. CASE Begin(t) \/ FileIn(t) \/ Abort(t) \/ Discard(t) \/ Check(t) \/ Round(t)
      BY <2>3, ReturnSays
      DEF TypeOK, Begin, FileIn, Abort, Discard, Check, Round, Goto
    <2>4. CASE \/ Publish(t) \/ Walk(t) \/ PutBlocks(t) \/ Finish(t) \/ Close(t)
               \/ Verify(t) \/ Register(t) \/ NothingToReplace(t) \/ GC(t)
      BY <2>4
      DEF TypeOK, Publish, Walk, PutBlocks, Finish, Close, Verify, Register,
          NothingToReplace, GC, Goto
    <2> QED
      BY <1>4, <2>1, <2>2, <2>3, <2>4 DEF Starts, Proceeds
  <1> QED
    BY <1>1, <1>2, <1>3, <1>4

\* A step of a thread keeps Waiting.
LEMMA WaitingThread ==
  ASSUME TypeOK, Waiting, "begin" \notin Races, NEW t \in Thread,
         Starts(t) \/ Proceeds(t)
  PROVE  Waiting'
  <1>1. \A u \in Thread \ {t} : pc'[u] = pc[u]
    BY OthersStay
  <1>2. ASSUME NEW u \in Thread, Wants(u)'
        PROVE  (mu = u /\ active = Nobody /\ ~Publishing)'
    <2>1. CASE u = t
      BY <1>1, <1>2, <2>1, WantsSays DEF Wants, Publishing
    <2>2. CASE u # t
      <3>1. Wants(u)
        BY <1>1, <1>2, <2>2 DEF Wants
      <3>2. mu' = mu /\ active' = active /\ pc'[t] # "publish"
        BY <2>2, <3>1, MuIsHeld
      <3> QED
        BY <1>1, <3>1, <3>2 DEF Waiting, Publishing
    <2> QED
      BY <2>1, <2>2
  <1> QED
    BY <1>2 DEF Waiting

\* Every step keeps Waiting.
LEMMA WaitingNext ==
  ASSUME TypeOK, Waiting, "begin" \notin Races, [Next]_vars
  PROVE  Waiting'
  <1>1. CASE UNCHANGED vars
    BY <1>1 DEF Waiting, Wants, Publishing, vars
  <1>2. CASE OtherLocks \/ OtherUnlocks
    BY <1>2 DEF Waiting, Wants, Publishing, OtherLocks, OtherUnlocks, vault
  <1>3. CASE \E t \in Thread : Starts(t) \/ Proceeds(t)
    BY <1>3, WaitingThread
  <1> QED
    BY <1>1, <1>2, <1>3 DEF Next

\* An Add that has the depot's lock and the call that holds s.mu do not wait
\* for each other, where no call goes for the depot between the lock of a batch
\* and its publication (the comment on activeBatch, vault.go:98-100).
THEOREM NobodyWaitsForEver ==
  ASSUME "adds" \notin Races, "begin" \notin Races
  PROVE  Spec => []NoWaitCycle
  <1>1. Init => Waiting
    BY DEF Init, Waiting, Wants
  <1>2. Control /\ Waiting /\ [Next]_vars => (Control /\ Waiting)'
    BY ControlNext, WaitingNext DEF Control
  <1>3. Control /\ Waiting => NoWaitCycle
    <2> SUFFICES ASSUME Control, Waiting, NEW t \in Thread, Wants(t), lock \in Thread
                 PROVE  pc[lock] \in {"close", "discard"}
      BY DEF NoWaitCycle
    <2>1. active = Nobody /\ pc[lock] # "publish"
      BY DEF Waiting, Publishing
    <2> QED
      BY <2>1, BatchAssumption DEF Control, LockHeld
  <1> QED
    BY <1>1, <1>2, <1>3, ControlInit, PTL DEF Spec

----------------------------------------------------------------------------
(* Files and contents of the lists.                                        *)

\* The files of an empty sequence, and of one with a member more.
LEMMA FilesSay ==
  /\ Files(<<>>) = {} /\ ItemFiles(<<>>) = {}
  /\ \A s \in Seq(File), f \in File : Files(Append(s, f)) = Files(s) \cup {f}
  /\ \A s \in Seq(Item), x \in Item :
       ItemFiles(Append(s, x)) = ItemFiles(s) \cup {x.file}
  <1>1. Files(<<>>) = {} /\ ItemFiles(<<>>) = {}
    BY DEF Files, ItemFiles
  <1>2. ASSUME NEW s \in Seq(File), NEW f \in File
        PROVE  Files(Append(s, f)) = Files(s) \cup {f}
    <2>1. /\ DOMAIN Append(s, f) = DOMAIN s \cup {Len(s) + 1}
          /\ \A i \in DOMAIN s : Append(s, f)[i] = s[i]
          /\ Append(s, f)[Len(s) + 1] = f
      OBVIOUS
    <2> QED
      BY <2>1 DEF Files
  <1>3. ASSUME NEW s \in Seq(Item), NEW x \in Item
        PROVE  ItemFiles(Append(s, x)) = ItemFiles(s) \cup {x.file}
    <2>1. /\ DOMAIN Append(s, x) = DOMAIN s \cup {Len(s) + 1}
          /\ \A i \in DOMAIN s : Append(s, x)[i] = s[i]
          /\ Append(s, x)[Len(s) + 1] = x
      OBVIOUS
    <2> QED
      BY <2>1 DEF ItemFiles
  <1> QED
    BY <1>1, <1>2, <1>3

\* The files of two sequences, one behind the other.
LEMMA FilesConcat ==
  ASSUME NEW s \in Seq(File), NEW k \in Seq(File)
  PROVE  Files(s \o k) = Files(s) \cup Files(k)
  <1>1. /\ s \o k \in Seq(File) /\ Len(s \o k) = Len(s) + Len(k)
        /\ \A j \in 1..Len(s) : (s \o k)[j] = s[j]
        /\ \A j \in 1..Len(k) : (s \o k)[Len(s) + j] = k[j]
    BY ConcatSays
  <1>2. \A j \in 1..Len(s) : j \in DOMAIN (s \o k)
    BY <1>1
  <1>3. \A j \in 1..Len(k) : Len(s) + j \in DOMAIN (s \o k)
    BY <1>1
  <1>4. ASSUME NEW i \in DOMAIN (s \o k)
        PROVE  (s \o k)[i] \in Files(s) \cup Files(k)
    <2>1. CASE i \in 1..Len(s)
      BY <1>1, <2>1 DEF Files
    <2>2. CASE i \notin 1..Len(s)
      <3>1. PICK j \in 1..Len(k) : i = Len(s) + j
        <4>1. i - Len(s) \in 1..Len(k) /\ i = Len(s) + (i - Len(s))
          BY <1>1, <2>2
        <4> QED
          BY <4>1
      <3>2. (s \o k)[Len(s) + j] = k[j] /\ j \in DOMAIN k
        BY <1>1
      <3> QED
        BY <3>1, <3>2 DEF Files
    <2> QED
      BY <2>1, <2>2
  <1>5. Files(s) \subseteq Files(s \o k)
    BY <1>1, <1>2 DEF Files
  <1>6. Files(k) \subseteq Files(s \o k)
    BY <1>1, <1>3 DEF Files
  <1> QED
    BY <1>4, <1>5, <1>6 DEF Files

\* RemoveAt takes away no file but the one at its place.
LEMMA FilesRemoved ==
  ASSUME NEW s \in Seq(File), NEW i \in DOMAIN s
  PROVE  /\ Files(RemoveAt(s, i)) \subseteq Files(s)
         /\ Files(s) \subseteq Files(RemoveAt(s, i)) \cup {s[i]}
  <1>1. Files(RemoveAt(s, i)) \subseteq Files(s)
    BY RemoveAtSays DEF Files
  <1>2. ASSUME NEW k \in DOMAIN s, k # i
        PROVE  s[k] \in Files(RemoveAt(s, i))
    BY <1>2, RemoveAtSays DEF Files
  <1> QED
    BY <1>1, <1>2 DEF Files

\* The files of a list of items: that of its head, and those of its tail.
LEMMA ItemFilesTail ==
  ASSUME NEW s \in Seq(Item), s # <<>>
  PROVE  /\ Head(s) \in Item /\ Tail(s) \in Seq(Item)
         /\ ItemFiles(s) = {Head(s).file} \cup ItemFiles(Tail(s))
  <1>1. /\ Head(s) \in Item /\ Tail(s) \in Seq(Item) /\ Head(s) = s[1]
        /\ Len(Tail(s)) = Len(s) - 1 /\ Len(s) \in Nat /\ Len(s) > 0
    OBVIOUS
  <1>2. \A i \in 1..Len(Tail(s)) : Tail(s)[i] = s[i + 1]
    OBVIOUS
  <1>3. ASSUME NEW i \in DOMAIN Tail(s)
        PROVE  Tail(s)[i].file \in ItemFiles(s)
    <2>1. i + 1 \in DOMAIN s /\ i \in 1..Len(Tail(s))
      BY <1>1
    <2> QED
      BY <1>2, <2>1 DEF ItemFiles
  <1>4. ASSUME NEW i \in DOMAIN s, i # 1
        PROVE  s[i].file \in ItemFiles(Tail(s))
    <2>1. PICK j \in 1..Len(Tail(s)) : i = j + 1
      <3>1. i - 1 \in 1..Len(Tail(s)) /\ i = (i - 1) + 1
        BY <1>1, <1>4
      <3> QED
        BY <3>1
    <2>2. Tail(s)[j] = s[i] /\ j \in DOMAIN Tail(s)
      BY <1>1, <1>2, <2>1
    <2> QED
      BY <2>2 DEF ItemFiles
  <1>5. 1 \in DOMAIN s
    BY <1>1
  <1> QED
    BY <1>1, <1>3, <1>4, <1>5 DEF ItemFiles

----------------------------------------------------------------------------
(* What is reported.                                                       *)

\* Steps that take no file from the manifest or from the open batch.
LEMMA ListsKept ==
  ASSUME TypeOK, NEW t \in Thread, Starts(t) \/ Proceeds(t),
         ~(Publish(t) \/ Finish(t) \/ Abort(t) \/ RemoveEntry(t) \/ Replace(t)),
         IntoBatch(t) \/ PutBlocks(t) => job[t].todo # <<>>
  PROVE  /\ Files(entries) \subseteq Files(entries')
         /\ ItemFiles(pend) \subseteq ItemFiles(pend')
         /\ active' = active
  <1>0. entries \in Seq(File) /\ pend \in Seq(Item)
    BY DEF TypeOK
  <1>1. CASE Duplicate(t) \/ IntoBatch(t) \/ PutBlocks(t)
    <2>1. The(t) \in File
      BY <1>1, TypeThe DEF Duplicate, AtFile
    <2>2. \A b \in BOOLEAN : [file |-> The(t), put |-> b] \in Item
      BY <2>1 DEF Item
    <2>3. \/ entries' = entries \/ entries' = Append(entries, The(t))
      BY <1>1 DEF Duplicate, IntoBatch, PutBlocks
    <2>4. \/ pend' = pend
          \/ \E b \in BOOLEAN : pend' = Append(pend, [file |-> The(t), put |-> b])
      BY <1>1 DEF Duplicate, IntoBatch, PutBlocks
    <2>5. active' = active
      BY <1>1 DEF Duplicate, IntoBatch, PutBlocks
    <2>6. Files(entries) \subseteq Files(entries')
      BY <1>0, <2>1, <2>3, FilesSay
    <2>7. ItemFiles(pend) \subseteq ItemFiles(pend')
      BY <1>0, <2>2, <2>4, FilesSay
    <2> QED
      BY <2>5, <2>6, <2>7
  <1>2. CASE Register(t)
    <2>1. job[t].kept \in Seq(File)
      BY DEF TypeOK, Job
    <2>2. Files(entries \o job[t].kept) = Files(entries) \cup Files(job[t].kept)
      BY <1>0, <2>1, FilesConcat
    <2> QED
      BY <1>2, <2>2 DEF Register
  <1>3. CASE ~(Duplicate(t) \/ IntoBatch(t) \/ PutBlocks(t) \/ Register(t))
    <2>1. entries' = entries /\ pend' = pend /\ active' = active
      BY <1>3
      DEF Starts, Proceeds, AddFolder, AddOne, ImportFile, CompactIdle, Call, Begin,
          Walk, AlreadyIn, Alone, FileIn, Close, Verify, Discard, NothingToReplace,
          Release, GC, Check, Round, vault
    <2> QED
      BY <2>1
  <1> QED
    BY <1>1, <1>2, <1>3

\* What Advance adds to what the call reports is in the vault, or to come.
LEMMA OutAdvance ==
  ASSUME Control, OutBacked, NEW t \in Thread,
         AlreadyIn(t) \/ Duplicate(t) \/ IntoBatch(t) \/ PutBlocks(t)
  PROVE  /\ job'[t].out \subseteq Files(entries') \cup ToCome(t)'
         /\ pc'[t] = "file" /\ job'[t].items = <<>> /\ job'[t].kept = <<>>
  <1> USE DEF Control
  <1>0. /\ entries \in Seq(File) /\ pend \in Seq(Item)
        /\ job[t].todo # <<>> /\ pc[t] \in {"file", "put"} /\ pc'[t] = "file"
    BY DEF TypeOK, HasFile, AlreadyIn, Duplicate, IntoBatch, PutBlocks, AtFile, Goto
  <1>1. The(t) \in File /\ \A b \in BOOLEAN : [file |-> The(t), put |-> b] \in Item
    BY <1>0, TypeThe DEF Item
  <1>2. PICK done \in BOOLEAN :
          /\ Advance(t, done)
          /\ done => \/ The(t) \in Files(entries)
                     \/ entries' = Append(entries, The(t))
                     \/ /\ Batched(t) /\ pc[t] = "file"
                        /\ \E b \in BOOLEAN :
                             pend' = Append(pend, [file |-> The(t), put |-> b])
    <2>1. CASE AlreadyIn(t)
      <3>1. The(t) \in Files(entries)
        BY <2>1 DEF AlreadyIn, Mine, Files
      <3> QED
        BY <2>1, <3>1 DEF AlreadyIn
    <2>2. CASE Duplicate(t)
      BY <1>0, <2>2 DEF Duplicate, AtFile
    <2>3. CASE IntoBatch(t)
      <3>1. PICK fate \in Fate(IF Batched(t) THEN {"put"} ELSE {"put", "commit"}) :
              /\ Advance(t, fate = "ok")
              /\ fate = "ok" =>
                   \/ /\ Batched(t)
                      /\ pend' = Append(pend, [file |-> The(t), put |-> TRUE])
                   \/ entries' = Append(entries, The(t))
        BY <2>3 DEF IntoBatch
      <3> QED
        BY <2>3, <3>1 DEF IntoBatch, AtFile
    <2>4. CASE PutBlocks(t)
      <3>1. PICK fate \in Fate({"begin", "put", "close"}) :
              Advance(t, fate = "ok") /\ (fate = "ok" => entries' = Append(entries, The(t)))
        BY <2>4 DEF PutBlocks
      <3> QED
        BY <3>1
    <2> QED
      BY <2>1, <2>2, <2>3, <2>4
  <1>3. /\ job'[t].items = job[t].items /\ job'[t].kept = job[t].kept
        /\ job'[t].out = IF done THEN job[t].out \cup {The(t)} ELSE job[t].out
    BY <1>2, AdvanceSays
  <1>4. job[t].items = <<>> /\ job[t].kept = <<>>
    BY <1>0 DEF OutBacked, OutOf
  <1>5. /\ Files(entries) \subseteq Files(entries')
        /\ ItemFiles(pend) \subseteq ItemFiles(pend') /\ active' = active
    <2>1. ~(Publish(t) \/ Finish(t) \/ Abort(t) \/ RemoveEntry(t) \/ Replace(t))
      BY <1>0 DEF Publish, Finish, Abort, RemoveEntry, Replace
    <2> QED
      BY <1>0, <2>1, ListsKept DEF Proceeds
  <1>6. job[t].out \subseteq Files(entries') \cup ToCome(t)'
    BY <1>3, <1>4, <1>5 DEF OutBacked, OutOf, ToCome
  <1>7. done => The(t) \in Files(entries') \cup ToCome(t)'
    <2>1. CASE done /\ The(t) \in Files(entries)
      BY <1>5, <2>1
    <2>2. CASE entries' = Append(entries, The(t))
      BY <1>0, <1>1, <2>2, FilesSay
    <2>3. CASE Batched(t) /\ pc[t] = "file"
                /\ \E b \in BOOLEAN : pend' = Append(pend, [file |-> The(t), put |-> b])
      <3>1. active' = t
        BY <1>5, <2>3 DEF LockHeld
      <3>2. PICK x \in Item : pend' = Append(pend, x) /\ x.file = The(t)
        BY <1>1, <2>3
      <3>3. The(t) \in ItemFiles(pend')
        BY <1>0, <3>2, FilesSay
      <3> QED
        BY <3>1, <3>3 DEF ToCome
    <2> QED
      BY <1>2, <2>1, <2>2, <2>3
  <1> QED
    BY <1>0, <1>3, <1>4, <1>6, <1>7

\* An Add of a folder that closes its batch.
LEMMA OutCloses ==
  ASSUME Control, OutBacked, NEW t \in Thread,
         Finish(t) \/ Close(t) \/ Verify(t) \/ Register(t)
  PROVE  OutOf(t)'
  <1> USE DEF Control
  <1>0. /\ entries \in Seq(File) /\ job[t].items \in Seq(Item) /\ job[t].kept \in Seq(File)
        /\ job[t].out \subseteq File
    BY DEF TypeOK, Job
  <1>1. CASE Finish(t)
    <2>1. /\ pc[t] = "file" /\ active = t /\ active' = Nobody /\ pc'[t] = "close"
          /\ entries' = entries /\ job' = [job EXCEPT ![t].batch = active, ![t].items = pend]
      BY <1>1, BatchAssumption DEF Finish, LockHeld, Goto, TypeOK
    <2>2. job'[t].items = pend /\ job'[t].out = job[t].out /\ job'[t].kept = job[t].kept
      BY <2>1, JobEdits DEF TypeOK
    <2>3. job[t].items = <<>> /\ job[t].kept = <<>>
      BY <2>1 DEF OutBacked, OutOf
    <2>4. job[t].out \subseteq Files(entries) \cup ItemFiles(pend)
      BY <2>1, <2>3, FilesSay DEF OutBacked, OutOf, ToCome
    <2> QED
      BY <2>1, <2>2, <2>3, <2>4 DEF OutOf, ToCome
  <1>2. CASE Close(t)
    <2>1. /\ pc[t] = "close" /\ active' = active /\ entries' = entries /\ pend' = pend
          /\ \/ job' = job /\ pc'[t] = "verify"
             \/ job' = [job EXCEPT ![t].out = {}, ![t].items = <<>>] /\ pc'[t] = "abort"
      BY <1>2 DEF Close, vault, Goto, TypeOK
    <2>2. job[t].kept = <<>>
      BY <2>1 DEF OutBacked, OutOf
    <2>3. CASE job' = job /\ pc'[t] = "verify"
      BY <2>1, <2>3 DEF OutBacked, OutOf, ToCome
    <2>4. CASE job' = [job EXCEPT ![t].out = {}, ![t].items = <<>>] /\ pc'[t] = "abort"
      <3>1. job'[t].out = {} /\ job'[t].items = <<>> /\ job'[t].kept = job[t].kept
        BY <2>4, JobEdits DEF TypeOK
      <3> QED
        BY <2>2, <2>4, <3>1 DEF OutOf
    <2> QED
      BY <2>1, <2>3, <2>4
  <1>3. CASE Verify(t)
    <2> DEFINE f == Head(job[t].items).file
               its == Tail(job[t].items)
    <2>1. /\ pc[t] = "verify" /\ pc' = pc /\ active' = active
          /\ entries' = entries /\ pend' = pend /\ job[t].items # <<>>
      BY <1>3 DEF Verify, vault
    <2>2. ItemFiles(job[t].items) = {f} \cup ItemFiles(its) /\ f \in File
      BY <1>0, <2>1, ItemFilesTail DEF Item
    <2>3. \/ job' = [job EXCEPT ![t].items = its, ![t].kept = Append(job[t].kept, f)]
          \/ job' = [job EXCEPT ![t].items = its, ![t].out = job[t].out \ {f}]
      BY <1>3, VerifySays
    <2>4. Files(Append(job[t].kept, f)) = Files(job[t].kept) \cup {f}
      BY <1>0, <2>2, FilesSay
    <2> HIDE DEF f, its
    <2>5. CASE job' = [job EXCEPT ![t].items = its, ![t].kept = Append(job[t].kept, f)]
      <3>1. /\ job'[t].items = its /\ job'[t].kept = Append(job[t].kept, f)
            /\ job'[t].out = job[t].out
        BY <2>5, JobEdits DEF TypeOK
      <3> QED
        BY <2>1, <2>2, <2>4, <3>1 DEF OutBacked, OutOf, ToCome
    <2>6. CASE job' = [job EXCEPT ![t].items = its, ![t].out = job[t].out \ {f}]
      <3>1. /\ job'[t].items = its /\ job'[t].kept = job[t].kept
            /\ job'[t].out = job[t].out \ {f}
        BY <2>6, JobEdits DEF TypeOK
      <3> QED
        BY <2>1, <2>2, <3>1 DEF OutBacked, OutOf, ToCome
    <2> QED
      BY <2>3, <2>5, <2>6
  <1>4. CASE Register(t)
    <2>1. /\ pc[t] = "verify" /\ pc'[t] = "abort" /\ active' = active
          /\ entries' = entries \o job[t].kept /\ job[t].items = <<>>
          /\ job' = [job EXCEPT ![t].kept = <<>>]
      BY <1>4 DEF Register, Goto, TypeOK
    <2>2. job'[t].items = <<>> /\ job'[t].kept = <<>> /\ job'[t].out = job[t].out
      BY <2>1, JobEdits DEF TypeOK
    <2>3. active # t
      BY <2>1, BatchAssumption DEF LockHeld
    <2>4. Files(entries') = Files(entries) \cup Files(job[t].kept)
      BY <1>0, <2>1, FilesConcat
    <2>5. job[t].out \subseteq Files(entries')
      BY <2>1, <2>3, <2>4, FilesSay DEF OutBacked, OutOf, ToCome
    <2> QED
      BY <2>1, <2>2, <2>3, <2>5 DEF OutOf
  <1> QED
    BY <1>1, <1>2, <1>3, <1>4

\* A step of a thread keeps what its own call reports.
LEMMA OutOwn ==
  ASSUME Control, OutBacked, NEW t \in Thread, Starts(t) \/ Proceeds(t)
  PROVE  OutOf(t)'
  <1> USE DEF Control
  <1>1. CASE Return(t)
    BY <1>1, ReturnSays DEF OutOf
  <1>2. CASE AddFolder(t) \/ AddOne(t) \/ ImportFile(t) \/ CompactIdle(t)
    <2>1. PICK k \in Kind, s \in {"begin", "file", "replace", "check"} :
            \E files : Call(t, k, s, files)
      BY <1>2 DEF AddFolder, AddOne, ImportFile, CompactIdle, Kind
    <2> QED
      BY <2>1, CallSays DEF OutOf
  <1>3. CASE AlreadyIn(t) \/ Duplicate(t) \/ IntoBatch(t) \/ PutBlocks(t)
    BY <1>3, OutAdvance DEF OutOf
  <1>4. CASE Finish(t) \/ Close(t) \/ Verify(t) \/ Register(t)
    BY <1>4, OutCloses
  <1>5. CASE RemoveEntry(t) \/ Replace(t)
    <2>1. PICK i \in DOMAIN entries, s \in {"idle", "file"} : RemoveLocked(t, i, s)
      BY <1>5 DEF RemoveEntry, Replace, AtPath
    <2>2. pc[t] \in {"idle", "replace"}
      BY <1>5 DEF RemoveEntry, Replace
    <2>3. job[t].out = {} /\ job[t].items = <<>> /\ job[t].kept = <<>>
      BY <2>2 DEF OutBacked, OutOf
    <2>4. /\ job'[t].out = {} /\ job'[t].items = <<>> /\ job'[t].kept = <<>>
      BY <2>1, <2>3, RemovalSays
    <2> QED
      BY <2>4 DEF OutOf
  <1>6. CASE Begin(t) \/ Publish(t) \/ Walk(t)
    <2>1. pc[t] \in {"begin", "publish", "walk"}
      BY <1>6 DEF Begin, Publish, Walk
    <2>2. job[t].out = {} /\ job[t].items = <<>> /\ job[t].kept = <<>>
      BY <2>1 DEF OutBacked, OutOf
    <2>3. CASE job' = job
      BY <2>2, <2>3 DEF OutOf
    <2> QED
      BY <1>1, <1>6, <2>3 DEF Begin, Publish, Walk
  <1>7. CASE Abort(t)
    <2>1. CASE active # Nobody
      <3>0. pc[t] = "abort" /\ Batched(t)
        BY <1>7 DEF Abort, OneFolder, FolderStep
      <3>1. pc[t] = "abort" /\ active = t
        BY <2>1, <3>0 DEF LockHeld, OneFolder, TypeOK
      <3>2. job[t].out = {} /\ job[t].items = <<>> /\ job[t].kept = <<>>
        BY <3>1 DEF OutBacked, OutOf
      <3>3. job' = [job EXCEPT ![t].batch = active]
        BY <1>7, <2>1 DEF Abort, Taken
      <3>4. job'[t].out = {} /\ job'[t].items = <<>> /\ job'[t].kept = <<>>
        BY <3>2, <3>3, JobEdits DEF TypeOK
      <3> QED
        BY <3>4 DEF OutOf
    <2>2. CASE active = Nobody
      BY <1>1, <1>7, <2>2 DEF Abort, Taken
    <2> QED
      BY <2>1, <2>2
  <1>8. CASE FileIn(t) \/ Discard(t)
    BY <1>1, <1>8 DEF FileIn, Discard
  <1>9. CASE Alone(t) \/ NothingToReplace(t) \/ Release(t) \/ Check(t) \/ Round(t)
    <2>1. CASE job' = job /\ ~Return(t)
      <3>1. /\ entries' = entries /\ pend' = pend /\ active' = active
            /\ pc'[t] \in {"put", "file", "gc", "check", "round"}
            /\ pc[t] \in {"file", "replace", "release", "check", "round"}
            /\ pc'[t] = "gc" => pc[t] = "release"
        <4>1. CASE Alone(t)
          BY <4>1 DEF Alone, AtFile, Goto, TypeOK
        <4>2. CASE NothingToReplace(t)
          BY <4>2 DEF NothingToReplace, vault, Goto, TypeOK
        <4>3. CASE Release(t)
          BY <4>3 DEF Release, vault, Goto, TypeOK
        <4>4. CASE (Check(t) \/ Round(t)) /\ ~Return(t)
          BY <4>4 DEF Check, Round, vault, Goto, TypeOK
        <4> QED
          BY <1>9, <2>1, <4>1, <4>2, <4>3, <4>4
      <3> QED
        BY <2>1, <3>1 DEF OutBacked, OutOf, ToCome
    <2> QED
      BY <1>1, <1>9, <2>1 DEF Alone, NothingToReplace, Release, Check, Round
  <1>10. CASE GC(t)
    <2>1. pc[t] = "gc" /\ job' = [job EXCEPT ![t].gone = Nobody]
      BY <1>10 DEF GC
    <2>2. job[t].out = {} /\ job[t].items = <<>> /\ job[t].kept = <<>>
      BY <2>1 DEF OutBacked, OutOf
    <2>3. job'[t].out = {} /\ job'[t].items = <<>> /\ job'[t].kept = <<>>
      BY <2>1, <2>2, JobEdits DEF TypeOK
    <2> QED
      BY <2>3 DEF OutOf
  <1> QED
    BY <1>2, <1>3, <1>4, <1>5, <1>6, <1>7, <1>8, <1>9, <1>10 DEF Starts, Proceeds

\* A removal takes one file from the manifest, and from what is reported.
LEMMA RemovalLists ==
  ASSUME TypeOK, NEW t \in Thread, RemoveEntry(t) \/ Replace(t)
  PROVE  \E i \in DOMAIN entries :
           /\ entries' = RemoveAt(entries, i)
           /\ Files(entries') \subseteq Files(entries)
           /\ Files(entries) \subseteq Files(entries') \cup {entries[i]}
           /\ owed' = owed \ {entries[i]}
           /\ \A u \in Thread : job'[u].out = job[u].out \ {entries[i]}
           /\ lock' = lock /\ active' = active /\ pend' = pend
  <1>1. PICK i \in DOMAIN entries, s \in {"idle", "file"} : RemoveLocked(t, i, s)
    BY DEF RemoveEntry, Replace, AtPath
  <1>2. /\ entries' = RemoveAt(entries, i) /\ owed' = owed \ {entries[i]}
        /\ lock' = lock /\ active' = active /\ pend' = pend
    BY <1>1 DEF RemoveLocked, DropEntry
  <1>3. \A u \in Thread : job'[u].out = job[u].out \ {entries[i]}
    BY <1>1, RemovalSays
  <1>4. /\ Files(entries') \subseteq Files(entries)
        /\ Files(entries) \subseteq Files(entries') \cup {entries[i]}
    BY <1>2, FilesRemoved DEF TypeOK
  <1> QED
    BY <1>2, <1>3, <1>4

\* Publish, Finish and Abort are steps of the one Add that has a batch, if any.
LEMMA BatchHandedOver ==
  ASSUME Control, NEW t \in Thread, Publish(t) \/ Finish(t) \/ Abort(t)
  PROVE  entries' = entries /\ active \in {Nobody, t} /\ active' \in {Nobody, t}
  <1>1. Batched(t)
    BY DEF Control, OneFolder, FolderStep, Publish, Finish, Abort
  <1>2. active \in {Nobody, t}
    BY <1>1 DEF Control, LockHeld, OneFolder, TypeOK
  <1>3. entries' = entries /\ active' \in {Nobody, t}
    BY DEF Publish, Finish, Abort
  <1> QED
    BY <1>2, <1>3

\* A step of a thread keeps what the calls of the others report.
LEMMA OutOther ==
  ASSUME Control, OutBacked, NEW t \in Thread, Starts(t) \/ Proceeds(t),
         NEW u \in Thread, u # t
  PROVE  OutOf(u)'
  <1> USE DEF Control
  <1>1. /\ pc'[u] = pc[u] /\ job'[u].items = job[u].items /\ job'[u].kept = job[u].kept
        /\ job'[u].out \subseteq job[u].out
    BY OthersStay DEF Alike
  <1>2. OutOf(u) /\ u # Nobody
    BY BatchAssumption DEF OutBacked
  <1>3. CASE RemoveEntry(t) \/ Replace(t)
    <2>1. PICK i \in DOMAIN entries :
            /\ Files(entries) \subseteq Files(entries') \cup {entries[i]}
            /\ job'[u].out = job[u].out \ {entries[i]}
            /\ active' = active /\ pend' = pend
      BY <1>3, RemovalLists
    <2> QED
      BY <1>1, <1>2, <2>1 DEF OutOf, ToCome
  <1>4. CASE Publish(t) \/ Finish(t) \/ Abort(t)
    <2>1. entries' = entries /\ active \in {Nobody, t} /\ active' \in {Nobody, t}
      BY <1>4, BatchHandedOver
    <2> QED
      BY <1>1, <1>2, <2>1 DEF OutOf, ToCome
  <1>5. CASE ~(Publish(t) \/ Finish(t) \/ Abort(t) \/ RemoveEntry(t) \/ Replace(t))
    <2>1. IntoBatch(t) \/ PutBlocks(t) => job[t].todo # <<>>
      BY DEF HasFile, IntoBatch, AtFile, PutBlocks
    <2>2. /\ Files(entries) \subseteq Files(entries')
          /\ ItemFiles(pend) \subseteq ItemFiles(pend') /\ active' = active
      BY <1>5, <2>1, ListsKept
    <2> QED
      BY <1>1, <1>2, <2>2 DEF OutOf, ToCome
  <1> QED
    BY <1>3, <1>4, <1>5

\* A call that returns reports files that have their entries.
LEMMA ReturnsEntries ==
  ASSUME Control, OutBacked, NEW t \in Thread, Return(t),
         Begin(t) \/ FileIn(t) \/ Abort(t) \/ Discard(t) \/ Check(t) \/ Round(t)
  PROVE  job[t].out \subseteq Files(entries) /\ entries' = entries
  <1> USE DEF Control
  <1>1. pc'[t] = "idle" /\ OutOf(t)
    BY ReturnSays DEF OutBacked
  <1>2. CASE Begin(t) \/ Discard(t)
    BY <1>1, <1>2 DEF OutOf, Begin, Discard, vault
  <1>3. CASE FileIn(t) \/ Abort(t) \/ Check(t) \/ Round(t)
    <2>1. entries' = entries /\ pc[t] \in {"file", "abort", "check", "round"}
      BY <1>3 DEF FileIn, Abort, Check, Round, vault
    <2>2. active # t
      <3>1. CASE FileIn(t) \/ Check(t) \/ Round(t)
        BY <3>1, BatchAssumption DEF LockHeld, FileIn, Check, Round
      <3>2. CASE Abort(t)
        BY <1>1, <3>2, BatchAssumption DEF Abort, Taken, Goto, TypeOK
      <3> QED
        BY <1>3, <3>1, <3>2
    <2> QED
      BY <1>1, <2>1, <2>2, FilesSay DEF OutOf, ToCome
  <1> QED
    BY <1>2, <1>3

\* Only a call that returns, and a removal, change what is owed.
LEMMA OwedSays ==
  ASSUME NEW t \in Thread, Starts(t) \/ Proceeds(t),
         ~(RemoveEntry(t) \/ Replace(t)), owed' # owed
  PROVE  /\ Return(t)
         /\ Begin(t) \/ FileIn(t) \/ Abort(t) \/ Discard(t) \/ Check(t) \/ Round(t)
  BY DEF Starts, Proceeds, AddFolder, AddOne, ImportFile, CompactIdle, Call, Begin,
         Publish, Walk, AlreadyIn, Duplicate, IntoBatch, Alone, PutBlocks, FileIn,
         Finish, Close, Verify, Register, Abort, Discard, NothingToReplace, Release,
         GC, Check, Round

\* A step of a thread takes no entry that is owed, or it takes it back.
LEMMA ReportedThread ==
  ASSUME Control, OutBacked, Reported, NEW t \in Thread, Starts(t) \/ Proceeds(t)
  PROVE  Reported'
  <1> USE DEF Control
  <1>1. owed \subseteq Files(entries)
    BY DEF Reported, Files
  <1>2. owed' \subseteq Files(entries')
    <2>1. CASE RemoveEntry(t) \/ Replace(t)
      BY <1>1, <2>1, RemovalLists
    <2>2. CASE ~(RemoveEntry(t) \/ Replace(t)) /\ owed' # owed
      <3>1. /\ Return(t)
            /\ Begin(t) \/ FileIn(t) \/ Abort(t) \/ Discard(t) \/ Check(t) \/ Round(t)
        BY <2>2, OwedSays
      <3>2. owed' = owed \cup job[t].out
        BY <3>1 DEF Return
      <3> QED
        BY <1>1, <3>1, <3>2, ReturnsEntries
    <2>3. CASE (Publish(t) \/ Finish(t) \/ Abort(t)) /\ owed' = owed
      BY <1>1, <2>3, BatchHandedOver
    <2>4. CASE /\ ~(Publish(t) \/ Finish(t) \/ Abort(t) \/ RemoveEntry(t) \/ Replace(t))
               /\ owed' = owed
      <3>1. IntoBatch(t) \/ PutBlocks(t) => job[t].todo # <<>>
        BY DEF HasFile, IntoBatch, AtFile, PutBlocks
      <3> QED
        BY <1>1, <2>4, <3>1, ListsKept
    <2> QED
      BY <2>1, <2>2, <2>3, <2>4
  <1> QED
    BY <1>2 DEF Reported, Files

\* Every step keeps what the calls count on and what they have reported.
LEMMA ReportedNext ==
  ASSUME Control, OutBacked, Reported, [Next]_vars
  PROVE  (OutBacked /\ Reported)'
  <1>1. CASE UNCHANGED vars
    BY <1>1 DEF OutBacked, OutOf, ToCome, Reported, vars
  <1>2. CASE OtherLocks \/ OtherUnlocks
    BY <1>2 DEF OutBacked, OutOf, ToCome, Reported, OtherLocks, OtherUnlocks, vault
  <1>3. CASE \E t \in Thread : Starts(t) \/ Proceeds(t)
    <2>1. PICK t \in Thread : Starts(t) \/ Proceeds(t)
      BY <1>3
    <2>2. \A u \in Thread : OutOf(u)'
      BY <2>1, OutOwn, OutOther
    <2> QED
      BY <2>1, <2>2, ReportedThread DEF OutBacked
  <1> QED
    BY <1>1, <1>2, <1>3 DEF Next

\* What an Add or ImportFile has reported as added has its entry until it is
\* removed or replaced (finishBatch, ops.go:57), with any fault, where one
\* folder is added at a time.
THEOREM ReportedStays ==
  ASSUME "adds" \notin Races
  PROVE  Spec => []Reported
  <1>1. Init => OutBacked /\ Reported
    BY DEF Init, OutBacked, OutOf, Reported, NoJob
  <1>2. Control /\ OutBacked /\ Reported /\ [Next]_vars
          => (Control /\ OutBacked /\ Reported)'
    BY ControlNext, ReportedNext
  <1> QED
    BY <1>1, <1>2, ControlInit, PTL DEF Spec

----------------------------------------------------------------------------
(* What a batch leaves behind.                                             *)

\* One folder is added at a time, and no Commit fails: one that does leaves
\* its contents where Has reports them.
Reliable == "adds" \notin Races /\ "commit" \notin Faults /\ "close" \notin Faults

\* The steps that put contents in the batch or take them out of it.
LEMMA QueuedSays ==
  ASSUME Control, Uncommitted, Reliable, NEW t \in Thread, Starts(t) \/ Proceeds(t)
  PROVE  /\ seen' \subseteq queued'
         /\ \/ queued' \subseteq queued /\ ~Close(t) /\ ~Discard(t)
            \/ queued' = {}
            \/ IntoBatch(t) /\ Batched(t)
  <1>1. CASE IntoBatch(t)
    <2>1. PICK fate \in Fate(IF Batched(t) THEN {"put"} ELSE {"put", "commit"}) :
            CASE fate = "put" -> UNCHANGED <<depot, pend, entries>>
              [] fate = "commit" \/ (fate = "ok" /\ Batched(t)) ->
                   queued' = queued \cup {Hash(t)} /\ seen' = seen \cup {Hash(t)}
              [] OTHER -> seen' = seen \ queued /\ queued' = {}
      BY <1>1 DEF IntoBatch
    <2>2. fate \in {"ok", "put"}
      BY <2>1 DEF Fate, Reliable
    <2>3. CASE fate = "put"
      BY <1>1, <2>1, <2>3 DEF Uncommitted, depot, IntoBatch, AtFile, Close, Discard
    <2>4. CASE fate = "ok" /\ Batched(t)
      BY <1>1, <2>1, <2>4 DEF Uncommitted
    <2>5. CASE fate = "ok" /\ ~Batched(t)
      BY <2>1, <2>5 DEF Uncommitted
    <2> QED
      BY <2>2, <2>3, <2>4, <2>5
  <1>2. CASE PutBlocks(t)
    <2>1. seen' = seen /\ queued' = queued
      BY <1>2 DEF PutBlocks, Fate, Reliable
    <2> QED
      BY <1>2, <2>1 DEF Uncommitted, PutBlocks, Close, Discard
  <1>3. CASE Close(t)
    <2>1. seen' = seen \ queued /\ queued' = {}
      BY <1>3 DEF Close, Fate, Reliable
    <2> QED
      BY <2>1 DEF Uncommitted
  <1>4. CASE Discard(t)
    BY <1>4 DEF Discard, Uncommitted
  <1>5. CASE RemoveEntry(t) \/ Replace(t) \/ Release(t)
    <2>1. \/ seen' = seen /\ queued' = queued
          \/ \E c : seen' = seen \ {c} /\ queued' = queued \ {c}
      BY <1>5 DEF RemoveEntry, Replace, RemoveLocked, Release, RemoveContent
    <2> QED
      BY <1>5, <2>1
      DEF Uncommitted, RemoveEntry, Replace, Release, Close, Discard
  <1>6. CASE ~(\/ IntoBatch(t) \/ PutBlocks(t) \/ Close(t) \/ Discard(t)
               \/ RemoveEntry(t) \/ Replace(t) \/ Release(t))
    <2>1. seen' = seen /\ queued' = queued
      BY <1>6
      DEF Starts, Proceeds, AddFolder, AddOne, ImportFile, CompactIdle, Call, Begin,
          Publish, Walk, AlreadyIn, Duplicate, Alone, FileIn, Finish, Verify,
          Register, Abort, NothingToReplace, GC, Check, Round, depot
    <2> QED
      BY <1>6, <2>1 DEF Uncommitted
  <1> QED
    BY <1>1, <1>2, <1>3, <1>4, <1>5, <1>6

\* While something is in the batch, its Add keeps the depot and goes from file
\* to file, or is about to close the batch.
LEMMA QueuedStays ==
  ASSUME Control, Uncommitted, Reliable, NEW t \in Thread, Starts(t) \/ Proceeds(t),
         queued' # {}
  PROVE  lock' \in Thread /\ pc'[lock'] \in {"file", "close"}
  <1> USE BatchAssumption DEF Control
  <1>1. CASE IntoBatch(t) /\ Batched(t)
    <2>1. pc[t] = "file" /\ active = t /\ lock = t /\ lock' = lock /\ pc' = pc
      BY <1>1 DEF IntoBatch, AtFile, LockHeld, depot
    <2> QED
      BY <2>1
  <1>2. CASE queued # {} /\ ~Close(t) /\ ~Discard(t)
    <2>1. lock \in Thread /\ pc[lock] \in {"file", "close"}
      BY <1>2 DEF Uncommitted
    <2>2. lock' = lock
      BY <1>2, <2>1
      DEF Starts, Proceeds, AddFolder, AddOne, ImportFile, CompactIdle, Call, Begin,
          Publish, Walk, AlreadyIn, Duplicate, IntoBatch, Alone, PutBlocks,
          FileIn, Finish, Verify, Register, Abort, RemoveEntry, Replace, RemoveLocked,
          NothingToReplace, Release, GC, Check, Round, depot
    <2>3. CASE t # lock
      <3>1. pc'[lock] = pc[lock]
        BY <2>1, <2>3, OthersStay
      <3> QED
        BY <2>1, <2>2, <3>1
    <2>4. CASE t = lock
      <3>1. pc[t] = "file" => active = t /\ Batched(t)
        BY <2>1, <2>4 DEF LockHeld
      <3>2. CASE AlreadyIn(t) \/ Duplicate(t) \/ IntoBatch(t)
        BY <2>1, <2>2, <2>4, <3>2 DEF AlreadyIn, Duplicate, IntoBatch
      <3>3. CASE Finish(t)
        BY <2>1, <2>2, <2>4, <3>1, <3>3 DEF Finish, Goto, TypeOK
      <3>4. CASE ~(AlreadyIn(t) \/ Duplicate(t) \/ IntoBatch(t) \/ Finish(t))
        BY <1>2, <2>1, <2>4, <3>1, <3>4
        DEF Starts, Proceeds, AddFolder, AddOne, ImportFile, CompactIdle, Call, Begin,
            Publish, Walk, Alone, AtFile, PutBlocks, FileIn, Verify, Register, Abort,
            RemoveEntry, Replace, NothingToReplace, Release, GC, Check, Round
      <3> QED
        BY <3>2, <3>3, <3>4
    <2> QED
      BY <2>3, <2>4
  <1> QED
    BY <1>1, <1>2, QueuedSays

\* No batch, no list.
LEMMA ListStays ==
  ASSUME Control, Uncommitted, NEW t \in Thread, Starts(t) \/ Proceeds(t),
         active' = Nobody
  PROVE  pend' = <<>>
  <1> USE BatchAssumption DEF Control
  <1>1. CASE Publish(t) \/ Finish(t) \/ Abort(t)
    BY <1>1 DEF Publish, Finish, Abort
  <1>2. CASE Duplicate(t) \/ IntoBatch(t)
    <2>1. active = Nobody
      BY <1>2 DEF Duplicate, IntoBatch
    <2>2. ~Batched(t) /\ Duplicate(t)
      BY <1>2, <2>1 DEF Duplicate, IntoBatch, AtFile, LockHeld
    <2> QED
      BY <2>1, <2>2 DEF Duplicate, Uncommitted
  <1>3. CASE ~(Publish(t) \/ Finish(t) \/ Abort(t) \/ Duplicate(t) \/ IntoBatch(t))
    <2>1. active' = active /\ pend' = pend
      BY <1>3
      DEF Starts, Proceeds, AddFolder, AddOne, ImportFile, CompactIdle, Call, Begin,
          Walk, AlreadyIn, Alone, PutBlocks, FileIn, Close, Verify, Register, Discard,
          RemoveEntry, Replace, RemoveLocked, NothingToReplace, Release, GC, Check,
          Round, vault
    <2> QED
      BY <2>1 DEF Uncommitted
  <1> QED
    BY <1>1, <1>2, <1>3

\* Every step keeps Uncommitted, where no Commit fails.
LEMMA UncommittedNext ==
  ASSUME Control, Uncommitted, Reliable, [Next]_vars
  PROVE  Uncommitted'
  <1>1. CASE UNCHANGED vars
    BY <1>1 DEF Uncommitted, vars
  <1>2. CASE OtherLocks \/ OtherUnlocks
    BY <1>2, BatchAssumption DEF Uncommitted, OtherLocks, OtherUnlocks, vault
  <1>3. CASE \E t \in Thread : Starts(t) \/ Proceeds(t)
    BY <1>3, QueuedSays, QueuedStays, ListStays DEF Uncommitted
  <1> QED
    BY <1>1, <1>2, <1>3 DEF Next

\* When no folder is being added nothing is left of a batch: the depot's lock,
\* the list of files to register, contents that Has reports and no Commit wrote
\* (beginBatch, finishBatch, abortBatch), where no Commit fails.
THEOREM NothingIsLeft ==
  ASSUME Reliable
  PROVE  Spec => []NothingLeft
  <1>1. Init => Uncommitted
    BY DEF Init, Uncommitted
  <1>2. Control /\ Uncommitted /\ [Next]_vars => (Control /\ Uncommitted)'
    BY ControlNext, UncommittedNext DEF Reliable
  <1>3. Control /\ Uncommitted => NothingLeft
    <2> SUFFICES ASSUME Control, Uncommitted
                 PROVE  NothingLeft
      OBVIOUS
    <2>1. active # Nobody => lock = active
      BY DEF Control, LockHeld
    <2>2. ASSUME ~Busy("folder")
          PROVE  lock \notin Thread /\ active = Nobody
      BY <2>2, BatchAssumption
      DEF Control, TypeOK, LockHeld, OneFolder, FolderStep, Busy, Batched
    <2> QED
      BY <2>1, <2>2 DEF NothingLeft, Uncommitted
  <1> QED
    BY <1>1, <1>2, <1>3, ControlInit, PTL DEF Spec

----------------------------------------------------------------------------
(* What the entries have, and what the open Add counts on.                 *)

\* s.mu stays with the thread that wants the depot, and whoever comes to want
\* it has taken s.mu.
LEMMA MuStays ==
  ASSUME TypeOK, MuHeld, NEW t \in Thread, Starts(t) \/ Proceeds(t)
  PROVE  MuHeld'
  <1> USE BatchAssumption DEF Wants
  <1>1. \A u \in Thread \ {t} : pc'[u] = pc[u]
    BY OthersStay
  <1>2. CASE Alone(t)
    BY <1>1, <1>2 DEF MuHeld, Alone, AtFile, TypeOK
  <1>3. CASE RemoveEntry(t) \/ Replace(t)
    <2>1. PICK i \in DOMAIN entries, s \in {"idle", "file"} : RemoveLocked(t, i, s)
      BY <1>3 DEF RemoveEntry, Replace, AtPath
    <2>2. /\ mu = Nobody
          /\ \/ pc'[t] = s /\ mu' = mu
             \/ pc'[t] = "release" /\ mu' = t
      BY <1>3, <2>1 DEF RemoveEntry, Replace, RemoveLocked, Goto, TypeOK
    <2> QED
      BY <1>1, <2>2 DEF MuHeld
  <1>4. CASE PutBlocks(t) \/ Release(t) \/ GC(t)
    BY <1>1, <1>4 DEF MuHeld, PutBlocks, Release, GC, vault, Goto, TypeOK
  <1>5. CASE ~(Alone(t) \/ RemoveEntry(t) \/ Replace(t) \/ PutBlocks(t)
               \/ Release(t) \/ GC(t))
    <2>1. mu' = mu
      BY <1>5
      DEF Starts, Proceeds, AddFolder, AddOne, ImportFile, CompactIdle, Call, Begin,
          Publish, Walk, AlreadyIn, Duplicate, IntoBatch, FileIn, Finish, Close, Verify,
          Register, Abort, Discard, NothingToReplace, Check, Round, vault
    <2>2. pc'[t] \notin {"put", "release", "gc"}
      <3>1. CASE AddFolder(t) \/ AddOne(t) \/ ImportFile(t) \/ CompactIdle(t)
        <4>1. PICK k \in Kind, s \in {"begin", "file", "replace", "check"} :
              \E files : Call(t, k, s, files)
          BY <3>1 DEF AddFolder, AddOne, ImportFile, CompactIdle, Kind
        <4> QED
          BY <4>1, CallSays
      <3>2. CASE AlreadyIn(t) \/ Duplicate(t) \/ IntoBatch(t)
        BY <3>2 DEF AlreadyIn, Duplicate, IntoBatch, AtFile
      <3>3. CASE Begin(t) \/ FileIn(t) \/ Abort(t) \/ Discard(t) \/ Check(t) \/ Round(t)
        BY <3>3, ReturnSays
        DEF TypeOK, Begin, FileIn, Abort, Discard, Check, Round, Goto
      <3>4. CASE \/ Publish(t) \/ Walk(t) \/ Finish(t) \/ Close(t) \/ Verify(t)
                 \/ Register(t) \/ NothingToReplace(t)
        BY <3>4
        DEF TypeOK, Publish, Walk, Finish, Close, Verify, Register, NothingToReplace, Goto
      <3> QED
        BY <1>5, <3>1, <3>2, <3>3, <3>4 DEF Starts, Proceeds
    <2> QED
      BY <1>1, <2>1, <2>2 DEF MuHeld
  <1> QED
    BY <1>2, <1>3, <1>4, <1>5

\* The files that a job counts on, and all that must have their content.
OfJob(j) == ItemFiles(j.items) \cup Files(j.kept)
Due == Files(entries) \cup ItemFiles(pend) \cup UNION {OfJob(job[t]) : t \in Thread}

\* CountedBacked, in terms of files.
DueBacked ==
  /\ \A f \in Due : ContentOf[f] \in stored \cup queued
  /\ \A t \in Thread :
       pc[t] = "release" => \A f \in Due : ContentOf[f] # job[t].gone

\* CountedBacked and DueBacked are the same, before and after a step.
LEMMA DueSays ==
  (CountedBacked <=> DueBacked) /\ (CountedBacked' <=> DueBacked')
  <1>1. \A s : Contents(s) = {ContentOf[f] : f \in Files(s)}
    BY DEF Contents, Files
  <1>2. \A s : Counted(s) = {ContentOf[f] : f \in ItemFiles(s)}
    BY DEF Counted, ItemFiles
  <1>3. Contents(entries) \cup Pending = {ContentOf[f] : f \in Due}
    BY <1>1, <1>2 DEF Pending, Due, OfJob
  <1>4. Contents(entries') \cup Pending' = {ContentOf[f] : f \in Due'}
    BY <1>1, <1>2 DEF Pending, Due, OfJob
  <1> QED
    BY <1>3, <1>4 DEF CountedBacked, DueBacked

\* A step of a thread adds to Due what it adds to the manifest, to the batch
\* and to its own job.
LEMMA DueGrows ==
  ASSUME TypeOK, NEW t \in Thread, Starts(t) \/ Proceeds(t), NEW X,
         Files(entries') \cup ItemFiles(pend') \cup OfJob(job'[t])
           \subseteq Files(entries) \cup ItemFiles(pend) \cup OfJob(job[t]) \cup X
  PROVE  Due' \subseteq Due \cup X
  <1>1. \A u \in Thread \ {t} : OfJob(job'[u]) = OfJob(job[u])
    BY OthersStay DEF Alike, OfJob
  <1> QED
    BY <1>1 DEF Due

\* Nothing is counted on by a call that has returned, or has not begun.
LEMMA DueEnds ==
  ASSUME Control, OutBacked, NEW t \in Thread,
         \/ Return(t)
         \/ \E k, s, files : Call(t, k, s, files)
  PROVE  OfJob(job'[t]) = {}
  BY ReturnSays, CallSays, FilesSay DEF Control, OfJob

\* The steps that take a file to count on, and what is theirs.
LEMMA DueTaken ==
  ASSUME Control, Reliable, Uncommitted, CountedBacked, NEW t \in Thread,
         Duplicate(t) \/ IntoBatch(t) \/ PutBlocks(t)
  PROVE  \A f \in Due' : f \in Due \/ ContentOf[f] \in stored' \cup queued'
  <1> USE DEF Control
  <1>0. /\ entries \in Seq(File) /\ pend \in Seq(Item) /\ job[t].todo # <<>>
        /\ Starts(t) \/ Proceeds(t)
    BY DEF TypeOK, HasFile, Duplicate, IntoBatch, PutBlocks, AtFile, Proceeds
  <1>1. The(t) \in File /\ \A b \in BOOLEAN : [file |-> The(t), put |-> b] \in Item
    BY <1>0, TypeThe DEF Item
  <1>2. OfJob(job'[t]) = OfJob(job[t])
    <2>1. PICK done \in BOOLEAN : Advance(t, done)
      BY DEF Duplicate, IntoBatch, PutBlocks
    <2> QED
      BY <2>1, AdvanceSays DEF OfJob
  <1>3. Files(entries') \subseteq Files(entries) \cup {The(t)}
    <2>1. entries' = entries \/ entries' = Append(entries, The(t))
      BY DEF Duplicate, IntoBatch, PutBlocks
    <2> QED
      BY <1>0, <1>1, <2>1, FilesSay
  <1>4. ItemFiles(pend') \subseteq ItemFiles(pend) \cup {The(t)}
    <2>1. \/ pend' = pend
          \/ \E b \in BOOLEAN : pend' = Append(pend, [file |-> The(t), put |-> b])
      BY DEF Duplicate, IntoBatch, PutBlocks
    <2>2. ASSUME NEW b \in BOOLEAN, pend' = Append(pend, [file |-> The(t), put |-> b])
          PROVE  ItemFiles(pend') = ItemFiles(pend) \cup {The(t)}
      <3>1. PICK x \in Item : pend' = Append(pend, x) /\ x.file = The(t)
        BY <1>1, <2>2
      <3> QED
        BY <1>0, <3>1, FilesSay
    <2> QED
      BY <2>1, <2>2
  <1>5. Due' \subseteq Due \cup {The(t)}
    BY <1>0, <1>2, <1>3, <1>4, DueGrows
  <1>6. Due' \subseteq Due \/ Hash(t) \in stored' \cup queued'
    <2>1. CASE Duplicate(t)
      <3>1. Hash(t) \in stored \cup queued
        BY <2>1 DEF Duplicate, Known, HasContent, Uncommitted, CountedBacked
      <3> QED
        BY <2>1, <3>1 DEF Duplicate, depot
    <2>2. CASE IntoBatch(t)
      <3>1. \/ Hash(t) \in stored' \cup queued'
            \/ entries' = entries /\ pend' = pend
        BY <2>2 DEF IntoBatch, depot
      <3> QED
        BY <1>0, <1>2, <3>1, DueGrows
    <2>3. CASE PutBlocks(t)
      <3>1. pend' = pend /\ (Hash(t) \in stored' \/ entries' = entries)
        BY <2>3 DEF PutBlocks
      <3> QED
        BY <1>0, <1>2, <3>1, DueGrows
    <2> QED
      BY <2>1, <2>2, <2>3
  <1> QED
    BY <1>5, <1>6 DEF Hash

\* Every other step hands files on, or lets them go.
LEMMA DueKept ==
  ASSUME Control, OutBacked, NEW t \in Thread, Starts(t) \/ Proceeds(t),
         ~(Duplicate(t) \/ IntoBatch(t) \/ PutBlocks(t))
  PROVE  Due' \subseteq Due
  <1> USE DEF Control
  <1>0. /\ entries \in Seq(File) /\ pend \in Seq(Item)
        /\ job[t].items \in Seq(Item) /\ job[t].kept \in Seq(File)
    BY DEF TypeOK, Job
  <1> SUFFICES Files(entries') \cup ItemFiles(pend') \cup OfJob(job'[t])
                 \subseteq Files(entries) \cup ItemFiles(pend) \cup OfJob(job[t])
    BY DueGrows
  <1>1. CASE AddFolder(t) \/ AddOne(t) \/ ImportFile(t) \/ CompactIdle(t)
    <2>1. PICK k, s, files : Call(t, k, s, files)
      BY <1>1 DEF AddFolder, AddOne, ImportFile, CompactIdle
    <2> QED
      BY <2>1, DueEnds DEF Call, vault
  <1>2. CASE RemoveEntry(t) \/ Replace(t)
    <2>1. PICK i \in DOMAIN entries, s \in {"idle", "file"} : RemoveLocked(t, i, s)
      BY <1>2 DEF RemoveEntry, Replace, AtPath
    <2>2. OfJob(job'[t]) = OfJob(job[t])
      BY <2>1, RemovalSays DEF OfJob
    <2> QED
      BY <1>2, <2>2, RemovalLists
  <1>3. CASE Begin(t) \/ FileIn(t) \/ Discard(t) \/ Check(t) \/ Round(t)
    <2>1. entries' = entries /\ pend' = pend /\ (job' = job \/ Return(t))
      BY <1>3 DEF Begin, FileIn, Discard, Check, Round, vault
    <2> QED
      BY <2>1, DueEnds
  <1>4. CASE Abort(t)
    <2>1. entries' = entries /\ pend' = <<>>
          /\ (Return(t) \/ job' = [job EXCEPT ![t].batch = Taken])
      BY <1>4 DEF Abort
    <2>2. job' = [job EXCEPT ![t].batch = Taken] => OfJob(job'[t]) = OfJob(job[t])
      BY JobEdits DEF TypeOK, OfJob
    <2> QED
      BY <2>1, <2>2, DueEnds, FilesSay
  <1>5. CASE Publish(t) \/ Walk(t) \/ Alone(t) \/ NothingToReplace(t) \/ Release(t)
    <2>1. entries' = entries /\ (pend' = pend \/ pend' = <<>>) /\ job' = job
      BY <1>5 DEF Publish, Walk, Alone, NothingToReplace, Release, vault
    <2> QED
      BY <2>1, FilesSay
  <1>6. CASE AlreadyIn(t)
    <2>1. entries' = entries /\ pend' = pend /\ Advance(t, TRUE)
      BY <1>6 DEF AlreadyIn, vault
    <2> QED
      BY <2>1, AdvanceSays DEF OfJob
  <1>7. CASE GC(t)
    <2>1. entries' = entries /\ pend' = pend /\ job' = [job EXCEPT ![t].gone = Nobody]
      BY <1>7 DEF GC
    <2> QED
      BY <2>1, JobEdits DEF TypeOK, OfJob
  <1>8. CASE Finish(t)
    <2>1. /\ entries' = entries /\ pend' = <<>> /\ pc[t] = "file"
          /\ job' = [job EXCEPT ![t].batch = active, ![t].items = pend]
      BY <1>8 DEF Finish
    <2>2. job'[t].items = pend /\ job'[t].kept = job[t].kept
      BY <2>1, JobEdits DEF TypeOK
    <2> QED
      BY <2>1, <2>2, FilesSay DEF OfJob
  <1>9. CASE Close(t)
    <2>1. /\ entries' = entries /\ pend' = pend
          /\ \/ job' = job
             \/ job' = [job EXCEPT ![t].out = {}, ![t].items = <<>>]
      BY <1>9 DEF Close, vault
    <2>2. job' = [job EXCEPT ![t].out = {}, ![t].items = <<>>]
            => job'[t].items = <<>> /\ job'[t].kept = job[t].kept
      BY JobEdits DEF TypeOK
    <2> QED
      BY <2>1, <2>2, FilesSay DEF OfJob
  <1>10. CASE Verify(t)
    <2> DEFINE f == Head(job[t].items).file
               its == Tail(job[t].items)
    <2>1. entries' = entries /\ pend' = pend /\ job[t].items # <<>>
      BY <1>10 DEF Verify, vault
    <2>2. ItemFiles(job[t].items) = {f} \cup ItemFiles(its) /\ f \in File
      BY <1>0, <2>1, ItemFilesTail DEF Item
    <2>3. \/ job' = [job EXCEPT ![t].items = its, ![t].kept = Append(job[t].kept, f)]
          \/ job' = [job EXCEPT ![t].items = its, ![t].out = job[t].out \ {f}]
      BY <1>10, VerifySays
    <2>4. Files(Append(job[t].kept, f)) = Files(job[t].kept) \cup {f}
      BY <1>0, <2>2, FilesSay
    <2> HIDE DEF f, its
    <2>5. CASE job' = [job EXCEPT ![t].items = its, ![t].kept = Append(job[t].kept, f)]
      <3>1. job'[t].items = its /\ job'[t].kept = Append(job[t].kept, f)
        BY <2>5, JobEdits DEF TypeOK
      <3> QED
        BY <2>1, <2>2, <2>4, <3>1 DEF OfJob
    <2>6. CASE job' = [job EXCEPT ![t].items = its, ![t].out = job[t].out \ {f}]
      <3>1. job'[t].items = its /\ job'[t].kept = job[t].kept
        BY <2>6, JobEdits DEF TypeOK
      <3> QED
        BY <2>1, <2>2, <3>1 DEF OfJob
    <2> QED
      BY <2>3, <2>5, <2>6
  <1>11. CASE Register(t)
    <2>1. /\ entries' = entries \o job[t].kept /\ pend' = pend
          /\ job' = [job EXCEPT ![t].kept = <<>>]
      BY <1>11 DEF Register
    <2>2. job'[t].items = job[t].items /\ job'[t].kept = <<>>
      BY <2>1, JobEdits DEF TypeOK
    <2>3. Files(entries') = Files(entries) \cup Files(job[t].kept)
      BY <1>0, <2>1, FilesConcat
    <2> QED
      BY <2>1, <2>2, <2>3, FilesSay DEF OfJob
  <1> QED
    BY <1>1, <1>2, <1>3, <1>4, <1>5, <1>6, <1>7, <1>8, <1>9, <1>10, <1>11
    DEF Starts, Proceeds

\* No step but a removal takes a content from the depot and from the batch.
LEMMA ContentsStay ==
  ASSUME Control, Uncommitted, Reliable, NEW t \in Thread, Starts(t) \/ Proceeds(t),
         ~(RemoveEntry(t) \/ Replace(t) \/ Release(t))
  PROVE  stored \cup queued \subseteq stored' \cup queued'
  <1>1. CASE IntoBatch(t) \/ PutBlocks(t)
    BY <1>1 DEF IntoBatch, PutBlocks, depot
  <1>2. CASE Close(t)
    BY <1>2 DEF Close, Fate, Reliable
  <1>3. CASE Discard(t)
    <2>1. pc[t] = "discard" /\ lock = t /\ stored' = stored
      BY <1>3 DEF Discard, Control, LockHeld
    <2> QED
      BY <2>1 DEF Uncommitted
  <1>4. CASE ~(IntoBatch(t) \/ PutBlocks(t) \/ Close(t) \/ Discard(t))
    <2>1. stored' = stored /\ queued' = queued
      BY <1>4
      DEF Starts, Proceeds, AddFolder, AddOne, ImportFile, CompactIdle, Call, Begin,
          Publish, Walk, AlreadyIn, Duplicate, Alone, FileIn, Finish, Verify,
          Register, Abort, NothingToReplace, GC, Check, Round, depot
    <2> QED
      BY <2>1
  <1> QED
    BY <1>1, <1>2, <1>3, <1>4

\* A removal takes the content of an entry only if nothing else counts on it,
\* or it is about to.
LEMMA RemovalTakes ==
  ASSUME Control, OutBacked, CountedBacked, "pending" \notin Races,
         NEW t \in Thread, RemoveEntry(t) \/ Replace(t)
  PROVE  /\ \A f \in Due' : ContentOf[f] \in stored' \cup queued'
         /\ pc'[t] = "release" => \A f \in Due' : ContentOf[f] # job'[t].gone
         /\ mu = Nobody
  <1>1. PICK i \in DOMAIN entries, s \in {"idle", "file"} :
          MayRemove(i) /\ RemoveLocked(t, i, s)
    BY DEF RemoveEntry, Replace, AtPath
  <1> DEFINE c == ContentOf[entries[i]]
  <1>2. mu = Nobody /\ pend' = pend /\ entries' = RemoveAt(entries, i)
    BY <1>1 DEF RemoveEntry, Replace, RemoveLocked, DropEntry
  <1>3. Due' \subseteq Due
    <2>1. ~(Duplicate(t) \/ IntoBatch(t) \/ PutBlocks(t))
      BY DEF RemoveEntry, Replace, Duplicate, IntoBatch, PutBlocks, AtFile
    <2> QED
      BY <2>1, DueKept DEF Starts, Proceeds
  <1>4. Due' \subseteq Files(entries') \cup ItemFiles(pend)
                         \cup UNION {OfJob(job[u]) : u \in Thread}
    <2>1. \A u \in Thread \ {t} : OfJob(job'[u]) = OfJob(job[u])
      BY OthersStay DEF Control, Starts, Proceeds, Alike, OfJob
    <2>2. OfJob(job'[t]) = OfJob(job[t])
      BY <1>1, RemovalSays DEF Control, OfJob
    <2> QED
      BY <1>2, <2>1, <2>2 DEF Due
  <1>5. \A f \in ItemFiles(pend) \cup UNION {OfJob(job[u]) : u \in Thread} :
          ContentOf[f] # c
    BY <1>1 DEF MayRemove, Pending, Counted, Contents, OfJob, ItemFiles, Files
  <1>6. ~Owned(RemoveAt(entries, i), c) => \A f \in Due' : ContentOf[f] # c
    BY <1>2, <1>4, <1>5 DEF Owned, Contents, Files
  <1>7. \A f \in Due' : ContentOf[f] \in stored \cup queued
    BY <1>3, DueSays DEF DueBacked
  <1>8. CASE Owned(RemoveAt(entries, i), c)
    <2>1. stored' = stored /\ queued' = queued /\ pc'[t] # "release"
      BY <1>1, <1>8 DEF RemoveLocked, Goto, Control, TypeOK
    <2> QED
      BY <1>2, <1>7, <2>1
  <1>9. CASE ~Owned(RemoveAt(entries, i), c) /\ InOpenBatch
    <2>1. /\ stored \ {c} \subseteq stored' /\ queued' = queued \ {c}
          /\ pc'[t] # "release"
      BY <1>1, <1>9 DEF RemoveLocked, RemoveContent, Goto, Control, TypeOK
    <2> QED
      BY <1>2, <1>6, <1>7, <1>9, <2>1
  <1>10. CASE ~Owned(RemoveAt(entries, i), c) /\ ~InOpenBatch
    <2>1. stored' = stored /\ queued' = queued /\ pc'[t] = "release"
      BY <1>1, <1>10 DEF RemoveLocked, Goto, Control, TypeOK
    <2>2. job'[t].gone = c
      BY <1>1, <2>1, RemovalSays DEF Control
    <2> QED
      BY <1>2, <1>6, <1>7, <1>10, <2>1, <2>2
  <1> QED
    BY <1>8, <1>9, <1>10

\* What counts on a content keeps it in the depot or in the batch.
LEMMA BackedThread ==
  ASSUME Control, OutBacked, MuHeld, Uncommitted, CountedBacked, Reliable,
         "pending" \notin Races, NEW t \in Thread, Starts(t) \/ Proceeds(t)
  PROVE  CountedBacked'
  <1> USE DEF Control
  <1>1. /\ \A f \in Due : ContentOf[f] \in stored \cup queued
        /\ \A u \in Thread : pc[u] = "release" =>
             \A f \in Due : ContentOf[f] # job[u].gone
    BY DueSays DEF DueBacked
  <1>2. \A u \in Thread \ {t} : pc'[u] = pc[u] /\ job'[u].gone = job[u].gone
    BY OthersStay DEF Alike
  <1>3. CASE RemoveEntry(t) \/ Replace(t)
    <2>1. \A u \in Thread \ {t} : pc[u] # "release"
      BY <1>3, RemovalTakes, BatchAssumption DEF MuHeld, Wants
    <2> QED
      BY <1>2, <1>3, <2>1, RemovalTakes, DueSays DEF DueBacked
  <1>4. CASE Release(t)
    <2>1. ~(Duplicate(t) \/ IntoBatch(t) \/ PutBlocks(t))
      BY <1>4 DEF Release, Duplicate, IntoBatch, PutBlocks, AtFile
    <2>2. Due' \subseteq Due
      BY <2>1, DueKept
    <2>3. /\ pc[t] = "release" /\ pc'[t] = "gc"
          /\ queued' = queued \ {job[t].gone} /\ stored \ {job[t].gone} \subseteq stored'
      BY <1>4 DEF Release, RemoveContent, Goto, TypeOK
    <2>4. \A f \in Due' : ContentOf[f] \in stored' \cup queued'
      BY <1>1, <2>2, <2>3
    <2>5. \A u \in Thread : pc'[u] = "release" =>
            \A f \in Due' : ContentOf[f] # job'[u].gone
      BY <1>1, <1>2, <2>2, <2>3
    <2> QED
      BY <2>4, <2>5, DueSays DEF DueBacked
  <1>5. CASE Duplicate(t) \/ IntoBatch(t) \/ PutBlocks(t)
    <2>1. \A f \in Due' : ContentOf[f] \in stored' \cup queued'
      <3>1. stored \cup queued \subseteq stored' \cup queued'
        <4>1. ~(RemoveEntry(t) \/ Replace(t) \/ Release(t))
          BY <1>5
          DEF RemoveEntry, Replace, Release, Duplicate, IntoBatch, PutBlocks, AtFile
        <4> QED
          BY <4>1, ContentsStay
      <3> QED
        BY <1>1, <1>5, <3>1, DueTaken
    <2>2. \A u \in Thread : pc'[u] # "release"
      <3>1. mu \in {Nobody, t} /\ pc'[t] = "file"
        BY <1>5
        DEF Duplicate, IntoBatch, PutBlocks, AtFile, MuHeld, Wants, Goto, TypeOK
      <3>2. \A u \in Thread \ {t} : pc[u] # "release"
        BY <3>1, BatchAssumption DEF MuHeld, Wants
      <3> QED
        BY <1>2, <3>1, <3>2
    <2> QED
      BY <2>1, <2>2, DueSays DEF DueBacked
  <1>6. CASE ~(\/ RemoveEntry(t) \/ Replace(t) \/ Release(t)
               \/ Duplicate(t) \/ IntoBatch(t) \/ PutBlocks(t))
    <2>1. Due' \subseteq Due /\ stored \cup queued \subseteq stored' \cup queued'
      BY <1>6, DueKept, ContentsStay
    <2>2. pc'[t] # "release"
      <3>1. CASE AddFolder(t) \/ AddOne(t) \/ ImportFile(t) \/ CompactIdle(t)
        <4>1. PICK k \in Kind, s \in {"begin", "file", "replace", "check"} :
              \E files : Call(t, k, s, files)
          BY <3>1 DEF AddFolder, AddOne, ImportFile, CompactIdle, Kind
        <4> QED
          BY <4>1, CallSays
      <3>2. CASE Begin(t) \/ FileIn(t) \/ Abort(t) \/ Discard(t) \/ Check(t) \/ Round(t)
        BY <3>2, ReturnSays
        DEF TypeOK, Begin, FileIn, Abort, Discard, Check, Round, Goto
      <3>3. CASE \/ Publish(t) \/ Walk(t) \/ AlreadyIn(t) \/ Alone(t) \/ Finish(t)
                 \/ Close(t) \/ Verify(t) \/ Register(t) \/ NothingToReplace(t) \/ GC(t)
        BY <3>3
        DEF Publish, Walk, AlreadyIn, AtFile, Alone, Finish, Close, Verify, Register,
            NothingToReplace, GC, Goto, TypeOK
      <3> QED
        BY <1>6, <3>1, <3>2, <3>3 DEF Starts, Proceeds
    <2> QED
      BY <1>1, <1>2, <2>1, <2>2, DueSays DEF DueBacked
  <1> QED
    BY <1>3, <1>4, <1>5, <1>6

\* Everything the theorem on the contents rests on.
Kept == Control /\ OutBacked /\ MuHeld /\ Uncommitted /\ CountedBacked

\* At the start nothing is counted on.
LEMMA KeptInit == Init => Kept
  <1>1. Init => CountedBacked
    <2> SUFFICES ASSUME Init
                 PROVE  CountedBacked
      OBVIOUS
    <2>1. Due = {}
      BY FilesSay DEF Init, Due, OfJob, NoJob
    <2> QED
      BY <2>1, DueSays DEF Init, DueBacked
  <1> QED
    BY <1>1, ControlInit
    DEF Init, Kept, OutBacked, OutOf, NoJob, MuHeld, Wants, Uncommitted

\* Every step keeps all of it, where nobody removes what an open Add counts on.
LEMMA KeptNext ==
  ASSUME Kept, Reliable, "pending" \notin Races, [Next]_vars
  PROVE  Kept'
  <1> USE DEF Kept
  <1>1. Control' /\ Uncommitted'
    BY ControlNext, UncommittedNext DEF Reliable
  <1>2. CASE UNCHANGED vars
    BY <1>1, <1>2
    DEF OutBacked, OutOf, ToCome, MuHeld, Wants, CountedBacked, Pending, vars
  <1>3. CASE OtherLocks \/ OtherUnlocks
    BY <1>1, <1>3
    DEF OutBacked, OutOf, ToCome, MuHeld, Wants, CountedBacked, Pending,
        OtherLocks, OtherUnlocks, vault
  <1>4. CASE \E t \in Thread : Starts(t) \/ Proceeds(t)
    <2>1. PICK t \in Thread : Starts(t) \/ Proceeds(t)
      BY <1>4
    <2>2. OutBacked'
      BY <2>1, OutOwn, OutOther DEF OutBacked
    <2> QED
      BY <1>1, <2>1, <2>2, MuStays, BackedThread DEF Control
  <1> QED
    BY <1>2, <1>3, <1>4 DEF Next

\* The content of every entry is in the depot, or in the batch that is open
\* (releaseBlocks, finishBatch), where no Commit fails and nobody removes what
\* an open Add counts on.
THEOREM EntriesBacked ==
  ASSUME Reliable, "pending" \notin Races
  PROVE  Spec => []Backed
  <1>1. Kept /\ [Next]_vars => Kept'
    BY KeptNext
  <1>2. Kept => Backed
    BY DEF Kept, CountedBacked, Backed
  <1> QED
    BY <1>1, <1>2, KeptInit, PTL DEF Spec
=============================================================================
