--------------------------- MODULE BatchTypeProof ---------------------------
(***************************************************************************)
(* TypeOK is an invariant of VaultBatch, whatever fails and races.         *)
(***************************************************************************)
EXTENDS BatchInv, TLAPS

\* Where the places of a concatenation come from.
LEMMA ConcatSays ==
  ASSUME NEW a \in Seq(File), NEW b \in Seq(File)
  PROVE  /\ a \o b \in Seq(File) /\ Len(a \o b) = Len(a) + Len(b)
         /\ \A j \in 1..Len(a) : (a \o b)[j] = a[j]
         /\ \A j \in 1..Len(b) : (a \o b)[Len(a) + j] = b[j]
  OBVIOUS

\* What is left when the sequence a before a place and b behind it are joined.
LEMMA JoinSays ==
  ASSUME NEW s \in Seq(File), NEW i \in 1..Len(s),
         NEW a \in Seq(File), NEW b \in Seq(File),
         Len(a) = i - 1, \A k \in 1..(i - 1) : a[k] = s[k],
         Len(b) = Len(s) - i, \A k \in 1..(Len(s) - i) : b[k] = s[k + i]
  PROVE  /\ a \o b \in Seq(File) /\ DOMAIN (a \o b) = 1..(Len(s) - 1)
         /\ \A j, k \in 1..Len(s) :
              (k < i /\ j = k) \/ (k > i /\ j = k - 1) => (a \o b)[j] = s[k]
  <1>1. a \o b \in Seq(File) /\ Len(a \o b) = Len(s) - 1
    <2>1. a \o b \in Seq(File) /\ Len(a \o b) = Len(a) + Len(b)
      BY ConcatSays
    <2>2. Len(a) + Len(b) = Len(s) - 1
      OBVIOUS
    <2> QED
      BY <2>1, <2>2
  <1>2. ASSUME NEW k \in 1..Len(s), k < i
        PROVE  (a \o b)[k] = s[k]
    <2>1. \A j \in 1..Len(a) : (a \o b)[j] = a[j]
      BY ConcatSays
    <2> QED
      BY <2>1, <1>2
  <1>3. ASSUME NEW j \in 1..Len(s), NEW k \in 1..Len(s), k > i, j = k - 1
        PROVE  (a \o b)[j] = s[k]
    <2>1. PICK n \in 1..Len(b) : j = Len(a) + n /\ k = n + i
      <3>1. j - i + 1 \in 1..Len(b) /\ j = Len(a) + (j - i + 1) /\ k = (j - i + 1) + i
        BY <1>3
      <3> QED
        BY <3>1
    <2>2. \A q \in 1..Len(b) : (a \o b)[Len(a) + q] = b[q]
      BY ConcatSays
    <2>3. (a \o b)[Len(a) + n] = b[n]
      BY <2>2
    <2>4. b[n] = s[n + i]
      OBVIOUS
    <2> QED
      BY <2>1, <2>3, <2>4
  <1>4. DOMAIN (a \o b) = 1..(Len(s) - 1)
    BY <1>1
  <1> QED
    BY <1>1, <1>2, <1>3, <1>4

\* RemoveAt takes away the place it is given, and nothing else.
LEMMA RemoveAtSays ==
  ASSUME NEW s \in Seq(File), NEW i \in DOMAIN s
  PROVE  /\ RemoveAt(s, i) \in Seq(File)
         /\ \A j \in DOMAIN RemoveAt(s, i) : \E k \in DOMAIN s : RemoveAt(s, i)[j] = s[k]
         /\ \A k \in DOMAIN s : k # i => \E j \in DOMAIN RemoveAt(s, i) : RemoveAt(s, i)[j] = s[k]
  <1>1. PICK a \in Seq(File), b \in Seq(File) :
          /\ RemoveAt(s, i) = a \o b
          /\ Len(a) = i - 1 /\ \A k \in 1..(i - 1) : a[k] = s[k]
          /\ Len(b) = Len(s) - i /\ \A k \in 1..(Len(s) - i) : b[k] = s[k + i]
    <2> DEFINE x == SubSeq(s, 1, i - 1)
               y == SubSeq(s, i + 1, Len(s))
    <2>1. /\ x \in Seq(File) /\ Len(x) = i - 1 /\ \A k \in 1..(i - 1) : x[k] = s[k]
          /\ y \in Seq(File) /\ Len(y) = Len(s) - i /\ \A k \in 1..(Len(s) - i) : y[k] = s[k + i]
      OBVIOUS
    <2>2. RemoveAt(s, i) = x \o y
      BY DEF RemoveAt
    <2> HIDE DEF x, y
    <2> QED
      BY <2>1, <2>2
  <1>2. i \in 1..Len(s) /\ Len(s) \in Nat
    OBVIOUS
  <1>3. /\ a \o b \in Seq(File) /\ DOMAIN (a \o b) = 1..(Len(s) - 1)
        /\ \A j, k \in 1..Len(s) :
             (k < i /\ j = k) \/ (k > i /\ j = k - 1) => (a \o b)[j] = s[k]
    BY <1>1, <1>2, JoinSays
  <1>4. PICK r \in Seq(File) :
          /\ RemoveAt(s, i) = r /\ DOMAIN r = 1..(Len(s) - 1)
          /\ \A j, k \in 1..Len(s) :
               (k < i /\ j = k) \/ (k > i /\ j = k - 1) => r[j] = s[k]
    BY <1>1, <1>3
  <1>5. ASSUME NEW j \in DOMAIN r
        PROVE  \E k \in DOMAIN s : r[j] = s[k]
    <2>1. PICK k \in 1..Len(s) : (k < i /\ j = k) \/ (k > i /\ j = k - 1)
      <3>1. CASE j < i
        <4>1. j \in 1..Len(s) /\ j # i
          BY <3>1, <1>2, <1>4
        <4> QED
          BY <3>1, <4>1
      <3>2. CASE ~(j < i)
        <4>1. j + 1 \in 1..Len(s) /\ j + 1 > i /\ j = (j + 1) - 1
          BY <3>2, <1>2, <1>4
        <4> QED
          BY <4>1
      <3> QED
        BY <3>1, <3>2
    <2>2. j \in 1..Len(s)
      BY <1>2, <1>4
    <2>3. r[j] = s[k]
      BY <2>1, <2>2, <1>4
    <2>4. k \in DOMAIN s
      OBVIOUS
    <2> QED
      BY <2>3, <2>4
  <1>6. ASSUME NEW k \in DOMAIN s, k # i
        PROVE  \E j \in DOMAIN r : r[j] = s[k]
    <2>1. PICK j \in 1..(Len(s) - 1) : (k < i /\ j = k) \/ (k > i /\ j = k - 1)
      <3>1. k < i => k \in 1..(Len(s) - 1)
        BY <1>2
      <3>2. k > i => k - 1 \in 1..(Len(s) - 1)
        BY <1>2
      <3>3. k < i \/ k > i
        BY <1>2, <1>6
      <3> QED
        BY <3>1, <3>2, <3>3
    <2>2. j \in 1..Len(s) /\ k \in 1..Len(s)
      BY <1>2
    <2> QED
      BY <1>4, <1>6, <2>1, <2>2
  <1> QED
    BY <1>4, <1>5, <1>6

\* A job with other fields of the right types is a job.
LEMMA JobFields ==
  ASSUME NEW jobs \in [Thread -> Job], NEW t \in Thread
  PROVE  /\ \A td \in Seq(File), o \in SUBSET File :
              [jobs EXCEPT ![t].todo = td, ![t].out = o] \in [Thread -> Job]
         /\ \A b \in Thread \cup {Nobody}, its \in Seq(Item) :
              [jobs EXCEPT ![t].batch = b, ![t].items = its] \in [Thread -> Job]
         /\ \A b \in Thread \cup {Nobody} :
              [jobs EXCEPT ![t].batch = b] \in [Thread -> Job]
         /\ \A its \in Seq(Item), o \in SUBSET File :
              /\ [jobs EXCEPT ![t].out = o, ![t].items = its] \in [Thread -> Job]
              /\ [jobs EXCEPT ![t].items = its, ![t].out = o] \in [Thread -> Job]
         /\ \A its \in Seq(Item), kept \in Seq(File) :
              [jobs EXCEPT ![t].items = its, ![t].kept = kept] \in [Thread -> Job]
         /\ \A kept \in Seq(File) :
              [jobs EXCEPT ![t].kept = kept] \in [Thread -> Job]
         /\ \A c \in Content \cup {Nobody} :
              [jobs EXCEPT ![t].gone = c] \in [Thread -> Job]
  BY DEF Job

\* A new job is a job.
LEMMA NewJob ==
  ASSUME NEW k \in Kind, NEW files \in Seq(File)
  PROVE  NoJob \in Job /\ [NoJob EXCEPT !.kind = k, !.todo = files] \in Job
  <1>1. NoJob \in Job
    BY DEF NoJob, Job, Kind
  <1>2. \A j \in Job : [j EXCEPT !.kind = k, !.todo = files] \in Job
    BY DEF Job
  <1> QED
    BY <1>1, <1>2

\* A call that starts keeps the types.
LEMMA TypeCall ==
  ASSUME TypeOK, NEW t \in Thread, NEW k \in Kind, NEW s \in Step,
         NEW files \in Seq(File), Call(t, k, s, files)
  PROVE  TypeOK'
  <1>1. [NoJob EXCEPT !.kind = k, !.todo = files] \in Job
    BY NewJob
  <1>2. job' \in [Thread -> Job]
    BY <1>1 DEF TypeOK, Call
  <1> QED
    BY <1>2 DEF TypeOK, Call, Goto, depot, vault

\* The calls that only begin keep the types.
LEMMA TypeStarts ==
  ASSUME TypeOK, NEW t \in Thread,
         AddFolder(t) \/ AddOne(t) \/ ImportFile(t) \/ CompactIdle(t)
  PROVE  TypeOK'
  <1>1. CASE AddFolder(t)
    <2>1. PICK files \in Folders : Call(t, "folder", "begin", files)
      BY <1>1 DEF AddFolder
    <2>2. files \in Seq(File) /\ "folder" \in Kind /\ "begin" \in Step
      BY BatchAssumption DEF Kind, Step
    <2> QED
      BY <2>1, <2>2, TypeCall
  <1>2. CASE AddOne(t)
    <2>1. PICK f \in File : Call(t, "file", "file", <<f>>)
      BY <1>2 DEF AddOne
    <2>2. <<f>> \in Seq(File) /\ "file" \in Kind /\ "file" \in Step
      BY DEF Kind, Step
    <2> QED
      BY <2>1, <2>2, TypeCall
  <1>3. CASE ImportFile(t)
    <2>1. PICK f \in File : Call(t, "import", "replace", <<f>>)
      BY <1>3 DEF ImportFile
    <2>2. <<f>> \in Seq(File) /\ "import" \in Kind /\ "replace" \in Step
      BY DEF Kind, Step
    <2> QED
      BY <2>1, <2>2, TypeCall
  <1>4. CASE CompactIdle(t)
    <2>1. <<>> \in Seq(File) /\ "compact" \in Kind /\ "check" \in Step
      BY DEF Kind, Step
    <2> QED
      BY <1>4, <2>1, TypeCall DEF CompactIdle
  <1> QED
    BY <1>1, <1>2, <1>3, <1>4

\* A call that returns keeps the types of what it changes.
LEMMA TypeReturn ==
  ASSUME TypeOK, NEW t \in Thread, Return(t)
  PROVE  /\ pc' \in [Thread -> Step] /\ job' \in [Thread -> Job]
         /\ owed' \subseteq File
  <1>1. NoJob \in Job
    BY DEF NoJob, Job, Kind
  <1>2. job' \in [Thread -> Job]
    BY <1>1 DEF TypeOK, Return
  <1>3. job[t].out \subseteq File
    BY DEF TypeOK, Job
  <1> QED
    BY <1>2, <1>3 DEF TypeOK, Return, Goto, Step

\* The file that an Add is at.
LEMMA TypeThe ==
  ASSUME TypeOK, NEW t \in Thread, job[t].todo # <<>>
  PROVE  /\ The(t) \in File /\ Hash(t) \in Content
         /\ \A done \in BOOLEAN : Advance(t, done) => job' \in [Thread -> Job]
  <1>1. job[t].todo \in Seq(File) /\ job[t].out \subseteq File
    BY DEF TypeOK, Job
  <1>2. The(t) \in File /\ Tail(job[t].todo) \in Seq(File)
    BY <1>1 DEF The
  <1>3. Hash(t) \in Content
    BY <1>2, BatchAssumption DEF Hash
  <1>4. ASSUME NEW done \in BOOLEAN, Advance(t, done)
        PROVE  job' \in [Thread -> Job]
    <2> DEFINE o == IF done THEN job[t].out \cup {Head(job[t].todo)} ELSE job[t].out
    <2>1. o \in SUBSET File
      BY <1>1, <1>2 DEF The
    <2>2. job' = [job EXCEPT ![t].todo = Tail(job[t].todo), ![t].out = o]
      BY <1>4 DEF TypeOK, Advance
    <2> HIDE DEF o
    <2> QED
      BY <1>2, <2>1, <2>2, JobFields DEF TypeOK
  <1> QED
    BY <1>2, <1>3, <1>4

\* Begin, Publish and Walk keep the types.
LEMMA TypeBegins ==
  ASSUME TypeOK, NEW t \in Thread, Begin(t) \/ Publish(t) \/ Walk(t)
  PROVE  TypeOK'
  <1>1. CASE Begin(t)
    <2>1. CASE Return(t) /\ UNCHANGED <<lock, queued, seen, stored, vault>>
      BY <2>1, TypeReturn DEF TypeOK, vault
    <2>2. CASE lock' = t /\ Goto(t, "publish")
                 /\ UNCHANGED <<job, owed, queued, seen, stored, vault>>
      BY <2>2 DEF TypeOK, Goto, Step, vault
    <2> QED
      BY <1>1, <2>1, <2>2 DEF Begin
  <1>2. CASE Publish(t)
    BY <1>2 DEF TypeOK, Publish, Goto, Step, depot
  <1>3. CASE Walk(t)
    BY <1>3 DEF TypeOK, Walk, Goto, Step, depot, vault
  <1> QED
    BY <1>1, <1>2, <1>3

\* AlreadyIn, Duplicate and Alone keep the types.
LEMMA TypeNoWrite ==
  ASSUME TypeOK, NEW t \in Thread, AlreadyIn(t) \/ Duplicate(t) \/ Alone(t)
  PROVE  TypeOK'
  <1>1. job[t].todo # <<>>
    BY DEF AlreadyIn, Duplicate, Alone, AtFile
  <1>2. The(t) \in File
    BY <1>1, TypeThe
  <1>3. CASE AlreadyIn(t)
    <2>1. job' \in [Thread -> Job]
      BY <1>1, <1>3, TypeThe DEF AlreadyIn
    <2> QED
      BY <2>1, <1>3 DEF TypeOK, AlreadyIn, depot, vault
  <1>4. CASE Duplicate(t)
    <2>1. job' \in [Thread -> Job]
      BY <1>1, <1>4, TypeThe DEF Duplicate
    <2>2. [file |-> The(t), put |-> FALSE] \in Item
      BY <1>2 DEF Item
    <2>4. Append(pend, [file |-> The(t), put |-> FALSE]) \in Seq(Item)
      BY <2>2 DEF TypeOK
    <2>5. Append(entries, The(t)) \in Seq(File)
      BY <1>2 DEF TypeOK
    <2>3. pend' \in Seq(Item) /\ entries' \in Seq(File)
      BY <2>4, <2>5, <1>4 DEF TypeOK, Duplicate
    <2> QED
      BY <2>1, <2>3, <1>4 DEF TypeOK, Duplicate, depot
  <1>5. CASE Alone(t)
    BY <1>5 DEF TypeOK, Alone, Goto, Step, depot
  <1> QED
    BY <1>3, <1>4, <1>5

\* IntoBatch and PutBlocks keep the types.
LEMMA TypeWrite ==
  ASSUME TypeOK, NEW t \in Thread, job[t].todo # <<>>, IntoBatch(t) \/ PutBlocks(t)
  PROVE  TypeOK'
  <1>1. The(t) \in File /\ Hash(t) \in Content
    BY TypeThe
  <1>5. Append(entries, The(t)) \in Seq(File)
    BY <1>1 DEF TypeOK
  <1>6. /\ queued \cup {Hash(t)} \subseteq Content /\ seen \cup {Hash(t)} \subseteq Content
        /\ stored \cup {Hash(t)} \subseteq Content /\ seen \ queued \subseteq Content
        /\ stored \cup queued \cup {Hash(t)} \subseteq Content
    BY <1>1 DEF TypeOK
  <1>2. job' \in [Thread -> Job]
    <2>1. PICK done \in BOOLEAN : Advance(t, done)
      BY DEF IntoBatch, PutBlocks
    <2> QED
      BY <2>1, TypeThe
  <1>3. CASE IntoBatch(t)
    <2>1. [file |-> The(t), put |-> TRUE] \in Item
      BY <1>1 DEF Item
    <2>6. Append(pend, [file |-> The(t), put |-> TRUE]) \in Seq(Item)
      BY <2>1 DEF TypeOK
    <2>7. /\ active' = active /\ mu' = mu /\ pc' = pc /\ owed' = owed
          /\ lock' = lock
      BY <1>3 DEF IntoBatch, depot
    <2>2. pend' \in {pend, Append(pend, [file |-> The(t), put |-> TRUE])}
      BY <1>3 DEF IntoBatch
    <2>3. entries' \in {entries, Append(entries, The(t))}
      BY <1>3 DEF IntoBatch
    <2>4. /\ queued' \in {queued, queued \cup {Hash(t)}, {}}
          /\ seen' \in {seen, seen \cup {Hash(t)}, seen \ queued}
          /\ stored' \in {stored, stored \cup queued \cup {Hash(t)}}
      BY <1>3 DEF IntoBatch, depot
    <2> QED
      BY <1>2, <1>5, <1>6, <2>2, <2>3, <2>4, <2>6, <2>7 DEF TypeOK
  <1>4. CASE PutBlocks(t)
    <2>1. /\ entries' \in {entries, Append(entries, The(t))}
          /\ stored' \in {stored, stored \cup {Hash(t)}}
          /\ seen' \in {seen, seen \cup {Hash(t)}}
      BY <1>4 DEF PutBlocks
    <2> QED
      BY <1>2, <1>5, <1>6, <2>1, <1>4 DEF TypeOK, PutBlocks, Goto, Step
  <1> QED
    BY <1>3, <1>4

\* What Verify does to the job.
LEMMA VerifySays ==
  ASSUME TypeOK, NEW t \in Thread, Verify(t)
  PROVE  LET item == Head(job[t].items) IN
         \/ /\ Sound(item)
            /\ job' = [job EXCEPT ![t].items = Tail(job[t].items),
                                  ![t].kept = Append(job[t].kept, item.file)]
         \/ job' = [job EXCEPT ![t].items = Tail(job[t].items),
                               ![t].out = job[t].out \ {item.file}]
  BY DEF TypeOK, Verify

\* Finish, Close, Verify and Register keep the types.
LEMMA TypeCloses ==
  ASSUME TypeOK, NEW t \in Thread, Finish(t) \/ Close(t) \/ Verify(t) \/ Register(t)
  PROVE  TypeOK'
  <1> USE DEF Goto, Step
  <1>0. /\ job[t] \in Job /\ job[t].items \in Seq(Item) /\ job[t].kept \in Seq(File)
        /\ job[t].out \in SUBSET File /\ <<>> \in Seq(Item) /\ <<>> \in Seq(File)
    BY DEF TypeOK, Job
  <1>1. CASE Finish(t)
    <2>1. job' \in [Thread -> Job]
      BY <1>1, JobFields DEF TypeOK, Finish
    <2> QED
      BY <2>1, <1>0, <1>1 DEF TypeOK, Finish, depot
  <1>2. CASE Close(t)
    <2>1. job' \in [Thread -> Job]
      <3>1. CASE UNCHANGED job
        BY <3>1 DEF TypeOK
      <3>2. CASE job' = [job EXCEPT ![t].out = {}, ![t].items = <<>>]
        BY <3>2, <1>0, JobFields DEF TypeOK
      <3> QED
        BY <3>1, <3>2, <1>2 DEF Close
    <2>2. stored' \subseteq Content /\ seen' \subseteq Content
      BY <1>2 DEF TypeOK, Close
    <2>3. pc' \in [Thread -> Step]
      BY <1>2 DEF TypeOK, Close
    <2> QED
      BY <2>1, <2>2, <2>3, <1>2 DEF TypeOK, Close, vault
  <1>3. CASE Verify(t)
    <2> DEFINE item == Head(job[t].items)
    <2>1. item \in Item /\ Tail(job[t].items) \in Seq(Item)
      BY <1>0, <1>3 DEF Verify
    <2>2. Append(job[t].kept, item.file) \in Seq(File) /\ job[t].out \ {item.file} \in SUBSET File
      BY <1>0, <2>1 DEF Item
    <2>3. \/ job' = [job EXCEPT ![t].items = Tail(job[t].items),
                              ![t].kept = Append(job[t].kept, item.file)]
          \/ job' = [job EXCEPT ![t].items = Tail(job[t].items),
                              ![t].out = job[t].out \ {item.file}]
      BY <1>3, VerifySays
    <2> HIDE DEF item
    <2>5. job \in [Thread -> Job]
      BY DEF TypeOK
    <2>6. [job EXCEPT ![t].items = Tail(job[t].items),
                      ![t].kept = Append(job[t].kept, item.file)] \in [Thread -> Job]
      BY <2>1, <2>2, <2>5, JobFields
    <2>7. [job EXCEPT ![t].items = Tail(job[t].items),
                      ![t].out = job[t].out \ {item.file}] \in [Thread -> Job]
      BY <2>1, <2>2, <2>5, JobFields
    <2>4. job' \in [Thread -> Job]
      BY <2>3, <2>6, <2>7
    <2> QED
      BY <2>4, <1>3 DEF TypeOK, Verify, depot, vault
  <1>4. CASE Register(t)
    <2>1. job' \in [Thread -> Job]
      <3>1. job' = [job EXCEPT ![t].kept = <<>>]
        BY <1>4 DEF Register
      <3> QED
        BY <1>0, <3>1, JobFields DEF TypeOK
    <2>2. entries' \in Seq(File)
      BY <1>0, <1>4, ConcatSays DEF TypeOK, Register
    <2> QED
      BY <2>1, <2>2, <1>4 DEF TypeOK, Register, depot
  <1> QED
    BY <1>1, <1>2, <1>3, <1>4

\* Abort, Discard, FileIn, Check and Round keep the types.
LEMMA TypeEnds ==
  ASSUME TypeOK, NEW t \in Thread,
         Abort(t) \/ Discard(t) \/ FileIn(t) \/ Check(t) \/ Round(t)
  PROVE  TypeOK'
  <1> USE DEF Goto, Step
  <1>1. CASE Abort(t)
    <2>1. pc' \in [Thread -> Step] /\ job' \in [Thread -> Job] /\ owed' \subseteq File
      <3>1. CASE Return(t)
        BY <3>1, TypeReturn
      <3>2. CASE job' = [job EXCEPT ![t].batch = active] /\ Goto(t, "discard") /\ UNCHANGED owed
        BY <3>2, JobFields DEF TypeOK
      <3> QED
        BY <3>1, <3>2, <1>1 DEF Abort, Taken
    <2>2. <<>> \in Seq(Item)
      OBVIOUS
    <2> QED
      BY <2>1, <2>2, <1>1 DEF TypeOK, Abort, depot
  <1>2. CASE Discard(t)
    BY <1>2, TypeReturn DEF TypeOK, Discard, vault
  <1>3. CASE FileIn(t)
    BY <1>3, TypeReturn DEF TypeOK, FileIn, vault, depot
  <1>4. CASE Check(t)
    <2>1. CASE Return(t)
      BY <2>1, <1>4, TypeReturn DEF TypeOK, Check, vault, depot
    <2>2. CASE Goto(t, "round") /\ UNCHANGED <<job, owed>>
      BY <2>2, <1>4 DEF TypeOK, Check, vault, depot
    <2> QED
      BY <2>1, <2>2, <1>4 DEF Check
  <1>5. CASE Round(t)
    <2>1. CASE Return(t)
      BY <2>1, <1>5, TypeReturn DEF TypeOK, Round, vault, depot
    <2>2. CASE Goto(t, "check") /\ UNCHANGED <<job, owed>>
      BY <2>2, <1>5 DEF TypeOK, Round, vault, depot
    <2> QED
      BY <2>1, <2>2, <1>5 DEF Round
  <1> QED
    BY <1>1, <1>2, <1>3, <1>4, <1>5

\* The jobs after a file is taken out of what they report.
LEMMA NotReportedSays ==
  ASSUME TypeOK, NEW f
  PROVE  /\ NotReported(f) \in [Thread -> Job]
         /\ \A u \in Thread :
              NotReported(f)[u] = [job[u] EXCEPT !.out = @ \ {f}]
  BY DEF TypeOK, NotReported, Job

\* A removal keeps the types.
LEMMA TypeRemoves ==
  ASSUME TypeOK, NEW t \in Thread, NEW i \in DOMAIN entries, NEW s \in Step,
         RemoveLocked(t, i, s)
  PROVE  TypeOK'
  <1> DEFINE c == ContentOf[entries[i]]
             f == entries[i]
  <1>1. c \in Content /\ RemoveAt(entries, i) \in Seq(File)
    <2>1. entries \in Seq(File) /\ entries[i] \in File
      BY DEF TypeOK
    <2> QED
      BY <2>1, RemoveAtSays, BatchAssumption
  <1>2. entries' = RemoveAt(entries, i) /\ owed' \subseteq owed
    BY DEF RemoveLocked, DropEntry
  <1>3. /\ queued' \subseteq queued /\ seen' \subseteq seen /\ stored' \subseteq stored
        /\ mu' \in {mu, t} /\ lock' = lock /\ active' = active /\ pend' = pend
    BY DEF RemoveLocked, RemoveContent
  <1>4. job' = NotReported(f) \/ job' = [NotReported(f) EXCEPT ![t].gone = c]
    BY DEF RemoveLocked
  <1>5. pc' \in [Thread -> Step]
    BY DEF TypeOK, RemoveLocked, Goto, Step
  <1> HIDE DEF c, f
  <1>6. job' \in [Thread -> Job]
    BY <1>1, <1>4, NotReportedSays, JobFields
  <1> QED
    BY <1>1, <1>2, <1>3, <1>5, <1>6 DEF TypeOK

\* RemoveEntry, Replace, NothingToReplace, Release and GC keep the types.
LEMMA TypeForgets ==
  ASSUME TypeOK, NEW t \in Thread,
         \/ RemoveEntry(t) \/ Replace(t) \/ NothingToReplace(t)
         \/ Release(t) \/ GC(t)
  PROVE  TypeOK'
  <1>0. "idle" \in Step /\ "file" \in Step
    BY DEF Step
  <1>1. CASE RemoveEntry(t)
    BY <1>0, <1>1, TypeRemoves DEF RemoveEntry
  <1>2. CASE Replace(t)
    BY <1>0, <1>2, TypeRemoves DEF Replace, AtPath
  <1>3. CASE NothingToReplace(t)
    BY <1>3 DEF TypeOK, NothingToReplace, Goto, Step, depot, vault
  <1>4. CASE Release(t)
    BY <1>4 DEF TypeOK, Release, RemoveContent, Goto, Step, vault
  <1>5. CASE GC(t)
    <2>1. job' = [job EXCEPT ![t].gone = Nobody]
      BY <1>5 DEF GC
    <2>2. job' \in [Thread -> Job]
      BY <2>1, JobFields DEF TypeOK
    <2>3. pc' \in [Thread -> Step]
      BY <1>5 DEF TypeOK, GC, Goto, Step
    <2> QED
      BY <2>2, <2>3, <1>5 DEF TypeOK, GC, depot
  <1> QED
    BY <1>1, <1>2, <1>3, <1>4, <1>5

----------------------------------------------------------------------------
\* Two jobs that differ in what they report at most.
Alike(j, k) ==
  /\ k.kind = j.kind /\ k.todo = j.todo /\ k.batch = j.batch
  /\ k.items = j.items /\ k.kept = j.kept /\ k.gone = j.gone
  /\ k.out \subseteq j.out

\* A step of a thread leaves the other threads where they are; of their jobs
\* only what they report may get smaller.
LEMMA OthersStay ==
  ASSUME TypeOK, NEW t \in Thread, Starts(t) \/ Proceeds(t), NEW u \in Thread, u # t
  PROVE  pc'[u] = pc[u] /\ Alike(job[u], job'[u])
  <1>0. Alike(job[u], job[u])
    BY DEF Alike
  <1>1. ASSUME NEW i, NEW s, RemoveLocked(t, i, s)
        PROVE  pc'[u] = pc[u] /\ Alike(job[u], job'[u])
    <2> DEFINE f == entries[i]
    <2>1. /\ NotReported(f) \in [Thread -> Job]
          /\ NotReported(f)[u] = [job[u] EXCEPT !.out = @ \ {f}]
      BY NotReportedSays
    <2>2. \/ job' = NotReported(f)
          \/ job' = [NotReported(f) EXCEPT ![t].gone = ContentOf[entries[i]]]
      BY <1>1 DEF RemoveLocked
    <2>3. job'[u] = NotReported(f)[u]
      BY <2>1, <2>2
    <2>4. job[u] \in Job
      BY DEF TypeOK
    <2>5. pc'[u] = pc[u]
      BY <1>1 DEF TypeOK, RemoveLocked, Goto
    <2> HIDE DEF f
    <2>6. Alike(job[u], [job[u] EXCEPT !.out = @ \ {f}])
      BY <2>4 DEF Alike, Job
    <2> QED
      BY <2>1, <2>3, <2>5, <2>6
  <1>2. CASE RemoveEntry(t) \/ Replace(t)
    BY <1>1, <1>2 DEF RemoveEntry, Replace
  <1>3. CASE AddFolder(t) \/ AddOne(t) \/ ImportFile(t) \/ CompactIdle(t)
    BY <1>0, <1>3 DEF TypeOK, AddFolder, AddOne, ImportFile, CompactIdle, Call, Goto
  <1>4. CASE Begin(t) \/ Publish(t) \/ Walk(t)
    BY <1>0, <1>4 DEF TypeOK, Begin, Publish, Walk, Return, Goto
  <1>5. CASE AlreadyIn(t) \/ Duplicate(t) \/ IntoBatch(t) \/ Alone(t) \/ PutBlocks(t)
    BY <1>0, <1>5
    DEF TypeOK, AlreadyIn, Duplicate, IntoBatch, Alone, PutBlocks, Advance, Goto
  <1>6. CASE FileIn(t) \/ Finish(t) \/ Close(t) \/ Verify(t) \/ Register(t)
    BY <1>0, <1>6
    DEF TypeOK, FileIn, Finish, Close, Verify, Register, Return, Goto
  <1>7. CASE Abort(t) \/ Discard(t) \/ Check(t) \/ Round(t)
    BY <1>0, <1>7 DEF TypeOK, Abort, Discard, Check, Round, Return, Goto
  <1>8. CASE NothingToReplace(t) \/ Release(t) \/ GC(t)
    BY <1>0, <1>8 DEF TypeOK, NothingToReplace, Release, GC, Goto
  <1> QED
    BY <1>2, <1>3, <1>4, <1>5, <1>6, <1>7, <1>8 DEF Starts, Proceeds


\* A step of a thread keeps TypeOK and HasFile.
LEMMA TypeThread ==
  ASSUME TypeOK, HasFile, NEW t \in Thread, Starts(t) \/ Proceeds(t)
  PROVE  TypeOK' /\ HasFile'
  <1>1. TypeOK'
    <2>1. CASE IntoBatch(t) \/ PutBlocks(t)
      <3>1. job[t].todo # <<>>
        BY <2>1 DEF HasFile, IntoBatch, AtFile, PutBlocks
      <3> QED
        BY <2>1, <3>1, TypeWrite
    <2> QED
      BY <2>1, TypeStarts, TypeForgets, TypeBegins, TypeNoWrite, TypeCloses, TypeEnds
      DEF Starts, Proceeds
  <1>2. pc'[t] = "put" => job'[t].todo # <<>>
    <2>1. CASE Alone(t)
      BY <2>1 DEF Alone, AtFile
    <2>2. CASE AlreadyIn(t) \/ Duplicate(t) \/ IntoBatch(t)
      BY <2>2 DEF AlreadyIn, Duplicate, IntoBatch, AtFile
    <2>3. CASE ~Alone(t) /\ ~(AlreadyIn(t) \/ Duplicate(t) \/ IntoBatch(t))
      <3>1. pc'[t] # "put"
        BY <2>3
        DEF TypeOK, Starts, Proceeds, Goto, Return, AddFolder, AddOne, ImportFile,
            CompactIdle, RemoveEntry, Call, Begin, Publish, Walk, PutBlocks, FileIn,
            Finish, Close, Verify, Register, Abort, Discard, Replace, RemoveLocked,
            NothingToReplace, Release, GC, Check, Round
      <3> QED
        BY <3>1
    <2> QED
      BY <2>1, <2>2, <2>3
  <1>3. \A u \in Thread \ {t} : pc'[u] = pc[u] /\ job'[u].todo = job[u].todo
    BY OthersStay DEF Alike
  <1> QED
    BY <1>1, <1>2, <1>3 DEF HasFile

\* Every variable of the calls has a value of its type, whatever fails and
\* whatever races.
THEOREM BatchTypeCorrect == Spec => []TypeOK
  <1>1. Init => TypeOK /\ HasFile
    <2>1. NoJob \in Job
      BY DEF NoJob, Job, Kind
    <2> QED
      BY <2>1 DEF Init, TypeOK, HasFile, Step
  <1>2. TypeOK /\ HasFile /\ [Next]_vars => (TypeOK /\ HasFile)'
    <2> SUFFICES ASSUME TypeOK, HasFile, [Next]_vars
                 PROVE  TypeOK' /\ HasFile'
      OBVIOUS
    <2>1. CASE UNCHANGED vars
      BY <2>1 DEF TypeOK, HasFile, vars
    <2>2. CASE OtherLocks \/ OtherUnlocks
      BY <2>2 DEF TypeOK, HasFile, OtherLocks, OtherUnlocks, vault
    <2>3. CASE \E t \in Thread : Starts(t) \/ Proceeds(t)
      BY <2>3, TypeThread
    <2> QED
      BY <2>1, <2>2, <2>3 DEF Next
  <1> QED
    BY <1>1, <1>2, PTL DEF Spec
=============================================================================
