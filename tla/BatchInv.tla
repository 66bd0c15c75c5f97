------------------------------ MODULE BatchInv ------------------------------
(***************************************************************************)
(* The invariants of VaultBatch that its properties rest on: who has the   *)
(* depot's lock and who the batch, who waits for whom, what a batch leaves *)
(* behind, and what the calls count on.                                    *)
(***************************************************************************)
EXTENDS VaultBatch

\* Steps of an Add of a folder only; at "file" there are other calls, too.
FolderStep == {"begin", "publish", "walk", "close", "verify", "abort", "discard"}

\* Whoever is about to put a file in the depot alone has a file to put.
HasFile == \A t \in Thread : pc[t] = "put" => job[t].todo # <<>>

\* One folder is added at a time.
OneFolder ==
  /\ \A t \in Thread : pc[t] \in FolderStep => Batched(t)
  /\ \A t \in Thread : Batched(t) => pc[t] \in FolderStep \cup {"file"}
  /\ \A t, u \in Thread : Batched(t) /\ Batched(u) => t = u

\* The Add of a folder has the depot's lock from Begin to Close or Abort, and
\* its batch is the published one while it walks and goes from file to file.
LockHeld ==
  /\ \A t \in Thread : pc[t] \in {"publish", "close", "discard"} => lock = t
  /\ \A t \in Thread : pc[t] = "walk" \/ (pc[t] = "file" /\ Batched(t)) => active = t
  /\ active # Nobody => /\ lock = active /\ Batched(active)
                        /\ pc[active] \in {"walk", "file", "abort"}
  /\ lock \in Thread => \/ pc[lock] \in {"publish", "close", "discard"}
                        \/ active = lock

\* Whoever wants the depot with s.mu held found no batch, and until it has
\* been in the depot no batch is published or about to be.
Waiting ==
  \A t \in Thread : Wants(t) => mu = t /\ active = Nobody /\ ~Publishing

Files(s)     == {s[i] : i \in DOMAIN s}
ItemFiles(s) == {s[i].file : i \in DOMAIN s}

\* Files that the Add of a folder is still going to register.
ToCome(t) ==
  ItemFiles(job[t].items) \cup Files(job[t].kept)
    \cup (IF active = t THEN ItemFiles(pend) ELSE {})

\* What a call is going to report has its entry, or is still to come.
OutOf(t) ==
  /\ job[t].out \subseteq Files(entries) \cup ToCome(t)
  /\ pc[t] # "verify" => job[t].kept = <<>>
  /\ pc[t] \notin {"close", "verify"} => job[t].items = <<>>
  /\ \/ pc[t] \in {"idle", "begin", "publish", "walk", "discard", "replace", "release", "gc"}
     \/ pc[t] = "abort" /\ active = t
     => job[t].out = {}

OutBacked == \A t \in Thread : OutOf(t)

\* Only the files of an Add of a folder are in the batch and not committed,
\* and nothing else is ahead of the depot.
Uncommitted ==
  /\ active = Nobody => pend = <<>>
  /\ seen \subseteq queued
  /\ queued # {} => lock \in Thread /\ pc[lock] \in {"file", "close"}

\* s.mu is the thread's that wants the depot with s.mu held.
MuHeld == \A t \in Thread : Wants(t) => mu = t

\* What an entry has, or an open Add counts on, is in the depot or the batch,
\* and what is being removed is neither.
CountedBacked ==
  /\ Contents(entries) \cup Pending \subseteq stored \cup queued
  /\ \A t \in Thread :
       pc[t] = "release" => job[t].gone \notin Contents(entries) \cup Pending
=============================================================================
