---------------------------- MODULE ReaderProof ----------------------------
(***************************************************************************)
(* The properties of DepotReader, for any number of readers, contents,     *)
(* segments and inodes.  TypeOK holds whatever races there are; ReadsRight *)
(* needs that no record stands in another one's place and no segment       *)
(* number is given twice; CacheSound needs the latter; Served needs that   *)
(* there is no race.                                                       *)
(***************************************************************************)
EXTENDS ReaderInv, FiniteSetTheorems, WellFoundedInduction, TLAPS

----------------------------------------------------------------------------
(* Maxima, and sets as sequences.                                          *)

\* The pairs of naturals in their order, as a relation.
Below == {p \in Nat \X Nat : p[1] < p[2]}

\* A set of naturals that is not empty has a least one.
LEMMA Minimum ==
  ASSUME NEW T, T \subseteq Nat, T # {}
  PROVE  \E x \in T : \A y \in T : x <= y
  <1>1. IsWellFoundedOn(Below, Nat)
    BY NatLessThanWellFounded DEF OpToRel, Below
  <1>2. PICK x \in T : \A y \in T : ~ (<<y, x>> \in Below)
    BY <1>1, WFMin
  <1>3. ASSUME NEW y \in T, y < x
        PROVE  FALSE
    <2>1. <<y, x>> \in Below
      <3>1. x \in Nat /\ y \in Nat
        OBVIOUS
      <3> QED
        BY <3>1, <1>3 DEF Below
    <2> QED
      BY <2>1, <1>2, Zenon
  <1> QED
    BY <1>3

\* Min and Max of a set of naturals, the latter if it is bounded.
LEMMA MinSays ==
  ASSUME NEW S, S \subseteq Nat, S # {}
  PROVE  Min(S) \in S /\ \A y \in S : Min(S) <= y
  BY Minimum DEF Min

\* The greatest member of a bounded set is in it and above all of it.
LEMMA MaxSays ==
  ASSUME NEW S, NEW n \in Nat, S \subseteq 0 .. n, S # {}
  PROVE  Max(S) \in S /\ \A y \in S : y <= Max(S)
  <1> DEFINE T == {k \in 0 .. n : n - k \in S}
  <1>1. T \subseteq Nat /\ T # {}
    <2>1. PICK x \in S : TRUE
      OBVIOUS
    <2>2. x \in 0 .. n
      OBVIOUS
    <2>3. n - x \in 0 .. n /\ n - (n - x) = x
      BY <2>2
    <2>4. n - x \in T
      BY <2>3
    <2>5. \A k \in 0 .. n : k \in Nat
      OBVIOUS
    <2>6. T \subseteq Nat
      BY <2>5, Zenon
    <2> HIDE DEF T
    <2> QED
      BY <2>4, <2>6
  <1>2. PICK m \in T : \A y \in T : m <= y
    <2> HIDE DEF T
    <2> QED
      BY <1>1, Minimum
  <1>3. \A y \in S : n - m >= y
    <2> TAKE y \in S
    <2>1. n - y \in 0 .. n /\ n - (n - y) = y /\ y \in Nat /\ m \in 0 .. n
      OBVIOUS
    <2>2. m <= n - y
      BY <2>1, <1>2
    <2> QED
      BY <2>1, <2>2
  <1>4. n - m \in S
    OBVIOUS
  <1>5. Max(S) \in S /\ \A y \in S : Max(S) >= y
    BY <1>3, <1>4 DEF Max
  <1>6. \A y \in S : y \in Nat
    OBVIOUS
  <1> QED
    BY <1>5, <1>6

\* A sequence of all of a finite set of contents, each once.
IsListOf(s, S) ==
  /\ s \in Seq(Content) /\ Len(s) = Cardinality(S)
  /\ \A i \in DOMAIN s : s[i] \in S
  /\ \A i, k \in DOMAIN s : s[i] = s[k] => i = k
  /\ \A c \in S : \E i \in DOMAIN s : s[i] = c

\* An injection of 1 .. Cardinality(S) into S is one.
LEMMA InjectionIsList ==
  ASSUME NEW S \in SUBSET Content, NEW s \in [1 .. Cardinality(S) -> S],
         \A i, k \in 1 .. Cardinality(S) : s[i] = s[k] => i = k
  PROVE  IsListOf(s, S)
  <1>1. IsFiniteSet(S) /\ Cardinality(S) \in Nat
    BY FS_Subset, FS_CardinalityType, ReaderAssumption
  <1>2. s \in Injection(1 .. Cardinality(S), S)
    BY DEF Injection, IsInjective
  <1>3. Cardinality(1 .. Cardinality(S)) = Cardinality(S)
    BY <1>1, FS_Interval
  <1>4. s \in Surjection(1 .. Cardinality(S), S)
    BY <1>1, <1>2, <1>3, FS_Injection
  <1> QED
    BY <1>1, <1>4 DEF Surjection, IsListOf

\* SetToSeq and SetToSeqs give such sequences.
LEMMA SetToSeqSays ==
  ASSUME NEW S \in SUBSET Content
  PROVE  IsListOf(SetToSeq(S), S) /\ \A s \in SetToSeqs(S) : IsListOf(s, S)
  <1>1. IsFiniteSet(S)
    BY FS_Subset, ReaderAssumption
  <1>2. ExistsBijection(1 .. Cardinality(S), S)
    BY <1>1, FS_CardinalityType
  <1>3. \E f \in [1 .. Cardinality(S) -> S] : IsInjective(f)
    BY <1>2 DEF ExistsBijection, Bijection, Injection
  <1>4. SetToSeq(S) \in [1 .. Cardinality(S) -> S] /\ IsInjective(SetToSeq(S))
    BY <1>3 DEF SetToSeq
  <1>5. IsListOf(SetToSeq(S), S)
    BY <1>4, InjectionIsList DEF IsInjective
  <1>6. ASSUME NEW s \in SetToSeqs(S)
        PROVE  IsListOf(s, S)
    BY <1>6, InjectionIsList DEF SetToSeqs
  <1> QED
    BY <1>5, <1>6

----------------------------------------------------------------------------
(* What the logs say.                                                      *)

\* LastFor is the last record for c behind the first n, if there is one.
LEMMA LastForSays ==
  ASSUME NEW log, Len(log) \in Nat, NEW n \in Nat, NEW c
  PROVE  \/ /\ LastFor(log, n, c) = 0
            /\ \A k \in n + 1 .. Len(log) : log[k].c # c
         \/ /\ LastFor(log, n, c) \in n + 1 .. Len(log)
            /\ log[LastFor(log, n, c)].c = c
            /\ \A k \in LastFor(log, n, c) + 1 .. Len(log) : log[k].c # c
  <1> DEFINE I == {i \in n + 1 .. Len(log) : log[i].c = c}
             S == {0} \cup I
  <1>1. S \subseteq 0 .. Len(log) /\ S # {}
    OBVIOUS
  <1>2. LastFor(log, n, c) = Max(S)
    BY DEF LastFor
  <1>3. Max(S) \in S /\ \A y \in S : y <= Max(S)
    <2> HIDE DEF S
    <2> QED
      BY <1>1, MaxSays
  <1>4. Max(S) \in Nat
    BY <1>1, <1>3
  <1>5. ASSUME NEW k \in n + 1 .. Len(log), log[k].c = c
        PROVE  k <= Max(S)
    <2>1. k \in S
      BY <1>5
    <2> HIDE DEF S
    <2> QED
      BY <1>3, <2>1
  <1>6. Max(S) = 0 \/ (Max(S) \in n + 1 .. Len(log) /\ log[Max(S)].c = c)
    BY <1>3
  <1> HIDE DEF S
  <1>7. CASE Max(S) = 0
    <2>1. \A k \in n + 1 .. Len(log) : log[k].c # c
      BY <1>5, <1>7
    <2> QED
      BY <1>2, <1>7, <2>1
  <1>8. CASE Max(S) # 0
    <2>1. \A k \in Max(S) + 1 .. Len(log) : k \in n + 1 .. Len(log) /\ ~(k <= Max(S))
      BY <1>4, <1>6, <1>8
    <2>2. \A k \in Max(S) + 1 .. Len(log) : log[k].c # c
      BY <1>5, <2>1
    <2> QED
      BY <1>2, <1>6, <1>8, <2>2
  <1> QED
    BY <1>7, <1>8

\* What is known of the first n records, and then the rest, is what the whole
\* of the log says.
LEMMA RecipesSay ==
  ASSUME rlog \in Seq(Recipe), NEW n \in Nat, NEW known \in [Content -> Nat]
  PROVE  /\ Recipes(known, n) \in [Content -> Nat]
         /\ n <= Len(rlog) =>
              \A c \in Content : SaysRecipe(rlog, n, c, known[c]) =>
                SaysRecipe(rlog, Len(rlog), c, Recipes(known, n)[c])
  <1>1. Len(rlog) \in Nat
    OBVIOUS
  <1>2. ASSUME NEW c \in Content
        PROVE  /\ Recipes(known, n)[c] \in Nat
               /\ n <= Len(rlog) /\ SaysRecipe(rlog, n, c, known[c]) =>
                    SaysRecipe(rlog, Len(rlog), c, Recipes(known, n)[c])
    <2> DEFINE i == LastFor(rlog, n, c)
               r == Recipes(known, n)[c]
    <2>1. r = IF i = 0 THEN known[c] ELSE IF rlog[i].put THEN i ELSE 0
      BY DEF Recipes
    <2>2. \/ i = 0 /\ \A k \in n + 1 .. Len(rlog) : rlog[k].c # c
          \/ /\ i \in n + 1 .. Len(rlog) /\ rlog[i].c = c
             /\ \A k \in i + 1 .. Len(rlog) : rlog[k].c # c
      BY <1>1, LastForSays
    <2> HIDE DEF i, r
    <2>3. CASE i = 0 /\ \A k \in n + 1 .. Len(rlog) : rlog[k].c # c
      <3>1. r = known[c]
        BY <2>1, <2>3
      <3>2. ASSUME n <= Len(rlog), SaysRecipe(rlog, n, c, known[c])
            PROVE  SaysRecipe(rlog, Len(rlog), c, r)
        <4>1. \A k \in 1 .. Len(rlog) : k \in 1 .. n \/ k \in n + 1 .. Len(rlog)
          OBVIOUS
        <4>2. CASE known[c] = 0 /\ NoneIn(rlog, n, c)
          BY <2>3, <3>1, <4>1, <4>2 DEF SaysRecipe, NoneIn
        <4>3. ASSUME NEW k \in 1 .. n, LastIn(rlog, n, c, k),
                     known[c] = IF rlog[k].put THEN k ELSE 0
              PROVE  SaysRecipe(rlog, Len(rlog), c, r)
          <5>1. k \in 1 .. Len(rlog)
            BY <3>2
          <5>2. \A m \in k + 1 .. Len(rlog) : m \in k + 1 .. n \/ m \in n + 1 .. Len(rlog)
            OBVIOUS
          <5>3. LastIn(rlog, Len(rlog), c, k)
            BY <4>3, <5>1, <5>2, <2>3 DEF LastIn
          <5> QED
            BY <5>1, <5>3, <3>1, <4>3 DEF SaysRecipe
        <4> QED
          BY <3>2, <4>2, <4>3 DEF SaysRecipe
      <3> QED
        BY <3>1, <3>2 DEF r
    <2>4. CASE /\ i \in n + 1 .. Len(rlog) /\ rlog[i].c = c
               /\ \A k \in i + 1 .. Len(rlog) : rlog[k].c # c
      <3>1. i \in 1 .. Len(rlog) /\ i # 0
        BY <2>4
      <3>2. LastIn(rlog, Len(rlog), c, i)
        BY <2>4, <3>1 DEF LastIn
      <3>3. r = IF rlog[i].put THEN i ELSE 0
        BY <2>1, <3>1
      <3>4. SaysRecipe(rlog, Len(rlog), c, r)
        BY <3>1, <3>2, <3>3 DEF SaysRecipe
      <3> QED
        BY <3>1, <3>3, <3>4 DEF r
    <2> QED
      BY <2>2, <2>3, <2>4
  <1>3. Recipes(known, n) \in [Content -> Nat]
    <2>1. Recipes(known, n) = [c \in Content |-> Recipes(known, n)[c]]
      BY DEF Recipes
    <2> QED
      BY <2>1, <1>2
  <1> QED
    BY <1>2, <1>3

\* The same of index.log.
LEMMA PlacesSay ==
  ASSUME ilog \in Seq(Index), NEW n \in Nat, NEW known \in [Content -> Loc \cup {NoLoc}]
  PROVE  /\ Places(known, n) \in [Content -> Loc \cup {NoLoc}]
         /\ n <= Len(ilog) =>
              \A c \in Content : SaysPlace(ilog, n, c, known[c]) =>
                SaysPlace(ilog, Len(ilog), c, Places(known, n)[c])
  <1>1. Len(ilog) \in Nat
    OBVIOUS
  <1>2. ASSUME NEW c \in Content
        PROVE  /\ Places(known, n)[c] \in Loc \cup {NoLoc}
               /\ n <= Len(ilog) /\ SaysPlace(ilog, n, c, known[c]) =>
                    SaysPlace(ilog, Len(ilog), c, Places(known, n)[c])
    <2> DEFINE i == LastFor(ilog, n, c)
               r == Places(known, n)[c]
    <2>1. r = IF i = 0 THEN known[c] ELSE ilog[i].loc
      BY DEF Places
    <2>2. \/ i = 0 /\ \A k \in n + 1 .. Len(ilog) : ilog[k].c # c
          \/ /\ i \in n + 1 .. Len(ilog) /\ ilog[i].c = c
             /\ \A k \in i + 1 .. Len(ilog) : ilog[k].c # c
      BY <1>1, LastForSays
    <2> HIDE DEF i, r
    <2>3. CASE i = 0 /\ \A k \in n + 1 .. Len(ilog) : ilog[k].c # c
      <3>1. r = known[c]
        BY <2>1, <2>3
      <3>2. ASSUME n <= Len(ilog), SaysPlace(ilog, n, c, known[c])
            PROVE  SaysPlace(ilog, Len(ilog), c, r)
        <4>1. \A k \in 1 .. Len(ilog) : k \in 1 .. n \/ k \in n + 1 .. Len(ilog)
          OBVIOUS
        <4>2. CASE known[c] = NoLoc /\ NoneIn(ilog, n, c)
          BY <2>3, <3>1, <4>1, <4>2 DEF SaysPlace, NoneIn
        <4>3. ASSUME NEW k \in 1 .. n, LastIn(ilog, n, c, k), known[c] = ilog[k].loc
              PROVE  SaysPlace(ilog, Len(ilog), c, r)
          <5>1. k \in 1 .. Len(ilog)
            BY <3>2
          <5>2. \A m \in k + 1 .. Len(ilog) : m \in k + 1 .. n \/ m \in n + 1 .. Len(ilog)
            OBVIOUS
          <5>3. LastIn(ilog, Len(ilog), c, k)
            BY <4>3, <5>1, <5>2, <2>3 DEF LastIn
          <5> QED
            BY <5>1, <5>3, <3>1, <4>3 DEF SaysPlace
        <4> QED
          BY <3>2, <4>2, <4>3 DEF SaysPlace
      <3> QED
        BY <3>1, <3>2 DEF r
    <2>4. CASE /\ i \in n + 1 .. Len(ilog) /\ ilog[i].c = c
               /\ \A k \in i + 1 .. Len(ilog) : ilog[k].c # c
      <3>1. i \in 1 .. Len(ilog) /\ i # 0
        BY <2>4
      <3>2. LastIn(ilog, Len(ilog), c, i)
        BY <2>4, <3>1 DEF LastIn
      <3>3. r = ilog[i].loc
        BY <2>1, <3>1
      <3>4. SaysPlace(ilog, Len(ilog), c, r)
        BY <3>1, <3>2, <3>3 DEF SaysPlace
      <3>5. ilog[i] \in Index
        BY <3>1
      <3>6. r \in Loc
        BY <3>3, <3>5 DEF Index
      <3> QED
        BY <3>4, <3>6 DEF r
    <2> QED
      BY <2>2, <2>3, <2>4
  <1>3. Places(known, n) \in [Content -> Loc \cup {NoLoc}]
    <2>1. Places(known, n) = [c \in Content |-> Places(known, n)[c]]
      BY DEF Places
    <2> QED
      BY <2>1, <1>2
  <1> QED
    BY <1>2, <1>3

\* Of a log of which nothing has been read nothing is known.
LEMMA NothingRead ==
  ASSUME NEW log, NEW c \in Content
  PROVE  /\ SaysRecipe(log, 0, c, NoRecipe[c]) /\ SaysPlace(log, 0, c, Nowhere[c])
         /\ NoRecipe \in [Content -> Nat] /\ Nowhere \in [Content -> Loc \cup {NoLoc}]
  BY DEF SaysRecipe, SaysPlace, NoneIn, NoRecipe, Nowhere

\* The writer knows the whole of index.log.
LEMMA PlaceSays ==
  ASSUME ilog \in Seq(Index)
  PROVE  /\ Place \in [Content -> Loc \cup {NoLoc}]
         /\ \A c \in Content : SaysPlace(ilog, Len(ilog), c, Place[c])
  <1>1. \A c \in Content : SaysPlace(ilog, 0, c, Nowhere[c])
    BY NothingRead
  <1>2. Nowhere \in [Content -> Loc \cup {NoLoc}]
    BY DEF Nowhere
  <1> QED
    BY <1>1, <1>2, PlacesSay DEF Place

----------------------------------------------------------------------------
(* Types.                                                                  *)

DiskType ==
  /\ rlog \in Seq(Recipe) /\ ilog \in Seq(Index)
  /\ rino \in 1 .. MaxInode /\ iino \in 1 .. MaxInode
  /\ segs \in [Seg -> 0 .. Len(files)] /\ files \in Seq(Seq(Content))
  /\ phase \in {"idle", "swap", "delete"} /\ victims \subseteq Seg
  /\ Numbered

ProcessType ==
  /\ mem \in Memory
  /\ fds \in [Seg -> 0 .. Len(files)]
  /\ cache \in Seq(Frame) /\ Len(cache) <= CacheMax

ReadType ==
  /\ pc \in [Thread -> Step] /\ job \in [Thread -> Job]
  /\ Located

TypeInv == DiskType /\ ProcessType /\ ReadType

\* TypeInv, file by file, is the three invariants that it was cut from.
LEMMA TypeInvSays == TypeInv <=> TypeOK /\ Numbered /\ Located
  BY DEF TypeInv, DiskType, ProcessType, ReadType, TypeOK, Memory

\* What a refresh leaves in memory.
LEMMA RefreshedSays ==
  ASSUME rlog \in Seq(Recipe), ilog \in Seq(Index),
         rino \in 1 .. MaxInode, iino \in 1 .. MaxInode, NEW m \in Memory
  PROVE  /\ Refreshed(m) \in Memory
         /\ Refreshed(m).roff = Len(rlog) /\ Refreshed(m).ioff = Len(ilog)
         /\ Refreshed(m).rino = rino /\ Refreshed(m).iino = iino
         /\ Refreshed(m).rcp = IF m.rino = rino /\ m.roff <= Len(rlog)
                               THEN Recipes(m.rcp, m.roff) ELSE Recipes(NoRecipe, 0)
         /\ Refreshed(m).idx = IF m.iino = iino /\ m.ioff <= Len(ilog)
                               THEN Places(m.idx, m.ioff) ELSE Places(Nowhere, 0)
  <1>1. /\ m.rcp \in [Content -> Nat] /\ m.roff \in Nat /\ m.rino \in Nat
        /\ m.idx \in [Content -> Loc \cup {NoLoc}] /\ m.ioff \in Nat /\ m.iino \in Nat
    BY DEF Memory
  <1>2. Len(rlog) \in Nat /\ Len(ilog) \in Nat /\ rino \in Nat /\ iino \in Nat
    OBVIOUS
  <1>3. NoRecipe \in [Content -> Nat] /\ Nowhere \in [Content -> Loc \cup {NoLoc}]
    BY DEF NoRecipe, Nowhere
  <1>4. Recipes(m.rcp, m.roff) \in [Content -> Nat] /\ Recipes(NoRecipe, 0) \in [Content -> Nat]
    BY <1>1, <1>3, RecipesSay
  <1>5. /\ Places(m.idx, m.ioff) \in [Content -> Loc \cup {NoLoc}]
        /\ Places(Nowhere, 0) \in [Content -> Loc \cup {NoLoc}]
    BY <1>1, <1>3, PlacesSay
  <1> DEFINE x == IF m.rino = rino /\ m.roff <= Len(rlog)
                  THEN Recipes(m.rcp, m.roff) ELSE Recipes(NoRecipe, 0)
             y == IF m.iino = iino /\ m.ioff <= Len(ilog)
                  THEN Places(m.idx, m.ioff) ELSE Places(Nowhere, 0)
  <1>6. x \in [Content -> Nat] /\ y \in [Content -> Loc \cup {NoLoc}]
    BY <1>4, <1>5
  <1>7. /\ Rewritten(m.rino, rino, m.roff, Len(rlog)) <=> ~(m.rino = rino /\ m.roff <= Len(rlog))
        /\ Rewritten(m.iino, iino, m.ioff, Len(ilog)) <=> ~(m.iino = iino /\ m.ioff <= Len(ilog))
    BY <1>1, <1>2 DEF Rewritten
  <1>8. Refreshed(m) = [rcp |-> x, roff |-> Len(rlog), rino |-> rino,
                        idx |-> y, ioff |-> Len(ilog), iino |-> iino]
    BY <1>7 DEF Refreshed
  <1> HIDE DEF x, y
  <1>9. /\ Refreshed(m) \in Memory
        /\ Refreshed(m).roff = Len(rlog) /\ Refreshed(m).ioff = Len(ilog)
        /\ Refreshed(m).rino = rino /\ Refreshed(m).iino = iino
        /\ Refreshed(m).rcp = x /\ Refreshed(m).idx = y
    BY <1>2, <1>6, <1>8 DEF Memory
  <1> QED
    BY <1>9 DEF x, y

\* The newest segment that is there.
LEMMA TopSays ==
  ASSUME DiskType
  PROVE  /\ Top \in 0 .. Len(files) /\ \A s \in Ids : s <= Top
         /\ Top = 0 \/ Top \in Ids
  <1>1. {0} \cup Ids \subseteq 0 .. Len(files) /\ Len(files) \in Nat
    <2>1. \A s \in Ids : s \in Nat /\ s <= Len(files)
      BY DEF DiskType, Numbered, Ids, Seg
    <2>2. Len(files) \in Nat
      BY DEF DiskType
    <2> QED
      BY <2>1, <2>2
  <1>2. Top \in {0} \cup Ids /\ \A y \in {0} \cup Ids : y <= Top
    BY <1>1, MaxSays DEF Top
  <1> QED
    BY <1>1, <1>2

\* Where the writer writes.
LEMMA TargetSays ==
  ASSUME DiskType
  PROVE  Target \in Ids \cup {Top + 1}
  BY TopSays DEF Target

\* Frames go to the end of a segment that is there, or to a new file.
LEMMA FramesSay ==
  ASSUME DiskType, NEW s \in Ids \cup {Top + 1}, NEW fs \in Seq(Content),
         WriteFrames(s, fs)
  PROVE  /\ s \in Seg
         /\ files' \in Seq(Seq(Content)) /\ Len(files) <= Len(files') /\ Len(files') \in Nat
         /\ segs' \in [Seg -> 0 .. Len(files')]
         /\ \A i \in Seg : segs'[i] # 0 => i <= Len(files')
  <1>1. /\ Top \in 0 .. Len(files) /\ Len(files) \in Nat /\ MaxFiles \in Nat
        /\ \A i \in Ids : i <= Top /\ i <= Len(files)
        /\ files \in Seq(Seq(Content)) /\ segs \in [Seg -> 0 .. Len(files)]
    BY TopSays, ReaderAssumption DEF DiskType, Numbered
  <1>2. CASE s \in Ids
    <2>1. s \in Seg /\ segs[s] \in 1 .. Len(files)
      BY <1>1, <1>2 DEF Ids
    <2>2. files' = [files EXCEPT ![segs[s]] = @ \o fs] /\ segs' = segs
      BY <1>2 DEF WriteFrames
    <2>3. files[segs[s]] \in Seq(Content)
      BY <1>1, <2>1
    <2>4. files[segs[s]] \o fs \in Seq(Content)
      BY <2>3
    <2>5. files' \in Seq(Seq(Content)) /\ Len(files') = Len(files)
      BY <1>1, <2>1, <2>2, <2>4
    <2> QED
      BY <1>1, <2>1, <2>2, <2>5 DEF Ids
  <1>3. CASE s \notin Ids
    <2>1. s = Top + 1 /\ s <= Len(files) + 1
      BY <1>1, <1>3
    <2>2. Len(files) < MaxFiles /\ files' = Append(files, fs)
          /\ segs' = [segs EXCEPT ![s] = Len(files) + 1]
      BY <1>3 DEF WriteFrames
    <2>3. s \in Seg
      BY <1>1, <2>1, <2>2 DEF Seg
    <2>4. files' \in Seq(Seq(Content)) /\ Len(files') = Len(files) + 1
      BY <1>1, <2>2
    <2>5. segs' \in [Seg -> 0 .. Len(files')]
      BY <1>1, <2>2, <2>3, <2>4
    <2>6. ASSUME NEW i \in Seg, segs'[i] # 0
          PROVE  i <= Len(files')
      <3>1. CASE i = s
        BY <2>1, <2>4, <3>1
      <3>2. CASE i # s
        <4>1. i \in Ids
          BY <1>1, <2>2, <2>6, <3>2 DEF Ids
        <4>2. i \in Nat
          BY DEF Seg
        <4> QED
          BY <1>1, <2>4, <4>1, <4>2
      <3> QED
        BY <3>1, <3>2
    <2> QED
      BY <1>1, <2>3, <2>4, <2>5, <2>6
  <1> QED
    BY <1>2, <1>3

\* The fields of a read that the writer's steps leave alone.
SameRead(j, k) ==
  /\ k \in Job /\ k.c = j.c /\ k.block = j.block /\ k.pos = j.pos /\ k.try = j.try
  /\ k.loc = j.loc /\ k.file = j.file /\ k.got = j.got

\* A read that is disturbed, or whose content goes.
LEMMA JobNotes ==
  ASSUME NEW j \in Job
  PROVE  /\ SameRead(j, [j EXCEPT !.calm = FALSE])
         /\ [j EXCEPT !.calm = FALSE].calm = FALSE
         /\ [j EXCEPT !.calm = FALSE].closed = j.closed
         /\ [j EXCEPT !.calm = FALSE].here = j.here
         /\ SameRead(j, [j EXCEPT !.here = FALSE])
         /\ [j EXCEPT !.here = FALSE].here = FALSE
         /\ [j EXCEPT !.here = FALSE].closed = j.closed
         /\ [j EXCEPT !.here = FALSE].calm = j.calm
         /\ SameRead(j, [j EXCEPT !.closed = TRUE, !.calm = FALSE])
         /\ [j EXCEPT !.closed = TRUE, !.calm = FALSE].calm = FALSE
         /\ [j EXCEPT !.closed = TRUE, !.calm = FALSE].here = j.here
         /\ SameRead(j, j)
  BY DEF Job, SameRead

\* Nothing of a read but these notes changes while the files only grow.
LEMMA GrowthType ==
  ASSUME TypeInv, Len(files) <= Len(files'), Len(files') \in Nat,
         UNCHANGED process, pc' = pc, job' \in [Thread -> Job],
         \A t \in Thread : SameRead(job[t], job'[t])
  PROVE  ProcessType' /\ ReadType'
  <1>1. mem' = mem /\ fds' = fds /\ cache' = cache
    BY DEF process
  <1>2. Len(files) \in Nat
    BY DEF TypeInv, DiskType
  <1>3. 0 .. Len(files) \subseteq 0 .. Len(files')
    BY <1>2
  <1>4. fds' \in [Seg -> 0 .. Len(files')]
    BY <1>1, <1>3 DEF TypeInv, ProcessType
  <1>5. 1 .. Len(files) \subseteq 1 .. Len(files')
    BY <1>2
  <1> QED
    <2>1. ProcessType'
      BY <1>1, <1>4 DEF TypeInv, ProcessType
    <2>2. pc' \in [Thread -> Step] /\ job' \in [Thread -> Job]
      BY DEF TypeInv, ReadType
    <2>3. \A t \in Thread : pc'[t] \in {"frame", "read"} => job'[t].loc \in Loc
      BY DEF TypeInv, ReadType, Located, SameRead
    <2>4. \A t \in Thread : pc'[t] = "read" => job'[t].file \in 1 .. Len(files')
      BY <1>5 DEF TypeInv, ReadType, Located, SameRead
    <2> QED
      BY <2>1, <2>2, <2>3, <2>4 DEF ReadType, Located

\* The new index has the blocks that stay where they were, and the others in
\* the order in which they were copied.
LEMMA NewPlacesSay ==
  ASSUME DiskType, NEW vs \in SUBSET Seg, NEW moved, IsListOf(moved, Moving(vs)),
         moved # <<>> => Top + 1 \in Seg
  PROVE  /\ DOMAIN NewPlaces(vs, moved) = Staying(vs) \cup Moving(vs)
         /\ \A c \in Staying(vs) : NewPlaces(vs, moved)[c] = Place[c] /\ Place[c] \in Loc
         /\ \A c \in Moving(vs) \ Staying(vs) : \E m \in DOMAIN moved :
              /\ moved[m] = c /\ NewPlaces(vs, moved)[c] = [seg |-> Top + 1, off |-> m]
              /\ NewPlaces(vs, moved)[c] \in Loc
  <1>1. Place \in [Content -> Loc \cup {NoLoc}]
    BY PlaceSays DEF DiskType
  <1>2. \A c \in Staying(vs) : Place[c] \in Loc
    BY <1>1 DEF Staying, Ids, NoLoc, Seg
  <1>3. Range(moved) = Moving(vs) /\ moved \in Seq(Content)
    BY DEF IsListOf, Range
  <1>4. NewPlaces(vs, moved) =
          [c \in Staying(vs) \cup Moving(vs) |->
             IF c \in Staying(vs) THEN Place[c]
             ELSE [seg |-> Top + 1, off |-> CHOOSE i \in DOMAIN moved : moved[i] = c]]
    BY <1>3 DEF NewPlaces
  <1>5. ASSUME NEW c \in Moving(vs) \ Staying(vs)
        PROVE  \E m \in DOMAIN moved :
                 /\ moved[m] = c /\ NewPlaces(vs, moved)[c] = [seg |-> Top + 1, off |-> m]
                 /\ NewPlaces(vs, moved)[c] \in Loc
    <2>1. \E i \in DOMAIN moved : moved[i] = c
      BY DEF IsListOf
    <2>2. PICK m \in DOMAIN moved : m = (CHOOSE i \in DOMAIN moved : moved[i] = c) /\ moved[m] = c
      BY <2>1
    <2>3. NewPlaces(vs, moved)[c] = [seg |-> Top + 1, off |-> m]
      BY <1>4, <2>2
    <2>4. DOMAIN moved = 1 .. Len(moved) /\ Len(moved) \in Nat /\ moved # <<>>
      BY <1>3
    <2>5. m \in Nat \ {0} /\ Top + 1 \in Seg
      BY <2>4
    <2>6. NewPlaces(vs, moved)[c] \in Loc
      BY <2>3, <2>5 DEF Loc
    <2> QED
      BY <2>2, <2>3, <2>6
  <1>6. \A c \in Staying(vs) : NewPlaces(vs, moved)[c] = Place[c]
    BY <1>4
  <1>7. DOMAIN NewPlaces(vs, moved) = Staying(vs) \cup Moving(vs)
    BY <1>4
  <1> QED
    BY <1>2, <1>5, <1>6, <1>7

\* A log of some places has a record for each of them, and no other.
LEMMA AsLogSays ==
  ASSUME NEW D \in SUBSET Content, NEW places \in [D -> Loc]
  PROVE  /\ AsLog(places) \in Seq(Index)
         /\ \A i \in DOMAIN AsLog(places) :
              AsLog(places)[i].c \in D /\ AsLog(places)[i].loc = places[AsLog(places)[i].c]
         /\ \A i, k \in DOMAIN AsLog(places) :
              AsLog(places)[i].c = AsLog(places)[k].c => i = k
         /\ \A c \in D : \E i \in DOMAIN AsLog(places) : AsLog(places)[i].c = c
  <1> DEFINE cs == SetToSeq(D)
  <1>1. IsListOf(cs, D)
    BY SetToSeqSays
  <1>2. AsLog(places) = [i \in DOMAIN cs |-> [c |-> cs[i], loc |-> places[cs[i]]]]
    BY DEF AsLog
  <1> HIDE DEF cs
  <1>3. /\ cs \in Seq(Content) /\ DOMAIN cs = 1 .. Len(cs) /\ Len(cs) \in Nat
        /\ \A i \in DOMAIN cs : cs[i] \in D
        /\ \A i, k \in DOMAIN cs : cs[i] = cs[k] => i = k
        /\ \A c \in D : \E i \in DOMAIN cs : cs[i] = c
    BY <1>1 DEF IsListOf
  <1>4. \A i \in DOMAIN cs : [c |-> cs[i], loc |-> places[cs[i]]] \in Index
    BY <1>3 DEF Index
  <1>5. AsLog(places) \in Seq(Index)
    BY <1>2, <1>3, <1>4
  <1>6. DOMAIN AsLog(places) = DOMAIN cs
    BY <1>2
  <1>7. \A i \in DOMAIN cs : AsLog(places)[i].c = cs[i] /\ AsLog(places)[i].loc = places[cs[i]]
    BY <1>2
  <1> QED
    BY <1>3, <1>5, <1>6, <1>7

\* The index that gc renames into place.
LEMMA NewIndexSays ==
  ASSUME DiskType, NEW vs \in SUBSET Seg, NEW moved, IsListOf(moved, Moving(vs)),
         moved # <<>> => Top + 1 \in Seg
  PROVE  LET log == AsLog(NewPlaces(vs, moved)) IN
         /\ log \in Seq(Index)
         /\ \A i, k \in DOMAIN log : log[i].c = log[k].c => i = k
         /\ \A c \in Staying(vs) \cup Moving(vs) : \E i \in DOMAIN log : log[i].c = c
         /\ \A i \in DOMAIN log :
              \/ log[i].c \in Staying(vs) /\ log[i].loc = Place[log[i].c]
              \/ \E m \in DOMAIN moved :
                   moved[m] = log[i].c /\ log[i].loc = [seg |-> Top + 1, off |-> m]
  <1> DEFINE P == NewPlaces(vs, moved)
             D == Staying(vs) \cup Moving(vs)
             log == AsLog(P)
  <1>1. /\ DOMAIN P = D
        /\ \A c \in Staying(vs) : P[c] = Place[c] /\ Place[c] \in Loc
        /\ \A c \in Moving(vs) \ Staying(vs) : \E m \in DOMAIN moved :
             moved[m] = c /\ P[c] = [seg |-> Top + 1, off |-> m] /\ P[c] \in Loc
    BY NewPlacesSay
  <1>2. D \in SUBSET Content
    BY DEF Staying, Moving, Live
  <1>3. P = [c \in D |-> P[c]]
    BY <1>1 DEF NewPlaces
  <1>4. P \in [D -> Loc]
    <2> HIDE DEF P
    <2> QED
      BY <1>1, <1>3
  <1>5. /\ log \in Seq(Index)
        /\ \A i \in DOMAIN log : log[i].c \in D /\ log[i].loc = P[log[i].c]
        /\ \A i, k \in DOMAIN log : log[i].c = log[k].c => i = k
        /\ \A c \in D : \E i \in DOMAIN log : log[i].c = c
    <2> HIDE DEF P, D
    <2> QED
      BY <1>2, <1>4, AsLogSays
  <1> HIDE DEF P, log
  <1>6. ASSUME NEW i \in DOMAIN log
        PROVE  \/ log[i].c \in Staying(vs) /\ log[i].loc = Place[log[i].c]
               \/ \E m \in DOMAIN moved :
                    moved[m] = log[i].c /\ log[i].loc = [seg |-> Top + 1, off |-> m]
    BY <1>1, <1>5
  <1> QED
    BY <1>5, <1>6 DEF log, P

\* The disk and the reads under way after a step of the writer.
DiskTypeNext ==
  /\ DiskType' /\ Len(files) <= Len(files') /\ Len(files') \in Nat
  /\ UNCHANGED process /\ pc' = pc /\ job' \in [Thread -> Job]
  /\ \A t \in Thread : SameRead(job[t], job'[t])

\* A step of the writer that leaves the segments alone.
LEMMA SegmentsStay ==
  ASSUME DiskType, UNCHANGED <<segs, files>>
  PROVE  /\ segs' \in [Seg -> 0 .. Len(files')] /\ files' \in Seq(Seq(Content))
         /\ Numbered' /\ Len(files) <= Len(files') /\ Len(files') \in Nat
  <1>1. Len(files) \in Nat
    BY DEF DiskType
  <1> QED
    BY <1>1 DEF DiskType, Numbered, Ids

\* Store appends to the two logs and to a segment: the types hold.
LEMMA StoreType ==
  ASSUME TypeInv, NEW c \in Content, Store(c)
  PROVE  DiskTypeNext
  <1>1. /\ rlog' = Append(rlog, [c |-> c, put |-> TRUE])
        /\ UNCHANGED <<rino, iino, phase, victims, process, pc, job>>
    BY DEF Store
  <1>2. rlog' \in Seq(Recipe)
    <2>1. [c |-> c, put |-> TRUE] \in Recipe
      BY DEF Recipe
    <2> QED
      BY <1>1, <2>1 DEF TypeInv, DiskType
  <1>3. \A t \in Thread : SameRead(job[t], job'[t])
    BY <1>1, JobNotes DEF TypeInv, ReadType
  <1>4. CASE Place[c] # NoLoc
    <2>1. UNCHANGED <<segs, files, ilog>>
      BY <1>4 DEF Store
    <2>2. DiskType'
      BY <1>1, <1>2, <2>1, SegmentsStay DEF TypeInv, DiskType
    <2>3. Len(files) <= Len(files') /\ Len(files') \in Nat
      BY <2>1, SegmentsStay DEF TypeInv
    <2> QED
      BY <1>1, <1>3, <2>2, <2>3 DEF DiskTypeNext, TypeInv, ReadType
  <1>5. CASE Place[c] = NoLoc
    <2>1. /\ WriteFrames(Target, <<c>>)
          /\ ilog' = Append(ilog, [c |-> c, loc |-> [seg |-> Target,
                                            off |-> InSegment(Target) + 1]])
      BY <1>5 DEF Store
    <2>2. <<c>> \in Seq(Content)
      OBVIOUS
    <2>3. /\ Target \in Seg
          /\ files' \in Seq(Seq(Content)) /\ Len(files) <= Len(files') /\ Len(files') \in Nat
          /\ segs' \in [Seg -> 0 .. Len(files')]
          /\ \A i \in Seg : segs'[i] # 0 => i <= Len(files')
      BY <2>1, <2>2, TargetSays, FramesSay DEF TypeInv
    <2>4. InSegment(Target) \in Nat
      <3>1. CASE Target \in Ids
        <4>1. segs[Target] \in 1 .. Len(files) /\ files \in Seq(Seq(Content))
          BY <3>1 DEF Ids, TypeInv, DiskType
        <4>2. files[segs[Target]] \in Seq(Content)
          BY <4>1
        <4>3. Len(files[segs[Target]]) \in Nat
          BY <4>2
        <4> QED
          BY <3>1, <4>3 DEF InSegment
      <3>2. CASE Target \notin Ids
        BY <3>2 DEF InSegment
      <3> QED
        BY <3>1, <3>2
    <2>5. [c |-> c, loc |-> [seg |-> Target, off |-> InSegment(Target) + 1]] \in Index
      <3>1. InSegment(Target) + 1 \in Nat \ {0}
        BY <2>4
      <3> QED
        BY <2>3, <3>1 DEF Index, Loc
    <2>6. ilog' \in Seq(Index)
      BY <2>1, <2>5 DEF TypeInv, DiskType
    <2>7. DiskType'
      BY <1>1, <1>2, <2>3, <2>6 DEF TypeInv, DiskType, Numbered, Ids
    <2> QED
      BY <1>1, <1>3, <2>3, <2>7 DEF DiskTypeNext, TypeInv, ReadType
  <1> QED
    BY <1>4, <1>5

\* A removal appends one record to recipes.log.
LEMMA RemoveContentType ==
  ASSUME TypeInv, NEW c \in Content, RemoveContent(c)
  PROVE  DiskTypeNext
  <1>1. /\ rlog' = Append(rlog, [c |-> c, put |-> FALSE])
        /\ job' = [t \in Thread |-> IF job[t].c = c THEN [job[t] EXCEPT !.here = FALSE]
                                                    ELSE job[t]]
        /\ UNCHANGED <<rino, ilog, iino, segs, files, phase, victims, process, pc>>
    BY DEF RemoveContent
  <1>2. rlog' \in Seq(Recipe)
    <2>1. [c |-> c, put |-> FALSE] \in Recipe
      BY DEF Recipe
    <2> QED
      BY <1>1, <2>1 DEF TypeInv, DiskType
  <1>3. \A t \in Thread : SameRead(job[t], job'[t])
    BY <1>1, JobNotes DEF TypeInv, ReadType
  <1>4. job' \in [Thread -> Job]
    BY <1>1, <1>3 DEF SameRead
  <1>5. DiskType'
    BY <1>1, <1>2, SegmentsStay DEF TypeInv, DiskType
  <1>6. Len(files) <= Len(files') /\ Len(files') \in Nat
    BY <1>1, SegmentsStay DEF TypeInv
  <1> QED
    BY <1>1, <1>3, <1>4, <1>5, <1>6 DEF DiskTypeNext

\* A disturbed read has its fields.
LEMMA DisturbedSays ==
  ASSUME job \in [Thread -> Job]
  PROVE  /\ Disturbed \in [Thread -> Job]
         /\ \A t \in Thread : /\ SameRead(job[t], Disturbed[t])
                              /\ Disturbed[t].calm = FALSE
                              /\ Disturbed[t].here = job[t].here
  <1>1. \A t \in Thread : Disturbed[t] = [job[t] EXCEPT !.calm = FALSE]
    BY DEF Disturbed
  <1>2. \A t \in Thread : /\ SameRead(job[t], Disturbed[t]) /\ Disturbed[t].calm = FALSE
                          /\ Disturbed[t].here = job[t].here
    <2> TAKE t \in Thread
    <2>1. PICK j \in Job : j = job[t] /\ Disturbed[t] = [j EXCEPT !.calm = FALSE]
      BY <1>1
    <2> QED
      BY <2>1, JobNotes
  <1>3. Disturbed = [t \in Thread |-> Disturbed[t]]
    BY DEF Disturbed
  <1> QED
    BY <1>2, <1>3 DEF SameRead

\* A rewritten log gets the next inode, or, in a race, any.
LEMMA NewInodeSays ==
  ASSUME NEW ino \in 1 .. MaxInode, NEW i \in NewInode(ino)
  PROVE  i \in 1 .. MaxInode /\ ("inode" \notin Races => i = ino + 1)
  BY DEF NewInode

\* The compacted recipes.log has records of recipes.log only.
LEMMA CompactRecipesType ==
  ASSUME TypeInv, CompactRecipes
  PROVE  DiskTypeNext
  <1>1. phase' = "swap" /\ UNCHANGED <<ilog, iino, segs, files, victims, process, pc>>
    BY DEF CompactRecipes
  <1>2. /\ rlog' \in Seq(Recipe) /\ rino' \in 1 .. MaxInode
        /\ job' \in [Thread -> Job] /\ \A t \in Thread : SameRead(job[t], job'[t])
    <2>1. CASE Len(rlog) = Cardinality(Live)
      <3>1. UNCHANGED <<rlog, rino, job>>
        BY <2>1 DEF CompactRecipes
      <3> QED
        BY <3>1, JobNotes DEF TypeInv, DiskType, ReadType
    <2>2. CASE Len(rlog) # Cardinality(Live)
      <3>1. /\ rlog' \in {[i \in DOMAIN s |-> [c |-> s[i], put |-> TRUE]] :
                            s \in SetToSeqs(Live)}
            /\ rino' \in NewInode(rino) /\ job' = Disturbed
        BY <2>2 DEF CompactRecipes
      <3>2. PICK s \in SetToSeqs(Live) :
              rlog' = [i \in DOMAIN s |-> [c |-> s[i], put |-> TRUE]]
        BY <3>1
      <3>3. IsListOf(s, Live)
        BY SetToSeqSays DEF Live
      <3>4. s \in Seq(Content) /\ DOMAIN s = 1 .. Len(s) /\ Len(s) \in Nat
        BY <3>3 DEF IsListOf
      <3>5. \A i \in DOMAIN s : [c |-> s[i], put |-> TRUE] \in Recipe
        BY <3>4 DEF Recipe
      <3>6. rlog' \in Seq(Recipe)
        BY <3>2, <3>4, <3>5
      <3> QED
        BY <3>1, <3>6, NewInodeSays, DisturbedSays DEF TypeInv, DiskType, ReadType
    <2> QED
      BY <2>1, <2>2
  <1>3. DiskType'
    BY <1>1, <1>2, SegmentsStay DEF TypeInv, DiskType
  <1>4. Len(files) <= Len(files') /\ Len(files') \in Nat
    BY <1>1, SegmentsStay DEF TypeInv
  <1> QED
    BY <1>1, <1>2, <1>3, <1>4 DEF DiskTypeNext

\* What a swap of the index does with the blocks that move.
LEMMA SwapSays ==
  ASSUME DiskType, NEW vs \in SUBSET Seg, SwapIndex(vs)
  PROVE  \E moved : /\ IsListOf(moved, Moving(vs))
                    /\ ilog' = AsLog(NewPlaces(vs, moved))
                    /\ moved # <<>> => Top + 1 \in Seg
                    /\ IF moved = <<>> THEN UNCHANGED <<segs, files>>
                                       ELSE WriteFrames(Top + 1, moved)
                    /\ "reuse" \in Races \/ Top \notin vs \/ moved # <<>>
  <1> DEFINE moved == SetToSeq(Moving(vs))
  <1>1. IsListOf(moved, Moving(vs))
    BY SetToSeqSays DEF Moving, Live
  <1>2. /\ ilog' = AsLog(NewPlaces(vs, moved))
        /\ IF moved = <<>> THEN UNCHANGED <<segs, files>> ELSE WriteFrames(Top + 1, moved)
        /\ "reuse" \in Races \/ Top \notin vs \/ moved # <<>>
    BY DEF SwapIndex
  <1> HIDE DEF moved
  <1>3. moved # <<>> => Top + 1 \in Seg
    BY <1>1, <1>2, FramesSay DEF IsListOf
  <1> QED
    BY <1>1, <1>2, <1>3

\* The index that replaces index.log has places of the files made so far.
LEMMA SwapIndexType ==
  ASSUME TypeInv, NEW vs \in SUBSET Seg, SwapIndex(vs)
  PROVE  DiskTypeNext
  <1>1. /\ iino' \in NewInode(iino) /\ phase' = "delete" /\ victims' = vs
        /\ job' = Disturbed /\ UNCHANGED <<rlog, rino, process, pc>>
    BY DEF SwapIndex
  <1>2. PICK moved : /\ IsListOf(moved, Moving(vs))
                     /\ ilog' = AsLog(NewPlaces(vs, moved))
                     /\ moved # <<>> => Top + 1 \in Seg
                     /\ IF moved = <<>> THEN UNCHANGED <<segs, files>>
                                        ELSE WriteFrames(Top + 1, moved)
    BY SwapSays DEF TypeInv
  <1>3. ilog' \in Seq(Index)
    BY <1>2, NewIndexSays DEF TypeInv
  <1>4. /\ segs' \in [Seg -> 0 .. Len(files')] /\ files' \in Seq(Seq(Content))
        /\ Numbered' /\ Len(files) <= Len(files') /\ Len(files') \in Nat
    <2>1. CASE moved = <<>>
      BY <1>2, <2>1, SegmentsStay DEF TypeInv
    <2>2. CASE moved # <<>>
      <3>1. moved \in Seq(Content) /\ WriteFrames(Top + 1, moved)
        BY <1>2, <2>2 DEF IsListOf
      <3> QED
        BY <3>1, FramesSay DEF TypeInv, Numbered, Ids
    <2> QED
      BY <2>1, <2>2
  <1>5. iino' \in 1 .. MaxInode
    BY <1>1, NewInodeSays DEF TypeInv, DiskType
  <1>6. job' \in [Thread -> Job] /\ \A t \in Thread : SameRead(job[t], job'[t])
    BY <1>1, DisturbedSays DEF TypeInv, ReadType
  <1>7. DiskType'
    BY <1>1, <1>3, <1>4, <1>5 DEF TypeInv, DiskType
  <1> QED
    BY <1>1, <1>4, <1>6, <1>7 DEF DiskTypeNext

\* The end of a collection changes the phase alone.
LEMMA StopsCollectingType ==
  ASSUME TypeInv, StopsCollecting
  PROVE  DiskTypeNext
  <1>1. /\ phase' = "idle"
        /\ UNCHANGED <<rlog, rino, ilog, iino, segs, files, victims, process, pc, job>>
    BY DEF StopsCollecting
  <1>2. DiskType' /\ Len(files) <= Len(files') /\ Len(files') \in Nat
    BY <1>1, SegmentsStay DEF TypeInv, DiskType
  <1>3. \A t \in Thread : SameRead(job[t], job'[t])
    BY <1>1, JobNotes DEF TypeInv, ReadType
  <1> QED
    BY <1>1, <1>2, <1>3 DEF DiskTypeNext, TypeInv, ReadType

\* A deletion takes numbers away from the directory.
LEMMA DeleteSegmentsType ==
  ASSUME TypeInv, NEW gone \in SUBSET Seg, DeleteSegments(gone)
  PROVE  DiskTypeNext
  <1>1. /\ phase' = "idle" /\ victims' = {} /\ job' = Disturbed
        /\ segs' = [s \in Seg |-> IF s \in gone THEN 0 ELSE segs[s]]
        /\ UNCHANGED <<rlog, rino, ilog, iino, files, process, pc>>
    BY DEF DeleteSegments
  <1>2. Len(files) \in Nat
    BY DEF TypeInv, DiskType
  <1>3. segs' \in [Seg -> 0 .. Len(files')]
    BY <1>1, <1>2 DEF TypeInv, DiskType
  <1>4. Numbered'
    BY <1>1 DEF TypeInv, DiskType, Numbered, Ids
  <1>5. DiskType'
    BY <1>1, <1>3, <1>4 DEF TypeInv, DiskType
  <1>6. job' \in [Thread -> Job] /\ \A t \in Thread : SameRead(job[t], job'[t])
    BY <1>1, DisturbedSays DEF TypeInv, ReadType
  <1> QED
    BY <1>1, <1>2, <1>5, <1>6 DEF DiskTypeNext

\* No step of the writer breaks the types, or touches a reader.
LEMMA WriteType ==
  ASSUME TypeInv, Write
  PROVE  DiskTypeNext /\ TypeInv'
  <1>1. DiskTypeNext
    BY StoreType, RemoveContentType, CompactRecipesType, SwapIndexType,
       StopsCollectingType, DeleteSegmentsType DEF Write
  <1>2. ProcessType' /\ ReadType'
    BY <1>1, GrowthType DEF DiskTypeNext
  <1> QED
    BY <1>1, <1>2 DEF DiskTypeNext, TypeInv

\* What the steps of a read write in its record.
LEMMA PosEdit ==
  ASSUME NEW j \in Job, NEW n \in Nat
  PROVE  LET k == [j EXCEPT !.pos = n] IN
         /\ k \in Job /\ k.c = j.c /\ k.pos = n /\ k.try = j.try /\ k.got = j.got
         /\ k.calm = j.calm /\ k.here = j.here
  BY DEF Job

\* A job with the try set to 1: what else it keeps.
LEMMA TryEdit ==
  ASSUME NEW j \in Job
  PROVE  LET k == [j EXCEPT !.try = 1] IN
         /\ k \in Job /\ k.c = j.c /\ k.block = j.block /\ k.try = 1 /\ k.got = j.got
         /\ k.calm = j.calm /\ k.here = j.here
  BY DEF Job

\* A job with a block to look for: what else it keeps.
LEMMA BlockEdit ==
  ASSUME NEW j \in Job, NEW b \in Content
  PROVE  LET k == [j EXCEPT !.block = b, !.try = 0] IN
         /\ k \in Job /\ k.c = j.c /\ k.block = b /\ k.try = 0 /\ k.got = j.got
         /\ k.calm = j.calm /\ k.here = j.here
  <1> DEFINE x == [j EXCEPT !.block = b]
             k == [x EXCEPT !.try = 0]
  <1>1. x \in Job /\ x.c = j.c /\ x.block = b /\ x.got = j.got
        /\ x.calm = j.calm /\ x.here = j.here
    BY DEF Job
  <1> HIDE DEF x
  <1>2. k \in Job /\ k.c = x.c /\ k.block = x.block /\ k.try = 0 /\ k.got = x.got
        /\ k.calm = x.calm /\ k.here = x.here
    BY <1>1 DEF Job
  <1>3. k = [j EXCEPT !.block = b, !.try = 0]
    BY Zenon DEF x
  <1> HIDE DEF k
  <1> QED
    BY <1>1, <1>2, <1>3

\* A job with a place: what else it keeps.
LEMMA LocEdit ==
  ASSUME NEW j \in Job, NEW l \in Loc
  PROVE  LET k == [j EXCEPT !.loc = l] IN
         /\ k \in Job /\ k.c = j.c /\ k.block = j.block /\ k.try = j.try /\ k.loc = l
         /\ k.got = j.got /\ k.calm = j.calm /\ k.here = j.here
  BY DEF Job

\* A job with a file: what else it keeps.
LEMMA FileEdit ==
  ASSUME NEW j \in Job, NEW f \in Nat
  PROVE  LET k == [j EXCEPT !.file = f, !.closed = FALSE] IN
         /\ k \in Job /\ k.c = j.c /\ k.block = j.block /\ k.try = j.try
         /\ k.loc = j.loc /\ k.file = f /\ k.closed = FALSE /\ k.got = j.got
         /\ k.calm = j.calm /\ k.here = j.here
  BY DEF Job

\* A fresh job asks for its content and has not tried.
LEMMA AskedSays ==
  ASSUME NEW c \in Content, NEW b \in BOOLEAN
  PROVE  /\ Asked(c, b) \in Job /\ Asked(c, b).c = c /\ Asked(c, b).got = c
         /\ Asked(c, b).here = b /\ Asked(c, b).try = 0
  BY DEF Asked, Job

\* The end of a read leaves a job with the result and the rest as it was.
LEMMA EndsSays ==
  ASSUME job \in [Thread -> Job], NEW t \in Thread, NEW got \in Content \cup {Bad},
         Ends(t, got)
  PROVE  \E k \in Job : /\ Set(t, "idle", k) /\ k.c = job[t].c /\ k.got = got
                        /\ k.calm = job[t].calm /\ k.here = job[t].here
  <1> DEFINE x == Asked(job[t].c, job[t].here)
             y == [x EXCEPT !.got = got]
             k == [y EXCEPT !.calm = job[t].calm]
  <1>1. job[t] \in Job
    OBVIOUS
  <1>2. job[t].c \in Content /\ job[t].here \in BOOLEAN /\ job[t].calm \in BOOLEAN
    BY <1>1 DEF Job
  <1>3. x \in Job /\ x.c = job[t].c /\ x.here = job[t].here
    BY <1>2, AskedSays
  <1> HIDE DEF x
  <1>4. y \in Job /\ y.c = x.c /\ y.got = got /\ y.here = x.here
    BY <1>3 DEF Job
  <1> HIDE DEF y
  <1>5. k \in Job /\ k.c = y.c /\ k.got = y.got /\ k.calm = job[t].calm /\ k.here = y.here
    BY <1>2, <1>4 DEF Job
  <1>6. Set(t, "idle", k)
    BY DEF Ends, x, y
  <1> HIDE DEF k
  <1> QED
    BY <1>3, <1>4, <1>5, <1>6

\* A step of one read leaves the others alone.
LEMMA SetSays ==
  ASSUME pc \in [Thread -> Step], job \in [Thread -> Job],
         NEW t \in Thread, NEW s \in Step, NEW k \in Job, Set(t, s, k)
  PROVE  /\ pc' \in [Thread -> Step] /\ job' \in [Thread -> Job]
         /\ pc'[t] = s /\ job'[t] = k
         /\ \A u \in Thread \ {t} : pc'[u] = pc[u] /\ job'[u] = job[u]
  BY DEF Set

\* A thread that goes on with a typed job leaves the reads typed.
LEMMA SetType ==
  ASSUME ReadType, files' = files,
         NEW t \in Thread, NEW s \in Step, NEW k \in Job, Set(t, s, k),
         s \in {"frame", "read"} => k.loc \in Loc,
         s = "read" => k.file \in 1 .. Len(files)
  PROVE  ReadType'
  BY SetSays DEF ReadType, Located

\* A read that ends leaves the reads typed.
LEMMA IdleType ==
  ASSUME ReadType, files' = files, NEW t \in Thread, NEW got \in Content \cup {Bad},
         Ends(t, got)
  PROVE  ReadType'
  <1>1. PICK k \in Job : Set(t, "idle", k)
    BY EndsSays DEF ReadType
  <1> QED
    BY <1>1, SetType DEF Step

\* The logs and the segments as they were.
LEMMA DiskStays ==
  ASSUME DiskType, UNCHANGED disk
  PROVE  DiskType' /\ files' = files
  BY DEF DiskType, disk, Numbered, Ids

\* A refresh, made or not, leaves a typed memory.
LEMMA RefreshType ==
  ASSUME TypeInv, NEW missing \in BOOLEAN
  PROVE  IfMissing(missing) \in Memory
  BY RefreshedSays DEF IfMissing, TypeInv, DiskType, ProcessType

\* The outcomes that several steps share.
LEMMA AtRecipeType ==
  ASSUME ReadType, files' = files, mem' \in Memory,
         NEW t \in Thread, NEW j \in Job, j.c = job[t].c, AtRecipe(t, j)
  PROVE  ReadType'
  <1>1. CASE mem'.rcp[j.c] = 0
    BY <1>1, IdleType DEF AtRecipe
  <1>2. CASE mem'.rcp[j.c] # 0
    <2>1. mem'.rcp[j.c] \in Nat
      BY DEF Memory, Job
    <2>2. [j EXCEPT !.pos = mem'.rcp[j.c]] \in Job
      BY <2>1, PosEdit
    <2>3. Set(t, "decode", [j EXCEPT !.pos = mem'.rcp[j.c]])
      BY <1>2 DEF AtRecipe
    <2> QED
      BY <2>2, <2>3, SetType DEF Step
  <1> QED
    BY <1>1, <1>2

\* A frame that could not be read leaves the reads typed.
LEMMA MissedType ==
  ASSUME ReadType, files' = files, NEW t \in Thread, Missed(t)
  PROVE  ReadType'
  <1>1. CASE job[t].try = 0
    BY <1>1, SetType DEF Missed, ReadType, Step
  <1>2. CASE job[t].try # 0
    BY <1>2, IdleType DEF Missed
  <1> QED
    BY <1>1, <1>2

\* So does a frame that could.
LEMMA DeliverType ==
  ASSUME ReadType, files' = files, NEW t \in Thread, NEW b \in Content, Deliver(t, b)
  PROVE  ReadType'
  BY IdleType, MissedType DEF Deliver

\* The place of a frame in the cache, or 0.
LEMMA CachedSays ==
  ASSUME cache \in Seq(Frame), NEW l
  PROVE  \/ Cached(l) = 0 /\ \A i \in DOMAIN cache : cache[i].loc # l
         \/ Cached(l) \in DOMAIN cache /\ cache[Cached(l)].loc = l
  <1> DEFINE I == {i \in 1 .. Len(cache) : cache[i].loc = l}
  <1>1. Cached(l) = IF I # {} THEN Min(I) ELSE 0
    BY DEF Cached, SelectInSeq
  <1>2. I \subseteq Nat /\ DOMAIN cache = 1 .. Len(cache)
    OBVIOUS
  <1>3. CASE I = {}
    BY <1>1, <1>2, <1>3
  <1>4. CASE I # {}
    <2>1. Min(I) \in I
      <3> HIDE DEF I
      <3> QED
        BY <1>2, <1>4, MinSays
    <2> QED
      BY <1>1, <1>2, <1>4, <2>1
  <1> QED
    BY <1>3, <1>4

\* Two sequences of frames, one behind the other.
LEMMA ConcatSays ==
  ASSUME NEW a \in Seq(Frame), NEW b \in Seq(Frame)
  PROVE  /\ a \o b \in Seq(Frame) /\ Len(a \o b) = Len(a) + Len(b)
         /\ \A k \in 1 .. Len(a) : (a \o b)[k] = a[k]
         /\ \A k \in 1 .. Len(b) : (a \o b)[Len(a) + k] = b[k]
  OBVIOUS

\* Where a frame of the cache was before the one at i was used.
Before(i, k) == IF k = 1 THEN i ELSE IF k <= i THEN k - 1 ELSE k

\* The frame that was used comes to the front.
LEMMA UsedSays ==
  ASSUME cache \in Seq(Frame), NEW i \in DOMAIN cache
  PROVE  LET s == <<cache[i]>> \o RemoveAt(cache, i) IN
         /\ s \in Seq(Frame) /\ Len(s) = Len(cache)
         /\ \A k \in 1 .. Len(cache) : s[k] = cache[Before(i, k)]
  <1> DEFINE n == Len(cache)
             a == SubSeq(cache, 1, i - 1)
             b == SubSeq(cache, i + 1, n)
             r == a \o b
             h == <<cache[i]>>
  <1>1. /\ a \in Seq(Frame) /\ Len(a) = i - 1 /\ \A k \in 1 .. i - 1 : a[k] = cache[k]
        /\ b \in Seq(Frame) /\ Len(b) = n - i
        /\ \A k \in 1 .. n - i : b[k] = cache[k + i]
    OBVIOUS
  <1>2. RemoveAt(cache, i) = r
    BY DEF RemoveAt
  <1>3. i \in 1 .. n /\ n \in Nat /\ h \in Seq(Frame) /\ Len(h) = 1 /\ h[1] = cache[i]
    OBVIOUS
  <1> HIDE DEF a, b, n, h
  <1>4. /\ r \in Seq(Frame) /\ Len(r) = Len(a) + Len(b)
        /\ \A k \in 1 .. Len(a) : r[k] = a[k]
        /\ \A k \in 1 .. Len(b) : r[Len(a) + k] = b[k]
    BY <1>1, ConcatSays
  <1> HIDE DEF r
  <1>5. /\ h \o r \in Seq(Frame) /\ Len(h \o r) = Len(h) + Len(r)
        /\ \A k \in 1 .. Len(h) : (h \o r)[k] = h[k]
        /\ \A k \in 1 .. Len(r) : (h \o r)[Len(h) + k] = r[k]
    BY <1>3, <1>4, ConcatSays
  <1>6. Len(r) = n - 1 /\ Len(h \o r) = n
    <2>1. Len(r) = (i - 1) + (n - i)
      BY <1>1, <1>4, Zenon
    <2>2. Len(h \o r) = 1 + Len(r)
      BY <1>3, <1>5, Zenon
    <2>3. i \in Nat /\ n \in Nat
      BY <1>3
    <2> QED
      BY <2>1, <2>2, <2>3
  <1>7. ASSUME NEW k \in 1 .. n
        PROVE  (h \o r)[k] = cache[Before(i, k)]
    <2>1. CASE k = 1
      BY <1>3, <1>5, <2>1 DEF Before
    <2>2. CASE k # 1 /\ k <= i
      <3>1. PICK m \in 1 .. i - 1 : k = m + 1
        <4>1. k - 1 \in 1 .. i - 1 /\ k = (k - 1) + 1
          BY <1>3, <2>2
        <4> QED
          BY <4>1
      <3>2. (h \o r)[1 + m] = r[m]
        BY <1>3, <1>5, <1>6
      <3>3. r[m] = a[m] /\ a[m] = cache[m]
        BY <1>1, <1>4
      <3>4. 1 + m = k /\ Before(i, k) = m
        BY <2>2, <3>1 DEF Before
      <3> QED
        BY <3>2, <3>3, <3>4
    <2>3. CASE k # 1 /\ ~(k <= i)
      <3>1. PICK m \in 1 .. n - i : k = m + i
        <4>1. k - i \in 1 .. n - i /\ k = (k - i) + i
          BY <1>3, <2>3
        <4> QED
          BY <4>1
      <3>2. r[(i - 1) + m] = b[m] /\ b[m] = cache[m + i]
        BY <1>1, <1>4
      <3>3. (i - 1) + m \in 1 .. Len(r) /\ 1 + ((i - 1) + m) = k
        BY <1>3, <1>6, <3>1
      <3>4. (h \o r)[1 + ((i - 1) + m)] = r[(i - 1) + m]
        BY <1>3, <1>5, <3>3
      <3>5. Before(i, k) = m + i
        BY <2>3, <3>1 DEF Before
      <3> QED
        BY <3>2, <3>3, <3>4, <3>5
    <2> QED
      BY <2>1, <2>2, <2>3
  <1> QED
    BY <1>2, <1>5, <1>6, <1>7 DEF n, h

\* A frame that is not there is put in front, and the last one goes when there
\* are too many.
LEMMA KeptSays ==
  ASSUME cache \in Seq(Frame), Len(cache) <= CacheMax, NEW f \in Frame
  PROVE  /\ Kept(f) \in Seq(Frame) /\ Len(Kept(f)) <= CacheMax
         /\ \/ Kept(f) = cache
            \/ /\ \A i \in DOMAIN cache : cache[i].loc # f.loc
               /\ Len(Kept(f)) \in 1 .. Len(cache) + 1
               /\ Kept(f)[1] = f
               /\ \A k \in DOMAIN Kept(f) : k > 1 => k - 1 \in DOMAIN cache /\ Kept(f)[k] = cache[k - 1]
  <1>1. CacheMax \in Nat \ {0} /\ Len(cache) \in Nat
    BY ReaderAssumption
  <1>2. CASE Cached(f.loc) # 0
    BY <1>2 DEF Kept
  <1>3. CASE Cached(f.loc) = 0
    <2> DEFINE s == <<f>> \o cache
               n == Min({CacheMax, Len(cache) + 1})
    <2>1. /\ s \in Seq(Frame) /\ Len(s) = Len(cache) + 1 /\ s[1] = f
          /\ \A k \in 1 .. Len(cache) + 1 : k > 1 => s[k] = cache[k - 1]
      OBVIOUS
    <2>2. n \in 1 .. Len(cache) + 1 /\ n <= CacheMax
      <3>1. {CacheMax, Len(cache) + 1} \subseteq Nat
        BY <1>1
      <3>2. n \in {CacheMax, Len(cache) + 1} /\ \A y \in {CacheMax, Len(cache) + 1} : n <= y
        BY <3>1, MinSays
      <3> HIDE DEF n
      <3> QED
        BY <1>1, <3>2
    <2>3. Kept(f) = SubSeq(s, 1, n)
      BY <1>3 DEF Kept
    <2> HIDE DEF s, n
    <2>4. /\ SubSeq(s, 1, n) \in Seq(Frame) /\ Len(SubSeq(s, 1, n)) = n
          /\ \A k \in 1 .. n : SubSeq(s, 1, n)[k] = s[k]
      BY <1>1, <2>1, <2>2
    <2>5. \A i \in DOMAIN cache : cache[i].loc # f.loc
      BY <1>3, CachedSays
    <2> QED
      BY <1>1, <2>1, <2>2, <2>3, <2>4, <2>5
  <1> QED
    BY <1>2, <1>3

\* Start: the job asks for c, and knows whether c is there.
LEMMA StartSays ==
  ASSUME NEW t \in Thread, NEW c \in Content, Start(t, c)
  PROVE  /\ UNCHANGED <<disk, process>> /\ pc[t] = "idle"
         /\ \E k \in Job : /\ Set(t, "recipe", k) /\ k.c = c /\ k.got = c
                           /\ k.try = 0 /\ (k.here => c \in Live)
  <1>1. /\ UNCHANGED <<disk, process>> /\ pc[t] = "idle"
        /\ Set(t, "recipe", Asked(c, c \in Live))
    BY DEF Start
  <1>2. CASE c \in Live
    <2>1. (c \in Live) = TRUE
      BY <1>2
    <2>2. Set(t, "recipe", Asked(c, TRUE))
      BY <1>1, <2>1, Zenon
    <2> QED
      BY <1>1, <1>2, <2>2, AskedSays
  <1>3. CASE c \notin Live
    <2>1. (c \in Live) = FALSE
      BY <1>3
    <2>2. Set(t, "recipe", Asked(c, FALSE))
      BY <1>1, <2>1, Zenon
    <2> QED
      BY <1>1, <1>3, <2>2, AskedSays
  <1> QED
    BY <1>2, <1>3

\* Start keeps the types.
LEMMA StartType ==
  ASSUME TypeInv, NEW t \in Thread, NEW c \in Content, Start(t, c)
  PROVE  TypeInv'
  <1>1. UNCHANGED <<disk, process>> /\ \E k \in Job : Set(t, "recipe", k)
    BY StartSays
  <1>2. DiskType' /\ files' = files
    BY <1>1, DiskStays DEF TypeInv
  <1>3. ReadType'
    BY <1>1, <1>2, SetType DEF TypeInv, Step
  <1>4. ProcessType'
    BY <1>1, <1>2 DEF TypeInv, ProcessType, process
  <1> QED
    BY <1>2, <1>3, <1>4 DEF TypeInv

\* FindRecipe keeps the types.
LEMMA FindRecipeType ==
  ASSUME TypeInv, NEW t \in Thread, FindRecipe(t)
  PROVE  TypeInv'
  <1>1. /\ UNCHANGED <<disk, fds, cache>> /\ mem' = IfMissing(mem.rcp[job[t].c] = 0)
        /\ AtRecipe(t, job[t])
    BY DEF FindRecipe
  <1>2. DiskType' /\ files' = files
    BY <1>1, DiskStays DEF TypeInv
  <1>3. mem' \in Memory
    BY <1>1, RefreshType
  <1>4. job[t] \in Job
    BY DEF TypeInv, ReadType
  <1>5. ReadType'
    BY <1>1, <1>2, <1>3, <1>4, AtRecipeType DEF TypeInv
  <1>6. ProcessType'
    BY <1>1, <1>2, <1>3 DEF TypeInv, ProcessType
  <1> QED
    BY <1>2, <1>5, <1>6 DEF TypeInv

\* Decode keeps the types.
LEMMA DecodeType ==
  ASSUME TypeInv, NEW t \in Thread, Decode(t)
  PROVE  TypeInv'
  <1>1. UNCHANGED <<disk, process>>
    BY DEF Decode
  <1>2. DiskType' /\ files' = files
    BY <1>1, DiskStays DEF TypeInv
  <1>3. PICK b \in Decoded(job[t].pos, job[t].c) :
          IF b # Bad THEN Set(t, "lookup", [job[t] EXCEPT !.block = b, !.try = 0])
          ELSE IF job[t].try = 0 THEN Set(t, "reread", job[t]) ELSE Ends(t, Bad)
    BY DEF Decode
  <1>4. job[t] \in Job /\ job[t].c \in Content
    BY DEF TypeInv, ReadType, Job
  <1>5. b \in Content \cup {Bad}
    <2>1. \A i \in DOMAIN rlog : rlog[i].c \in Content
      <3>1. \A i \in DOMAIN rlog : rlog[i] \in Recipe
        BY DEF TypeInv, DiskType
      <3> QED
        BY <3>1 DEF Recipe
    <2> QED
      BY <1>4, <2>1 DEF Decoded
  <1>6. CASE b # Bad
    <2>1. [job[t] EXCEPT !.block = b, !.try = 0] \in Job
      BY <1>4, <1>5, <1>6, BlockEdit
    <2>2. Set(t, "lookup", [job[t] EXCEPT !.block = b, !.try = 0])
      BY <1>3, <1>6
    <2>3. ReadType'
      BY <1>2, <2>1, <2>2, SetType DEF TypeInv, Step
    <2> QED
      BY <1>1, <1>2, <2>3 DEF TypeInv, ProcessType, process
  <1>7. CASE b = Bad
    <2>1. ReadType'
      <3>1. CASE job[t].try = 0
        BY <1>2, <1>3, <1>4, <1>7, <3>1, SetType DEF TypeInv, Step
      <3>2. CASE job[t].try # 0
        BY <1>2, <1>3, <1>7, <3>2, IdleType DEF TypeInv
      <3> QED
        BY <3>1, <3>2
    <2> QED
      BY <1>1, <1>2, <2>1 DEF TypeInv, ProcessType, process
  <1> QED
    BY <1>6, <1>7

\* The log is to be read from its start.
LEMMA ForgetSays ==
  ASSUME NEW m \in Memory
  PROVE  /\ [m EXCEPT !.rino = 0] \in Memory
         /\ [m EXCEPT !.rino = 0].rino = 0
         /\ [m EXCEPT !.rino = 0].iino = m.iino
         /\ [m EXCEPT !.rino = 0].idx = m.idx
         /\ [m EXCEPT !.rino = 0].ioff = m.ioff
         /\ [m EXCEPT !.rino = 0].rcp = m.rcp
         /\ [m EXCEPT !.rino = 0].roff = m.roff
         /\ ForReindex(m) \in Memory /\ ForReindex(m).idx = m.idx
         /\ ForReindex(m).ioff = m.ioff
         /\ ForReindex(m).iino = 0
         /\ ForReindex(m).rino = m.rino
         /\ ForReindex(m).rcp = m.rcp
         /\ ForReindex(m).roff = m.roff
  BY DEF Memory, ForReindex

\* RereadRecipes keeps the types.
LEMMA RereadRecipesType ==
  ASSUME TypeInv, NEW t \in Thread, RereadRecipes(t)
  PROVE  TypeInv'
  <1>1. /\ UNCHANGED <<disk, fds, cache>> /\ mem' = Refreshed([mem EXCEPT !.rino = 0])
        /\ AtRecipe(t, [job[t] EXCEPT !.try = 1])
    BY DEF RereadRecipes
  <1>2. DiskType' /\ files' = files
    BY <1>1, DiskStays DEF TypeInv
  <1>3. mem' \in Memory
    BY <1>1, ForgetSays, RefreshedSays DEF TypeInv, DiskType, ProcessType
  <1>4. [job[t] EXCEPT !.try = 1] \in Job /\ [job[t] EXCEPT !.try = 1].c = job[t].c
    BY TryEdit DEF TypeInv, ReadType
  <1>5. ReadType'
    BY <1>1, <1>2, <1>3, <1>4, AtRecipeType DEF TypeInv
  <1>6. ProcessType'
    BY <1>1, <1>2, <1>3 DEF TypeInv, ProcessType
  <1> QED
    BY <1>2, <1>5, <1>6 DEF TypeInv

\* Lookup keeps the types.
LEMMA LookupType ==
  ASSUME TypeInv, NEW t \in Thread, Lookup(t)
  PROVE  TypeInv'
  <1>1. /\ UNCHANGED <<disk, fds, cache>> /\ mem' = IfMissing(mem.idx[job[t].block] = NoLoc)
        /\ IF mem'.idx[job[t].block] = NoLoc THEN Ends(t, Bad)
           ELSE Set(t, "frame", [job[t] EXCEPT !.loc = mem'.idx[job[t].block]])
    BY DEF Lookup
  <1>2. DiskType' /\ files' = files
    BY <1>1, DiskStays DEF TypeInv
  <1>3. mem' \in Memory
    BY <1>1, RefreshType
  <1>4. job[t] \in Job
    BY DEF TypeInv, ReadType
  <1>5. mem'.idx[job[t].block] \in Loc \cup {NoLoc}
    BY <1>3, <1>4 DEF Memory, Job
  <1>6. ReadType'
    <2>1. CASE mem'.idx[job[t].block] = NoLoc
      BY <1>1, <1>2, <2>1, IdleType DEF TypeInv
    <2>2. CASE mem'.idx[job[t].block] # NoLoc
      <3> DEFINE k == [job[t] EXCEPT !.loc = mem'.idx[job[t].block]]
      <3>1. k \in Job /\ k.loc \in Loc
        BY <1>4, <1>5, <2>2, LocEdit
      <3>2. Set(t, "frame", k)
        BY <1>1, <2>2
      <3> HIDE DEF k
      <3> QED
        BY <1>2, <3>1, <3>2, SetType DEF TypeInv, Step
    <2> QED
      BY <2>1, <2>2
  <1>7. ProcessType'
    BY <1>1, <1>2, <1>3 DEF TypeInv, ProcessType
  <1> QED
    BY <1>2, <1>6, <1>7 DEF TypeInv

\* CacheHit keeps the types.
LEMMA CacheHitType ==
  ASSUME TypeInv, NEW t \in Thread, CacheHit(t)
  PROVE  TypeInv'
  <1> DEFINE i == Cached(job[t].loc)
  <1>1. /\ UNCHANGED <<disk, mem, fds>> /\ i # 0 /\ Deliver(t, cache[i].bytes)
        /\ cache' = <<cache[i]>> \o RemoveAt(cache, i)
    BY DEF CacheHit
  <1>2. DiskType' /\ files' = files
    BY <1>1, DiskStays DEF TypeInv
  <1>3. cache \in Seq(Frame) /\ Len(cache) <= CacheMax
    BY DEF TypeInv, ProcessType
  <1>4. i \in DOMAIN cache
    BY <1>1, <1>3, CachedSays
  <1> HIDE DEF i
  <1>5. cache[i] \in Frame
    BY <1>3, <1>4
  <1>6. cache[i].bytes \in Content
    BY <1>5 DEF Frame
  <1>7. ReadType'
    BY <1>1, <1>2, <1>6, DeliverType DEF TypeInv
  <1>8. cache' \in Seq(Frame) /\ Len(cache') = Len(cache)
    BY <1>1, <1>3, <1>4, UsedSays
  <1>9. ProcessType'
    BY <1>1, <1>2, <1>3, <1>8 DEF TypeInv, ProcessType
  <1> QED
    BY <1>2, <1>7, <1>9 DEF TypeInv

\* OpenSegment keeps the types.
LEMMA OpenSegmentType ==
  ASSUME TypeInv, NEW t \in Thread, OpenSegment(t)
  PROVE  TypeInv'
  <1> DEFINE s == job[t].loc.seg
             f == Descriptor(s)
  <1>1. /\ UNCHANGED <<disk, mem, cache>> /\ pc[t] = "frame"
        /\ IF f = 0 THEN Missed(t) /\ UNCHANGED fds
           ELSE /\ Set(t, "read", [job[t] EXCEPT !.file = f, !.closed = FALSE])
                /\ fds' = [fds EXCEPT ![s] = f]
    BY DEF OpenSegment
  <1>2. DiskType' /\ files' = files
    BY <1>1, DiskStays DEF TypeInv
  <1>3. job[t].loc \in Loc /\ job[t] \in Job
    BY <1>1 DEF TypeInv, ReadType, Located
  <1>4. s \in Seg
    BY <1>3 DEF Loc
  <1>5. f \in 0 .. Len(files) /\ Len(files) \in Nat
    BY <1>4 DEF Descriptor, TypeInv, DiskType, ProcessType
  <1> HIDE DEF f
  <1>6. CASE f = 0
    <2>1. ReadType' /\ fds' = fds
      BY <1>1, <1>2, <1>6, MissedType DEF TypeInv
    <2> QED
      BY <1>1, <1>2, <2>1 DEF TypeInv, ProcessType
  <1>7. CASE f # 0
    <2> DEFINE k == [job[t] EXCEPT !.file = f, !.closed = FALSE]
    <2>1. k \in Job /\ k.loc = job[t].loc /\ k.file = f
      <3>1. f \in Nat
        BY <1>5
      <3> QED
        BY <1>3, <3>1, FileEdit
    <2>2. Set(t, "read", k)
      BY <1>1, <1>7
    <2> HIDE DEF k
    <2>3. ReadType'
      <3>1. k.loc \in Loc /\ k.file \in 1 .. Len(files)
        BY <1>3, <1>5, <1>7, <2>1
      <3> QED
        BY <1>2, <2>1, <2>2, <3>1, SetType DEF TypeInv, Step
    <2>4. fds' \in [Seg -> 0 .. Len(files')]
      BY <1>1, <1>2, <1>5, <1>7 DEF TypeInv, ProcessType
    <2> QED
      BY <1>1, <1>2, <2>3, <2>4 DEF TypeInv, ProcessType
  <1> QED
    BY <1>6, <1>7

\* ReadFrame keeps the types.
LEMMA ReadFrameType ==
  ASSUME TypeInv, NEW t \in Thread, ReadFrame(t)
  PROVE  TypeInv'
  <1> DEFINE j == job[t]
  <1>1. /\ UNCHANGED <<disk, mem, fds>> /\ pc[t] = "read"
        /\ IF j.closed \/ j.loc.off > Len(files[j.file])
           THEN Missed(t) /\ UNCHANGED cache
           ELSE /\ Deliver(t, files[j.file][j.loc.off])
                /\ cache' = Kept([loc |-> j.loc, bytes |-> files[j.file][j.loc.off]])
    BY DEF ReadFrame
  <1>2. DiskType' /\ files' = files
    BY <1>1, DiskStays DEF TypeInv
  <1>3. j.loc \in Loc /\ j.file \in 1 .. Len(files)
    BY <1>1 DEF TypeInv, ReadType, Located
  <1>4. cache \in Seq(Frame) /\ Len(cache) <= CacheMax
    BY DEF TypeInv, ProcessType
  <1> HIDE DEF j
  <1>5. files[j.file] \in Seq(Content)
    BY <1>3 DEF TypeInv, DiskType
  <1>6. j.loc.off \in Nat \ {0}
    BY <1>3 DEF Loc
  <1>7. CASE j.closed \/ j.loc.off > Len(files[j.file])
    <2>1. ReadType' /\ cache' = cache
      BY <1>1, <1>2, <1>7, MissedType DEF TypeInv
    <2> QED
      BY <1>1, <1>2, <2>1 DEF TypeInv, ProcessType
  <1>8. CASE ~(j.closed \/ j.loc.off > Len(files[j.file]))
    <2> DEFINE b == files[j.file][j.loc.off]
    <2>1. b \in Content
      BY <1>5, <1>6, <1>8
    <2>2. Deliver(t, b) /\ cache' = Kept([loc |-> j.loc, bytes |-> b])
      BY <1>1, <1>8
    <2> HIDE DEF b
    <2>3. [loc |-> j.loc, bytes |-> b] \in Frame
      BY <1>3, <2>1 DEF Frame
    <2>4. cache' \in Seq(Frame) /\ Len(cache') <= CacheMax
      BY <1>4, <2>2, <2>3, KeptSays
    <2>5. ReadType'
      BY <1>2, <2>1, <2>2, DeliverType DEF TypeInv
    <2> QED
      BY <1>1, <1>2, <2>4, <2>5 DEF TypeInv, ProcessType
  <1> QED
    BY <1>7, <1>8

\* What dropSegReaders leaves of the reads.
LEMMA DropSays ==
  ASSUME pc \in [Thread -> Step], job \in [Thread -> Job], NEW t \in Thread, Drop(t)
  PROVE  /\ pc' \in [Thread -> Step] /\ pc'[t] = "reindex"
         /\ \A u \in Thread : u # t => pc'[u] = pc[u]
         /\ job' \in [Thread -> Job]
         /\ \A u \in Thread : /\ SameRead(job[u], job'[u]) /\ job'[u].here = job[u].here
                              /\ \/ job'[u] = job[u]
                                 \/ job'[u].calm = FALSE
                              /\ u # t /\ pc[u] = "read" => job'[u].calm = FALSE
  <1>1. /\ pc' = [pc EXCEPT ![t] = "reindex"]
        /\ job' = [u \in Thread |-> IF u # t /\ pc[u] = "read"
                     THEN [job[u] EXCEPT !.closed = TRUE, !.calm = FALSE] ELSE job[u]]
    BY DEF Drop
  <1>2. ASSUME NEW u \in Thread
        PROVE  /\ SameRead(job[u], job'[u]) /\ job'[u].here = job[u].here
               /\ job'[u] = job[u] \/ job'[u].calm = FALSE
               /\ u # t /\ pc[u] = "read" => job'[u].calm = FALSE
    <2>1. PICK j \in Job : j = job[u]
      OBVIOUS
    <2>2. CASE u # t /\ pc[u] = "read"
      <3>1. job'[u] = [j EXCEPT !.closed = TRUE, !.calm = FALSE]
        BY <1>1, <2>1, <2>2
      <3> QED
        BY <2>1, <3>1, JobNotes
    <2>3. CASE ~(u # t /\ pc[u] = "read")
      <3>1. job'[u] = j
        BY <1>1, <2>1, <2>3
      <3> QED
        BY <2>1, <2>3, <3>1, JobNotes
    <2> QED
      BY <2>2, <2>3
  <1>3. job' \in [Thread -> Job]
    BY <1>1, <1>2 DEF SameRead
  <1>4. pc' \in [Thread -> Step] /\ pc'[t] = "reindex"
        /\ \A u \in Thread : u # t => pc'[u] = pc[u]
    BY <1>1 DEF Step
  <1> QED
    BY <1>2, <1>3, <1>4

\* Drop keeps the types.
LEMMA DropType ==
  ASSUME TypeInv, NEW t \in Thread, Drop(t)
  PROVE  TypeInv'
  <1>1. /\ UNCHANGED <<disk, mem>> /\ fds' = [s \in Seg |-> 0] /\ cache' = <<>>
    BY DEF Drop
  <1>2. DiskType' /\ files' = files
    BY <1>1, DiskStays DEF TypeInv
  <1>3. ProcessType'
    BY <1>1, <1>2, ReaderAssumption DEF TypeInv, ProcessType, DiskType
  <1>4. ReadType'
    <2>1. pc \in [Thread -> Step] /\ job \in [Thread -> Job] /\ Located
      BY DEF TypeInv, ReadType
    <2>2. /\ pc' \in [Thread -> Step] /\ pc'[t] = "reindex"
          /\ \A u \in Thread : u # t => pc'[u] = pc[u]
          /\ job' \in [Thread -> Job]
          /\ \A u \in Thread : SameRead(job[u], job'[u])
      BY <2>1, DropSays
    <2>3. Located'
      BY <1>2, <2>1, <2>2 DEF Located, SameRead
    <2> QED
      BY <2>2, <2>3 DEF ReadType
  <1> QED
    BY <1>2, <1>3, <1>4 DEF TypeInv

\* Reindex keeps the types.
LEMMA ReindexType ==
  ASSUME TypeInv, NEW t \in Thread, Reindex(t)
  PROVE  TypeInv'
  <1>1. /\ UNCHANGED <<disk, fds, cache>> /\ mem' = Refreshed(ForReindex(mem))
        /\ Set(t, "lookup", [job[t] EXCEPT !.try = 1])
    BY DEF Reindex
  <1>2. DiskType' /\ files' = files
    BY <1>1, DiskStays DEF TypeInv
  <1>3. mem' \in Memory
    BY <1>1, ForgetSays, RefreshedSays DEF TypeInv, DiskType, ProcessType
  <1>4. [job[t] EXCEPT !.try = 1] \in Job
    BY TryEdit DEF TypeInv, ReadType
  <1>5. ReadType'
    BY <1>1, <1>2, <1>4, SetType DEF TypeInv, Step
  <1>6. ProcessType'
    BY <1>1, <1>2, <1>3 DEF TypeInv, ProcessType
  <1> QED
    BY <1>2, <1>5, <1>6 DEF TypeInv

\* A stutter keeps the types.
LEMMA StutterType ==
  ASSUME TypeInv, UNCHANGED vars
  PROVE  TypeInv'
  BY DEF TypeInv, DiskType, ProcessType, ReadType, Located, Numbered, Ids, vars

\* The store begins typed.
LEMMA TypeInit == Init => TypeInv
  <1> SUFFICES ASSUME Init
               PROVE  TypeInv
    OBVIOUS
  <1>1. MaxInode \in Nat \ {0} /\ CacheMax \in Nat \ {0}
    BY ReaderAssumption
  <1>2. DiskType
    BY <1>1 DEF Init, DiskType, Numbered, Ids
  <1>3. ProcessType
    <2>1. mem = [rcp |-> NoRecipe, roff |-> 0, rino |-> 1,
                 idx |-> Nowhere, ioff |-> 0, iino |-> 1]
      BY DEF Init
    <2>2. NoRecipe \in [Content -> Nat] /\ Nowhere \in [Content -> Loc \cup {NoLoc}]
      BY DEF NoRecipe, Nowhere
    <2>3. mem \in Memory
      BY <2>1, <2>2 DEF Memory
    <2> QED
      BY <1>1, <2>3 DEF Init, ProcessType
  <1>4. ReadType
    <2>1. {Asked(c, TRUE) : c \in Content} \subseteq Job
      BY AskedSays
    <2>2. job \in [Thread -> Job]
      BY <2>1 DEF Init
    <2> QED
      BY <2>2 DEF Init, ReadType, Located, Step
  <1> QED
    BY <1>2, <1>3, <1>4 DEF TypeInv

\* Every step keeps the types.
LEMMA TypeStep == TypeInv /\ [Next]_vars => TypeInv'
  <1> SUFFICES ASSUME TypeInv, [Next]_vars
               PROVE  TypeInv'
    OBVIOUS
  <1>1. CASE Write
    BY <1>1, WriteType
  <1>2. ASSUME NEW t \in Thread, Proceed(t) \/ \E c \in Content : Start(t, c)
        PROVE  TypeInv'
    BY <1>2, StartType, FindRecipeType, DecodeType, RereadRecipesType, LookupType,
       CacheHitType, OpenSegmentType, ReadFrameType, DropType, ReindexType DEF Proceed
  <1> QED
    BY <1>1, <1>2, StutterType DEF Next

\* So the types hold always.
LEMMA TypeAlways == Spec => []TypeInv
  <1> QED
    BY TypeInit, TypeStep, PTL DEF Spec

\* Every variable has a value of its type, whatever races there are.
THEOREM ReaderTypeCorrect == Spec => []TypeOK
  <1>1. TypeInv => TypeOK
    BY TypeInvSays
  <1> QED
    BY <1>1, TypeAlways, PTL

----------------------------------------------------------------------------
(* What places hold.                                                       *)

\* What has been written stays as it is, whether or not its file has a name.
Grows ==
  \A s \in DOMAIN files :
    /\ s \in DOMAIN files'
    /\ \A o \in DOMAIN files[s] : o \in DOMAIN files'[s] /\ files'[s][o] = files[s][o]

\* Files that only grow hold what they held.
LEMMA StillHolds ==
  ASSUME Grows
  PROVE  \A l, c : Holds(l, c) => Holds(l, c)'
  BY DEF Grows, Holds

\* Files that stay hold the same.
LEMMA SameFilesHold ==
  ASSUME files' = files
  PROVE  \A l, c : Holds(l, c) <=> Holds(l, c)'
  BY DEF Holds

\* Where no number is given twice the newest segment is the newest file.
LEMMA TopIsNewest ==
  ASSUME DiskType, OneFile
  PROVE  Top = Len(files) /\ Len(files) \in Nat
  <1>1. /\ Top \in 0 .. Len(files) /\ \A s \in Ids : s <= Top
        /\ Len(files) \in Nat
    BY TopSays DEF DiskType
  <1>2. files = <<>> \/ Len(files) \in Ids
    BY DEF OneFile
  <1>3. CASE Len(files) \in Ids
    BY <1>1, <1>3
  <1>4. CASE files = <<>>
    BY <1>1, <1>4
  <1> QED
    BY <1>2, <1>3, <1>4

\* Where frames go, and what was there stays.
LEMMA FramesHold ==
  ASSUME DiskType, OneFile, NEW s \in Ids \cup {Top + 1}, NEW fs \in Seq(Content),
         WriteFrames(s, fs)
  PROVE  /\ Grows /\ \A i \in Seg : segs'[i] \in {0, i}
         /\ files' # <<>> => Len(files') \in Ids'
         /\ Ids \cup {s} \subseteq Ids'
         /\ s = Top + 1 => Len(files') = s
         /\ InSegment(s) \in Nat
         /\ \A m \in 1 .. Len(fs) : \A o :
              o = InSegment(s) + m => Holds([seg |-> s, off |-> o], fs[m])'
  <1>1. /\ Top = Len(files) /\ Len(files) \in Nat /\ MaxFiles \in Nat
        /\ \A i \in Ids : i <= Len(files)
        /\ files \in Seq(Seq(Content)) /\ segs \in [Seg -> 0 .. Len(files)]
        /\ \A i \in Seg : segs[i] \in {0, i}
        /\ files # <<>> => Len(files) \in Ids
    BY TopIsNewest, ReaderAssumption DEF DiskType, Numbered, OneFile
  <1>2. s \in Seg
    BY FramesSay
  <1>3. CASE s \in Ids
    <2>1. segs[s] = s /\ s \in 1 .. Len(files)
      BY <1>1, <1>3 DEF Ids
    <2>2. files' = [files EXCEPT ![s] = @ \o fs] /\ segs' = segs
      BY <1>3, <2>1 DEF WriteFrames
    <2>3. files[s] \in Seq(Content) /\ InSegment(s) = Len(files[s])
      BY <1>1, <1>3, <2>1 DEF InSegment
    <2> DEFINE old == files[s]
               new == old \o fs
    <2>4. /\ new \in Seq(Content) /\ Len(old) \in Nat /\ Len(new) = Len(old) + Len(fs)
          /\ \A o \in 1 .. Len(old) : o \in DOMAIN new /\ new[o] = old[o]
          /\ \A m \in 1 .. Len(fs) : Len(old) + m \in DOMAIN new /\ new[Len(old) + m] = fs[m]
      BY <2>3
    <2>5. /\ DOMAIN files' = DOMAIN files /\ files'[s] = new
          /\ \A i \in DOMAIN files : i # s => files'[i] = files[i]
          /\ Len(files') = Len(files) /\ DOMAIN files = 1 .. Len(files)
      BY <1>1, <2>1, <2>2
    <2>6. DOMAIN old = 1 .. Len(old)
      BY <2>3
    <2> HIDE DEF new
    <2>7. Grows
      BY <2>4, <2>5, <2>6 DEF Grows
    <2>8. ASSUME NEW m \in 1 .. Len(fs)
          PROVE  \A o : o = InSegment(s) + m => Holds([seg |-> s, off |-> o], fs[m])'
      BY <2>1, <2>3, <2>4, <2>5 DEF Holds
    <2>9. Ids' = Ids /\ Top + 1 \notin Ids
      BY <1>1, <2>2 DEF Ids
    <2>10. files' # <<>> => Len(files') \in Ids'
      BY <1>1, <2>1, <2>5, <2>9
    <2> QED
      BY <1>1, <1>3, <2>2, <2>3, <2>4, <2>7, <2>8, <2>9, <2>10
  <1>4. CASE s \notin Ids
    <2>1. s = Len(files) + 1 /\ files' = Append(files, fs)
          /\ segs' = [segs EXCEPT ![s] = s]
      BY <1>1, <1>4 DEF WriteFrames
    <2>2. /\ Len(files') = s /\ files'[s] = fs /\ s \in DOMAIN files'
          /\ \A i \in DOMAIN files : i \in DOMAIN files' /\ files'[i] = files[i]
      BY <1>1, <2>1
    <2>3. segs'[s] = s /\ \A i \in Seg : i # s => segs'[i] = segs[i]
      BY <1>1, <1>2, <2>1
    <2>4. s \in Ids' /\ Ids \subseteq Ids'
      BY <1>2, <2>3 DEF Ids, Seg
    <2>5. InSegment(s) = 0
      BY <1>4 DEF InSegment
    <2>6. ASSUME NEW m \in 1 .. Len(fs)
          PROVE  \A o : o = InSegment(s) + m => Holds([seg |-> s, off |-> o], fs[m])'
      BY <2>2, <2>5 DEF Holds
    <2>7. Grows
      BY <2>2 DEF Grows
    <2> QED
      BY <1>1, <2>2, <2>3, <2>4, <2>5, <2>6, <2>7
  <1> QED
    BY <1>3, <1>4

\* The files after a step of the writer that leaves them alone.
LEMMA SameFilesGrow ==
  ASSUME DiskType, files' = files
  PROVE  Grows
  BY DEF Grows

\* The part of OneFile that the writer's steps change.
OneFileDisk ==
  /\ \A s \in Seg : segs[s] \in {0, s}
  /\ files # <<>> => Len(files) \in Ids
  /\ phase # "delete" => victims = {}
  /\ Len(files) \notin victims

\* The writer gives no number twice and deletes no newest file.
LEMMA WriteOneFile ==
  ASSUME "reuse" \notin Races, TypeInv, OneFile, Write
  PROVE  Grows /\ OneFileDisk'
  <1> USE DEF TypeInv
  <1>1. OneFileDisk /\ Top = Len(files) /\ Len(files) \in Nat
    BY TopIsNewest DEF OneFile, OneFileDisk
  <1>2. ASSUME UNCHANGED <<segs, files>>
        PROVE  /\ Grows /\ \A s \in Seg : segs'[s] \in {0, s}
               /\ files' # <<>> => Len(files') \in Ids'
    BY <1>1, <1>2, SameFilesGrow DEF OneFileDisk, Ids
  <1>3. ASSUME NEW c \in Content, Store(c)
        PROVE  Grows /\ OneFileDisk'
    <2>1. phase = "idle" /\ victims = {} /\ UNCHANGED <<phase, victims>>
      BY <1>1, <1>3 DEF Store, OneFileDisk
    <2>2. CASE Place[c] # NoLoc
      BY <1>2, <1>3, <2>1, <2>2 DEF Store, OneFileDisk
    <2>3. CASE Place[c] = NoLoc
      <3>1. WriteFrames(Target, <<c>>) /\ <<c>> \in Seq(Content)
        BY <1>3, <2>3 DEF Store
      <3>2. /\ Grows /\ \A i \in Seg : segs'[i] \in {0, i}
            /\ files' # <<>> => Len(files') \in Ids'
        BY <3>1, TargetSays, FramesHold
      <3> QED
        BY <2>1, <3>2 DEF OneFileDisk
    <2> QED
      BY <2>2, <2>3
  <1>4. ASSUME NEW c \in Content, RemoveContent(c)
        PROVE  Grows /\ OneFileDisk'
    BY <1>1, <1>2, <1>4 DEF RemoveContent, OneFileDisk
  <1>5. CASE CompactRecipes
    BY <1>1, <1>2, <1>5 DEF CompactRecipes, OneFileDisk
  <1>6. ASSUME NEW vs \in SUBSET Seg, SwapIndex(vs)
        PROVE  Grows /\ OneFileDisk'
    <2>1. phase' = "delete" /\ victims' = vs /\ vs \subseteq Ids
      BY <1>6 DEF SwapIndex, MayRewrite
    <2>2. PICK moved : /\ IsListOf(moved, Moving(vs))
                       /\ IF moved = <<>> THEN UNCHANGED <<segs, files>>
                                          ELSE WriteFrames(Top + 1, moved)
                       /\ Top \notin vs \/ moved # <<>>
      BY <1>6, SwapSays
    <2>3. CASE moved = <<>>
      BY <1>1, <1>2, <2>1, <2>2, <2>3 DEF OneFileDisk
    <2>4. CASE moved # <<>>
      <3>1. moved \in Seq(Content) /\ WriteFrames(Top + 1, moved)
        BY <2>2, <2>4 DEF IsListOf
      <3>2. /\ Grows /\ \A i \in Seg : segs'[i] \in {0, i}
            /\ files' # <<>> => Len(files') \in Ids'
            /\ Len(files') = Top + 1
        BY <3>1, FramesHold
      <3>3. Top + 1 \notin vs
        BY <1>1, <2>1 DEF DiskType, Numbered
      <3> QED
        BY <2>1, <3>2, <3>3 DEF OneFileDisk
    <2> QED
      BY <2>3, <2>4
  <1>7. CASE StopsCollecting
    BY <1>1, <1>2, <1>7 DEF StopsCollecting, OneFileDisk
  <1>8. ASSUME NEW gone \in SUBSET Seg, DeleteSegments(gone)
        PROVE  Grows /\ OneFileDisk'
    <2>1. /\ phase' = "idle" /\ victims' = {} /\ gone \subseteq victims /\ files' = files
          /\ segs' = [s \in Seg |-> IF s \in gone THEN 0 ELSE segs[s]]
      BY <1>8 DEF DeleteSegments
    <2>2. \A s \in Seg : segs'[s] \in {0, s}
      BY <1>1, <2>1 DEF OneFileDisk
    <2>3. Len(files) \in Ids => Len(files) \in Ids'
      BY <1>1, <2>1 DEF OneFileDisk, Ids
    <2> QED
      BY <1>1, <2>1, <2>2, <2>3, SameFilesGrow DEF OneFileDisk
  <1> QED
    BY <1>3, <1>4, <1>5, <1>6, <1>7, <1>8 DEF Write

----------------------------------------------------------------------------
(* Steps of a read.                                                        *)

\* The read of t goes on at step s as k; what it was asked for, whether it was
\* disturbed and whether its content was there stay.
Goes(t, s, k) ==
  /\ s \in Step /\ k \in Job /\ Set(t, s, k)
  /\ k.c = job[t].c /\ k.calm = job[t].calm /\ k.here = job[t].here

\* The read ends with an error, or with the bytes got.
EndsWith(t, s, k, got) == Goes(t, s, k) /\ s = "idle" /\ k.got = got

\* A read that ends is idle.
LEMMA EndsGoes ==
  ASSUME ReadType, NEW t \in Thread, NEW got \in Content \cup {Bad}, Ends(t, got)
  PROVE  \E s \in Step, k \in Job : EndsWith(t, s, k, got)
  BY EndsSays DEF ReadType, EndsWith, Goes, Step

\* The read goes to its recipe, if the process knows one.
LEMMA AtRecipeSays ==
  ASSUME ReadType, mem' \in Memory, NEW t \in Thread, NEW j \in Job,
         j.c = job[t].c, j.calm = job[t].calm, j.here = job[t].here, AtRecipe(t, j)
  PROVE  \E s \in Step, k \in Job :
           \/ mem'.rcp[j.c] = 0 /\ EndsWith(t, s, k, Bad)
           \/ /\ mem'.rcp[j.c] # 0 /\ Goes(t, s, k) /\ s = "decode"
              /\ k.pos = mem'.rcp[j.c] /\ k.try = j.try /\ k.got = j.got
  <1>1. CASE mem'.rcp[j.c] = 0
    BY <1>1, EndsGoes DEF AtRecipe
  <1>2. CASE mem'.rcp[j.c] # 0
    <2> DEFINE p == mem'.rcp[j.c]
               k == [j EXCEPT !.pos = p]
    <2>1. p \in Nat
      BY DEF Memory, Job
    <2>2. Set(t, "decode", k)
      BY <1>2 DEF AtRecipe
    <2>3. k \in Job /\ k.c = j.c /\ k.calm = j.calm /\ k.here = j.here
          /\ k.pos = p /\ k.try = j.try /\ k.got = j.got
      <3> HIDE DEF p
      <3> QED
        BY <2>1 DEF Job
    <2> HIDE DEF k
    <2>4. Goes(t, "decode", k) /\ "decode" \in Step
      BY <2>2, <2>3 DEF Goes, Step
    <2> QED
      BY <1>2, <2>3, <2>4
  <1> QED
    BY <1>1, <1>2

\* An attempt that came to nothing is repeated once.
LEMMA MissedSays ==
  ASSUME ReadType, NEW t \in Thread, Missed(t)
  PROVE  \E s \in Step, k \in Job :
           \/ job[t].try = 0 /\ Goes(t, s, k) /\ s = "drop" /\ k = job[t]
           \/ job[t].try = 1 /\ EndsWith(t, s, k, Bad)
  <1>1. job[t] \in Job /\ job[t].try \in 0 .. 1
    BY DEF ReadType, Job
  <1>2. CASE job[t].try = 0
    BY <1>1, <1>2 DEF Missed, Goes, Step
  <1>3. CASE job[t].try = 1
    BY <1>3, EndsGoes DEF Missed
  <1> QED
    BY <1>1, <1>2, <1>3

\* A frame that is there ends the read, unless it is not the block.
LEMMA DeliverSays ==
  ASSUME ReadType, NEW t \in Thread, NEW b \in Content, Deliver(t, b)
  PROVE  \/ \E s \in Step, k \in Job : EndsWith(t, s, k, b)
         \/ b # job[t].block /\ Missed(t)
  BY EndsGoes DEF Deliver


\* What each step of a read does.
LEMMA FindRecipeSays ==
  ASSUME TypeInv, NEW t \in Thread, FindRecipe(t)
  PROVE  /\ pc[t] = "recipe" /\ UNCHANGED <<disk, fds, cache>> /\ mem' \in Memory
         /\ mem' = IfMissing(mem.rcp[job[t].c] = 0)
         /\ \E s \in Step, k \in Job :
              \/ mem'.rcp[job[t].c] = 0 /\ EndsWith(t, s, k, Bad)
              \/ /\ mem'.rcp[job[t].c] # 0 /\ Goes(t, s, k) /\ s = "decode"
                 /\ k.pos = mem'.rcp[job[t].c] /\ k.try = job[t].try /\ k.got = job[t].got
  <1>1. /\ pc[t] = "recipe" /\ UNCHANGED <<disk, fds, cache>>
        /\ mem' = IfMissing(mem.rcp[job[t].c] = 0) /\ AtRecipe(t, job[t])
    BY DEF FindRecipe
  <1>2. mem' \in Memory
    BY <1>1, RefreshType
  <1>3. ReadType /\ job[t] \in Job
    BY DEF TypeInv, ReadType
  <1> QED
    BY <1>1, <1>2, <1>3, AtRecipeSays

\* Decode: on with the block, once more, or the end.
LEMMA DecodeSays ==
  ASSUME TypeInv, NEW t \in Thread, Decode(t)
  PROVE  /\ pc[t] = "decode" /\ UNCHANGED <<disk, process>>
         /\ \E b \in Decoded(job[t].pos, job[t].c) : \E s \in Step, k \in Job :
              \/ /\ b \in Content /\ Goes(t, s, k) /\ s = "lookup"
                 /\ k.block = b /\ k.try = 0 /\ k.got = job[t].got
              \/ b = Bad /\ job[t].try = 0 /\ Goes(t, s, k) /\ s = "reread" /\ k = job[t]
              \/ b = Bad /\ job[t].try = 1 /\ EndsWith(t, s, k, Bad)
  <1>1. pc[t] = "decode" /\ UNCHANGED <<disk, process>>
    BY DEF Decode
  <1>2. PICK b \in Decoded(job[t].pos, job[t].c) :
          IF b # Bad THEN Set(t, "lookup", [job[t] EXCEPT !.block = b, !.try = 0])
          ELSE IF job[t].try = 0 THEN Set(t, "reread", job[t]) ELSE Ends(t, Bad)
    BY DEF Decode
  <1>3. job[t] \in Job /\ job[t].c \in Content /\ job[t].try \in 0 .. 1 /\ ReadType
    BY DEF TypeInv, ReadType, Job
  <1>4. b \in Content \cup {Bad}
    <2>1. \A i \in DOMAIN rlog : rlog[i].c \in Content
      <3>1. \A i \in DOMAIN rlog : rlog[i] \in Recipe
        BY DEF TypeInv, DiskType
      <3> QED
        BY <3>1 DEF Recipe
    <2> QED
      BY <1>3, <2>1 DEF Decoded
  <1>5. CASE b # Bad
    <2> DEFINE k == [job[t] EXCEPT !.block = b, !.try = 0]
    <2>1. /\ k \in Job /\ k.c = job[t].c /\ k.block = b /\ k.try = 0 /\ k.got = job[t].got
          /\ k.calm = job[t].calm /\ k.here = job[t].here
      BY <1>3, <1>4, <1>5, BlockEdit
    <2>2. Set(t, "lookup", k)
      BY <1>2, <1>5
    <2> HIDE DEF k
    <2>3. Goes(t, "lookup", k) /\ "lookup" \in Step
      BY <2>1, <2>2 DEF Goes, Step
    <2> QED
      BY <1>1, <1>4, <1>5, <2>1, <2>3
  <1>6. CASE b = Bad /\ job[t].try = 0
    <2>1. Goes(t, "reread", job[t]) /\ "reread" \in Step
      BY <1>2, <1>3, <1>6 DEF Goes, Step
    <2> QED
      BY <1>1, <1>3, <1>6, <2>1
  <1>7. CASE b = Bad /\ job[t].try = 1
    <2>1. Ends(t, Bad)
      BY <1>2, <1>7
    <2>2. PICK s \in Step, k \in Job : EndsWith(t, s, k, Bad)
      BY <1>3, <2>1, EndsGoes
    <2> QED
      BY <1>1, <1>7, <2>2
  <1> QED
    BY <1>3, <1>5, <1>6, <1>7

\* RereadRecipes: the whole of recipes.log is read, and decides.
LEMMA RereadRecipesSays ==
  ASSUME TypeInv, NEW t \in Thread, RereadRecipes(t)
  PROVE  /\ pc[t] = "reread" /\ UNCHANGED <<disk, fds, cache>> /\ mem' \in Memory
         /\ mem' = Refreshed([mem EXCEPT !.rino = 0])
         /\ \E s \in Step, k \in Job :
              \/ mem'.rcp[job[t].c] = 0 /\ EndsWith(t, s, k, Bad)
              \/ /\ mem'.rcp[job[t].c] # 0 /\ Goes(t, s, k) /\ s = "decode"
                 /\ k.pos = mem'.rcp[job[t].c] /\ k.try = 1 /\ k.got = job[t].got
  <1> DEFINE j == [job[t] EXCEPT !.try = 1]
  <1>1. /\ pc[t] = "reread" /\ UNCHANGED <<disk, fds, cache>>
        /\ mem' = Refreshed([mem EXCEPT !.rino = 0]) /\ AtRecipe(t, j)
    BY DEF RereadRecipes
  <1>2. mem' \in Memory
    BY <1>1, ForgetSays, RefreshedSays DEF TypeInv, DiskType, ProcessType
  <1>3. ReadType /\ job[t] \in Job
    BY DEF TypeInv, ReadType
  <1>4. /\ j \in Job /\ j.c = job[t].c /\ j.calm = job[t].calm /\ j.here = job[t].here
        /\ j.try = 1 /\ j.got = job[t].got
    BY <1>3, TryEdit
  <1> HIDE DEF j
  <1>5. \E s \in Step, k \in Job :
          \/ mem'.rcp[j.c] = 0 /\ EndsWith(t, s, k, Bad)
          \/ /\ mem'.rcp[j.c] # 0 /\ Goes(t, s, k) /\ s = "decode"
             /\ k.pos = mem'.rcp[j.c] /\ k.try = j.try /\ k.got = j.got
    BY <1>1, <1>2, <1>3, <1>4, AtRecipeSays
  <1> QED
    BY <1>1, <1>2, <1>4, <1>5

\* Lookup: the index, refreshed if it has no place, decides.
LEMMA LookupSays ==
  ASSUME TypeInv, NEW t \in Thread, Lookup(t)
  PROVE  /\ pc[t] = "lookup" /\ UNCHANGED <<disk, fds, cache>> /\ mem' \in Memory
         /\ mem' = IfMissing(mem.idx[job[t].block] = NoLoc)
         /\ \E s \in Step, k \in Job :
              \/ mem'.idx[job[t].block] = NoLoc /\ EndsWith(t, s, k, Bad)
              \/ /\ mem'.idx[job[t].block] # NoLoc /\ Goes(t, s, k) /\ s = "frame"
                 /\ k.loc = mem'.idx[job[t].block] /\ k.block = job[t].block
                 /\ k.try = job[t].try /\ k.got = job[t].got
  <1> DEFINE l == mem'.idx[job[t].block]
  <1>1. /\ pc[t] = "lookup" /\ UNCHANGED <<disk, fds, cache>>
        /\ mem' = IfMissing(mem.idx[job[t].block] = NoLoc)
        /\ IF l = NoLoc THEN Ends(t, Bad) ELSE Set(t, "frame", [job[t] EXCEPT !.loc = l])
    BY DEF Lookup
  <1>2. mem' \in Memory
    BY <1>1, RefreshType
  <1>3. ReadType /\ job[t] \in Job
    BY DEF TypeInv, ReadType
  <1>4. l \in Loc \cup {NoLoc}
    BY <1>2, <1>3 DEF Memory, Job
  <1> HIDE DEF l
  <1>5. CASE l = NoLoc
    <2>1. PICK s \in Step, k \in Job : EndsWith(t, s, k, Bad)
      BY <1>1, <1>3, <1>5, EndsGoes
    <2> QED
      BY <1>1, <1>2, <1>5, <2>1 DEF l
  <1>6. CASE l # NoLoc
    <2> DEFINE k == [job[t] EXCEPT !.loc = l]
    <2>1. /\ k \in Job /\ k.c = job[t].c /\ k.block = job[t].block /\ k.try = job[t].try
          /\ k.loc = l /\ k.got = job[t].got /\ k.calm = job[t].calm /\ k.here = job[t].here
      BY <1>3, <1>4, <1>6, LocEdit
    <2>2. Set(t, "frame", k)
      BY <1>1, <1>6
    <2> HIDE DEF k
    <2>3. Goes(t, "frame", k) /\ "frame" \in Step
      BY <2>1, <2>2 DEF Goes, Step
    <2> QED
      BY <1>1, <1>2, <1>6, <2>1, <2>3 DEF l
  <1> QED
    BY <1>5, <1>6

\* CacheHit: a frame of the place wanted is delivered and moved to the front.
LEMMA CacheHitSays ==
  ASSUME TypeInv, NEW t \in Thread, CacheHit(t)
  PROVE  /\ pc[t] = "frame" /\ UNCHANGED <<disk, mem, fds>>
         /\ \E i \in DOMAIN cache :
              /\ cache[i] \in Frame /\ cache[i].loc = job[t].loc
              /\ cache[i].bytes \in Content /\ Deliver(t, cache[i].bytes)
              /\ cache' = <<cache[i]>> \o RemoveAt(cache, i)
  <1> DEFINE i == Cached(job[t].loc)
  <1>1. /\ pc[t] = "frame" /\ UNCHANGED <<disk, mem, fds>>
        /\ i # 0 /\ Deliver(t, cache[i].bytes)
        /\ cache' = <<cache[i]>> \o RemoveAt(cache, i)
    BY DEF CacheHit
  <1>2. i \in DOMAIN cache /\ cache[i].loc = job[t].loc /\ cache \in Seq(Frame)
    BY <1>1, CachedSays DEF TypeInv, ProcessType
  <1> HIDE DEF i
  <1>3. cache[i] \in Frame
    BY <1>2
  <1>4. cache[i].bytes \in Content
    BY <1>3 DEF Frame
  <1> QED
    BY <1>1, <1>2, <1>3, <1>4

\* OpenSegment: a descriptor of the segment, or a miss.
LEMMA OpenSegmentSays ==
  ASSUME TypeInv, NEW t \in Thread, OpenSegment(t)
  PROVE  /\ pc[t] = "frame" /\ UNCHANGED <<disk, mem, cache>>
         /\ job[t].loc \in Loc /\ job[t].loc.seg \in Seg
         /\ \/ Descriptor(job[t].loc.seg) = 0 /\ fds' = fds /\ Missed(t)
            \/ /\ Descriptor(job[t].loc.seg) # 0
               /\ fds' = [fds EXCEPT ![job[t].loc.seg] = Descriptor(job[t].loc.seg)]
               /\ \E s \in Step, k \in Job :
                    /\ Goes(t, s, k) /\ s = "read" /\ k.loc = job[t].loc
                    /\ k.file = Descriptor(job[t].loc.seg) /\ k.closed = FALSE
                    /\ k.block = job[t].block /\ k.try = job[t].try /\ k.got = job[t].got
  <1> DEFINE s == job[t].loc.seg
             f == Descriptor(s)
  <1>1. /\ UNCHANGED <<disk, mem, cache>> /\ pc[t] = "frame"
        /\ IF f = 0 THEN Missed(t) /\ UNCHANGED fds
           ELSE /\ Set(t, "read", [job[t] EXCEPT !.file = f, !.closed = FALSE])
                /\ fds' = [fds EXCEPT ![s] = f]
    BY DEF OpenSegment
  <1>2. job[t].loc \in Loc /\ job[t] \in Job
    BY <1>1 DEF TypeInv, ReadType, Located
  <1>3. s \in Seg
    BY <1>2 DEF Loc
  <1>4. f \in Nat
    BY <1>3 DEF Descriptor, TypeInv, DiskType, ProcessType
  <1> HIDE DEF f
  <1>5. CASE f = 0
    BY <1>1, <1>2, <1>3, <1>5 DEF f
  <1>6. CASE f # 0
    <2> DEFINE k == [job[t] EXCEPT !.file = f, !.closed = FALSE]
    <2>1. /\ k \in Job /\ k.c = job[t].c /\ k.block = job[t].block /\ k.try = job[t].try
          /\ k.loc = job[t].loc /\ k.file = f /\ k.closed = FALSE /\ k.got = job[t].got
          /\ k.calm = job[t].calm /\ k.here = job[t].here
      BY <1>2, <1>4, FileEdit
    <2>2. Set(t, "read", k)
      BY <1>1, <1>6
    <2> HIDE DEF k
    <2>3. Goes(t, "read", k) /\ "read" \in Step
      BY <2>1, <2>2 DEF Goes, Step
    <2> QED
      BY <1>1, <1>2, <1>3, <1>6, <2>1, <2>3 DEF f
  <1> QED
    BY <1>5, <1>6

\* ReadFrame: the frame in the file, or a miss.
LEMMA ReadFrameSays ==
  ASSUME TypeInv, NEW t \in Thread, ReadFrame(t)
  PROVE  /\ pc[t] = "read" /\ UNCHANGED <<disk, mem, fds>>
         /\ job[t].loc \in Loc /\ job[t].file \in DOMAIN files
         /\ \/ /\ job[t].closed \/ job[t].loc.off \notin DOMAIN files[job[t].file]
               /\ Missed(t) /\ cache' = cache
            \/ \E b \in Content :
                 /\ job[t].loc.off \in DOMAIN files[job[t].file]
                 /\ b = files[job[t].file][job[t].loc.off] /\ Deliver(t, b)
                 /\ [loc |-> job[t].loc, bytes |-> b] \in Frame
                 /\ cache' = Kept([loc |-> job[t].loc, bytes |-> b])
  <1> DEFINE j == job[t]
  <1>1. /\ UNCHANGED <<disk, mem, fds>> /\ pc[t] = "read"
        /\ IF j.closed \/ j.loc.off > Len(files[j.file])
           THEN Missed(t) /\ UNCHANGED cache
           ELSE /\ Deliver(t, files[j.file][j.loc.off])
                /\ cache' = Kept([loc |-> j.loc, bytes |-> files[j.file][j.loc.off]])
    BY DEF ReadFrame
  <1>2. j.loc \in Loc /\ j.file \in 1 .. Len(files) /\ files \in Seq(Seq(Content))
    BY <1>1 DEF TypeInv, ReadType, Located, DiskType
  <1> HIDE DEF j
  <1>3. files[j.file] \in Seq(Content) /\ j.file \in DOMAIN files
    BY <1>2
  <1>4. j.loc.off \in Nat \ {0}
    BY <1>2 DEF Loc
  <1>5. j.loc.off > Len(files[j.file]) <=> j.loc.off \notin DOMAIN files[j.file]
    BY <1>3, <1>4
  <1>6. CASE j.closed \/ j.loc.off > Len(files[j.file])
    BY <1>1, <1>2, <1>3, <1>5, <1>6 DEF j
  <1>7. CASE ~(j.closed \/ j.loc.off > Len(files[j.file]))
    <2> DEFINE b == files[j.file][j.loc.off]
    <2>1. b \in Content
      BY <1>3, <1>4, <1>7
    <2>2. Deliver(t, b) /\ cache' = Kept([loc |-> j.loc, bytes |-> b])
      BY <1>1, <1>7
    <2>3. [loc |-> j.loc, bytes |-> b] \in Frame
      BY <1>2, <2>1 DEF Frame
    <2>4. j.loc.off \in DOMAIN files[j.file]
      BY <1>5, <1>7
    <2> QED
      BY <1>1, <1>2, <1>3, <2>1, <2>2, <2>3, <2>4 DEF j
  <1> QED
    BY <1>6, <1>7

\* Reindex: the whole of index.log is read, for a second try.
LEMMA ReindexSays ==
  ASSUME TypeInv, NEW t \in Thread, Reindex(t)
  PROVE  /\ pc[t] = "reindex" /\ UNCHANGED <<disk, fds, cache>> /\ mem' \in Memory
         /\ mem' = Refreshed(ForReindex(mem))
         /\ \E s \in Step, k \in Job :
              /\ Goes(t, s, k) /\ s = "lookup" /\ k.try = 1
              /\ k.block = job[t].block /\ k.got = job[t].got
  <1> DEFINE k == [job[t] EXCEPT !.try = 1]
  <1>1. /\ pc[t] = "reindex" /\ UNCHANGED <<disk, fds, cache>>
        /\ mem' = Refreshed(ForReindex(mem)) /\ Set(t, "lookup", k)
    BY DEF Reindex
  <1>2. mem' \in Memory
    BY <1>1, ForgetSays, RefreshedSays DEF TypeInv, DiskType, ProcessType
  <1>3. job[t] \in Job
    BY DEF TypeInv, ReadType
  <1>4. /\ k \in Job /\ k.c = job[t].c /\ k.block = job[t].block /\ k.try = 1
        /\ k.got = job[t].got /\ k.calm = job[t].calm /\ k.here = job[t].here
    BY <1>3, TryEdit
  <1> HIDE DEF k
  <1>5. Goes(t, "lookup", k) /\ "lookup" \in Step
    BY <1>1, <1>4 DEF Goes, Step
  <1> QED
    BY <1>1, <1>2, <1>4, <1>5

----------------------------------------------------------------------------
(* The cache.                                                              *)

\* The frame that was used has come to the front, and all are there still.
LEMMA UsedHolds ==
  ASSUME TypeInv, CacheHolds, files' = files, NEW i \in DOMAIN cache,
         cache' = <<cache[i]>> \o RemoveAt(cache, i)
  PROVE  CacheHolds'
  <1>1. cache \in Seq(Frame) /\ Len(cache) \in Nat /\ i \in 1 .. Len(cache)
    BY DEF TypeInv, ProcessType
  <1>2. /\ cache' \in Seq(Frame) /\ Len(cache') = Len(cache)
        /\ \A k \in 1 .. Len(cache) : cache'[k] = cache[Before(i, k)]
    BY <1>1, UsedSays
  <1>3. \A k \in 1 .. Len(cache) : Before(i, k) \in 1 .. Len(cache)
    BY <1>1 DEF Before
  <1>4. \A k, m \in 1 .. Len(cache) : Before(i, k) = Before(i, m) => k = m
    BY <1>1 DEF Before
  <1>5. DOMAIN cache' = 1 .. Len(cache) /\ DOMAIN cache = 1 .. Len(cache)
    BY <1>1, <1>2
  <1>6. ASSUME NEW k \in DOMAIN cache', NEW m \in DOMAIN cache', cache'[k].loc = cache'[m].loc
        PROVE  k = m
    <2>1. /\ k \in 1 .. Len(cache) /\ m \in 1 .. Len(cache)
          /\ Before(i, k) \in DOMAIN cache /\ Before(i, m) \in DOMAIN cache
      BY <1>3, <1>5
    <2>2. cache[Before(i, k)].loc = cache[Before(i, m)].loc
      BY <1>2, <1>6, <2>1
    <2>3. Before(i, k) = Before(i, m)
      BY <2>1, <2>2 DEF CacheHolds
    <2> QED
      BY <1>4, <2>1, <2>3
  <1>7. ASSUME NEW k \in DOMAIN cache'
        PROVE  Holds(cache[k].loc, cache[k].bytes)'
    <2>1. PICK m \in DOMAIN cache : cache'[k] = cache[m]
      BY <1>2, <1>3, <1>5
    <2> QED
      BY <2>1 DEF CacheHolds, Holds
  <1> QED
    BY <1>6, <1>7 DEF CacheHolds

\* A frame that was read from its place is in front, or another reader's of
\* that place is there.
LEMMA KeptHolds ==
  ASSUME TypeInv, CacheHolds, files' = files, NEW f \in Frame, Holds(f.loc, f.bytes),
         cache' = Kept(f)
  PROVE  CacheHolds'
  <1>1. cache \in Seq(Frame) /\ Len(cache) <= CacheMax /\ Len(cache) \in Nat
    BY DEF TypeInv, ProcessType
  <1>2. /\ cache' \in Seq(Frame)
        /\ \/ cache' = cache
           \/ /\ \A i \in DOMAIN cache : cache[i].loc # f.loc
              /\ Len(cache') \in 1 .. Len(cache) + 1
              /\ cache'[1] = f
              /\ \A k \in DOMAIN cache' :
                   k > 1 => k - 1 \in DOMAIN cache /\ cache'[k] = cache[k - 1]
    BY <1>1, KeptSays
  <1>3. CASE cache' = cache
    BY <1>3 DEF CacheHolds, Holds
  <1>4. CASE /\ \A i \in DOMAIN cache : cache[i].loc # f.loc
             /\ Len(cache') \in 1 .. Len(cache) + 1
             /\ cache'[1] = f
             /\ \A k \in DOMAIN cache' :
                  k > 1 => k - 1 \in DOMAIN cache /\ cache'[k] = cache[k - 1]
    <2>1. DOMAIN cache' = 1 .. Len(cache') /\ Len(cache') \in Nat
      BY <1>2
    <2>2. \A k \in DOMAIN cache' : k \in Nat /\ (k = 1 \/ k > 1)
      BY <2>1
    <2>3. ASSUME NEW k \in DOMAIN cache', NEW m \in DOMAIN cache',
                 cache'[k].loc = cache'[m].loc
          PROVE  k = m
      <3>1. CASE k = 1 /\ m = 1
        BY <3>1
      <3>2. CASE k = 1 /\ m > 1
        BY <1>4, <2>3, <3>2
      <3>3. CASE k > 1 /\ m = 1
        BY <1>4, <2>3, <3>3
      <3>4. CASE k > 1 /\ m > 1
        <4>1. k - 1 = m - 1
          BY <1>4, <2>3, <3>4 DEF CacheHolds
        <4> QED
          BY <2>2, <4>1
      <3> QED
        BY <2>2, <3>1, <3>2, <3>3, <3>4
    <2>4. ASSUME NEW k \in DOMAIN cache'
          PROVE  Holds(cache[k].loc, cache[k].bytes)'
      <3>1. CASE k = 1
        BY <1>4, <3>1 DEF Holds
      <3>2. CASE k > 1
        <4>1. PICK m \in DOMAIN cache : cache'[k] = cache[m]
          BY <1>4, <3>2
        <4> QED
          BY <4>1 DEF CacheHolds, Holds
      <3> QED
        BY <2>2, <3>1, <3>2
    <2> QED
      BY <2>3, <2>4 DEF CacheHolds
  <1> QED
    BY <1>2, <1>3, <1>4

\* The files of the reads after a step of one of them.
LEMMA GoesOneFile ==
  ASSUME TypeInv, OneFile, UNCHANGED disk, \A n \in Seg : fds'[n] \in {0, n},
         NEW t \in Thread, NEW s \in Step, NEW k \in Job, Goes(t, s, k),
         s = "read" => k.file = k.loc.seg
  PROVE  OneFile'
  <1>1. /\ pc'[t] = s /\ job'[t] = k
        /\ \A u \in Thread \ {t} : pc'[u] = pc[u] /\ job'[u] = job[u]
    BY SetSays DEF Goes, TypeInv, ReadType
  <1>2. segs' = segs /\ files' = files /\ phase' = phase /\ victims' = victims /\ Ids' = Ids
    BY DEF disk, Ids
  <1>3. \A u \in Thread : pc'[u] = "read" => job'[u].file = job'[u].loc.seg
    BY <1>1 DEF OneFile
  <1> QED
    BY <1>2, <1>3 DEF OneFile

\* What the cache rests on.
CacheInv == TypeInv /\ OneFile /\ CacheHolds

\* A step that leaves the files and the cache alone.
LEMMA SameCacheHolds ==
  ASSUME CacheHolds, files' = files, cache' = cache
  PROVE  CacheHolds'
  BY DEF CacheHolds, Holds

\* A step of a read keeps the cache sound, whatever races there are.
LEMMA ProceedCacheInv ==
  ASSUME CacheInv, NEW t \in Thread, Proceed(t) \/ \E c \in Content : Start(t, c)
  PROVE  OneFile' /\ CacheHolds'
  <1> USE DEF CacheInv
  <1>1. \A n \in Seg : fds[n] \in {0, n} /\ segs[n] \in {0, n}
    BY DEF OneFile
  <1>2. ASSUME UNCHANGED <<disk, fds>>, NEW s \in Step, NEW k \in Job, Goes(t, s, k),
               s = "read" => k.file = k.loc.seg
        PROVE  OneFile'
    BY <1>1, <1>2, GoesOneFile
  <1>3. ASSUME UNCHANGED <<disk, fds>>, Missed(t)
        PROVE  OneFile'
    <2>1. PICK s \in Step, k \in Job : Goes(t, s, k) /\ s # "read"
      BY <1>3, MissedSays DEF EndsWith, TypeInv
    <2> QED
      BY <1>2, <1>3, <2>1
  <1>4. ASSUME UNCHANGED <<disk, fds>>, NEW b \in Content, Deliver(t, b)
        PROVE  OneFile'
    <2>1. CASE Missed(t)
      BY <1>3, <1>4, <2>1
    <2>2. CASE \E s \in Step, k \in Job : EndsWith(t, s, k, b)
      BY <1>2, <1>4, <2>2 DEF EndsWith
    <2> QED
      BY <1>4, <2>1, <2>2, DeliverSays DEF TypeInv
  <1>5. ASSUME UNCHANGED disk
        PROVE  files' = files
    BY <1>5 DEF disk
  <1>6. ASSUME NEW c \in Content, Start(t, c)
        PROVE  OneFile' /\ CacheHolds'
    <2>1. UNCHANGED <<disk, fds, cache>>
      BY <1>6, StartSays DEF process
    <2>2. PICK k \in Job : Set(t, "recipe", k)
      BY <1>6, StartSays
    <2>3. /\ pc'[t] = "recipe" /\ job'[t] = k
          /\ \A u \in Thread \ {t} : pc'[u] = pc[u] /\ job'[u] = job[u]
      BY <2>2, SetSays DEF TypeInv, ReadType, Step
    <2>4. OneFile'
      BY <2>1, <2>3 DEF OneFile, disk, Ids
    <2> QED
      BY <1>5, <2>1, <2>4, SameCacheHolds
  <1>7. CASE FindRecipe(t)
    BY <1>2, <1>5, <1>7, FindRecipeSays, SameCacheHolds DEF EndsWith
  <1>8. CASE Decode(t)
    BY <1>2, <1>5, <1>8, DecodeSays, SameCacheHolds DEF EndsWith, process
  <1>9. CASE RereadRecipes(t)
    BY <1>2, <1>5, <1>9, RereadRecipesSays, SameCacheHolds DEF EndsWith
  <1>10. CASE Lookup(t)
    BY <1>2, <1>5, <1>10, LookupSays, SameCacheHolds DEF EndsWith
  <1>11. CASE Reindex(t)
    BY <1>2, <1>5, <1>11, ReindexSays, SameCacheHolds
  <1>12. CASE CacheHit(t)
    <2>1. PICK i \in DOMAIN cache :
            /\ cache[i].bytes \in Content /\ Deliver(t, cache[i].bytes)
            /\ cache' = <<cache[i]>> \o RemoveAt(cache, i)
      BY <1>12, CacheHitSays
    <2>2. UNCHANGED <<disk, fds>>
      BY <1>12, CacheHitSays
    <2> QED
      BY <1>4, <1>5, <2>1, <2>2, UsedHolds
  <1>13. CASE OpenSegment(t)
    <2> DEFINE n == job[t].loc.seg
               f == Descriptor(n)
    <2>1. UNCHANGED <<disk, cache>> /\ n \in Seg
      BY <1>13, OpenSegmentSays
    <2>2. CacheHolds'
      BY <1>5, <2>1, SameCacheHolds
    <2>3. CASE f = 0
      BY <1>3, <1>13, <2>1, <2>2, <2>3, OpenSegmentSays
    <2>4. CASE f # 0
      <3>1. PICK s \in Step, k \in Job :
              Goes(t, s, k) /\ k.loc = job[t].loc /\ k.file = f
        BY <1>13, <2>4, OpenSegmentSays
      <3>2. fds' = [fds EXCEPT ![n] = f]
        BY <1>13, <2>4, OpenSegmentSays
      <3>3. f = n
        BY <1>1, <2>1, <2>4 DEF Descriptor
      <3>4. \A m \in Seg : fds'[m] \in {0, m}
        BY <1>1, <3>2, <3>3 DEF TypeInv, ProcessType
      <3>5. OneFile'
        BY <2>1, <3>1, <3>3, <3>4, GoesOneFile
      <3> QED
        BY <2>2, <3>5
    <2> QED
      BY <2>3, <2>4
  <1>14. CASE ReadFrame(t)
    <2>1. UNCHANGED <<disk, fds>> /\ pc[t] = "read"
      BY <1>14, ReadFrameSays
    <2>2. CASE Missed(t) /\ cache' = cache
      BY <1>3, <1>5, <2>1, <2>2, SameCacheHolds
    <2>3. CASE \E b \in Content :
                 /\ job[t].loc.off \in DOMAIN files[job[t].file]
                 /\ b = files[job[t].file][job[t].loc.off] /\ Deliver(t, b)
                 /\ [loc |-> job[t].loc, bytes |-> b] \in Frame
                 /\ cache' = Kept([loc |-> job[t].loc, bytes |-> b])
      <3>1. PICK b \in Content :
              /\ job[t].loc.off \in DOMAIN files[job[t].file]
              /\ b = files[job[t].file][job[t].loc.off] /\ Deliver(t, b)
              /\ [loc |-> job[t].loc, bytes |-> b] \in Frame
              /\ cache' = Kept([loc |-> job[t].loc, bytes |-> b])
        BY <2>3
      <3>2. job[t].file = job[t].loc.seg /\ job[t].file \in DOMAIN files
        BY <1>14, <2>1, ReadFrameSays DEF OneFile
      <3>3. Holds(job[t].loc, b)
        BY <3>1, <3>2 DEF Holds
      <3> DEFINE fr == [loc |-> job[t].loc, bytes |-> b]
      <3>4. fr \in Frame /\ fr.loc = job[t].loc /\ fr.bytes = b /\ cache' = Kept(fr)
        BY <3>1
      <3> HIDE DEF fr
      <3>5. CacheHolds'
        BY <1>5, <2>1, <3>3, <3>4, KeptHolds
      <3> QED
        BY <1>4, <2>1, <3>1, <3>5
    <2> QED
      BY <1>14, <2>2, <2>3, ReadFrameSays
  <1>15. CASE Drop(t)
    <2>1. UNCHANGED disk /\ fds' = [n \in Seg |-> 0] /\ cache' = <<>>
      BY <1>15 DEF Drop
    <2>2. /\ pc'[t] = "reindex" /\ \A u \in Thread : u # t => pc'[u] = pc[u]
          /\ \A u \in Thread : SameRead(job[u], job'[u])
      BY <1>15, DropSays DEF TypeInv, ReadType
    <2>3. \A u \in Thread : pc'[u] = "read" => job'[u].file = job'[u].loc.seg
      BY <2>2 DEF OneFile, SameRead
    <2>4. OneFile'
      BY <1>1, <2>1, <2>3 DEF OneFile, disk, Ids
    <2>5. CacheHolds'
      BY <2>1 DEF CacheHolds
    <2> QED
      BY <2>4, <2>5
  <1> QED
    BY <1>6, <1>7, <1>8, <1>9, <1>10, <1>11, <1>12, <1>13, <1>14, <1>15 DEF Proceed

\* A step of the writer: what the frames were read from only grows.
LEMMA WriteCacheInv ==
  ASSUME "reuse" \notin Races, CacheInv, Write
  PROVE  Grows /\ OneFile' /\ CacheHolds'
  <1> USE DEF CacheInv
  <1>1. Grows /\ OneFileDisk'
    BY WriteOneFile
  <1>2. /\ fds' = fds /\ cache' = cache /\ pc' = pc
        /\ \A t \in Thread : SameRead(job[t], job'[t])
    BY WriteType DEF DiskTypeNext, process
  <1>3. OneFile'
    BY <1>1, <1>2 DEF OneFile, OneFileDisk, SameRead
  <1>4. CacheHolds'
    BY <1>1, <1>2 DEF CacheHolds, Holds, Grows
  <1> QED
    BY <1>1, <1>3, <1>4

\* The cache is empty at first.
LEMMA CacheInit == Init => OneFile /\ CacheHolds
  <1> SUFFICES ASSUME Init
               PROVE  OneFile /\ CacheHolds
    OBVIOUS
  <1>1. OneFile
    BY DEF Init, OneFile
  <1>2. CacheHolds
    BY DEF Init, CacheHolds
  <1> QED
    BY <1>1, <1>2

\* One step of anyone.
LEMMA CacheStep ==
  ASSUME "reuse" \notin Races
  PROVE  CacheInv /\ [Next]_vars => CacheInv'
  <1> SUFFICES ASSUME CacheInv, [Next]_vars
               PROVE  OneFile' /\ CacheHolds'
    BY TypeStep DEF CacheInv
  <1>1. CASE UNCHANGED vars
    BY <1>1 DEF CacheInv, OneFile, CacheHolds, Holds, Ids, vars
  <1> QED
    BY <1>1, WriteCacheInv, ProceedCacheInv DEF Next

\* The cache rests on this in every state.
LEMMA CacheAlways ==
  ASSUME "reuse" \notin Races
  PROVE  Spec => []CacheInv
  <1>1. Init => CacheInv
    BY TypeInit, CacheInit DEF CacheInv
  <1>2. CacheInv /\ [Next]_vars => CacheInv'
    BY CacheStep
  <1> QED
    BY <1>1, <1>2, PTL DEF Spec

\* Where no segment number is given twice, the cache has a place once, and what
\* it has is what the segment of that number holds.
THEOREM ReaderCacheSound ==
  ASSUME "reuse" \notin Races
  PROVE  Spec => []CacheSound
  <1>1. CacheInv => CacheSound
    <2> SUFFICES ASSUME CacheInv
                 PROVE  CacheSound
      OBVIOUS
    <2>1. \A i, k \in DOMAIN cache : cache[i].loc = cache[k].loc => i = k
      BY DEF CacheInv, CacheHolds
    <2>2. ASSUME NEW i \in DOMAIN cache, NEW s \in Ids, cache[i].loc.seg = s
          PROVE  /\ cache[i].loc.off <= Len(files[segs[s]])
                 /\ cache[i].bytes = files[segs[s]][cache[i].loc.off]
      <3>1. segs[s] = s
        BY DEF CacheInv, OneFile, Ids
      <3>2. Holds(cache[i].loc, cache[i].bytes) /\ files \in Seq(Seq(Content))
        BY DEF CacheInv, CacheHolds, TypeInv, DiskType
      <3>3. s \in DOMAIN files /\ files[s] \in Seq(Content)
        BY <2>2, <3>2 DEF Holds
      <3> QED
        BY <2>2, <3>1, <3>2, <3>3 DEF Holds
    <2> QED
      BY <2>1, <2>2 DEF CacheSound
  <1> QED
    BY <1>1, CacheAlways, PTL

----------------------------------------------------------------------------
(* The right bytes.                                                        *)

\* A place that is known was known before, or a record of index.log names it.
LEMMA PlacesFrom ==
  ASSUME ilog \in Seq(Index), NEW n \in Nat, NEW known, NEW c \in Content
  PROVE  \/ Places(known, n)[c] = known[c]
         \/ \E i \in DOMAIN ilog : ilog[i].c = c /\ Places(known, n)[c] = ilog[i].loc
  <1>1. Len(ilog) \in Nat /\ DOMAIN ilog = 1 .. Len(ilog)
    OBVIOUS
  <1> DEFINE i == LastFor(ilog, n, c)
  <1>2. Places(known, n)[c] = IF i = 0 THEN known[c] ELSE ilog[i].loc
    BY DEF Places
  <1>3. i = 0 \/ (i \in n + 1 .. Len(ilog) /\ ilog[i].c = c)
    BY <1>1, LastForSays
  <1> HIDE DEF i
  <1>4. CASE i = 0
    BY <1>2, <1>4
  <1>5. CASE i # 0
    <2>1. i \in DOMAIN ilog
      BY <1>1, <1>3, <1>5
    <2> QED
      BY <1>2, <1>3, <1>5, <2>1
  <1> QED
    BY <1>4, <1>5

\* What a refresh knows of places is right when what it started from was.
LEMMA RefreshHolds ==
  ASSUME TypeInv, LogHolds, MemHolds, NEW m \in Memory, m.idx = mem.idx, NEW c \in Content,
         Refreshed(m).idx[c] # NoLoc
  PROVE  Holds(Refreshed(m).idx[c], c)
  <1> USE DEF TypeInv, DiskType
  <1>1. \/ Refreshed(m).idx = Places(mem.idx, m.ioff)
        \/ Refreshed(m).idx = Places(Nowhere, 0)
    BY RefreshedSays
  <1>2. m.ioff \in Nat /\ Nowhere[c] = NoLoc
    BY DEF Memory, Nowhere
  <1>3. \/ Places(mem.idx, m.ioff)[c] = mem.idx[c]
        \/ \E i \in DOMAIN ilog : ilog[i].c = c /\ Places(mem.idx, m.ioff)[c] = ilog[i].loc
    BY <1>2, PlacesFrom
  <1>4. \/ Places(Nowhere, 0)[c] = Nowhere[c]
        \/ \E i \in DOMAIN ilog : ilog[i].c = c /\ Places(Nowhere, 0)[c] = ilog[i].loc
    BY PlacesFrom
  <1> QED
    BY <1>1, <1>2, <1>3, <1>4 DEF LogHolds, MemHolds

\* What the bytes read rest on.
ReadInv == CacheInv /\ LogHolds /\ MemHolds /\ ReadHolds

\* A read at step s, as j.
ReadAt(s, j) ==
  /\ j.got \in {j.c, Bad}
  /\ s \in {"lookup", "frame", "read", "drop", "reindex"} => j.block = j.c
  /\ s \in {"frame", "read"} => Holds(j.loc, j.c)

\* ReadHolds, thread by thread.
LEMMA ReadHoldsSays == ReadHolds <=> \A t \in Thread : ReadAt(pc[t], job[t])
  BY DEF ReadHolds, ReadAt

\* The reads after a step of one of them.
LEMMA GoesReadHolds ==
  ASSUME TypeInv, ReadHolds, files' = files,
         NEW t \in Thread, NEW s \in Step, NEW k \in Job, Goes(t, s, k), ReadAt(s, k)
  PROVE  ReadHolds'
  <1>1. /\ pc'[t] = s /\ job'[t] = k
        /\ \A u \in Thread \ {t} : pc'[u] = pc[u] /\ job'[u] = job[u]
    BY SetSays DEF Goes, TypeInv, ReadType
  <1>2. ASSUME NEW u \in Thread
        PROVE  /\ job'[u].got \in {job'[u].c, Bad}
               /\ pc'[u] \in {"lookup", "frame", "read", "drop", "reindex"} =>
                    job'[u].block = job'[u].c
               /\ pc'[u] \in {"frame", "read"} => Holds(job[u].loc, job[u].c)'
    <2>1. CASE u = t
      BY <1>1, <2>1 DEF ReadAt, Holds
    <2>2. CASE u # t
      BY <1>1, <2>2 DEF ReadHolds, Holds
    <2> QED
      BY <2>1, <2>2
  <1> QED
    BY <1>2 DEF ReadHolds

\* The disk, and so the places that hold blocks, as they were.
LEMMA SameLogHolds ==
  ASSUME LogHolds, UNCHANGED disk
  PROVE  LogHolds' /\ files' = files
  BY DEF LogHolds, Holds, disk

\* A memory and files that stay keep MemHolds.
LEMMA SameMemHolds ==
  ASSUME MemHolds, files' = files, mem' = mem
  PROVE  MemHolds'
  BY DEF MemHolds, Holds

\* A refresh takes places from the old memory and from index.log only.
LEMMA NewMemHolds ==
  ASSUME TypeInv, LogHolds, MemHolds, files' = files,
         NEW m \in Memory, m.idx = mem.idx, mem' = Refreshed(m)
  PROVE  MemHolds'
  <1>1. \A c \in Content : mem'.idx[c] # NoLoc => Holds(mem'.idx[c], c)
    BY RefreshHolds
  <1> QED
    BY <1>1 DEF MemHolds, Holds

\* A read that ends, or misses, is right if the bytes that it has are.
LEMMA EndsReadHolds ==
  ASSUME TypeInv, ReadHolds, files' = files, NEW t \in Thread, NEW b, b \in {job[t].c, Bad},
         NEW s \in Step, NEW k \in Job, EndsWith(t, s, k, b)
  PROVE  ReadHolds'
  <1>1. Goes(t, s, k) /\ ReadAt(s, k)
    BY DEF EndsWith, Goes, ReadAt
  <1> QED
    BY <1>1, GoesReadHolds

\* A miss keeps what a read is after.
LEMMA MissedReadHolds ==
  ASSUME TypeInv, ReadHolds, files' = files, NEW t \in Thread, pc[t] \in {"frame", "read"},
         Missed(t)
  PROVE  ReadHolds'
  <1>1. PICK s \in Step, k \in Job :
          \/ Goes(t, s, k) /\ s = "drop" /\ k = job[t]
          \/ EndsWith(t, s, k, Bad)
    BY MissedSays DEF TypeInv
  <1>2. CASE Goes(t, s, k) /\ s = "drop" /\ k = job[t]
    <2>1. ReadAt(s, k)
      BY <1>2 DEF ReadHolds, ReadAt
    <2> QED
      BY <1>2, <2>1, GoesReadHolds
  <1>3. CASE EndsWith(t, s, k, Bad)
    BY <1>3, EndsReadHolds
  <1> QED
    BY <1>1, <1>2, <1>3

\* So does a delivery of the content asked for.
LEMMA DeliverReadHolds ==
  ASSUME TypeInv, ReadHolds, files' = files, NEW t \in Thread, pc[t] \in {"frame", "read"},
         NEW b \in Content, b = job[t].c, Deliver(t, b)
  PROVE  ReadHolds'
  BY DeliverSays, EndsReadHolds, MissedReadHolds DEF TypeInv

\* A step of a read: bytes come from a place that holds them.
LEMMA ProceedReadInv ==
  ASSUME "align" \notin Races, ReadInv, NEW t \in Thread,
         Proceed(t) \/ \E c \in Content : Start(t, c)
  PROVE  LogHolds' /\ MemHolds' /\ ReadHolds'
  <1> USE DEF ReadInv, CacheInv
  <1>1. job[t] \in Job /\ mem \in Memory /\ TypeInv
    BY DEF TypeInv, ReadType, ProcessType
  <1>2. job[t].c \in Content /\ job[t].block \in Content /\ job[t].got \in {job[t].c, Bad}
    BY <1>1 DEF Job, ReadHolds
  <1>3. ASSUME NEW b \in BOOLEAN, mem' = IfMissing(b), files' = files
        PROVE  MemHolds'
    BY <1>1, <1>3, SameMemHolds, NewMemHolds DEF IfMissing
  <1>4. ASSUME NEW c \in Content, Start(t, c)
        PROVE  LogHolds' /\ MemHolds' /\ ReadHolds'
    <2>1. UNCHANGED disk /\ mem' = mem
      BY <1>4, StartSays DEF process
    <2>2. PICK k \in Job : Set(t, "recipe", k) /\ k.c = c /\ k.got = c
      BY <1>4, StartSays
    <2>3. /\ pc'[t] = "recipe" /\ job'[t] = k
          /\ \A u \in Thread \ {t} : pc'[u] = pc[u] /\ job'[u] = job[u]
      BY <2>2, SetSays DEF TypeInv, ReadType, Step
    <2>4. LogHolds' /\ files' = files /\ MemHolds'
      BY <2>1, SameLogHolds, SameMemHolds
    <2>5. ReadHolds'
      BY <2>2, <2>3, <2>4 DEF ReadHolds, Holds
    <2> QED
      BY <2>4, <2>5
  <1>5. CASE FindRecipe(t)
    <2>1. LogHolds' /\ files' = files /\ MemHolds'
      BY <1>3, <1>5, FindRecipeSays, SameLogHolds
    <2>2. PICK s \in Step, k \in Job :
            EndsWith(t, s, k, Bad) \/ (Goes(t, s, k) /\ s = "decode" /\ k.got = job[t].got)
      BY <1>5, FindRecipeSays
    <2>3. CASE EndsWith(t, s, k, Bad)
      BY <2>1, <2>3, EndsReadHolds
    <2>4. CASE Goes(t, s, k) /\ s = "decode" /\ k.got = job[t].got
      <3>1. ReadAt(s, k)
        BY <1>2, <2>4 DEF Goes, ReadAt
      <3> QED
        BY <2>1, <2>4, <3>1, GoesReadHolds
    <2> QED
      BY <2>1, <2>2, <2>3, <2>4
  <1>6. CASE Decode(t)
    <2>1. LogHolds' /\ files' = files /\ MemHolds'
      BY <1>6, DecodeSays, SameLogHolds, SameMemHolds DEF process
    <2>2. PICK b \in Decoded(job[t].pos, job[t].c), s \in Step, k \in Job :
            \/ /\ b \in Content /\ Goes(t, s, k) /\ s = "lookup"
               /\ k.block = b /\ k.got = job[t].got
            \/ Goes(t, s, k) /\ s = "reread" /\ k = job[t]
            \/ EndsWith(t, s, k, Bad)
      BY <1>6, DecodeSays
    <2>3. CASE /\ b \in Content /\ Goes(t, s, k) /\ s = "lookup"
               /\ k.block = b /\ k.got = job[t].got
      <3>1. b = job[t].c
        BY <2>3, ReaderAssumption DEF Decoded
      <3>2. ReadAt(s, k)
        BY <1>2, <2>3, <3>1 DEF Goes, ReadAt
      <3> QED
        BY <2>1, <2>3, <3>2, GoesReadHolds
    <2>4. CASE Goes(t, s, k) /\ s = "reread" /\ k = job[t]
      <3>1. ReadAt(s, k)
        BY <1>2, <2>4 DEF ReadAt
      <3> QED
        BY <2>1, <2>4, <3>1, GoesReadHolds
    <2>5. CASE EndsWith(t, s, k, Bad)
      BY <2>1, <2>5, EndsReadHolds
    <2> QED
      BY <2>1, <2>2, <2>3, <2>4, <2>5
  <1>7. CASE RereadRecipes(t)
    <2>1. LogHolds' /\ files' = files
      BY <1>7, RereadRecipesSays, SameLogHolds
    <2>2. MemHolds'
      <3> DEFINE m == [mem EXCEPT !.rino = 0]
      <3>1. m \in Memory /\ m.idx = mem.idx
        BY <1>1, ForgetSays
      <3>2. mem' = Refreshed(m)
        BY <1>7, RereadRecipesSays
      <3> HIDE DEF m
      <3> QED
        BY <2>1, <3>1, <3>2, NewMemHolds
    <2>3. PICK s \in Step, k \in Job :
            EndsWith(t, s, k, Bad) \/ (Goes(t, s, k) /\ s = "decode" /\ k.got = job[t].got)
      BY <1>7, RereadRecipesSays
    <2>4. CASE EndsWith(t, s, k, Bad)
      BY <2>1, <2>2, <2>4, EndsReadHolds
    <2>5. CASE Goes(t, s, k) /\ s = "decode" /\ k.got = job[t].got
      <3>1. ReadAt(s, k)
        BY <1>2, <2>5 DEF Goes, ReadAt
      <3> QED
        BY <2>1, <2>2, <2>5, <3>1, GoesReadHolds
    <2> QED
      BY <2>3, <2>4, <2>5
  <1>8. CASE Lookup(t)
    <2>1. LogHolds' /\ files' = files /\ MemHolds'
      BY <1>3, <1>8, LookupSays, SameLogHolds
    <2>2. job[t].block = job[t].c
      BY <1>8, LookupSays DEF ReadHolds
    <2>3. PICK s \in Step, k \in Job :
            \/ EndsWith(t, s, k, Bad)
            \/ /\ mem'.idx[job[t].block] # NoLoc /\ Goes(t, s, k) /\ s = "frame"
               /\ k.loc = mem'.idx[job[t].block] /\ k.block = job[t].block
               /\ k.got = job[t].got
      BY <1>8, LookupSays
    <2>4. CASE EndsWith(t, s, k, Bad)
      BY <2>1, <2>4, EndsReadHolds
    <2>5. CASE /\ mem'.idx[job[t].block] # NoLoc /\ Goes(t, s, k) /\ s = "frame"
               /\ k.loc = mem'.idx[job[t].block] /\ k.block = job[t].block
               /\ k.got = job[t].got
      <3>1. Holds(k.loc, k.c)
        BY <1>2, <2>1, <2>2, <2>5 DEF MemHolds, Holds, Goes
      <3>2. ReadAt(s, k)
        BY <1>2, <2>2, <2>5, <3>1 DEF Goes, ReadAt
      <3> QED
        BY <2>1, <2>5, <3>2, GoesReadHolds
    <2> QED
      BY <2>1, <2>3, <2>4, <2>5
  <1>9. CASE CacheHit(t)
    <2>1. LogHolds' /\ files' = files /\ MemHolds' /\ pc[t] = "frame"
      BY <1>9, CacheHitSays, SameLogHolds, SameMemHolds
    <2>2. PICK i \in DOMAIN cache : /\ cache[i].loc = job[t].loc
                                    /\ cache[i].bytes \in Content /\ Deliver(t, cache[i].bytes)
      BY <1>9, CacheHitSays
    <2>3. Holds(job[t].loc, cache[i].bytes)
      BY <2>2 DEF CacheHolds
    <2>4. Holds(job[t].loc, job[t].c)
      BY <2>1 DEF ReadHolds
    <2>5. cache[i].bytes = job[t].c
      BY <2>3, <2>4 DEF Holds
    <2> QED
      BY <2>1, <2>2, <2>5, DeliverReadHolds
  <1>10. CASE OpenSegment(t)
    <2>1. LogHolds' /\ files' = files /\ MemHolds' /\ pc[t] = "frame"
      BY <1>10, OpenSegmentSays, SameLogHolds, SameMemHolds
    <2>2. CASE Missed(t)
      BY <2>1, <2>2, MissedReadHolds
    <2>3. CASE \E s \in Step, k \in Job :
                    /\ Goes(t, s, k) /\ s = "read" /\ k.loc = job[t].loc
                    /\ k.block = job[t].block /\ k.got = job[t].got
      <3>1. PICK s \in Step, k \in Job :
              /\ Goes(t, s, k) /\ s = "read" /\ k.loc = job[t].loc
              /\ k.block = job[t].block /\ k.got = job[t].got
        BY <2>3
      <3>2. ReadAt(s, k)
        BY <1>2, <2>1, <3>1 DEF Goes, ReadAt, ReadHolds
      <3> QED
        BY <2>1, <3>1, <3>2, GoesReadHolds
    <2> QED
      BY <1>10, <2>1, <2>2, <2>3, OpenSegmentSays
  <1>11. CASE ReadFrame(t)
    <2>1. LogHolds' /\ files' = files /\ MemHolds' /\ pc[t] = "read"
      BY <1>11, ReadFrameSays, SameLogHolds, SameMemHolds
    <2>2. CASE Missed(t)
      BY <2>1, <2>2, MissedReadHolds
    <2>3. CASE \E b \in Content :
                 b = files[job[t].file][job[t].loc.off] /\ Deliver(t, b)
      <3>1. PICK b \in Content : b = files[job[t].file][job[t].loc.off] /\ Deliver(t, b)
        BY <2>3
      <3>2. job[t].file = job[t].loc.seg /\ Holds(job[t].loc, job[t].c)
        BY <2>1 DEF OneFile, ReadHolds
      <3>3. b = job[t].c
        BY <3>1, <3>2 DEF Holds
      <3> QED
        BY <2>1, <3>1, <3>3, DeliverReadHolds
    <2> QED
      BY <1>11, <2>1, <2>2, <2>3, ReadFrameSays
  <1>12. CASE Drop(t)
    <2>1. UNCHANGED disk /\ mem' = mem /\ pc[t] = "drop"
      BY <1>12 DEF Drop
    <2>2. LogHolds' /\ files' = files /\ MemHolds'
      BY <2>1, SameLogHolds, SameMemHolds
    <2>3. /\ pc'[t] = "reindex" /\ \A u \in Thread : u # t => pc'[u] = pc[u]
          /\ \A u \in Thread : SameRead(job[u], job'[u])
      BY <1>12, DropSays DEF TypeInv, ReadType
    <2>4. ASSUME NEW u \in Thread
          PROVE  /\ job'[u].got \in {job'[u].c, Bad}
                 /\ pc'[u] \in {"lookup", "frame", "read", "drop", "reindex"} =>
                      job'[u].block = job'[u].c
                 /\ pc'[u] \in {"frame", "read"} => Holds(job[u].loc, job[u].c)'
      BY <2>1, <2>2, <2>3 DEF ReadHolds, Holds, SameRead
    <2> QED
      BY <2>2, <2>4 DEF ReadHolds
  <1>13. CASE Reindex(t)
    <2>1. LogHolds' /\ files' = files /\ pc[t] = "reindex"
      BY <1>13, ReindexSays, SameLogHolds
    <2>2. MemHolds'
      <3>1. ForReindex(mem) \in Memory /\ ForReindex(mem).idx = mem.idx
        BY <1>1, ForgetSays
      <3>2. mem' = Refreshed(ForReindex(mem))
        BY <1>13, ReindexSays
      <3> QED
        BY <2>1, <3>1, <3>2, NewMemHolds
    <2>3. PICK s \in Step, k \in Job :
            /\ Goes(t, s, k) /\ s = "lookup" /\ k.block = job[t].block /\ k.got = job[t].got
      BY <1>13, ReindexSays
    <2>4. ReadAt(s, k)
      BY <1>2, <2>1, <2>3 DEF Goes, ReadAt, ReadHolds
    <2> QED
      BY <2>1, <2>2, <2>3, <2>4, GoesReadHolds
  <1> QED
    BY <1>4, <1>5, <1>6, <1>7, <1>8, <1>9, <1>10, <1>11, <1>12, <1>13 DEF Proceed


\* A step of the writer: index.log names the places that it has written, and
\* those that the index named before.
LEMMA WriteLogHolds ==
  ASSUME "reuse" \notin Races, ReadInv, Write
  PROVE  LogHolds'
  <1> USE DEF ReadInv, CacheInv, TypeInv
  <1>1. Grows
    BY WriteOneFile
  <1>2. \A l, c : Holds(l, c) => Holds(l, c)'
    BY <1>1, StillHolds
  <1>3. ASSUME UNCHANGED ilog
        PROVE  LogHolds'
    BY <1>1, <1>3 DEF LogHolds, Holds, Grows
  <1>4. ASSUME NEW c \in Content, Store(c)
        PROVE  LogHolds'
    <2>1. CASE Place[c] # NoLoc
      BY <1>3, <1>4, <2>1 DEF Store
    <2>2. CASE Place[c] = NoLoc
      <3>1. PICK s \in Ids \cup {Top + 1} : s = Target
        BY TargetSays
      <3>2. PICK o : o = InSegment(s) + 1
        OBVIOUS
      <3> DEFINE l == [seg |-> s, off |-> o]
      <3>3. WriteFrames(s, <<c>>) /\ ilog' = Append(ilog, [c |-> c, loc |-> l])
        BY <1>4, <2>2, <3>1, <3>2 DEF Store
      <3>4. <<c>> \in Seq(Content) /\ Len(<<c>>) = 1 /\ <<c>>[1] = c
        OBVIOUS
      <3>5. Holds([seg |-> s, off |-> o], <<c>>[1])'
        <4>1. 1 \in 1 .. Len(<<c>>)
          BY <3>4
        <4> QED
          BY <3>2, <3>3, <3>4, <4>1, FramesHold
      <3>6. l.seg = s /\ l.off = o
        OBVIOUS
      <3>7. Holds(l, c)'
        BY <3>4, <3>5, <3>6 DEF Holds
      <3> HIDE DEF l
      <3>8. ASSUME NEW i \in DOMAIN ilog'
            PROVE  Holds(ilog[i].loc, ilog[i].c)'
        <4>1. CASE i \in DOMAIN ilog
          <5>1. ilog'[i] = ilog[i] /\ Holds(ilog[i].loc, ilog[i].c)
            BY <3>3, <4>1 DEF DiskType, LogHolds
          <5> QED
            BY <1>1, <5>1 DEF Holds, Grows
        <4>2. CASE i \notin DOMAIN ilog
          <5>1. ilog'[i].c = c /\ ilog'[i].loc = l
            BY <3>3, <4>2 DEF DiskType
          <5> QED
            BY <3>7, <5>1 DEF Holds
        <4> QED
          BY <4>1, <4>2
      <3> QED
        BY <3>8 DEF LogHolds
    <2> QED
      BY <2>1, <2>2
  <1>5. ASSUME NEW vs \in SUBSET Seg, SwapIndex(vs)
        PROVE  LogHolds'
    <2>1. PICK moved : /\ IsListOf(moved, Moving(vs))
                       /\ ilog' = AsLog(NewPlaces(vs, moved))
                       /\ moved # <<>> => Top + 1 \in Seg
                       /\ IF moved = <<>> THEN UNCHANGED <<segs, files>>
                                          ELSE WriteFrames(Top + 1, moved)
      BY <1>5, SwapSays
    <2>2. \A i \in DOMAIN ilog' :
            \/ ilog'[i].c \in Staying(vs) /\ ilog'[i].loc = Place[ilog'[i].c]
            \/ \E m \in DOMAIN moved :
                 moved[m] = ilog'[i].c /\ ilog'[i].loc = [seg |-> Top + 1, off |-> m]
      <3> DEFINE log == AsLog(NewPlaces(vs, moved))
      <3>1. \A i \in DOMAIN log :
              \/ log[i].c \in Staying(vs) /\ log[i].loc = Place[log[i].c]
              \/ \E m \in DOMAIN moved :
                   moved[m] = log[i].c /\ log[i].loc = [seg |-> Top + 1, off |-> m]
        BY <2>1, NewIndexSays
      <3>2. ilog' = log
        BY <2>1
      <3> HIDE DEF log
      <3> QED
        BY <3>1, <3>2
    <2>3. ASSUME NEW c \in Staying(vs)
          PROVE  Holds(Place[c], c)
      <3>1. c \in Content /\ Place[c].seg \in Ids
        BY DEF Staying
      <3>2. SaysPlace(ilog, Len(ilog), c, Place[c]) /\ Place[c] # NoLoc
        BY <3>1, PlaceSays DEF DiskType, NoLoc, Ids, Seg
      <3>3. PICK i \in 1 .. Len(ilog) : ilog[i].c = c /\ Place[c] = ilog[i].loc
        BY <3>2 DEF SaysPlace, LastIn
      <3>4. i \in DOMAIN ilog
        BY <3>3 DEF DiskType
      <3> QED
        BY <3>3, <3>4 DEF LogHolds
    <2>4. ASSUME NEW m \in DOMAIN moved
          PROVE  \A x : x = [seg |-> Top + 1, off |-> m] => Holds(x, moved[m])'
      <3>1. /\ moved \in Seq(Content) /\ DOMAIN moved = 1 .. Len(moved) /\ moved # <<>>
            /\ m \in 1 .. Len(moved) /\ m \in Nat
        BY <2>1 DEF IsListOf
      <3>2. PICK s \in Ids \cup {Top + 1} : s = Top + 1
        OBVIOUS
      <3>3. WriteFrames(s, moved)
        BY <2>1, <3>1, <3>2
      <3>4. s \notin Ids
        <4>1. Top \in Nat /\ \A n \in Ids : n <= Top
          BY TopSays DEF DiskType
        <4> QED
          BY <3>2, <4>1
      <3>5. InSegment(s) = 0
        BY <3>4 DEF InSegment
      <3>6. m = InSegment(s) + m
        BY <3>1, <3>5
      <3>7. Holds([seg |-> s, off |-> m], moved[m])'
        BY <3>1, <3>3, <3>6, FramesHold
      <3> QED
        BY <3>2, <3>7
    <2>5. ASSUME NEW i \in DOMAIN ilog'
          PROVE  Holds(ilog[i].loc, ilog[i].c)'
      <3>1. CASE ilog'[i].c \in Staying(vs) /\ ilog'[i].loc = Place[ilog'[i].c]
        BY <1>1, <2>3, <3>1 DEF Holds, Grows
      <3>2. CASE \E m \in DOMAIN moved :
                   moved[m] = ilog'[i].c /\ ilog'[i].loc = [seg |-> Top + 1, off |-> m]
        <4>1. PICK m \in DOMAIN moved :
                moved[m] = ilog'[i].c /\ ilog'[i].loc = [seg |-> Top + 1, off |-> m]
          BY <3>2
        <4>2. PICK x : x = ilog'[i].loc
          OBVIOUS
        <4>3. Holds(x, moved[m])'
          BY <2>4, <4>1, <4>2
        <4> QED
          BY <4>1, <4>2, <4>3 DEF Holds
      <3> QED
        BY <2>2, <3>1, <3>2
    <2> QED
      BY <2>5 DEF LogHolds
  <1>6. ASSUME NEW c \in Content, RemoveContent(c)
        PROVE  LogHolds'
    BY <1>3, <1>6 DEF RemoveContent
  <1>7. ASSUME NEW gone \in SUBSET Seg, DeleteSegments(gone)
        PROVE  LogHolds'
    BY <1>3, <1>7 DEF DeleteSegments
  <1> QED
    BY <1>3, <1>4, <1>5, <1>6, <1>7 DEF Write, CompactRecipes, StopsCollecting

\* The writer keeps what logs, memory and reads name.
LEMMA WriteReadInv ==
  ASSUME "reuse" \notin Races, ReadInv, Write
  PROVE  LogHolds' /\ MemHolds' /\ ReadHolds'
  <1> USE DEF ReadInv
  <1>1. Grows
    BY WriteCacheInv
  <1>2. /\ mem' = mem /\ pc' = pc /\ \A t \in Thread : SameRead(job[t], job'[t])
    BY WriteType DEF DiskTypeNext, process, CacheInv
  <1>3. MemHolds'
    BY <1>1, <1>2 DEF MemHolds, Holds, Grows
  <1>4. ASSUME NEW t \in Thread
        PROVE  /\ job'[t].got \in {job'[t].c, Bad}
               /\ pc'[t] \in {"lookup", "frame", "read", "drop", "reindex"} =>
                    job'[t].block = job'[t].c
               /\ pc'[t] \in {"frame", "read"} => Holds(job[t].loc, job[t].c)'
    BY <1>1, <1>2 DEF ReadHolds, Holds, Grows, SameRead
  <1> QED
    BY <1>3, <1>4, WriteLogHolds DEF ReadHolds

\* At first nothing is named.
LEMMA ReadInit == Init => LogHolds /\ MemHolds /\ ReadHolds
  <1> SUFFICES ASSUME Init
               PROVE  LogHolds /\ MemHolds /\ ReadHolds
    OBVIOUS
  <1>1. ASSUME NEW t \in Thread
        PROVE  job[t].got = job[t].c
    <2>1. job[t] \in {Asked(c, TRUE) : c \in Content}
      <3>1. \A S : job \in [Thread -> S] => job[t] \in S
        OBVIOUS
      <3> QED
        BY <3>1, Zenon DEF Init
    <2>2. PICK c \in Content : job[t] = Asked(c, TRUE)
      BY <2>1
    <2> QED
      BY <2>2 DEF Asked
  <1> QED
    BY <1>1 DEF Init, LogHolds, MemHolds, ReadHolds, Nowhere

\* Every step keeps the invariant of the contents read.
LEMMA ReadStep ==
  ASSUME "reuse" \notin Races, "align" \notin Races
  PROVE  ReadInv /\ [Next]_vars => ReadInv'
  <1> SUFFICES ASSUME ReadInv, [Next]_vars
               PROVE  LogHolds' /\ MemHolds' /\ ReadHolds'
    BY CacheStep DEF ReadInv
  <1>1. CASE UNCHANGED vars
    BY <1>1 DEF ReadInv, LogHolds, MemHolds, ReadHolds, Holds, vars
  <1> QED
    BY <1>1, WriteReadInv, ProceedReadInv DEF Next

\* So it holds always.
LEMMA ReadAlways ==
  ASSUME "reuse" \notin Races, "align" \notin Races
  PROVE  Spec => []ReadInv
  <1>1. Init => ReadInv
    BY TypeInit, CacheInit, ReadInit DEF ReadInv, CacheInv
  <1>2. ReadInv /\ [Next]_vars => ReadInv'
    BY ReadStep
  <1> QED
    BY <1>1, <1>2, PTL DEF Spec

\* Where no segment number is given twice and no record takes the place of
\* another one of its length, a read gives the bytes of the content that it was
\* asked for or an error, even if inodes are given again.
THEOREM ReaderReadsRight ==
  ASSUME "reuse" \notin Races, "align" \notin Races
  PROVE  Spec => []ReadsRight
  <1>1. ReadInv => ReadsRight
    BY DEF ReadInv, ReadHolds, ReadsRight
  <1> QED
    BY <1>1, ReadAlways, PTL

----------------------------------------------------------------------------
(* What is there is found.                                                 *)

\* The whole of the log says that c has a recipe.
IsLive(log, c) ==
  \E i \in 1 .. Len(log) : LastIn(log, Len(log), c, i) /\ log[i].put

\* A content has one last record.
LEMMA OneLast ==
  ASSUME NEW log, NEW n \in Nat, NEW c, NEW i, NEW k, LastIn(log, n, c, i), LastIn(log, n, c, k)
  PROVE  i = k
  <1>1. i \in 1 .. n /\ k \in 1 .. n /\ log[i].c = c /\ log[k].c = c
    BY DEF LastIn
  <1>2. ~(i < k) /\ ~(k < i)
    <2>1. ASSUME i < k
          PROVE  FALSE
      BY <1>1, <2>1 DEF LastIn
    <2>2. ASSUME k < i
          PROVE  FALSE
      BY <1>1, <2>2 DEF LastIn
    <2> QED
      BY <2>1, <2>2
  <1> QED
    BY <1>1, <1>2

\* Live is what a log says, before a step and after it.
LEMMA LiveInSays ==
  ASSUME NEW log \in Seq(Recipe), NEW c \in Content
  PROVE  LET i == LastFor(log, 0, c) IN
         (IF i = 0 THEN 0 ELSE IF log[i].put THEN i ELSE 0) # 0 <=> IsLive(log, c)
  <1> DEFINE i == LastFor(log, 0, c)
             p == IF i = 0 THEN 0 ELSE IF log[i].put THEN i ELSE 0
  <1>1. Len(log) \in Nat
    OBVIOUS
  <1>2. \/ i = 0 /\ \A k \in 1 .. Len(log) : log[k].c # c
        \/ /\ i \in 1 .. Len(log) /\ log[i].c = c
           /\ \A k \in i + 1 .. Len(log) : log[k].c # c
    <2>1. 0 + 1 = 1
      OBVIOUS
    <2> HIDE DEF i
    <2> QED
      BY <1>1, <2>1, LastForSays DEF i
  <1> HIDE DEF i
  <1>3. CASE i = 0 /\ \A k \in 1 .. Len(log) : log[k].c # c
    <2>1. ~IsLive(log, c)
      BY <1>3 DEF IsLive, LastIn
    <2> QED
      BY <1>3, <2>1 DEF i
  <1>4. CASE /\ i \in 1 .. Len(log) /\ log[i].c = c
             /\ \A k \in i + 1 .. Len(log) : log[k].c # c
    <2>1. i # 0 /\ LastIn(log, Len(log), c, i)
      BY <1>4 DEF LastIn
    <2>2. ASSUME log[i].put
          PROVE  p # 0 /\ IsLive(log, c)
      BY <1>4, <2>1, <2>2 DEF IsLive
    <2>3. ASSUME ~log[i].put
          PROVE  p = 0 /\ ~IsLive(log, c)
      <3>1. p = 0
        BY <2>1, <2>3
      <3>2. ASSUME NEW k \in 1 .. Len(log), LastIn(log, Len(log), c, k), log[k].put
            PROVE  FALSE
        <4>1. k = i
          BY <1>1, <2>1, <3>2, OneLast
        <4> QED
          BY <2>3, <3>2, <4>1, Zenon
      <3> QED
        BY <3>1, <3>2 DEF IsLive
    <2> QED
      BY <2>2, <2>3 DEF i
  <1> QED
    BY <1>2, <1>3, <1>4 DEF i

\* What is live is what the last record of recipes.log puts, now and next.
LEMMA LiveSays ==
  ASSUME rlog \in Seq(Recipe), rlog' \in Seq(Recipe)
  PROVE  \A c \in Content : (c \in Live <=> IsLive(rlog, c)) /\ (c \in Live' <=> IsLive(rlog', c))
  <1> TAKE c \in Content
  <1>1. c \in Live <=> (LET i == LastFor(rlog, 0, c) IN
                        IF i = 0 THEN 0 ELSE IF rlog[i].put THEN i ELSE 0) # 0
    BY DEF Live, Recipes, NoRecipe
  <1>2. c \in Live' <=> (LET i == LastFor(rlog', 0, c) IN
                         IF i = 0 THEN 0 ELSE IF rlog'[i].put THEN i ELSE 0) # 0
    BY DEF Live, Recipes, NoRecipe
  <1>3. \A log \in Seq(Recipe) :
          (LET i == LastFor(log, 0, c) IN
             IF i = 0 THEN 0 ELSE IF log[i].put THEN i ELSE 0) # 0 <=> IsLive(log, c)
    BY LiveInSays
  <1>4. c \in Live <=> IsLive(rlog, c)
    BY <1>1, <1>3, Zenon
  <1>5. c \in Live' <=> IsLive(rlog', c)
    BY <1>2, <1>3, Zenon
  <1> QED
    BY <1>4, <1>5

\* A record more.
LEMMA AppendLive ==
  ASSUME NEW log \in Seq(Recipe), NEW r \in Recipe, NEW c \in Content
  PROVE  IsLive(Append(log, r), c) <=> IF c = r.c THEN r.put ELSE IsLive(log, c)
  <1> DEFINE n == Len(log)
             new == Append(log, r)
  <1>1. /\ n \in Nat /\ Len(new) = n + 1 /\ new[n + 1] = r
        /\ \A k \in 1 .. n : new[k] = log[k]
    OBVIOUS
  <1>2. r.put \in BOOLEAN /\ r.c \in Content
    BY DEF Recipe
  <1> HIDE DEF n, new
  <1>3. CASE c = r.c
    <2>1. LastIn(new, n + 1, c, n + 1)
      BY <1>1, <1>3 DEF LastIn
    <2>2. \A k : LastIn(new, n + 1, c, k) => k = n + 1
      BY <1>1, <2>1, OneLast
    <2>3. n + 1 \in 1 .. n + 1
      BY <1>1
    <2>4. IsLive(new, c) <=> new[n + 1].put
      BY <1>1, <2>1, <2>2, <2>3, Zenon DEF IsLive
    <2> QED
      BY <1>1, <1>2, <1>3, <2>4, Zenon DEF new
  <1>4. CASE c # r.c
    <2>1. ASSUME NEW k, LastIn(log, n, c, k)
          PROVE  LastIn(new, n + 1, c, k) /\ k \in 1 .. n /\ k \in 1 .. n + 1 /\ new[k] = log[k]
      <3>1. k \in 1 .. n /\ k \in 1 .. n + 1
        BY <1>1, <2>1 DEF LastIn
      <3>2. \A m \in k + 1 .. n + 1 : m \in k + 1 .. n \/ m = n + 1
        BY <1>1, <3>1
      <3>3. \A m \in k + 1 .. n : m \in 1 .. n
        BY <3>1
      <3> QED
        BY <1>1, <1>4, <2>1, <3>1, <3>2, <3>3 DEF LastIn
    <2>2. ASSUME NEW k, LastIn(new, n + 1, c, k)
          PROVE  LastIn(log, n, c, k) /\ k \in 1 .. n /\ new[k] = log[k]
      <3>1. k \in 1 .. n + 1 /\ k # n + 1
        BY <1>1, <1>4, <2>2 DEF LastIn
      <3>2. k \in 1 .. n
        BY <1>1, <3>1
      <3>3. \A m \in k + 1 .. n : m \in 1 .. n /\ m \in k + 1 .. n + 1
        BY <1>1, <3>2
      <3> QED
        BY <1>1, <2>2, <3>2, <3>3 DEF LastIn
    <2>3. ASSUME IsLive(log, c)
          PROVE  IsLive(new, c)
      <3>1. PICK k \in 1 .. n : LastIn(log, n, c, k) /\ log[k].put
        BY <2>3, Zenon DEF IsLive, n
      <3>2. LastIn(new, n + 1, c, k) /\ new[k].put /\ k \in 1 .. n + 1
        BY <2>1, <3>1
      <3> QED
        BY <1>1, <3>2, Zenon DEF IsLive
    <2>4. ASSUME IsLive(new, c)
          PROVE  IsLive(log, c)
      <3>1. PICK k \in 1 .. n + 1 : LastIn(new, n + 1, c, k) /\ new[k].put
        BY <1>1, <2>4, Zenon DEF IsLive
      <3>2. LastIn(log, n, c, k) /\ log[k].put /\ k \in 1 .. n
        BY <2>2, <3>1
      <3> QED
        BY <3>2, Zenon DEF IsLive, n
    <2> QED
      BY <1>4, <2>3, <2>4 DEF new
  <1> QED
    BY <1>3, <1>4

\* The recipe that the whole of a log names is that of the content.
LEMMA RecipeThere ==
  ASSUME NEW log \in Seq(Recipe), NEW c \in Content, NEW p, SaysRecipe(log, Len(log), c, p)
  PROVE  /\ p # 0 => p \in DOMAIN log /\ log[p] = [c |-> c, put |-> TRUE]
         /\ IsLive(log, c) => p # 0
  <1>1. Len(log) \in Nat /\ DOMAIN log = 1 .. Len(log)
    OBVIOUS
  <1>2. CASE p = 0 /\ NoneIn(log, Len(log), c)
    BY <1>1, <1>2 DEF NoneIn, IsLive, LastIn
  <1>3. ASSUME NEW i \in 1 .. Len(log), LastIn(log, Len(log), c, i),
               p = IF log[i].put THEN i ELSE 0
        PROVE  /\ p # 0 => p \in DOMAIN log /\ log[p] = [c |-> c, put |-> TRUE]
               /\ IsLive(log, c) => p # 0
    <2>1. i # 0 /\ log[i] \in Recipe /\ log[i].c = c
      BY <1>1, <1>3 DEF LastIn
    <2>2. CASE log[i].put
      <3>1. log[i] = [c |-> c, put |-> TRUE]
        BY <2>1, <2>2 DEF Recipe
      <3> QED
        BY <1>1, <1>3, <2>1, <2>2, <3>1
    <2>3. CASE ~log[i].put
      <3>1. \A k \in 1 .. Len(log) : LastIn(log, Len(log), c, k) => k = i
        BY <1>1, <1>3, OneLast
      <3>2. ~IsLive(log, c)
        BY <2>3, <3>1, Zenon DEF IsLive
      <3> QED
        BY <1>3, <2>3, <3>2
    <2> QED
      BY <2>2, <2>3
  <1> QED
    BY <1>2, <1>3 DEF SaysRecipe

\* The place that a part of a log names is that of a record.
LEMMA PlaceThere ==
  ASSUME NEW log \in Seq(Index), NEW n \in Nat, n <= Len(log), NEW c \in Content, NEW l,
         SaysPlace(log, n, c, l)
  PROVE  /\ l # NoLoc => \E i \in DOMAIN log : log[i] = [c |-> c, loc |-> l]
         /\ n = Len(log) /\ (\E i \in DOMAIN log : log[i].c = c) => l # NoLoc
  <1>1. Len(log) \in Nat /\ DOMAIN log = 1 .. Len(log)
    OBVIOUS
  <1>2. CASE l = NoLoc /\ NoneIn(log, n, c)
    BY <1>1, <1>2 DEF NoneIn
  <1>3. ASSUME NEW i \in 1 .. n, LastIn(log, n, c, i), l = log[i].loc
        PROVE  l # NoLoc /\ \E k \in DOMAIN log : log[k] = [c |-> c, loc |-> l]
    <2>1. i \in DOMAIN log
      BY <1>1, <1>3
    <2>2. log[i] \in Index /\ log[i].c = c
      BY <2>1, <1>3 DEF LastIn
    <2>3. log[i] = [c |-> c, loc |-> l] /\ l \in Loc
      BY <1>3, <2>2 DEF Index
    <2>4. l # NoLoc
      BY <2>3 DEF Loc, NoLoc, Seg
    <2> QED
      BY <2>1, <2>3, <2>4
  <1> QED
    BY <1>2, <1>3 DEF SaysPlace

\* What is said by the first n records is said by them in a longer log.
LEMMA SamePrefix ==
  ASSUME NEW log, NEW new, NEW n \in Nat, \A k \in 1 .. n : new[k] = log[k], NEW c, NEW x
  PROVE  /\ SaysRecipe(log, n, c, x) => SaysRecipe(new, n, c, x)
         /\ SaysPlace(log, n, c, x) => SaysPlace(new, n, c, x)
  <1>1. NoneIn(log, n, c) => NoneIn(new, n, c)
    BY DEF NoneIn
  <1>2. ASSUME NEW i \in 1 .. n, LastIn(log, n, c, i)
        PROVE  LastIn(new, n, c, i) /\ new[i] = log[i]
    <2>1. \A k \in i + 1 .. n : k \in 1 .. n
      OBVIOUS
    <2> QED
      BY <1>2, <2>1 DEF LastIn
  <1> QED
    BY <1>1, <1>2 DEF SaysRecipe, SaysPlace


\* What the process remembers after a refresh, with its logs as they are or one
\* of them forgotten.
LEMMA RefreshRemembers ==
  ASSUME TypeInv, Remembers, UNCHANGED disk, NEW m \in Memory, mem' = Refreshed(m),
         m.rcp = mem.rcp, m.roff = mem.roff, m.rino \in {mem.rino, 0},
         m.idx = mem.idx, m.ioff = mem.ioff, m.iino \in {mem.iino, 0}
  PROVE  /\ Remembers' /\ mem'.rino = rino /\ mem'.iino = iino
         /\ \A c \in Content : SaysRecipe(rlog, Len(rlog), c, mem'.rcp[c])
         /\ \A c \in Content : SaysPlace(ilog, Len(ilog), c, mem'.idx[c])
  <1> USE DEF TypeInv, DiskType
  <1>1. /\ mem'.roff = Len(rlog) /\ mem'.ioff = Len(ilog)
        /\ mem'.rino = rino /\ mem'.iino = iino
        /\ mem'.rcp = IF m.rino = rino /\ m.roff <= Len(rlog)
                      THEN Recipes(m.rcp, m.roff) ELSE Recipes(NoRecipe, 0)
        /\ mem'.idx = IF m.iino = iino /\ m.ioff <= Len(ilog)
                      THEN Places(m.idx, m.ioff) ELSE Places(Nowhere, 0)
    BY RefreshedSays
  <1>2. /\ rino \in Nat /\ rino # 0 /\ iino \in Nat /\ iino # 0
        /\ Len(rlog) \in Nat /\ Len(ilog) \in Nat
    OBVIOUS
  <1>3. 0 \in Nat /\ 0 <= Len(rlog) /\ 0 <= Len(ilog)
    BY <1>2
  <1>4. m.rcp \in [Content -> Nat] /\ m.roff \in Nat
        /\ m.idx \in [Content -> Loc \cup {NoLoc}] /\ m.ioff \in Nat
    BY DEF Memory
  <1>5. ASSUME NEW c \in Content
        PROVE  SaysRecipe(rlog, Len(rlog), c, mem'.rcp[c])
    <2>1. CASE m.rino = rino /\ m.roff <= Len(rlog)
      <3>1. SaysRecipe(rlog, m.roff, c, m.rcp[c])
        BY <1>2, <2>1 DEF Remembers
      <3> QED
        BY <1>1, <1>4, <2>1, <3>1, RecipesSay
    <2>2. CASE ~(m.rino = rino /\ m.roff <= Len(rlog))
      <3>1. SaysRecipe(rlog, 0, c, NoRecipe[c]) /\ NoRecipe \in [Content -> Nat]
        BY NothingRead
      <3>2. SaysRecipe(rlog, Len(rlog), c, Recipes(NoRecipe, 0)[c])
        BY <1>2, <1>3, <3>1, RecipesSay
      <3> QED
        BY <1>1, <2>2, <3>2
    <2> QED
      BY <2>1, <2>2
  <1>6. ASSUME NEW c \in Content
        PROVE  SaysPlace(ilog, Len(ilog), c, mem'.idx[c])
    <2>1. CASE m.iino = iino /\ m.ioff <= Len(ilog)
      <3>1. SaysPlace(ilog, m.ioff, c, m.idx[c])
        BY <1>2, <2>1 DEF Remembers
      <3> QED
        BY <1>1, <1>4, <2>1, <3>1, PlacesSay
    <2>2. CASE ~(m.iino = iino /\ m.ioff <= Len(ilog))
      <3>1. SaysPlace(ilog, 0, c, Nowhere[c]) /\ Nowhere \in [Content -> Loc \cup {NoLoc}]
        BY NothingRead
      <3>2. SaysPlace(ilog, Len(ilog), c, Places(Nowhere, 0)[c])
        BY <1>2, <1>3, <3>1, PlacesSay
      <3> QED
        BY <1>1, <2>2, <3>2
    <2> QED
      BY <2>1, <2>2
  <1>7. rlog' = rlog /\ ilog' = ilog /\ rino' = rino /\ iino' = iino
    BY DEF disk
  <1>8. Remembers'
    BY <1>1, <1>2, <1>5, <1>6, <1>7 DEF Remembers
  <1> QED
    BY <1>1, <1>5, <1>6, <1>8

\* Logs and a memory that stay keep Remembers.
LEMMA SameRemembers ==
  ASSUME Remembers, UNCHANGED disk, mem' = mem
  PROVE  Remembers'
  BY DEF Remembers, disk

----------------------------------------------------------------------------
(* The writer and what a second attempt has seen.                          *)

\* A log got more records, or another inode.
RecipesGrow ==
  /\ rino' = rino /\ Len(rlog) <= Len(rlog')
  /\ \A k \in DOMAIN rlog : k \in DOMAIN rlog' /\ rlog'[k] = rlog[k]

IndexGrows ==
  /\ iino' = iino /\ Len(ilog) <= Len(ilog')
  /\ \A k \in DOMAIN ilog : k \in DOMAIN ilog' /\ ilog'[k] = ilog[k]

\* What the writer leaves of a read.
Noted(t) ==
  /\ SameRead(job[t], job'[t])
  /\ job'[t].calm => /\ job[t].calm /\ job'[t].closed = job[t].closed
                     /\ RecipesGrow /\ IndexGrows
  /\ job'[t].here => job[t].here /\ (job[t].c \in Live => job[t].c \in Live')

LogsChange ==
  /\ RecipesGrow \/ rino' = rino + 1
  /\ IndexGrows \/ iino' = iino + 1
  /\ \A t \in Thread : Noted(t)

\* Logs that stay, or get a record, grow.
LEMMA StayGrow ==
  ASSUME DiskType
  PROVE  /\ UNCHANGED <<rlog, rino>> => RecipesGrow
         /\ UNCHANGED <<ilog, iino>> => IndexGrows
         /\ \A r : rlog' = Append(rlog, r) /\ rino' = rino => RecipesGrow
         /\ \A r : ilog' = Append(ilog, r) /\ iino' = iino => IndexGrows
  <1>1. /\ Len(rlog) \in Nat /\ DOMAIN rlog = 1 .. Len(rlog) /\ rlog \in Seq(Recipe)
        /\ Len(ilog) \in Nat /\ DOMAIN ilog = 1 .. Len(ilog) /\ ilog \in Seq(Index)
    BY DEF DiskType
  <1>2. /\ UNCHANGED <<rlog, rino>> => RecipesGrow
        /\ UNCHANGED <<ilog, iino>> => IndexGrows
    BY <1>1 DEF RecipesGrow, IndexGrows
  <1>3. ASSUME NEW r, rlog' = Append(rlog, r), rino' = rino
        PROVE  RecipesGrow
    <2>1. /\ Len(rlog') = Len(rlog) + 1 /\ DOMAIN rlog' = 1 .. Len(rlog) + 1
          /\ \A k \in 1 .. Len(rlog) : rlog'[k] = rlog[k]
      BY <1>1, <1>3
    <2> QED
      BY <1>1, <1>3, <2>1 DEF RecipesGrow
  <1>4. ASSUME NEW r, ilog' = Append(ilog, r), iino' = iino
        PROVE  IndexGrows
    <2>1. /\ Len(ilog') = Len(ilog) + 1 /\ DOMAIN ilog' = 1 .. Len(ilog) + 1
          /\ \A k \in 1 .. Len(ilog) : ilog'[k] = ilog[k]
      BY <1>1, <1>4
    <2> QED
      BY <1>1, <1>4, <2>1 DEF IndexGrows
  <1> QED
    BY <1>2, <1>3, <1>4

\* The contents that are there after each step of the writer.
LEMMA WriteLive ==
  ASSUME TypeInv
  PROVE  /\ \A c, d \in Content : Store(c) => (d \in Live' <=> d = c \/ d \in Live)
         /\ \A c, d \in Content : RemoveContent(c) => (d \in Live' <=> d # c /\ d \in Live)
         /\ CompactRecipes => Live' = Live
         /\ rlog' = rlog => Live' = Live
  <1> USE DEF TypeInv, DiskType
  <1>1. rlog' = rlog => Live' = Live
    BY DEF Live, Recipes, LastFor
  <1>2. ASSUME NEW c \in Content, NEW d \in Content, NEW put \in BOOLEAN,
               rlog' = Append(rlog, [c |-> c, put |-> put])
        PROVE  d \in Live' <=> IF d = c THEN put ELSE d \in Live
    <2> DEFINE r == [c |-> c, put |-> put]
    <2>1. r \in Recipe /\ r.c = c /\ r.put = put
      BY DEF Recipe
    <2> HIDE DEF r
    <2>2. rlog' = Append(rlog, r)
      BY <1>2 DEF r
    <2>3. rlog' \in Seq(Recipe)
      BY <2>1, <2>2
    <2>4. IsLive(rlog', d) <=> IF d = r.c THEN r.put ELSE IsLive(rlog, d)
      BY <2>1, <2>2, AppendLive
    <2>5. (d \in Live <=> IsLive(rlog, d)) /\ (d \in Live' <=> IsLive(rlog', d))
      BY <2>3, LiveSays
    <2> QED
      BY <2>1, <2>4, <2>5, Zenon
  <1>3. ASSUME NEW c \in Content, NEW d \in Content, Store(c)
        PROVE  d \in Live' <=> d = c \/ d \in Live
    <2>1. rlog' = Append(rlog, [c |-> c, put |-> TRUE])
      BY <1>3 DEF Store
    <2>2. d \in Live' <=> IF d = c THEN TRUE ELSE d \in Live
      BY <1>2, <2>1
    <2> QED
      BY <2>2
  <1>4. ASSUME NEW c \in Content, NEW d \in Content, RemoveContent(c)
        PROVE  d \in Live' <=> d # c /\ d \in Live
    <2>1. rlog' = Append(rlog, [c |-> c, put |-> FALSE])
      BY <1>4 DEF RemoveContent
    <2>2. d \in Live' <=> IF d = c THEN FALSE ELSE d \in Live
      BY <1>2, <2>1
    <2> QED
      BY <2>2
  <1>5. ASSUME CompactRecipes
        PROVE  Live' = Live
    <2>1. CASE rlog' = rlog
      BY <1>1, <2>1
    <2>2. CASE rlog' # rlog
      <3>1. PICK s \in SetToSeqs(Live) : rlog' = [i \in DOMAIN s |-> [c |-> s[i], put |-> TRUE]]
        BY <1>5, <2>2 DEF CompactRecipes
      <3>2. IsListOf(s, Live)
        BY SetToSeqSays DEF Live
      <3>3. /\ s \in Seq(Content) /\ DOMAIN s = 1 .. Len(s) /\ Len(s) \in Nat
            /\ \A i \in DOMAIN s : s[i] \in Live
            /\ \A i, k \in DOMAIN s : s[i] = s[k] => i = k
            /\ \A c \in Live : \E i \in DOMAIN s : s[i] = c
        BY <3>2 DEF IsListOf
      <3>4. /\ DOMAIN rlog' = 1 .. Len(s) /\ Len(rlog') = Len(s)
            /\ \A i \in 1 .. Len(s) : rlog'[i].c = s[i] /\ rlog'[i].put = TRUE
        BY <3>1, <3>3
      <3>5. rlog' \in Seq(Recipe)
        BY <1>5, CompactRecipesType DEF DiskTypeNext
      <3>6. ASSUME NEW c \in Content
            PROVE  IsLive(rlog', c) <=> c \in Live
        <4>1. ASSUME c \in Live
              PROVE  IsLive(rlog', c)
          <5>1. PICK i \in 1 .. Len(s) : s[i] = c
            BY <3>3, <4>1
          <5>2. \A k \in i + 1 .. Len(s) : k \in 1 .. Len(s) /\ k # i
            BY <3>3
          <5>3. ASSUME NEW k \in i + 1 .. Len(s)
                PROVE  rlog'[k].c # c
            <6>1. k \in 1 .. Len(s) /\ s[k] # c
              BY <3>3, <5>1, <5>2
            <6> QED
              BY <3>4, <6>1
          <5>4. rlog'[i].put /\ rlog'[i].c = c /\ Len(rlog') = Len(s)
            BY <3>4, <5>1, Zenon
          <5>5. LastIn(rlog', Len(rlog'), c, i)
            BY <5>1, <5>3, <5>4, Zenon DEF LastIn
          <5> QED
            BY <5>1, <5>4, <5>5, Zenon DEF IsLive
        <4>2. ASSUME IsLive(rlog', c)
              PROVE  c \in Live
          <5>1. PICK i \in 1 .. Len(rlog') : LastIn(rlog', Len(rlog'), c, i)
            BY <4>2 DEF IsLive
          <5>2. i \in 1 .. Len(s) /\ s[i] = c
            BY <3>4, <5>1 DEF LastIn
          <5> QED
            BY <3>3, <5>2
        <4> QED
          BY <4>1, <4>2
      <3>7. \A c \in Content : c \in Live' <=> IsLive(rlog', c)
        BY <3>5, LiveSays
      <3>8. Live \subseteq Content /\ Live' \subseteq Content
        BY DEF Live
      <3> QED
        BY <3>6, <3>7, <3>8
    <2> QED
      BY <2>1, <2>2
  <1> QED
    BY <1>1, <1>3, <1>4, <1>5

\* Every step of the writer changes the logs in one of the ways of LogsChange.
LEMMA WriteLogs ==
  ASSUME "inode" \notin Races, TypeInv, Write
  PROVE  LogsChange
  <1> USE DEF TypeInv
  <1>1. job \in [Thread -> Job] /\ rino \in 1 .. MaxInode /\ iino \in 1 .. MaxInode
    BY DEF ReadType, DiskType
  <1>2. ASSUME RecipesGrow \/ rino' = rino + 1, IndexGrows \/ iino' = iino + 1,
               job' = Disturbed, \A d \in Content : d \in Live => d \in Live'
        PROVE  LogsChange
    <2>1. \A t \in Thread : /\ SameRead(job[t], Disturbed[t]) /\ Disturbed[t].calm = FALSE
                            /\ Disturbed[t].here = job[t].here
      BY <1>1, DisturbedSays
    <2>2. \A t \in Thread : job[t].c \in Content
      BY <1>1 DEF Job
    <2> QED
      BY <1>2, <2>1, <2>2 DEF LogsChange, Noted
  <1>3. ASSUME RecipesGrow, IndexGrows, job' = job, \A d \in Content : d \in Live => d \in Live'
        PROVE  LogsChange
    <2>1. \A t \in Thread : SameRead(job[t], job[t]) /\ job[t].c \in Content
      BY <1>1, JobNotes DEF Job
    <2> QED
      BY <1>3, <2>1 DEF LogsChange, Noted
  <1>4. ASSUME NEW c \in Content, Store(c)
        PROVE  LogsChange
    <2>1. /\ rlog' = Append(rlog, [c |-> c, put |-> TRUE])
          /\ UNCHANGED <<rino, iino, job>>
          /\ ilog' = ilog \/ \E r : ilog' = Append(ilog, r)
      BY <1>4 DEF Store
    <2>2. RecipesGrow /\ IndexGrows
      BY <2>1, StayGrow
    <2>3. \A d \in Content : d \in Live => d \in Live'
      BY <1>4, WriteLive
    <2> QED
      BY <1>3, <2>1, <2>2, <2>3
  <1>5. ASSUME NEW c \in Content, RemoveContent(c)
        PROVE  LogsChange
    <2>1. /\ rlog' = Append(rlog, [c |-> c, put |-> FALSE])
          /\ UNCHANGED <<rino, ilog, iino>>
          /\ job' = [t \in Thread |-> IF job[t].c = c THEN [job[t] EXCEPT !.here = FALSE]
                                                      ELSE job[t]]
      BY <1>5 DEF RemoveContent
    <2>2. RecipesGrow /\ IndexGrows
      BY <2>1, StayGrow
    <2>3. ASSUME NEW t \in Thread
          PROVE  Noted(t)
      <3>1. PICK j \in Job : j = job[t]
        BY <1>1
      <3>2. j.c \in Content
        BY DEF Job
      <3>3. CASE j.c = c
        <4>1. job'[t] = [j EXCEPT !.here = FALSE]
          BY <2>1, <3>1, <3>3
        <4> DEFINE k == [j EXCEPT !.here = FALSE]
        <4>2. SameRead(j, k) /\ k.here = FALSE /\ k.calm = j.calm /\ k.closed = j.closed
          BY JobNotes
        <4>3. job'[t] = k
          BY <4>1
        <4> HIDE DEF k
        <4> QED
          BY <2>2, <3>1, <4>2, <4>3 DEF Noted
      <3>4. CASE j.c # c
        <4>1. job'[t] = j
          BY <2>1, <3>1, <3>4
        <4>2. j.c \in Live => j.c \in Live'
          BY <1>5, <3>2, <3>4, WriteLive
        <4> QED
          BY <2>2, <3>1, <4>1, <4>2, JobNotes DEF Noted
      <3> QED
        BY <3>3, <3>4
    <2> QED
      BY <2>2, <2>3 DEF LogsChange
  <1>6. CASE CompactRecipes
    <2>1. IndexGrows /\ \A d \in Content : d \in Live => d \in Live'
      BY <1>6, StayGrow, WriteLive DEF CompactRecipes
    <2>2. CASE Len(rlog) = Cardinality(Live)
      BY <1>3, <1>6, <2>1, <2>2, StayGrow DEF CompactRecipes
    <2>3. CASE Len(rlog) # Cardinality(Live)
      BY <1>1, <1>2, <1>6, <2>1, <2>3, NewInodeSays DEF CompactRecipes
    <2> QED
      BY <2>2, <2>3
  <1>7. ASSUME NEW vs \in SUBSET Seg, SwapIndex(vs)
        PROVE  LogsChange
    <2>1. iino' = iino + 1 /\ job' = Disturbed /\ UNCHANGED <<rlog, rino>>
      BY <1>1, <1>7, NewInodeSays DEF SwapIndex
    <2> QED
      BY <1>2, <2>1, StayGrow, WriteLive
  <1>8. CASE StopsCollecting
    BY <1>3, <1>8, StayGrow, WriteLive DEF StopsCollecting
  <1>9. ASSUME NEW gone \in SUBSET Seg, DeleteSegments(gone)
        PROVE  LogsChange
    BY <1>2, <1>9, StayGrow, WriteLive DEF DeleteSegments
  <1> QED
    BY <1>4, <1>5, <1>6, <1>7, <1>8, <1>9 DEF Write

\* What a read that is asked for finds rests on this.
ServeInv == ReadInv /\ Remembers /\ Placed /\ LiveIndexed /\ SeesNow

\* The index after a step that leaves index.log alone.
LEMMA SamePlaced ==
  ASSUME Placed, LiveIndexed, ilog' = ilog, Ids \ victims \subseteq Ids' \ victims',
         \A d \in Content : d \in Live' => d \in Live
  PROVE  Placed' /\ LiveIndexed'
  <1>1. Placed'
    BY DEF Placed
  <1>2. \A d \in Live' : d \in Content
    BY DEF Live
  <1> QED
    BY <1>1, <1>2 DEF LiveIndexed

\* What is live is in the index after every step of the writer, in a segment
\* that is there to stay: also when the index was rewritten.
LEMMA WritePlaced ==
  ASSUME "reuse" \notin Races, ReadInv, Placed, LiveIndexed, Write
  PROVE  Placed' /\ LiveIndexed'
  <1> USE DEF ReadInv, CacheInv
  <1>1. TypeInv /\ DiskType /\ ilog \in Seq(Index) /\ Len(ilog) \in Nat
    BY DEF TypeInv, DiskType
  <1>2. phase # "delete" => victims = {}
    BY DEF OneFile
  <1>3. \A c \in Content : SaysPlace(ilog, Len(ilog), c, Place[c])
    BY <1>1, PlaceSays
  <1>4. ASSUME UNCHANGED <<ilog, segs, victims>>, \A d \in Content : d \in Live' => d \in Live
        PROVE  Placed' /\ LiveIndexed'
    BY <1>4, SamePlaced DEF Ids
  <1>5. ASSUME NEW c \in Content, Store(c)
        PROVE  Placed' /\ LiveIndexed'
    <2>1. \A d \in Live' : d \in Content /\ (d = c \/ d \in Live)
      BY <1>1, <1>5, WriteLive DEF Live
    <2>2. victims = {} /\ victims' = {}
      BY <1>2, <1>5 DEF Store
    <2>3. CASE Place[c] # NoLoc
      <3>1. UNCHANGED <<ilog, segs>>
        BY <1>5, <2>3 DEF Store
      <3>2. \E i \in DOMAIN ilog : ilog[i].c = c
        BY <1>1, <1>3, <2>3, PlaceThere
      <3> QED
        BY <2>1, <2>2, <3>1, <3>2 DEF Placed, LiveIndexed, Ids
    <2>4. CASE Place[c] = NoLoc
      <3>1. \A i \in DOMAIN ilog : ilog[i].c # c
        BY <1>1, <1>3, <2>4, PlaceThere
      <3>2. PICK s \in Ids \cup {Top + 1} : s = Target
        BY <1>1, TargetSays
      <3>3. PICK r : /\ r = [c |-> c, loc |-> [seg |-> Target, off |-> InSegment(Target) + 1]]
                     /\ r.c = c /\ r.loc.seg = s
        <4> DEFINE q == [c |-> c, loc |-> [seg |-> Target, off |-> InSegment(Target) + 1]]
        <4>1. q.c = c /\ q.loc.seg = s
          BY <3>2
        <4> QED
          BY <4>1
      <3>4. ilog' = Append(ilog, r) /\ WriteFrames(s, <<c>>) /\ <<c>> \in Seq(Content)
        BY <1>5, <2>4, <3>2, <3>3 DEF Store
      <3>5. Ids \cup {s} \subseteq Ids'
        BY <1>1, <3>4, FramesHold
      <3>6. /\ DOMAIN ilog' = 1 .. Len(ilog) + 1 /\ DOMAIN ilog = 1 .. Len(ilog)
            /\ ilog'[Len(ilog) + 1] = r /\ \A i \in 1 .. Len(ilog) : ilog'[i] = ilog[i]
        BY <1>1, <3>4
      <3>7. \A i \in DOMAIN ilog' : i \in DOMAIN ilog \/ i = Len(ilog) + 1
        BY <1>1, <3>6
      <3>8. Placed'
        <4>1. ASSUME NEW i \in DOMAIN ilog'
              PROVE  ilog'[i].loc.seg \in Ids' \ victims'
          BY <2>2, <3>3, <3>5, <3>6, <3>7 DEF Placed
        <4>2. ASSUME NEW i \in DOMAIN ilog', NEW k \in DOMAIN ilog', ilog'[i].c = ilog'[k].c
              PROVE  i = k
          <5>1. CASE i \in DOMAIN ilog /\ k \in DOMAIN ilog
            BY <3>6, <4>2, <5>1 DEF Placed
          <5>2. CASE i \in DOMAIN ilog /\ k = Len(ilog) + 1
            BY <3>1, <3>3, <3>6, <4>2, <5>2
          <5>3. CASE i = Len(ilog) + 1 /\ k \in DOMAIN ilog
            BY <3>1, <3>3, <3>6, <4>2, <5>3
          <5> QED
            BY <3>7, <5>1, <5>2, <5>3
        <4> QED
          BY <4>1, <4>2 DEF Placed
      <3>9. ASSUME NEW d \in Live'
            PROVE  \E i \in DOMAIN ilog' : ilog'[i].c = d
        <4>1. CASE d = c
          <5>1. Len(ilog) + 1 \in DOMAIN ilog'
            BY <1>1, <3>6
          <5> QED
            BY <3>3, <3>6, <4>1, <5>1
        <4>2. CASE d \in Live
          <5>1. PICK i \in DOMAIN ilog : ilog[i].c = d
            BY <4>2 DEF LiveIndexed
          <5>2. i \in DOMAIN ilog' /\ ilog'[i].c = d
            BY <1>1, <3>6, <5>1
          <5> QED
            BY <5>2
        <4> QED
          BY <2>1, <4>1, <4>2
      <3> QED
        BY <3>8, <3>9 DEF LiveIndexed
    <2> QED
      BY <2>3, <2>4
  <1>6. ASSUME NEW c \in Content, RemoveContent(c)
        PROVE  Placed' /\ LiveIndexed'
    BY <1>1, <1>4, <1>6, WriteLive DEF RemoveContent
  <1>7. CASE CompactRecipes
    BY <1>1, <1>4, <1>7, WriteLive DEF CompactRecipes
  <1>8. CASE StopsCollecting
    BY <1>1, <1>4, <1>8, WriteLive DEF StopsCollecting
  <1>9. ASSUME NEW gone \in SUBSET Seg, DeleteSegments(gone)
        PROVE  Placed' /\ LiveIndexed'
    <2>1. /\ UNCHANGED <<ilog, rlog>> /\ gone \subseteq victims /\ victims' = {}
          /\ segs' = [s \in Seg |-> IF s \in gone THEN 0 ELSE segs[s]]
      BY <1>9 DEF DeleteSegments
    <2>2. Ids \ victims \subseteq Ids' \ victims'
      BY <2>1 DEF Ids
    <2> QED
      BY <1>1, <2>1, <2>2, SamePlaced, WriteLive
  <1>10. ASSUME NEW vs \in SUBSET Seg, SwapIndex(vs)
         PROVE  Placed' /\ LiveIndexed'
    <2>1. /\ phase = "swap" /\ victims' = vs /\ vs \subseteq Ids /\ rlog' = rlog
      BY <1>10 DEF SwapIndex, MayRewrite
    <2>2. victims = {} /\ Live' = Live
      BY <1>1, <1>2, <2>1, WriteLive
    <2>3. PICK moved : /\ IsListOf(moved, Moving(vs))
                       /\ ilog' = AsLog(NewPlaces(vs, moved))
                       /\ moved # <<>> => Top + 1 \in Seg
                       /\ IF moved = <<>> THEN UNCHANGED <<segs, files>>
                                          ELSE WriteFrames(Top + 1, moved)
      BY <1>1, <1>10, SwapSays
    <2>4. /\ \A i, k \in DOMAIN ilog' : ilog'[i].c = ilog'[k].c => i = k
          /\ \A c \in Staying(vs) \cup Moving(vs) : \E i \in DOMAIN ilog' : ilog'[i].c = c
          /\ \A i \in DOMAIN ilog' :
               \/ ilog'[i].c \in Staying(vs) /\ ilog'[i].loc = Place[ilog'[i].c]
               \/ \E m \in DOMAIN moved :
                    moved[m] = ilog'[i].c /\ ilog'[i].loc = [seg |-> Top + 1, off |-> m]
      <3> DEFINE log == AsLog(NewPlaces(vs, moved))
      <3>1. /\ \A i, k \in DOMAIN log : log[i].c = log[k].c => i = k
            /\ \A c \in Staying(vs) \cup Moving(vs) : \E i \in DOMAIN log : log[i].c = c
            /\ \A i \in DOMAIN log :
                 \/ log[i].c \in Staying(vs) /\ log[i].loc = Place[log[i].c]
                 \/ \E m \in DOMAIN moved :
                      moved[m] = log[i].c /\ log[i].loc = [seg |-> Top + 1, off |-> m]
        BY <1>1, <2>3, NewIndexSays
      <3>2. ilog' = log
        BY <2>3
      <3> HIDE DEF log
      <3> QED
        BY <3>1, <3>2
    <2>5. Ids \subseteq Ids' /\ (moved # <<>> => Top + 1 \in Ids')
      <3>1. CASE moved = <<>>
        BY <2>3, <3>1 DEF Ids
      <3>2. CASE moved # <<>>
        <4>1. PICK s \in Ids \cup {Top + 1} : s = Top + 1
          OBVIOUS
        <4>2. WriteFrames(s, moved) /\ moved \in Seq(Content)
          BY <2>3, <3>2, <4>1 DEF IsListOf
        <4>3. Ids \cup {s} \subseteq Ids'
          BY <1>1, <4>2, FramesHold
        <4> QED
          BY <4>1, <4>3
      <3> QED
        BY <3>1, <3>2
    <2>6. Top + 1 \notin vs
      <3>1. Top \in Nat /\ \A n \in Ids : n <= Top
        BY <1>1, TopSays
      <3> QED
        BY <2>1, <3>1
    <2>7. ASSUME NEW i \in DOMAIN ilog'
          PROVE  ilog'[i].loc.seg \in Ids' \ vs
      <3>1. CASE ilog'[i].c \in Staying(vs) /\ ilog'[i].loc = Place[ilog'[i].c]
        BY <2>5, <3>1 DEF Staying
      <3>2. CASE \E m \in DOMAIN moved :
                   moved[m] = ilog'[i].c /\ ilog'[i].loc = [seg |-> Top + 1, off |-> m]
        <4>1. moved # <<>> /\ ilog'[i].loc.seg = Top + 1
          BY <3>2
        <4> QED
          BY <2>5, <2>6, <4>1
      <3> QED
        BY <2>4, <3>1, <3>2
    <2>8. Placed'
      BY <2>1, <2>4, <2>7 DEF Placed
    <2>9. ASSUME NEW c \in Live
          PROVE  \E i \in DOMAIN ilog' : ilog'[i].c = c
      <3>1. c \in Content /\ \E i \in DOMAIN ilog : ilog[i].c = c
        BY DEF LiveIndexed, Live
      <3>2. Place[c] # NoLoc
        BY <1>1, <1>3, <3>1, PlaceThere
      <3>3. PICK i \in DOMAIN ilog : ilog[i] = [c |-> c, loc |-> Place[c]]
        BY <1>1, <1>3, <3>1, <3>2, PlaceThere
      <3>4. Place[c].seg \in Ids
        BY <3>3 DEF Placed
      <3>5. c \in Staying(vs) \cup Moving(vs)
        BY <3>1, <3>4 DEF Staying, Moving
      <3> QED
        BY <2>4, <3>5
    <2>10. LiveIndexed'
      BY <2>2, <2>9 DEF LiveIndexed
    <2> QED
      BY <2>8, <2>10
  <1> QED
    BY <1>5, <1>6, <1>7, <1>8, <1>9, <1>10 DEF Write

\* What the process remembers of a log is right until the log is another one.
LEMMA WriteRemembers ==
  ASSUME TypeInv, Remembers, DiskType', LogsChange, mem' = mem
  PROVE  Remembers'
  <1>1. /\ rino \in Nat /\ iino \in Nat /\ mem.rino \in Nat /\ mem.iino \in Nat
        /\ mem.roff \in Nat /\ mem.ioff \in Nat
        /\ Len(rlog) \in Nat /\ DOMAIN rlog = 1 .. Len(rlog) /\ Len(rlog') \in Nat
        /\ Len(ilog) \in Nat /\ DOMAIN ilog = 1 .. Len(ilog) /\ Len(ilog') \in Nat
    BY DEF TypeInv, DiskType, ProcessType, Memory
  <1>2. mem.rino <= rino /\ mem.iino <= iino
    BY DEF Remembers
  <1>3. rino' \in {rino, rino + 1} /\ iino' \in {iino, iino + 1}
    BY DEF LogsChange, RecipesGrow, IndexGrows
  <1>4. mem.rino <= rino' /\ mem.iino <= iino'
    BY <1>1, <1>2, <1>3
  <1>5. ASSUME mem.rino = rino'
        PROVE  /\ mem.roff <= Len(rlog')
               /\ \A c \in Content : SaysRecipe(rlog', mem.roff, c, mem.rcp[c])
    <2>1. RecipesGrow
      BY <1>1, <1>2, <1>5 DEF LogsChange
    <2>2. /\ mem.roff <= Len(rlog) /\ Len(rlog) <= Len(rlog')
          /\ \A c \in Content : SaysRecipe(rlog, mem.roff, c, mem.rcp[c])
      BY <1>5, <2>1 DEF Remembers, RecipesGrow
    <2>3. \A k \in 1 .. mem.roff : rlog'[k] = rlog[k]
      <3>1. \A k \in 1 .. mem.roff : k \in DOMAIN rlog
        BY <1>1, <2>2
      <3> QED
        BY <2>1, <3>1 DEF RecipesGrow
    <2>4. ASSUME NEW c \in Content
          PROVE  SaysRecipe(rlog', mem.roff, c, mem.rcp[c])
      <3> DEFINE n == mem.roff
                 x == mem.rcp[c]
      <3>1. SaysRecipe(rlog, n, c, x) /\ n \in Nat /\ \A k \in 1 .. n : rlog'[k] = rlog[k]
        BY <1>1, <2>2, <2>3
      <3> HIDE DEF n, x
      <3>2. SaysRecipe(rlog', n, c, x)
        BY <3>1, SamePrefix
      <3> QED
        BY <3>2 DEF n, x
    <2>5. mem.roff <= Len(rlog')
      BY <1>1, <2>2
    <2> QED
      BY <2>4, <2>5
  <1>6. ASSUME mem.iino = iino'
        PROVE  /\ mem.ioff <= Len(ilog')
               /\ \A c \in Content : SaysPlace(ilog', mem.ioff, c, mem.idx[c])
    <2>1. IndexGrows
      BY <1>1, <1>2, <1>6 DEF LogsChange
    <2>2. /\ mem.ioff <= Len(ilog) /\ Len(ilog) <= Len(ilog')
          /\ \A c \in Content : SaysPlace(ilog, mem.ioff, c, mem.idx[c])
      BY <1>6, <2>1 DEF Remembers, IndexGrows
    <2>3. \A k \in 1 .. mem.ioff : ilog'[k] = ilog[k]
      <3>1. \A k \in 1 .. mem.ioff : k \in DOMAIN ilog
        BY <1>1, <2>2
      <3> QED
        BY <2>1, <3>1 DEF IndexGrows
    <2>4. ASSUME NEW c \in Content
          PROVE  SaysPlace(ilog', mem.ioff, c, mem.idx[c])
      <3> DEFINE n == mem.ioff
                 x == mem.idx[c]
      <3>1. SaysPlace(ilog, n, c, x) /\ n \in Nat /\ \A k \in 1 .. n : ilog'[k] = ilog[k]
        BY <1>1, <2>2, <2>3
      <3> HIDE DEF n, x
      <3>2. SaysPlace(ilog', n, c, x)
        BY <3>1, SamePrefix
      <3> QED
        BY <3>2 DEF n, x
    <2>5. mem.ioff <= Len(ilog')
      BY <1>1, <2>2
    <2> QED
      BY <2>4, <2>5
  <1> QED
    BY <1>4, <1>5, <1>6 DEF Remembers

\* What a read at step s, as j, has seen.
Sees(s, j) ==
  /\ s # "idle" => j.got = j.c
  /\ s = "recipe" => j.try = 0
  /\ s # "idle" /\ j.here => j.c \in Live
  /\ s = "read" /\ j.closed => ~j.calm
  /\ s = "decode" /\ j.try = 1 /\ j.calm =>
       /\ mem.rino = rino /\ j.pos \in DOMAIN rlog
       /\ rlog[j.pos] = [c |-> j.c, put |-> TRUE]
  /\ s = "lookup" /\ j.try = 1 /\ j.calm => mem.iino = iino
  /\ s \in {"frame", "read"} /\ j.try = 1 /\ j.calm =>
       \E i \in DOMAIN ilog : ilog[i] = [c |-> j.c, loc |-> j.loc]
  /\ j.got = Bad => ~j.calm \/ ~j.here

\* SeesNow, thread by thread.
LEMMA SeesNowSays == SeesNow <=> \A t \in Thread : Sees(pc[t], job[t])
  BY DEF SeesNow, Sees

\* Logs that grow, and notes on a read, leave what it has seen.
LEMMA WriteSeesNow ==
  ASSUME SeesNow, LogsChange, mem' = mem, pc' = pc
  PROVE  SeesNow'
  <1>1. ASSUME NEW t \in Thread, NEW s, NEW j, NEW k, s = pc[t], j = job[t], k = job'[t]
        PROVE  Sees(s, k)'
    <2>1. Sees(s, j)
      BY <1>1, SeesNowSays
    <2>2. SameRead(j, k)
      BY <1>1 DEF LogsChange, Noted
    <2>3. /\ k.calm => j.calm /\ k.closed = j.closed /\ RecipesGrow /\ IndexGrows
          /\ k.here => j.here /\ (j.c \in Live => j.c \in Live')
      BY <1>1 DEF LogsChange, Noted
    <2>4. /\ k.c = j.c /\ k.pos = j.pos /\ k.try = j.try /\ k.loc = j.loc /\ k.got = j.got
      BY <2>2 DEF SameRead
    <2>5. s = "decode" /\ k.try = 1 /\ k.calm =>
            /\ mem.rino = rino' /\ k.pos \in DOMAIN rlog'
            /\ rlog'[k.pos] = [c |-> k.c, put |-> TRUE]
      BY <2>1, <2>3, <2>4 DEF Sees, RecipesGrow
    <2>6. s = "lookup" /\ k.try = 1 /\ k.calm => mem.iino = iino'
      BY <2>1, <2>3, <2>4 DEF Sees, IndexGrows
    <2>7. s \in {"frame", "read"} /\ k.try = 1 /\ k.calm =>
            \E i \in DOMAIN ilog' : ilog'[i] = [c |-> k.c, loc |-> k.loc]
      BY <2>1, <2>3, <2>4 DEF Sees, IndexGrows
    <2> QED
      BY <2>1, <2>3, <2>4, <2>5, <2>6, <2>7 DEF Sees
  <1>2. ASSUME NEW t \in Thread
        PROVE  \A s, k : s = pc'[t] /\ k = job'[t] => Sees(s, k)'
    BY <1>1, <1>2
  <1> QED
    BY <1>2 DEF SeesNow, Sees

----------------------------------------------------------------------------
(* The steps of a read, and what they have seen.                           *)

\* What the process knows of the logs' inodes is what it was, or the latest.
Latest == mem'.rino \in {mem.rino, rino} /\ mem'.iino \in {mem.iino, iino}

\* A thread that goes on with a job that sees the logs keeps SeesNow.
LEMMA GoesSees ==
  ASSUME TypeInv, SeesNow, UNCHANGED disk, Latest,
         NEW t \in Thread, NEW s \in Step, NEW k \in Job, Goes(t, s, k), Sees(s, k)'
  PROVE  SeesNow'
  <1>1. /\ pc'[t] = s /\ job'[t] = k
        /\ \A u \in Thread \ {t} : pc'[u] = pc[u] /\ job'[u] = job[u]
    BY SetSays DEF Goes, TypeInv, ReadType
  <1>2. rlog' = rlog /\ ilog' = ilog /\ rino' = rino /\ iino' = iino
    BY DEF disk
  <1>3. Live' = Live
    BY <1>2, WriteLive
  <1>4. ASSUME NEW x, NEW j, Sees(x, j)
        PROVE  Sees(x, j)'
    BY <1>2, <1>3, <1>4 DEF Sees, Latest
  <1>5. ASSUME NEW u \in Thread
        PROVE  \A x, j : x = pc'[u] /\ j = job'[u] => Sees(x, j)'
    <2>1. CASE u = t
      BY <1>1, <2>1
    <2>2. CASE u # t
      <3>1. \A x, j : x = pc[u] /\ j = job[u] => Sees(x, j)
        BY SeesNowSays
      <3> QED
        BY <1>1, <1>4, <2>2, <3>1
    <2> QED
      BY <2>1, <2>2
  <1> QED
    BY <1>5 DEF SeesNow, Sees

\* A read that ends.
LEMMA EndsSees ==
  ASSUME TypeInv, SeesNow, UNCHANGED disk, Latest, NEW t \in Thread, NEW b,
         b = Bad => ~job[t].calm \/ ~job[t].here,
         NEW s \in Step, NEW k \in Job, EndsWith(t, s, k, b)
  PROVE  SeesNow'
  <1>1. Goes(t, s, k) /\ s = "idle" /\ k.got = b
        /\ k.calm = job[t].calm /\ k.here = job[t].here
    BY DEF EndsWith, Goes
  <1>2. Sees(s, k)'
    BY <1>1 DEF Sees
  <1> QED
    BY <1>1, <1>2, GoesSees

\* An attempt that came to nothing.
LEMMA MissedSees ==
  ASSUME TypeInv, SeesNow, UNCHANGED disk, Latest, NEW t \in Thread, pc[t] \in {"frame", "read"},
         job[t].try = 1 => ~job[t].calm \/ ~job[t].here, Missed(t)
  PROVE  SeesNow'
  <1>1. PICK s \in Step, k \in Job :
          \/ job[t].try = 0 /\ Goes(t, s, k) /\ s = "drop" /\ k = job[t]
          \/ job[t].try = 1 /\ EndsWith(t, s, k, Bad)
    BY MissedSays DEF TypeInv
  <1>2. CASE job[t].try = 0 /\ Goes(t, s, k) /\ s = "drop" /\ k = job[t]
    <2>1. rlog' = rlog /\ Live' = Live
      BY WriteLive DEF disk
    <2>2. \A x, j : x = pc[t] /\ j = job[t] => Sees(x, j)
      BY SeesNowSays
    <2>3. Sees(s, k)'
      BY <1>2, <2>1, <2>2 DEF Sees
    <2> QED
      BY <1>2, <2>3, GoesSees
  <1>3. CASE job[t].try = 1 /\ EndsWith(t, s, k, Bad)
    BY <1>3, EndsSees
  <1> QED
    BY <1>1, <1>2, <1>3

\* The block's own bytes end the read.
LEMMA DeliverSees ==
  ASSUME TypeInv, SeesNow, UNCHANGED disk, Latest, NEW t \in Thread,
         NEW b \in Content, b = job[t].block, Deliver(t, b)
  PROVE  SeesNow'
  <1>1. PICK s \in Step, k \in Job : EndsWith(t, s, k, b)
    BY DeliverSays DEF TypeInv
  <1>2. b # Bad
    BY ReaderAssumption
  <1> QED
    BY <1>1, <1>2, EndsSees

\* A step of a read: one that was disturbed by nothing finds what is there.
LEMMA ProceedServe ==
  ASSUME Races = {}, ServeInv, NEW t \in Thread,
         Proceed(t) \/ \E c \in Content : Start(t, c)
  PROVE  Remembers' /\ Placed' /\ LiveIndexed' /\ SeesNow'
  <1> USE DEF ServeInv, ReadInv, CacheInv
  <1>1. /\ job[t] \in Job /\ mem \in Memory /\ rlog \in Seq(Recipe) /\ ilog \in Seq(Index)
        /\ Len(rlog) \in Nat /\ Len(ilog) \in Nat /\ TypeInv
    BY DEF TypeInv, ReadType, ProcessType, DiskType
  <1>2. /\ job[t].c \in Content /\ job[t].block \in Content /\ job[t].try \in 0 .. 1
        /\ Bad \notin Content
    BY <1>1, ReaderAssumption DEF Job
  <1>3. PICK s0, j0 : s0 = pc[t] /\ j0 = job[t] /\ Sees(s0, j0) /\ j0.c = job[t].c
    BY SeesNowSays
  <1>4. ASSUME UNCHANGED disk
        PROVE  /\ Placed' /\ LiveIndexed' /\ Live' = Live
               /\ rlog' = rlog /\ ilog' = ilog /\ rino' = rino /\ iino' = iino
    <2>1. /\ rlog' = rlog /\ ilog' = ilog /\ rino' = rino /\ iino' = iino
          /\ segs' = segs /\ victims' = victims
      BY <1>4 DEF disk
    <2>2. Live' = Live
      BY <2>1, WriteLive
    <2> QED
      BY <2>1, <2>2, SamePlaced DEF Ids
  <1>5. ASSUME mem' = mem
        PROVE  Latest
    BY <1>5 DEF Latest
  <1>6. \A c \in Content : c \in Live => IsLive(rlog, c) /\ \E i \in DOMAIN ilog : ilog[i].c = c
    <2>1. \A c \in Content : c \in Live => IsLive(rlog, c)
      <3>1. \A c \in Content : c \in Live <=> (LET i == LastFor(rlog, 0, c) IN
                                 IF i = 0 THEN 0 ELSE IF rlog[i].put THEN i ELSE 0) # 0
        BY DEF Live, Recipes, NoRecipe
      <3> QED
        BY <1>1, <3>1, LiveInSays
    <2> QED
      BY <2>1 DEF LiveIndexed
  <1>7. ASSUME NEW m \in Memory, UNCHANGED disk, mem' = Refreshed(m),
               m.rcp = mem.rcp, m.roff = mem.roff, m.rino \in {mem.rino, 0},
               m.idx = mem.idx, m.ioff = mem.ioff, m.iino \in {mem.iino, 0}
        PROVE  /\ Remembers' /\ Latest /\ mem'.rino = rino /\ mem'.iino = iino
               /\ \A c \in Content : c \in Live => mem'.rcp[c] # 0 /\ mem'.idx[c] # NoLoc
               /\ \A c \in Content : mem'.rcp[c] # 0 =>
                    mem'.rcp[c] \in DOMAIN rlog /\ rlog[mem'.rcp[c]] = [c |-> c, put |-> TRUE]
               /\ \A c \in Content : mem'.idx[c] # NoLoc =>
                    \E i \in DOMAIN ilog : ilog[i] = [c |-> c, loc |-> mem'.idx[c]]
    <2>1. /\ Remembers' /\ mem'.rino = rino /\ mem'.iino = iino
          /\ \A c \in Content : SaysRecipe(rlog, Len(rlog), c, mem'.rcp[c])
          /\ \A c \in Content : SaysPlace(ilog, Len(ilog), c, mem'.idx[c])
      BY <1>7, RefreshRemembers
    <2>2. ASSUME NEW c \in Content
          PROVE  /\ c \in Live => mem'.rcp[c] # 0 /\ mem'.idx[c] # NoLoc
                 /\ mem'.rcp[c] # 0 =>
                      mem'.rcp[c] \in DOMAIN rlog /\ rlog[mem'.rcp[c]] = [c |-> c, put |-> TRUE]
                 /\ mem'.idx[c] # NoLoc =>
                      \E i \in DOMAIN ilog : ilog[i] = [c |-> c, loc |-> mem'.idx[c]]
      <3>1. PICK p, l : p = mem'.rcp[c] /\ l = mem'.idx[c]
        OBVIOUS
      <3>2. SaysRecipe(rlog, Len(rlog), c, p) /\ SaysPlace(ilog, Len(ilog), c, l)
        BY <2>1, <3>1
      <3>3. /\ p # 0 => p \in DOMAIN rlog /\ rlog[p] = [c |-> c, put |-> TRUE]
            /\ IsLive(rlog, c) => p # 0
        BY <1>1, <3>2, RecipeThere
      <3>4. /\ l # NoLoc => \E i \in DOMAIN ilog : ilog[i] = [c |-> c, loc |-> l]
            /\ (\E i \in DOMAIN ilog : ilog[i].c = c) => l # NoLoc
        BY <1>1, <3>2, PlaceThere
      <3> QED
        BY <1>6, <3>1, <3>3, <3>4
    <2> QED
      BY <2>1, <2>2 DEF Latest
  <1>8. ASSUME NEW c \in Content, Start(t, c)
        PROVE  Remembers' /\ Placed' /\ LiveIndexed' /\ SeesNow'
    <2>1. UNCHANGED disk /\ mem' = mem /\ pc[t] = "idle"
      BY <1>8, StartSays DEF process
    <2>2. PICK k \in Job : /\ Set(t, "recipe", k) /\ k.c = c /\ k.got = c /\ k.try = 0
                           /\ k.here => c \in Live
      BY <1>8, StartSays
    <2>3. /\ pc'[t] = "recipe" /\ job'[t] = k
          /\ \A u \in Thread \ {t} : pc'[u] = pc[u] /\ job'[u] = job[u]
      BY <2>2, SetSays DEF TypeInv, ReadType, Step
    <2>4. Remembers' /\ Placed' /\ LiveIndexed' /\ Live' = Live
      BY <1>4, <2>1, SameRemembers
    <2>5. SeesNow'
      BY <1>2, <1>4, <2>1, <2>2, <2>3 DEF SeesNow
    <2> QED
      BY <2>4, <2>5
  <1>9. CASE FindRecipe(t)
    <2>1. /\ pc[t] = "recipe" /\ UNCHANGED disk
          /\ mem' = IfMissing(mem.rcp[job[t].c] = 0)
      BY <1>9, FindRecipeSays
    <2>2. /\ Remembers' /\ Latest
          /\ mem'.rcp[job[t].c] = 0 => job[t].c \notin Live
      <3>1. CASE mem.rcp[job[t].c] = 0
        <4>1. mem' = Refreshed(mem)
          BY <2>1, <3>1 DEF IfMissing
        <4> QED
          BY <1>1, <1>2, <1>7, <2>1, <4>1
      <3>2. CASE mem.rcp[job[t].c] # 0
        <4>1. mem' = mem
          BY <2>1, <3>2 DEF IfMissing
        <4> QED
          BY <1>5, <2>1, <3>2, <4>1, SameRemembers
      <3> QED
        BY <3>1, <3>2
    <2>3. j0.try = 0 /\ j0.got = j0.c /\ (j0.here => j0.c \in Live)
      BY <1>3, <2>1 DEF Sees
    <2>4. PICK s \in Step, k \in Job :
            \/ mem'.rcp[job[t].c] = 0 /\ EndsWith(t, s, k, Bad)
            \/ /\ Goes(t, s, k) /\ s = "decode"
               /\ k.try = job[t].try /\ k.got = job[t].got
      BY <1>9, FindRecipeSays
    <2>5. SeesNow'
      <3>1. CASE mem'.rcp[job[t].c] = 0 /\ EndsWith(t, s, k, Bad)
        <4>1. ~job[t].here
          BY <1>3, <2>2, <2>3, <3>1
        <4> QED
          BY <2>1, <2>2, <3>1, <4>1, EndsSees
      <3>2. CASE Goes(t, s, k) /\ s = "decode" /\ k.try = job[t].try /\ k.got = job[t].got
        <4>1. /\ k.c = j0.c /\ k.here = j0.here /\ k.try = 0 /\ k.got = k.c /\ k.got # Bad
          BY <1>2, <1>3, <2>3, <3>2 DEF Goes
        <4>2. Live' = Live
          BY <1>4, <2>1
        <4>3. Sees(s, k)'
          BY <2>3, <3>2, <4>1, <4>2 DEF Sees
        <4> QED
          BY <2>1, <2>2, <3>2, <4>3, GoesSees
      <3> QED
        BY <2>4, <3>1, <3>2
    <2> QED
      BY <1>4, <2>1, <2>2, <2>5
  <1>10. CASE Decode(t)
    <2>1. pc[t] = "decode" /\ UNCHANGED disk /\ mem' = mem
      BY <1>10, DecodeSays DEF process
    <2>2. /\ j0.got = j0.c /\ (j0.here => j0.c \in Live)
          /\ j0.try = 1 /\ j0.calm =>
               /\ mem.rino = rino /\ j0.pos \in DOMAIN rlog
               /\ rlog[j0.pos] = [c |-> j0.c, put |-> TRUE]
      BY <1>3, <2>1 DEF Sees
    <2>3. PICK b \in Decoded(job[t].pos, job[t].c), s \in Step, k \in Job :
            \/ Goes(t, s, k) /\ s = "lookup" /\ k.try = 0 /\ k.got = job[t].got
            \/ Goes(t, s, k) /\ s = "reread" /\ k = job[t]
            \/ b = Bad /\ job[t].try = 1 /\ EndsWith(t, s, k, Bad)
      BY <1>10, DecodeSays
    <2>4. Latest /\ Live' = Live
      BY <1>4, <1>5, <2>1
    <2>5. CASE Goes(t, s, k) /\ s = "lookup" /\ k.try = 0 /\ k.got = job[t].got
      <3>1. k.c = j0.c /\ k.here = j0.here /\ k.got = k.c /\ k.got # Bad
        BY <1>2, <1>3, <2>2, <2>5 DEF Goes
      <3>2. Sees(s, k)'
        BY <2>2, <2>4, <2>5, <3>1 DEF Sees
      <3>3. SeesNow'
        BY <2>1, <2>4, <2>5, <3>2, GoesSees
      <3> QED
        BY <1>4, <2>1, <3>3, SameRemembers
    <2>6. CASE Goes(t, s, k) /\ s = "reread" /\ k = job[t]
      <3>1. k.got = k.c /\ k.got # Bad /\ (k.here => k.c \in Live)
        BY <1>2, <1>3, <2>2, <2>6
      <3>2. Sees(s, k)'
        BY <2>4, <2>6, <3>1 DEF Sees
      <3>3. SeesNow'
        BY <2>1, <2>4, <2>6, <3>2, GoesSees
      <3> QED
        BY <1>4, <2>1, <3>3, SameRemembers
    <2>7. CASE b = Bad /\ job[t].try = 1 /\ EndsWith(t, s, k, Bad)
      <3>1. ASSUME job[t].calm
            PROVE  FALSE
        <4>1. /\ mem.rino = rino /\ job[t].pos \in DOMAIN rlog
              /\ rlog[job[t].pos] = [c |-> job[t].c, put |-> TRUE]
          BY <1>3, <2>2, <2>7, <3>1
        <4>2. rlog[job[t].pos].c = job[t].c /\ rlog[job[t].pos].put = TRUE
          BY <4>1
        <4>3. Decoded(job[t].pos, job[t].c) = {job[t].c}
          BY <4>1, <4>2 DEF Decoded
        <4> QED
          BY <1>2, <2>7, <4>3
      <3>2. SeesNow'
        BY <2>1, <2>4, <2>7, <3>1, EndsSees
      <3> QED
        BY <1>4, <2>1, <3>2, SameRemembers
    <2> QED
      BY <2>3, <2>5, <2>6, <2>7
  <1>11. CASE RereadRecipes(t)
    <2>1. pc[t] = "reread" /\ UNCHANGED disk
      BY <1>11, RereadRecipesSays
    <2>2. /\ Remembers' /\ Latest /\ mem'.rino = rino
          /\ job[t].c \in Live => mem'.rcp[job[t].c] # 0
          /\ mem'.rcp[job[t].c] # 0 =>
               /\ mem'.rcp[job[t].c] \in DOMAIN rlog
               /\ rlog[mem'.rcp[job[t].c]] = [c |-> job[t].c, put |-> TRUE]
      <3> DEFINE m == [mem EXCEPT !.rino = 0]
      <3>1. /\ m \in Memory /\ m.rcp = mem.rcp /\ m.roff = mem.roff /\ m.rino = 0
            /\ m.idx = mem.idx /\ m.ioff = mem.ioff /\ m.iino = mem.iino
        BY <1>1, ForgetSays
      <3>2. mem' = Refreshed(m)
        BY <1>11, RereadRecipesSays
      <3> HIDE DEF m
      <3> QED
        BY <1>2, <1>7, <2>1, <3>1, <3>2
    <2>3. j0.got = j0.c /\ (j0.here => j0.c \in Live)
      BY <1>3, <2>1 DEF Sees
    <2>4. PICK s \in Step, k \in Job :
            \/ mem'.rcp[job[t].c] = 0 /\ EndsWith(t, s, k, Bad)
            \/ /\ mem'.rcp[job[t].c] # 0 /\ Goes(t, s, k) /\ s = "decode"
               /\ k.pos = mem'.rcp[job[t].c] /\ k.got = job[t].got
      BY <1>11, RereadRecipesSays
    <2>5. Live' = Live /\ rlog' = rlog /\ rino' = rino
      BY <1>4, <2>1
    <2>6. CASE mem'.rcp[job[t].c] = 0 /\ EndsWith(t, s, k, Bad)
      <3>1. ~job[t].here
        BY <1>3, <2>2, <2>3, <2>6
      <3>2. SeesNow'
        BY <2>1, <2>2, <2>6, <3>1, EndsSees
      <3> QED
        BY <1>4, <2>1, <2>2, <3>2
    <2>7. CASE /\ mem'.rcp[job[t].c] # 0 /\ Goes(t, s, k) /\ s = "decode"
               /\ k.pos = mem'.rcp[job[t].c] /\ k.got = job[t].got
      <3>1. k.c = j0.c /\ k.here = j0.here /\ k.got = k.c /\ k.got # Bad
        BY <1>2, <1>3, <2>3, <2>7 DEF Goes
      <3>2. k.pos \in DOMAIN rlog /\ rlog[k.pos] = [c |-> k.c, put |-> TRUE]
        BY <1>3, <2>2, <2>7, <3>1
      <3>3. Sees(s, k)'
        BY <2>2, <2>3, <2>5, <2>7, <3>1, <3>2 DEF Sees
      <3>4. SeesNow'
        BY <2>1, <2>2, <2>7, <3>3, GoesSees
      <3> QED
        BY <1>4, <2>1, <2>2, <3>4
    <2> QED
      BY <2>4, <2>6, <2>7
  <1>12. CASE Lookup(t)
    <2>1. /\ pc[t] = "lookup" /\ UNCHANGED disk
          /\ mem' = IfMissing(mem.idx[job[t].block] = NoLoc)
      BY <1>12, LookupSays
    <2>2. job[t].block = job[t].c
      BY <2>1 DEF ReadHolds
    <2>3. /\ j0.got = j0.c /\ (j0.here => j0.c \in Live)
          /\ j0.try = 1 /\ j0.calm => mem.iino = iino
      BY <1>3, <2>1 DEF Sees
    <2>4. /\ Remembers' /\ Latest
          /\ mem'.idx[job[t].c] = NoLoc => job[t].c \notin Live
          /\ mem'.iino = iino /\ mem'.idx[job[t].c] # NoLoc =>
               \E i \in DOMAIN ilog : ilog[i] = [c |-> job[t].c, loc |-> mem'.idx[job[t].c]]
      <3>1. CASE mem.idx[job[t].c] = NoLoc
        <4>1. mem' = Refreshed(mem)
          BY <2>1, <2>2, <3>1 DEF IfMissing
        <4> QED
          BY <1>1, <1>2, <1>7, <2>1, <4>1
      <3>2. CASE mem.idx[job[t].c] # NoLoc
        <4>1. mem' = mem
          BY <2>1, <2>2, <3>2 DEF IfMissing
        <4>2. ASSUME mem.iino = iino
              PROVE  \E i \in DOMAIN ilog : ilog[i] = [c |-> job[t].c, loc |-> mem.idx[job[t].c]]
          <5>1. PICK c, l, n : c = job[t].c /\ l = mem.idx[c] /\ n = mem.ioff
            OBVIOUS
          <5>1a. c \in Content /\ l \in Loc \cup {NoLoc} /\ n \in Nat
            BY <1>1, <1>2, <5>1 DEF Memory
          <5>2. SaysPlace(ilog, n, c, l) /\ n <= Len(ilog) /\ l # NoLoc
            BY <3>2, <4>2, <5>1, <5>1a DEF Remembers
          <5>3. \E i \in DOMAIN ilog : ilog[i] = [c |-> c, loc |-> l]
            BY <1>1, <5>1a, <5>2, PlaceThere
          <5> QED
            BY <5>1, <5>3
        <4> QED
          BY <1>5, <2>1, <3>2, <4>1, <4>2, SameRemembers
      <3> QED
        BY <3>1, <3>2
    <2>5. PICK s \in Step, k \in Job :
            \/ mem'.idx[job[t].c] = NoLoc /\ EndsWith(t, s, k, Bad)
            \/ /\ mem'.idx[job[t].c] # NoLoc /\ Goes(t, s, k) /\ s = "frame"
               /\ k.loc = mem'.idx[job[t].c] /\ k.try = job[t].try /\ k.got = job[t].got
      BY <1>12, <2>2, LookupSays
    <2>6. Live' = Live /\ ilog' = ilog /\ iino' = iino
      BY <1>4, <2>1
    <2>7. CASE mem'.idx[job[t].c] = NoLoc /\ EndsWith(t, s, k, Bad)
      <3>1. ~job[t].here
        BY <1>3, <2>3, <2>4, <2>7
      <3>2. SeesNow'
        BY <2>1, <2>4, <2>7, <3>1, EndsSees
      <3> QED
        BY <1>4, <2>1, <2>4, <3>2
    <2>8. CASE /\ mem'.idx[job[t].c] # NoLoc /\ Goes(t, s, k) /\ s = "frame"
               /\ k.loc = mem'.idx[job[t].c] /\ k.try = job[t].try /\ k.got = job[t].got
      <3>1. /\ k.c = j0.c /\ k.here = j0.here /\ k.calm = j0.calm /\ k.try = j0.try
            /\ k.got = k.c /\ k.got # Bad
        BY <1>2, <1>3, <2>3, <2>8 DEF Goes
      <3>2. ASSUME k.try = 1, k.calm
            PROVE  \E i \in DOMAIN ilog : ilog[i] = [c |-> k.c, loc |-> k.loc]
        <4>1. mem.iino = iino
          BY <2>3, <3>1, <3>2
        <4>2. mem'.iino = iino
          BY <2>4, <4>1 DEF Latest
        <4> QED
          BY <1>3, <2>4, <2>8, <3>1, <4>2
      <3>3. Sees(s, k)'
        BY <2>3, <2>6, <2>8, <3>1, <3>2 DEF Sees
      <3>4. SeesNow'
        BY <2>1, <2>4, <2>8, <3>3, GoesSees
      <3> QED
        BY <1>4, <2>1, <2>4, <3>4
    <2> QED
      BY <2>5, <2>7, <2>8
  <1>13. CASE CacheHit(t)
    <2>1. UNCHANGED disk /\ mem' = mem /\ pc[t] = "frame"
      BY <1>13, CacheHitSays
    <2>2. PICK i \in DOMAIN cache : /\ cache[i].loc = job[t].loc
                                    /\ cache[i].bytes \in Content /\ Deliver(t, cache[i].bytes)
      BY <1>13, CacheHitSays
    <2>3. /\ Holds(job[t].loc, cache[i].bytes) /\ Holds(job[t].loc, job[t].c)
          /\ job[t].block = job[t].c
      BY <2>1, <2>2 DEF CacheHolds, ReadHolds
    <2>4. cache[i].bytes = job[t].block
      BY <2>3 DEF Holds
    <2>5. SeesNow'
      BY <1>5, <2>1, <2>2, <2>4, DeliverSees
    <2> QED
      BY <1>4, <2>1, <2>5, SameRemembers
  <1>14. CASE OpenSegment(t)
    <2>1. UNCHANGED disk /\ mem' = mem /\ pc[t] = "frame" /\ job[t].loc.seg \in Seg
      BY <1>14, OpenSegmentSays
    <2>2. /\ j0.got = j0.c /\ (j0.here => j0.c \in Live)
          /\ j0.try = 1 /\ j0.calm => \E i \in DOMAIN ilog : ilog[i] = [c |-> j0.c, loc |-> j0.loc]
      BY <1>3, <2>1 DEF Sees
    <2>3. Latest /\ Live' = Live /\ ilog' = ilog
      BY <1>4, <1>5, <2>1
    <2>4. CASE Descriptor(job[t].loc.seg) = 0 /\ Missed(t)
      <3>1. ASSUME job[t].try = 1, job[t].calm
            PROVE  FALSE
        <4>1. PICK i \in DOMAIN ilog : ilog[i] = [c |-> job[t].c, loc |-> job[t].loc]
          BY <1>3, <2>2, <3>1
        <4>2. job[t].loc.seg \in Ids
          BY <4>1 DEF Placed
        <4>3. segs[job[t].loc.seg] # 0
          BY <4>2 DEF Ids
        <4> QED
          BY <2>4, <4>3 DEF Descriptor
      <3>2. SeesNow'
        BY <2>1, <2>3, <2>4, <3>1, MissedSees
      <3> QED
        BY <1>4, <2>1, <3>2, SameRemembers
    <2>5. CASE \E s \in Step, k \in Job :
                 /\ Goes(t, s, k) /\ s = "read" /\ k.loc = job[t].loc /\ k.closed = FALSE
                 /\ k.try = job[t].try /\ k.got = job[t].got
      <3>1. PICK s \in Step, k \in Job :
              /\ Goes(t, s, k) /\ s = "read" /\ k.loc = job[t].loc /\ k.closed = FALSE
              /\ k.try = job[t].try /\ k.got = job[t].got
        BY <2>5
      <3>2. /\ k.c = j0.c /\ k.here = j0.here /\ k.calm = j0.calm /\ k.try = j0.try
            /\ k.loc = j0.loc /\ k.got = k.c /\ k.got # Bad
        BY <1>2, <1>3, <2>2, <3>1 DEF Goes
      <3>3. Sees(s, k)'
        BY <2>2, <2>3, <3>1, <3>2 DEF Sees
      <3>4. SeesNow'
        BY <2>1, <2>3, <3>1, <3>3, GoesSees
      <3> QED
        BY <1>4, <2>1, <3>4, SameRemembers
    <2>6. \/ Descriptor(job[t].loc.seg) = 0 /\ Missed(t)
          \/ \E s \in Step, k \in Job :
               /\ Goes(t, s, k) /\ s = "read" /\ k.loc = job[t].loc /\ k.closed = FALSE
               /\ k.try = job[t].try /\ k.got = job[t].got
      BY <1>14, OpenSegmentSays
    <2> QED
      BY <2>4, <2>5, <2>6
  <1>15. CASE ReadFrame(t)
    <2>1. UNCHANGED disk /\ mem' = mem /\ pc[t] = "read"
      BY <1>15, ReadFrameSays
    <2>2. j0.closed => ~j0.calm
      BY <1>3, <2>1 DEF Sees
    <2>3. /\ job[t].file = job[t].loc.seg /\ Holds(job[t].loc, job[t].c)
          /\ job[t].block = job[t].c
      BY <2>1 DEF OneFile, ReadHolds
    <2>4. CASE /\ job[t].closed \/ job[t].loc.off \notin DOMAIN files[job[t].file]
               /\ Missed(t)
      <3>1. ~job[t].calm
        BY <1>3, <2>2, <2>3, <2>4 DEF Holds
      <3>2. SeesNow'
        BY <1>5, <2>1, <2>4, <3>1, MissedSees
      <3> QED
        BY <1>4, <2>1, <3>2, SameRemembers
    <2>5. CASE \E b \in Content :
                 b = files[job[t].file][job[t].loc.off] /\ Deliver(t, b)
      <3>1. PICK b \in Content : b = files[job[t].file][job[t].loc.off] /\ Deliver(t, b)
        BY <2>5
      <3>2. b = job[t].block
        BY <2>3, <3>1 DEF Holds
      <3>3. SeesNow'
        BY <1>5, <2>1, <3>1, <3>2, DeliverSees
      <3> QED
        BY <1>4, <2>1, <3>3, SameRemembers
    <2> QED
      BY <1>15, <2>4, <2>5, ReadFrameSays
  <1>16. CASE Drop(t)
    <2>1. UNCHANGED disk /\ mem' = mem /\ pc[t] = "drop"
      BY <1>16 DEF Drop
    <2>2. /\ pc'[t] = "reindex" /\ \A u \in Thread : u # t => pc'[u] = pc[u]
          /\ \A u \in Thread : /\ SameRead(job[u], job'[u]) /\ job'[u].here = job[u].here
                               /\ job'[u] = job[u] \/ job'[u].calm = FALSE
                               /\ u # t /\ pc[u] = "read" => job'[u].calm = FALSE
      BY <1>16, DropSays DEF TypeInv, ReadType
    <2>3. Live' = Live /\ rlog' = rlog /\ ilog' = ilog /\ rino' = rino /\ iino' = iino
      BY <1>4, <2>1
    <2>4. ASSUME NEW u \in Thread, NEW s, NEW j, NEW x, NEW k,
                 s = pc[u], j = job[u], x = pc'[u], k = job'[u]
          PROVE  Sees(x, k)'
      <3>1. Sees(s, j)
        BY <2>4, SeesNowSays
      <3>2. /\ k.c = j.c /\ k.pos = j.pos /\ k.try = j.try /\ k.loc = j.loc /\ k.got = j.got
            /\ k.here = j.here /\ (k.calm => k = j)
        BY <2>2, <2>4 DEF SameRead
      <3>3. x = s \/ (x = "reindex" /\ s = "drop")
        BY <2>1, <2>2, <2>4
      <3>4. x = "read" /\ k.closed => ~k.calm
        BY <2>2, <2>4, <3>1, <3>2, <3>3 DEF Sees
      <3>5. /\ x # "idle" => k.got = k.c
            /\ x = "recipe" => k.try = 0
            /\ x # "idle" /\ k.here => k.c \in Live
            /\ k.got = Bad => ~k.calm \/ ~k.here
        BY <3>1, <3>2, <3>3 DEF Sees
      <3>6. /\ x = "decode" /\ k.try = 1 /\ k.calm =>
                 /\ mem.rino = rino /\ k.pos \in DOMAIN rlog
                 /\ rlog[k.pos] = [c |-> k.c, put |-> TRUE]
            /\ x = "lookup" /\ k.try = 1 /\ k.calm => mem.iino = iino
            /\ x \in {"frame", "read"} /\ k.try = 1 /\ k.calm =>
                 \E i \in DOMAIN ilog : ilog[i] = [c |-> k.c, loc |-> k.loc]
        BY <3>1, <3>2, <3>3 DEF Sees
      <3> QED
        BY <2>1, <2>3, <3>4, <3>5, <3>6 DEF Sees
    <2>5. \A u \in Thread : \A x, k : x = pc'[u] /\ k = job'[u] => Sees(x, k)'
      BY <2>4
    <2>6. SeesNow'
      BY <2>5 DEF SeesNow, Sees
    <2> QED
      BY <1>4, <2>1, <2>6, SameRemembers
  <1>17. CASE Reindex(t)
    <2>1. pc[t] = "reindex" /\ UNCHANGED disk
      BY <1>17, ReindexSays
    <2>2. Remembers' /\ Latest /\ mem'.iino = iino
      <3> DEFINE m == ForReindex(mem)
      <3>1. /\ m \in Memory /\ m.rcp = mem.rcp /\ m.roff = mem.roff /\ m.rino = mem.rino
            /\ m.idx = mem.idx /\ m.ioff = mem.ioff /\ m.iino = 0
        BY <1>1, ForgetSays
      <3>2. mem' = Refreshed(m)
        BY <1>17, ReindexSays
      <3> HIDE DEF m
      <3> QED
        BY <1>7, <2>1, <3>1, <3>2
    <2>3. j0.got = j0.c /\ (j0.here => j0.c \in Live)
      BY <1>3, <2>1 DEF Sees
    <2>4. PICK s \in Step, k \in Job : Goes(t, s, k) /\ s = "lookup" /\ k.got = job[t].got
      BY <1>17, ReindexSays
    <2>5. k.c = j0.c /\ k.here = j0.here /\ k.got = k.c /\ k.got # Bad
      BY <1>2, <1>3, <2>3, <2>4 DEF Goes
    <2>6. Live' = Live /\ iino' = iino
      BY <1>4, <2>1
    <2>7. Sees(s, k)'
      BY <2>2, <2>3, <2>4, <2>5, <2>6 DEF Sees
    <2>8. SeesNow'
      BY <2>1, <2>2, <2>4, <2>7, GoesSees
    <2> QED
      BY <1>4, <2>1, <2>2, <2>8
  <1> QED
    BY <1>8, <1>9, <1>10, <1>11, <1>12, <1>13, <1>14, <1>15, <1>16, <1>17 DEF Proceed

\* At first nothing is there and nothing is remembered.
LEMMA ServeInit == Init => Remembers /\ Placed /\ LiveIndexed /\ SeesNow
  <1> SUFFICES ASSUME Init
               PROVE  Remembers /\ Placed /\ LiveIndexed /\ SeesNow
    OBVIOUS
  <1>1. \A c \in Content : /\ SaysRecipe(rlog, 0, c, NoRecipe[c])
                           /\ SaysPlace(ilog, 0, c, Nowhere[c])
    BY NothingRead
  <1>2. Remembers
    BY <1>1 DEF Init, Remembers
  <1>3. Placed
    BY DEF Init, Placed
  <1>4. LiveIndexed
    <2>1. ASSUME NEW c \in Live
          PROVE  FALSE
      <3>1. c \in Content /\ Recipes(NoRecipe, 0)[c] # 0
        BY DEF Live
      <3>2. /\ SaysRecipe(rlog, 0, c, NoRecipe[c]) /\ NoRecipe \in [Content -> Nat]
            /\ rlog \in Seq(Recipe) /\ Len(rlog) = 0 /\ 0 \in Nat
        <4>1. rlog = <<>>
          BY DEF Init
        <4>2. rlog \in Seq(Recipe) /\ Len(rlog) = 0 /\ 0 \in Nat
          BY <4>1
        <4> QED
          BY <3>1, <4>2, NothingRead
      <3>3. SaysRecipe(rlog, 0, c, Recipes(NoRecipe, 0)[c])
        BY <3>1, <3>2, RecipesSay
      <3> QED
        BY <3>1, <3>3 DEF SaysRecipe
    <2> QED
      BY <2>1 DEF LiveIndexed
  <1>5. ASSUME NEW t \in Thread
        PROVE  pc[t] = "idle" /\ job[t].got \in Content
    <2>1. job[t] \in {Asked(c, TRUE) : c \in Content}
      <3>1. \A S : job \in [Thread -> S] => job[t] \in S
        OBVIOUS
      <3> QED
        BY <3>1, Zenon DEF Init
    <2>2. PICK c \in Content : job[t] = Asked(c, TRUE)
      BY <2>1
    <2> QED
      BY <2>2 DEF Asked, Init
  <1>6. SeesNow
    BY <1>5, ReaderAssumption DEF SeesNow
  <1> QED
    BY <1>2, <1>3, <1>4, <1>6

\* One step of anyone.
LEMMA ServeStep ==
  ASSUME Races = {}
  PROVE  ServeInv /\ [Next]_vars => ServeInv'
  <1> SUFFICES ASSUME ServeInv, [Next]_vars
               PROVE  Remembers' /\ Placed' /\ LiveIndexed' /\ SeesNow'
    BY ReadStep DEF ServeInv
  <1>1. TypeInv /\ ReadInv /\ TypeInv'
    BY TypeStep DEF ServeInv, ReadInv, CacheInv
  <1>2. CASE UNCHANGED vars
    <2>1. UNCHANGED disk /\ mem' = mem /\ pc' = pc /\ job' = job /\ rlog' = rlog
          /\ ilog' = ilog /\ segs' = segs /\ victims' = victims /\ rino' = rino /\ iino' = iino
      BY <1>2 DEF vars, disk
    <2>2. Live' = Live
      BY <1>1, <2>1, WriteLive
    <2>3. Placed' /\ LiveIndexed'
      BY <2>1, <2>2, SamePlaced DEF ServeInv, Ids
    <2>4. SeesNow'
      BY <2>1, <2>2 DEF ServeInv, SeesNow
    <2> QED
      BY <2>1, <2>3, <2>4, SameRemembers DEF ServeInv
  <1>3. CASE Write
    <2>1. mem' = mem /\ pc' = pc /\ DiskType'
      BY <1>1, <1>3, WriteType DEF DiskTypeNext, process
    <2>2. LogsChange
      BY <1>1, <1>3, WriteLogs
    <2>3. Remembers' /\ SeesNow'
      BY <1>1, <2>1, <2>2, WriteRemembers, WriteSeesNow DEF ServeInv
    <2> QED
      BY <1>1, <1>3, <2>3, WritePlaced DEF ServeInv
  <1> QED
    BY <1>2, <1>3, ProceedServe DEF Next

\* Where nothing is given twice, a content that was there all the time is read
\* unless its read was disturbed: the second attempt finds what the first one
\* missed, however old what the process remembers is.
THEOREM ReaderServed ==
  ASSUME Races = {}
  PROVE  Spec => []Served
  <1>1. Init => ServeInv
    BY TypeInit, CacheInit, ReadInit, ServeInit DEF ServeInv, ReadInv, CacheInv
  <1>2. ServeInv /\ [Next]_vars => ServeInv'
    BY ServeStep
  <1>3. ServeInv => Served
    BY DEF ServeInv, SeesNow, Served
  <1> QED
    BY <1>1, <1>2, <1>3, PTL DEF Spec

=============================================================================
