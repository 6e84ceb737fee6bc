------------------------- MODULE FileTransferProofs -------------------------
(***************************************************************************)
(* Proofs about FileTransfer: what ssh_sync promises of the files it copies *)
(* and deletes, for any trees, faults and edits.                           *)
(***************************************************************************)
EXTENDS FileTransfer, TLAPS

---------------------------------------------------------------------------
(* Paths and trees.                                                        *)

LEMMA NameIsPath ==
  ASSUME NEW S, NEW s \in S
  PROVE  <<s>> \in Seq(S)
  OBVIOUS

LEMMA EmptyIsPrefix ==
  ASSUME NEW q \in Seq(STRING)
  PROVE  IsPrefix(<<>>, q)
  <1>1. Len(<<>>) = 0 /\ SubSeq(<<>>, 1, 0) = <<>> /\ SubSeq(q, 1, 0) = <<>>
    OBVIOUS
  <1> QED BY <1>1 DEF IsPrefix

LEMMA SelfIsPrefix ==
  ASSUME NEW q \in Seq(STRING)
  PROVE  IsPrefix(q, q)
  BY DEF IsPrefix

LEMMA CutIsPrefix ==
  ASSUME NEW q \in Seq(STRING), NEW n \in Nat, n <= Len(q)
  PROVE  /\ SubSeq(q, 1, n) \in Seq(STRING)
         /\ Len(SubSeq(q, 1, n)) = n
         /\ IsPrefix(SubSeq(q, 1, n), q)
         /\ n > 0 => SubSeq(q, 1, n) # <<>> /\ Head(SubSeq(q, 1, n)) = Head(q)
  <1> DEFINE p == SubSeq(q, 1, n)
  <1>1. p \in Seq(STRING) /\ Len(p) = n /\ \A i \in 1..n : p[i] = q[i]
    OBVIOUS
  <1>2. SubSeq(p, 1, Len(p)) = p
    BY <1>1
  <1>3. IsPrefix(p, q)
    BY <1>1, <1>2 DEF IsPrefix
  <1>4. ASSUME n > 0
        PROVE  p # <<>> /\ Head(p) = Head(q)
    <2>1. p # <<>> /\ q # <<>>
      BY <1>1, <1>4
    <2>2. Head(p) = p[1] /\ Head(q) = q[1]
      BY <1>1, <2>1
    <2>3. 1 \in 1..n
      BY <1>4
    <2> QED BY <1>1, <2>1, <2>2, <2>3
  <1> QED BY <1>1, <1>3, <1>4

\* A prefix of a path has its first name.
LEMMA PrefixHead ==
  ASSUME NEW p \in Seq(STRING), NEW q \in Seq(STRING), IsPrefix(p, q), p # <<>>
  PROVE  q # <<>> /\ Head(q) = Head(p)
  <1>1. Len(p) > 0 /\ Len(p) <= Len(q)
    BY DEF IsPrefix
  <1>2. SubSeq(p, 1, Len(p))[1] = SubSeq(q, 1, Len(p))[1]
    BY DEF IsPrefix
  <1>3. SubSeq(p, 1, Len(p))[1] = p[1] /\ SubSeq(q, 1, Len(p))[1] = q[1]
    BY <1>1
  <1> QED BY <1>1, <1>2, <1>3

\* A proper prefix of a path is shorter.
LEMMA PrefixShorter ==
  ASSUME NEW p \in Seq(STRING), NEW q \in Seq(STRING), IsPrefix(p, q), p # q
  PROVE  Len(p) < Len(q)
  <1>1. SUFFICES ASSUME Len(p) = Len(q) PROVE FALSE
    BY DEF IsPrefix
  <1>2. SubSeq(p, 1, Len(p)) = p /\ SubSeq(q, 1, Len(q)) = q
    OBVIOUS
  <1> QED BY <1>1, <1>2 DEF IsPrefix

LEMMA FilesAreNames ==
  /\ \A q \in Files : q \in Seq(STRING) /\ q # <<>>
  /\ \A p, q \in Files : IsPrefix(p, q) => p = q
  BY TransferAssumption

\* A directory that holds files is no file itself, and has a path.
LEMMA DirsInAreDirs ==
  ASSUME NEW T, DOMAIN T \subseteq Files, NEW p \in Seq(STRING), NEW r \in DirsIn(T, p)
  PROVE  /\ r \in Seq(STRING) /\ r \notin Files
         /\ p # <<>> => r # <<>> /\ Head(r) = Head(p)
  <1>1. PICK q \in DOMAIN T : IsPrefix(p, q) /\ Len(q) > Len(p) + 1 /\ r = SubSeq(q, 1, Len(p) + 1)
    BY DEF DirsIn
  <1>2. q \in Files /\ q \in Seq(STRING) /\ Len(p) \in Nat
    BY <1>1, FilesAreNames
  <1>3. r \in Seq(STRING) /\ Len(r) = Len(p) + 1 /\ IsPrefix(r, q) /\ r # <<>> /\ Head(r) = Head(q)
    BY <1>1, <1>2, CutIsPrefix
  <1>4. r # q
    BY <1>1, <1>3
  <1>5. r \notin Files
    BY <1>2, <1>3, <1>4, FilesAreNames
  <1>6. p # <<>> => Head(q) = Head(p)
    BY <1>1, <1>2, PrefixHead
  <1> QED BY <1>3, <1>5, <1>6

\* A look at a directory sees every file below it, or the directory it is in.
LEMMA LookFinds ==
  ASSUME NEW T, DOMAIN T \subseteq Files, NEW p \in Seq(STRING),
         NEW q \in DOMAIN T, IsPrefix(p, q)
  PROVE  /\ p \in Files => p = q
         /\ p \notin Files => q \in FilesIn(T, p) \/ \E r \in DirsIn(T, p) : IsPrefix(r, q)
  <1>1. q \in Files /\ q \in Seq(STRING) /\ Len(p) \in Nat /\ Len(q) \in Nat
    BY FilesAreNames
  <1>2. p \in Files => p = q
    BY <1>1, FilesAreNames
  <1>3. ASSUME p \notin Files, Len(q) # Len(p) + 1
        PROVE  \E r \in DirsIn(T, p) : IsPrefix(r, q)
    <2>1. Len(p) < Len(q)
      BY <1>1, <1>3, PrefixShorter
    <2>2. Len(q) > Len(p) + 1
      BY <1>1, <1>3, <2>1
    <2>3. SubSeq(q, 1, Len(p) + 1) \in DirsIn(T, p)
      BY <2>2 DEF DirsIn
    <2>4. IsPrefix(SubSeq(q, 1, Len(p) + 1), q)
      BY <1>1, <2>2, CutIsPrefix
    <2> QED BY <2>3, <2>4
  <1>4. Len(q) = Len(p) + 1 => q \in FilesIn(T, p)
    BY DEF FilesIn
  <1> QED BY <1>2, <1>3, <1>4

\* A file has a name under every kind of call, and a tree call keeps it.
LEMMA KeyIsName ==
  ASSUME NEW kind \in {"tree", "glob", "file"}, NEW q \in Files
  PROVE  Key(kind, q) \in Seq(STRING) /\ Key(kind, q) # <<>>
  <1>1. q \in Seq(STRING) /\ q # <<>> /\ Len(q) \in Nat /\ Len(q) > 0
    BY FilesAreNames
  <1>2. Tail(q) \in Seq(STRING) /\ Len(Tail(q)) = Len(q) - 1
    BY <1>1
  <1>3. Len(q) # 1 => Tail(q) # <<>>
    BY <1>1, <1>2
  <1>4. Last(q) \in STRING
    BY <1>1 DEF Last
  <1>5. <<Last(q)>> \in Seq(STRING) /\ <<Last(q)>> # <<>>
    BY <1>4
  <1> QED BY <1>1, <1>2, <1>3, <1>5 DEF Key

LEMMA MergeIsTree ==
  ASSUME NEW P, NEW T, NEW U, IsTree(T, P), IsTree(U, P)
  PROVE  IsTree(Merge(T, U), P) /\ DOMAIN Merge(T, U) = DOMAIN T \cup DOMAIN U
  BY DEF IsTree, Merge

\* What SeenAt adds: names of files of the source below p, under a plain call
\* the files themselves.
LEMMA SeenAtIsTree ==
  ASSUME IsTree(fs[call.from], Files), call.kind \in {"tree", "glob", "file"}, NEW p
  PROVE  /\ IsTree(SeenAt(p), Seq(STRING)) /\ <<>> \notin DOMAIN SeenAt(p)
         /\ p \in DOMAIN fs[call.from] => DOMAIN SeenAt(p) = {Key(call.kind, p)}
         /\ p \notin DOMAIN fs[call.from] =>
              DOMAIN SeenAt(p) = {Key(call.kind, q) : q \in FilesIn(fs[call.from], p)}
         /\ \A k \in DOMAIN SeenAt(p) :
              \E q \in DOMAIN fs[call.from] :
                /\ q = p \/ q \in FilesIn(fs[call.from], p)
                /\ Key(call.kind, q) = k
                /\ SeenAt(p)[k] = fs[call.from][q]
  <1> DEFINE T == fs[call.from]
             found == IF p \in DOMAIN T THEN {p} ELSE FilesIn(T, p)
             pick(k) == CHOOSE q \in found : Key(call.kind, q) = k
  <1>1. found \subseteq DOMAIN T /\ DOMAIN T \subseteq Files
    BY DEF FilesIn, IsTree
  <1>2. SeenAt(p) = [k \in {Key(call.kind, q) : q \in found} |-> T[pick(k)]]
    BY DEF SeenAt
  <1>3. ASSUME NEW k \in DOMAIN SeenAt(p)
        PROVE  pick(k) \in found /\ Key(call.kind, pick(k)) = k /\ SeenAt(p)[k] = T[pick(k)]
    <2>1. \E q \in found : Key(call.kind, q) = k
      BY <1>2, <1>3
    <2>2. pick(k) \in found /\ Key(call.kind, pick(k)) = k
      BY <2>1
    <2> QED BY <1>2, <1>3, <2>2
  <1>4. DOMAIN SeenAt(p) = {Key(call.kind, q) : q \in found}
    BY <1>2
  <1>5. ASSUME NEW k \in DOMAIN SeenAt(p)
        PROVE  k \in Seq(STRING) /\ k # <<>> /\ SeenAt(p)[k] \in File
    <2>1. pick(k) \in Files /\ T[pick(k)] \in File
      BY <1>1, <1>3, <1>5 DEF IsTree
    <2> QED BY <1>3, <1>5, <2>1, KeyIsName
  <1>6. IsTree(SeenAt(p), Seq(STRING)) /\ <<>> \notin DOMAIN SeenAt(p)
    BY <1>5 DEF IsTree
  <1>7. ASSUME NEW k \in DOMAIN SeenAt(p)
        PROVE  \E q \in DOMAIN T : /\ q = p \/ q \in FilesIn(T, p)
                                   /\ Key(call.kind, q) = k
                                   /\ SeenAt(p)[k] = T[q]
    <2>1. pick(k) \in DOMAIN T /\ (pick(k) = p \/ pick(k) \in FilesIn(T, p))
      BY <1>1, <1>3, <1>7
    <2> QED BY <1>3, <1>7, <2>1
  <1> HIDE DEF pick
  <1> QED BY <1>4, <1>6, <1>7

---------------------------------------------------------------------------
(* The inductive invariant, of a call c and the files F.                   *)

Walks == {"source", "target", "copy", "delete"}

\* The call is between two different places; a tree is that of the whole place.
Ends(c) ==
  /\ c.pc # "idle" => c.from # c.to
  /\ c.kind = "tree" => c.path = <<>>
  /\ c.kind = "file" => c.path \in Files

\* The steady files were at the source all the time.
Present(c, F) == c.pc \in Walks => c.steady \subseteq DOMAIN F[c.from]

\* A steady file has been listed, is still to be come upon, or is in the dark.
Looked(c) ==
  c.pc \in Walks =>
    \A q \in Scope(c) \cap c.steady :
      \/ \E d \in c.blind : IsPrefix(d, q)
      \/ Key(c.kind, q) \in DOMAIN c.srcFiles
      \/ c.pc = "source" /\ \E p \in c.todo : IsPrefix(p, q)

\* What is left to be looked at, copied or deleted.
Left(c) ==
  /\ c.pc = "source" /\ c.kind = "glob" =>
       \A p \in c.todo : p # <<>> /\ Head(p) \in Pattern
  /\ c.pc = "source" /\ c.kind = "file" => c.todo \subseteq {c.path}
  /\ c.pc = "target" => c.todo \cap Files = {}
  /\ c.pc = "copy" => c.todo \subseteq DOMAIN c.srcFiles
  /\ c.pc = "delete" => c.todo \cap DOMAIN c.srcFiles = {}
  /\ <<>> \notin DOMAIN c.srcFiles

\* Nothing is copied while the trees are read or deleted before all is copied.
NotYet(c) ==
  /\ c.pc = "source" => DOMAIN c.dstFiles = {}
  /\ c.pc \in {"source", "target"} => c.copied = {}
  /\ c.pc \notin {"delete", "ok"} => c.deleted = {}

Absent(c) ==
  \A k \in c.deleted : \A q \in Scope(c) \cap c.steady :
    Key(c.kind, q) = k => \E d \in c.blind : IsPrefix(d, q)

\* Source paths and the names they are filed under are the same.
Plain(c) == \A q \in Scope(c) : Key(c.kind, q) = q

\* What is listed of the source is what is there, as far as it has been read.
SourceRead(c, F) ==
  c.pc \in Walks /\ c.quiet /\ c.blind = {} /\ Plain(c) =>
    /\ \A q \in Scope(c) \cap DOMAIN F[c.from] :
         \/ q \in DOMAIN c.srcFiles
         \/ c.pc = "source" /\ \E p \in c.todo : IsPrefix(p, q)
    /\ \A k \in DOMAIN c.srcFiles :
         k \in DOMAIN F[c.from] /\ c.srcFiles[k] = F[c.from][k]

\* The same of the destination, until it is written to.
TargetRead(c, F) ==
  c.pc = "target" /\ c.quiet /\ c.blindTo = {} =>
    /\ \A q \in DOMAIN F[c.to] :
         q \in DOMAIN c.dstFiles \/ \E p \in c.todo : IsPrefix(p, q)
    /\ \A k \in DOMAIN c.dstFiles :
         k \in DOMAIN F[c.to] /\ c.dstFiles[k] = F[c.to][k]

\* The file k is at the destination as it is at the source, or about so.
Done(c, F, k) ==
  /\ k \in DOMAIN F[c.to]
  /\ k \in c.copied => F[c.to][k].data = F[c.from][k].data
  /\ \/ ~NeedsCopy(F[c.from][k], F[c.to], k)
     \/ F[c.to][k].data = F[c.from][k].data
  /\ c.preserve => ~NeedsCopy(F[c.from][k], F[c.to], k)

Clean(c) == c.quiet /\ c.blind = {} /\ c.blindTo = {} /\ Plain(c)

\* A listed file is done or to be copied; a file of the destination is listed.
CopiesMade(c, F) ==
  c.pc \in {"copy", "delete"} /\ Clean(c) =>
    /\ \A k \in DOMAIN c.srcFiles : Done(c, F, k) \/ (c.pc = "copy" /\ k \in c.todo)
    /\ c.kind = "tree" /\ c.pc = "copy" =>
         DOMAIN F[c.to] \subseteq DOMAIN c.srcFiles \cup DOMAIN c.dstFiles
    /\ c.kind = "tree" /\ c.pc = "delete" =>
         DOMAIN F[c.to] \subseteq DOMAIN c.srcFiles \cup c.todo \cup c.kept

Succeeded(c, F) ==
  c.pc = "ok" /\ c.method # "cp-u" /\ Clean(c) =>
    /\ \A q \in Scope(c) \cap DOMAIN F[c.from] : Done(c, F, q)
    /\ c.delete /\ c.kind = "tree" => DOMAIN F[c.to] \subseteq DOMAIN F[c.from] \cup c.kept

CallInv(c, F) ==
  /\ Ends(c) /\ Present(c, F) /\ Looked(c) /\ Left(c) /\ NotYet(c) /\ Absent(c)
  /\ SourceRead(c, F) /\ TargetRead(c, F) /\ CopiesMade(c, F) /\ Succeeded(c, F)

\* After a clean sync the source needs no copy, and the next one finds that out.
Settled(c, F) ==
  /\ \A q \in DOMAIN F[c.from] :
       q \in DOMAIN F[c.to] /\ ~NeedsCopy(F[c.from][q], F[c.to], q)
  /\ c.pc \in Walks =>
       /\ c.kind = "tree" /\ c.quiet /\ c.blind = {} /\ c.blindTo = {} /\ c.copied = {}
       /\ c.pc = "copy" => c.todo = {}

\* Every directory of D lies in one of D.
Closed(D) ==
  /\ <<>> \in D /\ D \subseteq Seq(STRING)
  /\ \A p \in D : \A n \in 0..Len(p) : SubSeq(p, 1, n) \in D

\* The tree T lies in the directories E.
Housed(T, E) == IsTree(T, Files) /\ DirsOf(T) \subseteq E /\ Closed(E)

\* The files F are kept in directories that exist.
Stored(F, D) ==
  /\ DOMAIN F = Locs /\ D \in [Locs -> SUBSET Seq(STRING)]
  /\ \A l \in Locs : Housed(F[l], D[l])

Inv ==
  /\ Stored(fs, dirs)
  /\ IsCall(call)
  /\ <<settled, clock, edits, faults>> \in
       BOOLEAN \X (0..MaxClock) \X (0..MaxEdits) \X (0..MaxFaults)
  /\ CallInv(call, fs)
  /\ settled => Settled(call, fs)

---------------------------------------------------------------------------
(* What follows the last await of a phase.                                 *)

\* The call d is the call c, in another phase, of which others made more or less.
Kin(d, c) ==
  /\ d.from = c.from /\ d.to = c.to /\ d.kind = c.kind /\ d.path = c.path
  /\ d.delete = c.delete /\ d.preserve = c.preserve /\ d.method = c.method
  /\ d.srcFiles = c.srcFiles /\ d.dstFiles = c.dstFiles /\ d.copied = c.copied
  /\ d.deleted = c.deleted /\ d.kept = c.kept /\ d.blind = c.blind
  /\ d.blindTo = c.blindTo

\* The same, while nobody else did anything.
Alike(d, c) == Kin(d, c) /\ d.steady = c.steady /\ d.quiet = c.quiet

Phases == {"idle", "source", "target", "copy", "delete", "ok", "failed"}

LEMMA PcChange ==
  ASSUME NEW c, IsCall(c), NEW pc \in Phases
  PROVE  LET d == [c EXCEPT !.pc = pc] IN
         IsCall(d) /\ Alike(d, c) /\ d.pc = pc /\ d.todo = c.todo
  BY DEF IsCall, Calls, Alike, Kin, Phases

LEMMA AfterDeletesIs ==
  ASSUME NEW c, IsCall(c)
  PROVE  /\ IsCall(AfterDeletes(c)) /\ Alike(AfterDeletes(c), c)
         /\ AfterDeletes(c).todo = c.todo
         /\ AfterDeletes(c).pc = IF c.todo = {} THEN "ok" ELSE c.pc
  <1>1. CASE c.todo = {}
    BY <1>1, PcChange DEF AfterDeletes, Phases
  <1>2. CASE c.todo # {}
    BY <1>2 DEF AfterDeletes, Alike, Kin
  <1> QED BY <1>1, <1>2

LEMMA AlikeSame ==
  ASSUME NEW c, NEW d, Alike(d, c)
  PROVE  /\ Scope(d) = Scope(c) /\ (Plain(d) <=> Plain(c)) /\ (Clean(d) <=> Clean(c))
         /\ \A F, k : Done(d, F, k) <=> Done(c, F, k)
         /\ Absent(d) <=> Absent(c)
  <1>1. Scope(d) = Scope(c)
    BY DEF Alike, Kin, Scope
  <1>2. (Plain(d) <=> Plain(c)) /\ (Clean(d) <=> Clean(c))
    BY <1>1 DEF Alike, Kin, Plain, Clean
  <1>3. \A F, k : Done(d, F, k) <=> Done(c, F, k)
    BY DEF Alike, Kin, Done
  <1>4. Absent(d) <=> Absent(c)
    BY <1>1 DEF Alike, Kin, Absent
  <1> QED BY <1>1, <1>2, <1>3, <1>4

\* A call that is over keeps little of the invariant.
LEMMA OverInv ==
  ASSUME NEW d, NEW F, d.pc \in {"idle", "ok", "failed"},
         Ends(d), Absent(d), <<>> \notin DOMAIN d.srcFiles,
         d.pc # "ok" => d.deleted = {}, Succeeded(d, F)
  PROVE  CallInv(d, F)
  BY DEF CallInv, Present, Looked, Left, NotYet, SourceRead, TargetRead, CopiesMade, Walks

\* The phases keep the invariant, once it holds of the call that ends one.
LEMMA DeletesOver ==
  ASSUME NEW c, NEW F, IsCall(c), c.pc = "delete", CallInv(c, F)
  PROVE  CallInv(AfterDeletes(c), F)
  <1>1. CASE c.todo # {}
    BY <1>1 DEF AfterDeletes
  <1>2. CASE c.todo = {}
    <2> DEFINE d == AfterDeletes(c)
    <2>1. Alike(d, c) /\ d.pc = "ok"
      BY <1>2, AfterDeletesIs
    <2> HIDE DEF d
    <2>2. Ends(d)
      BY <2>1 DEF Alike, Kin, Ends, CallInv
    <2>3. Absent(d)
      BY <2>1, AlikeSame DEF CallInv
    <2>4. <<>> \notin DOMAIN d.srcFiles
      BY <2>1 DEF Alike, Kin, CallInv, Left
    <2>5. ASSUME Clean(d)
          PROVE  /\ \A q \in Scope(d) \cap DOMAIN F[d.from] : Done(d, F, q)
                 /\ d.kind = "tree" => DOMAIN F[d.to] \subseteq DOMAIN F[d.from] \cup d.kept
      <3>1. Clean(c)
        BY <2>1, <2>5, AlikeSame
      <3>2. /\ Scope(c) \cap DOMAIN F[c.from] \subseteq DOMAIN c.srcFiles
            /\ DOMAIN c.srcFiles \subseteq DOMAIN F[c.from]
        BY <3>1 DEF CallInv, SourceRead, Clean, Walks
      <3>3. /\ \A k \in DOMAIN c.srcFiles : Done(c, F, k)
            /\ c.kind = "tree" => DOMAIN F[c.to] \subseteq DOMAIN c.srcFiles \cup c.kept
        BY <1>2, <3>1 DEF CallInv, CopiesMade
      <3>4. /\ \A q \in Scope(c) \cap DOMAIN F[c.from] : Done(d, F, q)
            /\ Scope(d) = Scope(c)
        BY <2>1, <3>2, <3>3, AlikeSame
      <3> QED BY <2>1, <3>2, <3>3, <3>4 DEF Alike, Kin
    <2>6. Succeeded(d, F)
      BY <2>5 DEF Succeeded
    <2>7. CallInv(d, F)
      BY <2>1, <2>2, <2>3, <2>4, <2>6, OverInv
    <2> QED BY <2>7 DEF d
  <1> QED BY <1>1, <1>2

\* What a call does not need in order to be copying, deleting or over.
Wide(c) == Ends(c) /\ Absent(c) /\ <<>> \notin DOMAIN c.srcFiles

LEMMA WideAlike ==
  ASSUME NEW c, NEW d, Wide(c), Alike(d, c), c.pc # "idle"
  PROVE  Wide(d)
  <1>1. Ends(d)
    BY DEF Wide, Ends, Alike, Kin
  <1>2. Absent(d)
    BY AlikeSame DEF Wide
  <1> QED BY <1>1, <1>2 DEF Wide, Alike, Kin

LEMMA CopiesOver ==
  ASSUME NEW c, NEW F, IsCall(c), c.pc = "copy", CallInv(c, F)
  PROVE  /\ CallInv(AfterCopies(c), F) /\ IsCall(AfterCopies(c))
         /\ Alike(AfterCopies(c), c)
         /\ AfterCopies(c).pc \in {"copy", "delete", "ok"}
         /\ AfterCopies(c).pc = "copy" => AfterCopies(c) = c
  <1>0. Wide(c)
    BY DEF Wide, CallInv, Left
  <1>1. CASE c.todo # {}
    BY <1>1 DEF AfterCopies, Alike, Kin
  <1>2. CASE c.todo = {} /\ ~c.delete
    <2> DEFINE d == [c EXCEPT !.pc = "ok"]
    <2>1. IsCall(d) /\ Alike(d, c) /\ d.pc = "ok"
      BY PcChange DEF Phases
    <2>2. AfterCopies(c) = d
      BY <1>2 DEF AfterCopies
    <2> HIDE DEF d
    <2>3. Wide(d)
      BY <1>0, <2>1, WideAlike
    <2>4. ASSUME Clean(d)
          PROVE  \A q \in Scope(d) \cap DOMAIN F[d.from] : Done(d, F, q)
      <3>1. Clean(c)
        BY <2>1, <2>4, AlikeSame
      <3>2. Scope(c) \cap DOMAIN F[c.from] \subseteq DOMAIN c.srcFiles
        BY <3>1 DEF CallInv, SourceRead, Clean, Walks
      <3>3. \A k \in DOMAIN c.srcFiles : Done(c, F, k)
        BY <1>2, <3>1 DEF CallInv, CopiesMade
      <3>4. /\ \A q \in Scope(c) \cap DOMAIN F[c.from] : Done(d, F, q)
            /\ Scope(d) = Scope(c)
        BY <2>1, <3>2, <3>3, AlikeSame
      <3> QED BY <2>1, <3>4 DEF Alike, Kin
    <2>5. ~d.delete
      BY <1>2, <2>1 DEF Alike, Kin
    <2>6. Succeeded(d, F)
      BY <2>4, <2>5 DEF Succeeded
    <2>7. CallInv(d, F)
      BY <2>1, <2>3, <2>6, OverInv DEF Wide
    <2> QED BY <2>1, <2>2, <2>7
  <1>3. CASE c.todo = {} /\ c.delete
    <2> DEFINE gone == DOMAIN c.dstFiles \ DOMAIN c.srcFiles
               d == [c EXCEPT !.pc = "delete", !.todo = gone]
    <2>1. gone \in SUBSET Seq(STRING)
      BY DEF IsCall, IsTree
    <2>3. AfterCopies(c) = AfterDeletes(d)
      BY <1>3 DEF AfterCopies
    <2>0. gone \cap DOMAIN c.srcFiles = {} /\ gone \cup DOMAIN c.srcFiles = DOMAIN c.dstFiles \cup DOMAIN c.srcFiles
      OBVIOUS
    <2> HIDE DEF gone
    <2>2. IsCall(d) /\ Alike(d, c) /\ d.pc = "delete" /\ d.todo = gone
      BY <2>1 DEF IsCall, Calls, Alike, Kin
    <2>4. gone \cap DOMAIN d.srcFiles = {} /\ gone \cup DOMAIN d.srcFiles = DOMAIN d.dstFiles \cup DOMAIN d.srcFiles
      BY <2>0, <2>2 DEF Alike, Kin
    <2> HIDE DEF d
    <2>5. Wide(d)
      BY <1>0, <2>2, WideAlike
    <2>6. Present(d, F)
      BY <2>2 DEF Present, CallInv, Alike, Kin, Walks
    <2>7. Looked(d)
      <3>1. Scope(d) = Scope(c)
        BY <2>2, AlikeSame
      <3>2. \A q \in Scope(c) \cap c.steady : \/ \E r \in c.blind : IsPrefix(r, q)
                                              \/ Key(c.kind, q) \in DOMAIN c.srcFiles
        BY DEF CallInv, Looked, Walks
      <3> QED BY <2>2, <3>1, <3>2 DEF Looked, Alike, Kin
    <2>8. Left(d)
      BY <2>2, <2>4, <2>5 DEF Left, Wide
    <2>9. NotYet(d) /\ TargetRead(d, F) /\ Succeeded(d, F)
      BY <2>2 DEF NotYet, TargetRead, Succeeded
    <2>10. SourceRead(d, F)
      <3>1. SourceRead(c, F) /\ Scope(d) = Scope(c) /\ (Plain(d) <=> Plain(c))
        BY <2>2, AlikeSame DEF CallInv
      <3> QED BY <2>2, <3>1 DEF SourceRead, Alike, Kin, Walks
    <2>11. CopiesMade(d, F)
      <3>1. SUFFICES ASSUME Clean(d)
                     PROVE  /\ \A k \in DOMAIN d.srcFiles : Done(d, F, k)
                            /\ d.kind = "tree" => DOMAIN F[d.to] \subseteq DOMAIN d.srcFiles \cup gone
        BY <2>2 DEF CopiesMade
      <3>2. Clean(c)
        BY <2>2, <3>1, AlikeSame
      <3>3. /\ \A k \in DOMAIN c.srcFiles : Done(c, F, k)
            /\ c.kind = "tree" => DOMAIN F[c.to] \subseteq DOMAIN c.srcFiles \cup DOMAIN c.dstFiles
        BY <1>3, <3>2 DEF CallInv, CopiesMade
      <3>4. \A k \in DOMAIN d.srcFiles : Done(d, F, k)
        BY <2>2, <3>3, AlikeSame DEF Alike, Kin
      <3> QED BY <2>2, <2>4, <3>3, <3>4 DEF Alike, Kin
    <2>12. CallInv(d, F)
      BY <2>5, <2>6, <2>7, <2>8, <2>9, <2>10, <2>11 DEF CallInv, Wide
    <2>13. CallInv(AfterDeletes(d), F)
      BY <2>2, <2>12, DeletesOver
    <2>14. /\ IsCall(AfterDeletes(d)) /\ Alike(AfterDeletes(d), c)
           /\ AfterDeletes(d).pc \in {"delete", "ok"}
      BY <2>2, AfterDeletesIs DEF Alike, Kin
    <2> QED BY <2>3, <2>13, <2>14
  <1> QED BY <1>1, <1>2, <1>3

LEMMA TargetOver ==
  ASSUME NEW c, NEW F, IsCall(c), c.pc = "target", CallInv(c, F)
  PROVE  /\ CallInv(AfterTarget(c), F) /\ IsCall(AfterTarget(c))
         /\ Alike(AfterTarget(c), c)
         /\ AfterTarget(c).pc \in Walks \cup {"ok"}
         /\ AfterTarget(c).pc = "copy" =>
              /\ c.todo = {}
              /\ AfterTarget(c).todo =
                   {k \in DOMAIN c.srcFiles : NeedsCopy(c.srcFiles[k], c.dstFiles, k)}
  <1>0. Wide(c)
    BY DEF Wide, CallInv, Left
  <1>1. CASE c.todo # {}
    BY <1>1 DEF AfterTarget, Alike, Kin, Walks
  <1>2. CASE c.todo = {}
    <2> DEFINE differ == {k \in DOMAIN c.srcFiles : NeedsCopy(c.srcFiles[k], c.dstFiles, k)}
               d == [c EXCEPT !.pc = "copy", !.todo = differ]
    <2>1. differ \in SUBSET Seq(STRING)
      BY DEF IsCall, IsTree
    <2>2. differ \subseteq DOMAIN c.srcFiles
      OBVIOUS
    <2>3. \A k \in DOMAIN c.srcFiles : k \in differ \/ ~NeedsCopy(c.srcFiles[k], c.dstFiles, k)
      OBVIOUS
    <2>4. AfterTarget(c) = AfterCopies(d)
      BY <1>2 DEF AfterTarget
    <2>5. differ = {k \in DOMAIN c.srcFiles : NeedsCopy(c.srcFiles[k], c.dstFiles, k)}
      OBVIOUS
    <2> HIDE DEF differ
    <2>6. IsCall(d) /\ Alike(d, c) /\ d.pc = "copy" /\ d.todo = differ
      BY <2>1 DEF IsCall, Calls, Alike, Kin
    <2> HIDE DEF d
    <2>7. Wide(d)
      BY <1>0, <2>6, WideAlike
    <2>8. Present(d, F)
      BY <2>6 DEF Present, CallInv, Alike, Kin, Walks
    <2>9. Looked(d)
      <3>1. Scope(d) = Scope(c)
        BY <2>6, AlikeSame
      <3>2. \A q \in Scope(c) \cap c.steady : \/ \E r \in c.blind : IsPrefix(r, q)
                                              \/ Key(c.kind, q) \in DOMAIN c.srcFiles
        BY DEF CallInv, Looked, Walks
      <3> QED BY <2>6, <3>1, <3>2 DEF Looked, Alike, Kin
    <2>10. Left(d)
      BY <2>2, <2>6, <2>7 DEF Left, Wide, Alike, Kin
    <2>11. NotYet(d) /\ TargetRead(d, F) /\ Succeeded(d, F)
      BY <2>6 DEF NotYet, TargetRead, Succeeded, CallInv, Alike, Kin
    <2>12. SourceRead(d, F)
      <3>1. SourceRead(c, F) /\ Scope(d) = Scope(c) /\ (Plain(d) <=> Plain(c))
        BY <2>6, AlikeSame DEF CallInv
      <3> QED BY <2>6, <3>1 DEF SourceRead, Alike, Kin, Walks
    <2>13. ASSUME Clean(c)
           PROVE  /\ \A k \in DOMAIN c.srcFiles : Done(c, F, k) \/ k \in differ
                  /\ DOMAIN F[c.to] \subseteq DOMAIN c.dstFiles
      <3>1. \A k \in DOMAIN c.srcFiles : c.srcFiles[k] = F[c.from][k]
        BY <2>13 DEF CallInv, SourceRead, Clean, Walks
      <3>2. /\ DOMAIN F[c.to] = DOMAIN c.dstFiles
            /\ \A k \in DOMAIN c.dstFiles : c.dstFiles[k] = F[c.to][k]
        BY <1>2, <2>13 DEF CallInv, TargetRead, Clean
      <3>3. c.copied = {}
        BY DEF CallInv, NotYet
      <3>4. ASSUME NEW k \in DOMAIN c.srcFiles, k \notin differ
            PROVE  Done(c, F, k)
        <4>1. ~NeedsCopy(c.srcFiles[k], c.dstFiles, k)
          BY <2>3, <3>4
        <4>2. k \in DOMAIN c.dstFiles
          BY <4>1 DEF NeedsCopy
        <4>3. ~NeedsCopy(F[c.from][k], F[c.to], k)
          BY <3>1, <3>2, <3>4, <4>1, <4>2 DEF NeedsCopy
        <4> QED BY <3>2, <3>3, <4>2, <4>3 DEF Done
      <3> QED BY <3>2, <3>4
    <2>14. CopiesMade(d, F)
      <3>1. SUFFICES ASSUME Clean(d)
                     PROVE  /\ \A k \in DOMAIN d.srcFiles : Done(d, F, k) \/ k \in differ
                            /\ DOMAIN F[d.to] \subseteq DOMAIN d.dstFiles
        BY <2>6 DEF CopiesMade
      <3>2. Clean(c)
        BY <2>6, <3>1, AlikeSame
      <3> QED BY <2>6, <2>13, <3>2, AlikeSame DEF Alike, Kin
    <2>15. CallInv(d, F)
      BY <2>7, <2>8, <2>9, <2>10, <2>11, <2>12, <2>14 DEF CallInv, Wide
    <2>16. /\ CallInv(AfterCopies(d), F) /\ IsCall(AfterCopies(d))
           /\ Alike(AfterCopies(d), d) /\ AfterCopies(d).pc \in {"copy", "delete", "ok"}
           /\ AfterCopies(d).pc = "copy" => AfterCopies(d) = d
      BY <2>6, <2>15, CopiesOver
    <2>17. Alike(AfterCopies(d), c)
      BY <2>6, <2>16 DEF Alike, Kin
    <2> QED BY <1>2, <2>4, <2>5, <2>6, <2>16, <2>17 DEF Walks
  <1> QED BY <1>1, <1>2

LEMMA SourceOver ==
  ASSUME NEW c, NEW F, IsCall(c), c.pc = "source", CallInv(c, F),
         \A l \in Locs : DOMAIN F[l] \subseteq Files
  PROVE  /\ CallInv(AfterSource(c), F) /\ IsCall(AfterSource(c))
         /\ Alike(AfterSource(c), c) /\ AfterSource(c).pc \in {"source", "target"}
  <1>0. Wide(c)
    BY DEF Wide, CallInv, Left
  <1>1. CASE c.todo # {}
    BY <1>1 DEF AfterSource, Alike, Kin
  <1>2. CASE c.todo = {}
    <2> DEFINE d == [c EXCEPT !.pc = "target", !.todo = {<<>>}]
    <2>1. {<<>>} \in SUBSET Seq(STRING)
      OBVIOUS
    <2>2. IsCall(d) /\ Alike(d, c) /\ d.pc = "target" /\ d.todo = {<<>>}
      BY <2>1 DEF IsCall, Calls, Alike, Kin
    <2>3. AfterSource(c) = d
      BY <1>2 DEF AfterSource
    <2> HIDE DEF d
    <2>4. Wide(d)
      BY <1>0, <2>2, WideAlike
    <2>5. Present(d, F)
      BY <2>2 DEF Present, CallInv, Alike, Kin, Walks
    <2>6. Looked(d)
      <3>1. Scope(d) = Scope(c)
        BY <2>2, AlikeSame
      <3>2. \A q \in Scope(c) \cap c.steady : \/ \E r \in c.blind : IsPrefix(r, q)
                                              \/ Key(c.kind, q) \in DOMAIN c.srcFiles
        BY <1>2 DEF CallInv, Looked, Walks
      <3> QED BY <2>2, <3>1, <3>2 DEF Looked, Alike, Kin
    <2>7. Left(d)
      BY <2>2, <2>4, FilesAreNames DEF Left, Wide
    <2>8. NotYet(d) /\ CopiesMade(d, F) /\ Succeeded(d, F)
      BY <2>2 DEF NotYet, CopiesMade, Succeeded, CallInv, Alike, Kin
    <2>9. SourceRead(d, F)
      <3>1. SourceRead(c, F) /\ Scope(d) = Scope(c) /\ (Plain(d) <=> Plain(c))
        BY <2>2, AlikeSame DEF CallInv
      <3> QED BY <1>2, <2>2, <3>1 DEF SourceRead, Alike, Kin, Walks
    <2>10. TargetRead(d, F)
      <3>1. d.to \in Locs
        BY <2>2 DEF IsCall, Calls
      <3>2. \A q \in DOMAIN F[d.to] : q \in Seq(STRING)
        BY <3>1, FilesAreNames
      <3>3. \A q \in DOMAIN F[d.to] : IsPrefix(<<>>, q)
        BY <3>2, EmptyIsPrefix
      <3>4. DOMAIN d.dstFiles = {}
        BY <2>2 DEF CallInv, NotYet, Alike, Kin
      <3> QED BY <2>2, <3>3, <3>4 DEF TargetRead
    <2>11. CallInv(d, F)
      BY <2>4, <2>5, <2>6, <2>7, <2>8, <2>9, <2>10 DEF CallInv, Wide
    <2> QED BY <2>2, <2>3, <2>11
  <1> QED BY <1>1, <1>2

---------------------------------------------------------------------------
(* Directories.                                                            *)

LEMMA DirsOfIs ==
  ASSUME NEW T
  PROVE  /\ <<>> \in DirsOf(T)
         /\ \A q \in DOMAIN T : \A n \in 0..(Len(q) - 1) : SubSeq(q, 1, n) \in DirsOf(T)
         /\ \A r \in DirsOf(T) :
              r = <<>> \/ \E q \in DOMAIN T : \E n \in 0..(Len(q) - 1) : r = SubSeq(q, 1, n)
  BY DEF DirsOf

LEMMA CutOfCut ==
  ASSUME NEW q \in Seq(STRING), NEW n \in 0..Len(q), NEW m \in 0..n
  PROVE  SubSeq(SubSeq(q, 1, n), 1, m) = SubSeq(q, 1, m)
  OBVIOUS

LEMMA EmptyCut ==
  ASSUME NEW n \in 0..Len(<<>>)
  PROVE  SubSeq(<<>>, 1, n) = <<>>
  OBVIOUS

LEMMA DirsOfClosed ==
  ASSUME NEW T, DOMAIN T \subseteq Files
  PROVE  Closed(DirsOf(T))
  <1>1. ASSUME NEW r \in DirsOf(T)
        PROVE  r \in Seq(STRING) /\ \A n \in 0..Len(r) : SubSeq(r, 1, n) \in DirsOf(T)
    <2>1. CASE r = <<>>
      <3>1. <<>> \in Seq(STRING) /\ <<>> \in DirsOf(T)
        BY DirsOfIs
      <3>2. \A n \in 0..Len(<<>>) : SubSeq(<<>>, 1, n) \in DirsOf(T)
        BY <3>1, EmptyCut
      <3> QED BY <2>1, <3>1, <3>2
    <2>2. CASE r # <<>>
      <3>1. PICK q \in DOMAIN T : \E k \in 0..(Len(q) - 1) : r = SubSeq(q, 1, k)
        BY <1>1, <2>2, DirsOfIs
      <3>0. PICK k \in 0..(Len(q) - 1) : r = SubSeq(q, 1, k)
        BY <3>1
      <3>2. q \in Seq(STRING) /\ Len(q) \in Nat
        BY FilesAreNames
      <3>3. r \in Seq(STRING) /\ Len(r) = k
        BY <3>0, <3>2, CutIsPrefix
      <3>4. ASSUME NEW n \in 0..Len(r)
            PROVE  SubSeq(r, 1, n) \in DirsOf(T)
        <4>1. k \in 0..Len(q) /\ n \in 0..k /\ n \in 0..(Len(q) - 1)
          BY <3>0, <3>2, <3>3, <3>4
        <4>2. SubSeq(r, 1, n) = SubSeq(q, 1, n)
          BY <3>0, <3>2, <4>1, CutOfCut
        <4> QED BY <4>1, <4>2, DirsOfIs
      <3> QED BY <3>3, <3>4
    <2> QED BY <2>1, <2>2
  <1> QED BY <1>1, DirsOfIs DEF Closed

LEMMA UnionClosed ==
  ASSUME NEW D, NEW E, Closed(D), Closed(E)
  PROVE  Closed(D \cup E)
  BY DEF Closed

\* A path whose parent is in a closed set has all its directories there.
LEMMA ParentClosed ==
  ASSUME NEW D, Closed(D), NEW q \in Seq(STRING), q # <<>>, Front(q) \in D,
         NEW n \in 0..(Len(q) - 1)
  PROVE  SubSeq(q, 1, n) \in D
  <1>1. Len(q) \in Nat /\ Len(q) > 0
    OBVIOUS
  <1> DEFINE k == Len(q) - 1
  <1>0. k \in Nat /\ k <= Len(q) /\ k \in 0..Len(q)
    BY <1>1
  <1> HIDE DEF k
  <1>2. Front(q) = SubSeq(q, 1, k) /\ Len(Front(q)) = k
    BY <1>0, CutIsPrefix DEF Front, k
  <1>3. SubSeq(Front(q), 1, n) = SubSeq(q, 1, n)
    BY <1>0, <1>2, CutOfCut DEF k
  <1>4. SubSeq(Front(q), 1, n) \in D
    BY <1>2 DEF Closed, k
  <1> QED BY <1>3, <1>4

\* mkdir keeps the directories closed.
LEMMA WithParentClosed ==
  ASSUME NEW D, Closed(D), NEW k \in Seq(STRING), k # <<>>
  PROVE  Closed(WithParent(D, k)) /\ D \subseteq WithParent(D, k)
  <1> DEFINE r == Front(k)
  <1>1. r \in Seq(STRING)
    BY CutIsPrefix DEF Front
  <1>2. WithParent(D, k) = IF r = <<>> \/ Front(r) \in D THEN D \cup {r} ELSE D
    BY DEF WithParent
  <1> HIDE DEF r
  <1>3. CASE r = <<>>
    <2>1. D \cup {r} = D
      BY <1>3 DEF Closed
    <2> QED BY <1>2, <1>3, <2>1
  <1>4. CASE r # <<>> /\ Front(r) \in D
    <2>1. ASSUME NEW n \in 0..Len(r)
          PROVE  SubSeq(r, 1, n) \in D \cup {r}
      <3>1. CASE n = Len(r)
        BY <1>1, <3>1
      <3>2. CASE n # Len(r)
        <4>1. n \in 0..(Len(r) - 1)
          BY <1>1, <3>2
        <4> QED BY <1>1, <1>4, <4>1, ParentClosed
      <3> QED BY <3>1, <3>2
    <2>2. Closed(D \cup {r})
      BY <1>1, <2>1 DEF Closed
    <2> QED BY <1>2, <1>4, <2>2
  <1>5. CASE r # <<>> /\ Front(r) \notin D
    BY <1>2, <1>5
  <1> QED BY <1>3, <1>4, <1>5

---------------------------------------------------------------------------
(* Changes of one tree.                                                    *)

\* U is the tree T with the file f put at p.
IsPut(U, T, p, f) ==
  /\ DOMAIN U = DOMAIN T \cup {p}
  /\ U[p] = f
  /\ \A q \in DOMAIN T \ {p} : U[q] = T[q]

LEMMA PutHoused ==
  ASSUME NEW T, NEW E, Housed(T, E), NEW p \in Files, NEW f \in File, Front(p) \in E
  PROVE  Housed(Put1(T, p, f), E) /\ IsPut(Put1(T, p, f), T, p, f)
  <1> DEFINE U == Put1(T, p, f)
  <1>1. DOMAIN U = DOMAIN T \cup {p} /\ U[p] = f /\ \A q \in DOMAIN T \ {p} : U[q] = T[q]
    BY DEF Put1
  <1> HIDE DEF U
  <1>2. IsTree(U, Files)
    BY <1>1 DEF IsTree, Housed
  <1>3. ASSUME NEW r \in DirsOf(U)
        PROVE  r \in E
    <2>1. CASE r = <<>>
      BY <2>1 DEF Housed, Closed
    <2>2. CASE r # <<>>
      <3>1. PICK q \in DOMAIN U : \E n \in 0..(Len(q) - 1) : r = SubSeq(q, 1, n)
        BY <1>3, <2>2, DirsOfIs
      <3>2. CASE q \in DOMAIN T
        BY <3>1, <3>2, DirsOfIs DEF Housed
      <3>3. CASE q = p
        BY <3>1, <3>3, FilesAreNames, ParentClosed DEF Housed
      <3> QED BY <1>1, <3>1, <3>2, <3>3
    <2> QED BY <2>1, <2>2
  <1> QED BY <1>1, <1>2, <1>3 DEF U, Housed, IsPut

LEMMA WithoutHoused ==
  ASSUME NEW T, NEW E, Housed(T, E), NEW p
  PROVE  /\ Housed(Without(T, p), E)
         /\ DOMAIN Without(T, p) = DOMAIN T \ {p}
         /\ \A q \in DOMAIN T \ {p} : Without(T, p)[q] = T[q]
  <1> DEFINE U == Without(T, p)
  <1>1. DOMAIN U = DOMAIN T \ {p} /\ \A q \in DOMAIN T \ {p} : U[q] = T[q]
    BY DEF Without
  <1> HIDE DEF U
  <1>2. IsTree(U, Files)
    BY <1>1 DEF IsTree, Housed
  <1>3. ASSUME NEW r \in DirsOf(U)
        PROVE  r \in DirsOf(T)
    <2>1. r = <<>> \/ \E q \in DOMAIN U : \E n \in 0..(Len(q) - 1) : r = SubSeq(q, 1, n)
      BY <1>3, DirsOfIs
    <2>2. DOMAIN U \subseteq DOMAIN T
      BY <1>1
    <2>3. CASE r # <<>>
      <3>1. PICK q \in DOMAIN U : \E n \in 0..(Len(q) - 1) : r = SubSeq(q, 1, n)
        BY <2>1, <2>3
      <3>2. q \in DOMAIN T
        BY <2>2
      <3> QED BY <3>1, <3>2, DirsOfIs
    <2> QED BY <2>3, DirsOfIs
  <1> QED BY <1>1, <1>2, <1>3 DEF U, Housed

---------------------------------------------------------------------------
(* What others do to the files.                                            *)

\* A change of files at l keeps the invariant of the call.
LEMMA EditKeeps ==
  ASSUME NEW c, NEW F, NEW d, NEW G, NEW l, CallInv(c, F),
         Kin(d, c), d.pc = c.pc, d.todo = c.todo, c.pc \notin {"ok", "failed"},
         d.quiet => c.quiet /\ (c.pc \in Walks => l \notin {c.from, c.to}),
         d.steady \subseteq c.steady,
         c.from \in Locs, c.to \in Locs,
         \A m \in Locs \ {l} : G[m] = F[m],
         Present(d, G)
  PROVE  CallInv(d, G)
  <1>1. Scope(d) = Scope(c)
    BY DEF Kin, Scope
  <1>2. Ends(d) /\ Left(d) /\ NotYet(d)
    BY DEF Kin, CallInv, Ends, Left, NotYet
  <1>3. Absent(d)
    <2>1. Absent(c)
      BY DEF CallInv
    <2> QED BY <1>1, <2>1 DEF Kin, Absent
  <1>4. Looked(d)
    <2>1. Looked(c)
      BY DEF CallInv
    <2> QED BY <1>1, <2>1 DEF Kin, Looked
  <1>5. Succeeded(d, G)
    BY DEF Succeeded
  <1>6. CASE d.quiet /\ d.pc \in Walks
    <2>1. G[c.from] = F[c.from] /\ G[c.to] = F[c.to] /\ c.quiet
      BY <1>6
    <2>2. (Plain(d) <=> Plain(c)) /\ (Clean(d) <=> Clean(c))
      BY <1>1, <1>6, <2>1 DEF Kin, Plain, Clean
    <2>3. \A k : Done(d, G, k) <=> Done(c, F, k)
      BY <2>1 DEF Kin, Done
    <2>4. SourceRead(d, G)
      <3>1. SourceRead(c, F)
        BY DEF CallInv
      <3> QED BY <1>1, <2>1, <2>2, <3>1 DEF SourceRead, Kin
    <2>5. TargetRead(d, G)
      BY <2>1 DEF CallInv, TargetRead, Kin
    <2>6. CopiesMade(d, G)
      <3>1. CopiesMade(c, F)
        BY DEF CallInv
      <3> QED BY <2>1, <2>2, <2>3, <3>1 DEF CopiesMade, Kin
    <2> QED BY <1>2, <1>3, <1>4, <1>5, <2>4, <2>5, <2>6 DEF CallInv
  <1>7. CASE ~(d.quiet /\ d.pc \in Walks)
    <2>1. SourceRead(d, G) /\ TargetRead(d, G) /\ CopiesMade(d, G)
      BY <1>7 DEF SourceRead, TargetRead, CopiesMade, Walks, Clean
    <2> QED BY <1>2, <1>3, <1>4, <1>5, <2>1 DEF CallInv
  <1> QED BY <1>6, <1>7

LEMMA TouchedIs ==
  ASSUME IsCall(call), NEW l
  PROVE  /\ IsCall(Touched(l)) /\ Kin(Touched(l), call)
         /\ Touched(l).pc = call.pc /\ Touched(l).todo = call.todo
         /\ Touched(l).steady = call.steady
         /\ Touched(l).quiet = (call.quiet /\ (call.pc \in Walks => l \notin {call.from, call.to}))
  BY DEF IsCall, Calls, Touched, Kin, Running, Walks

LEMMA CallFields ==
  ASSUME NEW c, IsCall(c)
  PROVE  /\ c.from \in Locs /\ c.to \in Locs /\ c.kind \in {"tree", "glob", "file"}
         /\ c.path \in Files \cup {<<>>} /\ c.delete \in BOOLEAN /\ c.preserve \in BOOLEAN
         /\ c.pc \in Phases /\ c.todo \subseteq Seq(STRING)
         /\ IsTree(c.srcFiles, Seq(STRING)) /\ IsTree(c.dstFiles, Seq(STRING))
         /\ c.copied \subseteq Seq(STRING) /\ c.deleted \subseteq Seq(STRING)
         /\ c.kept \subseteq Seq(STRING) /\ c.blind \subseteq Seq(STRING)
         /\ c.blindTo \subseteq Seq(STRING) /\ c.steady \subseteq Files /\ c.quiet \in BOOLEAN
  BY DEF IsCall, Calls, Phases

\* Files that the action adds at m leave the steady ones in their place.
LEMMA MoreFiles ==
  ASSUME NEW c, NEW F, NEW G, NEW d, Present(c, F), d.pc = c.pc, d.from = c.from,
         d.steady = c.steady, DOMAIN F[c.from] \subseteq DOMAIN G[c.from]
  PROVE  Present(d, G)
  BY DEF Present

\* The torn or whole file p at m, by whoever wrote it.
LEMMA WriteKeeps ==
  ASSUME Inv, NEW m \in Locs, NEW p \in Files, NEW f \in File,
         NEW E, Closed(E), dirs[m] \subseteq E, Front(p) \in E,
         ~Replying,
         fs' = [fs EXCEPT ![m] = Put1(@, p, f)],
         dirs' = [dirs EXCEPT ![m] = E],
         call' = Touched(m), settled' = FALSE,
         clock' = clock, edits' \in 0..MaxEdits, faults' \in 0..MaxFaults
  PROVE  Inv'
  <1>1. Housed(fs[m], E)
    BY DEF Inv, Stored, Housed
  <1>0. E \in SUBSET Seq(STRING)
    BY DEF Closed
  <1>2. Housed(Put1(fs[m], p, f), E) /\ DOMAIN Put1(fs[m], p, f) = DOMAIN fs[m] \cup {p}
    <2>1. Housed(Put1(fs[m], p, f), E) /\ IsPut(Put1(fs[m], p, f), fs[m], p, f)
      BY <1>1, PutHoused
    <2> QED BY <2>1 DEF IsPut
  <1>3. Stored(fs', dirs')
    BY <1>2, <1>0 DEF Inv, Stored
  <1>4. /\ \A l \in Locs \ {m} : fs'[l] = fs[l]
        /\ \A l \in Locs : DOMAIN fs[l] \subseteq DOMAIN fs'[l]
    BY <1>2 DEF Inv, Stored
  <1>5. /\ IsCall(call') /\ Kin(call', call) /\ call'.pc = call.pc
        /\ call'.todo = call.todo /\ call'.steady = call.steady
        /\ call'.quiet = (call.quiet /\ (call.pc \in Walks => m \notin {call.from, call.to}))
    BY TouchedIs DEF Inv
  <1>6. call.from \in Locs /\ call.to \in Locs
    BY CallFields DEF Inv
  <1>7. Present(call', fs')
    BY <1>4, <1>5, <1>6, MoreFiles DEF Inv, CallInv, Kin
  <1>8. call.pc \notin {"ok", "failed"}
    BY DEF Replying
  <1>9. CallInv(call, fs)
    BY DEF Inv
  <1>10. CallInv(call', fs')
    BY <1>4, <1>5, <1>6, <1>7, <1>8, <1>9, EditKeeps
  <1> QED BY <1>3, <1>5, <1>10 DEF Inv

\* dirs is as it was, or has one entry for m that is as it was.
LEMMA SameDirs ==
  ASSUME Inv, NEW m \in Locs
  PROVE  dirs = [dirs EXCEPT ![m] = dirs[m]]
  BY DEF Inv, Stored

LEMMA WrittenIsFile ==
  ASSUME NEW f \in File, NEW pres \in BOOLEAN, clock \in 0..MaxClock
  PROVE  Written(f, pres) \in File /\ [data |-> 0, mtime |-> clock] \in File
  BY TransferAssumption DEF Written, File

LEMMA InvTypes ==
  ASSUME Inv
  PROVE  /\ DOMAIN fs = Locs /\ DOMAIN dirs = Locs
         /\ \A l \in Locs : IsTree(fs[l], Files) /\ Closed(dirs[l])
         /\ \A l \in Locs : DOMAIN fs[l] \subseteq Files
         /\ \A l \in Locs : \A p \in DOMAIN fs[l] : fs[l][p] \in File
         /\ IsCall(call) /\ CallInv(call, fs)
         /\ settled \in BOOLEAN /\ clock \in 0..MaxClock
         /\ edits \in 0..MaxEdits /\ faults \in 0..MaxFaults
         /\ MaxClock \in Nat /\ MaxEdits \in Nat /\ MaxFaults \in Nat /\ Tolerance \in Nat
  BY TransferAssumption DEF Inv, Stored, IsTree, Housed

LEMMA FaultCounts ==
  ASSUME Inv, Fault \/ UNCHANGED faults
  PROVE  faults' \in 0..MaxFaults
  BY InvTypes DEF Fault

LEMMA BudgetCounts ==
  ASSUME Inv, Budget
  PROVE  edits' \in 0..MaxEdits /\ ~Replying
  BY InvTypes DEF Budget

LEMMA TransferKeeps ==
  ASSUME Inv, NEW l, NEW m, NEW p \in Files, NEW pres \in BOOLEAN, Transfer(l, m, p, pres)
  PROVE  Inv'
  <1>1. l \in Locs /\ m \in Locs
    BY TransferAssumption DEF Transfer
  <1>2. /\ p \in DOMAIN fs[l] /\ Front(p) \in dirs[m] /\ Budget
        /\ dirs' = dirs /\ clock' = clock /\ settled' = FALSE /\ call' = Touched(m)
    BY DEF Transfer
  <1>3. edits' \in 0..MaxEdits /\ ~Replying
    BY <1>2, BudgetCounts
  <1>4. faults' \in 0..MaxFaults
    BY FaultCounts DEF Transfer
  <1>5. dirs' = [dirs EXCEPT ![m] = dirs[m]]
    BY <1>1, <1>2, SameDirs
  <1>6. PICK f \in File : fs' = [fs EXCEPT ![m] = Put1(@, p, f)]
    <2>1. CASE fs' = [fs EXCEPT ![m] = Put1(@, p, Written(fs[l][p], pres /\ Host[l] # Host[m]))]
      <3>1. Written(fs[l][p], pres /\ Host[l] # Host[m]) \in File
        BY <1>1, <1>2, InvTypes, WrittenIsFile
      <3> QED BY <2>1, <3>1
    <2>2. CASE fs' = [fs EXCEPT ![m] = Torn(@, p)]
      <3>1. [data |-> 0, mtime |-> clock] \in File
        BY InvTypes, TransferAssumption DEF File
      <3> QED BY <2>2, <3>1 DEF Torn
    <2> QED BY <2>1, <2>2 DEF Transfer
  <1> QED BY <1>1, <1>2, <1>3, <1>4, <1>5, <1>6, InvTypes, WriteKeeps

LEMMA EditKeepsInv ==
  ASSUME Inv, NEW l \in Locs, NEW p \in Files, NEW d \in Contents, Edit(l, p, d)
  PROVE  Inv'
  <1> DEFINE f == [data |-> d, mtime |-> clock]
             T == Put1(fs[l], p, f)
             E == dirs[l] \cup DirsOf(T)
  <1>1. f \in File
    BY InvTypes DEF File
  <1>2. /\ Budget /\ clock' = clock /\ faults' = faults /\ settled' = FALSE
        /\ call' = Touched(l)
        /\ fs' = [fs EXCEPT ![l] = Put1(@, p, f)]
        /\ dirs' = [dirs EXCEPT ![l] = @ \cup DirsOf(fs'[l])]
    BY DEF Edit
  <1>3. fs'[l] = T
    BY <1>2, InvTypes
  <1> HIDE DEF f
  <1>4. DOMAIN T = DOMAIN fs[l] \cup {p}
    BY DEF Put1
  <1>5. DOMAIN T \subseteq Files /\ p \in DOMAIN T
    BY <1>4, InvTypes
  <1> HIDE DEF T
  <1>6. dirs' = [dirs EXCEPT ![l] = E]
    BY <1>2, <1>3
  <1>7. Closed(E) /\ dirs[l] \subseteq E
    BY <1>5, DirsOfClosed, UnionClosed, InvTypes
  <1>8. Front(p) \in E
    <2>1. p \in Seq(STRING) /\ Len(p) \in Nat /\ Len(p) > 0
      BY FilesAreNames
    <2>2. Front(p) = SubSeq(p, 1, Len(p) - 1) /\ Len(p) - 1 \in 0..(Len(p) - 1)
      BY <2>1 DEF Front
    <2>3. SubSeq(p, 1, Len(p) - 1) \in DirsOf(T)
      BY <1>5, <2>2, DirsOfIs
    <2> QED BY <2>2, <2>3
  <1>9. edits' \in 0..MaxEdits /\ ~Replying
    BY <1>2, BudgetCounts
  <1> HIDE DEF E
  <1> QED BY <1>1, <1>2, <1>6, <1>7, <1>8, <1>9, InvTypes, WriteKeeps

LEMMA UnlinkKeeps ==
  ASSUME Inv, NEW l \in Locs, NEW p, Unlink(l, p)
  PROVE  Inv'
  <1> DEFINE c == Touched(l)
             left == IF l = call.from THEN c.steady \ {p} ELSE c.steady
  <1>1. /\ Budget /\ p \in DOMAIN fs[l] /\ settled' = FALSE
        /\ fs' = [fs EXCEPT ![l] = Without(@, p)]
        /\ dirs' = dirs /\ clock' = clock /\ faults' = faults
    BY DEF Unlink
  <1>2. call' = [c EXCEPT !.steady = left]
    BY DEF Unlink
  <1>3. /\ IsCall(c) /\ Kin(c, call) /\ c.pc = call.pc /\ c.todo = call.todo
        /\ c.steady = call.steady
        /\ c.quiet = (call.quiet /\ (call.pc \in Walks => l \notin {call.from, call.to}))
    BY InvTypes, TouchedIs
  <1>4. left \subseteq c.steady /\ (l = call.from => p \notin left)
    OBVIOUS
  <1> HIDE DEF c, left
  <1>5. /\ IsCall(call') /\ Kin(call', c) /\ call'.pc = c.pc /\ call'.todo = c.todo
        /\ call'.steady = left /\ call'.quiet = c.quiet
    BY <1>2, <1>3, <1>4 DEF IsCall, Calls, Kin
  <1>6. Kin(call', call)
    BY <1>3, <1>5 DEF Kin
  <1>7. Housed(Without(fs[l], p), dirs[l]) /\ DOMAIN Without(fs[l], p) = DOMAIN fs[l] \ {p}
    BY WithoutHoused DEF Inv, Stored
  <1>9. dirs' = [dirs EXCEPT ![l] = dirs[l]]
    BY <1>1, SameDirs
  <1>10. Stored(fs', dirs')
    BY <1>1, <1>7, <1>9 DEF Inv, Stored
  <1>11. /\ \A m \in Locs \ {l} : fs'[m] = fs[m]
         /\ DOMAIN fs'[l] = DOMAIN fs[l] \ {p}
    BY <1>1, <1>7, InvTypes
  <1>12. edits' \in 0..MaxEdits /\ ~Replying
    BY <1>1, BudgetCounts
  <1>13. call.from \in Locs /\ call.to \in Locs
    BY InvTypes, CallFields
  <1>14. Present(call', fs')
    <2>1. call.pc \in Walks => call.steady \subseteq DOMAIN fs[call.from]
      BY InvTypes DEF CallInv, Present
    <2>2. call.pc \in Walks => left \subseteq DOMAIN fs'[call.from]
      BY <1>3, <1>4, <1>11, <1>13, <2>1
    <2> QED BY <1>3, <1>5, <1>6, <2>2 DEF Present, Kin
  <1>15. CallInv(call', fs')
    <2>1. call.pc \notin {"ok", "failed"} /\ CallInv(call, fs)
      BY <1>12, InvTypes DEF Replying
    <2> QED BY <1>3, <1>4, <1>5, <1>6, <1>11, <1>13, <1>14, <2>1, EditKeeps
  <1> QED BY <1>1, <1>5, <1>10, <1>12, <1>15, InvTypes DEF Inv

LEMMA TickKeeps ==
  ASSUME Inv, Tick
  PROVE  Inv'
  <1>1. clock' \in 0..MaxClock /\ UNCHANGED <<fs, dirs, call, settled, edits, faults>>
    BY InvTypes DEF Tick
  <1> QED BY <1>1 DEF Inv

---------------------------------------------------------------------------
(* ssh_sync between two servers.                                           *)

Requests == [kind : {"tree", "glob", "file"}, path : Files \cup {<<>>},
             delete : BOOLEAN, preserve : BOOLEAN]

\* The call c has been begun and has seen nothing yet.
Fresh(c, l, m, a, pc, todo) ==
  /\ IsCall(c)
  /\ c.from = l /\ c.to = m /\ c.kind = a.kind /\ c.path = a.path
  /\ c.delete = a.delete /\ c.preserve = a.preserve /\ c.pc = pc /\ c.todo = todo
  /\ DOMAIN c.srcFiles = {} /\ DOMAIN c.dstFiles = {} /\ c.copied = {}
  /\ c.deleted = {} /\ c.kept = {} /\ c.blind = {} /\ c.blindTo = {}
  /\ c.steady = DOMAIN fs[l] /\ c.quiet = TRUE

LEMMA BeganIs ==
  ASSUME NEW l \in Locs, NEW m \in Locs, NEW a \in Requests, NEW pc \in Phases,
         NEW todo \in SUBSET Seq(STRING), DOMAIN fs[l] \subseteq Files
  PROVE  /\ Fresh(Began(l, m, a, pc, todo), l, m, a, pc, todo)
         /\ Began(l, m, a, pc, todo).method = "sftp-diff"
  <1>2. DOMAIN Empty = {} /\ IsTree(Empty, Seq(STRING))
    BY DEF Empty, IsTree
  <1> HIDE DEF Empty
  <1> QED BY <1>2 DEF Began, IsCall, Calls, Phases, Requests, Fresh

\* A call that has just begun has everything before it.
LEMMA BeganInv ==
  ASSUME NEW c, NEW F, IsCall(c), Ends(c), c.pc = "source",
         DOMAIN c.srcFiles = {}, DOMAIN c.dstFiles = {}, c.copied = {}, c.deleted = {},
         c.steady = DOMAIN F[c.from],
         \A q \in Scope(c) \cap DOMAIN F[c.from] : \E p \in c.todo : IsPrefix(p, q),
         c.kind = "glob" => \A p \in c.todo : p # <<>> /\ Head(p) \in Pattern,
         c.kind = "file" => c.todo = {c.path}
  PROVE  CallInv(c, F)
  <1>1. Present(c, F) /\ Looked(c) /\ Left(c) /\ NotYet(c) /\ Absent(c)
    BY DEF Present, Looked, Left, NotYet, Absent
  <1>2. SourceRead(c, F) /\ TargetRead(c, F) /\ CopiesMade(c, F) /\ Succeeded(c, F)
    BY DEF SourceRead, TargetRead, CopiesMade, Succeeded
  <1> QED BY <1>1, <1>2 DEF CallInv

LEMMA MatchedIs ==
  ASSUME Inv, NEW l \in Locs
  PROVE  /\ Matched(l) \in SUBSET Seq(STRING)
         /\ \A p \in Matched(l) : p # <<>> /\ Head(p) \in Pattern
         /\ \A q \in DOMAIN fs[l] : Head(q) \in Pattern =>
              \E p \in Matched(l) : IsPrefix(p, q)
  <1>1. ASSUME NEW q \in DOMAIN fs[l]
        PROVE  /\ SubSeq(q, 1, 1) \in Seq(STRING) /\ IsPrefix(SubSeq(q, 1, 1), q)
               /\ SubSeq(q, 1, 1) # <<>> /\ Head(SubSeq(q, 1, 1)) = Head(q)
    <2>1. q \in Seq(STRING) /\ q # <<>>
      BY InvTypes, FilesAreNames
    <2>2. 1 \in Nat /\ 1 <= Len(q)
      BY <2>1
    <2> QED BY <2>1, <2>2, CutIsPrefix
  <1>2. Matched(l) = {SubSeq(q, 1, 1) : q \in {r \in DOMAIN fs[l] : Head(r) \in Pattern}}
    BY DEF Matched
  <1>3. ASSUME NEW q \in DOMAIN fs[l], Head(q) \in Pattern
        PROVE  SubSeq(q, 1, 1) \in Matched(l)
    BY <1>2, <1>3
  <1>4. ASSUME NEW p \in Matched(l)
        PROVE  \E q \in DOMAIN fs[l] : Head(q) \in Pattern /\ p = SubSeq(q, 1, 1)
    BY <1>2, <1>4
  <1> QED BY <1>1, <1>3, <1>4

LEMMA SyncStartKeeps ==
  ASSUME Inv, NEW l, NEW m, NEW a \in Asked, SyncStart(l, m, a)
  PROVE  Inv'
  <1>1. /\ call.pc = "idle" /\ <<l, m>> \in Routes
        /\ UNCHANGED <<fs, dirs, clock, edits>>
        /\ settled' = (settled /\ a.kind = "tree" /\ l = call.from /\ m = call.to)
    BY DEF SyncStart
  <1>2. l \in Locs /\ m \in Locs /\ l # m
    BY <1>1, TransferAssumption
  <1>3. /\ a \in Requests
        /\ a.kind = "tree" => a.path = <<>>
        /\ a.kind = "file" => a.path \in Files
    BY TransferAssumption DEF Requests
  <1>4. faults' \in 0..MaxFaults
    BY FaultCounts DEF SyncStart
  <1>5. PICK pc \in Phases, todo \in SUBSET Seq(STRING) :
          /\ call' = Began(l, m, a, pc, todo)
          /\ \/ pc = "failed"
             \/ pc = "ok" /\ a.kind = "glob" /\ Matched(l) = {}
             \/ pc = "source" /\ a.kind = "glob" /\ todo = Matched(l)
             \/ pc = "source" /\ a.kind # "glob" /\ todo = {a.path}
    <2>1. Matched(l) \in SUBSET Seq(STRING) /\ {} \in SUBSET Seq(STRING)
      BY <1>2, MatchedIs
    <2>0. a.path \in Files \cup {<<>>} /\ <<>> \in Seq(STRING)
      BY <1>3 DEF Requests
    <2>2. {a.path} \in SUBSET Seq(STRING)
      BY <2>0, FilesAreNames
    <2>3. CASE call' = Began(l, m, a, "failed", {})
      BY <2>1, <2>3 DEF Phases
    <2>4. CASE a.kind = "glob" /\ Matched(l) = {} /\ call' = Began(l, m, a, "ok", {})
      BY <2>1, <2>4 DEF Phases
    <2>5. CASE a.kind = "glob" /\ Matched(l) # {} /\ call' = Began(l, m, a, "source", Matched(l))
      BY <2>1, <2>5 DEF Phases
    <2>6. CASE a.kind # "glob" /\ call' = Began(l, m, a, "source", {a.path})
      BY <2>2, <2>6 DEF Phases
    <2> QED BY <2>3, <2>4, <2>5, <2>6 DEF SyncStart
  <1>6. /\ IsCall(call') /\ call'.from = l /\ call'.to = m /\ call'.kind = a.kind
        /\ call'.path = a.path /\ call'.pc = pc /\ call'.todo = todo
        /\ DOMAIN call'.srcFiles = {} /\ DOMAIN call'.dstFiles = {}
        /\ call'.copied = {} /\ call'.deleted = {} /\ call'.blind = {}
        /\ call'.blindTo = {} /\ call'.steady = DOMAIN fs[l] /\ call'.quiet = TRUE
    <2>1. Fresh(call', l, m, a, pc, todo)
      BY <1>2, <1>3, <1>5, BeganIs, InvTypes
    <2> QED BY <2>1 DEF Fresh
  <1>7. Ends(call') /\ Absent(call')
    BY <1>2, <1>3, <1>6 DEF Ends, Absent
  <1>8. DOMAIN fs[l] \subseteq Files /\ fs' = fs
    BY <1>1, <1>2, InvTypes
  <1>9. CallInv(call', fs')
    <2>1. CASE pc = "failed"
      BY <1>6, <1>7, <2>1, OverInv DEF Succeeded
    <2>2. CASE pc = "ok" /\ a.kind = "glob" /\ Matched(l) = {}
      <3>1. Scope(call') \cap DOMAIN fs[l] = {}
        BY <1>2, <1>6, <2>2, MatchedIs DEF Scope
      <3>2. Succeeded(call', fs')
        BY <1>6, <1>8, <2>2, <3>1 DEF Succeeded
      <3> QED BY <1>6, <1>7, <2>2, <3>2, OverInv
    <2>3. CASE pc = "source" /\ a.kind = "glob" /\ todo = Matched(l)
      <3>1. \A q \in Scope(call') \cap DOMAIN fs[l] : \E p \in todo : IsPrefix(p, q)
        BY <1>2, <1>6, <2>3, MatchedIs DEF Scope
      <3>2. \A p \in todo : p # <<>> /\ Head(p) \in Pattern
        BY <1>2, <2>3, MatchedIs
      <3> QED BY <1>6, <1>7, <1>8, <2>3, <3>1, <3>2, BeganInv
    <2>4. CASE pc = "source" /\ a.kind # "glob" /\ todo = {a.path}
      <3>1. ASSUME NEW q \in Scope(call') \cap DOMAIN fs[l]
            PROVE  IsPrefix(a.path, q)
        <4>1. q \in Seq(STRING)
          BY <1>8, FilesAreNames
        <4>2. CASE a.kind = "tree"
          BY <1>3, <4>1, <4>2, EmptyIsPrefix
        <4>3. CASE a.kind = "file"
          <5>1. q = a.path
            BY <1>6, <4>3 DEF Scope
          <5> QED BY <4>1, <5>1, SelfIsPrefix
        <4> QED BY <1>3, <2>4, <4>2, <4>3 DEF Requests
      <3> QED BY <1>6, <1>7, <1>8, <2>4, <3>1, BeganInv
    <2> QED BY <1>5, <2>1, <2>2, <2>3, <2>4
  <1>10. settled' => Settled(call', fs')
    <2>1. SUFFICES ASSUME settled' PROVE Settled(call', fs')
      OBVIOUS
    <2>2. Settled(call, fs) /\ a.kind = "tree" /\ l = call.from /\ m = call.to
      BY <1>1, <2>1 DEF Inv
    <2>3. pc # "copy"
      BY <1>5
    <2> QED BY <1>6, <1>8, <2>2, <2>3 DEF Settled
  <1>11. settled' \in BOOLEAN
    BY <1>1
  <1> QED BY <1>1, <1>4, <1>6, <1>9, <1>10, <1>11 DEF Inv

\* The call d is the call c but for what is left and what is listed.
Further(d, c) ==
  /\ IsCall(d)
  /\ d.from = c.from /\ d.to = c.to /\ d.kind = c.kind /\ d.path = c.path
  /\ d.delete = c.delete /\ d.preserve = c.preserve /\ d.method = c.method
  /\ d.pc = c.pc /\ d.copied = c.copied /\ d.deleted = c.deleted /\ d.kept = c.kept
  /\ d.steady = c.steady /\ d.quiet = c.quiet

LEMMA FurtherSame ==
  ASSUME NEW c, NEW d, Further(d, c)
  PROVE  Scope(d) = Scope(c) /\ (Plain(d) <=> Plain(c)) /\ (Ends(d) <=> Ends(c))
  <1>1. Scope(d) = Scope(c)
    BY DEF Further, Scope
  <1> QED BY <1>1 DEF Further, Plain, Ends

\* What a look at p finds is the source of the call.
LEMMA FoundInScope ==
  ASSUME Inv, call.pc = "source", NEW p \in call.todo, NEW q \in DOMAIN fs[call.from],
         q = p \/ q \in FilesIn(fs[call.from], p)
  PROVE  q \in Scope(call)
  <1>1. /\ call.from \in Locs /\ call.kind \in {"tree", "glob", "file"}
        /\ p \in Seq(STRING) /\ Left(call) /\ Ends(call)
    BY InvTypes, CallFields DEF CallInv
  <1>2. q \in Files /\ q \in Seq(STRING)
    BY <1>1, InvTypes, FilesAreNames
  <1>3. IsPrefix(p, q)
    BY <1>1, SelfIsPrefix DEF FilesIn
  <1>4. CASE call.kind = "tree"
    BY <1>2, <1>4 DEF Scope
  <1>5. CASE call.kind = "glob"
    <2>1. p # <<>> /\ Head(p) \in Pattern
      BY <1>1, <1>5 DEF Left
    <2>2. Head(q) = Head(p)
      BY <1>1, <1>2, <1>3, <2>1, PrefixHead
    <2> QED BY <1>2, <1>5, <2>1, <2>2 DEF Scope
  <1>6. CASE call.kind = "file"
    <2>1. p = call.path /\ call.path \in Files
      BY <1>1, <1>6 DEF Left, Ends
    <2>2. q = p
      BY <1>2, <1>3, <2>1, FilesAreNames
    <2> QED BY <1>6, <2>1, <2>2 DEF Scope
  <1> QED BY <1>1, <1>4, <1>5, <1>6

LEMMA DirsInTyped ==
  ASSUME NEW T, DOMAIN T \subseteq Files, NEW p \in Seq(STRING)
  PROVE  /\ DirsIn(T, p) \subseteq Seq(STRING) /\ DirsIn(T, p) \cap Files = {}
         /\ p # <<>> => \A r \in DirsIn(T, p) : r # <<>> /\ Head(r) = Head(p)
         /\ p \in Files => DirsIn(T, p) = {}
  <1>1. ASSUME p \in Files, NEW r \in DirsIn(T, p)
        PROVE  FALSE
    <2>1. PICK q \in DOMAIN T : IsPrefix(p, q) /\ Len(q) > Len(p) + 1
      BY <1>1 DEF DirsIn
    <2>2. q = p /\ Len(p) \in Nat
      BY <1>1, <2>1, FilesAreNames
    <2> QED BY <2>1, <2>2
  <1>2. p \in Files => DirsIn(T, p) = {}
    BY <1>1
  <1> QED BY <1>2, DirsInAreDirs

\* What is below p is found, or is below a directory that is left.
LEMMA BelowIsSeen ==
  ASSUME Inv, NEW p \in Seq(STRING), NEW q \in DOMAIN fs[call.from], IsPrefix(p, q)
  PROVE  \/ Key(call.kind, q) \in DOMAIN SeenAt(p)
         \/ \E r \in DirsIn(fs[call.from], p) : IsPrefix(r, q)
  <1> DEFINE T == fs[call.from]
  <1>1. call.from \in Locs /\ call.kind \in {"tree", "glob", "file"}
    BY InvTypes, CallFields
  <1>2. IsTree(T, Files) /\ DOMAIN T \subseteq Files
    BY <1>1, InvTypes
  <1>3. /\ p \in DOMAIN T => DOMAIN SeenAt(p) = {Key(call.kind, p)}
        /\ p \notin DOMAIN T =>
             DOMAIN SeenAt(p) = {Key(call.kind, r) : r \in FilesIn(T, p)}
    BY <1>1, <1>2, SeenAtIsTree
  <1>4. /\ p \in Files => p = q
        /\ p \notin Files => q \in FilesIn(T, p) \/ \E r \in DirsIn(T, p) : IsPrefix(r, q)
    BY <1>2, LookFinds
  <1> QED BY <1>2, <1>3, <1>4

\* One look at the source that succeeds.
LEMMA LookKeeps ==
  ASSUME Inv, call.pc = "source", NEW p \in call.todo, NEW d, Further(d, call),
         d.blind = call.blind, d.blindTo = call.blindTo, d.dstFiles = call.dstFiles,
         d.todo = (call.todo \ {p}) \cup DirsIn(fs[call.from], p),
         d.srcFiles = Merge(call.srcFiles, SeenAt(p))
  PROVE  CallInv(d, fs)
  <1> DEFINE T == fs[call.from]
  <1>1. /\ call.from \in Locs /\ call.kind \in {"tree", "glob", "file"}
        /\ p \in Seq(STRING) /\ CallInv(call, fs)
    BY InvTypes, CallFields
  <1>2. IsTree(T, Files) /\ DOMAIN T \subseteq Files
    BY <1>1, InvTypes
  <1>3. /\ <<>> \notin DOMAIN SeenAt(p)
        /\ \A k \in DOMAIN SeenAt(p) : \E q \in DOMAIN T : /\ q = p \/ q \in FilesIn(T, p)
                                                       /\ Key(call.kind, q) = k
                                                       /\ SeenAt(p)[k] = T[q]
    BY <1>1, <1>2, SeenAtIsTree
  <1>4. /\ DOMAIN d.srcFiles = DOMAIN call.srcFiles \cup DOMAIN SeenAt(p)
        /\ \A k \in DOMAIN SeenAt(p) : d.srcFiles[k] = SeenAt(p)[k]
        /\ \A k \in DOMAIN call.srcFiles \ DOMAIN SeenAt(p) : d.srcFiles[k] = call.srcFiles[k]
    BY DEF Merge
  <1>5. /\ Scope(d) = Scope(call) /\ (Plain(d) <=> Plain(call)) /\ Ends(d)
        /\ d.pc = "source" /\ d.kind = call.kind /\ d.from = call.from
        /\ d.steady = call.steady /\ d.quiet = call.quiet /\ d.path = call.path
        /\ d.copied = call.copied /\ d.deleted = call.deleted
    BY <1>1, FurtherSame DEF Further, CallInv
  <1>6. ASSUME NEW q \in DOMAIN T, \E r \in call.todo : IsPrefix(r, q)
        PROVE  \/ Key(call.kind, q) \in DOMAIN d.srcFiles
               \/ \E r \in d.todo : IsPrefix(r, q)
    <2>1. PICK r \in call.todo : IsPrefix(r, q)
      BY <1>6
    <2>2. CASE r = p
      BY <1>1, <1>4, <2>1, <2>2, BelowIsSeen
    <2>3. CASE r # p
      BY <2>1, <2>3
    <2> QED BY <2>2, <2>3
  <1>7. Present(d, fs)
    BY <1>1, <1>5 DEF CallInv, Present
  <1>8. Looked(d)
    <2>1. SUFFICES ASSUME NEW q \in Scope(call) \cap call.steady
                   PROVE  \/ \E r \in call.blind : IsPrefix(r, q)
                          \/ Key(call.kind, q) \in DOMAIN d.srcFiles
                          \/ \E r \in d.todo : IsPrefix(r, q)
      BY <1>5 DEF Looked
    <2>2. q \in DOMAIN T
      BY <1>1 DEF CallInv, Present, Walks
    <2>3. \/ \E r \in call.blind : IsPrefix(r, q)
          \/ Key(call.kind, q) \in DOMAIN call.srcFiles
          \/ \E r \in call.todo : IsPrefix(r, q)
      BY <1>1 DEF CallInv, Looked, Walks
    <2> QED BY <1>4, <1>6, <2>2, <2>3
  <1>9. Left(d)
    <2>1. Left(call) /\ Ends(call)
      BY <1>1 DEF CallInv
    <2>2. ASSUME call.kind = "glob", NEW r \in d.todo
          PROVE  r # <<>> /\ Head(r) \in Pattern
      BY <1>1, <1>2, <2>1, <2>2, DirsInTyped DEF Left
    <2>3. ASSUME call.kind = "file"
          PROVE  d.todo \subseteq {call.path}
      BY <1>1, <1>2, <2>1, <2>3, DirsInTyped DEF Left, Ends
    <2> QED BY <1>3, <1>4, <1>5, <2>1, <2>2, <2>3 DEF Left
  <1>10. NotYet(d) /\ Absent(d)
    BY <1>1, <1>5 DEF CallInv, NotYet, Absent
  <1>11. SourceRead(d, fs)
    <2>1. SUFFICES ASSUME call.quiet, call.blind = {}, Plain(call)
                   PROVE  /\ \A q \in Scope(call) \cap DOMAIN T :
                               q \in DOMAIN d.srcFiles \/ \E r \in d.todo : IsPrefix(r, q)
                          /\ \A k \in DOMAIN d.srcFiles :
                               k \in DOMAIN T /\ d.srcFiles[k] = T[k]
      BY <1>5 DEF SourceRead
    <2>2. /\ \A q \in Scope(call) \cap DOMAIN T :
               q \in DOMAIN call.srcFiles \/ \E r \in call.todo : IsPrefix(r, q)
          /\ \A k \in DOMAIN call.srcFiles : k \in DOMAIN T /\ call.srcFiles[k] = T[k]
      BY <1>1, <2>1 DEF CallInv, SourceRead, Walks
    <2>3. ASSUME NEW q \in Scope(call) \cap DOMAIN T
          PROVE  q \in DOMAIN d.srcFiles \/ \E r \in d.todo : IsPrefix(r, q)
      <3>1. Key(call.kind, q) = q
        BY <2>1 DEF Plain
      <3> QED BY <1>4, <1>6, <2>2, <3>1
    <2>4. ASSUME NEW k \in DOMAIN SeenAt(p)
          PROVE  k \in DOMAIN T /\ SeenAt(p)[k] = T[k]
      <3>1. PICK q \in DOMAIN T : /\ q = p \/ q \in FilesIn(T, p)
                                  /\ Key(call.kind, q) = k
                                  /\ SeenAt(p)[k] = T[q]
        BY <1>3
      <3>2. q \in Scope(call)
        BY <3>1, FoundInScope
      <3>3. q = k
        BY <2>1, <3>1, <3>2 DEF Plain
      <3> QED BY <3>1, <3>3
    <2> QED BY <1>4, <2>2, <2>3, <2>4
  <1>12. TargetRead(d, fs) /\ CopiesMade(d, fs) /\ Succeeded(d, fs)
    BY <1>5 DEF TargetRead, CopiesMade, Succeeded
  <1> QED BY <1>5, <1>7, <1>8, <1>9, <1>10, <1>11, <1>12 DEF CallInv

\* One look at the source that fails.
LEMMA BlindKeeps ==
  ASSUME Inv, call.pc = "source", NEW d, Further(d, call),
         NEW p \in call.todo, p \in d.blind, call.blind \subseteq d.blind,
         d.todo = call.todo \ {p}, d.srcFiles = call.srcFiles, d.dstFiles = call.dstFiles
  PROVE  CallInv(d, fs)
  <1>1. /\ Scope(d) = Scope(call) /\ Ends(d) /\ CallInv(call, fs)
        /\ d.pc = "source" /\ d.kind = call.kind /\ d.from = call.from
        /\ d.steady = call.steady /\ d.path = call.path
        /\ d.copied = call.copied /\ d.deleted = call.deleted
    BY InvTypes, FurtherSame DEF Further, CallInv
  <1>2. Present(d, fs) /\ NotYet(d)
    BY <1>1 DEF CallInv, Present, NotYet
  <1>3. Left(d)
    BY <1>1 DEF CallInv, Left
  <1>4. Looked(d)
    <2>1. SUFFICES ASSUME NEW q \in Scope(call) \cap call.steady
                   PROVE  \/ \E r \in d.blind : IsPrefix(r, q)
                          \/ Key(call.kind, q) \in DOMAIN call.srcFiles
                          \/ \E r \in d.todo : IsPrefix(r, q)
      BY <1>1 DEF Looked
    <2>2. \/ \E r \in call.blind : IsPrefix(r, q)
          \/ Key(call.kind, q) \in DOMAIN call.srcFiles
          \/ \E r \in call.todo : IsPrefix(r, q)
      BY <1>1 DEF CallInv, Looked, Walks
    <2>3. ASSUME NEW r \in call.todo, IsPrefix(r, q)
          PROVE  r \in d.blind \/ r \in d.todo
      OBVIOUS
    <2> QED BY <2>2, <2>3
  <1>5. Absent(d)
    BY <1>1 DEF CallInv, NotYet, Absent
  <1>6. SourceRead(d, fs) /\ TargetRead(d, fs) /\ CopiesMade(d, fs) /\ Succeeded(d, fs)
    BY <1>1 DEF SourceRead, TargetRead, CopiesMade, Succeeded
  <1> QED BY <1>1, <1>2, <1>3, <1>4, <1>5, <1>6 DEF CallInv

\* A sync that is known to find nothing goes on.
LEMMA SettledOn ==
  ASSUME NEW c, NEW d, NEW F, Settled(c, F), c.pc \in Walks,
         d.from = c.from, d.to = c.to, d.kind = c.kind, d.quiet = c.quiet,
         d.blind = c.blind, d.blindTo = c.blindTo, d.copied = c.copied,
         d.pc = "copy" => d.todo = {}
  PROVE  Settled(d, F)
  BY DEF Settled

LEMMA SourceStays ==
  ASSUME Inv, NEW c, IsCall(c), c.pc = "source", CallInv(c, fs)
  PROVE  /\ CallInv(AfterSource(c), fs) /\ IsCall(AfterSource(c))
         /\ Settled(c, fs) => Settled(AfterSource(c), fs)
  <1>1. \A l \in Locs : DOMAIN fs[l] \subseteq Files
    BY InvTypes
  <1>2. /\ CallInv(AfterSource(c), fs) /\ IsCall(AfterSource(c))
        /\ Alike(AfterSource(c), c) /\ AfterSource(c).pc \in {"source", "target"}
    BY <1>1, SourceOver
  <1> DEFINE d == AfterSource(c)
  <1>3. Alike(d, c) /\ d.pc # "copy"
    BY <1>2
  <1> HIDE DEF d
  <1>4. Settled(c, fs) => Settled(d, fs)
    BY <1>3, SettledOn DEF Alike, Kin, Walks
  <1> QED BY <1>2, <1>4 DEF d

LEMMA ListSourceKeeps ==
  ASSUME Inv, NEW p \in call.todo, ListSource(p)
  PROVE  Inv'
  <1>1. call.pc = "source" /\ UNCHANGED <<fs, dirs, clock, edits>>
    BY DEF ListSource
  <1>2. /\ IsTree(fs[call.from], Files) /\ DOMAIN fs[call.from] \subseteq Files
        /\ p \in Seq(STRING) /\ call.kind \in {"tree", "glob", "file"}
        /\ IsTree(call.srcFiles, Seq(STRING)) /\ call.todo \subseteq Seq(STRING)
        /\ call.blind \subseteq Seq(STRING)
    BY InvTypes, CallFields
  <1>3. faults' \in 0..MaxFaults
    BY FaultCounts DEF ListSource
  <1>4. CASE /\ call' = AfterSource([call EXCEPT
                    !.todo = (@ \ {p}) \cup DirsIn(fs[call.from], p),
                    !.srcFiles = Merge(@, SeenAt(p))])
             /\ UNCHANGED <<settled, faults>>
    <2> DEFINE X == (call.todo \ {p}) \cup DirsIn(fs[call.from], p)
               M == Merge(call.srcFiles, SeenAt(p))
               d == [call EXCEPT !.todo = X, !.srcFiles = M]
    <2>1. X \subseteq Seq(STRING)
      BY <1>2, DirsInTyped
    <2>2. IsTree(M, Seq(STRING))
      BY <1>2, SeenAtIsTree, MergeIsTree
    <2>3. X = (call.todo \ {p}) \cup DirsIn(fs[call.from], p) /\ M = Merge(call.srcFiles, SeenAt(p))
      OBVIOUS
    <2>4. call' = AfterSource(d)
      BY <1>4
    <2> HIDE DEF X, M
    <2>5. /\ Further(d, call) /\ d.blind = call.blind /\ d.blindTo = call.blindTo
          /\ d.dstFiles = call.dstFiles /\ d.todo = X /\ d.srcFiles = M
      BY <2>1, <2>2, InvTypes DEF IsCall, Calls, Further
    <2> HIDE DEF d
    <2>6. CallInv(d, fs)
      BY <1>1, <2>3, <2>5, LookKeeps
    <2>7. IsCall(d) /\ d.pc = "source"
      BY <1>1, <2>5 DEF Further
    <2>8. settled => Settled(d, fs)
      <3>1. settled => Settled(call, fs)
        BY DEF Inv
      <3> QED BY <1>1, <2>5, <2>7, <3>1, SettledOn DEF Further, Walks
    <2>9. CallInv(call', fs) /\ IsCall(call') /\ (settled => Settled(call', fs))
      BY <2>4, <2>6, <2>7, <2>8, SourceStays
    <2> QED BY <1>1, <1>3, <1>4, <2>9 DEF Inv
  <1>5. CASE /\ call' = AfterSource([call EXCEPT !.todo = @ \ {p}, !.blind = @ \cup {p}])
             /\ settled' = FALSE
    <2> DEFINE X == call.todo \ {p}
               B == call.blind \cup {p}
               d == [call EXCEPT !.todo = X, !.blind = B]
    <2>1. X \subseteq Seq(STRING) /\ B \subseteq Seq(STRING)
      BY <1>2
    <2>2. X = call.todo \ {p} /\ p \in B /\ call.blind \subseteq B
      OBVIOUS
    <2>3. call' = AfterSource(d)
      BY <1>5
    <2> HIDE DEF X, B
    <2>4. /\ Further(d, call) /\ d.blind = B /\ d.srcFiles = call.srcFiles
          /\ d.dstFiles = call.dstFiles /\ d.todo = X
      BY <2>1, InvTypes DEF IsCall, Calls, Further
    <2> HIDE DEF d
    <2>5. CallInv(d, fs)
      BY <1>1, <2>2, <2>4, BlindKeeps
    <2>6. IsCall(d) /\ d.pc = "source"
      BY <1>1, <2>4 DEF Further
    <2>7. CallInv(call', fs) /\ IsCall(call')
      BY <2>3, <2>5, <2>6, SourceStays
    <2> QED BY <1>1, <1>3, <1>5, <2>7 DEF Inv
  <1> QED BY <1>4, <1>5 DEF ListSource

LEMMA ListSourceAsFileKeeps ==
  ASSUME Inv, ListSourceAsFile
  PROVE  Inv'
  <1> DEFINE S == [k \in {<<BaseName>>} |-> [data |-> 0, mtime |-> clock]]
             d == [call EXCEPT !.todo = {}, !.blind = {<<>>}, !.srcFiles = S]
  <1>1. /\ call.pc = "source" /\ call.todo = {<<>>} /\ settled' = FALSE
        /\ call' = AfterSource(d) /\ UNCHANGED <<fs, dirs, clock, edits>>
    BY DEF ListSourceAsFile
  <1>2. faults' \in 0..MaxFaults
    BY FaultCounts DEF ListSourceAsFile
  <1>3. <<BaseName>> \in Seq(STRING) /\ <<>> \in Seq(STRING) /\ <<BaseName>> # <<>>
    <2>1. BaseName \in STRING
      BY TransferAssumption
    <2>2. <<BaseName>> \in Seq(STRING)
      BY <2>1, NameIsPath
    <2>3. Len(<<BaseName>>) = 1 /\ Len(<<>>) = 0
      OBVIOUS
    <2>4. <<>> \in Seq(STRING)
      OBVIOUS
    <2> QED BY <2>2, <2>3, <2>4
  <1>4. [data |-> 0, mtime |-> clock] \in File
    BY InvTypes, TransferAssumption DEF File
  <1>5. DOMAIN S = {<<BaseName>>} /\ IsTree(S, Seq(STRING))
    BY <1>3, <1>4 DEF IsTree
  <1> HIDE DEF S
  <1>6. /\ Further(d, call) /\ d.blind = {<<>>} /\ d.srcFiles = S
        /\ d.dstFiles = call.dstFiles /\ d.todo = {}
    BY <1>3, <1>5, InvTypes DEF IsCall, Calls, Further
  <1> HIDE DEF d
  <1>7. /\ Scope(d) = Scope(call) /\ Ends(d) /\ CallInv(call, fs)
        /\ d.pc = "source" /\ d.kind = call.kind /\ d.from = call.from
        /\ d.steady = call.steady /\ d.path = call.path
        /\ d.copied = call.copied /\ d.deleted = call.deleted /\ IsCall(d)
    BY <1>1, <1>6, InvTypes, FurtherSame DEF Further, CallInv
  <1>8. Present(d, fs) /\ NotYet(d)
    BY <1>1, <1>6, <1>7 DEF CallInv, Present, NotYet
  <1>9. Left(d)
    BY <1>3, <1>5, <1>6, <1>7 DEF Left
  <1>10. \A q \in call.steady : IsPrefix(<<>>, q)
    BY InvTypes, CallFields, FilesAreNames, EmptyIsPrefix
  <1>11. Looked(d)
    BY <1>6, <1>7, <1>10 DEF Looked
  <1>12. Absent(d)
    BY <1>1, <1>7 DEF CallInv, NotYet, Absent
  <1>13. SourceRead(d, fs) /\ TargetRead(d, fs) /\ CopiesMade(d, fs) /\ Succeeded(d, fs)
    BY <1>6, <1>7 DEF SourceRead, TargetRead, CopiesMade, Succeeded
  <1>14. CallInv(d, fs)
    BY <1>7, <1>8, <1>9, <1>11, <1>12, <1>13 DEF CallInv
  <1>15. CallInv(call', fs) /\ IsCall(call')
    BY <1>1, <1>7, <1>14, SourceStays
  <1> QED BY <1>1, <1>2, <1>15 DEF Inv

LEMMA TargetStays ==
  ASSUME Inv, NEW c, IsCall(c), c.pc = "target", CallInv(c, fs)
  PROVE  /\ CallInv(AfterTarget(c), fs) /\ IsCall(AfterTarget(c))
         /\ Settled(c, fs) => Settled(AfterTarget(c), fs)
  <1> DEFINE d == AfterTarget(c)
  <1>1. /\ CallInv(d, fs) /\ IsCall(d) /\ Alike(d, c) /\ d.pc \in Walks \cup {"ok"}
        /\ d.pc = "copy" =>
             /\ c.todo = {}
             /\ d.todo = {k \in DOMAIN c.srcFiles : NeedsCopy(c.srcFiles[k], c.dstFiles, k)}
    BY TargetOver
  <1> HIDE DEF d
  <1>2. ASSUME Settled(c, fs), d.pc = "copy"
        PROVE  d.todo = {}
    <2>1. /\ c.kind = "tree" /\ c.quiet /\ c.blind = {} /\ c.blindTo = {}
          /\ \A q \in DOMAIN fs[c.from] :
               q \in DOMAIN fs[c.to] /\ ~NeedsCopy(fs[c.from][q], fs[c.to], q)
      BY <1>2 DEF Settled, Walks
    <2>2. Plain(c)
      BY <2>1 DEF Plain, Key
    <2>3. \A k \in DOMAIN c.srcFiles : k \in DOMAIN fs[c.from] /\ c.srcFiles[k] = fs[c.from][k]
      BY <2>1, <2>2 DEF CallInv, SourceRead, Walks
    <2>4. /\ DOMAIN fs[c.to] \subseteq DOMAIN c.dstFiles
          /\ \A k \in DOMAIN c.dstFiles : c.dstFiles[k] = fs[c.to][k]
      BY <1>1, <1>2, <2>1 DEF CallInv, TargetRead
    <2>5. ASSUME NEW k \in DOMAIN c.srcFiles
          PROVE  ~NeedsCopy(c.srcFiles[k], c.dstFiles, k)
      <3>1. k \in DOMAIN fs[c.to] /\ ~NeedsCopy(c.srcFiles[k], fs[c.to], k)
        BY <2>1, <2>3
      <3> QED BY <2>4, <3>1 DEF NeedsCopy
    <2> QED BY <1>1, <1>2, <2>5
  <1>3. Settled(c, fs) => Settled(d, fs)
    BY <1>1, <1>2, SettledOn DEF Alike, Kin, Walks
  <1> QED BY <1>1, <1>3 DEF d

LEMMA ListTargetKeeps ==
  ASSUME Inv, NEW p \in call.todo, ListTarget(p)
  PROVE  Inv'
  <1> DEFINE T == fs[call.to]
             U == [q \in FilesIn(T, p) |-> T[q]]
  <1>1. call.pc = "target" /\ UNCHANGED <<fs, dirs, clock, edits>>
    BY DEF ListTarget
  <1>2. /\ IsTree(T, Files) /\ DOMAIN T \subseteq Files
        /\ p \in Seq(STRING) /\ CallInv(call, fs)
        /\ IsTree(call.dstFiles, Seq(STRING)) /\ call.todo \subseteq Seq(STRING)
        /\ call.blindTo \subseteq Seq(STRING)
    BY InvTypes, CallFields
  <1>3. faults' \in 0..MaxFaults
    BY FaultCounts DEF ListTarget
  <1>4. /\ DOMAIN U = FilesIn(T, p) /\ FilesIn(T, p) \subseteq DOMAIN T
        /\ \A q \in FilesIn(T, p) : U[q] = T[q]
    BY DEF FilesIn
  <1>5. IsTree(U, Seq(STRING))
    BY <1>2, <1>4, FilesAreNames DEF IsTree
  <1>6. CASE /\ call' = AfterTarget([call EXCEPT
                    !.todo = (@ \ {p}) \cup DirsIn(T, p), !.dstFiles = Merge(@, U)])
             /\ UNCHANGED <<settled, faults>>
    <2> DEFINE X == (call.todo \ {p}) \cup DirsIn(T, p)
               M == Merge(call.dstFiles, U)
               d == [call EXCEPT !.todo = X, !.dstFiles = M]
    <2>1. X \subseteq Seq(STRING) /\ DirsIn(T, p) \cap Files = {}
      BY <1>2, DirsInTyped
    <2>2. IsTree(M, Seq(STRING))
      BY <1>2, <1>5, MergeIsTree
    <2>3. /\ \A r \in call.todo : r = p \/ r \in X
          /\ X \subseteq call.todo \cup DirsIn(T, p)
          /\ DirsIn(T, p) \subseteq X
          /\ DOMAIN M = DOMAIN call.dstFiles \cup FilesIn(T, p)
          /\ \A k \in FilesIn(T, p) : M[k] = T[k]
          /\ \A k \in DOMAIN call.dstFiles \ FilesIn(T, p) : M[k] = call.dstFiles[k]
      BY <1>4 DEF Merge
    <2>4. call' = AfterTarget(d)
      BY <1>6
    <2> HIDE DEF X, M, U
    <2>5. /\ Further(d, call) /\ d.blind = call.blind /\ d.blindTo = call.blindTo
          /\ d.srcFiles = call.srcFiles /\ d.todo = X /\ d.dstFiles = M
      BY <2>1, <2>2, InvTypes DEF IsCall, Calls, Further
    <2> HIDE DEF d
    <2>6. /\ Scope(d) = Scope(call) /\ (Plain(d) <=> Plain(call)) /\ Ends(d)
          /\ d.pc = "target" /\ d.kind = call.kind /\ d.from = call.from /\ d.to = call.to
          /\ d.steady = call.steady /\ d.quiet = call.quiet
          /\ d.copied = call.copied /\ d.deleted = call.deleted /\ IsCall(d)
      BY <1>1, <1>2, <2>5, FurtherSame DEF Further, CallInv
    <2>7. Present(d, fs) /\ NotYet(d) /\ Absent(d)
      BY <1>1, <1>2, <2>6 DEF CallInv, Present, NotYet, Absent
    <2>8. Looked(d)
      <3>1. Looked(call)
        BY <1>2 DEF CallInv
      <3> QED BY <1>1, <2>5, <2>6, <3>1 DEF Looked
    <2>9. Left(d)
      <3>1. Left(call)
        BY <1>2 DEF CallInv
      <3> QED BY <1>1, <2>1, <2>3, <2>5, <2>6, <3>1 DEF Left
    <2>10. SourceRead(d, fs)
      <3>1. SourceRead(call, fs)
        BY <1>2 DEF CallInv
      <3> QED BY <1>1, <2>5, <2>6, <3>1 DEF SourceRead
    <2>11. TargetRead(d, fs)
      <3>1. SUFFICES ASSUME call.quiet, call.blindTo = {}
                     PROVE  /\ \A q \in DOMAIN T : q \in DOMAIN M \/ \E r \in X : IsPrefix(r, q)
                            /\ \A k \in DOMAIN M : k \in DOMAIN T /\ M[k] = T[k]
        BY <2>5, <2>6 DEF TargetRead
      <3>2. /\ \A q \in DOMAIN T : q \in DOMAIN call.dstFiles \/ \E r \in call.todo : IsPrefix(r, q)
            /\ \A k \in DOMAIN call.dstFiles : k \in DOMAIN T /\ call.dstFiles[k] = T[k]
        BY <1>1, <1>2, <3>1 DEF CallInv, TargetRead
      <3>3. p \notin Files
        BY <1>1, <1>2 DEF CallInv, Left
      <3>4. ASSUME NEW q \in DOMAIN T, IsPrefix(p, q)
            PROVE  q \in DOMAIN M \/ \E r \in X : IsPrefix(r, q)
        BY <1>2, <2>3, <3>3, <3>4, LookFinds
      <3>5. ASSUME NEW q \in DOMAIN T
            PROVE  q \in DOMAIN M \/ \E r \in X : IsPrefix(r, q)
        BY <2>3, <3>2, <3>4
      <3> QED BY <1>4, <2>3, <3>2, <3>5
    <2>12. CopiesMade(d, fs) /\ Succeeded(d, fs)
      BY <2>6 DEF CopiesMade, Succeeded
    <2>13. CallInv(d, fs)
      BY <2>6, <2>7, <2>8, <2>9, <2>10, <2>11, <2>12 DEF CallInv
    <2>14. settled => Settled(d, fs)
      <3>1. settled => Settled(call, fs)
        BY DEF Inv
      <3> QED BY <1>1, <2>5, <2>6, <3>1, SettledOn DEF Further, Walks
    <2>15. CallInv(call', fs) /\ IsCall(call') /\ (settled => Settled(call', fs))
      BY <2>4, <2>6, <2>13, <2>14, TargetStays
    <2> QED BY <1>1, <1>3, <1>6, <2>15 DEF Inv
  <1>7. CASE /\ call' = AfterTarget([call EXCEPT !.todo = @ \ {p}, !.blindTo = @ \cup {p}])
             /\ settled' = FALSE
    <2> DEFINE X == call.todo \ {p}
               B == call.blindTo \cup {p}
               d == [call EXCEPT !.todo = X, !.blindTo = B]
    <2>1. X \subseteq Seq(STRING) /\ B \subseteq Seq(STRING)
      BY <1>2
    <2>2. X \subseteq call.todo /\ B # {}
      OBVIOUS
    <2>3. call' = AfterTarget(d)
      BY <1>7
    <2> HIDE DEF X, B
    <2>4. /\ Further(d, call) /\ d.blind = call.blind /\ d.srcFiles = call.srcFiles
          /\ d.dstFiles = call.dstFiles /\ d.todo = X /\ d.blindTo = B
      BY <2>1, InvTypes DEF IsCall, Calls, Further
    <2> HIDE DEF d
    <2>5. /\ Scope(d) = Scope(call) /\ (Plain(d) <=> Plain(call)) /\ Ends(d)
          /\ d.pc = "target" /\ d.kind = call.kind /\ d.from = call.from /\ d.to = call.to
          /\ d.steady = call.steady /\ d.quiet = call.quiet
          /\ d.copied = call.copied /\ d.deleted = call.deleted /\ IsCall(d)
      BY <1>1, <1>2, <2>4, FurtherSame DEF Further, CallInv
    <2>6. Present(d, fs) /\ NotYet(d) /\ Absent(d)
      BY <1>1, <1>2, <2>5 DEF CallInv, Present, NotYet, Absent
    <2>7. Looked(d)
      <3>1. Looked(call)
        BY <1>2 DEF CallInv
      <3> QED BY <1>1, <2>4, <2>5, <3>1 DEF Looked
    <2>8. Left(d)
      <3>1. Left(call)
        BY <1>2 DEF CallInv
      <3> QED BY <1>1, <2>2, <2>4, <2>5, <3>1 DEF Left
    <2>9. SourceRead(d, fs)
      <3>1. SourceRead(call, fs)
        BY <1>2 DEF CallInv
      <3> QED BY <1>1, <2>4, <2>5, <3>1 DEF SourceRead
    <2>10. TargetRead(d, fs) /\ CopiesMade(d, fs) /\ Succeeded(d, fs)
      BY <2>2, <2>4, <2>5 DEF TargetRead, CopiesMade, Succeeded
    <2>11. CallInv(d, fs)
      BY <2>5, <2>6, <2>7, <2>8, <2>9, <2>10 DEF CallInv
    <2>12. CallInv(call', fs) /\ IsCall(call')
      BY <2>3, <2>5, <2>11, TargetStays
    <2> QED BY <1>1, <1>3, <1>7, <2>12 DEF Inv
  <1> QED BY <1>6, <1>7 DEF ListTarget

LEMMA LonePrefix ==
  ASSUME NEW p \in Seq(STRING), NEW k \in Seq(STRING), k # <<>>
  PROVE  IsPrefix(p, p \o k) /\ p # p \o k
  <1>1. Len(p \o k) = Len(p) + Len(k) /\ Len(k) > 0 /\ Len(p) \in Nat
    OBVIOUS
  <1>2. SubSeq(p \o k, 1, Len(p)) = p /\ SubSeq(p, 1, Len(p)) = p
    OBVIOUS
  <1>3. p # p \o k /\ Len(p) <= Len(p \o k)
    BY <1>1
  <1> DEFINE q == p \o k
  <1>4. SubSeq(q, 1, Len(p)) = SubSeq(p, 1, Len(p)) /\ Len(p) <= Len(q)
    BY <1>2, <1>3
  <1> HIDE DEF q
  <1>5. IsPrefix(p, q)
    BY <1>4 DEF IsPrefix
  <1> QED BY <1>3, <1>5 DEF q

\* Only files are copied, and a sync of a single file copies none.
LEMMA CanCopyIs ==
  ASSUME Inv, call.pc = "copy", NEW k \in call.todo, NEW D, CanCopy(call, D, k)
  PROVE  /\ SourceOf(call, k) = k /\ k \in Files /\ k \in DOMAIN fs[call.from]
         /\ k \in DOMAIN call.srcFiles /\ Front(k) \in D
  <1>1. /\ k \in DOMAIN call.srcFiles /\ k # <<>> /\ k \in Seq(STRING) /\ Ends(call)
    BY InvTypes, CallFields DEF CallInv, Left
  <1>2. SourceOf(call, k) \in DOMAIN fs[call.from] /\ Front(k) \in D
    BY DEF CanCopy
  <1>3. SourceOf(call, k) \in Files
    BY <1>2, InvTypes, CallFields
  <1>4. call.kind # "file"
    <2>1. SUFFICES ASSUME call.kind = "file" PROVE FALSE
      OBVIOUS
    <2>2. call.path \in Files /\ call.path \o k \in Files
      BY <1>1, <1>3, <2>1 DEF Ends, SourceOf
    <2>3. call.path \in Seq(STRING)
      BY <2>2, FilesAreNames
    <2>4. IsPrefix(call.path, call.path \o k) /\ call.path # call.path \o k
      BY <1>1, <2>3, LonePrefix
    <2> QED BY <2>2, <2>4, FilesAreNames
  <1>5. SourceOf(call, k) = k
    BY <1>4 DEF SourceOf
  <1> QED BY <1>1, <1>2, <1>3, <1>5

LEMMA MkdirIs ==
  ASSUME Inv, call.pc = "copy", NEW k \in call.todo, Copying(k)
  PROVE  /\ dirs'[call.to] = WithParent(dirs[call.to], k)
         /\ dirs' \in [Locs -> SUBSET Seq(STRING)]
         /\ \A l \in Locs \ {call.to} : dirs'[l] = dirs[l]
         /\ Housed(fs[call.to], dirs'[call.to])
  <1>1. k # <<>> /\ k \in Seq(STRING) /\ call.to \in Locs
    BY InvTypes, CallFields DEF CallInv, Left
  <1>2. Housed(fs[call.to], dirs[call.to]) /\ dirs \in [Locs -> SUBSET Seq(STRING)]
    BY <1>1 DEF Inv, Stored
  <1> DEFINE E == WithParent(dirs[call.to], k)
  <1>3. Closed(E) /\ dirs[call.to] \subseteq E
    BY <1>1, <1>2, WithParentClosed DEF Housed
  <1>4. dirs' = [dirs EXCEPT ![call.to] = E]
    BY DEF Copying
  <1> HIDE DEF E
  <1>5. E \in SUBSET Seq(STRING)
    BY <1>3 DEF Closed
  <1>6. Housed(fs[call.to], E)
    BY <1>2, <1>3 DEF Housed
  <1> QED BY <1>1, <1>2, <1>4, <1>5, <1>6 DEF E

LEMMA NotFarItself ==
  ASSUME NEW T, NEW k, NEW f \in File, k \in DOMAIN T, T[k].mtime = f.mtime,
         T[k].data = f.data
  PROVE  ~NeedsCopy(f, T, k)
  <1>1. f.mtime \in Nat /\ Tolerance \in Nat
    BY TransferAssumption DEF File
  <1>2. ~Far(f.mtime, f.mtime)
    BY <1>1 DEF Far
  <1> QED BY <1>2 DEF NeedsCopy

LEMMA CopyKeeps ==
  ASSUME Inv, NEW k \in call.todo, Copy(k)
  PROVE  Inv'
  <1> DEFINE l == call.from
             m == call.to
             f == Written(fs[l][k], call.preserve)
             d == [call EXCEPT !.todo = @ \ {k}, !.copied = @ \cup {k}]
  <1>1. call.pc = "copy" /\ Copying(k) /\ CanCopy(call, dirs'[m], k)
    BY DEF Copy, Copying
  <1>2. /\ SourceOf(call, k) = k /\ k \in Files /\ k \in DOMAIN fs[l]
        /\ k \in DOMAIN call.srcFiles /\ Front(k) \in dirs'[m]
    BY <1>1, CanCopyIs
  <1>3. /\ fs' = [fs EXCEPT ![m] = Put1(@, k, f)] /\ call' = AfterCopies(d)
        /\ UNCHANGED <<settled, clock, edits, faults>>
    BY <1>2 DEF Copy
  <1>4. /\ l \in Locs /\ m \in Locs /\ l # m /\ CallInv(call, fs)
        /\ call.todo \subseteq Seq(STRING) /\ call.copied \subseteq Seq(STRING)
        /\ k \in Seq(STRING)
    BY <1>1, InvTypes, CallFields DEF CallInv, Ends
  <1>5. fs[l][k] \in File
    BY <1>2, <1>4, InvTypes
  <1>6. /\ f \in File /\ f.data = fs[l][k].data
        /\ call.preserve => f.mtime = fs[l][k].mtime
    BY <1>5, InvTypes DEF Written, File
  <1> HIDE DEF f
  <1>7. /\ Housed(fs[m], dirs'[m]) /\ dirs' \in [Locs -> SUBSET Seq(STRING)]
        /\ \A j \in Locs \ {m} : dirs'[j] = dirs[j]
    BY <1>1, MkdirIs
  <1>8. fs'[m] = Put1(fs[m], k, f) /\ DOMAIN fs' = Locs /\ \A j \in Locs \ {m} : fs'[j] = fs[j]
    BY <1>3, <1>4, InvTypes
  <1>9. /\ Housed(fs'[m], dirs'[m])
        /\ DOMAIN fs'[m] = DOMAIN fs[m] \cup {k}
        /\ fs'[m][k] = f
        /\ \A q \in DOMAIN fs[m] \ {k} : fs'[m][q] = fs[m][q]
    <2>1. Housed(Put1(fs[m], k, f), dirs'[m]) /\ IsPut(Put1(fs[m], k, f), fs[m], k, f)
      BY <1>2, <1>6, <1>7, PutHoused
    <2> QED BY <1>8, <2>1 DEF IsPut
  <1>10. Stored(fs', dirs')
    BY <1>7, <1>8, <1>9 DEF Inv, Stored
  <1>11. /\ IsCall(d)
         /\ d.from = l /\ d.to = m /\ d.kind = call.kind /\ d.path = call.path
         /\ d.delete = call.delete /\ d.preserve = call.preserve /\ d.method = call.method
         /\ d.pc = "copy" /\ d.srcFiles = call.srcFiles /\ d.dstFiles = call.dstFiles
         /\ d.todo = call.todo \ {k} /\ d.copied = call.copied \cup {k}
         /\ d.deleted = call.deleted /\ d.kept = call.kept /\ d.blind = call.blind
         /\ d.blindTo = call.blindTo /\ d.steady = call.steady /\ d.quiet = call.quiet
    BY <1>1, <1>4, InvTypes DEF IsCall, Calls
  <1> HIDE DEF d
  <1>12. /\ Scope(d) = Scope(call) /\ (Plain(d) <=> Plain(call)) /\ (Clean(d) <=> Clean(call))
    <2>1. Scope(d) = Scope(call)
      BY <1>11 DEF Scope
    <2> QED BY <1>11, <2>1 DEF Plain, Clean
  <1>13. Ends(d) /\ Left(d) /\ NotYet(d) /\ Present(d, fs')
    BY <1>1, <1>4, <1>8, <1>11 DEF CallInv, Ends, Left, NotYet, Present
  <1>14. Looked(d)
    <2>1. Looked(call)
      BY <1>4 DEF CallInv
    <2> QED BY <1>1, <1>11, <1>12, <2>1 DEF Looked
  <1>15. Absent(d)
    <2>1. Absent(call)
      BY <1>4 DEF CallInv
    <2> QED BY <1>11, <1>12, <2>1 DEF Absent
  <1>16. SourceRead(d, fs')
    <2>1. SourceRead(call, fs)
      BY <1>4 DEF CallInv
    <2> QED BY <1>1, <1>4, <1>8, <1>11, <1>12, <2>1 DEF SourceRead
  <1>17. TargetRead(d, fs') /\ Succeeded(d, fs')
    BY <1>11 DEF TargetRead, Succeeded
  <1>18. CopiesMade(d, fs')
    <2>1. SUFFICES ASSUME Clean(call)
                   PROVE  /\ \A j \in DOMAIN call.srcFiles : Done(d, fs', j) \/ j \in d.todo
                          /\ call.kind = "tree" =>
                               DOMAIN fs'[m] \subseteq DOMAIN call.srcFiles \cup DOMAIN call.dstFiles
      BY <1>11, <1>12 DEF CopiesMade
    <2>2. /\ \A j \in DOMAIN call.srcFiles : Done(call, fs, j) \/ j \in call.todo
          /\ call.kind = "tree" =>
               DOMAIN fs[m] \subseteq DOMAIN call.srcFiles \cup DOMAIN call.dstFiles
      BY <1>1, <1>4, <2>1 DEF CallInv, CopiesMade
    <2>3. Done(d, fs', k)
      <3>1. fs'[l][k] = fs[l][k] /\ fs'[m][k] = f /\ k \in DOMAIN fs'[m]
        BY <1>4, <1>8, <1>9
      <3>2. call.preserve => ~NeedsCopy(fs'[l][k], fs'[m], k)
        BY <1>5, <1>6, <3>1, NotFarItself
      <3> QED BY <1>6, <1>11, <3>1, <3>2 DEF Done
    <2>4. ASSUME NEW j \in DOMAIN call.srcFiles, j # k, Done(call, fs, j)
          PROVE  Done(d, fs', j)
      <3>1. j \in DOMAIN fs[m]
        BY <2>4 DEF Done
      <3>2. fs'[l] = fs[l] /\ fs'[m][j] = fs[m][j] /\ j \in DOMAIN fs'[m]
        BY <1>4, <1>8, <1>9, <2>4, <3>1
      <3>3. NeedsCopy(fs[l][j], fs'[m], j) <=> NeedsCopy(fs[l][j], fs[m], j)
        BY <3>1, <3>2 DEF NeedsCopy
      <3>4. j \in d.copied <=> j \in call.copied
        BY <1>11, <2>4
      <3> QED BY <1>11, <2>4, <3>2, <3>3, <3>4 DEF Done
    <2> QED BY <1>2, <1>9, <1>11, <2>2, <2>3, <2>4
  <1>19. CallInv(d, fs')
    BY <1>13, <1>14, <1>15, <1>16, <1>17, <1>18 DEF CallInv
  <1>20. CallInv(call', fs') /\ IsCall(call')
    BY <1>3, <1>11, <1>19, CopiesOver
  <1>21. ~settled
    BY <1>1 DEF Inv, Settled, Walks
  <1> QED BY <1>3, <1>10, <1>20, <1>21 DEF Inv

LEMMA CopyFailsKeeps ==
  ASSUME Inv, NEW k \in call.todo, CopyFails(k)
  PROVE  Inv'
  <1> DEFINE m == call.to
             f == [data |-> 0, mtime |-> clock]
  <1>1. /\ call.pc = "copy" /\ Copying(k) /\ settled' = FALSE
        /\ call' = [call EXCEPT !.pc = "failed"] /\ UNCHANGED <<clock, edits>>
    BY DEF CopyFails, Copying
  <1>2. faults' \in 0..MaxFaults
    BY FaultCounts DEF CopyFails
  <1>3. m \in Locs /\ CallInv(call, fs) /\ IsCall(call) /\ f \in File
    BY InvTypes, CallFields, TransferAssumption DEF File
  <1> HIDE DEF f
  <1>4. /\ Housed(fs[m], dirs'[m]) /\ dirs' \in [Locs -> SUBSET Seq(STRING)]
        /\ \A j \in Locs \ {m} : dirs'[j] = dirs[j]
    BY <1>1, MkdirIs
  <1>5. Stored(fs', dirs')
    <2>1. CASE fs' = fs
      BY <1>4, <2>1 DEF Inv, Stored
    <2>2. CASE CanCopy(call, dirs'[m], k) /\ fs' = [fs EXCEPT ![m] = Torn(@, k)]
      <3> DEFINE T == fs[m]
                 E == dirs'[m]
      <3>1. k \in Files /\ Front(k) \in E
        BY <1>1, <2>2, CanCopyIs
      <3>2. Housed(T, E)
        BY <1>4
      <3>3. fs' = [fs EXCEPT ![m] = Put1(T, k, f)]
        BY <2>2 DEF Torn, f
      <3> HIDE DEF T, E
      <3>4. Housed(Put1(T, k, f), E)
        BY <1>3, <3>1, <3>2, PutHoused
      <3>5. fs'[m] = Put1(T, k, f) /\ DOMAIN fs' = Locs /\ \A j \in Locs \ {m} : fs'[j] = fs[j]
        BY <1>3, <3>3, InvTypes
      <3>6. Housed(fs'[m], E)
        BY <3>4, <3>5
      <3> QED BY <1>4, <3>5, <3>6 DEF Inv, Stored, E
    <2> QED BY <2>1, <2>2 DEF CopyFails
  <1>6. IsCall(call') /\ Alike(call', call) /\ call'.pc = "failed"
    BY <1>1, <1>3, PcChange DEF Phases
  <1>7. Wide(call')
    <2>1. Wide(call)
      BY <1>3 DEF Wide, CallInv, Left
    <2> QED BY <1>1, <1>6, <2>1, WideAlike
  <1>8. call'.deleted = {}
    BY <1>1, <1>3, <1>6 DEF CallInv, NotYet, Alike, Kin
  <1>9. CallInv(call', fs')
    BY <1>6, <1>7, <1>8, OverInv DEF Wide, Succeeded
  <1> QED BY <1>1, <1>2, <1>5, <1>6, <1>9, InvTypes DEF Inv

LEMMA DeleteKeeps ==
  ASSUME Inv, NEW k \in call.todo, Delete(k)
  PROVE  Inv'
  <1> DEFINE l == call.from
             m == call.to
  <1>1. call.pc = "delete" /\ UNCHANGED <<dirs, settled, clock, edits>>
    BY DEF Delete
  <1>2. faults' \in 0..MaxFaults
    BY FaultCounts DEF Delete
  <1>3. /\ l \in Locs /\ m \in Locs /\ l # m /\ CallInv(call, fs) /\ IsCall(call)
        /\ call.todo \subseteq Seq(STRING) /\ call.deleted \subseteq Seq(STRING)
        /\ call.kept \subseteq Seq(STRING) /\ k \notin DOMAIN call.srcFiles
    BY <1>1, InvTypes, CallFields DEF CallInv, Ends, Left
  <1>4. PICK d :
          /\ Further(d, [call EXCEPT !.deleted = d.deleted, !.kept = d.kept])
          /\ d.blind = call.blind /\ d.blindTo = call.blindTo
          /\ d.srcFiles = call.srcFiles /\ d.dstFiles = call.dstFiles
          /\ d.todo = call.todo \ {k} /\ d.deleted \subseteq call.deleted \cup {k}
          /\ call.kept \subseteq d.kept
          /\ call' = AfterDeletes(d)
          /\ \/ fs' = [fs EXCEPT ![m] = Without(@, k)]
             \/ fs' = fs /\ k \in d.kept
    <2>1. CASE /\ fs' = [fs EXCEPT ![m] = Without(@, k)]
               /\ call' = AfterDeletes([call EXCEPT !.todo = @ \ {k}, !.deleted = @ \cup {k}])
      <3> DEFINE d == [call EXCEPT !.todo = @ \ {k}, !.deleted = @ \cup {k}]
      <3>1. /\ Further(d, [call EXCEPT !.deleted = d.deleted, !.kept = d.kept])
            /\ d.blind = call.blind /\ d.blindTo = call.blindTo
            /\ d.srcFiles = call.srcFiles /\ d.dstFiles = call.dstFiles
            /\ d.todo = call.todo \ {k} /\ d.deleted \subseteq call.deleted \cup {k}
            /\ call.kept \subseteq d.kept
        BY <1>3 DEF IsCall, Calls, Further
      <3> HIDE DEF d
      <3> QED BY <2>1, <3>1 DEF d
    <2>2. CASE /\ fs' = fs
               /\ call' = AfterDeletes([call EXCEPT !.todo = @ \ {k}, !.kept = @ \cup {k}])
      <3> DEFINE d == [call EXCEPT !.todo = @ \ {k}, !.kept = @ \cup {k}]
      <3>1. /\ Further(d, [call EXCEPT !.deleted = d.deleted, !.kept = d.kept])
            /\ d.blind = call.blind /\ d.blindTo = call.blindTo
            /\ d.srcFiles = call.srcFiles /\ d.dstFiles = call.dstFiles
            /\ d.todo = call.todo \ {k} /\ d.deleted \subseteq call.deleted \cup {k}
            /\ call.kept \subseteq d.kept /\ k \in d.kept
        BY <1>3 DEF IsCall, Calls, Further
      <3> HIDE DEF d
      <3> QED BY <2>2, <3>1 DEF d
    <2> QED BY <2>1, <2>2 DEF Delete
  <1>5. /\ IsCall(d)
        /\ d.from = l /\ d.to = m /\ d.kind = call.kind /\ d.path = call.path
        /\ d.delete = call.delete /\ d.preserve = call.preserve /\ d.method = call.method
        /\ d.pc = "delete" /\ d.copied = call.copied
        /\ d.steady = call.steady /\ d.quiet = call.quiet
    BY <1>1, <1>3, <1>4 DEF Further, IsCall, Calls
  <1>6. /\ DOMAIN fs' = Locs /\ \A j \in Locs \ {m} : fs'[j] = fs[j]
        /\ Housed(fs'[m], dirs[m])
        /\ DOMAIN fs[m] \ {k} \subseteq DOMAIN fs'[m]
        /\ DOMAIN fs'[m] \subseteq (DOMAIN fs[m] \ {k}) \cup d.kept
        /\ DOMAIN fs'[m] \subseteq DOMAIN fs[m]
        /\ \A q \in DOMAIN fs[m] \ {k} : fs'[m][q] = fs[m][q]
    <2>0. Housed(fs[m], dirs[m]) /\ DOMAIN fs = Locs
      BY <1>3 DEF Inv, Stored
    <2>1. CASE fs' = [fs EXCEPT ![m] = Without(@, k)]
      <3>1. /\ Housed(Without(fs[m], k), dirs[m])
            /\ DOMAIN Without(fs[m], k) = DOMAIN fs[m] \ {k}
            /\ \A q \in DOMAIN fs[m] \ {k} : Without(fs[m], k)[q] = fs[m][q]
        BY <2>0, WithoutHoused
      <3>2. /\ fs'[m] = Without(fs[m], k) /\ DOMAIN fs' = Locs
            /\ \A j \in Locs \ {m} : fs'[j] = fs[j]
        BY <1>3, <2>0, <2>1
      <3> QED BY <3>1, <3>2
    <2>2. CASE fs' = fs /\ k \in d.kept
      BY <2>0, <2>2
    <2> QED BY <1>4, <2>1, <2>2
  <1>7. Stored(fs', dirs')
    BY <1>1, <1>6 DEF Inv, Stored
  <1>8. Scope(d) = Scope(call) /\ (Plain(d) <=> Plain(call)) /\ (Clean(d) <=> Clean(call))
    <2>1. Scope(d) = Scope(call)
      BY <1>5 DEF Scope
    <2> QED BY <1>4, <1>5, <2>1 DEF Plain, Clean
  <1>9. Ends(d) /\ Left(d) /\ NotYet(d) /\ Present(d, fs')
    BY <1>1, <1>3, <1>4, <1>5, <1>6 DEF CallInv, Ends, Left, NotYet, Present
  <1>10. Looked(d)
    <2>1. Looked(call)
      BY <1>3 DEF CallInv
    <2> QED BY <1>1, <1>4, <1>5, <1>8, <2>1 DEF Looked
  <1>11. Absent(d)
    <2>1. Absent(call) /\ Looked(call)
      BY <1>3 DEF CallInv
    <2>2. \A q \in Scope(call) \cap call.steady :
            Key(call.kind, q) = k => \E r \in call.blind : IsPrefix(r, q)
      BY <1>1, <1>3, <2>1 DEF Looked, Walks
    <2> QED BY <1>4, <1>5, <1>8, <2>1, <2>2 DEF Absent
  <1>12. SourceRead(d, fs')
    <2>1. SourceRead(call, fs)
      BY <1>3 DEF CallInv
    <2> QED BY <1>1, <1>3, <1>4, <1>5, <1>6, <1>8, <2>1 DEF SourceRead
  <1>13. TargetRead(d, fs') /\ Succeeded(d, fs')
    BY <1>5 DEF TargetRead, Succeeded
  <1>14. CopiesMade(d, fs')
    <2>1. SUFFICES ASSUME Clean(call)
                   PROVE  /\ \A j \in DOMAIN call.srcFiles : Done(d, fs', j)
                          /\ call.kind = "tree" =>
                               DOMAIN fs'[m] \subseteq DOMAIN call.srcFiles \cup d.todo \cup d.kept
      BY <1>4, <1>5, <1>8 DEF CopiesMade
    <2>2. /\ \A j \in DOMAIN call.srcFiles : Done(call, fs, j)
          /\ call.kind = "tree" =>
               DOMAIN fs[m] \subseteq DOMAIN call.srcFiles \cup call.todo \cup call.kept
      BY <1>1, <1>3, <2>1 DEF CallInv, CopiesMade
    <2>3. ASSUME NEW j \in DOMAIN call.srcFiles
          PROVE  Done(d, fs', j)
      <3>1. Done(call, fs, j) /\ j # k /\ j \in DOMAIN fs[m]
        BY <1>3, <2>2 DEF Done
      <3>2. fs'[l] = fs[l] /\ fs'[m][j] = fs[m][j] /\ j \in DOMAIN fs'[m]
        BY <1>3, <1>6, <3>1
      <3>3. NeedsCopy(fs[l][j], fs'[m], j) <=> NeedsCopy(fs[l][j], fs[m], j)
        BY <3>1, <3>2 DEF NeedsCopy
      <3> QED BY <1>5, <3>1, <3>2, <3>3 DEF Done
    <2> QED BY <1>4, <1>6, <2>2, <2>3
  <1>15. CallInv(d, fs')
    BY <1>9, <1>10, <1>11, <1>12, <1>13, <1>14 DEF CallInv
  <1>16. /\ CallInv(call', fs') /\ IsCall(call') /\ Alike(call', d)
         /\ call'.pc \in {"delete", "ok"}
    BY <1>4, <1>5, <1>15, DeletesOver, AfterDeletesIs
  <1>17. settled' => Settled(call', fs')
    <2>1. SUFFICES ASSUME settled PROVE Settled(call', fs')
      BY <1>1
    <2>2. /\ call.kind = "tree" /\ call.quiet /\ call.blind = {} /\ call.blindTo = {}
          /\ call.copied = {}
          /\ \A q \in DOMAIN fs[l] : q \in DOMAIN fs[m] /\ ~NeedsCopy(fs[l][q], fs[m], q)
      BY <1>1, <2>1 DEF Inv, Settled, Walks
    <2>3. Plain(call)
      BY <2>2 DEF Plain, Key
    <2>4. Scope(call) \cap DOMAIN fs[l] \subseteq DOMAIN call.srcFiles
      BY <1>1, <1>3, <2>2, <2>3 DEF CallInv, SourceRead, Walks
    <2>5. DOMAIN fs[l] \subseteq DOMAIN call.srcFiles
      <3>1. Scope(call) = Files
        BY <2>2 DEF Scope
      <3>2. DOMAIN fs[l] \subseteq Files
        BY <1>3, InvTypes
      <3> QED BY <2>4, <3>1, <3>2
    <2>6. ASSUME NEW q \in DOMAIN fs'[l]
          PROVE  q \in DOMAIN fs'[m] /\ ~NeedsCopy(fs'[l][q], fs'[m], q)
      <3>1. fs'[l] = fs[l]
        BY <1>3, <1>6
      <3>2. q # k /\ q \in DOMAIN fs[m] /\ ~NeedsCopy(fs[l][q], fs[m], q)
        BY <1>3, <2>2, <2>5, <2>6, <3>1
      <3>3. q \in DOMAIN fs'[m] /\ fs'[m][q] = fs[m][q]
        BY <1>6, <3>2
      <3> QED BY <3>1, <3>2, <3>3 DEF NeedsCopy
    <2>7. /\ call'.from = l /\ call'.to = m /\ call'.kind = "tree" /\ call'.quiet
          /\ call'.blind = {} /\ call'.blindTo = {} /\ call'.copied = {}
          /\ call'.pc # "copy"
      BY <1>4, <1>5, <1>16, <2>2 DEF Alike, Kin
    <2> QED BY <2>6, <2>7 DEF Settled
  <1> QED BY <1>1, <1>2, <1>7, <1>16, <1>17 DEF Inv

LEMMA ReplyKeeps ==
  ASSUME Inv, Reply
  PROVE  Inv'
  <1> DEFINE l == call.from
             m == call.to
             a == WholeTree(FALSE, FALSE)
             c == Began(l, m, a, "idle", {})
  <1>1. /\ call' = [c EXCEPT !.steady = {}] /\ UNCHANGED <<fs, dirs, clock, edits, faults>>
        /\ settled' = \/ settled
                      \/ /\ call.pc = "ok" /\ call.method = "sftp-diff" /\ call.kind = "tree"
                         /\ call.preserve /\ call.quiet
                         /\ call.blind = {} /\ call.blindTo = {}
    BY DEF Reply, Idle
  <1>2. l \in Locs /\ m \in Locs /\ CallInv(call, fs)
    BY InvTypes, CallFields
  <1>3. a \in Requests /\ a.kind = "tree" /\ a.path = <<>>
    BY DEF WholeTree, Requests
  <1> HIDE DEF a
  <1>4. "idle" \in Phases /\ {} \in SUBSET Seq(STRING)
    BY DEF Phases
  <1>5. Fresh(c, l, m, a, "idle", {})
    BY <1>2, <1>3, <1>4, BeganIs, InvTypes
  <1> HIDE DEF c
  <1>6. /\ IsCall(call') /\ call'.from = l /\ call'.to = m /\ call'.kind = "tree"
        /\ call'.path = <<>> /\ call'.pc = "idle" /\ DOMAIN call'.srcFiles = {}
        /\ call'.deleted = {}
    BY <1>1, <1>3, <1>5 DEF Fresh, IsCall, Calls
  <1>7. CallInv(call', fs')
    BY <1>6, OverInv DEF Ends, Absent, Succeeded
  <1>8. settled' => Settled(call', fs')
    <2>1. SUFFICES ASSUME settled'
                   PROVE  \A q \in DOMAIN fs[l] :
                            q \in DOMAIN fs[m] /\ ~NeedsCopy(fs[l][q], fs[m], q)
      BY <1>1, <1>6 DEF Settled, Walks
    <2>2. CASE settled
      BY <2>2 DEF Inv, Settled
    <2>3. CASE /\ call.pc = "ok" /\ call.method = "sftp-diff" /\ call.kind = "tree"
               /\ call.preserve /\ call.quiet
               /\ call.blind = {} /\ call.blindTo = {}
      <3>1. Plain(call) /\ Scope(call) = Files
        BY <2>3 DEF Plain, Key, Scope
      <3>2. \A q \in Scope(call) \cap DOMAIN fs[l] : Done(call, fs, q)
        BY <1>2, <2>3, <3>1 DEF CallInv, Succeeded, Clean
      <3>3. DOMAIN fs[l] \subseteq Files
        BY <1>2, InvTypes
      <3> QED BY <2>3, <3>1, <3>2, <3>3 DEF Done
    <2> QED BY <1>1, <2>1, <2>2, <2>3
  <1>9. settled' \in BOOLEAN
    BY <1>1
  <1> QED BY <1>1, <1>6, <1>7, <1>8, <1>9 DEF Inv

---------------------------------------------------------------------------
(* ssh_sync within one server.                                             *)

LEMMA SameKeeps ==
  ASSUME Inv, NEW l, NEW m, NEW del \in BOOLEAN, NEW method \in {"rsync", "cp-u"},
         NEW pc \in {"ok", "failed"}, Same(l, m, del, method, pc), AlsoDirs(m),
         NEW T, IsTree(T, Files), fs' = [fs EXCEPT ![m] = T],
         faults' \in 0..MaxFaults,
         pc = "ok" /\ method = "rsync" =>
           \A q \in DOMAIN fs[l] : q \in DOMAIN T /\ T[q] = fs[l][q],
         pc = "ok" /\ method = "rsync" /\ del => DOMAIN T \subseteq DOMAIN fs[l]
  PROVE  Inv'
  <1> DEFINE a == WholeTree(del, TRUE)
             c == Began(l, m, a, pc, {})
  <1>1. /\ call' = [c EXCEPT !.method = method] /\ settled' = FALSE
        /\ UNCHANGED <<clock, edits>> /\ <<l, m>> \in Routes
    BY DEF Same
  <1>2. l \in Locs /\ m \in Locs /\ l # m
    BY <1>1, TransferAssumption
  <1>3. a \in Requests /\ a.kind = "tree" /\ a.path = <<>> /\ a.delete = del
    BY DEF WholeTree, Requests
  <1> HIDE DEF a
  <1>4. pc \in Phases /\ {} \in SUBSET Seq(STRING)
    BY DEF Phases
  <1>5. Fresh(c, l, m, a, pc, {})
    BY <1>2, <1>3, <1>4, BeganIs, InvTypes
  <1> HIDE DEF c
  <1>6. /\ IsCall(call') /\ call'.from = l /\ call'.to = m /\ call'.kind = "tree"
        /\ call'.path = <<>> /\ call'.pc = pc /\ DOMAIN call'.srcFiles = {}
        /\ call'.deleted = {} /\ call'.copied = {} /\ call'.method = method
        /\ call'.delete = del
    BY <1>1, <1>3, <1>5 DEF Fresh, IsCall, Calls
  <1>7. fs'[m] = T /\ DOMAIN fs' = Locs /\ \A j \in Locs \ {m} : fs'[j] = fs[j]
    BY <1>2, InvTypes
  <1>8. /\ dirs'[m] = dirs[m] \cup DirsOf(T) /\ \A j \in Locs \ {m} : dirs'[j] = dirs[j]
        /\ DOMAIN dirs' = Locs /\ dirs' = [dirs EXCEPT ![m] = dirs[m] \cup DirsOf(T)]
    BY <1>2, <1>7, InvTypes DEF AlsoDirs
  <1>9. Closed(dirs[m] \cup DirsOf(T)) /\ DirsOf(T) \subseteq dirs[m] \cup DirsOf(T)
    BY <1>2, InvTypes, DirsOfClosed, UnionClosed DEF IsTree
  <1>10. Housed(fs'[m], dirs'[m])
    BY <1>7, <1>8, <1>9 DEF Housed
  <1>11. dirs' \in [Locs -> SUBSET Seq(STRING)]
    <2>1. dirs[m] \cup DirsOf(T) \in SUBSET Seq(STRING)
      BY <1>9 DEF Closed
    <2>2. dirs \in [Locs -> SUBSET Seq(STRING)]
      BY DEF Inv, Stored
    <2> QED BY <1>8, <2>1, <2>2
  <1>12. Stored(fs', dirs')
    BY <1>7, <1>8, <1>10, <1>11 DEF Inv, Stored
  <1>13. Succeeded(call', fs')
    <2>1. SUFFICES ASSUME pc = "ok", method = "rsync"
                   PROVE  /\ \A q \in DOMAIN fs'[l] : Done(call', fs', q)
                          /\ del => DOMAIN fs'[m] \subseteq DOMAIN fs'[l]
      BY <1>6 DEF Succeeded
    <2>2. fs'[l] = fs[l] /\ fs'[m] = T
      BY <1>2, <1>7
    <2>3. ASSUME NEW q \in DOMAIN fs[l]
          PROVE  Done(call', fs', q)
      <3>1. q \in DOMAIN T /\ T[q] = fs[l][q] /\ fs[l][q] \in File
        BY <1>2, <2>1, InvTypes
      <3>2. ~NeedsCopy(fs[l][q], T, q)
        BY <3>1, NotFarItself
      <3> QED BY <1>6, <2>2, <3>1, <3>2 DEF Done
    <2> QED BY <2>1, <2>2, <2>3
  <1>14. Ends(call') /\ Absent(call')
    BY <1>2, <1>6 DEF Ends, Absent
  <1>15. CallInv(call', fs')
    BY <1>6, <1>13, <1>14, OverInv
  <1> QED BY <1>1, <1>6, <1>12, <1>15, InvTypes DEF Inv

LEMMA TreeOfFiles ==
  ASSUME Inv, NEW l \in Locs
  PROVE  IsTree(fs[l], Files)
  BY InvTypes

LEMMA RsyncKeeps ==
  ASSUME Inv, NEW l, NEW m, NEW del \in BOOLEAN, Rsync(l, m, del)
  PROVE  Inv'
  <1> DEFINE T == [q \in DOMAIN fs[l] \cup (IF del THEN {} ELSE DOMAIN fs[m]) |->
                     IF q \in DOMAIN fs[l] THEN fs[l][q] ELSE fs[m][q]]
  <1>1. /\ Same(l, m, del, "rsync", "ok") /\ AlsoDirs(m) /\ faults' = faults
        /\ fs' = [fs EXCEPT ![m] = T]
    BY DEF Rsync
  <1>2. l \in Locs /\ m \in Locs
    BY <1>1, TransferAssumption DEF Same
  <1>3. IsTree(fs[l], Files) /\ IsTree(fs[m], Files)
    BY <1>2, TreeOfFiles
  <1>4. /\ IsTree(T, Files)
        /\ \A q \in DOMAIN fs[l] : q \in DOMAIN T /\ T[q] = fs[l][q]
        /\ del => DOMAIN T \subseteq DOMAIN fs[l]
    BY <1>3 DEF IsTree
  <1> HIDE DEF T
  <1>5. faults' \in 0..MaxFaults
    BY <1>1, InvTypes
  <1> QED BY <1>1, <1>4, <1>5, SameKeeps

LEMMA RsyncFailsKeeps ==
  ASSUME Inv, NEW l, NEW m, NEW del \in BOOLEAN, RsyncFails(l, m, del)
  PROVE  Inv'
  <1>1. /\ Same(l, m, del, "rsync", "failed") /\ AlsoDirs(m) /\ Fault
    BY DEF RsyncFails
  <1>2. PICK missed \in DOMAIN fs[l] :
          fs' = [fs EXCEPT ![m] = Merge(@, Without(fs[l], missed))]
    BY DEF RsyncFails
  <1> DEFINE T == Merge(fs[m], Without(fs[l], missed))
  <1>3. l \in Locs /\ m \in Locs
    BY <1>1, TransferAssumption DEF Same
  <1>4. IsTree(fs[l], Files) /\ IsTree(fs[m], Files)
    BY <1>3, TreeOfFiles
  <1>5. IsTree(Without(fs[l], missed), Files)
    BY <1>4 DEF IsTree, Without
  <1>6. IsTree(T, Files)
    BY <1>4, <1>5, MergeIsTree
  <1>7. fs' = [fs EXCEPT ![m] = T]
    BY <1>2
  <1> HIDE DEF T
  <1>8. faults' \in 0..MaxFaults
    BY <1>1, FaultCounts
  <1> QED BY <1>1, <1>6, <1>7, <1>8, SameKeeps

LEMMA CopyUpdateKeeps ==
  ASSUME Inv, NEW l, NEW m, NEW del \in BOOLEAN, CopyUpdate(l, m, del)
  PROVE  Inv'
  <1> DEFINE newer == {q \in DOMAIN fs[l] :
                         q \in DOMAIN fs[m] => fs[l][q].mtime > fs[m][q].mtime}
  <1>1. Same(l, m, del, "cp-u", "ok") /\ AlsoDirs(m) /\ (Fault \/ UNCHANGED faults)
    BY DEF CopyUpdate
  <1>2. \E W \in SUBSET newer :
          fs' = [fs EXCEPT ![m] = Merge(@, [q \in W |-> Written(fs[l][q], FALSE)])]
    BY DEF CopyUpdate
  <1>3. newer \subseteq DOMAIN fs[l]
    OBVIOUS
  <1> HIDE DEF newer
  <1>4. PICK W \in SUBSET newer :
          fs' = [fs EXCEPT ![m] = Merge(@, [q \in W |-> Written(fs[l][q], FALSE)])]
    BY <1>2
  <1> DEFINE U == [q \in W |-> Written(fs[l][q], FALSE)]
             T == Merge(fs[m], U)
  <1>5. l \in Locs /\ m \in Locs
    BY <1>1, TransferAssumption DEF Same
  <1>6. IsTree(fs[l], Files) /\ IsTree(fs[m], Files) /\ clock \in 0..MaxClock
    BY <1>5, TreeOfFiles, InvTypes
  <1>7. \A q \in W : Written(fs[l][q], FALSE) \in File
    BY <1>3, <1>6, WrittenIsFile DEF IsTree
  <1>8. IsTree(U, Files)
    BY <1>3, <1>6, <1>7 DEF IsTree
  <1>9. fs' = [fs EXCEPT ![m] = Merge(@, U)]
    BY <1>4
  <1> HIDE DEF U
  <1>10. IsTree(T, Files)
    BY <1>6, <1>8, MergeIsTree
  <1>11. fs' = [fs EXCEPT ![m] = T]
    BY <1>9
  <1> HIDE DEF T
  <1>12. faults' \in 0..MaxFaults
    BY <1>1, FaultCounts
  <1> QED BY <1>1, <1>10, <1>11, <1>12, SameKeeps

---------------------------------------------------------------------------
(* The initial states and the steps.                                       *)

LEMMA InitInv == Init => Inv
  <1> SUFFICES ASSUME Init PROVE Inv
    OBVIOUS
  <1>1. /\ \A l \in Locs : fs[l] \in Before[l]
        /\ DOMAIN fs = Locs /\ dirs = [l \in Locs |-> DirsOf(fs[l])]
        /\ call = Idle(Here, Here) /\ settled = FALSE
        /\ clock = 0 /\ edits = 0 /\ faults = 0
    BY DEF Init
  <1>2. \A l \in Locs : IsTree(fs[l], Files)
    BY <1>1, TransferAssumption
  <1>3. \A l \in Locs : Closed(DirsOf(fs[l]))
    BY <1>2, DirsOfClosed DEF IsTree
  <1>4. Stored(fs, dirs)
    <2>1. \A l \in Locs : DirsOf(fs[l]) \in SUBSET Seq(STRING)
      BY <1>3 DEF Closed
    <2>2. dirs \in [Locs -> SUBSET Seq(STRING)]
      BY <1>1, <2>1
    <2>3. \A l \in Locs : Housed(fs[l], dirs[l])
      BY <1>1, <1>2, <1>3 DEF Housed
    <2> QED BY <1>1, <2>2, <2>3 DEF Stored
  <1> DEFINE a == WholeTree(FALSE, FALSE)
             c == Began(Here, Here, a, "idle", {})
  <1>5. a \in Requests /\ a.kind = "tree" /\ a.path = <<>>
    BY DEF WholeTree, Requests
  <1>6. call = [c EXCEPT !.steady = {}]
    BY <1>1 DEF Idle
  <1> HIDE DEF a
  <1>7. Here \in Locs /\ DOMAIN fs[Here] \subseteq Files
    BY <1>2, TransferAssumption DEF IsTree
  <1>8. "idle" \in Phases /\ {} \in SUBSET Seq(STRING)
    BY DEF Phases
  <1>9. Fresh(c, Here, Here, a, "idle", {})
    BY <1>5, <1>7, <1>8, BeganIs
  <1> HIDE DEF c
  <1>10. /\ IsCall(call) /\ call.kind = "tree" /\ call.path = <<>> /\ call.pc = "idle"
         /\ DOMAIN call.srcFiles = {} /\ call.deleted = {}
    BY <1>5, <1>6, <1>9 DEF Fresh, IsCall, Calls
  <1>11. CallInv(call, fs)
    BY <1>10, OverInv DEF Ends, Absent, Succeeded
  <1>12. <<settled, clock, edits, faults>> \in
           BOOLEAN \X (0..MaxClock) \X (0..MaxEdits) \X (0..MaxFaults)
    <2>1. MaxClock \in Nat /\ MaxEdits \in Nat /\ MaxFaults \in Nat
      BY TransferAssumption
    <2>2. 0 \in 0..MaxClock /\ 0 \in 0..MaxEdits /\ 0 \in 0..MaxFaults
      BY <2>1
    <2> QED BY <1>1, <2>2
  <1> QED BY <1>1, <1>4, <1>10, <1>11, <1>12 DEF Inv

LEMMA SyncKeeps ==
  ASSUME Inv, Sync
  PROVE  Inv'
  <1>1. ASSUME NEW l \in Locs, NEW m \in Locs, NEW a \in Asked, SyncStart(l, m, a)
        PROVE  Inv'
    BY <1>1, SyncStartKeeps
  <1>2. ASSUME NEW p \in call.todo, ListSource(p) \/ ListTarget(p)
        PROVE  Inv'
    BY <1>2, ListSourceKeeps, ListTargetKeeps
  <1>3. ASSUME NEW k \in call.todo, Copy(k) \/ CopyFails(k) \/ Delete(k)
        PROVE  Inv'
    BY <1>3, CopyKeeps, CopyFailsKeeps, DeleteKeeps
  <1>4. CASE ListSourceAsFile \/ Reply
    BY <1>4, ListSourceAsFileKeeps, ReplyKeeps
  <1>5. ASSUME NEW l \in Locs, NEW m \in Locs, NEW del \in BOOLEAN,
               Rsync(l, m, del) \/ RsyncFails(l, m, del) \/ CopyUpdate(l, m, del)
        PROVE  Inv'
    BY <1>5, RsyncKeeps, RsyncFailsKeeps, CopyUpdateKeeps
  <1> QED BY <1>1, <1>2, <1>3, <1>4, <1>5 DEF Sync

LEMMA OthersKeep ==
  ASSUME Inv, Others
  PROVE  Inv'
  <1>1. ASSUME NEW l \in Locs \ {Here}, NEW m \in Locs \ {Here}, NEW p \in Files,
               NEW pres \in BOOLEAN, Transfer(l, m, p, pres)
        PROVE  Inv'
    BY <1>1, TransferKeeps
  <1>2. ASSUME NEW l \in Locs, NEW p \in Files, NEW pres \in BOOLEAN,
               Get(l, p, pres) \/ PutFile(l, p, pres)
        PROVE  Inv'
    BY <1>2, TransferKeeps DEF Get, PutFile
  <1>3. ASSUME NEW l \in Shared, NEW p \in Files,
               Unlink(l, p) \/ \E d \in Contents : Edit(l, p, d)
        PROVE  Inv'
    <2>1. l \in Locs
      BY TransferAssumption
    <2> QED BY <1>3, <2>1, UnlinkKeeps, EditKeepsInv
  <1>4. CASE Tick
    BY <1>4, TickKeeps
  <1> QED BY <1>1, <1>2, <1>3, <1>4 DEF Others

LEMMA NextInv == Inv /\ [Next]_vars => Inv'
  <1> SUFFICES ASSUME Inv, [Next]_vars PROVE Inv'
    OBVIOUS
  <1>1. CASE Sync
    BY <1>1, SyncKeeps
  <1>2. CASE Others
    BY <1>2, OthersKeep
  <1>3. CASE UNCHANGED vars
    <2>1. fs' = fs /\ dirs' = dirs /\ call' = call
      BY <1>3 DEF vars
    <2>2. settled' = settled /\ clock' = clock /\ edits' = edits /\ faults' = faults
      BY <1>3 DEF vars
    <2> QED BY <2>1, <2>2 DEF Inv
  <1> QED BY <1>1, <1>2, <1>3 DEF Next

---------------------------------------------------------------------------
\* Inv is an invariant of FileTransfer.
THEOREM TransferInvariant == Spec => []Inv
  BY InitInv, NextInv, PTL DEF Spec

\* Trees, directories and the call of ssh_sync keep their types, whatever the others
\* do: in particular every file lies in directories that exist (scp_tools.py,
\* ssh_sync's mkdir of the immediate parent).
THEOREM TransferTypeCorrect == Spec => []TypeOK
<1>1. Inv => TypeOK
  BY DEF Inv, Stored, Housed, TypeOK
<1> QED BY <1>1, TransferInvariant, PTL

\* What ssh_sync removed with delete had no counterpart at the source that was there
\* all the time, save below a directory that _sftp_list_tree could not read.
THEOREM DeletesOnlyAbsent == Spec => []DeletedIsAbsent
<1>1. Inv => DeletedIsAbsent
  BY DEF Inv, CallInv, Absent, DeletedIsAbsent
<1> QED BY <1>1, TransferInvariant, PTL

\* A sync that reports an error has removed nothing, wherever it failed: the
\* removals come after the last copy (scp_tools.py, ssh_sync).
THEOREM FailureDeletesNothing == Spec => []FailedNeverDeletes
<1>1. Inv => FailedNeverDeletes
  BY DEF Inv, CallInv, NotYet, FailedNeverDeletes
<1> QED BY <1>1, TransferInvariant, PTL

\* A sync of names that are not relative to a match, reported as a success after
\* everything was read and nothing was changed by others, leaves the source's files
\* at the destination, and with delete nothing else that could be removed.
THEOREM SuccessIsMirror == Spec => []SuccessMirrors
<1>1. Inv => SuccessMirrors
  <2> SUFFICES ASSUME Inv, call.pc = "ok", call.method # "cp-u", call.quiet,
                      call.blind = {}, call.blindTo = {},
                      \A q \in Scope(call) : Key(call.kind, q) = q
               PROVE  LET S == fs[call.from]
                          D == fs[call.to]
                      IN  /\ \A q \in Scope(call) \cap DOMAIN S :
                               /\ q \in DOMAIN D
                               /\ q \in call.copied => D[q].data = S[q].data
                               /\ ~NeedsCopy(S[q], D, q) \/ D[q].data = S[q].data
                          /\ call.delete /\ call.kind = "tree" =>
                               DOMAIN D \subseteq DOMAIN S \cup call.kept
    BY DEF SuccessMirrors
  <2>1. Clean(call)
    BY DEF Clean, Plain
  <2>2. Succeeded(call, fs)
    BY DEF Inv, CallInv
  <2> QED BY <2>1, <2>2 DEF Succeeded, Done
<1> QED BY <1>1, TransferInvariant, PTL

\* The copies of a clean sync with preserve make the next one copy nothing: what
\* was written then is not taken for changed (_needs_copy, _MTIME_TOLERANCE).
THEOREM SettledIsStable == Spec => []SettledCopiesNothing
<1>1. Inv => SettledCopiesNothing
  BY DEF Inv, Settled, Walks, Running, SettledCopiesNothing
<1> QED BY <1>1, TransferInvariant, PTL
=============================================================================
