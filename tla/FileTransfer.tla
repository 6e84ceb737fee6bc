---------------------------- MODULE FileTransfer ----------------------------
(***************************************************************************)
(* The file tools of mcp_ssh/tools/scp_tools.py: ssh_sync, which compares   *)
(* two directory trees over SFTP and copies and deletes what differs, and   *)
(* ssh_get, ssh_put and ssh_transfer, which copy one file.  A sync awaits   *)
(* the servers once per directory, copy and removal; in between, others     *)
(* change files at both ends, directories cannot be read, copies fail.      *)
(***************************************************************************)
EXTENDS Naturals, FiniteSets, SequencesExt

CONSTANTS
  Locs,        \* directories that files are copied between
  Here,        \* the one on the machine of the MCP server
  Routes,      \* pairs of them that the tools are called for
  Asked,       \* what ssh_sync is asked for: kind of source, path, delete, preserve
  Host,        \* the server each of them is on
  Shared,      \* the ones that others write to
  Files,       \* paths of the files, relative to their directory
  BaseName,    \* last name of the path of a directory that is synced
  Sized,       \* contents of files and their sizes; content 0 is a torn copy
  Pattern,     \* top-level names that the glob pattern matches
  Tolerance,   \* _MTIME_TOLERANCE
  Before,      \* trees each directory may hold at first
  MaxClock, MaxEdits, MaxFaults   \* bounds of the behaviours

Contents == DOMAIN Sized

File == [data : Contents, mtime : 0..MaxClock]

\* T maps some of the paths P to files.
IsTree(T, P) == DOMAIN T \subseteq P /\ \A p \in DOMAIN T : T[p] \in File

ASSUME TransferAssumption ==
  /\ Here \in Locs
  /\ Routes \subseteq Locs \X Locs
  /\ \A r \in Routes : r[1] # r[2]
  /\ Asked \subseteq [kind : {"tree", "glob", "file"}, path : Files \cup {<<>>},
                      delete : BOOLEAN, preserve : BOOLEAN]
  /\ \A a \in Asked : /\ a.kind = "tree" => a.path = <<>>
                      /\ a.kind = "file" => a.path \in Files
  /\ Shared \subseteq Locs
  /\ Files \subseteq Seq(STRING) \ {<<>>}
  /\ \A p, q \in Files : IsPrefix(p, q) => p = q
  /\ BaseName \in STRING
  /\ \A l \in Locs : \A T \in Before[l] : IsTree(T, Files)
  /\ {Tolerance, MaxClock, MaxEdits, MaxFaults} \subseteq Nat
  /\ 0 \in Contents
  /\ \A d \in Contents : (Sized[d] = 0) <=> (d = 0)

VARIABLES
  fs,       \* each directory's files: path -> content and mtime
  dirs,     \* directories that exist under each of them, itself being <<>>
  call,     \* the ssh_sync call that runs or ran last
  settled,  \* the last thing that happened is a clean sync with preserve
  clock, edits, faults

vars == <<fs, dirs, call, settled, clock, edits, faults>>

Empty == [p \in {} |-> 0]

\* Paths below p, one level down: files, and directories that hold files.
FilesIn(T, p) == {q \in DOMAIN T : IsPrefix(p, q) /\ Len(q) = Len(p) + 1}

DirsIn(T, p) ==
  {SubSeq(q, 1, Len(p) + 1) :
     q \in {r \in DOMAIN T : IsPrefix(p, r) /\ Len(r) > Len(p) + 1}}

DirsOf(T) == {<<>>} \cup UNION {{SubSeq(q, 1, n) : n \in 0..(Len(q) - 1)} : q \in DOMAIN T}

Put1(T, p, f) == [q \in DOMAIN T \cup {p} |-> IF q = p THEN f ELSE T[q]]

Without(T, p) == [q \in DOMAIN T \ {p} |-> T[q]]

Merge(T, U) == [q \in DOMAIN T \cup DOMAIN U |-> IF q \in DOMAIN U THEN U[q] ELSE T[q]]

Far(s, t) == s > t + Tolerance \/ t > s + Tolerance

\* Mutant of NeedsCopy: the mtimes are required to differ by the tolerance or more.
NeedsCopyAtTolerance(f, T, k) ==
  k \in DOMAIN T =>
    \/ Sized[f.data] # Sized[T[k].data]
    \/ f.mtime >= T[k].mtime + Tolerance
    \/ T[k].mtime >= f.mtime + Tolerance

\* _needs_copy of the listed file f against what is listed of the destination.
NeedsCopy(f, T, k) ==
  k \in DOMAIN T =>
    \/ Sized[f.data] # Sized[T[k].data]
    \/ Far(f.mtime, T[k].mtime)

\* The name under which the sync files the source path q: relative to the match
\* it was found under, not to the directory of the pattern.
Key(kind, q) ==
  CASE kind = "tree" -> q
    [] kind = "glob" -> IF Len(q) = 1 THEN q ELSE Tail(q)
    [] kind = "file" -> <<Last(q)>>

\* src_full of a listed name: for a single file, the path and its name again.
SourceOf(c, k) == IF c.kind = "file" THEN c.path \o k ELSE k

\* The source paths a call is about.
Scope(c) ==
  CASE c.kind = "tree" -> Files
    [] c.kind = "glob" -> {q \in Files : Head(q) \in Pattern}
    [] c.kind = "file" -> {c.path}

Running == call.pc \in {"source", "target", "copy", "delete"}

\* Between its last await and its reply a sync is not interrupted.
Replying == call.pc \in {"ok", "failed"}

Began(l, m, a, pc, todo) ==
  [from |-> l, to |-> m, kind |-> a.kind, path |-> a.path, delete |-> a.delete,
   preserve |-> a.preserve, pc |-> pc, method |-> "sftp-diff", todo |-> todo,
   srcFiles |-> Empty, dstFiles |-> Empty, copied |-> {}, deleted |-> {},
   kept |-> {}, blind |-> {}, blindTo |-> {}, steady |-> DOMAIN fs[l],
   quiet |-> TRUE]

WholeTree(del, pres) == [kind |-> "tree", path |-> <<>>, delete |-> del, preserve |-> pres]

Idle(l, m) == [Began(l, m, WholeTree(FALSE, FALSE), "idle", {}) EXCEPT !.steady = {}]

Init ==
  /\ fs \in {f \in [Locs -> UNION {Before[l] : l \in Locs}] : \A l \in Locs : f[l] \in Before[l]}
  /\ dirs = [l \in Locs |-> DirsOf(fs[l])]
  /\ call = Idle(Here, Here)
  /\ settled = FALSE
  /\ clock = 0
  /\ edits = 0
  /\ faults = 0

Fault == faults < MaxFaults /\ faults' = faults + 1

---------------------------------------------------------------------------
(* ssh_sync between two servers.  What follows the last await of a phase is *)
(* one with it: the next phase begins, or the call is ready to reply.       *)

\* The call replies when nothing is left to delete.
AfterDeletes(c) == IF c.todo = {} THEN [c EXCEPT !.pc = "ok"] ELSE c

\* With delete, what was listed at the destination and not at the source goes.
AfterCopies(c) ==
  IF c.todo # {} THEN c
  ELSE IF c.delete
       THEN AfterDeletes([c EXCEPT !.pc = "delete",
                                   !.todo = DOMAIN c.dstFiles \ DOMAIN c.srcFiles])
       ELSE [c EXCEPT !.pc = "ok"]

\* Files that need no copy are skipped without an await.
AfterTarget(c) ==
  IF c.todo # {} THEN c
  ELSE AfterCopies([c EXCEPT !.pc = "copy",
         !.todo = {k \in DOMAIN c.srcFiles : NeedsCopy(c.srcFiles[k], c.dstFiles, k)}])

AfterSource(c) ==
  IF c.todo = {} THEN [c EXCEPT !.pc = "target", !.todo = {<<>>}] ELSE c

Matched(l) == {SubSeq(q, 1, 1) : q \in {r \in DOMAIN fs[l] : Head(r) \in Pattern}}

\* The call, up to the first look at the source.  A glob without a match is
\* answered at once; other sources are taken as they are.
SyncStart(l, m, a) ==
  /\ call.pc = "idle"
  /\ <<l, m>> \in Routes
  /\ Host[l] # Host[m]
  /\ Here \notin {l, m}
  /\ LET begun(pc, todo) == Began(l, m, a, pc, todo) IN
     \/ /\ call' = CASE a.kind = "glob" /\ Matched(l) = {} -> begun("ok", {})
                     [] a.kind = "glob" /\ Matched(l) # {} -> begun("source", Matched(l))
                     [] a.kind # "glob" -> begun("source", {a.path})
        /\ UNCHANGED faults
     \/ \* get_connection or the glob raises.
        /\ Fault
        /\ call' = begun("failed", {})
  /\ settled' = (settled /\ a.kind = "tree" /\ l = call.from /\ m = call.to)
  /\ UNCHANGED <<fs, dirs, clock, edits>>

\* _walk descends into a directory before it goes on with the next entry.
Deepest(todo) == {p \in todo : \A q \in todo : Len(q) <= Len(p)}

\* What a look at p of the source adds to src_files.
SeenAt(p) ==
  LET T == fs[call.from]
      found == IF p \in DOMAIN T THEN {p} ELSE FilesIn(T, p)
  IN  [k \in {Key(call.kind, q) : q \in found} |->
         T[CHOOSE q \in found : Key(call.kind, q) = k]]

\* Mutant of ListSource: subdirectories are not descended into.
ListSourceFlat(p) ==
  /\ call.pc = "source"
  /\ p \in Deepest(call.todo)
  /\ call' = AfterSource([call EXCEPT !.todo = @ \ {p}, !.srcFiles = Merge(@, SeenAt(p))])
  /\ UNCHANGED <<fs, dirs, settled, clock, edits, faults>>

\* One match, file or directory of the source is looked at.  One that cannot be
\* (isdir, stat or readdir raises) counts as empty.
ListSource(p) ==
  /\ call.pc = "source"
  /\ p \in Deepest(call.todo)
  /\ \/ /\ call' = AfterSource([call EXCEPT
             !.todo = (@ \ {p}) \cup DirsIn(fs[call.from], p),
             !.srcFiles = Merge(@, SeenAt(p))])
        /\ UNCHANGED <<settled, faults>>
     \/ /\ Fault
        /\ call' = AfterSource([call EXCEPT !.todo = @ \ {p}, !.blind = @ \cup {p}])
        /\ settled' = FALSE
  /\ UNCHANGED <<fs, dirs, clock, edits>>

\* isdir raises and stat does not: the directory is listed as if it were a file,
\* under the last name of its own path.
ListSourceAsFile ==
  /\ call.pc = "source"
  /\ call.todo = {<<>>}
  /\ Fault
  /\ call' = AfterSource([call EXCEPT !.todo = {}, !.blind = {<<>>},
                !.srcFiles = [k \in {<<BaseName>>} |-> [data |-> 0, mtime |-> clock]]])
  /\ settled' = FALSE
  /\ UNCHANGED <<fs, dirs, clock, edits>>

\* One directory of the destination is read, or cannot be.
ListTarget(p) ==
  /\ call.pc = "target"
  /\ p \in Deepest(call.todo)
  /\ LET T == fs[call.to] IN
     \/ /\ call' = AfterTarget([call EXCEPT
             !.todo = (@ \ {p}) \cup DirsIn(T, p),
             !.dstFiles = Merge(@, [q \in FilesIn(T, p) |-> T[q]])])
        /\ UNCHANGED <<settled, faults>>
     \/ /\ Fault
        /\ call' = AfterTarget([call EXCEPT !.todo = @ \ {p}, !.blindTo = @ \cup {p}])
        /\ settled' = FALSE
  /\ UNCHANGED <<fs, dirs, clock, edits>>

\* mkdir of the immediate parent, whose own parent has to exist already.
WithParent(D, k) ==
  LET parent == Front(k) IN
  IF parent = <<>> \/ Front(parent) \in D THEN D \cup {parent} ELSE D

\* asyncssh.scp of one file needs the source file and the directory.
CanCopy(c, D, k) ==
  /\ SourceOf(c, k) \in DOMAIN fs[c.from]
  /\ Front(k) \in D

Written(f, pres) == [data |-> f.data, mtime |-> IF pres THEN f.mtime ELSE clock]

Copying(k) ==
  /\ call.pc = "copy"
  /\ k \in call.todo
  /\ dirs' = [dirs EXCEPT ![call.to] = WithParent(@, k)]

\* A file that differs is copied as it is by now.
Copy(k) ==
  /\ Copying(k)
  /\ CanCopy(call, dirs'[call.to], k)
  /\ fs' = [fs EXCEPT ![call.to] =
              Put1(@, k, Written(fs[call.from][SourceOf(call, k)], call.preserve))]
  /\ call' = AfterCopies([call EXCEPT !.todo = @ \ {k}, !.copied = @ \cup {k}])
  /\ UNCHANGED <<settled, clock, edits, faults>>

\* A copy that a fault ends may leave a torn file.
Torn(T, k) == Put1(T, k, [data |-> 0, mtime |-> clock])

\* Mutants of CopyFails: the sync goes on with the next file; the files to be
\* deleted are deleted all the same.
CopyFailsSilently(k) ==
  /\ Copying(k)
  /\ ~CanCopy(call, dirs'[call.to], k)
  /\ call' = AfterCopies([call EXCEPT !.todo = @ \ {k}])
  /\ UNCHANGED <<fs, settled, clock, edits, faults>>

CopyFailsAfterDelete(k) ==
  /\ Copying(k)
  /\ ~CanCopy(call, dirs'[call.to], k)
  /\ LET gone == IF call.delete THEN DOMAIN call.dstFiles \ DOMAIN call.srcFiles ELSE {} IN
     /\ fs' = [fs EXCEPT ![call.to] = [q \in DOMAIN @ \ gone |-> @[q]]]
     /\ call' = [call EXCEPT !.pc = "failed", !.deleted = gone]
  /\ UNCHANGED <<settled, clock, edits, faults>>

\* scp raises: the sync is over, with the copies it has made.
CopyFails(k) ==
  /\ Copying(k)
  /\ \/ /\ ~CanCopy(call, dirs'[call.to], k)
        /\ UNCHANGED <<fs, faults>>
     \/ /\ CanCopy(call, dirs'[call.to], k)
        /\ Fault
        /\ fs' \in {fs, [fs EXCEPT ![call.to] = Torn(@, k)]}
  /\ call' = [call EXCEPT !.pc = "failed"]
  /\ settled' = FALSE
  /\ UNCHANGED <<clock, edits>>

\* A removal that fails is passed over.
Delete(k) ==
  /\ call.pc = "delete"
  /\ k \in call.todo
  /\ \/ /\ k \in DOMAIN fs[call.to]
        /\ fs' = [fs EXCEPT ![call.to] = Without(@, k)]
        /\ call' = AfterDeletes([call EXCEPT !.todo = @ \ {k}, !.deleted = @ \cup {k}])
        /\ UNCHANGED faults
     \/ /\ IF k \in DOMAIN fs[call.to] THEN Fault ELSE UNCHANGED faults
        /\ call' = AfterDeletes([call EXCEPT !.todo = @ \ {k}, !.kept = @ \cup {k}])
        /\ UNCHANGED fs
  /\ UNCHANGED <<dirs, settled, clock, edits>>

\* The reply is written; a clean sync with preserve is remembered.
Reply ==
  /\ Replying
  /\ call' = Idle(call.from, call.to)
  /\ settled' =
       \/ settled
       \/ /\ call.pc = "ok" /\ call.method = "sftp-diff" /\ call.kind = "tree"
          /\ call.preserve /\ call.quiet
          /\ call.blind = {} /\ call.blindTo = {}
  /\ UNCHANGED <<fs, dirs, clock, edits, faults>>

---------------------------------------------------------------------------
(* ssh_sync within one server: rsync, or cp -ru when there is none         *)
(* (external), on the whole tree.                                          *)

Same(l, m, del, method, pc) ==
  /\ call.pc = "idle"
  /\ <<l, m>> \in Routes
  /\ Host[l] = Host[m]
  /\ Here \notin {l, m}
  /\ call' = [Began(l, m, WholeTree(del, TRUE), pc, {}) EXCEPT !.method = method]
  /\ settled' = FALSE
  /\ UNCHANGED <<clock, edits>>

AlsoDirs(m) == dirs' = [dirs EXCEPT ![m] = @ \cup DirsOf(fs'[m])]

\* rsync -az [--delete]: times are kept; exit status 0 is the whole tree.
Rsync(l, m, del) ==
  /\ Same(l, m, del, "rsync", "ok")
  /\ fs' = [fs EXCEPT ![m] =
       [q \in DOMAIN fs[l] \cup (IF del THEN {} ELSE DOMAIN @) |->
          IF q \in DOMAIN fs[l] THEN fs[l][q] ELSE @[q]]]
  /\ AlsoDirs(m)
  /\ UNCHANGED faults

\* Another exit status raises OSError; a file has been missed.
RsyncFails(l, m, del) ==
  /\ Same(l, m, del, "rsync", "failed")
  /\ \E missed \in DOMAIN fs[l] :
       fs' = [fs EXCEPT ![m] = Merge(@, Without(fs[l], missed))]
  /\ AlsoDirs(m)
  /\ Fault

\* cp -ru ... || true: older files are overwritten, delete is not looked at, and
\* that a file was missed is not noticed.
CopyUpdate(l, m, del) ==
  /\ Same(l, m, del, "cp-u", "ok")
  /\ LET newer == {q \in DOMAIN fs[l] : q \in DOMAIN fs[m] => fs[l][q].mtime > fs[m][q].mtime}
         take(W) == fs' = [fs EXCEPT ![m] = Merge(@, [q \in W |-> Written(fs[l][q], FALSE)])]
     IN  \/ take(newer) /\ UNCHANGED faults
         \/ (\E missed \in newer : take(newer \ {missed})) /\ Fault
  /\ AlsoDirs(m)

---------------------------------------------------------------------------
(* What else happens to the files, also while a sync runs.                 *)

Touched(l) == [call EXCEPT !.quiet = @ /\ (Running => l \notin {call.from, call.to})]

Budget == ~Replying /\ edits < MaxEdits /\ edits' = edits + 1

\* ssh_transfer of one file between two servers, or by cp within one; a failure
\* is reported, and may leave a torn file.
Transfer(l, m, p, pres) ==
  /\ <<l, m>> \in Routes
  /\ Budget
  /\ p \in DOMAIN fs[l]
  /\ Front(p) \in dirs[m]
  /\ \/ /\ fs' = [fs EXCEPT ![m] = Put1(@, p, Written(fs[l][p], pres /\ Host[l] # Host[m]))]
        /\ UNCHANGED faults
     \/ /\ Fault
        /\ fs' = [fs EXCEPT ![m] = Torn(@, p)]
  /\ call' = Touched(m)
  /\ settled' = FALSE
  /\ UNCHANGED <<dirs, clock>>

\* ssh_get and ssh_put are the same with the own machine at one end.
Get(l, p, pres) == Transfer(l, Here, p, pres)

PutFile(m, p, pres) == Transfer(Here, m, p, pres)

\* Somebody on the server writes or removes a file.
Edit(l, p, d) ==
  /\ Budget
  /\ d # 0
  /\ p \in DOMAIN fs[l] => fs[l][p].data # d
  /\ fs' = [fs EXCEPT ![l] = Put1(@, p, [data |-> d, mtime |-> clock])]
  /\ dirs' = [dirs EXCEPT ![l] = @ \cup DirsOf(fs'[l])]
  /\ call' = Touched(l)
  /\ settled' = FALSE
  /\ UNCHANGED <<clock, faults>>

Unlink(l, p) ==
  /\ Budget
  /\ p \in DOMAIN fs[l]
  /\ fs' = [fs EXCEPT ![l] = Without(@, p)]
  /\ call' = [Touched(l) EXCEPT !.steady = IF l = call.from THEN @ \ {p} ELSE @]
  /\ settled' = FALSE
  /\ UNCHANGED <<dirs, clock, faults>>

Tick ==
  /\ ~Replying
  /\ clock < MaxClock
  /\ clock' = clock + 1
  /\ UNCHANGED <<fs, dirs, call, settled, edits, faults>>

---------------------------------------------------------------------------
Sync ==
  \/ \E l, m \in Locs, a \in Asked : SyncStart(l, m, a)
  \/ \E p \in call.todo : ListSource(p) \/ ListTarget(p)
  \/ ListSourceAsFile
  \/ \E k \in call.todo : Copy(k) \/ CopyFails(k) \/ Delete(k)
  \/ Reply
  \/ \E l, m \in Locs, del \in BOOLEAN :
       Rsync(l, m, del) \/ RsyncFails(l, m, del) \/ CopyUpdate(l, m, del)

Others ==
  \/ \E l, m \in Locs \ {Here}, p \in Files, pres \in BOOLEAN : Transfer(l, m, p, pres)
  \/ \E l \in Locs, p \in Files, pres \in BOOLEAN : Get(l, p, pres) \/ PutFile(l, p, pres)
  \/ \E l \in Shared, p \in Files :
       Unlink(l, p) \/ \E d \in Contents : Edit(l, p, d)
  \/ Tick

Next == Sync \/ Others

Spec == Init /\ [][Next]_vars
---------------------------------------------------------------------------
Calls(src, dst) ==
  [from : Locs, to : Locs, kind : {"tree", "glob", "file"}, path : Files \cup {<<>>},
   delete : BOOLEAN, preserve : BOOLEAN, method : {"sftp-diff", "rsync", "cp-u"},
   pc : {"idle", "source", "target", "copy", "delete", "ok", "failed"},
   todo : SUBSET Seq(STRING), srcFiles : {src}, dstFiles : {dst},
   copied : SUBSET Seq(STRING), deleted : SUBSET Seq(STRING),
   kept : SUBSET Seq(STRING), blind : SUBSET Seq(STRING),
   blindTo : SUBSET Seq(STRING), steady : SUBSET Files, quiet : BOOLEAN]

IsCall(c) ==
  /\ c \in Calls(c.srcFiles, c.dstFiles)
  /\ IsTree(c.srcFiles, Seq(STRING))
  /\ IsTree(c.dstFiles, Seq(STRING))

\* Type invariant: the trees and the state of the call.
TypeOK ==
  /\ DOMAIN fs = Locs /\ dirs \in [Locs -> SUBSET Seq(STRING)]
  /\ \A l \in Locs : IsTree(fs[l], Files) /\ DirsOf(fs[l]) \subseteq dirs[l]
  /\ IsCall(call)
  /\ <<settled, clock, edits, faults>> \in
       BOOLEAN \X (0..MaxClock) \X (0..MaxEdits) \X (0..MaxFaults)

\* ssh_sync with delete removes nothing that the source has: a file it removed
\* had no counterpart at the source at some moment of the call, unless it lies
\* under a directory that could not be read (_sftp_list_tree takes such a
\* directory for an empty one).  A counterpart of a file found under a match of a
\* glob is looked for under the name relative to that match.
DeletedIsAbsent ==
  \A k \in call.deleted :
    \A q \in Scope(call) \cap call.steady :
      Key(call.kind, q) = k => \E d \in call.blind : IsPrefix(d, q)

\* A sync between two servers that reports an error has removed nothing: a copy
\* that fails ends it before the first removal, also when it is the last one.
FailedNeverDeletes ==
  call.pc = "failed" => call.deleted = {}

\* When ssh_sync reports success, nothing was changed and every directory could be
\* read, the destination mirrors the source: every file is there, with the content
\* of the source or with its size and about its mtime, and with delete nothing
\* else is, save what could not be removed.  Not so for cp -u, which hides its
\* failures, nor for names relative to a matched directory, nor for one file.
SuccessMirrors ==
  /\ call.pc = "ok"
  /\ call.method # "cp-u"
  /\ call.quiet
  /\ call.blind = {} /\ call.blindTo = {}
  /\ \A q \in Scope(call) : Key(call.kind, q) = q
  =>
  LET S == fs[call.from]
      D == fs[call.to]
  IN  /\ \A q \in Scope(call) \cap DOMAIN S :
           /\ q \in DOMAIN D
           /\ q \in call.copied => D[q].data = S[q].data
           /\ ~NeedsCopy(S[q], D, q) \/ D[q].data = S[q].data
      /\ call.delete /\ call.kind = "tree" => DOMAIN D \subseteq DOMAIN S \cup call.kept

\* A sync that is repeated after a clean one with preserve, when nothing has been
\* changed in between, copies nothing.
SettledCopiesNothing ==
  settled /\ Running => call.copied = {}
=============================================================================
