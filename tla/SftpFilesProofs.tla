--------------------------- MODULE SftpFilesProofs ---------------------------
(***************************************************************************)
(* Proofs about SftpFiles, for every number of requests, workers, folders  *)
(* and files and every size of the chunks: files are whole or as they were *)
(* before, each transfer is reported once and none is forgotten, and the   *)
(* listing shown has all that was reported as done once all is quiet.      *)
(*                                                                         *)
(* First what a pass of the engine does to one transfer and its file, then *)
(* what it does to all the requests and transfers of a worker, and then    *)
(* the workers, the session and the browser together.  A loop of the code  *)
(* is a recursive function over its rounds: each is shown to exist, and    *)
(* what holds before the first round and is kept by each holds at the end. *)
(***************************************************************************)
EXTENDS SftpFiles, FiniteSetTheorems, SequenceTheorems, WellFoundedInduction, TLAPS

-----------------------------------------------------------------------------
(* One transfer *)

Ask == [at : Nat, length : Nat]

File ==
  [id : Nat, item : Nat, begun : Nat, late : BOOLEAN, before : {Absent, Old}, is : Seq(Int),
   removable : BOOLEAN, upload : BOOLEAN, overwrite : BOOLEAN]

TransferRecord ==
  [id : Nat, dir : Dirs, upload : BOOLEAN, overwrite : BOOLEAN,
   prepared : BOOLEAN, items : Nat, open : BOOLEAN, source : Nat, begun : Nat, before : {Absent, Old},
   copy : Seq(Int), late : BOOLEAN, requested : Nat, pending : Seq(Ask), eof : BOOLEAN, restart : BOOLEAN,
   error : BOOLEAN, cancelled : BOOLEAN, made : SUBSET File]

\* What is asked for goes on where the copy ends, without a gap.
Chained(copied, pending, requested) ==
  /\ \A i \in 1 .. Len(pending) - 1 : pending[i + 1].at = pending[i].at + pending[i].length
  /\ pending = <<>> => requested = copied
  /\ pending # <<>> => /\ pending[1].at = copied
                       /\ requested = pending[Len(pending)].at + pending[Len(pending)].length

InOrder(copy) == copy = Blocks(0, Len(copy))

\* A download that goes on has asked for what follows its copy, and one at the
\* end of the file has all of it.
DownloadFits(t) ==
  /\ t.late => t.eof
  /\ t.begun <= t.source
  /\ ~t.late => InOrder(t.copy)
  /\ ~t.eof /\ ~t.restart /\ ~Stopping(t) => Chained(Len(t.copy), t.pending, t.requested)
  /\ t.eof /\ ~t.late => /\ t.source <= Len(t.copy)
                         /\ \A i \in 1 .. Len(t.pending) : t.source <= t.pending[i].at

\* An upload without an error has written what comes before what it has asked.
UploadFits(t) ==
  /\ ~t.late /\ t.source = t.begun
  /\ ~t.overwrite => t.before = Absent
  /\ ~t.error => InOrder(t.copy) /\ Chained(Len(t.copy), t.pending, t.requested)
  /\ t.eof => t.source <= t.requested

ItemFits(t) == IF t.upload THEN UploadFits(t) ELSE DownloadFits(t)

TransferFits(t) ==
  /\ t \in TransferRecord
  /\ ~t.open => t.pending = <<>>
  /\ Len(t.pending) <= MaxInFlight
  /\ t.open => t.prepared /\ t.items > 0 /\ ItemFits(t)

\* A file that is not what it should be, without having grown under the copy.
Half(f) == ~f.late /\ ~Whole(f)

\* Such a file is the one from before, or one that was to be replaced, or that
\* there was no connection to remove, or that the server did not remove.
FileFits(f) == Half(f) => f.is = f.before \/ (f.upload /\ (f.overwrite \/ ~f.removable))

-----------------------------------------------------------------------------
(* One engine *)

\* The requests of an inbox and the reports that have a number of their own.
Counts(request) == request.type # "cancel"
IsReport(r) == r.type \in {"listed", "done", "transferred"}

RequestRecord == [type : RequestType, id : Nat, dir : Dirs \cup {None}, overwrite : BOOLEAN]
ReportRecord ==
  {r \in [type : ReportType, id : Nat, dir : Dirs \cup {None}, good : BOOLEAN, seen : Nat \cup {NoEntries}] :
   r.type = "listed" /\ r.good => r.seen \in Nat}

\* A request for nothing but a listing of the home has a folder.
RequestFits(request) ==
  /\ request \in RequestRecord
  /\ request.type \notin {"list", "cancel"} => request.dir # None

Unique(queue) == \A i, j \in 1 .. Len(queue) : queue[i].id = queue[j].id => i = j

Ids(queue) == {queue[i].id : i \in 1 .. Len(queue)}

\* The transfers an engine has or has reported.
Reported(out) == {out[i].id : i \in {k \in 1 .. Len(out) : out[k].type = "transferred"}}
Numbers(e) == Ids(e.transfers) \cup Ids(e.out)
Moved(e) == Ids(e.transfers) \cup Reported(e.out)

EngineRecord ==
  [transfers : Seq(TransferRecord), out : Seq(ReportRecord), changes : [Dirs -> Nat], due : [Dirs -> Nat],
   files : SUBSET File]

\* What was reported as done was done.
DueFits(e) == \A d \in Dirs : e.due[d] <= e.changes[d]

\* A transfer keeps no half file when it is to be reported as done.
EngineFits(e) ==
  /\ e \in EngineRecord
  /\ DueFits(e)
  /\ \A i \in 1 .. Len(e.transfers) : TransferFits(e.transfers[i]) /\ e.transfers[i].made = {}
  /\ \A i \in 1 .. Len(e.out) : IsReport(e.out[i])
  /\ Unique(e.transfers) /\ Unique(e.out) /\ Ids(e.transfers) \cap Ids(e.out) = {}
  /\ \A f \in e.files : FileFits(f)
  /\ \A f \in e.files : Half(f) =>
       /\ \A i \in 1 .. Len(e.transfers) : e.transfers[i].id = f.id => Stopping(e.transfers[i])
       /\ \A i \in 1 .. Len(e.out) :
            e.out[i].id = f.id /\ e.out[i].type = "transferred" => ~e.out[i].good

\* A report that brings a listing of its folder with it.
Changed(r, d, ops, ups) ==
  \/ r.type = "done" /\ [id |-> r.id, dir |-> d] \in ops
  \/ r.type = "transferred" /\ r.good /\ r.id \in ups

\* What was reported as done and is not in a listing is in a report behind it.
ListsFit(queue, now, ops, ups) ==
  \A i \in 1 .. Len(queue) : queue[i].type = "listed" /\ queue[i].good =>
    /\ queue[i].dir \in Dirs
    /\ \/ queue[i].seen >= now[queue[i].dir]
       \/ \E j \in 1 .. Len(queue) : i < j /\ Changed(queue[j], queue[i].dir, ops, ups)

-----------------------------------------------------------------------------
(* The inductive invariant *)

Uploading == {t.id : t \in Uploads}

WorkerRecord ==
  [kind : {"main", "mosh", "side"}, phase : {"up", "closed", "over"}, stop : BOOLEAN,
   inbox : Seq(RequestRecord), transfers : Seq(TransferRecord)]

WorkerFits(w) ==
  /\ \A i \in 1 .. Len(w.inbox) : RequestFits(w.inbox[i])
  /\ w.phase # "up" => w.transfers = <<>>
  /\ \A i \in 1 .. Len(w.transfers) : TransferFits(w.transfers[i]) /\ w.transfers[i].made = {}

Typed ==
  /\ scope \in Scope
  /\ nextId \in Nat /\ nextId >= 1 /\ listId \in Nat /\ listId < nextId
  /\ path \in Dirs \cup {None} /\ shown \in Nat /\ loading \in BOOLEAN /\ cut \in BOOLEAN
  /\ operations \subseteq [id : Nat, dir : Dirs]
  /\ transfers \subseteq [id : Nat, upload : BOOLEAN]
  /\ workers \in Seq(WorkerRecord) /\ \A w \in DOMAIN workers : WorkerFits(workers[w])
  /\ posted \in Seq(ReportRecord)
  /\ changes \in [Dirs -> Nat] /\ due \in [Dirs -> Nat] /\ \A d \in Dirs : due[d] <= changes[d]
  /\ files \subseteq File
  /\ told \in [1 .. scope.requests -> Nat] /\ finished \in [1 .. scope.requests -> Nat]

\* One main worker at a time, and one side worker, until the session has heard of
\* the end of the last.
SessionFits ==
  /\ main \in {0} \cup DOMAIN workers /\ side \in {0} \cup DOMAIN workers
  /\ sshUp \in BOOLEAN /\ sideUp \in BOOLEAN
  /\ main # 0 => workers[main].kind # "side"
  /\ side # 0 => workers[side].kind = "side"
  /\ \A w \in DOMAIN workers : workers[w].phase # "over" =>
       /\ workers[w].kind # "side" => w = main
       /\ workers[w].kind = "side" /\ ~workers[w].stop => w = side
  /\ (\E i \in DOMAIN posted : posted[i].type = "finished") <=>
       main # 0 /\ workers[main].phase = "over"
  /\ \A i, j \in DOMAIN posted : posted[i].type = "finished" /\ posted[j].type = "finished" => i = j
  /\ (\E i \in DOMAIN posted : posted[i].type = "sideFinished") =>
       side = 0 \/ workers[side].phase = "over"

\* Where a number can be.
InboxIds(w) == {workers[w].inbox[i].id : i \in {k \in DOMAIN workers[w].inbox : Counts(workers[w].inbox[k])}}
EngineIds(w) == Ids(workers[w].transfers)
PostedIds == {posted[i].id : i \in {k \in DOMAIN posted : IsReport(posted[k])}}

\* A number is in one place at a time.
Apart ==
  /\ \A w \in DOMAIN workers :
       /\ \A i, j \in DOMAIN workers[w].inbox :
            Counts(workers[w].inbox[i]) /\ Counts(workers[w].inbox[j])
              /\ workers[w].inbox[i].id = workers[w].inbox[j].id => i = j
       /\ Unique(workers[w].transfers)
       /\ \A id \in InboxIds(w) \cup EngineIds(w) : id < nextId /\ id > 0
  /\ \A v, w \in DOMAIN workers :
       /\ v # w => InboxIds(v) \cap InboxIds(w) = {} /\ EngineIds(v) \cap EngineIds(w) = {}
       /\ InboxIds(v) \cap EngineIds(w) = {}
  /\ \A i, j \in DOMAIN posted :
       IsReport(posted[i]) /\ IsReport(posted[j]) /\ posted[i].id = posted[j].id => i = j
  /\ \A id \in PostedIds : id < nextId /\ id > 0 /\ \A w \in DOMAIN workers : id \notin InboxIds(w) \cup EngineIds(w)

\* A transfer that was reported is nowhere any more.
ToldFits ==
  /\ \A id \in DOMAIN told : told[id] > 0 =>
       told[id] = 1 /\ id < nextId /\ \A w \in DOMAIN workers : id \notin InboxIds(w) \cup EngineIds(w)
  /\ \A i \in DOMAIN posted : posted[i].type = "transferred" =>
       posted[i].id \in DOMAIN told /\ told[posted[i].id] = 1
  /\ \A w \in DOMAIN workers :
       /\ EngineIds(w) \subseteq DOMAIN told
       /\ \A i \in DOMAIN workers[w].inbox :
            IsTransfer(workers[w].inbox[i]) => workers[w].inbox[i].id \in DOMAIN told

\* The browser has a transfer once, until it has told of its end.
ShownFits ==
  /\ \A t, u \in transfers : t.id = u.id => t = u
  /\ \A t \in transfers : t.id < nextId /\ t.id \in DOMAIN finished /\ finished[t.id] = 0
  /\ \A id \in DOMAIN finished : finished[id] <= 1 /\ (id >= nextId => finished[id] = 0)
  /\ \A o \in operations : o.id < nextId

\* A half file is that of a transfer which will not be, or was not, reported as
\* done.
HalvesFit ==
  /\ \A f \in files : FileFits(f)
  /\ \A f \in files : f.id < nextId /\ \A w \in DOMAIN workers : f.id \notin InboxIds(w)
  /\ \A f \in files : Half(f) =>
       /\ f.id \notin right
       /\ \A w \in DOMAIN workers : \A i \in DOMAIN workers[w].transfers :
            workers[w].transfers[i].id = f.id => Stopping(workers[w].transfers[i])
  /\ \A id \in right : id \in DOMAIN told /\ told[id] = 1

Ending == \E i \in DOMAIN posted : posted[i].type = "finished"

\* The browser knows of what its workers still do.
Known(w) ==
  /\ \A i \in DOMAIN workers[w].inbox :
       /\ workers[w].inbox[i].type = "operate" =>
            [id |-> workers[w].inbox[i].id, dir |-> workers[w].inbox[i].dir] \in operations
       /\ workers[w].inbox[i].type = "upload" => workers[w].inbox[i].id \in Uploading
  /\ \A i \in DOMAIN workers[w].transfers :
       workers[w].transfers[i].upload => workers[w].transfers[i].id \in Uploading

\* What was reported as done and is not in the listing shown is in a report on its
\* way, unless one comes that takes its place.
FreshFits ==
  ~Ending =>
    /\ \A w \in DOMAIN workers : workers[w].phase # "over" /\ ~workers[w].stop => Known(w)
    /\ path # None /\ ~cut /\ ~loading =>
         \/ shown >= due[path]
         \/ \E i \in DOMAIN posted : Changed(posted[i], path, operations, Uploading)
    /\ \A i \in DOMAIN posted : posted[i].type = "listed" /\ posted[i].good /\ posted[i].id = listId =>
         /\ posted[i].dir \in Dirs
         /\ \/ posted[i].seen >= due[posted[i].dir]
            \/ \E j \in DOMAIN posted : i < j /\ Changed(posted[j], posted[i].dir, operations, Uploading)

IInv ==
  /\ Typed /\ SessionFits
  /\ Apart /\ ToldFits /\ ShownFits
  /\ HalvesFit
  /\ NoneIsForgotten
  /\ FreshFits

-----------------------------------------------------------------------------
(* Rounds and sequences *)

\* Some of a set of numbers is the smallest.
LEMMA Least ==
  ASSUME NEW T \in SUBSET Nat, T # {}
  PROVE  \E x \in T : \A y \in T : x <= y
<1> DEFINE R == {p \in Nat \X Nat : p[1] < p[2]}
<1>1. IsWellFoundedOn(R, Nat)
  BY NatLessThanWellFounded DEF OpToRel
<1>2. PICK x \in T : \A y \in T : ~ (<<y, x>> \in R)
  BY <1>1, WFMin
<1>3. SUFFICES ASSUME NEW y \in T PROVE x <= y
  OBVIOUS
<1>4. x \in Nat /\ y \in Nat /\ ~ (<<y, x>> \in R)
  BY <1>2
<1> QED
  BY <1>4

\* What holds at the start and is kept by each round holds at the end.
LEMMA Upward ==
  ASSUME NEW n \in Nat, NEW P, 0 \in P, \A k \in 1 .. n : k - 1 \in P => k \in P
  PROVE  \A k \in 0 .. n : k \in P
<1> DEFINE T == {k \in 0 .. n : k \notin P}
<1> SUFFICES ASSUME T # {}
             PROVE  FALSE
  OBVIOUS
<1>1. PICK k \in T : \A j \in T : k <= j
  <2>1. T \in SUBSET Nat
    OBVIOUS
  <2> HIDE DEF T
  <2> QED
    BY <2>1, Least
<1>2. k # 0 /\ k \in 1 .. n /\ k - 1 \in 0 .. n /\ ~(k <= k - 1)
  OBVIOUS
<1>3. k - 1 \notin T
  BY <1>1, <1>2
<1> QED
  BY <1>2, <1>3

\* A part of a file.
LEMMA BlocksIs ==
  ASSUME NEW from \in Nat, NEW n \in Nat
  PROVE  /\ Blocks(from, n) \in Seq(Int) /\ Len(Blocks(from, n)) = n
         /\ \A i \in 1 .. n : Blocks(from, n)[i] = from + i
BY DEF Blocks

\* A sequence behind another.
LEMMA JoinIs ==
  ASSUME NEW S, NEW s \in Seq(S), NEW u \in Seq(S)
  PROVE  /\ s \o u \in Seq(S) /\ Len(s \o u) = Len(s) + Len(u)
         /\ Len(s) \in Nat /\ Len(u) \in Nat
         /\ \A i \in 1 .. Len(s) : (s \o u)[i] = s[i]
         /\ \A i \in 1 .. Len(u) : Len(s) + i \in 1 .. Len(s) + Len(u) /\ (s \o u)[Len(s) + i] = u[i]
         /\ \A i \in 1 .. Len(s) + Len(u) :
              i \in 1 .. Len(s) \/ (i - Len(s) \in 1 .. Len(u) /\ (s \o u)[i] = u[i - Len(s)])
<1> DEFINE more == s \o u
<1>1. /\ more \in Seq(S) /\ Len(more) = Len(s) + Len(u)
      /\ \A i \in 1 .. Len(s) + Len(u) : more[i] = IF i <= Len(s) THEN s[i] ELSE u[i - Len(s)]
  BY ConcatProperties
<1>2. Len(s) \in Nat /\ Len(u) \in Nat
  OBVIOUS
<1> HIDE DEF more
<1>3. ASSUME NEW i \in 1 .. Len(s)
      PROVE  more[i] = s[i]
  BY <1>1, <1>2
<1>4. ASSUME NEW i \in 1 .. Len(u)
      PROVE  Len(s) + i \in 1 .. Len(s) + Len(u) /\ more[Len(s) + i] = u[i]
  <2>1. Len(s) + i \in 1 .. Len(s) + Len(u) /\ ~(Len(s) + i <= Len(s)) /\ (Len(s) + i) - Len(s) = i
    BY <1>2
  <2> QED
    BY <1>1, <2>1
<1>5. ASSUME NEW i \in 1 .. Len(s) + Len(u), i \notin 1 .. Len(s)
      PROVE  i - Len(s) \in 1 .. Len(u) /\ more[i] = u[i - Len(s)]
  <2>1. i - Len(s) \in 1 .. Len(u) /\ ~(i <= Len(s))
    BY <1>2, <1>5
  <2> QED
    BY <1>1, <2>1
<1> QED
  BY <1>1, <1>2, <1>3, <1>4, <1>5 DEF more

\* The part of a file that follows.
LEMMA BlocksJoin ==
  ASSUME NEW copy \in Seq(Int), InOrder(copy), NEW n \in Nat
  PROVE  LET more == copy \o Blocks(Len(copy), n)
         IN  more \in Seq(Int) /\ Len(more) = Len(copy) + n /\ InOrder(more)
<1> DEFINE m == Len(copy)
           next == Blocks(m, n)
           more == copy \o next
           all == Blocks(0, m + n)
<1>1. m \in Nat
  OBVIOUS
<1>2. next \in Seq(Int) /\ Len(next) = n /\ \A i \in 1 .. n : next[i] = m + i
  BY <1>1, BlocksIs
<1>3. \A i \in 1 .. m : copy[i] = i
  <2>1. copy = Blocks(0, m)
    BY DEF InOrder
  <2>2. \A i \in 1 .. m : Blocks(0, m)[i] = 0 + i
    BY <1>1, BlocksIs
  <2> HIDE DEF m
  <2> QED
    BY <2>1, <2>2
<1>4. all \in Seq(Int) /\ Len(all) = m + n /\ \A i \in 1 .. m + n : all[i] = 0 + i
  <2>1. m + n \in Nat
    BY <1>1
  <2> HIDE DEF m
  <2> QED
    BY <2>1, BlocksIs
<1> HIDE DEF next, all
<1>5. /\ more \in Seq(Int) /\ Len(more) = m + n
      /\ \A i \in 1 .. m : more[i] = copy[i]
      /\ \A i \in 1 .. m + n : i \in 1 .. m \/ (i - m \in 1 .. n /\ more[i] = next[i - m])
  <2>1. /\ more \in Seq(Int) /\ Len(more) = m + Len(next)
        /\ \A i \in 1 .. m : more[i] = copy[i]
        /\ \A i \in 1 .. m + Len(next) :
             i \in 1 .. m \/ (i - m \in 1 .. Len(next) /\ more[i] = next[i - m])
    <3>1. copy \in Seq(Int) /\ next \in Seq(Int)
      BY <1>2
    <3> QED
      BY ONLY <3>1, JoinIs
  <2> HIDE DEF more, m
  <2> QED
    BY <1>2, <2>1
<1> HIDE DEF more, m
<1>6. ASSUME NEW i \in 1 .. m + n
      PROVE  more[i] = all[i]
  <2>1. all[i] = i
    BY <1>4
  <2>2. CASE i \in 1 .. m
    BY <1>3, <1>5, <2>1, <2>2
  <2>3. CASE i - m \in 1 .. n /\ more[i] = next[i - m]
    <3>1. more[i] = m + (i - m)
      BY <1>2, <2>3
    <3> QED
      BY <1>1, <2>1, <3>1
  <2> QED
    BY <1>5, <2>2, <2>3
<1>7. more = all
  BY <1>4, <1>5, <1>6, SeqEqual
<1>8. InOrder(more)
  BY <1>5, <1>7 DEF InOrder, all
<1> QED
  BY <1>5, <1>8 DEF more, next, m

\* The first answer came.
LEMMA ChainTail ==
  ASSUME NEW copied \in Nat, NEW requested \in Nat, NEW pending \in Seq(Ask), pending # <<>>,
         Chained(copied, pending, requested)
  PROVE  Chained(copied + pending[1].length, Tail(pending), requested)
<1> DEFINE rest == Tail(pending)
<1>1. /\ rest \in Seq(Ask) /\ Len(pending) \in Nat /\ Len(pending) >= 1
      /\ Len(rest) = Len(pending) - 1
      /\ \A i \in 1 .. Len(pending) - 1 : rest[i] = pending[i + 1]
  OBVIOUS
<1> HIDE DEF rest
<1>2. /\ \A i \in 1 .. Len(pending) - 1 : pending[i + 1].at = pending[i].at + pending[i].length
      /\ pending[1].at = copied
      /\ requested = pending[Len(pending)].at + pending[Len(pending)].length
  BY DEF Chained
<1>3. ASSUME NEW i \in 1 .. Len(rest) - 1
      PROVE  rest[i + 1].at = rest[i].at + rest[i].length
  <2>1. /\ i \in 1 .. Len(pending) - 1 /\ i + 1 \in 1 .. Len(pending) - 1
    BY <1>1
  <2>2. rest[i] = pending[i + 1] /\ rest[i + 1] = pending[(i + 1) + 1]
    BY <1>1, <2>1
  <2>3. pending[(i + 1) + 1].at = pending[i + 1].at + pending[i + 1].length
    BY <1>2, <2>1
  <2> QED
    BY <2>2, <2>3
<1>4. ASSUME rest = <<>>
      PROVE  Chained(copied + pending[1].length, rest, requested)
  <2>1. Len(pending) = 1
    <3>1. Len(rest) = 0
      BY <1>4
    <3> QED
      BY <1>1, <3>1
  <2> QED
    BY <1>2, <1>3, <1>4, <2>1 DEF Chained
<1>5. ASSUME rest # <<>>
      PROVE  Chained(copied + pending[1].length, rest, requested)
  <2>1. Len(rest) # 0 /\ Len(pending) > 1
    BY <1>1, <1>5
  <2>2. rest[1] = pending[2] /\ rest[Len(rest)] = pending[Len(pending)]
    BY <1>1, <2>1
  <2>3. pending[2].at = pending[1].at + pending[1].length
    BY <1>2, <2>1, <1>1
  <2>4. requested = rest[Len(rest)].at + rest[Len(rest)].length /\ rest[1].at = copied + pending[1].length
    BY <1>2, <2>2, <2>3
  <2> QED
    BY <1>3, <1>5, <2>4 DEF Chained
<1> QED
  BY <1>4, <1>5 DEF rest

\* One more is asked for.
LEMMA ChainAppend ==
  ASSUME NEW copied \in Nat, NEW requested \in Nat, NEW pending \in Seq(Ask),
         Chained(copied, pending, requested), NEW ask \in Ask, ask.at = requested
  PROVE  Chained(copied, Append(pending, ask), requested + ask.length)
<1> DEFINE more == Append(pending, ask)
           n == Len(pending)
<1>1. /\ n \in Nat /\ more \in Seq(Ask) /\ Len(more) = n + 1 /\ more[n + 1] = ask
      /\ \A i \in 1 .. n : more[i] = pending[i]
  OBVIOUS
<1> HIDE DEF more
<1>2. /\ \A i \in 1 .. n - 1 : pending[i + 1].at = pending[i].at + pending[i].length
      /\ n = 0 => requested = copied
      /\ n # 0 => pending[1].at = copied /\ requested = pending[n].at + pending[n].length
  BY DEF Chained
<1>3. more # <<>> /\ more[1].at = copied
      /\ requested + ask.length = more[Len(more)].at + more[Len(more)].length
  <2>1. CASE n = 0
    <3>1. more[1] = ask /\ Len(more) = 1 /\ requested = copied
      BY <1>1, <1>2, <2>1
    <3> QED
      BY <1>1, <3>1
  <2>2. CASE n # 0
    BY <1>1, <1>2, <2>2
  <2> QED
    BY <2>1, <2>2
<1>4. ASSUME NEW i \in 1 .. Len(more) - 1
      PROVE  more[i + 1].at = more[i].at + more[i].length
  <2>1. CASE i = n
    BY <1>1, <1>2, <2>1
  <2>2. CASE i # n
    <3>1. i \in 1 .. n - 1 /\ i \in 1 .. n /\ i + 1 \in 1 .. n
      BY <1>1, <2>2
    <3> QED
      BY <1>1, <1>2, <3>1
  <2> QED
    BY <2>1, <2>2
<1>5. Chained(copied, more, requested + ask.length)
  BY <1>3, <1>4 DEF Chained
<1> QED
  BY <1>5 DEF more

-----------------------------------------------------------------------------
(* A download *)

\* What a round leaves alone.
SameItem(u, t) ==
  /\ u.id = t.id /\ u.dir = t.dir /\ u.upload = t.upload /\ u.overwrite = t.overwrite
  /\ u.prepared = t.prepared /\ u.items = t.items /\ u.open = t.open
  /\ u.source = t.source /\ u.begun = t.begun /\ u.before = t.before /\ u.late = t.late
  /\ u.cancelled = t.cancelled /\ u.made = t.made
  /\ t.error => u.error

\* What a round leaves of a transfer, in its fields.
Becomes(u, t, copy, requested, pending, eof, restart, error) ==
  /\ u \in TransferRecord /\ SameItem(u, t)
  /\ u.copy = copy /\ u.requested = requested /\ u.pending = pending
  /\ u.eof = eof /\ u.restart = restart /\ u.error = error

\* The answer to the first request is taken or dropped.
LEMMA TakeReadIs ==
  ASSUME NEW t \in TransferRecord, t.pending # <<>>,
         NEW n \in {Failed} \cup Nat, NEW fails \in BOOLEAN
  PROVE  LET u == TakeRead(t, n, fails)
             ask == t.pending[1]
             rest == Tail(t.pending)
         IN  \/ /\ Dropped(t)
                /\ Becomes(u, t, t.copy, t.requested, rest, t.eof, t.restart, t.error)
             \/ Becomes(u, t, t.copy, t.requested, rest, t.eof, t.restart, TRUE)
             \/ /\ ~Dropped(t) /\ n = 0
                /\ Becomes(u, t, t.copy, t.requested, rest, TRUE, t.restart, t.error)
             \/ /\ ~Dropped(t) /\ n \in Nat \ {0}
                /\ Becomes(u, t, t.copy \o Blocks(ask.at, n), t.requested, rest, t.eof,
                           n < ask.length, t.error)
<1> DEFINE ask == t.pending[1]
           rest == Tail(t.pending)
           u == TakeRead(t, n, fails)
           v == [t EXCEPT !.pending = rest]
           Result ==
             \/ /\ Dropped(t)
                /\ Becomes(u, t, t.copy, t.requested, rest, t.eof, t.restart, t.error)
             \/ Becomes(u, t, t.copy, t.requested, rest, t.eof, t.restart, TRUE)
             \/ /\ ~Dropped(t) /\ n = 0
                /\ Becomes(u, t, t.copy, t.requested, rest, TRUE, t.restart, t.error)
             \/ /\ ~Dropped(t) /\ n \in Nat \ {0}
                /\ Becomes(u, t, t.copy \o Blocks(ask.at, n), t.requested, rest, t.eof,
                           n < ask.length, t.error)
<1> SUFFICES Result
  OBVIOUS
<1>1. t.pending \in Seq(Ask) /\ t.copy \in Seq(Int) /\ t.requested \in Nat
  BY DEF TransferRecord
<1>2. rest \in Seq(Ask) /\ ask \in Ask /\ Head(t.pending) = ask
  BY <1>1
<1>3. ask.at \in Nat /\ ask.length \in Nat
  BY <1>2 DEF Ask
<1> HIDE DEF rest, ask
<1>4. Becomes(v, t, t.copy, t.requested, rest, t.eof, t.restart, t.error)
  BY <1>2 DEF TransferRecord, SameItem, Becomes
<1>5. u = IF Dropped(t) THEN v
          ELSE IF n = Failed \/ (n > 0 /\ fails) THEN [v EXCEPT !.error = TRUE]
          ELSE IF n = 0 THEN [v EXCEPT !.eof = TRUE]
          ELSE [v EXCEPT !.copy = v.copy \o Blocks(ask.at, n), !.restart = n < ask.length]
  BY <1>2 DEF TakeRead, IsShort, rest
<1> HIDE DEF u, v
<1>6. v \in TransferRecord
  BY <1>4 DEF Becomes
<1>7. CASE Dropped(t)
  BY <1>4, <1>5, <1>7
<1>8. CASE ~Dropped(t) /\ (n = Failed \/ (n > 0 /\ fails))
  <2>1. u = [v EXCEPT !.error = TRUE]
    BY <1>5, <1>8
  <2>2. Becomes(u, t, t.copy, t.requested, rest, t.eof, t.restart, TRUE)
    BY <1>4, <1>6, <2>1 DEF TransferRecord, SameItem, Becomes
  <2> QED
    BY <2>2
<1>9. CASE ~Dropped(t) /\ ~(n = Failed \/ (n > 0 /\ fails)) /\ n = 0
  <2>1. u = [v EXCEPT !.eof = TRUE]
    BY <1>5, <1>9
  <2>2. Becomes(u, t, t.copy, t.requested, rest, TRUE, t.restart, t.error)
    BY <1>4, <1>6, <2>1 DEF TransferRecord, SameItem, Becomes
  <2> QED
    BY <1>9, <2>2
<1>10. CASE ~Dropped(t) /\ ~(n = Failed \/ (n > 0 /\ fails)) /\ n # 0
  <2> DEFINE copy == t.copy \o Blocks(ask.at, n)
             short == n < ask.length
  <2>1. u = [v EXCEPT !.copy = copy, !.restart = short]
    BY <1>4, <1>5, <1>10 DEF Becomes
  <2>2. n \in Nat \ {0}
    BY <1>10
  <2>3. copy \in Seq(Int) /\ short \in BOOLEAN
    <3>1. Blocks(ask.at, n) \in Seq(Int)
      BY <1>3, <2>2, BlocksIs
    <3> QED
      BY <1>1, <1>3, <2>2, <3>1, ConcatProperties
  <2> HIDE DEF copy, short
  <2>4. Becomes(u, t, copy, t.requested, rest, t.eof, short, t.error)
    BY <1>4, <1>6, <2>1, <2>3 DEF TransferRecord, SameItem, Becomes
  <2> QED
    BY <1>10, <2>2, <2>4 DEF copy, short
<1> QED
  BY <1>7, <1>8, <1>9, <1>10

\* What is asked for is behind the copy.
LEMMA ChainUp ==
  ASSUME NEW copied \in Nat, NEW requested \in Nat, NEW pending \in Seq(Ask),
         Chained(copied, pending, requested)
  PROVE  \A i \in 1 .. Len(pending) : copied <= pending[i].at
<1> DEFINE n == Len(pending)
           P == {k \in Nat : k = 0 \/ (k \in 1 .. n /\ copied <= pending[k].at)}
<1>1. n \in Nat /\ \A i \in 1 .. n : pending[i].at \in Nat /\ pending[i].length \in Nat
  <2>1. \A i \in 1 .. n : pending[i] \in Ask
    OBVIOUS
  <2> QED
    BY SMTT(60), <2>1 DEF Ask
<1>2. /\ \A i \in 1 .. n - 1 : pending[i + 1].at = pending[i].at + pending[i].length
      /\ n # 0 => pending[1].at = copied
  BY DEF Chained
<1> HIDE DEF n
<1>3. ASSUME NEW k \in 1 .. n, k - 1 \in P
      PROVE  k \in P
  <2>1. CASE k = 1
    BY <1>1, <1>2, <2>1
  <2>2. CASE k # 1
    <3> DEFINE j == k - 1
    <3>1. j \in 1 .. n - 1 /\ j \in 1 .. n /\ j + 1 = k
      BY <1>1, <2>2
    <3>2. copied <= pending[j].at
      BY <1>3, <3>1
    <3>3. pending[k].at = pending[j].at + pending[j].length
      BY <1>2, <3>1
    <3> HIDE DEF j
    <3>4. copied <= pending[k].at
      BY <1>1, <3>1, <3>2, <3>3
    <3> QED
      BY <3>4
  <2> QED
    BY <2>1, <2>2
<1>4. 0 \in P
  OBVIOUS
<1>5. \A k \in 0 .. n : k \in P
  <2> HIDE DEF P
  <2> QED
    BY ONLY <1>1, <1>3, <1>4, Upward
<1> QED
  BY <1>1, <1>5 DEF n

LEMMA TakeReadFits ==
  ASSUME NEW t \in TransferRecord, DownloadFits(t), t.pending # <<>>,
         NEW n \in ReadAnswers(t, t.pending[1]), NEW fails \in BOOLEAN
  PROVE  LET u == TakeRead(t, n, fails)
         IN  u \in TransferRecord /\ SameItem(u, t) /\ u.pending = Tail(t.pending) /\ DownloadFits(u)
<1> DEFINE ask == t.pending[1]
           rest == Tail(t.pending)
           u == TakeRead(t, n, fails)
           copied == Len(t.copy)
<1>1. /\ t.pending \in Seq(Ask) /\ t.copy \in Seq(Int) /\ t.requested \in Nat /\ copied \in Nat
      /\ t.source \in Nat /\ t.begun \in Nat /\ t.eof \in BOOLEAN /\ t.late \in BOOLEAN
  BY DEF TransferRecord
<1>2. /\ rest \in Seq(Ask) /\ Len(rest) = Len(t.pending) - 1 /\ 1 \in 1 .. Len(t.pending)
      /\ \A i \in 1 .. Len(rest) : i + 1 \in 1 .. Len(t.pending) /\ rest[i] = t.pending[i + 1]
  BY <1>1
<1>3. ask.at \in Nat /\ ask.length \in Nat
  <2>1. ask \in Ask
    BY <1>1, <1>2
  <2> QED
    BY <2>1 DEF Ask
<1>4. /\ n \in {Failed} \cup Nat
      /\ n \in Nat \ {0} => n <= ask.length /\ ask.at < t.source
      /\ n = 0 => t.source <= ask.at
  <2>1. n = Failed \/ (IF ask.at < t.source
                       THEN n \in 1 .. (IF ask.length < t.source - ask.at THEN ask.length ELSE t.source - ask.at)
                       ELSE n = 0)
    BY DEF ReadAnswers
  <2> HIDE DEF ask
  <2> QED
    BY <1>1, <1>3, <2>1 DEF Failed
<1>5. \/ /\ Dropped(t)
         /\ Becomes(u, t, t.copy, t.requested, rest, t.eof, t.restart, t.error)
      \/ Becomes(u, t, t.copy, t.requested, rest, t.eof, t.restart, TRUE)
      \/ /\ ~Dropped(t) /\ n = 0
         /\ Becomes(u, t, t.copy, t.requested, rest, TRUE, t.restart, t.error)
      \/ /\ ~Dropped(t) /\ n \in Nat \ {0}
         /\ Becomes(u, t, t.copy \o Blocks(ask.at, n), t.requested, rest, t.eof,
                    n < ask.length, t.error)
  BY <1>4, TakeReadIs
<1> DEFINE Result == u \in TransferRecord /\ SameItem(u, t) /\ u.pending = rest /\ DownloadFits(u)
<1> SUFFICES Result
  OBVIOUS
<1> HIDE DEF u
<1>6. /\ t.late => t.eof
      /\ t.begun <= t.source
      /\ ~t.late => InOrder(t.copy)
      /\ ~t.eof /\ ~t.restart /\ ~Stopping(t) => Chained(copied, t.pending, t.requested)
      /\ t.eof /\ ~t.late =>
           t.source <= copied /\ \A i \in 1 .. Len(t.pending) : t.source <= t.pending[i].at
  BY DEF DownloadFits
<1>7. t.eof /\ ~t.late => \A i \in 1 .. Len(rest) : t.source <= rest[i].at
  BY <1>2, <1>6
<1> HIDE DEF rest
<1>8. ASSUME Becomes(u, t, t.copy, t.requested, rest, t.eof, t.restart, u.error),
             t.eof \/ t.restart \/ Stopping(u)
      PROVE  Result
  <2>1. DownloadFits(u)
    BY <1>6, <1>7, <1>8 DEF DownloadFits, Becomes, SameItem
  <2> QED
    BY <1>8, <2>1 DEF Becomes
<1>9. CASE Dropped(t) /\ Becomes(u, t, t.copy, t.requested, rest, t.eof, t.restart, t.error)
  BY <1>8, <1>9 DEF Becomes, Dropped, Stopping, SameItem
<1>10. CASE Becomes(u, t, t.copy, t.requested, rest, t.eof, t.restart, TRUE)
  BY <1>8, <1>10 DEF Becomes, Stopping
<1>11. CASE ~Dropped(t) /\ n = 0 /\ Becomes(u, t, t.copy, t.requested, rest, TRUE, t.restart, t.error)
  <2>1. ~t.late => t.source <= copied /\ \A i \in 1 .. Len(rest) : t.source <= rest[i].at
    <3>1. CASE t.eof
      BY <1>6, <1>7, <3>1
    <3>2. CASE ~t.eof
      <4>1. Chained(copied, t.pending, t.requested)
        BY <1>6, <1>11, <3>2 DEF Dropped
      <4>2. t.source <= copied
        BY <1>4, <1>11, <4>1 DEF Chained
      <4>3. \A i \in 1 .. Len(t.pending) : copied <= t.pending[i].at
        BY <1>1, <4>1, ChainUp
      <4>4. ASSUME NEW i \in 1 .. Len(rest)
            PROVE  t.source <= rest[i].at
        <5>1. rest[i] \in Ask /\ copied <= rest[i].at
          BY <1>2, <4>3
        <5>2. rest[i].at \in Nat
          BY <5>1 DEF Ask
        <5> QED
          BY <1>1, <4>2, <5>1, <5>2
      <4> QED
        BY <4>2, <4>4
    <3> QED
      BY <3>1, <3>2
  <2>2. DownloadFits(u)
    BY <1>6, <1>11, <2>1 DEF DownloadFits, Becomes, SameItem
  <2> QED
    BY <1>11, <2>2 DEF Becomes
<1>12. CASE /\ ~Dropped(t) /\ n \in Nat \ {0}
            /\ Becomes(u, t, t.copy \o Blocks(ask.at, n), t.requested, rest, t.eof, n < ask.length, t.error)
  <2> DEFINE more == t.copy \o Blocks(ask.at, n)
  <2>1. ASSUME ~t.late
        PROVE  /\ ~t.eof /\ Chained(copied, t.pending, t.requested)
               /\ InOrder(more) /\ Len(more) = copied + n
    <3>1. ~t.eof
      <4> SUFFICES ASSUME t.eof
                   PROVE  FALSE
        OBVIOUS
      <4>1. t.source <= ask.at /\ ask.at < t.source
        BY <1>2, <1>4, <1>6, <1>12, <2>1
      <4> HIDE DEF ask
      <4> QED
        BY <1>1, <1>3, <4>1
    <3>2. Chained(copied, t.pending, t.requested)
      BY <1>6, <1>12, <3>1 DEF Dropped
    <3>3. ask.at = copied
      BY <3>2 DEF Chained
    <3> QED
      BY <1>1, <1>6, <1>12, <2>1, <3>1, <3>2, <3>3, BlocksJoin
  <2>2. ASSUME ~t.late, ~(n < ask.length)
        PROVE  Chained(Len(more), rest, t.requested)
    <3>1. n = ask.length
      BY <1>3, <1>4, <1>12, <2>2
    <3>2. Chained(copied + ask.length, rest, t.requested)
      BY <1>1, <2>1, <2>2, ChainTail DEF rest
    <3> QED
      BY <2>1, <2>2, <3>1, <3>2
  <2> HIDE DEF more
  <2>3. Becomes(u, t, more, t.requested, rest, t.eof, n < ask.length, t.error)
    BY <1>12 DEF more
  <2>4. /\ u.late = t.late /\ u.begun = t.begun /\ u.source = t.source /\ u.copy = more
        /\ u.eof = t.eof /\ u.restart = (n < ask.length) /\ u.pending = rest /\ u.requested = t.requested
    BY <2>3 DEF Becomes, SameItem
  <2>5. DownloadFits(u)
    BY <1>6, <2>1, <2>2, <2>4 DEF DownloadFits
  <2> QED
    BY <2>3, <2>4, <2>5 DEF Becomes
<1> QED
  BY <1>5, <1>9, <1>10, <1>11, <1>12

\* The rounds of the answers to reads.
LEMMA ReadRounds ==
  ASSUME NEW start, NEW answers, Len(answers) \in Nat, NEW fails
  PROVE  \E run : /\ TakeReads(start, answers, fails) = run[Len(answers)]
                  /\ run[0] = start
                  /\ \A k \in 1 .. Len(answers) : run[k] = TakeRead(run[k - 1], answers[k], fails)
<1> DEFINE n == Len(answers)
           Round(e, k) == TakeRead(e, answers[k], fails)
           At(run, k) == IF k = 0 THEN start ELSE Round(run[k - 1], k)
           Runs(run, m) == run = [k \in 0 .. m |-> At(run, k)]
           all == CHOOSE run : Runs(run, n)
           P == {m \in Nat : \E run : Runs(run, m)}
<1>1. TakeReads(start, answers, fails) = all[n]
  BY DEF Repeated, TakeReads
<1>2. n \in Nat
  OBVIOUS
<1> HIDE DEF Round, n
<1>3. 0 \in P
  <2>1. Runs([k \in 0 .. 0 |-> start], 0)
    OBVIOUS
  <2> QED
    BY <2>1
<1>4. ASSUME NEW m \in 1 .. n, m - 1 \in P
      PROVE  m \in P
  <2>1. PICK run : Runs(run, m - 1)
    BY <1>4
  <2> DEFINE more == [k \in 0 .. m |-> IF k = m THEN Round(run[m - 1], m) ELSE run[k]]
  <2>2. /\ more = [k \in 0 .. m |-> more[k]]
        /\ more[m] = Round(run[m - 1], m) /\ \A k \in 0 .. m - 1 : more[k] = run[k]
    OBVIOUS
  <2>3. \A k \in 0 .. m - 1 : run[k] = At(run, k)
    BY <2>1
  <2> HIDE DEF more
  <2>4. ASSUME NEW k \in 0 .. m
        PROVE  more[k] = At(more, k)
    <3>1. k # 0 => more[k - 1] = run[k - 1]
      <4>1. k # 0 => k - 1 \in 0 .. m - 1
        OBVIOUS
      <4> QED
        BY <2>2, <4>1
    <3>2. CASE k = m
      BY <2>2, <3>1, <3>2
    <3>3. CASE k \in 0 .. m - 1
      BY <2>2, <2>3, <3>1, <3>3
    <3> QED
      BY <3>2, <3>3
  <2>5. Runs(more, m)
    BY <2>2, <2>4
  <2> HIDE DEF Runs
  <2> QED
    BY <2>5
<1>5. n \in P
  <2> HIDE DEF P
  <2> QED
    BY ONLY <1>2, <1>3, <1>4, Upward
<1>6. Runs(all, n)
  <2> HIDE DEF Runs
  <2> QED
    BY <1>5
<1> HIDE DEF all
<1>7. all[0] = start /\ \A k \in 1 .. n : all[k] = Round(all[k - 1], k)
  <2>1. \A k \in 0 .. n : all[k] = At(all, k)
    BY <1>6
  <2> QED
    BY <1>2, <2>1
<1> QED
  BY <1>1, <1>7 DEF Round, n

\* The queue of requests after some of its answers.
LEMMA QueueTail ==
  ASSUME NEW S, NEW pending \in Seq(S), NEW k \in Nat, NEW now \in Seq(S), now # <<>>,
         Len(now) = Len(pending) - k, \A i \in 1 .. Len(now) : now[i] = pending[k + i]
  PROVE  /\ Tail(now) \in Seq(S) /\ Len(Tail(now)) = Len(pending) - (k + 1)
         /\ \A i \in 1 .. Len(Tail(now)) : Tail(now)[i] = pending[(k + 1) + i]
         /\ now[1] = pending[k + 1] /\ Len(now) \in Nat /\ Len(pending) \in Nat
<1> DEFINE rest == Tail(now)
<1>1. /\ rest \in Seq(S) /\ Len(now) \in Nat /\ Len(pending) \in Nat /\ Len(now) > 0
      /\ Len(rest) = Len(now) - 1 /\ \A i \in 1 .. Len(rest) : rest[i] = now[i + 1]
  OBVIOUS
<1> HIDE DEF rest
<1>2. Len(rest) = Len(pending) - (k + 1)
  BY <1>1
<1>3. ASSUME NEW i \in 1 .. Len(rest)
      PROVE  rest[i] = pending[(k + 1) + i]
  <2>1. i + 1 \in 1 .. Len(now) /\ k + (i + 1) = (k + 1) + i
    BY <1>1
  <2>2. rest[i] = now[i + 1]
    BY <1>1
  <2>3. now[i + 1] = pending[k + (i + 1)]
    BY <2>1
  <2> QED
    BY <2>1, <2>2, <2>3
<1>4. now[1] = pending[k + 1]
  <2>1. 1 \in 1 .. Len(now)
    BY <1>1
  <2> QED
    BY <2>1
<1> QED
  BY <1>1, <1>2, <1>3, <1>4 DEF rest

\* The answers to the first requests in flight.
AnswersOf(t, answers) ==
  /\ Len(answers) \in Nat /\ Len(answers) <= Len(t.pending)
  /\ \A k \in 1 .. Len(answers) :
       answers[k] \in IF t.upload THEN WriteAnswers(t.pending[k]) ELSE ReadAnswers(t, t.pending[k])

LEMMA ReadsFit ==
  ASSUME NEW t \in TransferRecord, DownloadFits(t), ~t.upload,
         NEW answers, AnswersOf(t, answers), NEW fails \in BOOLEAN
  PROVE  LET u == TakeReads(t, answers, fails)
         IN  u \in TransferRecord /\ SameItem(u, t) /\ DownloadFits(u) /\ Len(u.pending) <= Len(t.pending)
<1> DEFINE n == Len(answers)
           end == TakeReads(t, answers, fails)
<1>1. /\ n \in Nat /\ n <= Len(t.pending)
      /\ \A k \in 1 .. n : answers[k] \in ReadAnswers(t, t.pending[k])
      /\ t.pending \in Seq(Ask) /\ Len(t.pending) \in Nat
  BY DEF AnswersOf, TransferRecord
<1> HIDE DEF n
<1>2. PICK run : end = run[n] /\ run[0] = t /\ \A k \in 1 .. n : run[k] = TakeRead(run[k - 1], answers[k], fails)
  BY <1>1, ReadRounds DEF n
<1> HIDE DEF end
<1> DEFINE Good(u, k) ==
             /\ u \in TransferRecord /\ SameItem(u, t) /\ DownloadFits(u)
             /\ Len(u.pending) = Len(t.pending) - k
             /\ \A i \in 1 .. Len(u.pending) : u.pending[i] = t.pending[k + i]
           P == {k \in Nat : Good(run[k], k)}
<1>3. 0 \in P
  <2>1. SameItem(t, t)
    BY DEF SameItem
  <2>2. Len(t.pending) = Len(t.pending) - 0 /\ \A i \in 1 .. Len(t.pending) : t.pending[i] = t.pending[0 + i]
    BY <1>1
  <2>3. Good(t, 0)
    BY <2>1, <2>2
  <2> HIDE DEF Good
  <2> QED
    BY <1>2, <2>3
<1>4. ASSUME NEW k \in 1 .. n, k - 1 \in P
      PROVE  k \in P
  <2> DEFINE u == run[k - 1]
             v == TakeRead(u, answers[k], fails)
  <2>1. /\ u \in TransferRecord /\ SameItem(u, t) /\ DownloadFits(u)
        /\ Len(u.pending) = Len(t.pending) - (k - 1)
        /\ \A i \in 1 .. Len(u.pending) : u.pending[i] = t.pending[(k - 1) + i]
    BY <1>4
  <2> HIDE DEF u
  <2>2. u.pending \in Seq(Ask) /\ u.pending # <<>> /\ t.pending \in Seq(Ask) /\ k - 1 \in Nat /\ (k - 1) + 1 = k
    BY <1>1, <2>1 DEF TransferRecord
  <2>3. /\ Len(Tail(u.pending)) = Len(t.pending) - k
        /\ \A i \in 1 .. Len(Tail(u.pending)) : Tail(u.pending)[i] = t.pending[k + i]
        /\ u.pending[1] = t.pending[k]
    <3> DEFINE j == k - 1
    <3>1. j \in Nat /\ j + 1 = k
      BY <2>2
    <3>2. Len(u.pending) = Len(t.pending) - j /\ \A i \in 1 .. Len(u.pending) : u.pending[i] = t.pending[j + i]
      BY <2>1
    <3> HIDE DEF j
    <3>3. /\ Len(Tail(u.pending)) = Len(t.pending) - (j + 1)
          /\ \A i \in 1 .. Len(Tail(u.pending)) : Tail(u.pending)[i] = t.pending[(j + 1) + i]
          /\ u.pending[1] = t.pending[j + 1]
      BY SMTT(60), <1>1, <2>2, <3>1, <3>2, QueueTail
    <3> QED
      BY <3>1, <3>3
  <2>4. answers[k] \in ReadAnswers(u, u.pending[1])
    BY <1>1, <2>1, <2>3 DEF SameItem, ReadAnswers
  <2>5. v \in TransferRecord /\ SameItem(v, u) /\ v.pending = Tail(u.pending) /\ DownloadFits(v)
    BY <2>1, <2>2, <2>4, TakeReadFits
  <2>6. run[k] = v
    BY <1>2 DEF u
  <2> HIDE DEF v
  <2>7. SameItem(v, t)
    BY <2>1, <2>5 DEF SameItem
  <2>8. Good(v, k)
    BY <2>3, <2>5, <2>7
  <2> HIDE DEF Good
  <2> QED
    BY <2>6, <2>8
<1>5. \A k \in 0 .. n : k \in P
  <2> HIDE DEF P
  <2> QED
    BY ONLY <1>1, <1>3, <1>4, Upward
<1>6. Good(run[n], n)
  BY <1>1, <1>5
<1>7. /\ end \in TransferRecord /\ SameItem(end, t) /\ DownloadFits(end)
      /\ Len(end.pending) = Len(t.pending) - n
  BY <1>2, <1>6
<1>8. end \in TransferRecord /\ SameItem(end, t) /\ DownloadFits(end) /\ Len(end.pending) <= Len(t.pending)
  BY <1>1, <1>7
<1> QED
  BY <1>8 DEF end, n

\* Products of the size of a chunk.
LEMMA Chunks ==
  ASSUME NEW c \in Nat, NEW i \in Nat
  PROVE  /\ i * c \in Nat /\ (i + 1) * c = i * c + c
         /\ i > 0 => (i - 1) * c \in Nat /\ (i - 1) * c + c = i * c
OBVIOUS

\* All that may be in flight is asked for.
LEMMA ChainMore ==
  ASSUME NEW copied \in Nat, NEW requested \in Nat, NEW pending \in Seq(Ask),
         NEW more \in Nat, NEW c \in Nat
  PROVE  LET new == [i \in 1 .. more |-> [at |-> requested + (i - 1) * c, length |-> c]]
         IN  /\ pending \o new \in Seq(Ask) /\ Len(pending \o new) = Len(pending) + more
             /\ requested + more * c \in Nat
             /\ Chained(copied, pending, requested) => Chained(copied, pending \o new, requested + more * c)
<1> DEFINE new == [i \in 1 .. more |-> [at |-> requested + (i - 1) * c, length |-> c]]
           all == pending \o new
           p == Len(pending)
<1>1. /\ new \in Seq(Ask) /\ Len(new) = more
      /\ \A i \in 1 .. more : new[i].at = requested + (i - 1) * c /\ new[i].length = c
  <2>1. \A i \in 1 .. more : requested + (i - 1) * c \in Nat
    BY Chunks
  <2> QED
    BY <2>1 DEF Ask
<1>2. requested + more * c \in Nat
  BY Chunks
<1>3. /\ p \in Nat
      /\ all \in Seq(Ask) /\ Len(all) = p + more
      /\ \A i \in 1 .. p : all[i] = pending[i]
      /\ \A i \in 1 .. more : all[p + i] = new[i]
  <2> HIDE DEF new
  <2>1. new \in Seq(Ask) /\ Len(new) = more
    BY <1>1
  <2>2. /\ all \in Seq(Ask) /\ Len(all) = Len(pending) + Len(new)
        /\ \A i \in 1 .. Len(pending) + Len(new) :
             all[i] = IF i <= Len(pending) THEN pending[i] ELSE new[i - Len(pending)]
    BY <2>1, ConcatProperties
  <2> HIDE DEF all
  <2> QED
    BY SMTT(60), <2>1, <2>2
<1> HIDE DEF new, all
<1>4. ASSUME Chained(copied, pending, requested), more # 0
      PROVE  Chained(copied, all, requested + more * c)
  <2>1. /\ \A i \in 1 .. p - 1 : pending[i + 1].at = pending[i].at + pending[i].length
        /\ p = 0 => requested = copied
        /\ p # 0 => pending[1].at = copied /\ requested = pending[p].at + pending[p].length
    BY <1>3, <1>4 DEF Chained
  <2> HIDE DEF p
  <2>2. new[1].at = requested
    <3>1. 1 \in 1 .. more /\ (1 - 1) * c = 0
      BY <1>4
    <3> QED
      BY <1>1, <3>1
  <2>3. all # <<>> /\ all[1].at = copied
    <3>1. 1 \in 1 .. more /\ p + more # 0
      BY <1>3, <1>4
    <3>2. all # <<>>
      BY <1>3, <3>1
    <3>3. CASE p = 0
      <4>1. all[0 + 1] = new[1]
        BY <1>3, <3>1, <3>3
      <4> QED
        BY <2>1, <2>2, <3>2, <3>3, <4>1
    <3>4. CASE p # 0
      <4>1. 1 \in 1 .. p
        BY <1>3, <3>4
      <4> QED
        BY <1>3, <2>1, <3>2, <3>4, <4>1
    <3> QED
      BY <3>3, <3>4
  <2>4. requested + more * c = all[Len(all)].at + all[Len(all)].length
    <3>1. more \in 1 .. more /\ (more - 1) * c + c = more * c /\ (more - 1) * c \in Nat
      BY <1>4, Chunks
    <3>2. all[Len(all)] = new[more]
      BY <1>3, <3>1
    <3>3. new[more].at = requested + (more - 1) * c /\ new[more].length = c
      BY <1>1, <3>1
    <3> DEFINE q == (more - 1) * c
               r == more * c
    <3>4. q + c = r /\ q \in Nat
      BY <3>1
    <3>5. new[more].at = requested + q
      BY <3>3
    <3>6. SUFFICES requested + r = all[Len(all)].at + all[Len(all)].length
      OBVIOUS
    <3> HIDE DEF q, r
    <3> QED
      BY <3>2, <3>3, <3>4, <3>5, SMTT(60)
  <2>5. ASSUME NEW i \in 1 .. Len(all) - 1
        PROVE  all[i + 1].at = all[i].at + all[i].length
    <3>1. CASE i \in 1 .. p - 1
      <4>1. i \in 1 .. p /\ i + 1 \in 1 .. p
        BY <1>3, <3>1
      <4> QED
        BY <1>3, <2>1, <3>1, <4>1
    <3>2. CASE i = p
      <4>1. 1 \in 1 .. more /\ p \in 1 .. p /\ p # 0
        BY <1>3, <1>4, <3>2
      <4>2. all[p + 1] = new[1] /\ all[p] = pending[p]
        BY <1>3, <4>1
      <4> QED
        BY <2>1, <2>2, <3>2, <4>1, <4>2
    <3>3. CASE i \in p + 1 .. Len(all) - 1
      <4> DEFINE j == i - p
      <4>1. j \in 1 .. more /\ j + 1 \in 1 .. more /\ p + j = i /\ p + (j + 1) = i + 1 /\ j \in Nat /\ j > 0
        BY <1>3, <3>3
      <4> HIDE DEF j
      <4>2. all[i] = new[j] /\ all[i + 1] = new[j + 1]
        BY <1>3, <4>1
      <4>3. new[j].at = requested + (j - 1) * c /\ new[j].length = c
        BY <1>1, <4>1
      <4>4. new[j + 1].at = requested + ((j + 1) - 1) * c
        BY <1>1, <4>1
      <4>5. ((j + 1) - 1) * c = j * c
        BY <4>1
      <4>6. (j - 1) * c \in Nat /\ (j - 1) * c + c = j * c
        BY <4>1, Chunks
      <4> DEFINE q == (j - 1) * c
                 r == j * c
      <4>7. q \in Nat /\ q + c = r /\ new[j].at = requested + q /\ new[j + 1].at = requested + r
        BY <4>3, <4>4, <4>5, <4>6
      <4> HIDE DEF q, r
      <4> QED
        BY <4>2, <4>3, <4>7
    <3> QED
      BY <1>3, <3>1, <3>2, <3>3
  <2> QED
    BY <2>3, <2>4, <2>5 DEF Chained
<1>5. ASSUME Chained(copied, pending, requested), more = 0
      PROVE  Chained(copied, all, requested + more * c)
  <2>1. all = pending
    BY <1>3, <1>5
  <2>2. requested + more * c = requested
    BY <1>5
  <2> QED
    BY <1>5, <2>1, <2>2
<1>6. Chained(copied, pending, requested) => Chained(copied, all, requested + more * c)
  BY <1>4, <1>5
<1> QED
  BY <1>2, <1>3, <1>6 DEF new, all, p

\* What the fields of a transfer are.
LEMMA TransferTypes ==
  ASSUME NEW t \in TransferRecord
  PROVE  /\ t.pending \in Seq(Ask) /\ Len(t.pending) \in Nat /\ t.copy \in Seq(Int) /\ Len(t.copy) \in Nat
         /\ t.requested \in Nat /\ t.source \in Nat /\ t.begun \in Nat /\ t.items \in Nat
         /\ t.eof \in BOOLEAN /\ t.late \in BOOLEAN /\ t.restart \in BOOLEAN /\ t.error \in BOOLEAN
         /\ t.cancelled \in BOOLEAN /\ t.upload \in BOOLEAN /\ t.overwrite \in BOOLEAN
         /\ t.open \in BOOLEAN /\ t.prepared \in BOOLEAN /\ t.before \in {Absent, Old} /\ t.id \in Nat
         /\ t.made \subseteq File /\ t.dir \in Dirs
<1>1. /\ t.pending \in Seq(Ask) /\ t.copy \in Seq(Int)
      /\ t.requested \in Nat /\ t.source \in Nat /\ t.begun \in Nat /\ t.items \in Nat
      /\ t.eof \in BOOLEAN /\ t.late \in BOOLEAN /\ t.restart \in BOOLEAN /\ t.error \in BOOLEAN
      /\ t.cancelled \in BOOLEAN /\ t.upload \in BOOLEAN /\ t.overwrite \in BOOLEAN
      /\ t.open \in BOOLEAN /\ t.prepared \in BOOLEAN /\ t.before \in {Absent, Old} /\ t.id \in Nat
      /\ t.made \subseteq File /\ t.dir \in Dirs
  BY DEF TransferRecord
<1> QED
  BY <1>1

\* What is asked for starts anew behind the copy.
LEMMA RestartedFits ==
  ASSUME NEW t \in TransferRecord, DownloadFits(t)
  PROVE  LET u == Restarted(t)
         IN  u \in TransferRecord /\ SameItem(u, t) /\ DownloadFits(u) /\ u.pending = t.pending
<1>1. CASE t.restart /\ t.pending = <<>>
  <2> DEFINE u == [t EXCEPT !.restart = FALSE, !.requested = Len(t.copy)]
  <2>1. Restarted(t) = u
    BY <1>1 DEF Restarted
  <2>2. Len(t.copy) \in Nat
    BY TransferTypes
  <2>3. Becomes(u, t, t.copy, Len(t.copy), t.pending, t.eof, FALSE, t.error)
    BY <2>2 DEF TransferRecord, SameItem, Becomes
  <2>4. t.pending = <<>> => Chained(Len(t.copy), t.pending, Len(t.copy))
    BY DEF Chained
  <2> HIDE DEF u
  <2>5. DownloadFits(u)
    BY <1>1, <2>3, <2>4 DEF DownloadFits, Becomes, SameItem
  <2> QED
    BY <2>1, <2>3, <2>5 DEF Becomes
<1>2. CASE ~(t.restart /\ t.pending = <<>>)
  BY <1>2 DEF Restarted, SameItem
<1> QED
  BY <1>1, <1>2

\* As much is asked for as may be in flight.
LEMMA AskedFits ==
  ASSUME NEW t \in TransferRecord, DownloadFits(t), Len(t.pending) <= MaxInFlight, NEW fails \in BOOLEAN
  PROVE  LET u == Asked(t, fails)
         IN  u \in TransferRecord /\ SameItem(u, t) /\ DownloadFits(u) /\ Len(u.pending) <= MaxInFlight
<1> DEFINE u == Asked(t, fails)
           Result == u \in TransferRecord /\ SameItem(u, t) /\ DownloadFits(u) /\ Len(u.pending) <= MaxInFlight
<1> SUFFICES Result
  OBVIOUS
<1>1. CASE ~MayAsk(t)
  BY <1>1 DEF Asked, SameItem
<1>2. CASE MayAsk(t) /\ fails
  <2>1. u = [t EXCEPT !.error = TRUE]
    BY <1>2 DEF Asked
  <2>2. Becomes(u, t, t.copy, t.requested, t.pending, t.eof, t.restart, TRUE)
    BY <2>1 DEF TransferRecord, SameItem, Becomes
  <2> HIDE DEF u
  <2>3. DownloadFits(u)
    BY <2>2 DEF DownloadFits, Becomes, SameItem, Stopping
  <2> QED
    BY <2>2, <2>3 DEF Becomes
<1>3. CASE MayAsk(t) /\ ~fails
  <2> DEFINE more == MaxInFlight - Len(t.pending)
             new == [i \in 1 .. more |-> [at |-> t.requested + (i - 1) * ChunkSize, length |-> ChunkSize]]
             pending == t.pending \o new
             requested == t.requested + more * ChunkSize
             copied == Len(t.copy)
  <2>1. u = [t EXCEPT !.pending = pending, !.requested = requested]
    BY <1>3 DEF Asked
  <2>2. /\ t.pending \in Seq(Ask) /\ Len(t.pending) \in Nat /\ copied \in Nat /\ t.requested \in Nat
        /\ MaxInFlight \in Nat /\ ChunkSize \in Nat
    BY TransferTypes, TransferAssumption
  <2>3. more \in Nat
    BY <2>2
  <2> HIDE DEF more, copied
  <2>4. /\ pending \in Seq(Ask) /\ Len(pending) = Len(t.pending) + more
        /\ requested \in Nat
        /\ Chained(copied, t.pending, t.requested) => Chained(copied, pending, requested)
    BY <2>2, <2>3, ChainMore
  <2> HIDE DEF pending, requested, new
  <2>5. Len(pending) <= MaxInFlight
    BY <2>2, <2>4 DEF more
  <2>6. Becomes(u, t, t.copy, requested, pending, t.eof, t.restart, t.error)
    BY <2>1, <2>4 DEF TransferRecord, SameItem, Becomes
  <2> HIDE DEF u
  <2>7. ~t.eof /\ ~t.restart /\ ~Stopping(t)
    BY <1>3 DEF MayAsk
  <2>8. Chained(copied, t.pending, t.requested)
    BY <2>7 DEF DownloadFits, copied
  <2>9. DownloadFits(u)
    BY <2>4, <2>6, <2>7, <2>8 DEF DownloadFits, Becomes, SameItem, copied
  <2> QED
    BY <2>5, <2>6, <2>9 DEF Becomes
<1> QED
  BY <1>1, <1>2, <1>3

LEMMA DownloadServed ==
  ASSUME NEW t \in TransferRecord, DownloadFits(t), ~t.upload, Len(t.pending) <= MaxInFlight,
         NEW luck, AnswersOf(t, luck.answers)
  PROVE  LET u == ServiceDownload(t, luck)
         IN  u \in TransferRecord /\ SameItem(u, t) /\ DownloadFits(u) /\ Len(u.pending) <= MaxInFlight
<1> DEFINE u == TakeReads(t, luck.answers, luck.fault = "save")
           v == Restarted(u)
           w == Asked(v, luck.fault = "ask")
<1>1. u \in TransferRecord /\ SameItem(u, t) /\ DownloadFits(u) /\ Len(u.pending) <= Len(t.pending)
  BY ReadsFit
<1> HIDE DEF u
<1>2. v \in TransferRecord /\ SameItem(v, u) /\ DownloadFits(v) /\ v.pending = u.pending
  BY <1>1, RestartedFits
<1> HIDE DEF v
<1>3. Len(v.pending) <= MaxInFlight
  <2>1. Len(u.pending) \in Nat /\ Len(t.pending) \in Nat
    BY <1>1, TransferTypes
  <2> QED
    BY <1>1, <1>2, <2>1, TransferAssumption
<1>4. w \in TransferRecord /\ SameItem(w, v) /\ DownloadFits(w) /\ Len(w.pending) <= MaxInFlight
  BY <1>2, <1>3, AskedFits
<1>5. ServiceDownload(t, luck) = w
  BY DEF ServiceDownload, w, v, u
<1> HIDE DEF w
<1>6. SameItem(w, t)
  BY <1>1, <1>2, <1>4 DEF SameItem
<1> QED
  BY <1>4, <1>5, <1>6

-----------------------------------------------------------------------------
(* An upload *)

\* The rounds of the answers to writes.
LEMMA WriteRounds ==
  ASSUME NEW start, NEW answers, Len(answers) \in Nat
  PROVE  \E run : /\ TakeWrites(start, answers) = run[Len(answers)]
                  /\ run[0] = start
                  /\ \A k \in 1 .. Len(answers) : run[k] = TakeWrite(run[k - 1], answers[k])
<1> DEFINE n == Len(answers)
           Round(e, k) == TakeWrite(e, answers[k])
           At(run, k) == IF k = 0 THEN start ELSE Round(run[k - 1], k)
           Runs(run, m) == run = [k \in 0 .. m |-> At(run, k)]
           all == CHOOSE run : Runs(run, n)
           P == {m \in Nat : \E run : Runs(run, m)}
<1>1. TakeWrites(start, answers) = all[n]
  BY DEF Repeated, TakeWrites
<1>2. n \in Nat
  OBVIOUS
<1> HIDE DEF Round, n
<1>3. 0 \in P
  <2>1. Runs([k \in 0 .. 0 |-> start], 0)
    OBVIOUS
  <2> QED
    BY <2>1
<1>4. ASSUME NEW m \in 1 .. n, m - 1 \in P
      PROVE  m \in P
  <2>1. PICK run : Runs(run, m - 1)
    BY <1>4
  <2> DEFINE more == [k \in 0 .. m |-> IF k = m THEN Round(run[m - 1], m) ELSE run[k]]
  <2>2. /\ more = [k \in 0 .. m |-> more[k]]
        /\ more[m] = Round(run[m - 1], m) /\ \A k \in 0 .. m - 1 : more[k] = run[k]
    OBVIOUS
  <2>3. \A k \in 0 .. m - 1 : run[k] = At(run, k)
    BY <2>1
  <2> HIDE DEF more
  <2>4. ASSUME NEW k \in 0 .. m
        PROVE  more[k] = At(more, k)
    <3>1. k # 0 => more[k - 1] = run[k - 1]
      <4>1. k # 0 => k - 1 \in 0 .. m - 1
        OBVIOUS
      <4> QED
        BY <2>2, <4>1
    <3>2. CASE k = m
      BY <2>2, <3>1, <3>2
    <3>3. CASE k \in 0 .. m - 1
      BY <2>2, <2>3, <3>1, <3>3
    <3> QED
      BY <3>2, <3>3
  <2>5. Runs(more, m)
    BY <2>2, <2>4
  <2> HIDE DEF Runs
  <2> QED
    BY <2>5
<1>5. n \in P
  <2> HIDE DEF P
  <2> QED
    BY ONLY <1>2, <1>3, <1>4, Upward
<1>6. Runs(all, n)
  <2> HIDE DEF Runs
  <2> QED
    BY <1>5
<1> HIDE DEF all
<1>7. all[0] = start /\ \A k \in 1 .. n : all[k] = Round(all[k - 1], k)
  <2>1. \A k \in 0 .. n : all[k] = At(all, k)
    BY <1>6
  <2> QED
    BY <1>2, <2>1
<1> QED
  BY <1>1, <1>7 DEF Round, n

\* The rounds of writing more.
LEMMA ChunkRounds ==
  ASSUME NEW start
  PROVE  \E run : /\ WriteChunks(start) = run[MaxInFlight]
                  /\ run[0] = start
                  /\ \A k \in 1 .. MaxInFlight : run[k] = WriteMore(run[k - 1])
<1> DEFINE n == MaxInFlight
           Round(e, k) == WriteMore(e)
           At(run, k) == IF k = 0 THEN start ELSE Round(run[k - 1], k)
           Runs(run, m) == run = [k \in 0 .. m |-> At(run, k)]
           all == CHOOSE run : Runs(run, n)
           P == {m \in Nat : \E run : Runs(run, m)}
<1>1. WriteChunks(start) = all[n]
  BY DEF Repeated, WriteChunks
<1>2. n \in Nat
  BY TransferAssumption
<1> HIDE DEF Round, n
<1>3. 0 \in P
  <2>1. Runs([k \in 0 .. 0 |-> start], 0)
    OBVIOUS
  <2> QED
    BY <2>1
<1>4. ASSUME NEW m \in 1 .. n, m - 1 \in P
      PROVE  m \in P
  <2>1. PICK run : Runs(run, m - 1)
    BY <1>4
  <2> DEFINE more == [k \in 0 .. m |-> IF k = m THEN Round(run[m - 1], m) ELSE run[k]]
  <2>2. /\ more = [k \in 0 .. m |-> more[k]]
        /\ more[m] = Round(run[m - 1], m) /\ \A k \in 0 .. m - 1 : more[k] = run[k]
    OBVIOUS
  <2>3. \A k \in 0 .. m - 1 : run[k] = At(run, k)
    BY <2>1
  <2> HIDE DEF more
  <2>4. ASSUME NEW k \in 0 .. m
        PROVE  more[k] = At(more, k)
    <3>1. k # 0 => more[k - 1] = run[k - 1]
      <4>1. k # 0 => k - 1 \in 0 .. m - 1
        OBVIOUS
      <4> QED
        BY <2>2, <4>1
    <3>2. CASE k = m
      BY <2>2, <3>1, <3>2
    <3>3. CASE k \in 0 .. m - 1
      BY <2>2, <2>3, <3>1, <3>3
    <3> QED
      BY <3>2, <3>3
  <2>5. Runs(more, m)
    BY <2>2, <2>4
  <2> HIDE DEF Runs
  <2> QED
    BY <2>5
<1>5. n \in P
  <2> HIDE DEF P
  <2> QED
    BY ONLY <1>2, <1>3, <1>4, Upward
<1>6. Runs(all, n)
  <2> HIDE DEF Runs
  <2> QED
    BY <1>5
<1> HIDE DEF all
<1>7. all[0] = start /\ \A k \in 1 .. n : all[k] = Round(all[k - 1], k)
  <2>1. \A k \in 0 .. n : all[k] = At(all, k)
    BY <1>6
  <2> QED
    BY <1>2, <2>1
<1> QED
  BY <1>1, <1>7 DEF Round, n

\* The answer to the first request is what the server has written.
LEMMA TakeWriteFits ==
  ASSUME NEW t \in TransferRecord, UploadFits(t), t.pending # <<>>,
         NEW n \in WriteAnswers(t.pending[1])
  PROVE  LET u == TakeWrite(t, n)
         IN  u \in TransferRecord /\ SameItem(u, t) /\ u.pending = Tail(t.pending) /\ UploadFits(u)
<1> DEFINE ask == t.pending[1]
           rest == Tail(t.pending)
           u == TakeWrite(t, n)
           v == [t EXCEPT !.pending = rest]
           more == t.copy \o Blocks(ask.at, n)
           copied == Len(t.copy)
           Result == u \in TransferRecord /\ SameItem(u, t) /\ u.pending = rest /\ UploadFits(u)
<1> SUFFICES Result
  OBVIOUS
<1>1. /\ t.pending \in Seq(Ask) /\ t.copy \in Seq(Int) /\ t.requested \in Nat /\ copied \in Nat
      /\ t.source \in Nat
  BY TransferTypes
<1>2. rest \in Seq(Ask) /\ ask \in Ask /\ Head(t.pending) = ask
  BY <1>1
<1>3. ask.at \in Nat /\ ask.length \in Nat
  BY <1>2 DEF Ask
<1>4. n = Failed \/ n = ask.length
  BY DEF WriteAnswers
<1>5. u = IF n = Failed THEN [v EXCEPT !.error = TRUE] ELSE [v EXCEPT !.copy = v.copy \o Blocks(ask.at, n)]
  BY <1>2 DEF TakeWrite
<1> HIDE DEF u
<1>6. CASE n = Failed
  <2>1. Becomes(u, t, t.copy, t.requested, rest, t.eof, t.restart, TRUE)
    BY <1>2, <1>5, <1>6 DEF TransferRecord, SameItem, Becomes
  <2> HIDE DEF rest
  <2>2. UploadFits(u)
    BY <2>1 DEF UploadFits, Becomes, SameItem
  <2> QED
    BY <2>1, <2>2 DEF Becomes
<1>7. CASE n # Failed
  <2>1. n \in Nat /\ n = ask.length
    BY <1>3, <1>4, <1>7
  <2>2. more \in Seq(Int)
    <3>1. Blocks(ask.at, n) \in Seq(Int)
      BY <1>3, <2>1, BlocksIs
    <3> QED
      BY <1>1, <3>1, ConcatProperties
  <2>3. u = [t EXCEPT !.pending = rest, !.copy = more]
    BY <1>5, <1>7 DEF TransferRecord
  <2>4. ~t.error => InOrder(more) /\ Chained(Len(more), rest, t.requested)
    <3> SUFFICES ASSUME ~t.error
                 PROVE  InOrder(more) /\ Chained(Len(more), rest, t.requested)
      OBVIOUS
    <3>1. InOrder(t.copy) /\ Chained(copied, t.pending, t.requested)
      BY DEF UploadFits
    <3>2. ask.at = copied
      BY <3>1 DEF Chained
    <3>3. InOrder(more) /\ Len(more) = copied + n
      BY <1>1, <2>1, <3>1, <3>2, BlocksJoin
    <3>4. Chained(copied + ask.length, rest, t.requested)
      BY <1>1, <3>1, ChainTail
    <3> QED
      BY <2>1, <3>3, <3>4
  <2> HIDE DEF more
  <2>5. Becomes(u, t, more, t.requested, rest, t.eof, t.restart, t.error)
    BY <1>2, <2>2, <2>3 DEF TransferRecord, SameItem, Becomes
  <2> HIDE DEF rest
  <2>6. UploadFits(u)
    BY <2>4, <2>5 DEF UploadFits, Becomes, SameItem
  <2> QED
    BY <2>5, <2>6 DEF Becomes
<1> QED
  BY <1>6, <1>7

LEMMA WritesFit ==
  ASSUME NEW t \in TransferRecord, UploadFits(t), t.upload,
         NEW answers, AnswersOf(t, answers)
  PROVE  LET u == TakeWrites(t, answers)
         IN  u \in TransferRecord /\ SameItem(u, t) /\ UploadFits(u) /\ Len(u.pending) <= Len(t.pending)
<1> DEFINE n == Len(answers)
           end == TakeWrites(t, answers)
<1>1. /\ n \in Nat /\ n <= Len(t.pending)
      /\ \A k \in 1 .. n : answers[k] \in WriteAnswers(t.pending[k])
      /\ t.pending \in Seq(Ask) /\ Len(t.pending) \in Nat
  BY DEF AnswersOf, TransferRecord
<1> HIDE DEF n
<1>2. PICK run : end = run[n] /\ run[0] = t /\ \A k \in 1 .. n : run[k] = TakeWrite(run[k - 1], answers[k])
  BY <1>1, WriteRounds DEF n
<1> HIDE DEF end
<1> DEFINE Good(u, k) ==
             /\ u \in TransferRecord /\ SameItem(u, t) /\ UploadFits(u)
             /\ Len(u.pending) = Len(t.pending) - k
             /\ \A i \in 1 .. Len(u.pending) : u.pending[i] = t.pending[k + i]
           P == {k \in Nat : Good(run[k], k)}
<1>3. 0 \in P
  <2>1. SameItem(t, t)
    BY DEF SameItem
  <2>2. Len(t.pending) = Len(t.pending) - 0 /\ \A i \in 1 .. Len(t.pending) : t.pending[i] = t.pending[0 + i]
    BY <1>1
  <2>3. Good(t, 0)
    BY <2>1, <2>2
  <2> HIDE DEF Good
  <2> QED
    BY <1>2, <2>3
<1>4. ASSUME NEW k \in 1 .. n, k - 1 \in P
      PROVE  k \in P
  <2> DEFINE u == run[k - 1]
             v == TakeWrite(u, answers[k])
  <2>1. /\ u \in TransferRecord /\ SameItem(u, t) /\ UploadFits(u)
        /\ Len(u.pending) = Len(t.pending) - (k - 1)
        /\ \A i \in 1 .. Len(u.pending) : u.pending[i] = t.pending[(k - 1) + i]
    BY <1>4
  <2> HIDE DEF u
  <2>2. u.pending \in Seq(Ask) /\ u.pending # <<>> /\ t.pending \in Seq(Ask) /\ k - 1 \in Nat /\ (k - 1) + 1 = k
    BY <1>1, <2>1 DEF TransferRecord
  <2>3. /\ Len(Tail(u.pending)) = Len(t.pending) - k
        /\ \A i \in 1 .. Len(Tail(u.pending)) : Tail(u.pending)[i] = t.pending[k + i]
        /\ u.pending[1] = t.pending[k]
    <3> DEFINE j == k - 1
    <3>1. j \in Nat /\ j + 1 = k
      BY <2>2
    <3>2. Len(u.pending) = Len(t.pending) - j /\ \A i \in 1 .. Len(u.pending) : u.pending[i] = t.pending[j + i]
      BY <2>1
    <3> HIDE DEF j
    <3>3. /\ Len(Tail(u.pending)) = Len(t.pending) - (j + 1)
          /\ \A i \in 1 .. Len(Tail(u.pending)) : Tail(u.pending)[i] = t.pending[(j + 1) + i]
          /\ u.pending[1] = t.pending[j + 1]
      BY ONLY SMTT(60), <2>2, <3>1, <3>2, QueueTail
    <3> QED
      BY <3>1, <3>3
  <2>4. answers[k] \in WriteAnswers(u.pending[1])
    BY <1>1, <2>3
  <2>5. v \in TransferRecord /\ SameItem(v, u) /\ v.pending = Tail(u.pending) /\ UploadFits(v)
    BY <2>1, <2>2, <2>4, TakeWriteFits
  <2>6. run[k] = v
    BY <1>2 DEF u
  <2> HIDE DEF v
  <2>7. SameItem(v, t)
    BY <2>1, <2>5 DEF SameItem
  <2>8. Good(v, k)
    BY <2>3, <2>5, <2>7
  <2> HIDE DEF Good
  <2> QED
    BY <2>6, <2>8
<1>5. \A k \in 0 .. n : k \in P
  <2> HIDE DEF P
  <2> QED
    BY ONLY <1>1, <1>3, <1>4, Upward
<1>6. Good(run[n], n)
  BY <1>1, <1>5
<1>7. /\ end \in TransferRecord /\ SameItem(end, t) /\ UploadFits(end)
      /\ Len(end.pending) = Len(t.pending) - n
  BY <1>2, <1>6
<1>8. end \in TransferRecord /\ SameItem(end, t) /\ UploadFits(end) /\ Len(end.pending) <= Len(t.pending)
  BY <1>1, <1>7
<1> QED
  BY <1>8 DEF end, n

\* What is written next is what follows, whatever of it the server takes.
LEMMA WriteMoreFits ==
  ASSUME NEW t \in TransferRecord, UploadFits(t), Len(t.pending) <= MaxInFlight
  PROVE  LET u == WriteMore(t)
         IN  u \in TransferRecord /\ SameItem(u, t) /\ UploadFits(u) /\ Len(u.pending) <= MaxInFlight
<1> DEFINE left == t.source - t.requested
           n == IF left < ChunkSize THEN left ELSE ChunkSize
           taken == IF n < ServerLimit THEN n ELSE ServerLimit
           u == WriteMore(t)
           Result == u \in TransferRecord /\ SameItem(u, t) /\ UploadFits(u) /\ Len(u.pending) <= MaxInFlight
<1> SUFFICES Result
  OBVIOUS
<1>1. /\ t.pending \in Seq(Ask) /\ Len(t.pending) \in Nat /\ t.requested \in Nat /\ t.source \in Nat
      /\ Len(t.copy) \in Nat
  BY TransferTypes
<1>2. n \in Int /\ (n <= 0 => t.source <= t.requested) /\ (n > 0 => taken \in Nat \ {0})
  BY <1>1, TransferAssumption
<1>3. CASE ~MayAsk(t) \/ Len(t.pending) >= MaxInFlight
  BY <1>3 DEF WriteMore, SameItem
<1>4. CASE ~(~MayAsk(t) \/ Len(t.pending) >= MaxInFlight) /\ n <= 0
  <2>1. u = [t EXCEPT !.eof = TRUE]
    BY <1>4 DEF WriteMore
  <2>2. Becomes(u, t, t.copy, t.requested, t.pending, TRUE, t.restart, t.error)
    BY <2>1 DEF TransferRecord, SameItem, Becomes
  <2>3. t.source <= t.requested
    BY <1>2, <1>4
  <2> HIDE DEF u, n
  <2>4. UploadFits(u)
    BY <2>2, <2>3 DEF UploadFits, Becomes, SameItem
  <2> QED
    BY <2>2, <2>4 DEF Becomes
<1>5. CASE ~(~MayAsk(t) \/ Len(t.pending) >= MaxInFlight) /\ ~(n <= 0)
  <2> DEFINE ask == [at |-> t.requested, length |-> taken]
             pending == Append(t.pending, ask)
  <2>1. u = [t EXCEPT !.pending = pending, !.requested = Sought(t.requested + n, n, taken)]
    BY <1>5 DEF WriteMore
  <2>2. taken \in Nat /\ n \in Int
    BY <1>2, <1>5
  <2> HIDE DEF taken, n
  <2>3. Sought(t.requested + n, n, taken) = t.requested + taken
    BY <1>1, <2>2 DEF Sought
  <2>4. ask \in Ask /\ ask.at = t.requested /\ ask.length = taken
    BY <1>1, <2>2 DEF Ask
  <2>5. pending \in Seq(Ask) /\ Len(pending) = Len(t.pending) + 1
    <3> HIDE DEF ask
    <3> QED
      BY <1>1, <2>4
  <2>6. ~t.error => Chained(Len(t.copy), pending, t.requested + taken)
    <3> SUFFICES ASSUME ~t.error
                 PROVE  Chained(Len(t.copy), pending, t.requested + taken)
      OBVIOUS
    <3>1. Chained(Len(t.copy), t.pending, t.requested)
      BY DEF UploadFits
    <3> HIDE DEF ask
    <3>2. Chained(Len(t.copy), pending, t.requested + ask.length)
      BY <1>1, <2>4, <3>1, ChainAppend
    <3> QED
      BY <2>4, <3>2
  <2> HIDE DEF pending, ask
  <2>7. u = [t EXCEPT !.pending = pending, !.requested = t.requested + taken]
    BY <2>1, <2>3
  <2>8. Becomes(u, t, t.copy, t.requested + taken, pending, t.eof, t.restart, t.error)
    <3>1. t.requested + taken \in Nat
      BY <1>1, <2>2
    <3> QED
      BY <2>5, <2>7, <3>1 DEF TransferRecord, SameItem, Becomes
  <2> HIDE DEF u
  <2>9. ~t.eof
    BY <1>5 DEF MayAsk
  <2>10. UploadFits(u)
    BY <2>6, <2>8, <2>9 DEF UploadFits, Becomes, SameItem
  <2>11. Len(pending) <= MaxInFlight
    BY <1>1, <1>5, <2>5, TransferAssumption
  <2> QED
    BY <2>8, <2>10, <2>11 DEF Becomes
<1> QED
  BY <1>3, <1>4, <1>5

LEMMA UploadServed ==
  ASSUME NEW t \in TransferRecord, UploadFits(t), t.upload, Len(t.pending) <= MaxInFlight,
         NEW luck, AnswersOf(t, luck.answers)
  PROVE  LET u == ServiceUpload(t, luck)
         IN  u \in TransferRecord /\ SameItem(u, t) /\ UploadFits(u) /\ Len(u.pending) <= MaxInFlight
<1> DEFINE v == TakeWrites(t, luck.answers)
           Good(u) == u \in TransferRecord /\ SameItem(u, t) /\ UploadFits(u) /\ Len(u.pending) <= MaxInFlight
<1> SUFFICES Good(ServiceUpload(t, luck))
  OBVIOUS
<1>1. v \in TransferRecord /\ SameItem(v, t) /\ UploadFits(v) /\ Len(v.pending) <= Len(t.pending)
  BY WritesFit
<1>2. ServiceUpload(t, luck) = IF luck.fault = "ask" /\ MayAsk(v) THEN [v EXCEPT !.error = TRUE]
                                                                 ELSE WriteChunks(v)
  BY DEF ServiceUpload
<1> HIDE DEF v
<1>3. Good(v)
  <2>1. Len(v.pending) \in Nat /\ Len(t.pending) \in Nat
    BY <1>1, TransferTypes
  <2> QED
    BY <1>1, <2>1, TransferAssumption
<1>4. Good([v EXCEPT !.error = TRUE])
  <2> DEFINE u == [v EXCEPT !.error = TRUE]
  <2>1. Becomes(u, v, v.copy, v.requested, v.pending, v.eof, v.restart, TRUE)
    BY <1>1 DEF TransferRecord, SameItem, Becomes
  <2> HIDE DEF u
  <2>2. UploadFits(u)
    BY <1>1, <2>1 DEF UploadFits, Becomes, SameItem
  <2>3. Good(u)
    BY <1>3, <2>1, <2>2 DEF Becomes, SameItem
  <2> QED
    BY <2>3 DEF u
<1>5. Good(WriteChunks(v))
  <2>1. PICK run : /\ WriteChunks(v) = run[MaxInFlight] /\ run[0] = v
                   /\ \A k \in 1 .. MaxInFlight : run[k] = WriteMore(run[k - 1])
    BY ChunkRounds
  <2> DEFINE P == {k \in Nat : Good(run[k])}
  <2>2. 0 \in P
    BY <1>3, <2>1
  <2>3. ASSUME NEW k \in 1 .. MaxInFlight, k - 1 \in P
        PROVE  k \in P
    <3> DEFINE u == run[k - 1]
    <3>1. Good(u)
      BY <2>3
    <3>2. run[k] = WriteMore(u)
      BY <2>1
    <3> HIDE DEF u
    <3>3. /\ WriteMore(u) \in TransferRecord /\ SameItem(WriteMore(u), u) /\ UploadFits(WriteMore(u))
          /\ Len(WriteMore(u).pending) <= MaxInFlight
      BY <3>1, WriteMoreFits
    <3>4. Good(WriteMore(u))
      BY <3>1, <3>3 DEF SameItem
    <3> HIDE DEF Good
    <3> QED
      BY <3>2, <3>4
  <2>4. MaxInFlight \in Nat
    BY TransferAssumption
  <2>5. \A k \in 0 .. MaxInFlight : k \in P
    <3> HIDE DEF P
    <3> QED
      BY <2>2, <2>3, <2>4, Upward
  <2>6. Good(run[MaxInFlight])
    BY <2>4, <2>5
  <2> HIDE DEF Good
  <2> QED
    BY <2>1, <2>6
<1> HIDE DEF Good
<1> QED
  BY <1>2, <1>4, <1>5

-----------------------------------------------------------------------------
(* From opening a file to closing it *)

\* What stays of a transfer whatever is done for it.
Served(u, t) ==
  /\ u.id = t.id /\ u.dir = t.dir /\ u.upload = t.upload /\ u.overwrite = t.overwrite
  /\ u.cancelled = t.cancelled /\ (t.error => u.error)

\* The files a transfer is done with.
MadeFits(t) == \A f \in t.made : FileFits(f) /\ f.id = t.id /\ (Half(f) => Stopping(t))

\* What a pass may meet.
LuckFits(t, luck) ==
  /\ luck.items \in Nat /\ luck.source \in Nat /\ luck.before \in {Absent, Old}
  /\ luck.removes \in BOOLEAN
  /\ AnswersOf(t, luck.answers)

LEMMA WholeCopy ==
  ASSUME NEW copy \in Seq(Int), InOrder(copy)
  PROVE  copy \notin {Absent, Old}
<1> SUFFICES ASSUME copy = <<-2>> \/ copy = <<-1>>
             PROVE  FALSE
  BY DEF Absent, Old
<1>1. Len(copy) = 1 /\ (copy[1] = -2 \/ copy[1] = -1)
  OBVIOUS
<1>2. copy = Blocks(0, 1)
  BY <1>1 DEF InOrder
<1>3. Blocks(0, 1)[1] = 1
  BY DEF Blocks
<1> QED
  BY <1>1, <1>2, <1>3

\* A file without a block.
LEMMA NothingYet ==
  InOrder(<<>>) /\ Chained(0, <<>>, 0)
<1>1. Blocks(0, 0) = <<>>
  BY DEF Blocks
<1>2. Len(<<>>) = 0
  OBVIOUS
<1> QED
  BY <1>1, <1>2 DEF InOrder, Chained

LEMMA OpenItemFits ==
  ASSUME NEW t \in TransferRecord, TransferFits(t), ~t.open, ~Stopping(t), t.items > 0, t.prepared,
         NEW luck, LuckFits(t, luck)
  PROVE  LET u == OpenItem(t, luck)
         IN  TransferFits(u) /\ Served(u, t) /\ u.made = t.made /\ u.pending = t.pending
<1> DEFINE u == OpenItem(t, luck)
           Result == TransferFits(u) /\ Served(u, t) /\ u.made = t.made /\ u.pending = t.pending
<1> SUFFICES Result
  OBVIOUS
<1>1. t.pending = <<>> /\ Len(t.pending) <= MaxInFlight
  BY DEF TransferFits
<1>2. CASE OpenFails(t, luck) \/ (luck.fault = "local" /\ t.upload)
  <2>1. u = [t EXCEPT !.error = TRUE]
    BY <1>2 DEF OpenItem
  <2>2. Becomes(u, t, t.copy, t.requested, t.pending, t.eof, t.restart, TRUE)
    BY <2>1 DEF TransferRecord, SameItem, Becomes
  <2> HIDE DEF u
  <2> QED
    BY <1>1, <2>2 DEF TransferFits, Becomes, SameItem, Served
<1>3. CASE ~(OpenFails(t, luck) \/ (luck.fault = "local" /\ t.upload))
  <2> DEFINE local == luck.fault = "local"
  <2>1. u = [t EXCEPT !.open = TRUE, !.source = luck.source, !.begun = luck.source, !.before = luck.before,
                   !.copy = <<>>, !.late = FALSE, !.requested = 0, !.eof = FALSE, !.restart = FALSE,
                   !.error = local]
    BY <1>3 DEF OpenItem
  <2>2. luck.source \in Nat /\ luck.before \in {Absent, Old} /\ local \in BOOLEAN
    BY DEF LuckFits
  <2>3. t.upload /\ ~t.overwrite => luck.before = Absent
    BY <1>3, <2>2 DEF OpenFails
  <2> HIDE DEF local
  <2>4. u \in TransferRecord
    <3> DEFINE v == [t EXCEPT !.open = TRUE, !.source = luck.source, !.begun = luck.source,
                              !.before = luck.before]
               w == [v EXCEPT !.copy = <<>>, !.late = FALSE, !.requested = 0]
    <3>1. <<>> \in Seq(Int) /\ 0 \in Nat
      OBVIOUS
    <3>2. v \in TransferRecord
      BY <2>2 DEF TransferRecord
    <3>3. u = [w EXCEPT !.eof = FALSE, !.restart = FALSE, !.error = local]
      BY <2>1
    <3> HIDE DEF v, u
    <3>4. w \in TransferRecord
      BY <3>1, <3>2 DEF TransferRecord
    <3> HIDE DEF w
    <3> QED
      BY <2>2, <3>3, <3>4 DEF TransferRecord
  <2>5. /\ u.open = TRUE /\ u.source = luck.source /\ u.begun = luck.source /\ u.before = luck.before
        /\ u.copy = <<>> /\ u.late = FALSE /\ u.requested = 0 /\ u.eof = FALSE /\ u.restart = FALSE
        /\ u.id = t.id /\ u.dir = t.dir /\ u.upload = t.upload /\ u.overwrite = t.overwrite
        /\ u.cancelled = t.cancelled /\ u.made = t.made /\ u.pending = t.pending /\ u.items = t.items
        /\ u.prepared = t.prepared
    BY ZenonT(60), <2>1 DEF TransferRecord
  <2> HIDE DEF u
  <2>6. Served(u, t)
    BY <2>5 DEF Served, Stopping
  <2>7. InOrder(u.copy) /\ Chained(Len(u.copy), u.pending, u.requested)
    BY <1>1, <2>5, NothingYet
  <2>8. u.upload => UploadFits(u)
    BY <2>3, <2>5, <2>7 DEF UploadFits
  <2>9. DownloadFits(u)
    BY <2>2, <2>5, <2>7 DEF DownloadFits
  <2>10. TransferFits(u)
    BY <1>1, <2>4, <2>5, <2>8, <2>9 DEF TransferFits, ItemFits
  <2> QED
    BY <2>5, <2>6, <2>10
<1> QED
  BY <1>2, <1>3

\* A file is closed at its end, or when its transfer stops.
LEMMA CloseFits ==
  ASSUME NEW t \in TransferRecord, TransferFits(t), MadeFits(t),
         ~t.open \/ Stopping(t) \/ (t.eof /\ t.pending = <<>>),
         NEW fault, NEW removable \in BOOLEAN
  PROVE  LET u == CloseItem(t, fault, removable)
         IN  TransferFits(u) /\ Served(u, t) /\ MadeFits(u) /\ ~u.open
<1> DEFINE u == CloseItem(t, fault, removable)
           Result == TransferFits(u) /\ Served(u, t) /\ MadeFits(u) /\ ~u.open
<1> SUFFICES Result
  OBVIOUS
<1>1. CASE ~t.open
  BY <1>1 DEF CloseItem, Served
<1>2. CASE t.open
  <2> DEFINE error == t.error \/ fault = "close"
             failed == error \/ t.cancelled
             file == [id |-> t.id, item |-> t.items, begun |-> t.begun, late |-> t.late, before |-> t.before,
                      is |-> FileNow(t, failed, removable),
                      removable |-> removable, upload |-> t.upload, overwrite |-> t.overwrite]
  <2>1. u = [t EXCEPT !.open = FALSE, !.pending = <<>>, !.items = t.items - 1, !.error = error,
                      !.made = t.made \cup {file}]
    BY <1>2 DEF CloseItem
  <2>2. t.items \in Nat /\ t.items > 0 /\ ItemFits(t) /\ t.error \in BOOLEAN /\ t.cancelled \in BOOLEAN
    BY <1>2, TransferTypes DEF TransferFits
  <2>3. /\ error \in BOOLEAN /\ (t.error => error) /\ (~failed => ~Stopping(t))
        /\ failed \in BOOLEAN
    BY <2>2 DEF Stopping
  <2> HIDE DEF error, failed
  <2>4. FileNow(t, failed, removable) \in Seq(Int)
    <3>1. Absent \in Seq(Int) /\ Old \in Seq(Int)
      BY DEF Absent, Old
    <3> QED
      BY <3>1, TransferTypes DEF FileNow
  <2>5. file \in File
    BY <2>4, TransferTypes DEF File
  <2>6. /\ file.id = t.id /\ file.late = t.late /\ file.before = t.before /\ file.begun = t.begun
        /\ file.is = FileNow(t, failed, removable) /\ file.removable = removable
        /\ file.upload = t.upload /\ file.overwrite = t.overwrite
    OBVIOUS
  <2> HIDE DEF file
  <2>7. ASSUME ~failed, ~t.late
        PROVE  InOrder(t.copy) /\ t.begun <= Len(t.copy)
    <3>1. ~Stopping(t) /\ ~t.error /\ t.eof /\ t.pending = <<>>
      BY <1>2, <2>3, <2>7 DEF Stopping
    <3>2. CASE t.upload
      <4>1. UploadFits(t)
        BY <2>2, <3>2 DEF ItemFits
      <4>2. InOrder(t.copy) /\ t.requested = Len(t.copy) /\ t.source = t.begun /\ t.source <= t.requested
        BY <3>1, <4>1 DEF UploadFits, Chained
      <4> QED
        BY <4>2
    <3>3. CASE ~t.upload
      <4>1. DownloadFits(t)
        BY <2>2, <3>3 DEF ItemFits
      <4>2. InOrder(t.copy) /\ t.begun <= t.source /\ t.source <= Len(t.copy)
        BY <2>7, <3>1, <4>1 DEF DownloadFits
      <4> QED
        BY <4>2, TransferTypes
    <3> QED
      BY <3>2, <3>3
  <2>8. ASSUME ~failed, ~t.late
        PROVE  Whole(file)
    <3>1. file.is = t.copy
      BY <2>6, <2>8 DEF FileNow, Unlinks
    <3>2. t.copy \in Seq(Int) /\ InOrder(t.copy) /\ t.begun <= Len(t.copy)
      BY <2>7, <2>8, TransferTypes
    <3>3. t.copy \notin {Absent, Old}
      BY <3>2, WholeCopy
    <3> QED
      BY <2>6, <3>1, <3>2, <3>3, TransferTypes DEF Whole, InOrder
  <2>9. Half(file) => failed
    BY <2>6, <2>8 DEF Half
  <2>10. FileFits(file)
    <3> SUFFICES ASSUME failed
                 PROVE  file.is = file.before \/ (file.upload /\ (file.overwrite \/ ~file.removable))
      BY <2>9 DEF FileFits
    <3>1. CASE ~t.upload
      BY <2>6, <3>1 DEF FileNow
    <3>2. CASE t.upload /\ ~t.overwrite /\ removable
      <4>1. file.is = Absent
        BY <2>6, <3>2 DEF FileNow, Unlinks
      <4>2. t.before = Absent
        BY <2>2, <3>2 DEF ItemFits, UploadFits
      <4> QED
        BY <2>6, <4>1, <4>2
    <3>3. CASE t.upload /\ (t.overwrite \/ ~removable)
      BY <2>6, <3>3
    <3> QED
      BY <3>1, <3>2, <3>3
  <2>11. u \in TransferRecord
    <3>1. t.items - 1 \in Nat /\ t.made \cup {file} \subseteq File /\ <<>> \in Seq(Ask)
      BY <2>2, <2>5, TransferTypes
    <3> QED
      BY <2>1, <2>3, <3>1 DEF TransferRecord
  <2>12. /\ u.id = t.id /\ u.dir = t.dir /\ u.upload = t.upload /\ u.overwrite = t.overwrite
         /\ u.cancelled = t.cancelled /\ u.error = error /\ ~u.open /\ u.pending = <<>>
         /\ u.made = t.made \cup {file}
    BY <2>1 DEF TransferRecord
  <2> HIDE DEF u
  <2>13. failed => Stopping(u)
    BY <2>12 DEF Stopping, failed
  <2>14. Stopping(t) => Stopping(u)
    BY <2>3, <2>12 DEF Stopping
  <2>15. MadeFits(u)
    BY <2>6, <2>9, <2>10, <2>12, <2>13, <2>14 DEF MadeFits
  <2>16. TransferFits(u)
    BY <2>11, <2>12, TransferAssumption DEF TransferFits
  <2>17. Served(u, t)
    BY <2>3, <2>12 DEF Served
  <2> QED
    BY <2>12, <2>15, <2>16, <2>17
<1> QED
  BY <1>1, <1>2

LEMMA ServiceItemFits ==
  ASSUME NEW t \in TransferRecord, TransferFits(t), MadeFits(t), t.open,
         NEW luck, LuckFits(t, luck)
  PROVE  LET u == ServiceItem(t, luck)
         IN  TransferFits(u) /\ Served(u, t) /\ MadeFits(u)
<1> DEFINE v == IF t.upload THEN ServiceUpload(t, luck) ELSE ServiceDownload(t, luck)
           w == CloseItem(v, luck.fault, luck.removes)
           u == ServiceItem(t, luck)
           Result == TransferFits(u) /\ Served(u, t) /\ MadeFits(u)
<1> SUFFICES Result
  OBVIOUS
<1>1. /\ t.items > 0 /\ t.prepared /\ ItemFits(t) /\ Len(t.pending) <= MaxInFlight
      /\ AnswersOf(t, luck.answers)
  BY DEF TransferFits, LuckFits
<1>2. v \in TransferRecord /\ SameItem(v, t) /\ ItemFits(v) /\ Len(v.pending) <= MaxInFlight
  <2>1. CASE t.upload
    <3>1. /\ v \in TransferRecord /\ SameItem(v, t) /\ UploadFits(v)
          /\ Len(v.pending) <= MaxInFlight
      BY <1>1, <2>1, UploadServed DEF ItemFits
    <3> HIDE DEF v
    <3> QED
      BY <2>1, <3>1 DEF ItemFits, SameItem
  <2>2. CASE ~t.upload
    <3>1. /\ v \in TransferRecord /\ SameItem(v, t) /\ DownloadFits(v)
          /\ Len(v.pending) <= MaxInFlight
      BY <1>1, <2>2, DownloadServed DEF ItemFits
    <3> HIDE DEF v
    <3> QED
      BY <2>2, <3>1 DEF ItemFits, SameItem
  <2> QED
    BY <2>1, <2>2
<1>3. u = IF ItemDone(v) THEN w ELSE v
  BY DEF ServiceItem
<1> HIDE DEF v, u
<1>4. TransferFits(v) /\ MadeFits(v) /\ Served(v, t)
  <2>1. /\ v.open = t.open /\ v.items = t.items /\ v.prepared = t.prepared /\ v.made = t.made
        /\ Served(v, t) /\ v.id = t.id /\ (Stopping(t) => Stopping(v))
    BY <1>2 DEF SameItem, Served, Stopping
  <2>2. TransferFits(v)
    BY <1>1, <1>2, <2>1 DEF TransferFits
  <2>3. MadeFits(v)
    BY <2>1 DEF MadeFits
  <2> QED
    BY <2>1, <2>2, <2>3
<1>5. CASE ItemDone(v)
  <2>1. Stopping(v) \/ (v.eof /\ v.pending = <<>>)
    BY <1>5 DEF ItemDone
  <2>2. TransferFits(w) /\ Served(w, v) /\ MadeFits(w)
    <3>1. luck.removes \in BOOLEAN
      BY DEF LuckFits
    <3> QED
      BY <1>2, <1>4, <2>1, <3>1, CloseFits
  <2> HIDE DEF w
  <2> QED
    BY <1>3, <1>4, <1>5, <2>2 DEF Served
<1>6. CASE ~ItemDone(v)
  BY <1>3, <1>4, <1>6
<1> QED
  BY <1>5, <1>6

\* One call of serviceTransfer() keeps a transfer what it is.
LEMMA ServiceFits ==
  ASSUME NEW t \in TransferRecord, TransferFits(t), MadeFits(t), NEW luck, LuckFits(t, luck)
  PROVE  LET u == ServiceTransfer(t, luck)
         IN  TransferFits(u) /\ Served(u, t) /\ MadeFits(u)
<1> DEFINE v == IF ~t.prepared /\ ~t.cancelled THEN Prepare(t, luck) ELSE t
           w == IF ~v.open /\ ~Stopping(v) /\ v.items > 0 THEN OpenItem(v, luck) ELSE v
           u == ServiceTransfer(t, luck)
           Keeps(s) == /\ TransferFits(s) /\ Served(s, t) /\ s.made = t.made /\ s.pending = t.pending
                       /\ s \in TransferRecord
           Result == TransferFits(u) /\ Served(u, t) /\ MadeFits(u)
<1> SUFFICES Result
  OBVIOUS
<1>1. u = IF w.open THEN ServiceItem(w, luck) ELSE w
  BY DEF ServiceTransfer
<1>2. Keeps(v) /\ (~v.open => v.prepared \/ Stopping(v)) /\ (v.open => v = t)
  <2>1. CASE ~t.prepared /\ ~t.cancelled
    <3>1. ~t.open /\ t.pending = <<>>
      BY <2>1 DEF TransferFits
    <3>2. \/ v = [t EXCEPT !.prepared = TRUE, !.error = TRUE]
          \/ v = [t EXCEPT !.prepared = TRUE, !.items = luck.items]
      BY <2>1 DEF Prepare
    <3>3. luck.items \in Nat
      BY DEF LuckFits
    <3>4. /\ v \in TransferRecord /\ v.prepared /\ v.open = t.open /\ v.made = t.made /\ v.pending = t.pending
          /\ v.id = t.id /\ v.dir = t.dir /\ v.upload = t.upload /\ v.overwrite = t.overwrite
          /\ v.cancelled = t.cancelled /\ (t.error => v.error)
      BY ZenonT(60), <3>2, <3>3 DEF TransferRecord
    <3> HIDE DEF v
    <3>5. TransferFits(v) /\ Served(v, t)
      BY <3>1, <3>4 DEF TransferFits, Served
    <3> QED
      BY <3>1, <3>4, <3>5
  <2>2. CASE ~(~t.prepared /\ ~t.cancelled)
    BY <2>2, TransferTypes DEF Served, Stopping
  <2> QED
    BY <2>1, <2>2
<1> HIDE DEF v
<1>3. Keeps(w) /\ LuckFits(w, luck)
  <2>1. LuckFits(v, luck)
    <3>1. CASE v.open
      BY <1>2, <3>1
    <3>2. CASE ~v.open
      <4>1. v.pending = <<>> /\ t.pending = <<>>
        BY <1>2, <3>2 DEF TransferFits
      <4>2. Len(luck.answers) \in Nat /\ Len(luck.answers) <= 0
        BY <4>1 DEF LuckFits, AnswersOf
      <4>3. AnswersOf(v, luck.answers)
        BY <4>1, <4>2 DEF AnswersOf
      <4> QED
        BY <4>3 DEF LuckFits
    <3> QED
      BY <3>1, <3>2
  <2>2. CASE ~v.open /\ ~Stopping(v) /\ v.items > 0
    <3>1. v.prepared
      BY <1>2, <2>2
    <3>2. TransferFits(w) /\ Served(w, v) /\ w.made = v.made /\ w.pending = v.pending
      BY <1>2, <2>1, <2>2, <3>1, OpenItemFits
    <3>3. v.pending = <<>>
      BY <1>2, <2>2 DEF TransferFits
    <3> HIDE DEF w
    <3>4. LuckFits(w, luck)
      <4>1. Len(luck.answers) \in Nat /\ Len(luck.answers) <= 0
        BY <2>1, <3>3 DEF LuckFits, AnswersOf
      <4>2. AnswersOf(w, luck.answers)
        BY <3>2, <3>3, <4>1 DEF AnswersOf
      <4> QED
        BY <2>1, <4>2 DEF LuckFits
    <3> QED
      BY <1>2, <3>2, <3>4 DEF Served, TransferFits
  <2>3. CASE ~(~v.open /\ ~Stopping(v) /\ v.items > 0)
    BY <1>2, <2>1, <2>3
  <2> QED
    BY <2>2, <2>3
<1> HIDE DEF w, u
<1>4. MadeFits(w)
  BY <1>3 DEF MadeFits, Served, Stopping
<1>5. CASE w.open
  <2> DEFINE x == ServiceItem(w, luck)
  <2>1. TransferFits(x) /\ Served(x, w) /\ MadeFits(x)
    BY <1>3, <1>4, <1>5, ServiceItemFits
  <2> HIDE DEF x
  <2>2. u = x
    BY <1>1, <1>5 DEF x
  <2> QED
    BY <1>3, <2>1, <2>2 DEF Served
<1>6. CASE ~w.open
  BY <1>1, <1>3, <1>4, <1>6
<1> QED
  BY <1>5, <1>6

\* A transfer that has been taken.
LEMMA NewTransferFits ==
  ASSUME NEW request, RequestFits(request), IsTransfer(request)
  PROVE  LET t == NewTransfer(request)
         IN  TransferFits(t) /\ t.made = {} /\ t.id = request.id /\ t.upload = (request.type = "upload")
<1> DEFINE t == NewTransfer(request)
<1>1. /\ request.id \in Nat /\ request.dir \in Dirs /\ request.overwrite \in BOOLEAN
      /\ (request.type = "upload") \in BOOLEAN
  BY DEF RequestFits, RequestRecord, IsTransfer
<1>2. /\ <<>> \in Seq(Int) /\ <<>> \in Seq(Ask) /\ 0 \in Nat /\ {} \subseteq File /\ Absent \in {Absent, Old}
      /\ Len(<<>>) = 0
  OBVIOUS
<1>3. t \in TransferRecord
  BY <1>1, <1>2 DEF NewTransfer, TransferRecord
<1>4. /\ ~t.open /\ t.pending = <<>> /\ t.made = {} /\ t.id = request.id
      /\ t.upload = (request.type = "upload")
  BY DEF NewTransfer
<1> HIDE DEF t
<1>5. TransferFits(t)
  BY <1>2, <1>3, <1>4, TransferAssumption DEF TransferFits
<1> QED
  BY <1>4, <1>5 DEF t

-----------------------------------------------------------------------------
(* Queues of records with a number *)

LEMMA AppendIs ==
  ASSUME NEW S, NEW q \in Seq(S), NEW r \in S
  PROVE  LET p == Append(q, r)
         IN  /\ p \in Seq(S) /\ Len(q) \in Nat /\ Len(p) = Len(q) + 1 /\ p[Len(q) + 1] = r
             /\ \A k \in 1 .. Len(q) : k \in 1 .. Len(p) /\ p[k] = q[k]
             /\ \A k \in 1 .. Len(p) : k \in 1 .. Len(q) \/ k = Len(q) + 1
             /\ Ids(p) = Ids(q) \cup {r.id}
             /\ Unique(q) /\ r.id \notin Ids(q) => Unique(p)
<1> DEFINE p == Append(q, r)
           n == Len(q)
<1>1. /\ p \in Seq(S) /\ n \in Nat /\ Len(p) = n + 1 /\ p[n + 1] = r
      /\ \A k \in 1 .. n : k \in 1 .. Len(p) /\ p[k] = q[k]
      /\ \A k \in 1 .. Len(p) : k \in 1 .. n \/ k = n + 1
      /\ n + 1 \in 1 .. Len(p)
  OBVIOUS
<1> HIDE DEF p
<1>2. Ids(p) = Ids(q) \cup {r.id}
  BY <1>1 DEF Ids
<1>3. ASSUME Unique(q), r.id \notin Ids(q)
      PROVE  Unique(p)
  <2>1. \A k \in 1 .. n : q[k].id # r.id
    BY <1>3 DEF Ids
  <2> SUFFICES ASSUME NEW i \in 1 .. Len(p), NEW j \in 1 .. Len(p), p[i].id = p[j].id
               PROVE  i = j
    BY DEF Unique
  <2> QED
    BY <1>1, <1>3, <2>1 DEF Unique
<1> QED
  BY <1>1, <1>2, <1>3 DEF p, n

LEMMA TailIs ==
  ASSUME NEW S, NEW q \in Seq(S), q # <<>>
  PROVE  LET p == Tail(q)
         IN  /\ p \in Seq(S) /\ Len(q) \in Nat /\ Len(p) = Len(q) - 1 /\ 1 \in 1 .. Len(q)
             /\ \A k \in 1 .. Len(p) : k + 1 \in 1 .. Len(q) /\ p[k] = q[k + 1]
             /\ \A k \in 1 .. Len(q) : k = 1 \/ (k - 1 \in 1 .. Len(p) /\ q[k] = p[k - 1])
             /\ Ids(q) = Ids(p) \cup {q[1].id} /\ Head(q) = q[1] /\ q[1] \in S
             /\ Unique(q) => Unique(p) /\ q[1].id \notin Ids(p)
<1> DEFINE p == Tail(q)
<1>1. /\ p \in Seq(S) /\ Len(q) \in Nat /\ Len(p) = Len(q) - 1 /\ 1 \in 1 .. Len(q)
      /\ \A k \in 1 .. Len(p) : k + 1 \in 1 .. Len(q) /\ p[k] = q[k + 1]
      /\ Head(q) = q[1] /\ q[1] \in S
  OBVIOUS
<1> HIDE DEF p
<1>2. ASSUME NEW k \in 1 .. Len(q), k # 1
      PROVE  k - 1 \in 1 .. Len(p) /\ q[k] = p[k - 1]
  <2>1. k - 1 \in 1 .. Len(p) /\ (k - 1) + 1 = k
    BY <1>1, <1>2
  <2>2. p[k - 1] = q[(k - 1) + 1]
    BY <1>1, <2>1
  <2> QED
    BY <2>1, <2>2
<1>3. Ids(q) = Ids(p) \cup {q[1].id}
  <2>1. ASSUME NEW k \in 1 .. Len(q)
        PROVE  q[k].id \in Ids(p) \cup {q[1].id}
    BY <1>2 DEF Ids
  <2>2. ASSUME NEW k \in 1 .. Len(p)
        PROVE  p[k].id \in Ids(q)
    BY <1>1 DEF Ids
  <2> QED
    BY <1>1, <2>1, <2>2 DEF Ids
<1>4. ASSUME Unique(q)
      PROVE  Unique(p) /\ q[1].id \notin Ids(p)
  <2>1. ASSUME NEW i \in 1 .. Len(p), NEW j \in 1 .. Len(p), p[i].id = p[j].id
        PROVE  i = j
    <3>1. i + 1 \in 1 .. Len(q) /\ j + 1 \in 1 .. Len(q) /\ q[i + 1].id = q[j + 1].id
      BY <1>1, <2>1
    <3>2. i + 1 = j + 1
      BY <1>4, <3>1 DEF Unique
    <3> QED
      BY <3>2
  <2>2. ASSUME NEW k \in 1 .. Len(p), p[k].id = q[1].id
        PROVE  FALSE
    <3>1. k + 1 \in 1 .. Len(q) /\ q[k + 1].id = q[1].id
      BY <1>1, <2>2
    <3>2. k + 1 = 1
      BY <1>1, <1>4, <3>1 DEF Unique
    <3> QED
      BY <3>2
  <2> QED
    BY <2>1, <2>2 DEF Unique, Ids
<1> QED
  BY <1>1, <1>2, <1>3, <1>4 DEF p

LEMMA RemoveIs ==
  ASSUME NEW S, NEW q \in Seq(S), NEW i \in 1 .. Len(q)
  PROVE  LET p == RemoveAt(q, i)
         IN  /\ p \in Seq(S) /\ Len(q) \in Nat /\ Len(p) = Len(q) - 1
             /\ \A k \in 1 .. Len(p) : \E j \in 1 .. Len(q) : j # i /\ p[k] = q[j]
             /\ Ids(q) = Ids(p) \cup {q[i].id}
             /\ Unique(q) => Unique(p) /\ q[i].id \notin Ids(p)
<1> DEFINE p == RemoveAt(q, i)
           n == Len(q)
           ahead == SubSeq(q, 1, i - 1)
           after == SubSeq(q, i + 1, n)
           From(k) == IF k < i THEN k ELSE k + 1
<1>1. n \in Nat /\ i \in 1 .. n
  OBVIOUS
<1>2. /\ ahead \in Seq(S) /\ Len(ahead) = i - 1 /\ \A k \in 1 .. i - 1 : ahead[k] = q[k]
  <2>1. \A k \in 1 .. i - 1 : q[k] \in S
    BY <1>1
  <2> QED
    BY <1>1, <2>1, SubSeqProperties
<1>3. after \in Seq(S) /\ Len(after) = n - i /\ \A k \in 1 .. n - i : after[k] = q[i + k]
  <2>1. \A k \in i + 1 .. n : q[k] \in S
    BY <1>1
  <2>2. after \in Seq(S) /\ Len(after) = n - i /\ \A k \in 1 .. n - i : after[k] = q[(i + 1) + k - 1]
    BY <1>1, <2>1, SubSeqProperties
  <2> HIDE DEF after
  <2> QED
    BY <1>1, <2>2
<1>4. p = ahead \o after
  BY DEF RemoveAt
<1> HIDE DEF ahead, after
<1>5. /\ p \in Seq(S) /\ Len(p) = Len(ahead) + Len(after)
      /\ \A k \in 1 .. Len(ahead) + Len(after) :
           p[k] = IF k <= Len(ahead) THEN ahead[k] ELSE after[k - Len(ahead)]
  <2>1. /\ ahead \o after \in Seq(S) /\ Len(ahead \o after) = Len(ahead) + Len(after)
        /\ \A k \in 1 .. Len(ahead) + Len(after) :
             (ahead \o after)[k] = IF k <= Len(ahead) THEN ahead[k] ELSE after[k - Len(ahead)]
    BY <1>2, <1>3, ConcatProperties
  <2> QED
    BY <1>4, <2>1
<1> HIDE DEF p
<1>6. p \in Seq(S) /\ Len(p) = n - 1
  BY <1>1, <1>2, <1>3, <1>5
<1>7. ASSUME NEW k \in 1 .. Len(p)
      PROVE  From(k) \in 1 .. n /\ From(k) # i /\ p[k] = q[From(k)]
  <2>1. CASE k < i
    <3>1. k \in 1 .. i - 1 /\ k <= Len(ahead) /\ k \in 1 .. Len(ahead) + Len(after)
      BY <1>1, <1>2, <1>3, <1>6, <2>1
    <3> QED
      BY <1>1, <1>2, <1>5, <2>1, <3>1
  <2>2. CASE ~(k < i)
    <3>1. /\ ~(k <= Len(ahead)) /\ k - Len(ahead) \in 1 .. n - i /\ k \in 1 .. Len(ahead) + Len(after)
          /\ i + (k - Len(ahead)) = k + 1 /\ k + 1 \in 1 .. n /\ k + 1 # i
      BY <1>1, <1>2, <1>3, <1>6, <2>2
    <3>2. p[k] = after[k - Len(ahead)] /\ after[k - Len(ahead)] = q[i + (k - Len(ahead))]
      BY <1>3, <1>5, <3>1
    <3> QED
      BY <2>2, <3>1, <3>2
  <2> QED
    BY <2>1, <2>2
<1>8. ASSUME NEW j \in 1 .. n, j # i
      PROVE  \E k \in 1 .. Len(p) : From(k) = j
  <2>1. CASE j < i
    BY <1>1, <1>6, <2>1
  <2>2. CASE ~(j < i)
    <3>1. j - 1 \in 1 .. Len(p) /\ From(j - 1) = j
      BY <1>1, <1>6, <1>8, <2>2
    <3> QED
      BY <3>1
  <2> QED
    BY <2>1, <2>2
<1>9. ASSUME NEW k \in Nat, NEW j \in Nat, From(k) = From(j)
      PROVE  k = j
  BY <1>1, <1>9
<1> HIDE DEF From, n
<1>10. Ids(q) = Ids(p) \cup {q[i].id}
  <2>1. ASSUME NEW j \in 1 .. Len(q)
        PROVE  q[j].id \in Ids(p) \cup {q[i].id}
    BY <1>7, <1>8 DEF Ids, n
  <2>2. ASSUME NEW k \in 1 .. Len(p)
        PROVE  p[k].id \in Ids(q)
    BY <1>7 DEF Ids, n
  <2> QED
    BY <1>1, <2>1, <2>2 DEF Ids
<1>11. ASSUME Unique(q)
      PROVE  Unique(p) /\ q[i].id \notin Ids(p)
  <2>1. ASSUME NEW k \in 1 .. Len(p), NEW j \in 1 .. Len(p), p[k].id = p[j].id
        PROVE  k = j
    BY <1>7, <1>9, <1>11, <2>1 DEF Unique, n
  <2>2. ASSUME NEW k \in 1 .. Len(p), p[k].id = q[i].id
        PROVE  FALSE
    BY <1>7, <1>11, <2>2 DEF Unique, n
  <2> QED
    BY <2>1, <2>2 DEF Unique, Ids
<1>12. \A k \in 1 .. Len(p) : \E j \in 1 .. Len(q) : j # i /\ p[k] = q[j]
  BY <1>7 DEF n
<1> QED
  BY <1>1, <1>6, <1>10, <1>11, <1>12 DEF p, n

-----------------------------------------------------------------------------
(* One step of an engine *)

\* What a step does with numbers: of those it is given, n, and those of them
\* that are a transfer's, t.
Step(f, e, n, t) ==
  /\ EngineFits(f)
  /\ Numbers(f) \subseteq Numbers(e) \cup n
  /\ Moved(f) = Moved(e) \cup t
  /\ \A x \in f.files : x \in e.files \/ x.id \in Moved(f)

Own(r) == IF r.type = "transferred" THEN {r.id} ELSE {}

LEMMA ReportedIs ==
  ASSUME NEW out \in Seq(ReportRecord), NEW r \in ReportRecord
  PROVE  Reported(Append(out, r)) = Reported(out) \cup Own(r)
<1> DEFINE p == Append(out, r)
<1>1. /\ Len(out) \in Nat /\ Len(p) = Len(out) + 1 /\ p[Len(out) + 1] = r
      /\ \A k \in 1 .. Len(out) : k \in 1 .. Len(p) /\ p[k] = out[k]
      /\ \A k \in 1 .. Len(p) : k \in 1 .. Len(out) \/ k = Len(out) + 1
      /\ Len(out) + 1 \in 1 .. Len(p)
  OBVIOUS
<1> HIDE DEF p
<1>2. ASSUME NEW x \in Reported(p)
      PROVE  x \in Reported(out) \cup Own(r)
  BY <1>1 DEF Reported, Own
<1>3. ASSUME NEW x \in Reported(out)
      PROVE  x \in Reported(p)
  BY <1>1 DEF Reported
<1>4. ASSUME NEW x \in Own(r)
      PROVE  x \in Reported(p)
  BY <1>1 DEF Reported, Own
<1>5. Reported(p) = Reported(out) \cup Own(r)
  BY <1>2, <1>3, <1>4
<1> QED
  BY <1>5 DEF p

\* A report of what is no longer in the engine.
LEMMA ReportFits ==
  ASSUME NEW e, EngineFits(e), NEW f \in EngineRecord, DueFits(f),
         \A k \in 1 .. Len(f.transfers) : \E j \in 1 .. Len(e.transfers) : f.transfers[k] = e.transfers[j],
         Unique(f.transfers),
         NEW r \in ReportRecord, IsReport(r), r.id \notin Ids(e.out), r.id \notin Ids(f.transfers),
         f.out = Append(e.out, r),
         NEW new, \A x \in new : FileFits(x) /\ x.id = r.id, f.files = e.files \cup new,
         \A x \in f.files : Half(x) /\ x.id = r.id /\ r.type = "transferred" => ~r.good
  PROVE  /\ EngineFits(f) /\ Ids(f.out) = Ids(e.out) \cup {r.id}
         /\ Reported(f.out) = Reported(e.out) \cup Own(r)
<1>1. e.out \in Seq(ReportRecord) /\ Unique(e.out) /\ Ids(e.transfers) \cap Ids(e.out) = {}
  BY DEF EngineFits, EngineRecord
<1>2. /\ Ids(f.out) = Ids(e.out) \cup {r.id} /\ Unique(f.out)
      /\ Len(e.out) \in Nat /\ f.out[Len(e.out) + 1] = r
      /\ \A k \in 1 .. Len(e.out) : f.out[k] = e.out[k]
      /\ \A k \in 1 .. Len(f.out) : k \in 1 .. Len(e.out) \/ k = Len(e.out) + 1
  BY <1>1, AppendIs
<1>3. Reported(f.out) = Reported(e.out) \cup Own(r)
  BY <1>1, ReportedIs
<1>4. \A i \in 1 .. Len(f.transfers) : TransferFits(f.transfers[i]) /\ f.transfers[i].made = {}
  BY DEF EngineFits
<1>5. \A i \in 1 .. Len(f.out) : IsReport(f.out[i])
  BY <1>2 DEF EngineFits
<1>6. Ids(f.transfers) \cap Ids(f.out) = {}
  <2>1. Ids(f.transfers) \subseteq Ids(e.transfers)
    <3>1. \A k \in 1 .. Len(f.transfers) : \E j \in 1 .. Len(e.transfers) : f.transfers[k] = e.transfers[j]
      OBVIOUS
    <3> QED
      BY ONLY <3>1 DEF Ids
  <2> QED
    BY <1>1, <1>2, <2>1
<1>7. \A x \in f.files : FileFits(x)
  BY DEF EngineFits
<1>8. ASSUME NEW x \in f.files, Half(x)
      PROVE  /\ \A i \in 1 .. Len(f.transfers) : f.transfers[i].id = x.id => Stopping(f.transfers[i])
             /\ \A i \in 1 .. Len(f.out) : f.out[i].id = x.id /\ f.out[i].type = "transferred" => ~f.out[i].good
  <2>1. CASE x \in e.files
    <3>1. /\ \A i \in 1 .. Len(e.transfers) : e.transfers[i].id = x.id => Stopping(e.transfers[i])
          /\ \A i \in 1 .. Len(e.out) : e.out[i].id = x.id /\ e.out[i].type = "transferred" => ~e.out[i].good
      BY <1>8, <2>1 DEF EngineFits
    <3>2. \A i \in 1 .. Len(f.transfers) : f.transfers[i].id = x.id => Stopping(f.transfers[i])
      BY <3>1
    <3>3. \A i \in 1 .. Len(f.out) : f.out[i].id = x.id /\ f.out[i].type = "transferred" => ~f.out[i].good
      BY <1>2, <1>8, <3>1
    <3> QED
      BY <3>2, <3>3
  <2>2. CASE x \in new
    <3>1. x.id = r.id
      BY <2>2
    <3>2. \A i \in 1 .. Len(f.transfers) : f.transfers[i].id # x.id
      BY <3>1 DEF Ids
    <3>3. \A i \in 1 .. Len(e.out) : e.out[i].id # x.id
      BY <3>1 DEF Ids
    <3> QED
      BY <1>2, <1>8, <3>1, <3>2, <3>3
  <2> QED
    BY <2>1, <2>2
<1>9. EngineFits(f)
  BY <1>2, <1>4, <1>5, <1>6, <1>7, <1>8 DEF EngineFits
<1> QED
  BY <1>2, <1>3, <1>9

\* The first transfer ends and is reported.
LEMMA FinishFits ==
  ASSUME NEW e, EngineFits(e), e.transfers # <<>>,
         NEW t \in TransferRecord, TransferFits(t), MadeFits(t), ~t.open \/ Stopping(t),
         t.id = e.transfers[1].id, Stopping(e.transfers[1]) => Stopping(t), NEW removable \in BOOLEAN
  PROVE  LET f == Finish(e, t, "none", removable)
         IN  /\ Step(f, e, {}, {}) /\ f.transfers = Tail(e.transfers)
             /\ Stopping(t) => f.due = e.due
             /\ \E good \in BOOLEAN :
                  /\ Stopping(t) => ~good
                  /\ f.out = Append(e.out, Report("transferred", t.id, None, good, 0))
                  /\ f.due = e.due \/ (good /\ t.upload)
<1> DEFINE closed == CloseItem(t, "none", removable)
           good == ~Stopping(closed)
           r == Report("transferred", t.id, None, good, 0)
           now == IF t.open /\ t.upload THEN OneMore(e.changes, t.dir) ELSE e.changes
           counted == IF good /\ t.upload THEN [e.due EXCEPT ![t.dir] = now[t.dir]] ELSE e.due
           f == Finish(e, t, "none", removable)
<1>1. TransferFits(closed) /\ Served(closed, t) /\ MadeFits(closed)
  BY CloseFits
<1>2. f = [e EXCEPT !.transfers = Tail(e.transfers), !.files = e.files \cup closed.made,
                    !.changes = now, !.due = counted, !.out = Append(e.out, r)]
  BY DEF Finish
<1>3. /\ e.transfers \in Seq(TransferRecord) /\ e.out \in Seq(ReportRecord)
      /\ e.changes \in [Dirs -> Nat] /\ e.due \in [Dirs -> Nat] /\ e.files \subseteq File /\ e \in EngineRecord
  BY DEF EngineFits, EngineRecord
<1>4. closed.made \subseteq File /\ (Stopping(t) => Stopping(closed)) /\ closed.id = t.id
  BY <1>1 DEF TransferFits, TransferRecord, Served, Stopping
<1>5. t.id \in Nat /\ t.dir \in Dirs
  BY TransferTypes
<1> HIDE DEF closed
<1>6. good \in BOOLEAN
  OBVIOUS
<1> HIDE DEF good
<1>7. r \in ReportRecord /\ IsReport(r) /\ r.id = t.id /\ r.type = "transferred" /\ r.good = good
  BY <1>5, <1>6 DEF Report, ReportRecord, ReportType, IsReport
<1>8. /\ now \in [Dirs -> Nat] /\ counted \in [Dirs -> Nat]
      /\ counted = e.due \/ (good /\ t.upload)
      /\ \A d \in Dirs : counted[d] <= now[d]
  <2>1. \A d \in Dirs : e.due[d] <= e.changes[d]
    BY DEF EngineFits, DueFits
  <2>2. \A d \in Dirs : e.due[d] \in Nat /\ e.changes[d] \in Nat
    BY <1>3
  <2>3. now \in [Dirs -> Nat] /\ \A d \in Dirs : now[d] = e.changes[d] \/ now[d] = e.changes[d] + 1
    BY <1>3, <1>5 DEF OneMore
  <2>4. \A d \in Dirs : now[d] \in Nat /\ e.due[d] <= now[d]
    BY <2>1, <2>2, <2>3
  <2> HIDE DEF now
  <2>5. CASE counted = e.due
    BY <1>3, <2>3, <2>4, <2>5
  <2>6. CASE good /\ t.upload /\ counted = [e.due EXCEPT ![t.dir] = now[t.dir]]
    <3> HIDE DEF counted
    <3>1. counted \in [Dirs -> Nat] /\ \A d \in Dirs : counted[d] = e.due[d] \/ counted[d] = now[d]
      BY <1>3, <1>5, <2>4, <2>6
    <3> QED
      BY <2>3, <2>4, <2>6, <3>1
  <2> QED
    BY <2>5, <2>6
<1>9. /\ Tail(e.transfers) \in Seq(TransferRecord)
      /\ \A k \in 1 .. Len(Tail(e.transfers)) :
           k + 1 \in 1 .. Len(e.transfers) /\ Tail(e.transfers)[k] = e.transfers[k + 1]
      /\ Ids(e.transfers) = Ids(Tail(e.transfers)) \cup {t.id} /\ 1 \in 1 .. Len(e.transfers)
      /\ Unique(Tail(e.transfers)) /\ t.id \notin Ids(Tail(e.transfers))
  <2>1. Unique(e.transfers)
    BY DEF EngineFits
  <2> QED
    BY <1>3, <2>1, TailIs
<1>10. Append(e.out, r) \in Seq(ReportRecord)
  BY <1>3, <1>7, AppendIs
<1> DEFINE rest == Tail(e.transfers)
<1> HIDE DEF r, counted, now, rest
<1>11. /\ f \in EngineRecord /\ f.transfers = rest /\ f.out = Append(e.out, r)
       /\ f.due = counted /\ f.changes = now /\ f.files = e.files \cup closed.made
  BY <1>2, <1>3, <1>4, <1>8, <1>9, <1>10 DEF EngineRecord, rest
<1> HIDE DEF f
<1>12. /\ \A k \in 1 .. Len(f.transfers) : \E j \in 1 .. Len(e.transfers) : f.transfers[k] = e.transfers[j]
       /\ Unique(f.transfers)
  BY <1>9, <1>11 DEF rest
<1>13. r.id \notin Ids(e.out) /\ r.id \notin Ids(f.transfers)
  BY <1>7, <1>9, <1>11 DEF EngineFits, rest
<1>14. \A x \in closed.made : FileFits(x) /\ x.id = r.id
  BY <1>1, <1>4, <1>7 DEF MadeFits
<1>15. ASSUME NEW x \in f.files, Half(x), x.id = r.id
       PROVE  ~r.good
  <2>1. CASE x \in e.files
    <3>1. Stopping(e.transfers[1])
      BY <1>7, <1>9, <1>15, <2>1 DEF EngineFits
    <3> QED
      BY <1>4, <1>7, <3>1 DEF good
  <2>2. CASE x \in closed.made
    BY <1>1, <1>7, <1>15, <2>2 DEF MadeFits, good
  <2> QED
    BY <1>11, <1>15, <2>1, <2>2
<1>16. /\ EngineFits(f) /\ Ids(f.out) = Ids(e.out) \cup {r.id}
       /\ Reported(f.out) = Reported(e.out) \cup Own(r)
  <2>1. DueFits(f)
    BY <1>8, <1>11 DEF DueFits
  <2> QED
    BY ZenonT(60), <1>7, <1>11, <1>12, <1>13, <1>14, <1>15, <2>1, ReportFits
<1>17. Ids(f.transfers) \cup {t.id} = Ids(e.transfers) /\ Own(r) = {t.id} /\ r.id = t.id
  BY <1>7, <1>9, <1>11 DEF Own, rest
<1>18. \A x \in f.files : x \in e.files \/ x.id \in Moved(e)
  <2>1. t.id \in Moved(e)
    BY <1>17 DEF Moved
  <2> QED
    BY <1>7, <1>11, <1>14, <2>1
<1>19. Step(f, e, {}, {})
  BY <1>16, <1>17, <1>18 DEF Step, Numbers, Moved
<1>20. Stopping(t) => ~good /\ f.due = e.due
  BY <1>4, <1>8, <1>11 DEF good
<1> QED
  BY <1>6, <1>8, <1>11, <1>19, <1>20 DEF r, f, rest

\* What there is to say of a step whose transfers stay the same but one.
LEMMA ChangeFits ==
  ASSUME NEW e, EngineFits(e), NEW f \in EngineRecord, DueFits(f),
         NEW i \in 1 .. Len(e.transfers), NEW t \in TransferRecord, TransferFits(t), t.made = {},
         t.id = e.transfers[i].id, Stopping(e.transfers[i]) => Stopping(t),
         Len(f.transfers) = Len(e.transfers), f.transfers[i] = t,
         \A k \in 1 .. Len(e.transfers) : k # i => f.transfers[k] = e.transfers[k],
         f.out = e.out,
         NEW new, \A x \in new : FileFits(x) /\ x.id = t.id /\ (Half(x) => Stopping(t)),
         f.files = e.files \cup new
  PROVE  Step(f, e, {}, {}) /\ Ids(f.transfers) = Ids(e.transfers)
<1>1. \A k \in 1 .. Len(f.transfers) :
        /\ k \in 1 .. Len(e.transfers) /\ f.transfers[k].id = e.transfers[k].id
        /\ TransferFits(f.transfers[k]) /\ f.transfers[k].made = {}
        /\ Stopping(e.transfers[k]) => Stopping(f.transfers[k])
  BY DEF EngineFits
<1>2. Ids(f.transfers) = Ids(e.transfers)
  BY <1>1 DEF Ids
<1>3. Unique(f.transfers)
  <2>1. Unique(e.transfers)
    BY DEF EngineFits
  <2> QED
    BY <1>1, <2>1 DEF Unique
<1>4. ASSUME NEW x \in f.files, Half(x)
      PROVE  /\ \A k \in 1 .. Len(f.transfers) : f.transfers[k].id = x.id => Stopping(f.transfers[k])
             /\ \A k \in 1 .. Len(f.out) : f.out[k].id = x.id /\ f.out[k].type = "transferred" => ~f.out[k].good
  <2>1. CASE x \in e.files
    <3>1. /\ \A k \in 1 .. Len(e.transfers) : e.transfers[k].id = x.id => Stopping(e.transfers[k])
          /\ \A k \in 1 .. Len(e.out) : e.out[k].id = x.id /\ e.out[k].type = "transferred" => ~e.out[k].good
      BY <1>4, <2>1 DEF EngineFits
    <3> QED
      BY <1>1, <3>1
  <2>2. CASE x \in new
    <3>1. x.id = e.transfers[i].id /\ Stopping(t)
      BY <1>4, <2>2
    <3>2. x.id \in Ids(e.transfers)
      BY <3>1 DEF Ids
    <3>3. \A k \in 1 .. Len(f.out) : f.out[k].id # x.id
      <4>1. Ids(e.transfers) \cap Ids(e.out) = {}
        BY DEF EngineFits
      <4>2. x.id \notin Ids(e.out)
        BY <3>2, <4>1
      <4>3. \A k \in 1 .. Len(e.out) : e.out[k].id \in Ids(e.out)
        BY DEF Ids
      <4> QED
        BY <4>2, <4>3
    <3>4. ASSUME NEW k \in 1 .. Len(f.transfers), f.transfers[k].id = x.id
          PROVE  Stopping(f.transfers[k])
      <4>1. Unique(e.transfers)
        BY DEF EngineFits
      <4>2. k = i
        BY <1>1, <3>1, <3>4, <4>1 DEF Unique
      <4> QED
        BY <3>1, <4>2
    <3> QED
      BY <3>3, <3>4
  <2> QED
    BY <1>4, <2>1, <2>2
<1>5. EngineFits(f)
  BY <1>1, <1>2, <1>3, <1>4 DEF EngineFits
<1>6. t.id \in Moved(e)
  BY DEF Moved, Ids
<1>7. Step(f, e, {}, {})
  BY <1>2, <1>5, <1>6 DEF Step, Numbers, Moved
<1> QED
  BY <1>2, <1>7

\* What a pass changes in the folder of an upload, which is not reported yet.
LEMMA TouchedFits ==
  ASSUME NEW e, EngineFits(e), NEW t \in TransferRecord, NEW luck
  PROVE  LET f == Touched(e, t, luck)
         IN  /\ EngineFits(f) /\ f.transfers = e.transfers /\ f.out = e.out /\ f.files = e.files
             /\ f.due = e.due
<1> DEFINE f == Touched(e, t, luck)
           more == OneMore(e.changes, t.dir)
<1> SUFFICES /\ EngineFits(f) /\ f.transfers = e.transfers /\ f.out = e.out /\ f.files = e.files
             /\ f.due = e.due
  OBVIOUS
<1>1. f = e \/ f = [e EXCEPT !.changes = more]
  BY DEF Touched
<1>2. /\ e.changes \in [Dirs -> Nat] /\ e.due \in [Dirs -> Nat] /\ e \in EngineRecord
      /\ \A d \in Dirs : e.due[d] <= e.changes[d]
  BY DEF EngineFits, EngineRecord, DueFits
<1>3. more \in [Dirs -> Nat] /\ \A d \in Dirs : more[d] = e.changes[d] \/ more[d] = e.changes[d] + 1
  BY <1>2, TransferTypes DEF OneMore
<1>4. \A d \in Dirs : e.due[d] <= more[d]
  <2> HIDE DEF more
  <2>1. \A d \in Dirs : e.due[d] \in Nat /\ e.changes[d] \in Nat
    BY <1>2
  <2> QED
    BY <1>2, <1>3, <2>1
<1> HIDE DEF f, more
<1>5. CASE f = [e EXCEPT !.changes = more]
  <2>1. /\ f \in EngineRecord /\ f.transfers = e.transfers /\ f.out = e.out /\ f.files = e.files
        /\ f.due = e.due /\ f.changes = more
    BY <1>2, <1>3, <1>5 DEF EngineRecord
  <2>2. DueFits(f)
    BY <1>4, <2>1 DEF DueFits
  <2>3. EngineFits(f)
    BY <2>1, <2>2 DEF EngineFits
  <2> QED
    BY <2>1, <2>3
<1> QED
  BY <1>1, <1>5

\* A pass with the first transfer.
LEMMA ServiceFirstFits ==
  ASSUME NEW e, EngineFits(e), e.transfers # <<>>,
         NEW luck, LuckFits(Head(e.transfers), luck)
  PROVE  LET f == ServiceFirst(e, luck)
         IN  /\ Step(f, e, {}, {})
             /\ \/ /\ f.out = e.out /\ f.due = e.due /\ Len(f.transfers) = Len(e.transfers)
                   /\ \A k \in 1 .. Len(e.transfers) : f.transfers[k].id = e.transfers[k].id
                                                       /\ f.transfers[k].upload = e.transfers[k].upload
                \/ /\ f.transfers = Tail(e.transfers)
                   /\ \E good \in BOOLEAN :
                        /\ f.out = Append(e.out, Report("transferred", e.transfers[1].id, None, good, 0))
                        /\ f.due = e.due \/ (good /\ e.transfers[1].upload)
<1> DEFINE h == e.transfers[1]
           t == ServiceTransfer(h, luck)
           u == [t EXCEPT !.made = {}]
           b == Touched(e, t, luck)
           f == ServiceFirst(e, luck)
<1>1. /\ e.transfers \in Seq(TransferRecord) /\ e.out \in Seq(ReportRecord)
      /\ e.changes \in [Dirs -> Nat] /\ e.due \in [Dirs -> Nat] /\ e.files \subseteq File /\ e \in EngineRecord
      /\ 1 \in 1 .. Len(e.transfers) /\ Head(e.transfers) = h /\ Len(e.transfers) \in Nat
  <2>1. /\ e.transfers \in Seq(TransferRecord) /\ e.out \in Seq(ReportRecord)
        /\ e.changes \in [Dirs -> Nat] /\ e.due \in [Dirs -> Nat] /\ e.files \subseteq File /\ e \in EngineRecord
    BY DEF EngineFits, EngineRecord
  <2> QED
    BY <2>1
<1>2. h \in TransferRecord /\ TransferFits(h) /\ h.made = {}
  BY <1>1 DEF EngineFits
<1>3. MadeFits(h)
  BY <1>2 DEF MadeFits
<1>4. TransferFits(t) /\ Served(t, h) /\ MadeFits(t)
  BY <1>1, <1>2, <1>3, ServiceFits
<1>5. f = IF Finished(t) THEN Finish(b, t, "none", TRUE)
          ELSE [b EXCEPT !.transfers = <<u>> \o Tail(b.transfers), !.files = b.files \cup t.made]
  BY <1>1 DEF ServiceFirst
<1>9. /\ EngineFits(b) /\ b.transfers = e.transfers /\ b.out = e.out /\ b.files = e.files
      /\ b.due = e.due
  <2>1. t \in TransferRecord
    BY <1>4 DEF TransferFits
  <2> HIDE DEF t
  <2> QED
    BY <2>1, TouchedFits
<1> HIDE DEF h, t, b
<1>10. \A g : Step(g, b, {}, {}) => Step(g, e, {}, {})
  BY <1>9 DEF Step, Numbers, Moved
<1>6. t \in TransferRecord /\ t.id = h.id /\ t.upload = h.upload /\ (Stopping(h) => Stopping(t))
  BY <1>4 DEF TransferFits, Served, Stopping
<1>7. CASE Finished(t)
  <2>1. ~t.open
    BY <1>7 DEF Finished
  <2> DEFINE g == Finish(b, t, "none", TRUE)
  <2>2. /\ Step(g, e, {}, {}) /\ g.transfers = Tail(e.transfers)
        /\ \E good \in BOOLEAN :
             /\ g.out = Append(e.out, Report("transferred", t.id, None, good, 0))
             /\ g.due = e.due \/ (good /\ t.upload)
    <3>1. /\ Step(g, b, {}, {}) /\ g.transfers = Tail(b.transfers)
          /\ \E good \in BOOLEAN :
               /\ g.out = Append(b.out, Report("transferred", t.id, None, good, 0))
               /\ g.due = b.due \/ (good /\ t.upload)
      <4>1. /\ EngineFits(b) /\ b.transfers # <<>>
            /\ t \in TransferRecord /\ TransferFits(t) /\ MadeFits(t) /\ ~t.open
            /\ t.id = b.transfers[1].id /\ (Stopping(b.transfers[1]) => Stopping(t))
        BY <1>4, <1>6, <1>9, <2>1 DEF h
      <4> QED
        BY ONLY <4>1, FinishFits
    <3> HIDE DEF g
    <3> QED
      BY <1>9, <1>10, <3>1
  <2> HIDE DEF g
  <2>3. f = g
    BY <1>5, <1>7 DEF g
  <2> HIDE DEF f
  <2> QED
    BY <1>6, <2>2, <2>3 DEF h, f
<1>8. CASE ~Finished(t)
  <2> DEFINE rest == <<u>> \o Tail(e.transfers)
  <2>1. /\ u \in TransferRecord /\ u.made = {} /\ u.id = t.id /\ u.upload = t.upload
        /\ u.open = t.open /\ u.pending = t.pending /\ u.prepared = t.prepared /\ u.items = t.items
        /\ u.cancelled = t.cancelled /\ u.error = t.error /\ u.overwrite = t.overwrite
        /\ u.late = t.late /\ u.eof = t.eof /\ u.begun = t.begun /\ u.source = t.source
        /\ u.copy = t.copy /\ u.requested = t.requested /\ u.restart = t.restart /\ u.before = t.before
    BY <1>6 DEF TransferRecord
  <2>2. f = [b EXCEPT !.transfers = rest, !.files = e.files \cup t.made]
    BY <1>5, <1>8, <1>9
  <2> HIDE DEF u
  <2>3. Stopping(u) = Stopping(t)
    BY <2>1 DEF Stopping
  <2>4. TransferFits(u)
    <3>1. t.open => ItemFits(u)
      <4>1. CASE t.open /\ t.upload
        <5>1. UploadFits(t)
          BY <1>4, <4>1 DEF TransferFits, ItemFits
        <5>2. UploadFits(u)
          BY <2>1, <5>1 DEF UploadFits
        <5> QED
          BY <2>1, <4>1, <5>2 DEF ItemFits
      <4>2. CASE t.open /\ ~t.upload
        <5>1. DownloadFits(t)
          BY <1>4, <4>2 DEF TransferFits, ItemFits
        <5>2. DownloadFits(u)
          BY <2>1, <2>3, <5>1 DEF DownloadFits
        <5> QED
          BY <2>1, <4>2, <5>2 DEF ItemFits
      <4> QED
        BY <4>1, <4>2
    <3> QED
      BY <1>4, <2>1, <3>1 DEF TransferFits
  <2>5. /\ rest \in Seq(TransferRecord) /\ Len(rest) = Len(e.transfers) /\ rest[1] = u
        /\ \A k \in 1 .. Len(e.transfers) : k # 1 => rest[k] = e.transfers[k]
    <3> DEFINE one == <<u>>
               tail == Tail(e.transfers)
    <3>1. one \in Seq(TransferRecord) /\ Len(one) = 1 /\ one[1] = u
      BY <2>1
    <3>2. tail \in Seq(TransferRecord) /\ Len(tail) = Len(e.transfers) - 1
          /\ \A k \in 1 .. Len(e.transfers) : k = 1 \/ (k - 1 \in 1 .. Len(tail) /\ e.transfers[k] = tail[k - 1])
      BY <1>1, TailIs
    <3>3. rest = one \o tail
      OBVIOUS
    <3> HIDE DEF one, tail, rest
    <3>4. /\ one \o tail \in Seq(TransferRecord) /\ Len(one \o tail) = Len(one) + Len(tail)
          /\ \A k \in 1 .. Len(one) + Len(tail) :
               (one \o tail)[k] = IF k <= Len(one) THEN one[k] ELSE tail[k - Len(one)]
      BY <3>1, <3>2, ConcatProperties
    <3>5. Len(rest) = Len(e.transfers) /\ rest[1] = u
      BY <1>1, <3>1, <3>2, <3>3, <3>4
    <3>6. ASSUME NEW k \in 1 .. Len(e.transfers), k # 1
          PROVE  rest[k] = e.transfers[k]
      <4>1. k \in 1 .. Len(one) + Len(tail) /\ ~(k <= Len(one)) /\ k - Len(one) = k - 1
        BY <1>1, <3>1, <3>2, <3>6
      <4>2. rest[k] = tail[k - 1]
        BY <3>3, <3>4, <4>1
      <4> QED
        BY <3>2, <3>6, <4>2
    <3> QED
      BY <3>3, <3>4, <3>5, <3>6
  <2>6. e.files \cup t.made \subseteq File
    BY <1>1, <1>6, TransferTypes
  <2> HIDE DEF rest
  <2>7. f \in EngineRecord /\ f.transfers = rest /\ f.out = e.out /\ f.files = e.files \cup t.made
        /\ f.due = e.due /\ DueFits(f)
    <3>1. b \in EngineRecord /\ DueFits(b)
      BY <1>9 DEF EngineFits
    <3>2. f \in EngineRecord /\ f.transfers = rest /\ f.out = b.out /\ f.files = e.files \cup t.made
          /\ f.due = b.due /\ f.changes = b.changes
      BY <2>2, <2>5, <2>6, <3>1 DEF EngineRecord
    <3> QED
      BY <1>9, <3>1, <3>2 DEF DueFits
  <2> HIDE DEF f
  <2>8. u.id = e.transfers[1].id /\ (Stopping(e.transfers[1]) => Stopping(u)) /\ u.upload = e.transfers[1].upload
    BY <1>6, <2>1, <2>3 DEF h
  <2>9. \A x \in t.made : FileFits(x) /\ x.id = u.id /\ (Half(x) => Stopping(u))
    BY <1>4, <2>1, <2>3 DEF MadeFits
  <2>10. Step(f, e, {}, {})
    <3>1. /\ Len(f.transfers) = Len(e.transfers) /\ f.transfers[1] = u
          /\ \A k \in 1 .. Len(e.transfers) : k # 1 => f.transfers[k] = e.transfers[k]
      BY <2>5, <2>7
    <3> QED
      BY <1>1, <2>1, <2>4, <2>7, <2>8, <2>9, <3>1, ChangeFits
  <2>11. \A k \in 1 .. Len(e.transfers) : f.transfers[k].id = e.transfers[k].id
                                          /\ f.transfers[k].upload = e.transfers[k].upload
    BY <2>5, <2>7, <2>8
  <2> QED
    BY <2>5, <2>7, <2>10, <2>11 DEF f
<1> QED
  BY <1>7, <1>8

\* What a step does to the folders: what it changes is in a report of its own,
\* and a listing has all there is.
Tells(f, e, ops, ups) ==
  /\ (\A k \in 1 .. Len(e.transfers) : e.transfers[k].upload => e.transfers[k].id \in ups) =>
       \A k \in 1 .. Len(f.transfers) : f.transfers[k].upload => f.transfers[k].id \in ups
  /\ \/ f.out = e.out /\ f.due = e.due
     \/ \E r \in ReportRecord :
          /\ f.out = Append(e.out, r)
          /\ \A d \in Dirs : f.due[d] = e.due[d] \/ Changed(r, d, ops, ups)
          /\ r.type = "listed" /\ r.good => r.dir \in Dirs /\ r.seen >= f.due[r.dir]

\* The transfers an engine has are known, its listings and what it did since a
\* moment are in its reports.
Fresh(e, from, ops, ups) ==
  /\ \A k \in 1 .. Len(e.transfers) : e.transfers[k].upload => e.transfers[k].id \in ups
  /\ ListsFit(e.out, e.due, ops, ups)
  /\ \A d \in Dirs : e.due[d] = from[d] \/ \E j \in 1 .. Len(e.out) : Changed(e.out[j], d, ops, ups)

LEMMA FreshKept ==
  ASSUME NEW e \in EngineRecord, NEW f, NEW from, NEW ops, NEW ups,
         Fresh(e, from, ops, ups), Tells(f, e, ops, ups)
  PROVE  Fresh(f, from, ops, ups)
<1>1. \A k \in 1 .. Len(f.transfers) : f.transfers[k].upload => f.transfers[k].id \in ups
  BY DEF Fresh, Tells
<1>2. CASE f.out = e.out /\ f.due = e.due
  BY <1>1, <1>2 DEF Fresh
<1>3. CASE \E r \in ReportRecord :
             /\ f.out = Append(e.out, r)
             /\ \A d \in Dirs : f.due[d] = e.due[d] \/ Changed(r, d, ops, ups)
             /\ r.type = "listed" /\ r.good => r.dir \in Dirs /\ r.seen >= f.due[r.dir]
  <2>1. PICK r \in ReportRecord :
          /\ f.out = Append(e.out, r)
          /\ \A d \in Dirs : f.due[d] = e.due[d] \/ Changed(r, d, ops, ups)
          /\ r.type = "listed" /\ r.good => r.dir \in Dirs /\ r.seen >= f.due[r.dir]
    BY <1>3
  <2> DEFINE n == Len(e.out)
             q == e.out
             p == f.out
  <2>2. q \in Seq(ReportRecord)
    BY DEF EngineRecord
  <2>3. /\ n \in Nat /\ Len(p) = n + 1 /\ p[n + 1] = r /\ n + 1 \in 1 .. Len(p)
        /\ \A k \in 1 .. n : k \in 1 .. Len(p) /\ p[k] = q[k] /\ k < n + 1
        /\ \A k \in 1 .. Len(p) : k \in 1 .. n \/ k = n + 1
    <3>1. /\ n \in Nat /\ Len(Append(q, r)) = n + 1 /\ Append(q, r)[n + 1] = r
          /\ \A k \in 1 .. n : Append(q, r)[k] = q[k]
      BY <2>2
    <3> HIDE DEF q
    <3> QED
      BY <2>1, <3>1 DEF q
  <2>4. ASSUME NEW d \in Dirs
        PROVE  f.due[d] = from[d] \/ \E j \in 1 .. Len(p) : Changed(p[j], d, ops, ups)
    <3>1. e.due[d] = from[d] \/ \E j \in 1 .. n : Changed(q[j], d, ops, ups)
      BY DEF Fresh
    <3>2. f.due[d] = e.due[d] \/ Changed(r, d, ops, ups)
      BY <2>1
    <3> HIDE DEF n, p, q
    <3> QED
      BY <2>3, <3>1, <3>2
  <2>5. ASSUME NEW i \in 1 .. Len(p), p[i].type = "listed" /\ p[i].good
        PROVE  /\ p[i].dir \in Dirs
               /\ \/ p[i].seen >= f.due[p[i].dir]
                  \/ \E j \in 1 .. Len(p) : i < j /\ Changed(p[j], p[i].dir, ops, ups)
    <3>1. CASE i = n + 1
      BY <2>1, <2>3, <2>5, <3>1
    <3>2. CASE i \in 1 .. n
      <4>1. p[i] = q[i]
        BY <2>3, <3>2
      <4> DEFINE d == q[i].dir
      <4>2. /\ d \in Dirs
            /\ \/ q[i].seen >= e.due[d]
               \/ \E j \in 1 .. n : i < j /\ Changed(q[j], d, ops, ups)
        BY <2>5, <3>2, <4>1 DEF Fresh, ListsFit
      <4>3. f.due[d] = e.due[d] \/ Changed(r, d, ops, ups)
        BY <2>1, <4>2
      <4> HIDE DEF n, p, q, d
      <4>4. \/ q[i].seen >= f.due[d]
            \/ \E j \in 1 .. Len(p) : i < j /\ Changed(p[j], d, ops, ups)
        BY <2>3, <3>2, <4>2, <4>3
      <4> QED
        BY <4>1, <4>2, <4>4 DEF d
    <3> QED
      BY <2>3, <3>1, <3>2
  <2> HIDE DEF q
  <2>6. ListsFit(p, f.due, ops, ups)
    BY <2>5 DEF ListsFit
  <2> QED
    BY <1>1, <2>4, <2>6 DEF Fresh
<1> QED
  BY <1>2, <1>3 DEF Tells

\* Of the transfers a cancel names the first stops, and the others end.
LEMMA CancelAtFits ==
  ASSUME NEW e, EngineFits(e), NEW i \in 1 .. Len(e.transfers), NEW request
  PROVE  LET f == CancelAt(e, request, i)
         IN  /\ Step(f, e, {}, {}) /\ \A ops, ups : Tells(f, e, ops, ups)
             /\ Len(f.transfers) >= i - 1
<1> DEFINE f == CancelAt(e, request, i)
           t == e.transfers[i]
           Result == /\ Step(f, e, {}, {}) /\ \A ops, ups : Tells(f, e, ops, ups)
                     /\ Len(f.transfers) >= i - 1
<1> SUFFICES Result
  OBVIOUS
<1>1. /\ e.transfers \in Seq(TransferRecord) /\ e.out \in Seq(ReportRecord)
      /\ e.changes \in [Dirs -> Nat] /\ e.due \in [Dirs -> Nat] /\ e.files \subseteq File /\ e \in EngineRecord
  BY DEF EngineFits, EngineRecord
<1>2. t \in TransferRecord /\ TransferFits(t) /\ t.made = {} /\ Len(e.transfers) \in Nat
  BY <1>1 DEF EngineFits
<1>3. CASE ~Names(request, t)
  <2>1. f = e
    BY <1>3 DEF CancelAt
  <2> HIDE DEF f
  <2>2. Step(f, e, {}, {})
    BY <2>1 DEF Step
  <2>3. ASSUME NEW ops, NEW ups
        PROVE  Tells(f, e, ops, ups)
    BY <2>1 DEF Tells
  <2> QED
    BY <1>2, <2>1, <2>2, <2>3
<1>4. CASE Names(request, t) /\ i = 1
  <2> DEFINE u == [t EXCEPT !.cancelled = TRUE]
             now == [e.transfers EXCEPT ![1] = u]
  <2>1. f = [e EXCEPT !.transfers = now]
    BY <1>4 DEF CancelAt
  <2>2. /\ u \in TransferRecord /\ u.made = {} /\ u.id = t.id /\ u.upload = t.upload
        /\ u.open = t.open /\ u.pending = t.pending /\ u.prepared = t.prepared /\ u.items = t.items
        /\ u.cancelled /\ u.error = t.error /\ u.overwrite = t.overwrite
        /\ u.late = t.late /\ u.eof = t.eof /\ u.begun = t.begun /\ u.source = t.source
        /\ u.copy = t.copy /\ u.requested = t.requested /\ u.restart = t.restart /\ u.before = t.before
    BY <1>2 DEF TransferRecord
  <2> HIDE DEF u, t
  <2>3. Stopping(u)
    BY <2>2 DEF Stopping
  <2>4. TransferFits(u)
    <3>1. CASE t.open /\ t.upload
      <4>1. UploadFits(t)
        BY <1>2, <3>1 DEF TransferFits, ItemFits
      <4>2. UploadFits(u)
        BY <2>2, <4>1 DEF UploadFits
      <4> QED
        BY <1>2, <2>2, <3>1, <4>2 DEF ItemFits, TransferFits
    <3>2. CASE t.open /\ ~t.upload
      <4>1. DownloadFits(t)
        BY <1>2, <3>2 DEF TransferFits, ItemFits
      <4>2. DownloadFits(u)
        BY <2>2, <2>3, <4>1 DEF DownloadFits
      <4> QED
        BY <1>2, <2>2, <3>2, <4>2 DEF ItemFits, TransferFits
    <3>3. CASE ~t.open
      BY <1>2, <2>2, <3>3 DEF TransferFits
    <3> QED
      BY <3>1, <3>2, <3>3
  <2>5. /\ now \in Seq(TransferRecord) /\ Len(now) = Len(e.transfers) /\ now[1] = u
        /\ \A k \in 1 .. Len(e.transfers) : k # 1 => now[k] = e.transfers[k]
    BY <1>1, <1>2, <1>4, <2>2
  <2> HIDE DEF now
  <2>6. /\ f \in EngineRecord /\ f.transfers = now /\ f.out = e.out /\ f.files = e.files \cup {}
        /\ f.due = e.due /\ DueFits(f)
    <3>1. /\ f \in EngineRecord /\ f.transfers = now /\ f.out = e.out /\ f.files = e.files
          /\ f.due = e.due /\ f.changes = e.changes
      BY <1>1, <2>1, <2>5 DEF EngineRecord
    <3> QED
      BY <3>1 DEF EngineFits, DueFits
  <2> HIDE DEF f
  <2>7. 1 \in 1 .. Len(e.transfers) /\ u.id = e.transfers[1].id /\ u.upload = e.transfers[1].upload
    BY <1>2, <1>4, <2>2 DEF t
  <2>8. Step(f, e, {}, {})
    BY <2>2, <2>3, <2>4, <2>5, <2>6, <2>7, ChangeFits
  <2>9. ASSUME NEW ops, NEW ups
        PROVE  Tells(f, e, ops, ups)
    BY <2>5, <2>6, <2>7 DEF Tells
  <2> QED
    BY <1>2, <2>5, <2>6, <2>8, <2>9
<1>5. CASE Names(request, t) /\ i # 1
  <2> DEFINE rest == RemoveAt(e.transfers, i)
             r == Report("transferred", t.id, None, FALSE, 0)
  <2>1. f = [e EXCEPT !.transfers = rest, !.out = Append(e.out, r)]
    BY <1>5 DEF CancelAt
  <2>2. /\ rest \in Seq(TransferRecord) /\ Len(rest) = Len(e.transfers) - 1
        /\ \A k \in 1 .. Len(rest) : \E j \in 1 .. Len(e.transfers) : rest[k] = e.transfers[j]
        /\ Ids(e.transfers) = Ids(rest) \cup {t.id} /\ Unique(rest) /\ t.id \notin Ids(rest)
    <3>1. Unique(e.transfers)
      BY DEF EngineFits
    <3>2. /\ rest \in Seq(TransferRecord) /\ Len(e.transfers) \in Nat /\ Len(rest) = Len(e.transfers) - 1
          /\ \A k \in 1 .. Len(rest) : \E j \in 1 .. Len(e.transfers) : j # i /\ rest[k] = e.transfers[j]
          /\ Ids(e.transfers) = Ids(rest) \cup {e.transfers[i].id}
          /\ Unique(e.transfers) => Unique(rest) /\ e.transfers[i].id \notin Ids(rest)
      BY <1>1, RemoveIs
    <3> HIDE DEF rest
    <3> QED
      BY <3>1, <3>2
  <2>3. r \in ReportRecord /\ IsReport(r) /\ r.id = t.id /\ r.type = "transferred" /\ r.good = FALSE
    <3>1. t.id \in Nat
      BY <1>2, TransferTypes
    <3> QED
      BY <3>1 DEF Report, ReportRecord, ReportType, IsReport
  <2> HIDE DEF rest, r
  <2>4. Append(e.out, r) \in Seq(ReportRecord)
    BY <1>1, <2>3, AppendIs
  <2>5. f \in EngineRecord /\ f.transfers = rest /\ f.out = Append(e.out, r) /\ f.files = e.files \cup {}
        /\ f.due = e.due /\ DueFits(f)
    <3>1. /\ f \in EngineRecord /\ f.transfers = rest /\ f.out = Append(e.out, r) /\ f.files = e.files
          /\ f.due = e.due /\ f.changes = e.changes
      BY <1>1, <2>1, <2>2, <2>4 DEF EngineRecord
    <3> QED
      BY <3>1 DEF EngineFits, DueFits
  <2> HIDE DEF f
  <2>6. r.id \notin Ids(e.out) /\ r.id \notin Ids(f.transfers)
    BY <2>2, <2>3, <2>5 DEF EngineFits
  <2>7. /\ EngineFits(f) /\ Ids(f.out) = Ids(e.out) \cup {r.id}
        /\ Reported(f.out) = Reported(e.out) \cup Own(r)
    <3>1. /\ \A k \in 1 .. Len(f.transfers) : \E j \in 1 .. Len(e.transfers) : f.transfers[k] = e.transfers[j]
          /\ Unique(f.transfers)
      BY <2>2, <2>5
    <3>2. \A x \in f.files : Half(x) /\ x.id = r.id /\ r.type = "transferred" => ~r.good
      BY <2>3
    <3> DEFINE new == {}
    <3>3. (\A x \in new : FileFits(x) /\ x.id = r.id) /\ f.files = e.files \cup new
      BY <2>5
    <3> HIDE DEF new
    <3> QED
      BY ZenonT(60), <2>3, <2>5, <2>6, <3>1, <3>2, <3>3, ReportFits
  <2>8. Step(f, e, {}, {})
    BY <2>2, <2>3, <2>5, <2>7 DEF Step, Numbers, Moved, Own
  <2>9. ASSUME NEW ops, NEW ups
        PROVE  Tells(f, e, ops, ups)
    BY <2>2, <2>3, <2>5 DEF Tells
  <2> QED
    BY <1>2, <2>2, <2>5, <2>8, <2>9
<1> QED
  BY <1>3, <1>4, <1>5

\* One step after another.
LEMMA StepThen ==
  ASSUME NEW e, NEW f, NEW g, NEW m, NEW n, NEW s, NEW t, Step(f, e, m, s), Step(g, f, n, t)
  PROVE  Step(g, e, m \cup n, s \cup t)
BY DEF Step

LEMMA NoStep ==
  ASSUME NEW e, EngineFits(e)
  PROVE  Step(e, e, {}, {}) /\ \A ops, ups : Tells(e, e, ops, ups)
BY DEF Step, Tells

\* The rounds of a cancel.
LEMMA CancelRounds ==
  ASSUME NEW e, NEW request, Len(e.transfers) \in Nat
  PROVE  \E run : /\ RunCancel(e, request) = run[Len(e.transfers)]
                  /\ run[0] = e
                  /\ \A k \in 1 .. Len(e.transfers) : run[k] = CancelAt(run[k - 1], request, Len(e.transfers) - k + 1)
<1> DEFINE n == Len(e.transfers)
           Round(v, k) == CancelAt(v, request, Len(e.transfers) - k + 1)
           At(run, k) == IF k = 0 THEN e ELSE Round(run[k - 1], k)
           Runs(run, m) == run = [k \in 0 .. m |-> At(run, k)]
           all == CHOOSE run : Runs(run, n)
           P == {m \in Nat : \E run : Runs(run, m)}
<1>1. RunCancel(e, request) = all[n]
  BY DEF Repeated, RunCancel
<1>2. n \in Nat
  OBVIOUS
<1> HIDE DEF Round, n
<1>3. 0 \in P
  <2>1. Runs([k \in 0 .. 0 |-> e], 0)
    OBVIOUS
  <2> QED
    BY <2>1
<1>4. ASSUME NEW m \in 1 .. n, m - 1 \in P
      PROVE  m \in P
  <2>1. PICK run : Runs(run, m - 1)
    BY <1>4
  <2> DEFINE more == [k \in 0 .. m |-> IF k = m THEN Round(run[m - 1], m) ELSE run[k]]
  <2>2. /\ more = [k \in 0 .. m |-> more[k]]
        /\ more[m] = Round(run[m - 1], m) /\ \A k \in 0 .. m - 1 : more[k] = run[k]
    OBVIOUS
  <2>3. \A k \in 0 .. m - 1 : run[k] = At(run, k)
    BY <2>1
  <2> HIDE DEF more
  <2>4. ASSUME NEW k \in 0 .. m
        PROVE  more[k] = At(more, k)
    <3>1. k # 0 => more[k - 1] = run[k - 1]
      <4>1. k # 0 => k - 1 \in 0 .. m - 1
        OBVIOUS
      <4> QED
        BY <2>2, <4>1
    <3>2. CASE k = m
      BY <2>2, <3>1, <3>2
    <3>3. CASE k \in 0 .. m - 1
      BY <2>2, <2>3, <3>1, <3>3
    <3> QED
      BY <3>2, <3>3
  <2>5. Runs(more, m)
    BY <2>2, <2>4
  <2> HIDE DEF Runs
  <2> QED
    BY <2>5
<1>5. n \in P
  <2> HIDE DEF P
  <2> QED
    BY ONLY <1>2, <1>3, <1>4, Upward
<1>6. Runs(all, n)
  <2> HIDE DEF Runs
  <2> QED
    BY <1>5
<1> HIDE DEF all
<1>7. all[0] = e /\ \A k \in 1 .. n : all[k] = Round(all[k - 1], k)
  <2>1. \A k \in 0 .. n : all[k] = At(all, k)
    BY <1>6
  <2> QED
    BY <1>2, <2>1
<1> QED
  BY <1>1, <1>7 DEF Round, n

LEMMA RunCancelFits ==
  ASSUME NEW e, EngineFits(e), NEW request, NEW from, NEW ops, NEW ups, Fresh(e, from, ops, ups)
  PROVE  LET f == RunCancel(e, request)
         IN  Step(f, e, {}, {}) /\ Fresh(f, from, ops, ups)
<1> DEFINE n == Len(e.transfers)
<1>1. n \in Nat
  BY DEF EngineFits, EngineRecord
<1>2. PICK run : /\ RunCancel(e, request) = run[n]
                 /\ run[0] = e
                 /\ \A k \in 1 .. n : run[k] = CancelAt(run[k - 1], request, n - k + 1)
  BY ONLY SMTT(60), <1>1, CancelRounds
<1> HIDE DEF n
<1> DEFINE Good(f, k) == Step(f, e, {}, {}) /\ Fresh(f, from, ops, ups) /\ Len(f.transfers) >= n - k
           P == {k \in Nat : Good(run[k], k)}
<1>3. 0 \in P
  <2>1. Good(e, 0)
    BY <1>1, NoStep DEF n
  <2> HIDE DEF Good
  <2> QED
    BY <1>2, <2>1
<1>4. ASSUME NEW k \in 1 .. n, k - 1 \in P
      PROVE  k \in P
  <2> DEFINE f == run[k - 1]
             i == n - k + 1
             g == CancelAt(f, request, i)
  <2>1. Good(f, k - 1)
    BY <1>4
  <2>2. run[k] = g
    BY <1>2
  <2> HIDE DEF f
  <2>3. EngineFits(f) /\ f \in EngineRecord /\ Len(f.transfers) \in Nat
    BY <2>1 DEF Step, EngineFits, EngineRecord
  <2>4. i \in 1 .. Len(f.transfers) /\ i - 1 = n - k
    BY <1>1, <2>1, <2>3
  <2> HIDE DEF i
  <2>5. Step(g, f, {}, {}) /\ Tells(g, f, ops, ups) /\ Len(g.transfers) >= i - 1
    BY <2>3, <2>4, CancelAtFits
  <2> HIDE DEF g
  <2>6. Fresh(g, from, ops, ups)
    BY <2>1, <2>3, <2>5, FreshKept
  <2>7. Step(g, e, {}, {})
    <3>1. Step(g, e, {} \cup {}, {} \cup {})
      BY <2>1, <2>5, StepThen
    <3> QED
      BY <3>1
  <2>8. Good(g, k)
    BY <2>4, <2>5, <2>6, <2>7
  <2> HIDE DEF Good
  <2> QED
    BY <2>2, <2>8
<1>5. \A k \in 0 .. n : k \in P
  <2> HIDE DEF P
  <2> QED
    BY ONLY <1>1, <1>3, <1>4, Upward
<1>6. Good(run[n], n)
  BY <1>1, <1>5
<1> QED
  BY <1>2, <1>6

\* A report of what was never in the engine.
LEMMA AddReportFits ==
  ASSUME NEW e, EngineFits(e), NEW r \in ReportRecord, IsReport(r), r.id \notin Numbers(e),
         r.type = "transferred" => ~r.good, NEW f \in EngineRecord, DueFits(f),
         f.transfers = e.transfers, f.out = Append(e.out, r), f.files = e.files
  PROVE  Step(f, e, {r.id}, Own(r))
<1> DEFINE new == {}
<1>1. (\A x \in new : FileFits(x) /\ x.id = r.id) /\ f.files = e.files \cup new
  OBVIOUS
<1> HIDE DEF new
<1>2. /\ \A k \in 1 .. Len(f.transfers) : \E j \in 1 .. Len(e.transfers) : f.transfers[k] = e.transfers[j]
      /\ Unique(f.transfers)
  BY DEF EngineFits
<1>3. r.id \notin Ids(e.out) /\ r.id \notin Ids(f.transfers)
  BY DEF Numbers
<1>4. \A x \in f.files : Half(x) /\ x.id = r.id /\ r.type = "transferred" => ~r.good
  OBVIOUS
<1>5. /\ EngineFits(f) /\ Ids(f.out) = Ids(e.out) \cup {r.id}
      /\ Reported(f.out) = Reported(e.out) \cup Own(r)
  BY ZenonT(60), <1>1, <1>2, <1>3, <1>4, ReportFits
<1>6. Step(f, e, {r.id}, Own(r))
  BY <1>5 DEF Step, Numbers, Moved
<1> QED
  BY <1>6

\* A transfer is taken.
LEMMA TakeFits ==
  ASSUME NEW e, EngineFits(e), NEW t \in TransferRecord, TransferFits(t), t.made = {},
         t.id \notin Numbers(e), \A x \in e.files : x.id # t.id,
         NEW f, f = [e EXCEPT !.transfers = Append(e.transfers, t)]
  PROVE  /\ Step(f, e, {t.id}, {t.id}) /\ f.out = e.out /\ f.due = e.due
         /\ f.transfers = Append(e.transfers, t)
<1>1. /\ e.transfers \in Seq(TransferRecord) /\ e.out \in Seq(ReportRecord)
      /\ e.changes \in [Dirs -> Nat] /\ e.due \in [Dirs -> Nat] /\ e.files \subseteq File /\ e \in EngineRecord
      /\ Unique(e.transfers) /\ Unique(e.out) /\ Ids(e.transfers) \cap Ids(e.out) = {}
  BY DEF EngineFits, EngineRecord
<1> DEFINE q == Append(e.transfers, t)
<1>2. /\ q \in Seq(TransferRecord) /\ Len(e.transfers) \in Nat /\ q[Len(e.transfers) + 1] = t
      /\ \A k \in 1 .. Len(e.transfers) : k \in 1 .. Len(q) /\ q[k] = e.transfers[k]
      /\ \A k \in 1 .. Len(q) : k \in 1 .. Len(e.transfers) \/ k = Len(e.transfers) + 1
      /\ Ids(q) = Ids(e.transfers) \cup {t.id}
      /\ Unique(e.transfers) /\ t.id \notin Ids(e.transfers) => Unique(q)
  BY ONLY <1>1, t \in TransferRecord, AppendIs
<1> HIDE DEF q
<1>3. t.id \notin Ids(e.transfers) /\ t.id \notin Ids(e.out)
  BY DEF Numbers
<1>4. /\ f \in EngineRecord /\ f.transfers = q /\ f.out = e.out
      /\ f.files = e.files /\ f.due = e.due /\ DueFits(f)
  <2>1. /\ f \in EngineRecord /\ f.transfers = q /\ f.out = e.out
        /\ f.files = e.files /\ f.due = e.due /\ f.changes = e.changes
    BY <1>1, <1>2 DEF EngineRecord, q
  <2> QED
    BY <2>1 DEF EngineFits, DueFits
<1>5. \A k \in 1 .. Len(q) : TransferFits(q[k]) /\ q[k].made = {}
  BY <1>2 DEF EngineFits
<1>6. \A x \in e.files : Half(x) => \A k \in 1 .. Len(q) : q[k].id = x.id => Stopping(q[k])
  BY <1>2 DEF EngineFits
<1>7. EngineFits(f)
  <2>1. /\ \A i \in 1 .. Len(e.out) : IsReport(e.out[i])
        /\ \A x \in e.files : FileFits(x)
        /\ \A x \in e.files : Half(x) => \A i \in 1 .. Len(e.out) :
             e.out[i].id = x.id /\ e.out[i].type = "transferred" => ~e.out[i].good
    BY DEF EngineFits
  <2>2. Unique(q) /\ Ids(q) \cap Ids(e.out) = {}
    BY <1>1, <1>2, <1>3
  <2> QED
    BY ONLY <1>1, <1>4, <1>5, <1>6, <2>1, <2>2 DEF EngineFits
<1>8. Step(f, e, {t.id}, {t.id})
  BY <1>2, <1>4, <1>7 DEF Step, Numbers, Moved
<1> QED
  BY <1>4, <1>8 DEF q

-----------------------------------------------------------------------------
(* The requests of an inbox *)

\* The numbers of the first k requests, and those of transfers.
Nums(requests, k) == {requests[i].id : i \in {j \in 1 .. k : Counts(requests[j])}}
TransferNums(requests, k) == {requests[i].id : i \in {j \in 1 .. k : IsTransfer(requests[j])}}

\* Requests an engine can take.
RequestsFit(e, requests) ==
  /\ Len(requests) \in Nat /\ \A i \in 1 .. Len(requests) : RequestFits(requests[i])
  /\ \A i, j \in 1 .. Len(requests) :
       Counts(requests[i]) /\ Counts(requests[j]) /\ requests[i].id = requests[j].id => i = j
  /\ \A i \in 1 .. Len(requests) : Counts(requests[i]) =>
       requests[i].id \notin Numbers(e) /\ \A x \in e.files : x.id # requests[i].id

\* Requests the browser still knows of.
RequestsKnown(requests, ops, ups) ==
  \A i \in 1 .. Len(requests) :
    /\ requests[i].type = "operate" => [id |-> requests[i].id, dir |-> requests[i].dir] \in ops
    /\ requests[i].type = "upload" => requests[i].id \in ups

LEMMA NumsIs ==
  ASSUME NEW requests, NEW k \in Nat \ {0}
  PROVE  /\ Nums(requests, k) = Nums(requests, k - 1) \cup (IF Counts(requests[k]) THEN {requests[k].id} ELSE {})
         /\ TransferNums(requests, k) =
              TransferNums(requests, k - 1) \cup (IF IsTransfer(requests[k]) THEN {requests[k].id} ELSE {})
<1>1. \A i \in 1 .. k : i \in 1 .. k - 1 \/ i = k
  OBVIOUS
<1>2. k \in 1 .. k /\ \A i \in 1 .. k - 1 : i \in 1 .. k
  OBVIOUS
<1>3. ASSUME NEW x
      PROVE  x \in Nums(requests, k) <=>
               x \in Nums(requests, k - 1) \cup (IF Counts(requests[k]) THEN {requests[k].id} ELSE {})
  <2>1. x \in Nums(requests, k) <=> \E i \in 1 .. k : Counts(requests[i]) /\ x = requests[i].id
    BY DEF Nums
  <2>2. x \in Nums(requests, k - 1) <=> \E i \in 1 .. k - 1 : Counts(requests[i]) /\ x = requests[i].id
    BY DEF Nums
  <2> QED
    BY <1>1, <1>2, <2>1, <2>2
<1>4. ASSUME NEW x
      PROVE  x \in TransferNums(requests, k) <=>
               x \in TransferNums(requests, k - 1) \cup (IF IsTransfer(requests[k]) THEN {requests[k].id} ELSE {})
  <2>1. x \in TransferNums(requests, k) <=> \E i \in 1 .. k : IsTransfer(requests[i]) /\ x = requests[i].id
    BY DEF TransferNums
  <2>2. x \in TransferNums(requests, k - 1) <=> \E i \in 1 .. k - 1 : IsTransfer(requests[i]) /\ x = requests[i].id
    BY DEF TransferNums
  <2> QED
    BY <1>1, <1>2, <2>1, <2>2
<1> QED
  BY <1>3, <1>4

LEMMA MovedNumbers ==
  ASSUME NEW e
  PROVE  Moved(e) \subseteq Numbers(e)
BY DEF Moved, Numbers, Reported, Ids

LEMMA HomeIs == Home \in Dirs
BY FilesAssumption DEF Home

\* One request.
LEMMA RunFits ==
  ASSUME NEW e, EngineFits(e), NEW request, RequestFits(request), NEW outcome,
         Counts(request) => request.id \notin Numbers(e) /\ \A x \in e.files : x.id # request.id,
         NEW from, NEW ops, NEW ups, Fresh(e, from, ops, ups),
         request.type = "operate" => [id |-> request.id, dir |-> request.dir] \in ops,
         request.type = "upload" => request.id \in ups
  PROVE  LET f == Run(e, request, outcome)
         IN  /\ Step(f, e, IF Counts(request) THEN {request.id} ELSE {},
                           IF IsTransfer(request) THEN {request.id} ELSE {})
             /\ Fresh(f, from, ops, ups)
<1> DEFINE f == Run(e, request, outcome)
           good == outcome = "done"
           d == IF request.dir = None THEN Home ELSE request.dir
           Result == /\ Step(f, e, IF Counts(request) THEN {request.id} ELSE {},
                                   IF IsTransfer(request) THEN {request.id} ELSE {})
                     /\ Fresh(f, from, ops, ups)
<1> SUFFICES Result
  OBVIOUS
<1>1. /\ request.type \in RequestType /\ request.id \in Nat /\ request.dir \in Dirs \cup {None}
      /\ request.type \notin {"list", "cancel"} => request.dir # None
  BY DEF RequestFits, RequestRecord
<1>2. d \in Dirs
  BY <1>1, HomeIs
<1>3. /\ e.transfers \in Seq(TransferRecord) /\ e.out \in Seq(ReportRecord)
      /\ e.changes \in [Dirs -> Nat] /\ e.due \in [Dirs -> Nat] /\ e \in EngineRecord
  BY DEF EngineFits, EngineRecord
<1>4. CASE request.type = "cancel"
  <2> DEFINE g == RunCancel(e, request)
  <2>1. f = g
    BY <1>4 DEF Run
  <2>2. Step(g, e, {}, {}) /\ Fresh(g, from, ops, ups)
    BY RunCancelFits
  <2> HIDE DEF f, g
  <2> QED
    BY <1>4, <2>1, <2>2 DEF Counts, IsTransfer
<1>5. CASE IsTransfer(request)
  <2> DEFINE t == NewTransfer(request)
  <2>1. f = [e EXCEPT !.transfers = Append(e.transfers, t)]
    BY <1>5 DEF Run, IsTransfer
  <2>2. TransferFits(t) /\ t.made = {} /\ t.id = request.id /\ t.upload = (request.type = "upload")
    BY <1>5, NewTransferFits
  <2>3. Counts(request)
    BY <1>5 DEF Counts, IsTransfer
  <2> HIDE DEF f, t
  <2>4. t \in TransferRecord
    BY <2>2 DEF TransferFits
  <2>5. t.id \notin Numbers(e) /\ \A x \in e.files : x.id # t.id
    BY <2>2, <2>3
  <2>6. /\ Step(f, e, {t.id}, {t.id}) /\ f.out = e.out /\ f.due = e.due
        /\ f.transfers = Append(e.transfers, t)
    BY <2>1, <2>2, <2>4, <2>5, TakeFits
  <2>7. Tells(f, e, ops, ups)
    <3>1. \A k \in 1 .. Len(f.transfers) :
            \/ k \in 1 .. Len(e.transfers) /\ f.transfers[k] = e.transfers[k]
            \/ f.transfers[k] = t
      BY ONLY <1>3, <2>4, <2>6, AppendIs
    <3>2. t.upload => t.id \in ups
      BY <2>2
    <3> QED
      BY <2>6, <3>1, <3>2 DEF Tells
  <2>8. Fresh(f, from, ops, ups)
    BY <1>3, <2>7, FreshKept
  <2> QED
    BY <1>5, <2>2, <2>3, <2>6, <2>8
<1>6. CASE request.type = "list"
  <2> DEFINE seen == IF outcome = "refused" THEN NoEntries ELSE e.changes[d]
             r == Report("listed", request.id, d, good, seen)
  <2>1. f = [e EXCEPT !.out = Append(e.out, r)]
    BY <1>6 DEF Run
  <2>9. seen \in Nat \cup {NoEntries} /\ (good => seen = e.changes[d])
    BY <1>2, <1>3
  <2>10. good \in BOOLEAN /\ e.changes[d] >= e.due[d]
    BY <1>2, <1>3 DEF EngineFits, DueFits
  <2> HIDE DEF seen, good
  <2>2. r \in ReportRecord /\ r.type = "listed" /\ r.id = request.id /\ r.dir = d
        /\ (r.good => r.seen >= e.due[d])
    BY <1>1, <1>2, <1>3, <2>9, <2>10 DEF Report, ReportRecord, ReportType
  <2> HIDE DEF r, f
  <2>3. /\ f \in EngineRecord /\ f.due = e.due /\ f.files = e.files
        /\ f.transfers = e.transfers /\ f.out = Append(e.out, r) /\ DueFits(f)
    <3>1. Append(e.out, r) \in Seq(ReportRecord)
      BY ONLY <1>3, <2>2, AppendIs
    <3>2. /\ f \in EngineRecord /\ f.due = e.due /\ f.files = e.files /\ f.changes = e.changes
          /\ f.transfers = e.transfers /\ f.out = Append(e.out, r)
      BY <1>3, <2>1, <3>1 DEF EngineRecord
    <3> QED
      BY <3>2 DEF EngineFits, DueFits
  <2>4. Counts(request) /\ ~IsTransfer(request) /\ Own(r) = {}
    BY <1>6, <2>2 DEF Counts, IsTransfer, Own
  <2>5. IsReport(r) /\ r.id \notin Numbers(e) /\ r.type # "transferred"
    BY <2>2, <2>4 DEF IsReport
  <2>6. Step(f, e, {r.id}, Own(r))
    BY <2>2, <2>3, <2>5, AddReportFits
  <2>7. Tells(f, e, ops, ups)
    BY <1>2, <2>2, <2>3 DEF Tells
  <2>8. Fresh(f, from, ops, ups)
    BY <1>3, <2>7, FreshKept
  <2> QED
    BY <2>2, <2>4, <2>6, <2>8
<1>7. CASE request.type = "operate"
  <2> DEFINE r == Report("done", request.id, d, good, 0)
             now == IF good THEN OneMore(e.changes, d) ELSE e.changes
             done == [e.due EXCEPT ![d] = IF good THEN e.changes[d] + 1 ELSE e.due[d]]
  <2>1. f = [e EXCEPT !.changes = now, !.due = done, !.out = Append(e.out, r)]
    BY <1>7 DEF Run
  <2>12. good \in BOOLEAN
    OBVIOUS
  <2> HIDE DEF good
  <2>2. r \in ReportRecord /\ r.type = "done" /\ r.id = request.id
    BY <1>1, <1>2, <1>3, <2>12 DEF Report, ReportRecord, ReportType
  <2>3. d = request.dir
    BY <1>1, <1>7
  <2>4. /\ now \in [Dirs -> Nat] /\ done \in [Dirs -> Nat]
        /\ \A c \in Dirs : done[c] = e.due[c] \/ c = d
        /\ \A c \in Dirs : done[c] <= now[c]
    <3>1. \A c \in Dirs : e.due[c] <= e.changes[c] /\ e.due[c] \in Nat /\ e.changes[c] \in Nat
      BY <1>3 DEF EngineFits, DueFits
    <3>2. CASE good
      <4>1. /\ now = OneMore(e.changes, d) /\ done = [e.due EXCEPT ![d] = e.changes[d] + 1]
        BY <3>2
      <4> HIDE DEF now, done, d
      <4>2. /\ now \in [Dirs -> Nat] /\ now[d] = e.changes[d] + 1
            /\ \A c \in Dirs : c # d => now[c] = e.changes[c]
        BY <1>2, <1>3, <3>1, <4>1 DEF OneMore
      <4>3. /\ done \in [Dirs -> Nat] /\ done[d] = e.changes[d] + 1
            /\ \A c \in Dirs : c # d => done[c] = e.due[c]
        BY <1>2, <1>3, <3>1, <4>1
      <4>4. ASSUME NEW c \in Dirs
            PROVE  done[c] <= now[c]
        BY <1>2, <3>1, <4>2, <4>3
      <4> QED
        BY <4>2, <4>3, <4>4
    <3>3. CASE ~good
      <4>1. now = e.changes /\ done = e.due
        BY <1>3, <3>3
      <4> QED
        BY <1>3, <3>1, <4>1
    <3> QED
      BY <3>2, <3>3
  <2> HIDE DEF r, f, now, done, d
  <2>5. Counts(request) /\ ~IsTransfer(request) /\ Own(r) = {}
    BY <1>7, <2>2 DEF Counts, IsTransfer, Own
  <2>6. IsReport(r) /\ r.id \notin Numbers(e) /\ r.type # "transferred"
    BY <2>2, <2>5 DEF IsReport
  <2>7. /\ f \in EngineRecord /\ f.due = done /\ f.files = e.files
        /\ f.transfers = e.transfers /\ f.out = Append(e.out, r) /\ DueFits(f)
    <3>1. Append(e.out, r) \in Seq(ReportRecord)
      BY ONLY <1>3, <2>2, AppendIs
    <3>2. /\ f \in EngineRecord /\ f.due = done /\ f.files = e.files /\ f.changes = now
          /\ f.transfers = e.transfers /\ f.out = Append(e.out, r)
      BY <1>3, <2>1, <2>4, <3>1 DEF EngineRecord
    <3> QED
      BY <2>4, <3>2 DEF DueFits
  <2>8. Changed(r, d, ops, ups)
    BY <1>7, <2>2, <2>3 DEF Changed
  <2>9. Tells(f, e, ops, ups)
    BY <2>2, <2>4, <2>7, <2>8 DEF Tells
  <2>10. Fresh(f, from, ops, ups)
    BY <1>3, <2>9, FreshKept
  <2>11. Step(f, e, {r.id}, Own(r))
    BY <2>2, <2>6, <2>7, AddReportFits
  <2> QED
    BY <2>2, <2>5, <2>10, <2>11
<1> QED
  BY <1>1, <1>4, <1>5, <1>6, <1>7 DEF RequestType, IsTransfer

\* The engine after each of the requests of an inbox.
Ran(run, e, requests, outcomes) ==
  /\ run[0] = e
  /\ \A k \in 1 .. Len(requests) : run[k] = Run(run[k - 1], requests[k], outcomes[k])

\* The rounds of running the requests of an inbox.
LEMMA RunRounds ==
  ASSUME NEW e, NEW requests, Len(requests) \in Nat, NEW outcomes
  PROVE  \E run : RunAll(e, requests, outcomes) = run[Len(requests)] /\ Ran(run, e, requests, outcomes)
<1> DEFINE n == Len(requests)
           Round(v, k) == Run(v, requests[k], outcomes[k])
           At(run, k) == IF k = 0 THEN e ELSE Round(run[k - 1], k)
           Runs(run, m) == run = [k \in 0 .. m |-> At(run, k)]
           all == CHOOSE run : Runs(run, n)
           P == {m \in Nat : \E run : Runs(run, m)}
<1>1. RunAll(e, requests, outcomes) = all[n]
  BY DEF Repeated, RunAll
<1>2. n \in Nat
  OBVIOUS
<1> HIDE DEF Round, n
<1>3. 0 \in P
  <2>1. Runs([k \in 0 .. 0 |-> e], 0)
    OBVIOUS
  <2> QED
    BY <2>1
<1>4. ASSUME NEW m \in 1 .. n, m - 1 \in P
      PROVE  m \in P
  <2>1. PICK run : Runs(run, m - 1)
    BY <1>4
  <2> DEFINE more == [k \in 0 .. m |-> IF k = m THEN Round(run[m - 1], m) ELSE run[k]]
  <2>2. /\ more = [k \in 0 .. m |-> more[k]]
        /\ more[m] = Round(run[m - 1], m) /\ \A k \in 0 .. m - 1 : more[k] = run[k]
    OBVIOUS
  <2>3. \A k \in 0 .. m - 1 : run[k] = At(run, k)
    BY <2>1
  <2> HIDE DEF more
  <2>4. ASSUME NEW k \in 0 .. m
        PROVE  more[k] = At(more, k)
    <3>1. k # 0 => more[k - 1] = run[k - 1]
      <4>1. k # 0 => k - 1 \in 0 .. m - 1
        OBVIOUS
      <4> QED
        BY <2>2, <4>1
    <3>2. CASE k = m
      BY <2>2, <3>1, <3>2
    <3>3. CASE k \in 0 .. m - 1
      BY <2>2, <2>3, <3>1, <3>3
    <3> QED
      BY <3>2, <3>3
  <2>5. Runs(more, m)
    BY <2>2, <2>4
  <2> HIDE DEF Runs
  <2> QED
    BY <2>5
<1>5. n \in P
  <2> HIDE DEF P
  <2> QED
    BY ONLY <1>2, <1>3, <1>4, Upward
<1>6. Runs(all, n)
  <2> HIDE DEF Runs
  <2> QED
    BY <1>5
<1> HIDE DEF all
<1>7. all[0] = e /\ \A k \in 1 .. n : all[k] = Round(all[k - 1], k)
  <2>1. \A k \in 0 .. n : all[k] = At(all, k)
    BY <1>6
  <2> QED
    BY <1>2, <2>1
<1>8. Ran(all, e, requests, outcomes)
  BY <1>7 DEF Round, n, Ran
<1> HIDE DEF n
<1>9. RunAll(e, requests, outcomes) = all[Len(requests)]
  BY <1>1 DEF n
<1> QED
  BY <1>8, <1>9

\* All the requests of an inbox.
LEMMA RunAllFits ==
  ASSUME NEW e, EngineFits(e), NEW requests, RequestsFit(e, requests), NEW outcomes,
         NEW from, NEW ops, NEW ups, Fresh(e, from, ops, ups), RequestsKnown(requests, ops, ups)
  PROVE  LET f == RunAll(e, requests, outcomes)
         IN  /\ Step(f, e, Nums(requests, Len(requests)), TransferNums(requests, Len(requests)))
             /\ Fresh(f, from, ops, ups)
<1> DEFINE n == Len(requests)
<1>1. n \in Nat
  BY DEF RequestsFit
<1>2. PICK run : RunAll(e, requests, outcomes) = run[n] /\ Ran(run, e, requests, outcomes)
  BY <1>1, RunRounds
<1>3. run[0] = e /\ \A k \in 1 .. n : run[k] = Run(run[k - 1], requests[k], outcomes[k])
  BY <1>2 DEF Ran
<1> HIDE DEF n
<1> DEFINE Good(f, k) == Step(f, e, Nums(requests, k), TransferNums(requests, k)) /\ Fresh(f, from, ops, ups)
           P == {k \in Nat : Good(run[k], k)}
<1>4. 0 \in P
  <2>1. Nums(requests, 0) = {} /\ TransferNums(requests, 0) = {}
    BY DEF Nums, TransferNums
  <2>2. Good(e, 0)
    BY <2>1, NoStep
  <2> HIDE DEF Good
  <2> QED
    BY <1>2, <1>3, <2>2
<1>5. ASSUME NEW k \in 1 .. n, k - 1 \in P
      PROVE  k \in P
  <2> DEFINE f == run[k - 1]
             request == requests[k]
             outcome == outcomes[k]
             g == Run(f, request, outcome)
             one == IF Counts(request) THEN {request.id} ELSE {}
             two == IF IsTransfer(request) THEN {request.id} ELSE {}
  <2>1. Good(f, k - 1)
    BY <1>5
  <2>2. run[k] = g
    BY <1>3
  <2> HIDE DEF f
  <2>3. EngineFits(f) /\ k \in 1 .. Len(requests)
    BY <2>1 DEF Step, n
  <2>4. RequestFits(request)
    BY <2>3 DEF RequestsFit
  <2>5. Counts(request) => request.id \notin Numbers(f) /\ \A x \in f.files : x.id # request.id
    <3> SUFFICES ASSUME Counts(request)
                 PROVE  request.id \notin Numbers(f) /\ \A x \in f.files : x.id # request.id
      OBVIOUS
    <3>1. request.id \notin Numbers(e) /\ \A x \in e.files : x.id # request.id
      BY <2>3 DEF RequestsFit
    <3>2. request.id \notin Nums(requests, k - 1)
      <4> SUFFICES ASSUME NEW i \in 1 .. k - 1, Counts(requests[i]), requests[i].id = request.id
                   PROVE  FALSE
        BY DEF Nums
      <4>1. i \in 1 .. Len(requests) /\ i # k
        BY <1>1, <2>3 DEF n
      <4> QED
        BY <2>3, <4>1 DEF RequestsFit
    <3>3. request.id \notin Numbers(f)
      BY <2>1, <3>1, <3>2 DEF Step
    <3>4. \A x \in f.files : x \in e.files \/ x.id \in Moved(f)
      BY <2>1 DEF Step
    <3> QED
      BY <3>1, <3>3, <3>4, MovedNumbers
  <2>6. /\ request.type = "operate" => [id |-> request.id, dir |-> request.dir] \in ops
        /\ request.type = "upload" => request.id \in ups
    BY <2>3 DEF RequestsKnown
  <2> HIDE DEF request, outcome
  <2>7. Step(g, f, one, two) /\ Fresh(g, from, ops, ups)
    BY <2>1, <2>3, <2>4, <2>5, <2>6, RunFits
  <2>8. /\ Nums(requests, k) = Nums(requests, k - 1) \cup one
        /\ TransferNums(requests, k) = TransferNums(requests, k - 1) \cup two
    BY NumsIs DEF request
  <2> HIDE DEF g, one, two
  <2>9. Step(g, e, Nums(requests, k - 1) \cup one, TransferNums(requests, k - 1) \cup two)
    BY <2>1, <2>7, StepThen
  <2>10. Good(g, k)
    BY <2>7, <2>8, <2>9
  <2> HIDE DEF Good
  <2> QED
    BY <2>2, <2>10
<1>6. \A k \in 0 .. n : k \in P
  <2> HIDE DEF P
  <2> QED
    BY ONLY <1>1, <1>4, <1>5, Upward
<1>7. Good(run[n], n)
  BY <1>1, <1>6
<1>8. /\ Step(run[n], e, Nums(requests, n), TransferNums(requests, n))
      /\ Fresh(run[n], from, ops, ups)
  BY <1>7
<1> QED
  BY <1>2, <1>8 DEF n

-----------------------------------------------------------------------------
(* All that an engine has fails *)

\* Nothing that succeeded is reported.
Failing(f, e) ==
  /\ f.due = e.due
  /\ (\A i \in 1 .. Len(e.out) : ~e.out[i].good) => \A i \in 1 .. Len(f.out) : ~f.out[i].good

LEMMA FailingThen ==
  ASSUME NEW e, NEW f, NEW g, Failing(f, e), Failing(g, f)
  PROVE  Failing(g, e)
BY DEF Failing

LEMMA FailingAppend ==
  ASSUME NEW e, e.out \in Seq(ReportRecord), NEW f, NEW r \in ReportRecord, ~r.good,
         f.due = e.due, f.out = Append(e.out, r)
  PROVE  Failing(f, e)
<1>1. \A k \in 1 .. Len(f.out) : f.out[k] = r \/ (k \in 1 .. Len(e.out) /\ f.out[k] = e.out[k])
  BY AppendIs
<1> QED
  BY <1>1 DEF Failing

LEMMA FailRequestFits ==
  ASSUME NEW e, EngineFits(e), NEW request, RequestFits(request),
         Counts(request) => request.id \notin Numbers(e)
  PROVE  LET f == FailRequest(e, request)
         IN  /\ Step(f, e, IF Counts(request) THEN {request.id} ELSE {},
                           IF IsTransfer(request) THEN {request.id} ELSE {})
             /\ Failing(f, e)
<1> DEFINE f == FailRequest(e, request)
           type == IF request.type = "list" THEN "listed"
                   ELSE IF request.type = "operate" THEN "done" ELSE "transferred"
           dir == IF IsTransfer(request) THEN None ELSE request.dir
           seen == IF request.type = "list" THEN NoEntries ELSE 0
           r == Report(type, request.id, dir, FALSE, seen)
           Result == /\ Step(f, e, IF Counts(request) THEN {request.id} ELSE {},
                                   IF IsTransfer(request) THEN {request.id} ELSE {})
                     /\ Failing(f, e)
<1> SUFFICES Result
  OBVIOUS
<1>1. request.type \in RequestType /\ request.id \in Nat /\ request.dir \in Dirs \cup {None}
  BY DEF RequestFits, RequestRecord
<1>2. /\ e.transfers \in Seq(TransferRecord) /\ e.out \in Seq(ReportRecord)
      /\ e.changes \in [Dirs -> Nat] /\ e.due \in [Dirs -> Nat] /\ e \in EngineRecord
  BY DEF EngineFits, EngineRecord
<1>3. CASE request.type = "cancel"
  <2>1. f = e
    BY <1>3 DEF FailRequest
  <2>2. ~Counts(request) /\ ~IsTransfer(request)
    BY <1>3 DEF Counts, IsTransfer
  <2> HIDE DEF f
  <2>3. Step(f, e, {}, {}) /\ Failing(f, e)
    BY <2>1, NoStep DEF Failing
  <2> QED
    BY <2>2, <2>3
<1>4. CASE request.type # "cancel"
  <2>1. f = [e EXCEPT !.out = Append(e.out, r)]
    BY <1>1, <1>4 DEF FailRequest, RequestType, IsTransfer
  <2>2. /\ r \in ReportRecord /\ IsReport(r) /\ r.id = request.id /\ r.good = FALSE
        /\ r.type = "transferred" <=> IsTransfer(request)
    BY <1>1, <1>4 DEF Report, ReportRecord, ReportType, IsReport, IsTransfer, RequestType
  <2> HIDE DEF r, f
  <2>3. /\ f \in EngineRecord /\ f.due = e.due /\ f.files = e.files
        /\ f.transfers = e.transfers /\ f.out = Append(e.out, r) /\ DueFits(f)
    <3>1. Append(e.out, r) \in Seq(ReportRecord)
      BY ONLY <1>2, <2>2, AppendIs
    <3>2. /\ f \in EngineRecord /\ f.due = e.due /\ f.files = e.files /\ f.changes = e.changes
          /\ f.transfers = e.transfers /\ f.out = Append(e.out, r)
      BY <1>2, <2>1, <3>1 DEF EngineRecord
    <3> QED
      BY <3>2 DEF EngineFits, DueFits
  <2>4. Counts(request) /\ r.id \notin Numbers(e)
    BY <1>4, <2>2 DEF Counts
  <2>5. Step(f, e, {r.id}, Own(r))
    BY <2>2, <2>3, <2>4, AddReportFits
  <2>6. Own(r) = IF IsTransfer(request) THEN {request.id} ELSE {}
    BY <2>2 DEF Own
  <2>7. Failing(f, e)
    BY <1>2, <2>2, <2>3, FailingAppend
  <2> QED
    BY <2>2, <2>4, <2>5, <2>6, <2>7
<1> QED
  BY <1>3, <1>4

\* The rounds of failing requests.
LEMMA FailRequestRounds ==
  ASSUME NEW e, NEW requests, Len(requests) \in Nat
  PROVE  \E run : /\ FailRequests(e, requests) = run[Len(requests)]
                  /\ run[0] = e
                  /\ \A k \in 1 .. Len(requests) : run[k] = FailRequest(run[k - 1], requests[k])
<1> DEFINE n == Len(requests)
           Round(v, k) == FailRequest(v, requests[k])
           At(run, k) == IF k = 0 THEN e ELSE Round(run[k - 1], k)
           Runs(run, m) == run = [k \in 0 .. m |-> At(run, k)]
           all == CHOOSE run : Runs(run, n)
           P == {m \in Nat : \E run : Runs(run, m)}
<1>1. FailRequests(e, requests) = all[n]
  BY DEF Repeated, FailRequests
<1>2. n \in Nat
  OBVIOUS
<1> HIDE DEF Round, n
<1>3. 0 \in P
  <2>1. Runs([k \in 0 .. 0 |-> e], 0)
    OBVIOUS
  <2> QED
    BY <2>1
<1>4. ASSUME NEW m \in 1 .. n, m - 1 \in P
      PROVE  m \in P
  <2>1. PICK run : Runs(run, m - 1)
    BY <1>4
  <2> DEFINE more == [k \in 0 .. m |-> IF k = m THEN Round(run[m - 1], m) ELSE run[k]]
  <2>2. /\ more = [k \in 0 .. m |-> more[k]]
        /\ more[m] = Round(run[m - 1], m) /\ \A k \in 0 .. m - 1 : more[k] = run[k]
    OBVIOUS
  <2>3. \A k \in 0 .. m - 1 : run[k] = At(run, k)
    BY <2>1
  <2> HIDE DEF more
  <2>4. ASSUME NEW k \in 0 .. m
        PROVE  more[k] = At(more, k)
    <3>1. k # 0 => more[k - 1] = run[k - 1]
      <4>1. k # 0 => k - 1 \in 0 .. m - 1
        OBVIOUS
      <4> QED
        BY <2>2, <4>1
    <3>2. CASE k = m
      BY <2>2, <3>1, <3>2
    <3>3. CASE k \in 0 .. m - 1
      BY <2>2, <2>3, <3>1, <3>3
    <3> QED
      BY <3>2, <3>3
  <2>5. Runs(more, m)
    BY <2>2, <2>4
  <2> HIDE DEF Runs
  <2> QED
    BY <2>5
<1>5. n \in P
  <2> HIDE DEF P
  <2> QED
    BY ONLY <1>2, <1>3, <1>4, Upward
<1>6. Runs(all, n)
  <2> HIDE DEF Runs
  <2> QED
    BY <1>5
<1> HIDE DEF all
<1>7. all[0] = e /\ \A k \in 1 .. n : all[k] = Round(all[k - 1], k)
  <2>1. \A k \in 0 .. n : all[k] = At(all, k)
    BY <1>6
  <2> QED
    BY <1>2, <2>1
<1> QED
  BY <1>1, <1>7 DEF Round, n

LEMMA FailRequestsFit ==
  ASSUME NEW e, EngineFits(e), NEW requests, RequestsFit(e, requests)
  PROVE  LET f == FailRequests(e, requests)
         IN  /\ Step(f, e, Nums(requests, Len(requests)), TransferNums(requests, Len(requests)))
             /\ Failing(f, e)
<1> DEFINE n == Len(requests)
<1>1. n \in Nat
  BY DEF RequestsFit
<1>2. PICK run : /\ FailRequests(e, requests) = run[n] /\ run[0] = e
                 /\ \A k \in 1 .. n : run[k] = FailRequest(run[k - 1], requests[k])
  BY ONLY SMTT(60), <1>1, FailRequestRounds
<1> HIDE DEF n
<1> DEFINE Good(f, k) == Step(f, e, Nums(requests, k), TransferNums(requests, k)) /\ Failing(f, e)
           P == {k \in Nat : Good(run[k], k)}
<1>3. 0 \in P
  <2>1. Nums(requests, 0) = {} /\ TransferNums(requests, 0) = {}
    BY DEF Nums, TransferNums
  <2>2. Good(e, 0)
    BY <2>1, NoStep DEF Failing
  <2> HIDE DEF Good
  <2> QED
    BY <1>2, <2>2
<1>4. ASSUME NEW k \in 1 .. n, k - 1 \in P
      PROVE  k \in P
  <2> DEFINE f == run[k - 1]
             request == requests[k]
             g == FailRequest(f, request)
             one == IF Counts(request) THEN {request.id} ELSE {}
             two == IF IsTransfer(request) THEN {request.id} ELSE {}
  <2>1. Good(f, k - 1)
    BY <1>4
  <2>2. run[k] = g
    BY <1>2
  <2> HIDE DEF f
  <2>3. EngineFits(f) /\ k \in 1 .. Len(requests)
    BY <2>1 DEF Step, n
  <2>4. RequestFits(request)
    BY <2>3 DEF RequestsFit
  <2>5. Counts(request) => request.id \notin Numbers(f)
    <3> SUFFICES ASSUME Counts(request)
                 PROVE  request.id \notin Numbers(f)
      OBVIOUS
    <3>1. request.id \notin Numbers(e)
      BY <2>3 DEF RequestsFit
    <3>2. request.id \notin Nums(requests, k - 1)
      <4> SUFFICES ASSUME NEW i \in 1 .. k - 1, Counts(requests[i]), requests[i].id = request.id
                   PROVE  FALSE
        BY DEF Nums
      <4>1. i \in 1 .. Len(requests) /\ i # k
        BY <1>1, <2>3 DEF n
      <4> QED
        BY <2>3, <4>1 DEF RequestsFit
    <3> QED
      BY <2>1, <3>1, <3>2 DEF Step
  <2> HIDE DEF request
  <2>6. Step(g, f, one, two) /\ Failing(g, f)
    BY <2>3, <2>4, <2>5, FailRequestFits
  <2>7. /\ Nums(requests, k) = Nums(requests, k - 1) \cup one
        /\ TransferNums(requests, k) = TransferNums(requests, k - 1) \cup two
    BY NumsIs DEF request
  <2> HIDE DEF g, one, two
  <2>8. Step(g, e, Nums(requests, k - 1) \cup one, TransferNums(requests, k - 1) \cup two)
    BY <2>1, <2>6, StepThen
  <2>9. Failing(g, e)
    BY <2>1, <2>6, FailingThen
  <2>10. Good(g, k)
    BY <2>7, <2>8, <2>9
  <2> HIDE DEF Good
  <2> QED
    BY <2>2, <2>10
<1>5. \A k \in 0 .. n : k \in P
  <2> HIDE DEF P
  <2> QED
    BY ONLY <1>1, <1>3, <1>4, Upward
<1>6. Good(run[n], n)
  BY <1>1, <1>5
<1>7. Step(run[n], e, Nums(requests, n), TransferNums(requests, n)) /\ Failing(run[n], e)
  BY <1>6
<1> QED
  BY <1>2, <1>7 DEF n

\* The rounds of failing transfers.
LEMMA FailTransferRounds ==
  ASSUME NEW e, NEW removable \in BOOLEAN, Len(e.transfers) \in Nat
  PROVE  \E run : /\ FailTransfers(e, removable) = run[Len(e.transfers)]
                  /\ run[0] = e
                  /\ \A k \in 1 .. Len(e.transfers) :
                       run[k] = Finish(run[k - 1], WithError(Head(run[k - 1].transfers)), "none", removable)
<1> DEFINE n == Len(e.transfers)
           Round(v, k) == Finish(v, WithError(Head(v.transfers)), "none", removable)
           At(run, k) == IF k = 0 THEN e ELSE Round(run[k - 1], k)
           Runs(run, m) == run = [k \in 0 .. m |-> At(run, k)]
           all == CHOOSE run : Runs(run, n)
           P == {m \in Nat : \E run : Runs(run, m)}
<1>1. FailTransfers(e, removable) = all[n]
  BY DEF Repeated, FailTransfers
<1>2. n \in Nat
  OBVIOUS
<1> HIDE DEF Round, n
<1>3. 0 \in P
  <2>1. Runs([k \in 0 .. 0 |-> e], 0)
    OBVIOUS
  <2> QED
    BY <2>1
<1>4. ASSUME NEW m \in 1 .. n, m - 1 \in P
      PROVE  m \in P
  <2>1. PICK run : Runs(run, m - 1)
    BY <1>4
  <2> DEFINE more == [k \in 0 .. m |-> IF k = m THEN Round(run[m - 1], m) ELSE run[k]]
  <2>2. /\ more = [k \in 0 .. m |-> more[k]]
        /\ more[m] = Round(run[m - 1], m) /\ \A k \in 0 .. m - 1 : more[k] = run[k]
    OBVIOUS
  <2>3. \A k \in 0 .. m - 1 : run[k] = At(run, k)
    BY <2>1
  <2> HIDE DEF more
  <2>4. ASSUME NEW k \in 0 .. m
        PROVE  more[k] = At(more, k)
    <3>1. k # 0 => more[k - 1] = run[k - 1]
      <4>1. k # 0 => k - 1 \in 0 .. m - 1
        OBVIOUS
      <4> QED
        BY <2>2, <4>1
    <3>2. CASE k = m
      BY <2>2, <3>1, <3>2
    <3>3. CASE k \in 0 .. m - 1
      BY <2>2, <2>3, <3>1, <3>3
    <3> QED
      BY <3>2, <3>3
  <2>5. Runs(more, m)
    BY <2>2, <2>4
  <2> HIDE DEF Runs
  <2> QED
    BY <2>5
<1>5. n \in P
  <2> HIDE DEF P
  <2> QED
    BY ONLY <1>2, <1>3, <1>4, Upward
<1>6. Runs(all, n)
  <2> HIDE DEF Runs
  <2> QED
    BY <1>5
<1> HIDE DEF all
<1>7. all[0] = e /\ \A k \in 1 .. n : all[k] = Round(all[k - 1], k)
  <2>1. \A k \in 0 .. n : all[k] = At(all, k)
    BY <1>6
  <2> QED
    BY <1>2, <2>1
<1> QED
  BY <1>1, <1>7 DEF Round, n

LEMMA FailTransfersFit ==
  ASSUME NEW e, EngineFits(e), NEW removable \in BOOLEAN
  PROVE  LET f == FailTransfers(e, removable)
         IN  Step(f, e, {}, {}) /\ Failing(f, e) /\ f.transfers = <<>>
<1> DEFINE n == Len(e.transfers)
<1>1. n \in Nat
  BY DEF EngineFits, EngineRecord
<1>2. PICK run : /\ FailTransfers(e, removable) = run[n] /\ run[0] = e
                 /\ \A k \in 1 .. n :
                      run[k] = Finish(run[k - 1], WithError(Head(run[k - 1].transfers)), "none", removable)
  BY <1>1, FailTransferRounds
<1> HIDE DEF n
<1> DEFINE Good(f, k) == Step(f, e, {}, {}) /\ Failing(f, e) /\ Len(f.transfers) = n - k
           P == {k \in Nat : Good(run[k], k)}
<1>3. 0 \in P
  <2>1. Good(e, 0)
    BY <1>1, NoStep DEF Failing, n
  <2> HIDE DEF Good
  <2> QED
    BY <1>2, <2>1
<1>4. ASSUME NEW k \in 1 .. n, k - 1 \in P
      PROVE  k \in P
  <2> DEFINE f == run[k - 1]
             h == f.transfers[1]
             t == WithError(h)
             g == Finish(f, t, "none", removable)
  <2>1. Good(f, k - 1)
    BY <1>4
  <2>2. run[k] = Finish(f, WithError(Head(f.transfers)), "none", removable)
    BY <1>2
  <2> HIDE DEF f
  <2>3. /\ EngineFits(f) /\ f.transfers \in Seq(TransferRecord) /\ f.out \in Seq(ReportRecord)
        /\ Len(f.transfers) = n - k + 1
    BY <1>1, <2>1 DEF Step, EngineFits, EngineRecord
  <2>4. 1 \in 1 .. Len(f.transfers) /\ f.transfers # <<>> /\ Head(f.transfers) = h
    BY <1>1, <2>3
  <2>5. h \in TransferRecord /\ TransferFits(h) /\ h.made = {}
    BY <2>3, <2>4 DEF EngineFits
  <2>6. run[k] = g
    BY <2>2, <2>4
  <2> HIDE DEF h
  <2>7. Becomes(t, h, h.copy, h.requested, h.pending, h.eof, h.restart, TRUE)
    BY <2>5 DEF WithError, TransferRecord, SameItem, Becomes
  <2> HIDE DEF t
  <2>8. t \in TransferRecord /\ t.id = h.id /\ t.upload = h.upload /\ Stopping(t) /\ t.made = {}
    BY <2>5, <2>7 DEF Becomes, SameItem, Stopping
  <2>9. TransferFits(t)
    <3>1. h.open /\ h.upload => UploadFits(t)
      BY <2>5, <2>7 DEF TransferFits, ItemFits, UploadFits, Becomes, SameItem
    <3>2. h.open /\ ~h.upload => DownloadFits(t)
      BY <2>5, <2>7, <2>8 DEF TransferFits, ItemFits, DownloadFits, Becomes, SameItem
    <3> QED
      BY <2>5, <2>7, <3>1, <3>2 DEF TransferFits, ItemFits, Becomes, SameItem
  <2>10. MadeFits(t)
    BY <2>8 DEF MadeFits
  <2>11. /\ Step(g, f, {}, {}) /\ g.transfers = Tail(f.transfers) /\ g.due = f.due
         /\ \E good \in BOOLEAN :
              ~good /\ g.out = Append(f.out, Report("transferred", t.id, None, good, 0))
    <3>1. t.id = f.transfers[1].id /\ t.id \in Nat
      BY <2>8, TransferTypes DEF h
    <3> QED
      BY <2>3, <2>4, <2>8, <2>9, <2>10, <3>1, FinishFits
  <2>12. PICK good \in BOOLEAN : ~good /\ g.out = Append(f.out, Report("transferred", t.id, None, good, 0))
    BY <2>11
  <2> HIDE DEF g
  <2>13. Failing(g, f)
    <3> DEFINE r == Report("transferred", t.id, None, good, 0)
    <3>1. r \in ReportRecord /\ ~r.good
      BY <2>8, <2>12, TransferTypes DEF Report, ReportRecord, ReportType
    <3> HIDE DEF r
    <3>2. g.out = Append(f.out, r)
      BY <2>12 DEF r
    <3> QED
      BY <2>3, <2>11, <3>1, <3>2, FailingAppend
  <2>14. Step(g, e, {} \cup {}, {} \cup {})
    BY <2>1, <2>11, StepThen
  <2>15. Failing(g, e)
    BY <2>1, <2>13, FailingThen
  <2>16. Len(g.transfers) = n - k
    BY <1>1, <2>3, <2>4, <2>11
  <2>17. Good(g, k)
    BY <2>14, <2>15, <2>16
  <2> HIDE DEF Good
  <2> QED
    BY <2>6, <2>17
<1>5. \A k \in 0 .. n : k \in P
  <2> HIDE DEF P
  <2> QED
    BY ONLY <1>1, <1>3, <1>4, Upward
<1>6. Good(run[n], n)
  BY <1>1, <1>5
<1>7. run[n].transfers = <<>>
  <2>1. run[n].transfers \in Seq(TransferRecord) /\ Len(run[n].transfers) = 0
    BY <1>1, <1>6 DEF Step, EngineFits, EngineRecord
  <2> QED
    BY <2>1
<1> QED
  BY <1>2, <1>6, <1>7

LEMMA FailAllFits ==
  ASSUME NEW e, EngineFits(e), NEW requests, RequestsFit(e, requests), NEW removable \in BOOLEAN
  PROVE  LET f == FailAll(e, requests, removable)
         IN  /\ Step(f, e, Nums(requests, Len(requests)), TransferNums(requests, Len(requests)))
             /\ Failing(f, e) /\ f.transfers = <<>>
<1> DEFINE g == FailRequests(e, requests)
           f == FailTransfers(g, removable)
           m == Nums(requests, Len(requests))
           s == TransferNums(requests, Len(requests))
<1>1. Step(g, e, m, s) /\ Failing(g, e)
  BY FailRequestsFit
<1>2. FailAll(e, requests, removable) = f
  BY DEF FailAll
<1> HIDE DEF g, m, s
<1>3. Step(f, g, {}, {}) /\ Failing(f, g) /\ f.transfers = <<>>
  BY <1>1, FailTransfersFit DEF Step
<1> HIDE DEF f
<1>4. Step(f, e, m \cup {}, s \cup {}) /\ Failing(f, e)
  BY <1>1, <1>3, StepThen, FailingThen
<1>5. Step(f, e, m, s)
  <2>1. m \cup {} = m /\ s \cup {} = s
    OBVIOUS
  <2> QED
    BY <1>4, <2>1
<1> QED
  BY <1>2, <1>3, <1>4, <1>5 DEF m, s

-----------------------------------------------------------------------------
(* A step of a worker *)

\* What the worker takes of its inbox is what its engine can take.
LEMMA EngineIs ==
  ASSUME IInv, NEW w \in DOMAIN workers
  PROVE  LET e == Engine(w)
         IN  /\ EngineFits(e) /\ e.out = <<>> /\ e.transfers = workers[w].transfers
             /\ e.due = due /\ e.files = files
             /\ Numbers(e) = EngineIds(w) /\ Moved(e) = EngineIds(w)
             /\ RequestsFit(e, workers[w].inbox) /\ RequestsFit(e, <<>>)
<1> DEFINE e == Engine(w)
           wk == workers[w]
<1>1. /\ wk \in WorkerRecord /\ WorkerFits(wk)
      /\ changes \in [Dirs -> Nat] /\ due \in [Dirs -> Nat] /\ files \subseteq File
      /\ \A d \in Dirs : due[d] <= changes[d]
      /\ wk.inbox \in Seq(RequestRecord) /\ wk.transfers \in Seq(TransferRecord)
  <2>1. /\ workers \in Seq(WorkerRecord) /\ WorkerFits(wk)
        /\ changes \in [Dirs -> Nat] /\ due \in [Dirs -> Nat] /\ files \subseteq File
        /\ \A d \in Dirs : due[d] <= changes[d]
    BY DEF IInv, Typed
  <2>2. wk \in WorkerRecord
    BY <2>1
  <2> QED
    BY <2>1, <2>2 DEF WorkerRecord
<1>2. /\ e.out = <<>> /\ e.transfers = wk.transfers /\ e.files = files
      /\ e.changes = changes /\ e.due = due
      /\ e \in [transfers : {wk.transfers}, out : {<<>>}, changes : {changes}, due : {due}, files : {files}]
  BY DEF Engine
<1>3. e \in EngineRecord
  <2> HIDE DEF wk
  <2>1. <<>> \in Seq(ReportRecord)
    OBVIOUS
  <2> QED
    BY <1>1, <2>1 DEF EngineRecord, Engine, wk
<1> HIDE DEF e
<1>4. Ids(e.out) = {} /\ Reported(e.out) = {} /\ Unique(e.out)
  BY <1>2 DEF Ids, Reported, Unique
<1>5. Ids(e.transfers) = EngineIds(w) /\ Numbers(e) = EngineIds(w) /\ Moved(e) = EngineIds(w)
  BY <1>2, <1>4 DEF EngineIds, Numbers, Moved
<1>6. EngineFits(e)
  <2>1. Unique(wk.transfers) /\ \A x \in files : FileFits(x)
    BY DEF IInv, Apart, HalvesFit
  <2>2. \A x \in files : Half(x) =>
          \A i \in 1 .. Len(wk.transfers) : wk.transfers[i].id = x.id => Stopping(wk.transfers[i])
    BY <1>1 DEF IInv, HalvesFit
  <2>3. \A i \in 1 .. Len(wk.transfers) : TransferFits(wk.transfers[i]) /\ wk.transfers[i].made = {}
    BY <1>1 DEF WorkerFits
  <2> HIDE DEF wk
  <2>4. Len(e.out) = 0
    BY <1>2
  <2>5. DueFits(e)
    BY <1>1, <1>2 DEF DueFits
  <2> QED
    BY <1>2, <1>3, <1>4, <2>1, <2>2, <2>3, <2>4, <2>5 DEF EngineFits
<1>7. RequestsFit(e, wk.inbox)
  <2>1. /\ Len(wk.inbox) \in Nat /\ DOMAIN wk.inbox = 1 .. Len(wk.inbox)
        /\ \A i \in 1 .. Len(wk.inbox) : RequestFits(wk.inbox[i])
    BY <1>1 DEF WorkerFits
  <2>2. \A i, j \in 1 .. Len(wk.inbox) :
          Counts(wk.inbox[i]) /\ Counts(wk.inbox[j]) /\ wk.inbox[i].id = wk.inbox[j].id => i = j
    BY <2>1 DEF IInv, Apart
  <2>3. ASSUME NEW i \in 1 .. Len(wk.inbox), Counts(wk.inbox[i])
        PROVE  wk.inbox[i].id \notin Numbers(e) /\ \A x \in e.files : x.id # wk.inbox[i].id
    <3>1. wk.inbox[i].id \in InboxIds(w)
      BY <2>1, <2>3 DEF InboxIds
    <3>2. InboxIds(w) \cap EngineIds(w) = {} /\ \A x \in files : x.id \notin InboxIds(w)
      BY DEF IInv, Apart, HalvesFit
    <3> QED
      BY <1>2, <1>5, <3>1, <3>2
  <2> HIDE DEF wk
  <2> QED
    BY <2>1, <2>2, <2>3 DEF RequestsFit
<1>8. RequestsFit(e, <<>>)
  BY DEF RequestsFit
<1> QED
  BY <1>2, <1>5, <1>6, <1>7, <1>8 DEF e

\* The answers that may have come are to what is in flight.
LEMMA LucksFit ==
  ASSUME scope \in Scope, NEW t \in TransferRecord, NEW luck \in Lucks(t)
  PROVE  LuckFits(t, luck)
<1>1. /\ luck.answers \in Answers(t) /\ luck.before \in {Absent, Old} /\ luck.removes \in BOOLEAN
      /\ luck.items \in (IF t.prepared THEN {0} ELSE 0 .. scope.items)
      /\ luck.source \in (IF t.open THEN {0} ELSE scope.sources)
  BY DEF Lucks
<1>2. scope.items \in Nat /\ scope.sources \subseteq Nat
  BY DEF Scope
<1>3. luck.items \in Nat /\ luck.source \in Nat
  BY <1>1, <1>2
<1>4. AnswersOf(t, luck.answers)
  <2> DEFINE a == luck.answers
             S == {Failed} \cup 0 .. ChunkSize
  <2>1. PICK k \in 0 .. Len(t.pending) :
          /\ a \in [1 .. k -> S]
          /\ \A i \in 1 .. k : a[i] \in IF t.upload THEN WriteAnswers(t.pending[i]) ELSE ReadAnswers(t, t.pending[i])
    BY <1>1 DEF Answers
  <2>2. Len(t.pending) \in Nat
    BY TransferTypes
  <2>3. k \in Nat /\ k <= Len(t.pending)
    BY <2>2
  <2> HIDE DEF a, S
  <2>4. a \in Seq(S) /\ Len(a) = k
    BY <2>1, <2>3
  <2>5. AnswersOf(t, a)
    BY <2>1, <2>3, <2>4 DEF AnswersOf
  <2> QED
    BY <2>5 DEF a
<1> QED
  BY <1>1, <1>3, <1>4 DEF LuckFits

\* A worker has its engine take the requests, with f what the engine becomes,
\* and what the worker adds to its reports.
Advances(w, f, requests, more) ==
  /\ workers[w].phase # "over"
  /\ workers' \in Seq(WorkerRecord) /\ Len(workers') = Len(workers)
  /\ \A v \in DOMAIN workers : v # w => workers'[v] = workers[v]
  /\ workers'[w].kind = workers[w].kind /\ workers'[w].stop = workers[w].stop
  /\ workers'[w].transfers = f.transfers /\ (workers'[w].phase # "up" => f.transfers = <<>>)
  /\ \/ requests = workers[w].inbox /\ workers'[w].inbox = <<>>
     \/ requests = <<>> /\ workers'[w].inbox = workers[w].inbox
  /\ Step(f, Engine(w), Nums(requests, Len(requests)), TransferNums(requests, Len(requests)))
  /\ more \in Seq(ReportRecord) /\ \A i \in 1 .. Len(more) : ~IsReport(more[i])
  /\ Effect(f, more)
  /\ UNCHANGED <<scope, view, list, session, cancels>>

\* Three sequences, one behind the other.
Queued(all, p, q, r) ==
  /\ Len(p) \in Nat /\ DOMAIN p = 1 .. Len(p) /\ DOMAIN all = 1 .. Len(all)
  /\ \A i \in 1 .. Len(p) : i \in 1 .. Len(all) /\ all[i] = p[i]
  /\ \A i \in 1 .. Len(q) : Len(p) + i \in 1 .. Len(all) /\ all[Len(p) + i] = q[i]
  /\ \A i \in 1 .. Len(r) : \E j \in 1 .. Len(all) : all[j] = r[i]
  /\ \A i \in 1 .. Len(all) :
       \/ i \in 1 .. Len(p) /\ all[i] = p[i]
       \/ i - Len(p) \in 1 .. Len(q) /\ all[i] = q[i - Len(p)]
       \/ \E j \in 1 .. Len(r) : i = Len(p) + Len(q) + j /\ all[i] = r[j]

LEMMA QueueIs ==
  ASSUME NEW S, NEW p \in Seq(S), NEW q \in Seq(S), NEW r \in Seq(S)
  PROVE  p \o q \o r \in Seq(S) /\ Queued(p \o q \o r, p, q, r)
<1> DEFINE both == p \o q
           all == both \o r
<1>1. /\ both \in Seq(S) /\ Len(both) = Len(p) + Len(q) /\ Len(p) \in Nat /\ Len(q) \in Nat
      /\ \A i \in 1 .. Len(p) : both[i] = p[i]
      /\ \A i \in 1 .. Len(q) : Len(p) + i \in 1 .. Len(p) + Len(q) /\ both[Len(p) + i] = q[i]
      /\ \A i \in 1 .. Len(p) + Len(q) : i \in 1 .. Len(p) \/ (i - Len(p) \in 1 .. Len(q) /\ both[i] = q[i - Len(p)])
  BY JoinIs
<1> HIDE DEF both
<1>2. /\ all \in Seq(S) /\ Len(all) = Len(both) + Len(r) /\ Len(r) \in Nat
      /\ \A i \in 1 .. Len(both) : all[i] = both[i]
      /\ \A i \in 1 .. Len(r) : Len(both) + i \in 1 .. Len(both) + Len(r) /\ all[Len(both) + i] = r[i]
      /\ \A i \in 1 .. Len(both) + Len(r) :
           i \in 1 .. Len(both) \/ (i - Len(both) \in 1 .. Len(r) /\ all[i] = r[i - Len(both)])
  <2>1. both \in Seq(S)
    BY <1>1
  <2> QED
    BY ONLY <2>1, r \in Seq(S), JoinIs
<1> HIDE DEF all
<1>3. ASSUME NEW i \in 1 .. Len(p)
      PROVE  i \in 1 .. Len(all) /\ all[i] = p[i]
  <2>1. i \in 1 .. Len(both) /\ i \in 1 .. Len(all)
    BY <1>1, <1>2
  <2> QED
    BY <1>1, <1>2, <2>1
<1>4. ASSUME NEW i \in 1 .. Len(q)
      PROVE  Len(p) + i \in 1 .. Len(all) /\ all[Len(p) + i] = q[i]
  <2>1. Len(p) + i \in 1 .. Len(both) /\ Len(p) + i \in 1 .. Len(all)
    BY <1>1, <1>2
  <2> QED
    BY <1>1, <1>2, <2>1
<1>5. ASSUME NEW i \in 1 .. Len(r)
      PROVE  \E j \in 1 .. Len(all) : all[j] = r[i]
  BY <1>2
<1>6. ASSUME NEW i \in 1 .. Len(all)
      PROVE  \/ i \in 1 .. Len(p) /\ all[i] = p[i]
             \/ i - Len(p) \in 1 .. Len(q) /\ all[i] = q[i - Len(p)]
             \/ \E j \in 1 .. Len(r) : i = Len(p) + Len(q) + j /\ all[i] = r[j]
  <2>1. CASE i \in 1 .. Len(both)
    BY <1>1, <1>2, <2>1
  <2>2. CASE i \notin 1 .. Len(both)
    <3> DEFINE j == i - Len(both)
    <3>1. j \in 1 .. Len(r) /\ all[i] = r[j] /\ i = Len(p) + Len(q) + j
      BY <1>1, <1>2, <2>2, SMTT(60)
    <3> HIDE DEF j
    <3> QED
      BY <3>1
  <2> QED
    BY <2>1, <2>2
<1>7. DOMAIN p = 1 .. Len(p) /\ DOMAIN all = 1 .. Len(all)
  BY <1>2
<1>8. Queued(all, p, q, r)
  BY <1>1, <1>3, <1>4, <1>5, <1>6, <1>7 DEF Queued
<1> QED
  BY <1>2, <1>8 DEF all, both

\* The queue behind the step of a worker.
LEMMA AdvancePosts ==
  ASSUME IInv, NEW w \in DOMAIN workers, NEW f, NEW requests, NEW more, Advances(w, f, requests, more)
  PROVE  posted' \in Seq(ReportRecord) /\ Queued(posted', posted, f.out, more)
<1>1. posted \in Seq(ReportRecord) /\ f.out \in Seq(ReportRecord) /\ more \in Seq(ReportRecord)
  BY DEF IInv, Typed, Advances, Step, EngineFits, EngineRecord
<1>2. posted' = posted \o f.out \o more
  BY DEF Advances, Effect
<1>3. posted \o f.out \o more \in Seq(ReportRecord) /\ Queued(posted \o f.out \o more, posted, f.out, more)
  BY <1>1, QueueIs
<1> QED
  BY <1>2, <1>3

\* Where the numbers of a worker go when it does a step.
LEMMA AdvanceNumbers ==
  ASSUME IInv, NEW w \in DOMAIN workers, NEW f, NEW requests, NEW more, Advances(w, f, requests, more)
  PROVE  /\ EngineIds(w)' \subseteq EngineIds(w) \cup InboxIds(w)
         /\ Ids(f.out) \subseteq EngineIds(w) \cup InboxIds(w)
         /\ InboxIds(w)' \subseteq InboxIds(w)
         /\ InboxIds(w)' \cap EngineIds(w)' = {} /\ InboxIds(w)' \cap Ids(f.out) = {}
         /\ EngineIds(w)' \cap Ids(f.out) = {}
         /\ EngineIds(w)' \cup Reported(f.out) = EngineIds(w) \cup TransferNums(requests, Len(requests))
         /\ TransferNums(requests, Len(requests)) \subseteq InboxIds(w) \cap DOMAIN told
         /\ DOMAIN workers' = DOMAIN workers
         /\ \A v \in DOMAIN workers : v # w => InboxIds(v)' = InboxIds(v) /\ EngineIds(v)' = EngineIds(v)
<1> DEFINE n == Nums(requests, Len(requests))
           s == TransferNums(requests, Len(requests))
           e == Engine(w)
<1>1. /\ Step(f, e, n, s) /\ workers'[w].transfers = f.transfers
      /\ \/ requests = workers[w].inbox /\ workers'[w].inbox = <<>>
         \/ requests = <<>> /\ workers'[w].inbox = workers[w].inbox
      /\ \A v \in DOMAIN workers : v # w => workers'[v] = workers[v]
  BY DEF Advances
<1>2. Numbers(e) = EngineIds(w) /\ Moved(e) = EngineIds(w)
  BY EngineIs
<1>3. Ids(f.transfers) \cup Ids(f.out) \subseteq EngineIds(w) \cup n /\ Ids(f.transfers) \cap Ids(f.out) = {}
      /\ Ids(f.transfers) \cup Reported(f.out) = EngineIds(w) \cup s
  BY <1>1, <1>2 DEF Step, Numbers, Moved, EngineFits
<1>4. EngineIds(w)' = Ids(f.transfers)
  BY <1>1 DEF EngineIds
<1>5. /\ workers \in Seq(WorkerRecord) /\ workers[w] \in WorkerRecord
  <2>1. workers \in Seq(WorkerRecord)
    BY DEF IInv, Typed
  <2> QED
    BY <2>1
<1>6. DOMAIN workers[w].inbox = 1 .. Len(workers[w].inbox)
  BY <1>5 DEF WorkerRecord
<1>7. n \subseteq InboxIds(w) /\ s \subseteq InboxIds(w) /\ s \subseteq DOMAIN told
  <2>1. CASE requests = workers[w].inbox
    <3>1. n \subseteq InboxIds(w)
      BY <1>6, <2>1 DEF Nums, InboxIds
    <3>2. s \subseteq InboxIds(w)
      BY <1>6, <2>1 DEF TransferNums, InboxIds, IsTransfer, Counts
    <3>3. s \subseteq DOMAIN told
      BY <1>6, <2>1 DEF TransferNums, IInv, ToldFits
    <3> QED
      BY <3>1, <3>2, <3>3
  <2>2. CASE requests = <<>>
    <3>1. n = {} /\ s = {}
      BY <2>2 DEF Nums, TransferNums
    <3> QED
      BY <3>1
  <2> QED
    BY <1>1, <2>1, <2>2
<1>8. InboxIds(w)' \subseteq InboxIds(w) /\ InboxIds(w)' \cap n = {}
  <2>1. CASE workers'[w].inbox = <<>>
    <3>1. InboxIds(w)' = {}
      BY <2>1 DEF InboxIds
    <3> QED
      BY <3>1
  <2>2. CASE requests = <<>> /\ workers'[w].inbox = workers[w].inbox
    <3>1. n = {}
      BY <2>2 DEF Nums
    <3>2. InboxIds(w)' = InboxIds(w)
      BY <2>2 DEF InboxIds
    <3> QED
      BY <3>1, <3>2
  <2> QED
    BY <1>1, <2>1, <2>2
<1>9. DOMAIN workers' = DOMAIN workers
  <2>1. workers' \in Seq(WorkerRecord) /\ Len(workers') = Len(workers)
    BY DEF Advances
  <2> QED
    BY <1>5, <2>1
<1>10. \A v \in DOMAIN workers : v # w => InboxIds(v)' = InboxIds(v) /\ EngineIds(v)' = EngineIds(v)
  BY <1>1 DEF InboxIds, EngineIds
<1>11. InboxIds(w) \cap EngineIds(w) = {}
  BY DEF IInv, Apart
<1> HIDE DEF n, s
<1> QED
  BY <1>3, <1>4, <1>7, <1>8, <1>9, <1>10, <1>11 DEF s

\* A number is in one place at a time, wherever a worker puts it.
LEMMA AdvanceApart ==
  ASSUME IInv, NEW w \in DOMAIN workers, NEW f, NEW requests, NEW more, Advances(w, f, requests, more)
  PROVE  Apart'
<1> DEFINE given == EngineIds(w) \cup InboxIds(w)
<1>1. /\ EngineIds(w)' \subseteq given /\ Ids(f.out) \subseteq given /\ InboxIds(w)' \subseteq InboxIds(w)
      /\ InboxIds(w)' \cap EngineIds(w)' = {} /\ InboxIds(w)' \cap Ids(f.out) = {}
      /\ EngineIds(w)' \cap Ids(f.out) = {}
      /\ DOMAIN workers' = DOMAIN workers
      /\ \A v \in DOMAIN workers : v # w => InboxIds(v)' = InboxIds(v) /\ EngineIds(v)' = EngineIds(v)
  BY AdvanceNumbers
<1>2. Queued(posted', posted, f.out, more)
  BY AdvancePosts
<1>3. /\ Unique(f.transfers) /\ Unique(f.out) /\ workers'[w].transfers = f.transfers
      /\ workers'[w].inbox = <<>> \/ workers'[w].inbox = workers[w].inbox
      /\ \A v \in DOMAIN workers : v # w => workers'[v] = workers[v]
      /\ \A i \in 1 .. Len(f.out) : IsReport(f.out[i])
      /\ \A i \in 1 .. Len(more) : ~IsReport(more[i])
      /\ nextId' = nextId
  BY DEF Advances, Step, EngineFits, view
<1>4. Apart
  BY DEF IInv
<1>5. ASSUME NEW v \in DOMAIN workers'
      PROVE  /\ \A i, j \in DOMAIN workers'[v].inbox :
                  Counts(workers'[v].inbox[i]) /\ Counts(workers'[v].inbox[j])
                    /\ workers'[v].inbox[i].id = workers'[v].inbox[j].id => i = j
             /\ Unique(workers'[v].transfers)
             /\ \A id \in InboxIds(v)' \cup EngineIds(v)' : id < nextId' /\ id > 0
  <2>1. v \in DOMAIN workers
    BY <1>1
  <2>2. CASE v # w
    <3>1. workers'[v] = workers[v]
      BY <1>3, <2>1, <2>2
    <3>2. InboxIds(v)' = InboxIds(v) /\ EngineIds(v)' = EngineIds(v)
      BY <1>1, <2>1, <2>2
    <3> QED
      BY <1>3, <1>4, <2>1, <3>1, <3>2 DEF Apart
  <2>3. CASE v = w
    <3>1. \A i, j \in DOMAIN workers'[w].inbox :
                  Counts(workers'[w].inbox[i]) /\ Counts(workers'[w].inbox[j])
                    /\ workers'[w].inbox[i].id = workers'[w].inbox[j].id => i = j
      <4>1. DOMAIN <<>> = {}
        OBVIOUS
      <4> QED
        BY <1>3, <1>4, <4>1 DEF Apart
    <3>2. \A id \in InboxIds(w)' \cup EngineIds(w)' : id < nextId' /\ id > 0
      BY <1>1, <1>3, <1>4 DEF Apart
    <3> QED
      BY <1>3, <2>3, <3>1, <3>2
  <2> QED
    BY <2>2, <2>3
<1>6. ASSUME NEW u \in DOMAIN workers', NEW v \in DOMAIN workers'
      PROVE  /\ u # v => InboxIds(u)' \cap InboxIds(v)' = {} /\ EngineIds(u)' \cap EngineIds(v)' = {}
             /\ InboxIds(u)' \cap EngineIds(v)' = {}
  <2>1. u \in DOMAIN workers /\ v \in DOMAIN workers
    BY <1>1
  <2>2. /\ u # v => InboxIds(u) \cap InboxIds(v) = {} /\ EngineIds(u) \cap EngineIds(v) = {}
        /\ InboxIds(u) \cap EngineIds(v) = {} /\ InboxIds(v) \cap EngineIds(u) = {}
    BY <1>4, <2>1 DEF Apart
  <2>3. CASE u = v
    <3>1. CASE u = w
      BY <1>1, <2>3, <3>1
    <3>2. CASE u # w
      <4>1. InboxIds(u)' = InboxIds(u) /\ EngineIds(u)' = EngineIds(u)
        BY <1>1, <2>1, <3>2
      <4> QED
        BY <2>2, <2>3, <4>1
    <3> QED
      BY <3>1, <3>2
  <2>4. CASE u # v
    <3>1. CASE u = w
      <4>1. InboxIds(v)' = InboxIds(v) /\ EngineIds(v)' = EngineIds(v)
        BY <1>1, <2>1, <2>4, <3>1
      <4> QED
        BY <1>1, <2>2, <2>4, <3>1, <4>1
    <3>2. CASE v = w
      <4>1. InboxIds(u)' = InboxIds(u) /\ EngineIds(u)' = EngineIds(u)
        BY <1>1, <2>1, <2>4, <3>2
      <4> QED
        BY <1>1, <2>2, <2>4, <3>2, <4>1
    <3>3. CASE u # w /\ v # w
      BY <1>1, <2>1, <2>2, <3>3
    <3> QED
      BY <3>1, <3>2, <3>3
  <2> QED
    BY <2>3, <2>4
<1>7. given \cap PostedIds = {}
  BY <1>4 DEF Apart
<1>8. ASSUME NEW i \in DOMAIN posted', NEW j \in DOMAIN posted',
             IsReport(posted'[i]), IsReport(posted'[j]), posted'[i].id = posted'[j].id
      PROVE  i = j
  <2>1. \A k \in {i, j} : \/ k \in 1 .. Len(posted) /\ posted'[k] = posted[k] /\ posted[k].id \in PostedIds
                          \/ /\ k - Len(posted) \in 1 .. Len(f.out) /\ posted'[k] = f.out[k - Len(posted)]
                             /\ posted'[k].id \in given /\ posted'[k].id \in Ids(f.out)
    <3> SUFFICES ASSUME NEW k \in {i, j}
                 PROVE  \/ k \in 1 .. Len(posted) /\ posted'[k] = posted[k] /\ posted[k].id \in PostedIds
                        \/ /\ k - Len(posted) \in 1 .. Len(f.out) /\ posted'[k] = f.out[k - Len(posted)]
                           /\ posted'[k].id \in given /\ posted'[k].id \in Ids(f.out)
      OBVIOUS
    <3>1. k \in 1 .. Len(posted') /\ IsReport(posted'[k])
      BY <1>2, <1>8 DEF Queued
    <3>2. \/ k \in 1 .. Len(posted) /\ posted'[k] = posted[k]
          \/ k - Len(posted) \in 1 .. Len(f.out) /\ posted'[k] = f.out[k - Len(posted)]
      BY <1>2, <1>3, <3>1 DEF Queued
    <3>3. CASE k \in 1 .. Len(posted) /\ posted'[k] = posted[k]
      <4>1. posted[k].id \in PostedIds
        BY <1>2, <3>1, <3>3 DEF PostedIds, Queued
      <4> QED
        BY <3>3, <4>1
    <3>4. CASE k - Len(posted) \in 1 .. Len(f.out) /\ posted'[k] = f.out[k - Len(posted)]
      <4>1. posted'[k].id \in Ids(f.out)
        BY <3>4 DEF Ids
      <4> QED
        BY <1>1, <3>4, <4>1
    <3> QED
      BY <3>2, <3>3, <3>4
  <2> HIDE DEF given
  <2>2. \/ i \in 1 .. Len(posted) /\ j \in 1 .. Len(posted) /\ posted'[i] = posted[i] /\ posted'[j] = posted[j]
        \/ /\ i - Len(posted) \in 1 .. Len(f.out) /\ j - Len(posted) \in 1 .. Len(f.out)
           /\ posted'[i] = f.out[i - Len(posted)] /\ posted'[j] = f.out[j - Len(posted)]
    BY <1>7, <1>8, <2>1
  <2>3. CASE i \in 1 .. Len(posted) /\ j \in 1 .. Len(posted) /\ posted'[i] = posted[i] /\ posted'[j] = posted[j]
    <3>1. i \in DOMAIN posted /\ j \in DOMAIN posted
      BY <1>2, <2>3 DEF Queued
    <3> QED
      BY <1>4, <1>8, <2>3, <3>1 DEF Apart
  <2>4. CASE /\ i - Len(posted) \in 1 .. Len(f.out) /\ j - Len(posted) \in 1 .. Len(f.out)
             /\ posted'[i] = f.out[i - Len(posted)] /\ posted'[j] = f.out[j - Len(posted)]
    <3>1. i - Len(posted) = j - Len(posted)
      BY <1>3, <1>8, <2>4 DEF Unique
    <3>2. i \in Int /\ j \in Int /\ Len(posted) \in Int
      BY <1>2 DEF Queued
    <3> QED
      BY <3>1, <3>2
  <2> QED
    BY <2>2, <2>3, <2>4
<1>9. ASSUME NEW id \in PostedIds'
      PROVE  id < nextId' /\ id > 0 /\ \A v \in DOMAIN workers' : id \notin InboxIds(v)' \cup EngineIds(v)'
  <2>1. id \in PostedIds \/ id \in Ids(f.out)
    <3>1. PICK k \in DOMAIN posted' : IsReport(posted'[k]) /\ id = posted'[k].id
      BY DEF PostedIds
    <3>2. \/ k \in 1 .. Len(posted) /\ posted'[k] = posted[k]
          \/ k - Len(posted) \in 1 .. Len(f.out) /\ posted'[k] = f.out[k - Len(posted)]
      BY <1>2, <1>3, <3>1 DEF Queued
    <3>3. DOMAIN posted = 1 .. Len(posted)
      BY <1>2 DEF Queued
    <3> QED
      BY <3>1, <3>2, <3>3 DEF PostedIds, Ids
  <2>2. CASE id \in PostedIds
    <3>1. id < nextId /\ id > 0 /\ \A v \in DOMAIN workers : id \notin InboxIds(v) \cup EngineIds(v)
      BY <1>4, <2>2 DEF Apart
    <3> QED
      BY <1>1, <1>3, <3>1
  <2>3. CASE id \in Ids(f.out)
    <3>1. id \in given /\ id \notin InboxIds(w)' /\ id \notin EngineIds(w)'
      BY <1>1, <2>3
    <3>2. id < nextId /\ id > 0
      BY <1>4, <3>1 DEF Apart
    <3>3. ASSUME NEW v \in DOMAIN workers, v # w
          PROVE  id \notin InboxIds(v) \cup EngineIds(v)
      BY <1>4, <3>1, <3>3 DEF Apart
    <3> QED
      BY <1>1, <1>3, <3>1, <3>2, <3>3
  <2> QED
    BY <2>1, <2>2, <2>3
<1> QED
  BY <1>5, <1>6, <1>8, <1>9 DEF Apart

\* How often a worker reports a transfer.
LEMMA ToldInIs ==
  ASSUME NEW out \in Seq(ReportRecord), Unique(out), NEW id
  PROVE  ToldIn(out, id) = IF id \in Reported(out) THEN 1 ELSE 0
<1> DEFINE which == {i \in DOMAIN out : out[i].type = "transferred" /\ out[i].id = id}
<1>1. DOMAIN out = 1 .. Len(out)
  OBVIOUS
<1>2. CASE id \in Reported(out)
  <2>1. PICK i \in 1 .. Len(out) : out[i].type = "transferred" /\ out[i].id = id
    BY <1>2 DEF Reported
  <2>2. which = {i}
    BY <1>1, <2>1 DEF Unique
  <2> QED
    BY <1>2, <2>2, FS_Singleton DEF ToldIn
<1>3. CASE id \notin Reported(out)
  <2>1. which = {}
    BY <1>1, <1>3 DEF Reported
  <2> QED
    BY <1>3, <2>1, FS_EmptySet DEF ToldIn
<1> QED
  BY <1>2, <1>3

\* The counts of the reports behind the step of a worker.
LEMMA AdvanceCounts ==
  ASSUME IInv, NEW w \in DOMAIN workers, NEW f, NEW requests, NEW more, Advances(w, f, requests, more)
  PROVE  /\ told' \in [1 .. scope.requests -> Nat] /\ DOMAIN told' = DOMAIN told
         /\ \A id \in DOMAIN told : id \in Reported(f.out) => told[id] = 0 /\ told'[id] = 1
         /\ \A id \in DOMAIN told : id \notin Reported(f.out) => told'[id] = told[id]
         /\ Reported(f.out) \subseteq DOMAIN told
         /\ Reported(f.out) \subseteq Ids(f.out)
<1>1. f.out \in Seq(ReportRecord) /\ Unique(f.out)
  BY DEF Advances, Step, EngineFits, EngineRecord
<1>2. told \in [1 .. scope.requests -> Nat] /\ ToldFits
  BY DEF IInv, Typed
<1>3. told' = [id \in DOMAIN told |-> told[id] + ToldIn(f.out, id)]
  BY DEF Advances, Effect
<1>4. Reported(f.out) \subseteq Ids(f.out)
  BY DEF Reported, Ids
<1>5. Ids(f.out) \subseteq EngineIds(w) \cup InboxIds(w)
  BY AdvanceNumbers
<1>6. ASSUME NEW id \in DOMAIN told
      PROVE  /\ told[id] \in Nat /\ told'[id] \in Nat
             /\ id \in Reported(f.out) => told[id] = 0 /\ told'[id] = 1
             /\ id \notin Reported(f.out) => told'[id] = told[id]
  <2>1. told[id] \in Nat
    BY <1>2
  <2>2. told'[id] = told[id] + ToldIn(f.out, id)
    BY <1>3
  <2>3. id \in Reported(f.out) => told[id] = 0
    BY <1>2, <1>4, <1>5, <2>1 DEF ToldFits
  <2>4. ToldIn(f.out, id) = IF id \in Reported(f.out) THEN 1 ELSE 0
    BY <1>1, ToldInIs
  <2> QED
    BY <2>1, <2>2, <2>3, <2>4
<1>7. told' \in [1 .. scope.requests -> Nat] /\ DOMAIN told' = DOMAIN told
  BY <1>2, <1>3, <1>6
<1>8. Reported(f.out) \subseteq DOMAIN told
  <2>1. Reported(f.out) \subseteq EngineIds(w) \cup TransferNums(requests, Len(requests))
        /\ TransferNums(requests, Len(requests)) \subseteq DOMAIN told
    BY AdvanceNumbers
  <2>2. EngineIds(w) \subseteq DOMAIN told
    BY <1>2 DEF ToldFits
  <2> QED
    BY <2>1, <2>2
<1> QED
  BY <1>4, <1>6, <1>7, <1>8

\* A transfer that a worker reported is nowhere any more.
LEMMA AdvanceTold ==
  ASSUME IInv, NEW w \in DOMAIN workers, NEW f, NEW requests, NEW more, Advances(w, f, requests, more)
  PROVE  ToldFits'
<1>1. /\ EngineIds(w)' \subseteq EngineIds(w) \cup InboxIds(w) /\ InboxIds(w)' \subseteq InboxIds(w)
      /\ Ids(f.out) \subseteq EngineIds(w) \cup InboxIds(w)
      /\ InboxIds(w)' \cap Ids(f.out) = {} /\ EngineIds(w)' \cap Ids(f.out) = {}
      /\ EngineIds(w)' \subseteq EngineIds(w) \cup TransferNums(requests, Len(requests))
      /\ TransferNums(requests, Len(requests)) \subseteq DOMAIN told
      /\ DOMAIN workers' = DOMAIN workers
      /\ \A v \in DOMAIN workers : v # w => InboxIds(v)' = InboxIds(v) /\ EngineIds(v)' = EngineIds(v)
  BY AdvanceNumbers
<1>2. /\ DOMAIN told' = DOMAIN told
      /\ \A id \in DOMAIN told : id \in Reported(f.out) => told[id] = 0 /\ told'[id] = 1
      /\ \A id \in DOMAIN told : id \notin Reported(f.out) => told'[id] = told[id]
      /\ Reported(f.out) \subseteq DOMAIN told /\ Reported(f.out) \subseteq Ids(f.out)
  BY AdvanceCounts
<1>3. Queued(posted', posted, f.out, more)
  BY AdvancePosts
<1>4. ToldFits /\ Apart
  BY DEF IInv
<1>5. /\ \A v \in DOMAIN workers : v # w => workers'[v] = workers[v]
      /\ workers'[w].inbox = <<>> \/ workers'[w].inbox = workers[w].inbox
      /\ \A i \in 1 .. Len(more) : ~IsReport(more[i])
      /\ nextId' = nextId
  BY DEF Advances, view
<1>6. ASSUME NEW id \in DOMAIN told', told'[id] > 0
      PROVE  told'[id] = 1 /\ id < nextId' /\ \A v \in DOMAIN workers' : id \notin InboxIds(v)' \cup EngineIds(v)'
  <2>1. CASE id \in Reported(f.out)
    <3>1. id \in Ids(f.out) /\ id \in EngineIds(w) \cup InboxIds(w)
      BY <1>1, <1>2, <2>1
    <3>2. id < nextId
      BY <1>4, <3>1 DEF Apart
    <3>3. ASSUME NEW v \in DOMAIN workers, v # w
          PROVE  id \notin InboxIds(v) \cup EngineIds(v)
      BY <1>4, <3>1, <3>3 DEF Apart
    <3> QED
      BY <1>1, <1>2, <1>5, <2>1, <3>1, <3>2, <3>3
  <2>2. CASE id \notin Reported(f.out)
    <3>1. told'[id] = told[id] /\ id \in DOMAIN told
      BY <1>2, <1>6, <2>2
    <3>2. told[id] = 1 /\ id < nextId /\ \A v \in DOMAIN workers : id \notin InboxIds(v) \cup EngineIds(v)
      BY <1>4, <1>6, <3>1 DEF ToldFits
    <3> QED
      BY <1>1, <1>5, <3>1, <3>2
  <2> QED
    BY <2>1, <2>2
<1>7. ASSUME NEW i \in DOMAIN posted', posted'[i].type = "transferred"
      PROVE  posted'[i].id \in DOMAIN told' /\ told'[posted'[i].id] = 1
  <2>1. \/ i \in 1 .. Len(posted) /\ posted'[i] = posted[i]
        \/ i - Len(posted) \in 1 .. Len(f.out) /\ posted'[i] = f.out[i - Len(posted)]
    <3>1. \/ i \in 1 .. Len(posted) /\ posted'[i] = posted[i]
          \/ i - Len(posted) \in 1 .. Len(f.out) /\ posted'[i] = f.out[i - Len(posted)]
          \/ \E j \in 1 .. Len(more) : posted'[i] = more[j]
      BY <1>3 DEF Queued
    <3>2. IsReport(posted'[i])
      BY <1>7 DEF IsReport
    <3> QED
      BY <1>5, <3>1, <3>2
  <2>2. CASE i \in 1 .. Len(posted) /\ posted'[i] = posted[i]
    <3>1. i \in DOMAIN posted
      BY <1>3, <2>2 DEF Queued
    <3>2. posted[i].id \in DOMAIN told /\ told[posted[i].id] = 1
      BY <1>4, <1>7, <2>2, <3>1 DEF ToldFits
    <3> QED
      BY <1>2, <2>2, <3>2
  <2>3. CASE i - Len(posted) \in 1 .. Len(f.out) /\ posted'[i] = f.out[i - Len(posted)]
    <3>1. posted'[i].id \in Reported(f.out)
      BY <1>7, <2>3 DEF Reported
    <3> QED
      BY <1>2, <3>1
  <2> QED
    BY <2>1, <2>2, <2>3
<1>8. ASSUME NEW v \in DOMAIN workers'
      PROVE  /\ EngineIds(v)' \subseteq DOMAIN told'
             /\ \A i \in DOMAIN workers'[v].inbox :
                  IsTransfer(workers'[v].inbox[i]) => workers'[v].inbox[i].id \in DOMAIN told'
  <2>1. v \in DOMAIN workers
    BY <1>1
  <2>2. /\ EngineIds(v) \subseteq DOMAIN told
        /\ \A i \in DOMAIN workers[v].inbox : IsTransfer(workers[v].inbox[i]) => workers[v].inbox[i].id \in DOMAIN told
    BY <1>4, <2>1 DEF ToldFits
  <2>3. CASE v # w
    BY <1>1, <1>2, <1>5, <2>1, <2>2, <2>3
  <2>4. CASE v = w
    <3>1. DOMAIN <<>> = {}
      OBVIOUS
    <3> QED
      BY <1>1, <1>2, <1>5, <2>2, <2>4, <3>1
  <2> QED
    BY <2>3, <2>4
<1> QED
  BY <1>6, <1>7, <1>8 DEF ToldFits

\* A worker leaves half a file only for a transfer it does not report as done.
LEMMA AdvanceHalves ==
  ASSUME IInv, NEW w \in DOMAIN workers, NEW f, NEW requests, NEW more, Advances(w, f, requests, more)
  PROVE  HalvesFit'
<1>1. /\ EngineIds(w)' \subseteq EngineIds(w) \cup InboxIds(w) /\ InboxIds(w)' \subseteq InboxIds(w)
      /\ InboxIds(w)' \cap Ids(f.out) = {} /\ InboxIds(w)' \cap EngineIds(w)' = {}
      /\ Ids(f.out) \subseteq EngineIds(w) \cup InboxIds(w)
      /\ DOMAIN workers' = DOMAIN workers
      /\ \A v \in DOMAIN workers : v # w => InboxIds(v)' = InboxIds(v) /\ EngineIds(v)' = EngineIds(v)
  BY AdvanceNumbers
<1>2. /\ DOMAIN told' = DOMAIN told
      /\ \A id \in DOMAIN told : id \in Reported(f.out) => told[id] = 0 /\ told'[id] = 1
      /\ \A id \in DOMAIN told : id \notin Reported(f.out) => told'[id] = told[id]
      /\ Reported(f.out) \subseteq DOMAIN told /\ Reported(f.out) \subseteq Ids(f.out)
  BY AdvanceCounts
<1>3. HalvesFit /\ Apart /\ ToldFits /\ workers \in Seq(WorkerRecord)
  BY DEF IInv, Typed
<1>4. /\ EngineFits(f) /\ files' = f.files /\ nextId' = nextId
      /\ workers'[w].transfers = f.transfers
      /\ \A v \in DOMAIN workers : v # w => workers'[v] = workers[v]
      /\ right' = right \cup {r.id : r \in {s \in ToSet(f.out) : s.type = "transferred" /\ s.good}}
      /\ \A x \in f.files : x \in Engine(w).files \/ x.id \in Moved(f)
  BY DEF Advances, Step, Effect, view
<1>5. \A x \in files' : x \in files \/ x.id \in EngineIds(w)' \cup Ids(f.out)
  <2>1. Engine(w).files = files /\ Moved(f) = Ids(f.transfers) \cup Reported(f.out)
        /\ Ids(f.transfers) = EngineIds(w)'
    BY EngineIs, <1>4 DEF Moved, EngineIds
  <2> QED
    BY <1>2, <1>4, <2>1
<1>6. \A id \in right' : id \in right \/ \E i \in 1 .. Len(f.out) :
                                             f.out[i].id = id /\ f.out[i].type = "transferred" /\ f.out[i].good
  <2>1. DOMAIN f.out = 1 .. Len(f.out)
    BY <1>4 DEF EngineFits, EngineRecord
  <2> QED
    BY <1>4, <2>1 DEF ToSet
<1>7. \A x \in files' : FileFits(x)
  BY <1>4 DEF EngineFits
<1>8. ASSUME NEW x \in files'
      PROVE  x.id < nextId' /\ \A v \in DOMAIN workers' : x.id \notin InboxIds(v)'
  <2>1. CASE x \in files
    BY <1>1, <1>3, <1>4, <2>1 DEF HalvesFit
  <2>2. CASE x.id \in EngineIds(w)' \cup Ids(f.out)
    <3>1. x.id \in EngineIds(w) \cup InboxIds(w) /\ x.id \notin InboxIds(w)'
      BY <1>1, <2>2
    <3>2. x.id < nextId
      BY <1>3, <3>1 DEF Apart
    <3>3. ASSUME NEW v \in DOMAIN workers, v # w
          PROVE  x.id \notin InboxIds(v)
      BY <1>3, <3>1, <3>3 DEF Apart
    <3> QED
      BY <1>1, <1>4, <3>1, <3>2, <3>3
  <2> QED
    BY <1>5, <2>1, <2>2
<1>9. ASSUME NEW x \in files', Half(x)
      PROVE  x.id \notin right'
  <2>1. \A i \in 1 .. Len(f.out) : f.out[i].id = x.id /\ f.out[i].type = "transferred" => ~f.out[i].good
    BY <1>4, <1>9 DEF EngineFits
  <2>2. x.id \notin right
    <3>1. CASE x \in files
      BY <1>3, <1>9, <3>1 DEF HalvesFit
    <3>2. CASE x.id \in EngineIds(w)' \cup Ids(f.out)
      <4>1. x.id \in EngineIds(w) \cup InboxIds(w)
        BY <1>1, <3>2
      <4>2. SUFFICES ASSUME x.id \in right
                     PROVE  FALSE
        OBVIOUS
      <4>3. x.id \in DOMAIN told /\ told[x.id] > 0
        BY <1>3, <4>2 DEF HalvesFit
      <4> QED
        BY <1>3, <4>1, <4>3 DEF ToldFits
    <3> QED
      BY <1>5, <3>1, <3>2
  <2> QED
    BY <1>6, <2>1, <2>2
<1>10. ASSUME NEW x \in files', Half(x), NEW v \in DOMAIN workers', NEW i \in DOMAIN workers'[v].transfers,
              workers'[v].transfers[i].id = x.id
       PROVE  Stopping(workers'[v].transfers[i])
  <2>1. CASE v = w
    <3>1. i \in 1 .. Len(f.transfers)
      BY <1>4, <1>10, <2>1 DEF EngineFits, EngineRecord
    <3> QED
      BY <1>4, <1>10, <2>1, <3>1 DEF EngineFits
  <2>2. CASE v # w
    <3>1. v \in DOMAIN workers /\ workers'[v] = workers[v]
      BY <1>1, <1>4, <2>2
    <3>2. x.id \in EngineIds(v)
      <4>1. workers[v] \in WorkerRecord
        BY <1>3, <3>1
      <4>2. DOMAIN workers[v].transfers = 1 .. Len(workers[v].transfers)
        BY <4>1 DEF WorkerRecord
      <4> QED
        BY <1>10, <3>1, <4>2 DEF EngineIds, Ids
    <3>3. x.id \notin EngineIds(w) \cup InboxIds(w)
      BY <1>3, <2>2, <3>1, <3>2 DEF Apart
    <3>4. x \in files
      BY <1>1, <1>5, <3>3
    <3> QED
      BY <1>3, <1>10, <3>1, <3>4 DEF HalvesFit
  <2> QED
    BY <2>1, <2>2
<1>11. ASSUME NEW id \in right'
       PROVE  id \in DOMAIN told' /\ told'[id] = 1
  <2>1. CASE id \in right
    <3>1. id \in DOMAIN told /\ told[id] = 1
      BY <1>3, <2>1 DEF HalvesFit
    <3> QED
      BY <1>2, <3>1
  <2>2. CASE id \notin right
    <3>1. id \in Reported(f.out)
      BY <1>6, <2>2 DEF Reported
    <3> QED
      BY <1>2, <3>1
  <2> QED
    BY <2>1, <2>2
<1> QED
  BY <1>7, <1>8, <1>9, <1>10, <1>11 DEF HalvesFit

\* What the browser waits for is still to come, if the end of a main worker is
\* told of.
LEMMA AdvanceAwaited ==
  ASSUME IInv, NEW w \in DOMAIN workers, NEW f, NEW requests, NEW more, Advances(w, f, requests, more),
         requests = workers[w].inbox \/ workers'[w].phase # "over" \/ workers[w].kind = "side"
           \/ \E i \in 1 .. Len(more) : more[i].type = "finished"
  PROVE  NoneIsForgotten'
<1>1. /\ EngineIds(w)' \cup Reported(f.out) = EngineIds(w) \cup TransferNums(requests, Len(requests))
      /\ DOMAIN workers' = DOMAIN workers
  BY AdvanceNumbers
<1>2. posted' \in Seq(ReportRecord) /\ Queued(posted', posted, f.out, more)
  BY AdvancePosts
<1>3. /\ \A v \in DOMAIN workers : v # w => workers'[v] = workers[v]
      /\ workers'[w].kind = workers[w].kind /\ workers[w].phase # "over"
      /\ requests = workers[w].inbox \/ workers'[w].inbox = workers[w].inbox
      /\ transfers' = transfers /\ workers' \in Seq(WorkerRecord)
  BY DEF Advances, list
<1>4. workers \in Seq(WorkerRecord) /\ NoneIsForgotten
  BY DEF IInv, Typed
<1>5. ASSUME NEW v \in DOMAIN workers
      PROVE  /\ DOMAIN workers[v].transfers = 1 .. Len(workers[v].transfers)
             /\ DOMAIN workers[v].inbox = 1 .. Len(workers[v].inbox)
             /\ DOMAIN workers'[v].transfers = 1 .. Len(workers'[v].transfers)
  <2>1. workers[v] \in WorkerRecord /\ workers'[v] \in WorkerRecord
    BY <1>1, <1>3, <1>4, <1>5
  <2> QED
    BY <2>1 DEF WorkerRecord
<1>6. \A id : InEngine(id) <=> \E v \in DOMAIN workers : id \in EngineIds(v)
  BY <1>5 DEF InEngine, EngineIds, Ids
<1>7. \A id : (\E v \in DOMAIN workers : id \in EngineIds(v)') => InEngine(id)'
  BY <1>1, <1>5 DEF InEngine, EngineIds, Ids
<1>8. \A id : (\E r \in ToSet(posted) : (r.type = "transferred" /\ r.id = id) \/ r.type = "finished") =>
        \E r \in ToSet(posted') : (r.type = "transferred" /\ r.id = id) \/ r.type = "finished"
  BY <1>2 DEF ToSet, Queued
<1>9. ASSUME NEW id \in EngineIds(w) \cup TransferNums(requests, Len(requests))
      PROVE  IsAwaited(id)'
  <2>1. CASE id \in EngineIds(w)'
    BY <1>7, <2>1 DEF IsAwaited
  <2>2. CASE id \in Reported(f.out)
    <3>1. PICK i \in 1 .. Len(f.out) : f.out[i].type = "transferred" /\ f.out[i].id = id
      BY <2>2 DEF Reported
    <3>2. \E r \in ToSet(posted') : r.type = "transferred" /\ r.id = id
      BY <1>2, <3>1 DEF ToSet, Queued
    <3> QED
      BY <3>2 DEF IsAwaited
  <2> QED
    BY <1>1, <1>9, <2>1, <2>2
<1>10. SUFFICES ASSUME NEW t \in transfers
                PROVE  IsAwaited(t.id)' \/ LeftBehind(t.id)'
  BY <1>3 DEF NoneIsForgotten
<1> DEFINE id == t.id
<1>11. IsAwaited(id) \/ LeftBehind(id)
  BY <1>4 DEF NoneIsForgotten
<1>12. CASE \E r \in ToSet(posted) : (r.type = "transferred" /\ r.id = id) \/ r.type = "finished"
  BY <1>8, <1>12 DEF IsAwaited
<1>13. CASE InEngine(id)
  <2>1. PICK v \in DOMAIN workers : id \in EngineIds(v)
    BY <1>6, <1>13
  <2>2. CASE v = w
    BY <1>9, <2>1, <2>2
  <2>3. CASE v # w
    <3>1. id \in EngineIds(v)'
      BY <1>3, <2>1, <2>3 DEF EngineIds
    <3> QED
      BY <1>7, <3>1 DEF IsAwaited
  <2> QED
    BY <2>2, <2>3
<1>14. CASE \E v \in DOMAIN workers : workers[v].phase # "over" /\ InInbox(v, id)
  <2>1. PICK v \in DOMAIN workers : workers[v].phase # "over" /\ InInbox(v, id)
    BY <1>14
  <2>2. CASE v # w
    <3>1. workers'[v].phase # "over" /\ InInbox(v, id)'
      BY <1>3, <2>1, <2>2 DEF InInbox
    <3> QED
      BY <1>1, <3>1 DEF IsAwaited
  <2>3. CASE v = w /\ requests = workers[w].inbox
    <3>1. id \in TransferNums(requests, Len(requests))
      BY <1>5, <2>1, <2>3 DEF InInbox, TransferNums
    <3> QED
      BY <1>9, <3>1
  <2>4. CASE v = w /\ requests # workers[w].inbox
    <3>1. InInbox(w, id)'
      BY <1>3, <2>1, <2>4 DEF InInbox
    <3>2. CASE workers'[w].phase # "over"
      BY <1>1, <3>1, <3>2 DEF IsAwaited
    <3>3. CASE workers[w].kind = "side" /\ workers'[w].phase = "over"
      BY <1>1, <1>3, <3>1, <3>3 DEF LeftBehind
    <3>4. CASE \E i \in 1 .. Len(more) : more[i].type = "finished"
      <4>1. \E r \in ToSet(posted') : r.type = "finished"
        BY <1>2, <3>4 DEF ToSet, Queued
      <4> QED
        BY <4>1 DEF IsAwaited
    <3> QED
      BY <2>4, <3>2, <3>3, <3>4
  <2> QED
    BY <2>2, <2>3, <2>4
<1>15. CASE LeftBehind(id)
  <2>1. PICK v \in DOMAIN workers : workers[v].kind = "side" /\ workers[v].phase = "over" /\ InInbox(v, id)
    BY <1>15 DEF LeftBehind
  <2>2. workers'[v] = workers[v]
    BY <1>3, <2>1
  <2>3. workers'[v].kind = "side" /\ workers'[v].phase = "over" /\ InInbox(v, id)'
    BY <2>1, <2>2 DEF InInbox
  <2> QED
    BY <1>1, <2>3 DEF LeftBehind
<1> QED
  BY <1>11, <1>12, <1>13, <1>14, <1>15 DEF IsAwaited

\* What a worker does in a folder is in a report behind the listings without it.
LEMMA AdvanceFresh ==
  ASSUME IInv, NEW w \in DOMAIN workers, NEW f, NEW requests, NEW more, Advances(w, f, requests, more),
         ~Ending => Fresh(f, due, operations, Uploading)
  PROVE  FreshFits'
<1>1. posted' \in Seq(ReportRecord) /\ Queued(posted', posted, f.out, more)
  BY AdvancePosts
<1>2. /\ \A v \in DOMAIN workers : v # w => workers'[v] = workers[v]
      /\ workers[w].phase # "over" /\ workers'[w].stop = workers[w].stop
      /\ workers'[w].inbox = <<>> \/ workers'[w].inbox = workers[w].inbox
      /\ workers'[w].transfers = f.transfers /\ due' = f.due
      /\ \A i \in 1 .. Len(more) : ~IsReport(more[i])
      /\ operations' = operations /\ transfers' = transfers /\ path' = path /\ shown' = shown
      /\ listId' = listId /\ loading' = loading /\ cut' = cut
      /\ DOMAIN f.transfers = 1 .. Len(f.transfers)
  BY DEF Advances, Effect, view, list, Step, EngineFits, EngineRecord
<1>3. DOMAIN workers' = DOMAIN workers /\ FreshFits /\ path \in Dirs \cup {None}
  BY AdvanceNumbers DEF IInv, Typed
<1>4. Uploading' = Uploading
  BY <1>2 DEF Uploading, Uploads
<1>5. DOMAIN posted = 1 .. Len(posted) /\ DOMAIN posted' = 1 .. Len(posted') /\ Len(posted) \in Nat
  BY <1>1 DEF Queued
<1>6. SUFFICES ASSUME ~Ending'
               PROVE  /\ \A v \in DOMAIN workers' : workers'[v].phase # "over" /\ ~workers'[v].stop => Known(v)'
                      /\ path' # None /\ ~cut' /\ ~loading' =>
                           \/ shown' >= due'[path']
                           \/ \E i \in DOMAIN posted' : Changed(posted'[i], path', operations', Uploading')
                      /\ \A i \in DOMAIN posted' : posted'[i].type = "listed" /\ posted'[i].good /\ posted'[i].id = listId' =>
                           /\ posted'[i].dir \in Dirs
                           /\ \/ posted'[i].seen >= due'[posted'[i].dir]
                              \/ \E j \in DOMAIN posted' :
                                   i < j /\ Changed(posted'[j], posted'[i].dir, operations', Uploading')
  BY DEF FreshFits
<1>7. ~Ending
  BY <1>1, <1>5, <1>6 DEF Ending, Queued
<1>8. Fresh(f, due, operations, Uploading)
  BY <1>7
<1>9. /\ \A v \in DOMAIN workers : workers[v].phase # "over" /\ ~workers[v].stop => Known(v)
      /\ path # None /\ ~cut /\ ~loading =>
           \/ shown >= due[path]
           \/ \E i \in DOMAIN posted : Changed(posted[i], path, operations, Uploading)
      /\ \A i \in DOMAIN posted : posted[i].type = "listed" /\ posted[i].good /\ posted[i].id = listId =>
           /\ posted[i].dir \in Dirs
           /\ \/ posted[i].seen >= due[posted[i].dir]
              \/ \E j \in DOMAIN posted : i < j /\ Changed(posted[j], posted[i].dir, operations, Uploading)
  BY <1>3, <1>7 DEF FreshFits
<1> DEFINE ops == operations
           ups == Uploading
<1>10. ASSUME NEW v \in DOMAIN workers', workers'[v].phase # "over", ~workers'[v].stop
       PROVE  Known(v)'
  <2>1. CASE v # w
    <3>1. workers'[v] = workers[v] /\ Known(v)
      BY <1>2, <1>3, <1>9, <1>10, <2>1
    <3> QED
      BY <1>2, <1>4, <3>1 DEF Known
  <2>2. CASE v = w
    <3>1. Known(w)
      BY <1>2, <1>9, <1>10, <2>2
    <3>2. ASSUME NEW i \in DOMAIN workers'[w].inbox
          PROVE  /\ workers'[w].inbox[i].type = "operate" =>
                      [id |-> workers'[w].inbox[i].id, dir |-> workers'[w].inbox[i].dir] \in operations'
                 /\ workers'[w].inbox[i].type = "upload" => workers'[w].inbox[i].id \in Uploading'
      <4>1. workers'[w].inbox = workers[w].inbox
        <5>1. DOMAIN <<>> = {}
          OBVIOUS
        <5> QED
          BY <1>2, <3>2, <5>1
      <4> QED
        BY <1>2, <1>4, <3>1, <3>2, <4>1 DEF Known
    <3>3. \A i \in DOMAIN workers'[w].transfers :
            workers'[w].transfers[i].upload => workers'[w].transfers[i].id \in Uploading'
      BY <1>2, <1>4, <1>8 DEF Fresh
    <3> QED
      BY <2>2, <3>2, <3>3 DEF Known
  <2> QED
    BY <2>1, <2>2
<1>11. ASSUME NEW d \in Dirs
       PROVE  \/ due'[d] = due[d]
              \/ \E j \in DOMAIN posted' : Len(posted) < j /\ Changed(posted'[j], d, ops, ups)
  <2>1. f.due[d] = due[d] \/ \E j \in 1 .. Len(f.out) : Changed(f.out[j], d, ops, ups)
    BY <1>8 DEF Fresh
  <2>2. CASE f.due[d] = due[d]
    BY <1>2, <2>2
  <2>3. ASSUME NEW j \in 1 .. Len(f.out), Changed(f.out[j], d, ops, ups)
        PROVE  \E k \in DOMAIN posted' : Len(posted) < k /\ Changed(posted'[k], d, ops, ups)
    <3> DEFINE k == Len(posted) + j
    <3>1. k \in DOMAIN posted' /\ posted'[k] = f.out[j]
      BY <1>1, <1>5 DEF Queued
    <3>2. Len(posted) < k
      BY <1>5
    <3> HIDE DEF k
    <3> QED
      BY <2>3, <3>1, <3>2
  <2> QED
    BY <2>1, <2>2, <2>3
<1>12. ASSUME NEW i \in DOMAIN posted, NEW d, Changed(posted[i], d, ops, ups)
       PROVE  i \in DOMAIN posted' /\ Changed(posted'[i], d, ops, ups)
  BY <1>1, <1>5, <1>12 DEF Queued
<1>13. ASSUME path' # None, ~cut', ~loading'
       PROVE  \/ shown' >= due'[path']
              \/ \E i \in DOMAIN posted' : Changed(posted'[i], path', operations', Uploading')
  <2>1. path \in Dirs /\ path # None /\ ~cut /\ ~loading
    BY <1>2, <1>3, <1>13
  <2>2. \/ shown >= due[path]
        \/ \E i \in DOMAIN posted : Changed(posted[i], path, ops, ups)
    BY <1>9, <2>1
  <2>3. CASE \E i \in DOMAIN posted : Changed(posted[i], path, ops, ups)
    BY <1>2, <1>4, <1>12, <2>3
  <2>4. CASE shown >= due[path]
    <3>1. due'[path] = due[path] \/ \E j \in DOMAIN posted' : Changed(posted'[j], path, ops, ups)
      BY <1>11, <2>1
    <3> QED
      BY <1>2, <1>4, <2>4, <3>1
  <2> QED
    BY <2>2, <2>3, <2>4
<1>14. ASSUME NEW i \in DOMAIN posted', posted'[i].type = "listed", posted'[i].good, posted'[i].id = listId'
       PROVE  /\ posted'[i].dir \in Dirs
              /\ \/ posted'[i].seen >= due'[posted'[i].dir]
                 \/ \E j \in DOMAIN posted' : i < j /\ Changed(posted'[j], posted'[i].dir, ops, ups)
  <2>1. \/ i \in 1 .. Len(posted) /\ posted'[i] = posted[i]
        \/ i - Len(posted) \in 1 .. Len(f.out) /\ posted'[i] = f.out[i - Len(posted)]
    <3>1. \/ i \in 1 .. Len(posted) /\ posted'[i] = posted[i]
          \/ i - Len(posted) \in 1 .. Len(f.out) /\ posted'[i] = f.out[i - Len(posted)]
          \/ \E j \in 1 .. Len(more) : posted'[i] = more[j]
      BY <1>1, <1>5 DEF Queued
    <3>2. IsReport(posted'[i])
      BY <1>14 DEF IsReport
    <3> QED
      BY <1>2, <3>1, <3>2
  <2>2. CASE i \in 1 .. Len(posted) /\ posted'[i] = posted[i]
    <3> DEFINE d == posted[i].dir
    <3>1. i \in DOMAIN posted /\ posted[i].type = "listed" /\ posted[i].good /\ posted[i].id = listId
      BY <1>2, <1>5, <1>14, <2>2
    <3>2. d \in Dirs
      BY <1>9, <3>1
    <3>3. posted[i].seen >= due[d] \/ \E j \in DOMAIN posted : i < j /\ Changed(posted[j], d, ops, ups)
      BY <1>9, <3>1
    <3>4. posted'[i].dir = d /\ posted'[i].seen = posted[i].seen
      BY <2>2
    <3> HIDE DEF d
    <3>5. CASE \E j \in DOMAIN posted : i < j /\ Changed(posted[j], d, ops, ups)
      <4>1. PICK j \in DOMAIN posted : i < j /\ Changed(posted[j], d, ops, ups)
        BY <3>5
      <4>2. j \in DOMAIN posted' /\ Changed(posted'[j], d, ops, ups)
        BY <1>12, <4>1
      <4> QED
        BY <3>2, <3>4, <4>1, <4>2
    <3>6. CASE posted[i].seen >= due[d]
      <4>1. \A j \in DOMAIN posted' : Len(posted) < j => i < j
        <5>1. i \in Nat /\ i <= Len(posted)
          BY <1>5, <2>2
        <5> QED
          BY <1>5, <5>1
      <4>2. due'[d] = due[d] \/ \E j \in DOMAIN posted' : i < j /\ Changed(posted'[j], d, ops, ups)
        BY <1>11, <3>2, <4>1
      <4> QED
        BY <3>2, <3>4, <3>6, <4>2
    <3> QED
      BY <3>3, <3>5, <3>6
  <2>3. CASE i - Len(posted) \in 1 .. Len(f.out) /\ posted'[i] = f.out[i - Len(posted)]
    <3> DEFINE m == i - Len(posted)
               r == f.out[m]
    <3>1. m \in 1 .. Len(f.out) /\ posted'[i] = r /\ r.type = "listed" /\ r.good
      BY <1>14, <2>3
    <3>2. i = Len(posted) + m
      BY <1>5
    <3> HIDE DEF m
    <3>3. ListsFit(f.out, f.due, ops, ups)
      BY <1>8 DEF Fresh
    <3>4. /\ r.dir \in Dirs
          /\ r.seen >= f.due[r.dir] \/ \E j \in 1 .. Len(f.out) : m < j /\ Changed(f.out[j], r.dir, ops, ups)
      BY <3>1, <3>3 DEF ListsFit
    <3>5. ASSUME NEW j \in 1 .. Len(f.out), m < j, Changed(f.out[j], r.dir, ops, ups)
          PROVE  \E k \in DOMAIN posted' : i < k /\ Changed(posted'[k], r.dir, ops, ups)
      <4> DEFINE k == Len(posted) + j
      <4>1. k \in DOMAIN posted' /\ posted'[k] = f.out[j]
        BY <1>1, <1>5 DEF Queued
      <4>2. i < k
        BY <1>5, <3>1, <3>2, <3>5
      <4> HIDE DEF k
      <4> QED
        BY <3>5, <4>1, <4>2
    <3> QED
      BY <1>2, <3>1, <3>4, <3>5
  <2> QED
    BY <2>1, <2>2, <2>3
<1>15. operations' = ops /\ Uploading' = ups
  BY <1>2, <1>4
<1> HIDE DEF ops, ups
<1> QED
  BY <1>10, <1>13, <1>14, <1>15

\* The end of the main worker is told once, and that of the side worker the
\* session has.
Says(w, more) ==
  /\ Len(more) <= 1
  /\ (\E i \in 1 .. Len(more) : more[i].type = "finished") <=>
       workers'[w].phase = "over" /\ workers[w].kind # "side"
  /\ (\E i \in 1 .. Len(more) : more[i].type = "sideFinished") => w = side /\ workers'[w].phase = "over"

LEMMA AdvanceSession ==
  ASSUME IInv, NEW w \in DOMAIN workers, NEW f, NEW requests, NEW more, Advances(w, f, requests, more),
         Says(w, more)
  PROVE  SessionFits'
<1>1. posted' \in Seq(ReportRecord) /\ Queued(posted', posted, f.out, more)
  BY AdvancePosts
<1>2. /\ \A v \in DOMAIN workers : v # w => workers'[v] = workers[v]
      /\ workers'[w].kind = workers[w].kind /\ workers[w].phase # "over" /\ workers'[w].stop = workers[w].stop
      /\ \A i \in 1 .. Len(f.out) : IsReport(f.out[i])
      /\ main' = main /\ side' = side /\ sshUp' = sshUp /\ sideUp' = sideUp
      /\ more \in Seq(ReportRecord) /\ f.out \in Seq(ReportRecord)
  BY DEF Advances, session, Step, EngineFits, EngineRecord
<1>3. DOMAIN workers' = DOMAIN workers
  BY AdvanceNumbers
<1>4. SessionFits
  BY DEF IInv
<1>5. DOMAIN posted = 1 .. Len(posted) /\ DOMAIN posted' = 1 .. Len(posted')
  BY <1>1 DEF Queued
<1>6. ASSUME NEW i \in DOMAIN posted', posted'[i].type \in {"finished", "sideFinished"}
      PROVE  \/ i \in DOMAIN posted /\ posted'[i] = posted[i]
             \/ \E j \in 1 .. Len(more) : i = Len(posted) + Len(f.out) + j /\ posted'[i] = more[j]
  <2>1. ~IsReport(posted'[i])
    BY <1>6 DEF IsReport
  <2> QED
    BY <1>1, <1>2, <1>5, <1>6, <2>1 DEF Queued
<1>7. \A i \in DOMAIN posted : i \in DOMAIN posted' /\ posted'[i] = posted[i]
  BY <1>1, <1>5 DEF Queued
<1>8. workers[w].kind # "side" => w = main /\ ~Ending
  <2>1. workers[w].kind # "side" => w = main
    BY <1>2, <1>4 DEF SessionFits
  <2> QED
    BY <1>2, <1>4, <2>1 DEF SessionFits, Ending
<1>9. /\ main' \in {0} \cup DOMAIN workers' /\ side' \in {0} \cup DOMAIN workers'
      /\ sshUp' \in BOOLEAN /\ sideUp' \in BOOLEAN
      /\ main' # 0 => workers'[main'].kind # "side"
      /\ side' # 0 => workers'[side'].kind = "side"
  BY <1>2, <1>3, <1>4 DEF SessionFits
<1>10. \A v \in DOMAIN workers' : workers'[v].phase # "over" =>
         /\ workers'[v].kind # "side" => v = main'
         /\ workers'[v].kind = "side" /\ ~workers'[v].stop => v = side'
  BY <1>2, <1>3, <1>4 DEF SessionFits
<1>11. (\E i \in DOMAIN posted' : posted'[i].type = "finished") <=>
         main' # 0 /\ workers'[main'].phase = "over"
  <2>1. (\E i \in DOMAIN posted' : posted'[i].type = "finished") <=>
          Ending \/ (workers'[w].phase = "over" /\ workers[w].kind # "side")
    <3>1. Ending => \E i \in DOMAIN posted' : posted'[i].type = "finished"
      BY <1>7 DEF Ending
    <3>2. workers'[w].phase = "over" /\ workers[w].kind # "side" =>
            \E i \in DOMAIN posted' : posted'[i].type = "finished"
      BY <1>1, <1>5 DEF Queued, Says
    <3>3. (\E i \in DOMAIN posted' : posted'[i].type = "finished") =>
            Ending \/ \E i \in 1 .. Len(more) : more[i].type = "finished"
      BY <1>6 DEF Ending
    <3> QED
      BY <3>1, <3>2, <3>3 DEF Says
  <2>2. Ending <=> main # 0 /\ workers[main].phase = "over"
    BY <1>4 DEF SessionFits, Ending
  <2>3. CASE w = main
    <3>1. ~Ending /\ main # 0 /\ workers[w].kind # "side"
      <4>1. DOMAIN workers = 1 .. Len(workers)
        BY DEF IInv, Typed
      <4>2. main # 0
        BY <2>3, <4>1
      <4> QED
        BY <1>2, <1>4, <2>2, <2>3, <4>2 DEF SessionFits
    <3> QED
      BY <1>2, <2>1, <2>3, <3>1
  <2>4. CASE w # main
    <3>1. workers[w].kind = "side"
      BY <1>8, <2>4
    <3>2. main # 0 => workers'[main] = workers[main]
      BY <1>2, <1>4, <2>4 DEF SessionFits
    <3> QED
      BY <1>2, <2>1, <2>2, <3>1, <3>2
  <2> QED
    BY <2>3, <2>4
<1>12. ASSUME NEW i \in DOMAIN posted', NEW j \in DOMAIN posted',
              posted'[i].type = "finished", posted'[j].type = "finished"
       PROVE  i = j
  <2>1. CASE i \in DOMAIN posted /\ j \in DOMAIN posted
    BY <1>4, <1>7, <1>12, <2>1 DEF SessionFits
  <2>2. CASE ~(i \in DOMAIN posted /\ j \in DOMAIN posted)
    <3>1. \E k \in 1 .. Len(more) : more[k].type = "finished"
      BY <1>6, <1>12, <2>2
    <3>2. ~Ending
      BY <1>8, <3>1 DEF Says
    <3>3. \E k \in 1 .. Len(more) : i = Len(posted) + Len(f.out) + k
      BY <1>6, <1>12, <3>2 DEF Ending
    <3>4. \E k \in 1 .. Len(more) : j = Len(posted) + Len(f.out) + k
      BY <1>6, <1>12, <3>2 DEF Ending
    <3>5. \A k \in 1 .. Len(more) : k = 1
      BY <1>2 DEF Says
    <3> QED
      BY <3>3, <3>4, <3>5
  <2> QED
    BY <2>1, <2>2
<1>13. (\E i \in DOMAIN posted' : posted'[i].type = "sideFinished") =>
         side' = 0 \/ workers'[side'].phase = "over"
  <2>1. (\E i \in DOMAIN posted' : posted'[i].type = "sideFinished") =>
          \/ \E i \in DOMAIN posted : posted[i].type = "sideFinished"
          \/ \E i \in 1 .. Len(more) : more[i].type = "sideFinished"
    BY <1>6
  <2>2. side # 0 /\ side # w => workers'[side] = workers[side]
    BY <1>2, <1>4 DEF SessionFits
  <2>3. (\E i \in DOMAIN posted : posted[i].type = "sideFinished") => side = 0 \/ workers[side].phase = "over"
    BY <1>4 DEF SessionFits
  <2> QED
    BY <1>2, <2>1, <2>2, <2>3 DEF Says
<1> QED
  BY <1>9, <1>10, <1>11, <1>12, <1>13 DEF SessionFits

\* All that holds goes on holding.
LEMMA AdvanceFits ==
  ASSUME IInv, NEW w \in DOMAIN workers, NEW f, NEW requests, NEW more, Advances(w, f, requests, more),
         Says(w, more), ~Ending => Fresh(f, due, operations, Uploading)
  PROVE  IInv'
<1>1. /\ EngineFits(f) /\ changes' = f.changes /\ due' = f.due /\ files' = f.files
      /\ scope' = scope /\ nextId' = nextId /\ listId' = listId /\ path' = path /\ shown' = shown
      /\ loading' = loading /\ cut' = cut /\ operations' = operations /\ transfers' = transfers
      /\ finished' = finished
      /\ workers' \in Seq(WorkerRecord) /\ workers'[w].transfers = f.transfers
      /\ workers'[w].phase # "up" => f.transfers = <<>>
      /\ workers'[w].inbox = <<>> \/ workers'[w].inbox = workers[w].inbox
      /\ \A v \in DOMAIN workers : v # w => workers'[v] = workers[v]
  BY DEF Advances, Step, Effect, view, list
<1>2. Typed /\ ShownFits
  BY DEF IInv
<1>3. \A v \in DOMAIN workers' : WorkerFits(workers'[v])
  <2>1. SUFFICES ASSUME NEW v \in DOMAIN workers'
                 PROVE  WorkerFits(workers'[v])
    OBVIOUS
  <2>2. v \in DOMAIN workers
    BY AdvanceNumbers
  <2>3. WorkerFits(workers[v])
    BY <1>2, <2>2 DEF Typed
  <2>4. CASE v = w
    <3>1. \A i \in 1 .. Len(f.transfers) : TransferFits(f.transfers[i]) /\ f.transfers[i].made = {}
      BY <1>1 DEF EngineFits
    <3>2. \A i \in 1 .. Len(workers'[w].inbox) : RequestFits(workers'[w].inbox[i])
      BY <1>1, <2>3, <2>4 DEF WorkerFits
    <3> QED
      BY <1>1, <2>4, <3>1, <3>2 DEF WorkerFits
  <2>5. CASE v # w
    BY <1>1, <2>2, <2>3, <2>5
  <2> QED
    BY <2>4, <2>5
<1>4. Typed'
  <2>1. /\ changes' \in [Dirs -> Nat] /\ due' \in [Dirs -> Nat] /\ files' \subseteq File
        /\ \A d \in Dirs : due'[d] <= changes'[d]
    BY <1>1 DEF EngineFits, EngineRecord, DueFits
  <2>2. posted' \in Seq(ReportRecord)
    BY AdvancePosts
  <2>3. told' \in [1 .. scope'.requests -> Nat]
    BY <1>1, AdvanceCounts
  <2> QED
    BY <1>1, <1>2, <1>3, <2>1, <2>2, <2>3 DEF Typed
<1>5. ShownFits'
  BY <1>1, <1>2 DEF ShownFits
<1>6. SessionFits' /\ Apart' /\ ToldFits' /\ HalvesFit' /\ FreshFits'
  BY AdvanceSession, AdvanceApart, AdvanceTold, AdvanceHalves, AdvanceFresh
<1>7. NoneIsForgotten'
  <2>1. requests = workers[w].inbox \/ workers'[w].phase # "over" \/ workers[w].kind = "side"
          \/ \E i \in 1 .. Len(more) : more[i].type = "finished"
    BY DEF Says
  <2> QED
    BY <2>1, AdvanceAwaited
<1> QED
  BY <1>4, <1>5, <1>6, <1>7 DEF IInv

\* A step in which all fails tells nothing that is not so.
LEMMA FailingIsFresh ==
  ASSUME IInv, NEW w \in DOMAIN workers, NEW f, EngineFits(f), Failing(f, Engine(w)), f.transfers = <<>>,
         NEW ops, NEW ups
  PROVE  Fresh(f, due, ops, ups)
<1>1. Engine(w).out = <<>> /\ Engine(w).due = due
  BY EngineIs
<1>2. \A i \in 1 .. Len(f.out) : ~f.out[i].good
  BY <1>1 DEF Failing
<1>3. f.due = due /\ Len(f.transfers) = 0
  BY <1>1 DEF Failing
<1> QED
  BY <1>2, <1>3 DEF Fresh, ListsFit

\* A worker as it is after a step.
LEMMA WorkerIs ==
  ASSUME IInv, NEW w \in DOMAIN workers, NEW new \in WorkerRecord, workers' = [workers EXCEPT ![w] = new]
  PROVE  /\ workers' \in Seq(WorkerRecord) /\ Len(workers') = Len(workers) /\ DOMAIN workers' = DOMAIN workers
         /\ workers'[w] = new /\ \A v \in DOMAIN workers : v # w => workers'[v] = workers[v]
<1>1. workers \in Seq(WorkerRecord)
  BY DEF IInv, Typed
<1> QED
  BY <1>1

\* What is done for the first transfer is told, too.
LEMMA ServiceFirstFresh ==
  ASSUME NEW e, EngineFits(e), e.transfers # <<>>, NEW luck, LuckFits(Head(e.transfers), luck),
         NEW from, NEW ops, NEW ups, Fresh(e, from, ops, ups)
  PROVE  Fresh(ServiceFirst(e, luck), from, ops, ups)
<1> DEFINE f == ServiceFirst(e, luck)
<1>1. e \in EngineRecord /\ e.transfers \in Seq(TransferRecord)
  BY DEF EngineFits, EngineRecord
<1>2. \A k \in 1 .. Len(e.transfers) : e.transfers[k].upload => e.transfers[k].id \in ups
  BY DEF Fresh
<1>3. \/ /\ f.out = e.out /\ f.due = e.due /\ Len(f.transfers) = Len(e.transfers)
         /\ \A k \in 1 .. Len(e.transfers) : f.transfers[k].id = e.transfers[k].id
                                             /\ f.transfers[k].upload = e.transfers[k].upload
      \/ /\ f.transfers = Tail(e.transfers)
         /\ \E good \in BOOLEAN :
              /\ f.out = Append(e.out, Report("transferred", e.transfers[1].id, None, good, 0))
              /\ f.due = e.due \/ (good /\ e.transfers[1].upload)
  BY ServiceFirstFits
<1> HIDE DEF f
<1>4. CASE /\ f.out = e.out /\ f.due = e.due /\ Len(f.transfers) = Len(e.transfers)
           /\ \A k \in 1 .. Len(e.transfers) : f.transfers[k].id = e.transfers[k].id
                                               /\ f.transfers[k].upload = e.transfers[k].upload
  <2>1. Tells(f, e, ops, ups)
    BY <1>4 DEF Tells
  <2> QED
    BY <1>1, <2>1, FreshKept DEF f
<1>5. ASSUME f.transfers = Tail(e.transfers),
             NEW good \in BOOLEAN,
             f.out = Append(e.out, Report("transferred", e.transfers[1].id, None, good, 0)),
             f.due = e.due \/ (good /\ e.transfers[1].upload)
      PROVE  Fresh(f, from, ops, ups)
  <2> DEFINE r == Report("transferred", e.transfers[1].id, None, good, 0)
  <2>1. /\ 1 \in 1 .. Len(e.transfers) /\ e.transfers[1] \in TransferRecord
        /\ \A k \in 1 .. Len(f.transfers) : k + 1 \in 1 .. Len(e.transfers) /\ f.transfers[k] = e.transfers[k + 1]
    BY <1>1, <1>5, TailIs
  <2>2. r \in ReportRecord
    BY <2>1 DEF Report, ReportRecord, ReportType, TransferRecord
  <2>3. r.type = "transferred" /\ r.good = good /\ r.id = e.transfers[1].id
    BY DEF Report
  <2> HIDE DEF r
  <2>4. \A d \in Dirs : f.due[d] = e.due[d] \/ Changed(r, d, ops, ups)
    BY <1>2, <1>5, <2>1, <2>3 DEF Changed
  <2>5. \A k \in 1 .. Len(f.transfers) : f.transfers[k].upload => f.transfers[k].id \in ups
    BY <1>2, <2>1
  <2>6. f.out = Append(e.out, r)
    BY <1>5 DEF r
  <2>7. Tells(f, e, ops, ups)
    BY <2>2, <2>3, <2>4, <2>5, <2>6 DEF Tells
  <2> QED
    BY <1>1, <2>7, FreshKept
<1> QED
  BY <1>3, <1>4, <1>5 DEF f

\* An engine that has done nothing yet.
LEMMA EngineStarts ==
  ASSUME IInv, NEW w \in DOMAIN workers, NEW ops, NEW ups,
         \A i \in 1 .. Len(workers[w].transfers) :
           workers[w].transfers[i].upload => workers[w].transfers[i].id \in ups
  PROVE  Fresh(Engine(w), due, ops, ups)
<1>1. Engine(w).out = <<>> /\ Engine(w).due = due /\ Engine(w).transfers = workers[w].transfers
  BY EngineIs
<1> QED
  BY <1>1 DEF Fresh, ListsFit

\* A pass takes the inbox and services the first transfer.
LEMMA PassRuns ==
  ASSUME IInv, NEW w \in DOMAIN workers, NEW outcomes, NEW ops, NEW ups,
         \A i \in 1 .. Len(workers[w].transfers) :
           workers[w].transfers[i].upload => workers[w].transfers[i].id \in ups,
         RequestsKnown(workers[w].inbox, ops, ups),
         NEW f,
         \/ f = RunAll(Engine(w), workers[w].inbox, outcomes)
         \/ /\ RunAll(Engine(w), workers[w].inbox, outcomes).transfers # <<>>
            /\ \E luck \in Lucks(Head(RunAll(Engine(w), workers[w].inbox, outcomes).transfers)) :
                 f = ServiceFirst(RunAll(Engine(w), workers[w].inbox, outcomes), luck)
  PROVE  /\ Step(f, Engine(w), Nums(workers[w].inbox, Len(workers[w].inbox)),
                 TransferNums(workers[w].inbox, Len(workers[w].inbox)))
         /\ Fresh(f, due, ops, ups)
<1> DEFINE e == Engine(w)
           requests == workers[w].inbox
           ran == RunAll(e, requests, outcomes)
           n == Nums(requests, Len(requests))
           s == TransferNums(requests, Len(requests))
<1>1. EngineFits(e) /\ RequestsFit(e, requests) /\ Fresh(e, due, ops, ups)
  BY EngineIs, EngineStarts
<1>2. Step(ran, e, n, s) /\ Fresh(ran, due, ops, ups)
  <2> HIDE DEF e, requests
  <2>1. RequestsKnown(requests, ops, ups)
    BY DEF requests
  <2> QED
    BY <1>1, <2>1, RunAllFits
<1>3. f = ran \/ (ran.transfers # <<>> /\ \E luck \in Lucks(Head(ran.transfers)) : f = ServiceFirst(ran, luck))
  OBVIOUS
<1> HIDE DEF ran, n, s, e, requests
<1>4. CASE f = ran
  BY <1>2, <1>4 DEF n, s, e, requests
<1>5. ASSUME ran.transfers # <<>>, NEW luck \in Lucks(Head(ran.transfers)), f = ServiceFirst(ran, luck)
      PROVE  Step(f, e, n, s) /\ Fresh(f, due, ops, ups)
  <2>1. EngineFits(ran)
    BY <1>2 DEF Step
  <2>2. Head(ran.transfers) \in TransferRecord
    BY <1>5, <2>1 DEF EngineFits, EngineRecord
  <2>3. scope \in Scope
    BY DEF IInv, Typed
  <2>4. LuckFits(Head(ran.transfers), luck)
    BY <2>2, <2>3, LucksFit
  <2>5. Step(f, ran, {}, {})
    BY <1>5, <2>1, <2>4, ServiceFirstFits
  <2>6. Fresh(f, due, ops, ups)
    BY <1>2, <1>5, <2>1, <2>4, ServiceFirstFresh
  <2> DEFINE none == {}
  <2>7. Step(f, ran, none, none)
    BY <2>5
  <2> HIDE DEF none
  <2>8. Step(f, e, n \cup none, s \cup none)
    BY <1>2, <2>7, StepThen
  <2>9. n \cup none = n /\ s \cup none = s
    BY DEF none
  <2> QED
    BY <2>6, <2>8, <2>9
<1> QED
  BY <1>3, <1>4, <1>5 DEF n, s, e, requests

\* A pass keeps the invariant.
LEMMA PassKeeps ==
  ASSUME IInv, NEW w \in DOMAIN workers, Pass(w)
  PROVE  IInv'
<1> DEFINE e == Engine(w)
           requests == workers[w].inbox
<1>1. PICK outcomes \in [1 .. Len(requests) -> Outcomes] :
        LET ran == RunAll(e, requests, outcomes)
            After(engine) ==
              /\ workers' = [workers EXCEPT ![w].inbox = <<>>, ![w].transfers = engine.transfers]
              /\ Effect(engine, <<>>)
        IN  IF ran.transfers = <<>> THEN After(ran)
            ELSE \E luck \in Lucks(Head(ran.transfers)) : After(ServiceFirst(ran, luck))
  BY DEF Pass
<1>2. workers[w].phase = "up" /\ ~workers[w].stop /\ UNCHANGED <<scope, view, list, session, cancels>>
  BY DEF Pass
<1>3. PICK f : /\ \/ f = RunAll(e, requests, outcomes)
                  \/ /\ RunAll(e, requests, outcomes).transfers # <<>>
                     /\ \E luck \in Lucks(Head(RunAll(e, requests, outcomes).transfers)) :
                          f = ServiceFirst(RunAll(e, requests, outcomes), luck)
               /\ workers' = [workers EXCEPT ![w].inbox = <<>>, ![w].transfers = f.transfers]
               /\ Effect(f, <<>>)
  <2> DEFINE ran == RunAll(e, requests, outcomes)
  <2>1. CASE ran.transfers = <<>>
    BY <1>1, <2>1
  <2>2. CASE ran.transfers # <<>>
    <3>1. PICK luck \in Lucks(Head(ran.transfers)) :
            /\ workers' = [workers EXCEPT ![w].inbox = <<>>, ![w].transfers = ServiceFirst(ran, luck).transfers]
            /\ Effect(ServiceFirst(ran, luck), <<>>)
      BY <1>1, <2>2
    <3> HIDE DEF ran
    <3> QED
      BY <2>2, <3>1 DEF ran
  <2> QED
    BY <2>1, <2>2
<1>4. workers \in Seq(WorkerRecord) /\ workers[w] \in WorkerRecord /\ WorkerFits(workers[w])
  <2>1. workers \in Seq(WorkerRecord) /\ WorkerFits(workers[w])
    BY DEF IInv, Typed
  <2> QED
    BY <2>1
<1>5. requests \in Seq(RequestRecord) /\ workers[w].transfers \in Seq(TransferRecord)
  BY <1>4 DEF WorkerRecord
<1>6. Step(f, e, Nums(requests, Len(requests)), TransferNums(requests, Len(requests)))
  <2> DEFINE ops == [id : Nat, dir : Dirs]
             ups == Nat
  <2>1. \A i \in 1 .. Len(workers[w].transfers) :
          workers[w].transfers[i].upload => workers[w].transfers[i].id \in ups
    <3>1. \A i \in 1 .. Len(workers[w].transfers) : workers[w].transfers[i] \in TransferRecord
      BY <1>5
    <3> QED
      BY <3>1 DEF TransferRecord
  <2>2. RequestsKnown(requests, ops, ups)
    <3>1. \A i \in 1 .. Len(requests) : requests[i] \in RequestRecord /\ RequestFits(requests[i])
      BY <1>4, <1>5 DEF WorkerFits
    <3> HIDE DEF requests
    <3>2. ASSUME NEW i \in 1 .. Len(requests)
          PROVE  /\ requests[i].type = "operate" => [id |-> requests[i].id, dir |-> requests[i].dir] \in ops
                 /\ requests[i].type = "upload" => requests[i].id \in ups
      BY <3>1 DEF RequestFits, RequestRecord
    <3> QED
      BY <3>2 DEF RequestsKnown
  <2> HIDE DEF ops, ups
  <2> QED
    BY <1>3, <2>1, <2>2, PassRuns
<1>7. ~Ending => Fresh(f, due, operations, Uploading)
  <2>1. SUFFICES ASSUME ~Ending
                 PROVE  Fresh(f, due, operations, Uploading)
    OBVIOUS
  <2>2. Known(w)
    BY <1>2, <2>1 DEF IInv, FreshFits
  <2>3. \A i \in 1 .. Len(workers[w].transfers) :
          workers[w].transfers[i].upload => workers[w].transfers[i].id \in Uploading
    BY <1>5, <2>2 DEF Known
  <2>4. RequestsKnown(requests, operations, Uploading)
    <3>1. DOMAIN requests = 1 .. Len(requests)
      BY <1>5
    <3>2. \A i \in DOMAIN requests :
            /\ requests[i].type = "operate" => [id |-> requests[i].id, dir |-> requests[i].dir] \in operations
            /\ requests[i].type = "upload" => requests[i].id \in Uploading
      BY ONLY <2>2 DEF Known
    <3> QED
      BY ONLY <3>1, <3>2 DEF RequestsKnown
  <2> QED
    BY <1>3, <2>3, <2>4, PassRuns
<1>8. EngineFits(f) /\ f.transfers \in Seq(TransferRecord)
  BY <1>6 DEF Step, EngineFits, EngineRecord
<1> DEFINE new == [workers[w] EXCEPT !.inbox = <<>>, !.transfers = f.transfers]
<1>9. /\ new \in WorkerRecord /\ new.kind = workers[w].kind /\ new.stop = workers[w].stop
      /\ new.phase = "up" /\ new.inbox = <<>> /\ new.transfers = f.transfers
  <2>1. <<>> \in Seq(RequestRecord)
    OBVIOUS
  <2> QED
    BY <1>2, <1>4, <1>8, <2>1 DEF WorkerRecord
<1>10. workers' = [workers EXCEPT ![w] = new]
  BY <1>3, <1>4
<1> HIDE DEF new
<1>11. /\ workers' \in Seq(WorkerRecord) /\ Len(workers') = Len(workers)
       /\ workers'[w] = new /\ \A v \in DOMAIN workers : v # w => workers'[v] = workers[v]
  BY <1>9, <1>10, WorkerIs
<1>12. <<>> \in Seq(ReportRecord) /\ Len(<<>>) = 0
  OBVIOUS
<1>13. Advances(w, f, requests, <<>>)
  BY <1>2, <1>3, <1>6, <1>9, <1>11, <1>12 DEF Advances
<1>14. Says(w, <<>>)
  BY <1>9, <1>11, <1>12 DEF Says
<1> QED
  BY <1>7, <1>13, <1>14, AdvanceFits

\* What is common to the steps in which all fails.
LEMMA FailingKeeps ==
  ASSUME IInv, NEW w \in DOMAIN workers, workers[w].phase # "over",
         NEW taken \in BOOLEAN, NEW removable \in BOOLEAN, NEW new \in WorkerRecord, NEW more \in Seq(ReportRecord),
         \A i \in 1 .. Len(more) : ~IsReport(more[i]),
         new.kind = workers[w].kind, new.stop = workers[w].stop, new.transfers = <<>>,
         new.inbox = IF taken THEN <<>> ELSE workers[w].inbox,
         workers' = [workers EXCEPT ![w] = new],
         Effect(FailAll(Engine(w), IF taken THEN workers[w].inbox ELSE <<>>, removable), more),
         Says(w, more), UNCHANGED <<scope, view, list, session, cancels>>
  PROVE  IInv'
<1> DEFINE requests == IF taken THEN workers[w].inbox ELSE <<>>
           f == FailAll(Engine(w), requests, removable)
<1>1. EngineFits(Engine(w)) /\ RequestsFit(Engine(w), requests)
  BY EngineIs
<1>2. \/ requests = workers[w].inbox /\ new.inbox = <<>>
      \/ requests = <<>> /\ new.inbox = workers[w].inbox
  OBVIOUS
<1>3. Effect(f, more)
  OBVIOUS
<1> HIDE DEF requests
<1>4. /\ Step(f, Engine(w), Nums(requests, Len(requests)), TransferNums(requests, Len(requests)))
      /\ Failing(f, Engine(w)) /\ f.transfers = <<>>
  BY <1>1, FailAllFits
<1> HIDE DEF f
<1>5. Fresh(f, due, operations, Uploading)
  BY <1>4, FailingIsFresh DEF Step
<1>6. /\ workers' \in Seq(WorkerRecord) /\ Len(workers') = Len(workers)
      /\ workers'[w] = new /\ \A v \in DOMAIN workers : v # w => workers'[v] = workers[v]
  BY WorkerIs
<1>7. Advances(w, f, requests, more)
  BY <1>2, <1>3, <1>4, <1>6 DEF Advances
<1> QED
  BY <1>5, <1>7, AdvanceFits

\* What the worker itself tells.
LEMMA SignalIs ==
  ASSUME NEW type \in {"finished", "sshClosed", "sideFinished"}
  PROVE  /\ <<Signal(type)>> \in Seq(ReportRecord) /\ Len(<<Signal(type)>>) = 1
         /\ <<Signal(type)>>[1].type = type /\ ~IsReport(<<Signal(type)>>[1])
<1>1. Signal(type) \in ReportRecord /\ Signal(type).type = type
  BY DEF Signal, Report, ReportRecord, ReportType
<1>2. ~IsReport(Signal(type))
  BY <1>1 DEF IsReport
<1> QED
  BY <1>1, <1>2

\* The worker as it is when all has failed.
LEMMA FailedWorker ==
  ASSUME IInv, NEW w \in DOMAIN workers, NEW phase \in {"up", "closed", "over"}, NEW taken \in BOOLEAN
  PROVE  LET inbox == IF taken THEN <<>> ELSE workers[w].inbox
             new == [workers[w] EXCEPT !.phase = phase, !.transfers = <<>>, !.inbox = inbox]
         IN  /\ workers \in Seq(WorkerRecord) /\ workers[w] \in WorkerRecord /\ new \in WorkerRecord
             /\ new.kind = workers[w].kind /\ new.stop = workers[w].stop /\ new.transfers = <<>>
             /\ new.inbox = inbox /\ new.phase = phase
<1> DEFINE inbox == IF taken THEN <<>> ELSE workers[w].inbox
<1>1. workers \in Seq(WorkerRecord)
  BY DEF IInv, Typed
<1>2. workers[w] \in WorkerRecord
  BY <1>1
<1>3. inbox \in Seq(RequestRecord) /\ <<>> \in Seq(TransferRecord)
  BY <1>2 DEF WorkerRecord
<1> HIDE DEF inbox
<1>4. LET new == [workers[w] EXCEPT !.phase = phase, !.transfers = <<>>, !.inbox = inbox]
      IN  /\ new \in WorkerRecord
          /\ new.kind = workers[w].kind /\ new.stop = workers[w].stop /\ new.transfers = <<>>
          /\ new.inbox = inbox /\ new.phase = phase
  BY <1>2, <1>3 DEF WorkerRecord
<1> QED
  BY <1>1, <1>2, <1>4 DEF inbox

\* The end of the SSH connection under mosh keeps the invariant.
LEMMA SshClosesKeeps ==
  ASSUME IInv, NEW w \in DOMAIN workers, SshCloses(w)
  PROVE  IInv'
<1>1. /\ workers[w].phase = "up" /\ workers[w].kind = "mosh"
      /\ UNCHANGED <<scope, view, list, session, cancels>>
  BY DEF SshCloses
<1>2. PICK taken \in BOOLEAN :
        /\ Effect(FailAll(Engine(w), IF taken THEN workers[w].inbox ELSE <<>>, FALSE), <<Signal("sshClosed")>>)
        /\ workers' = [workers EXCEPT ![w].phase = "closed", ![w].transfers = <<>>,
                                      ![w].inbox = IF taken THEN <<>> ELSE @]
  BY DEF SshCloses
<1> DEFINE inbox == IF taken THEN <<>> ELSE workers[w].inbox
           new == [workers[w] EXCEPT !.phase = "closed", !.transfers = <<>>, !.inbox = inbox]
           more == <<Signal("sshClosed")>>
<1>3. /\ workers \in Seq(WorkerRecord) /\ workers[w] \in WorkerRecord /\ new \in WorkerRecord
      /\ new.kind = workers[w].kind /\ new.stop = workers[w].stop /\ new.transfers = <<>>
      /\ new.inbox = inbox /\ new.phase = "closed"
  BY FailedWorker
<1>4. workers' = [workers EXCEPT ![w] = new]
  <2>1. workers' = [workers EXCEPT ![w].phase = "closed", ![w].transfers = <<>>, ![w].inbox = inbox]
    BY <1>2, <1>3 DEF WorkerRecord
  <2> HIDE DEF inbox
  <2> QED
    BY <1>3, <2>1
<1>5. more \in Seq(ReportRecord) /\ Len(more) = 1 /\ more[1].type = "sshClosed" /\ ~IsReport(more[1])
  BY SignalIs
<1> DEFINE removable == FALSE
<1>6. removable \in BOOLEAN /\ Effect(FailAll(Engine(w), IF taken THEN workers[w].inbox ELSE <<>>, removable), more)
  BY <1>2
<1>7. workers'[w] = new
  BY <1>3, <1>4
<1>8. new.inbox = IF taken THEN <<>> ELSE workers[w].inbox
  BY <1>3
<1> HIDE DEF new, inbox, more, removable
<1>9. Says(w, more)
  BY <1>3, <1>5, <1>7 DEF Says
<1>10. \A i \in 1 .. Len(more) : ~IsReport(more[i])
  BY <1>5
<1>11. workers[w].phase # "over"
  BY <1>1
<1> QED
  BY <1>1, <1>3, <1>4, <1>5, <1>6, <1>8, <1>9, <1>10, <1>11, FailingKeeps

\* A pass without a connection keeps the invariant.
LEMMA RefuseAllKeeps ==
  ASSUME IInv, NEW w \in DOMAIN workers, RefuseAll(w)
  PROVE  IInv'
<1> DEFINE taken == TRUE
           removable == FALSE
           inbox == IF taken THEN <<>> ELSE workers[w].inbox
           new == [workers[w] EXCEPT !.phase = "closed", !.transfers = <<>>, !.inbox = inbox]
<1>1. /\ workers[w].phase = "closed" /\ UNCHANGED <<scope, view, list, session, cancels>>
      /\ Effect(FailAll(Engine(w), IF taken THEN workers[w].inbox ELSE <<>>, removable), <<>>)
      /\ workers' = [workers EXCEPT ![w].inbox = inbox]
  BY DEF RefuseAll
<1>2. taken \in BOOLEAN /\ removable \in BOOLEAN
  OBVIOUS
<1> HIDE DEF taken, removable
<1>3. /\ workers \in Seq(WorkerRecord) /\ workers[w] \in WorkerRecord /\ new \in WorkerRecord
      /\ new.kind = workers[w].kind /\ new.stop = workers[w].stop /\ new.transfers = <<>>
      /\ new.inbox = inbox /\ new.phase = "closed"
  BY <1>2, FailedWorker
<1>4. new.inbox = IF taken THEN <<>> ELSE workers[w].inbox
  BY <1>3
<1> HIDE DEF inbox
<1>5. workers[w].transfers = <<>>
  BY <1>1 DEF IInv, Typed, WorkerFits
<1>6. new = [workers[w] EXCEPT !.inbox = inbox]
  BY <1>1, <1>3, <1>5 DEF WorkerRecord
<1> HIDE DEF new
<1>7. workers' = [workers EXCEPT ![w] = new]
  BY <1>1, <1>3, <1>6
<1> DEFINE more == <<>>
<1>8. more \in Seq(ReportRecord) /\ Len(more) = 0 /\ \A i \in 1 .. Len(more) : ~IsReport(more[i])
  OBVIOUS
<1>9. Effect(FailAll(Engine(w), IF taken THEN workers[w].inbox ELSE <<>>, removable), more)
  BY <1>1
<1> HIDE DEF more
<1>10. workers'[w] = new
  BY <1>3, <1>7
<1>11. Says(w, more)
  BY <1>3, <1>8, <1>10 DEF Says
<1>12. workers[w].phase # "over"
  BY <1>1
<1> QED
  BY <1>1, <1>2, <1>3, <1>4, <1>7, <1>8, <1>9, <1>11, <1>12, FailingKeeps

\* The end of the thread keeps the invariant.
LEMMA ThreadEndsKeeps ==
  ASSUME IInv, NEW w \in DOMAIN workers, ThreadEnds(w)
  PROVE  IInv'
<1>1. workers[w].phase # "over" /\ UNCHANGED <<scope, view, list, session, cancels>>
  BY DEF ThreadEnds
<1> DEFINE more == IF workers[w].kind # "side" THEN <<Signal("finished")>>
                   ELSE IF w = side THEN <<Signal("sideFinished")>> ELSE <<>>
<1>2. PICK taken \in BOOLEAN, removable \in BOOLEAN :
        /\ Effect(FailAll(Engine(w), IF taken THEN workers[w].inbox ELSE <<>>, removable), more)
        /\ workers' = [workers EXCEPT ![w].phase = "over", ![w].transfers = <<>>,
                                      ![w].inbox = IF taken THEN <<>> ELSE @]
  BY DEF ThreadEnds
<1> DEFINE inbox == IF taken THEN <<>> ELSE workers[w].inbox
           new == [workers[w] EXCEPT !.phase = "over", !.transfers = <<>>, !.inbox = inbox]
<1>3. /\ workers \in Seq(WorkerRecord) /\ workers[w] \in WorkerRecord /\ new \in WorkerRecord
      /\ new.kind = workers[w].kind /\ new.stop = workers[w].stop /\ new.transfers = <<>>
      /\ new.inbox = inbox /\ new.phase = "over"
  BY ZenonT(60), FailedWorker
<1>4. workers' = [workers EXCEPT ![w] = new]
  <2>1. workers' = [workers EXCEPT ![w].phase = "over", ![w].transfers = <<>>, ![w].inbox = inbox]
    BY <1>2, <1>3 DEF WorkerRecord
  <2> HIDE DEF inbox
  <2> QED
    BY <1>3, <2>1
<1>5. workers'[w] = new
  BY <1>3, <1>4
<1>6. new.inbox = IF taken THEN <<>> ELSE workers[w].inbox
  BY <1>3
<1> HIDE DEF new, inbox
<1>7. /\ more \in Seq(ReportRecord) /\ Len(more) <= 1 /\ \A i \in 1 .. Len(more) : ~IsReport(more[i])
      /\ (\E i \in 1 .. Len(more) : more[i].type = "finished") <=> workers[w].kind # "side"
      /\ (\E i \in 1 .. Len(more) : more[i].type = "sideFinished") => w = side
  <2>1. CASE workers[w].kind # "side"
    <3>1. /\ more = <<Signal("finished")>> /\ more \in Seq(ReportRecord) /\ Len(more) = 1
          /\ more[1].type = "finished" /\ ~IsReport(more[1])
      BY <2>1, SignalIs
    <3> HIDE DEF more
    <3> QED
      BY <2>1, <3>1
  <2>2. CASE workers[w].kind = "side" /\ w = side
    <3>1. /\ more = <<Signal("sideFinished")>> /\ more \in Seq(ReportRecord) /\ Len(more) = 1
          /\ more[1].type = "sideFinished" /\ ~IsReport(more[1])
      BY <2>2, SignalIs
    <3> HIDE DEF more
    <3> QED
      BY <2>2, <3>1
  <2>3. CASE workers[w].kind = "side" /\ w # side
    <3>1. more = <<>> /\ more \in Seq(ReportRecord) /\ Len(more) = 0
      BY <2>3
    <3> HIDE DEF more
    <3> QED
      BY <2>3, <3>1
  <2> QED
    BY <2>1, <2>2, <2>3
<1> HIDE DEF more
<1>8. Says(w, more)
  BY <1>3, <1>5, <1>7 DEF Says
<1> QED
  BY <1>1, <1>2, <1>3, <1>4, <1>6, <1>7, <1>8, FailingKeeps

-----------------------------------------------------------------------------
(* A step of the browser or of the session *)

\* The same transfers, but for the length of their files.
Alike(now, before) ==
  /\ Len(now) = Len(before)
  /\ \A i \in 1 .. Len(before) : /\ now[i].id = before[i].id /\ now[i].upload = before[i].upload
                                 /\ Stopping(now[i]) = Stopping(before[i])

\* The first s events are taken from the queue.
Taken(s) ==
  /\ posted' \in Seq(ReportRecord) /\ s \in {0, 1} /\ Len(posted') = Len(posted) - s
  /\ \A i \in 1 .. Len(posted') : posted'[i] = posted[i + s]

\* A worker, taker, is given a request, or none if taker is 0; the first event
\* is taken from the queue if s is 1; workers may be stopped, and new ones come.
Calls(taker, request, s) ==
  /\ workers' \in Seq(WorkerRecord) /\ \A v \in DOMAIN workers' : WorkerFits(workers'[v])
  /\ \A v \in DOMAIN workers :
       /\ v \in DOMAIN workers'
       /\ workers'[v].kind = workers[v].kind /\ workers'[v].phase = workers[v].phase
       /\ workers[v].stop => workers'[v].stop
       /\ Alike(workers'[v].transfers, workers[v].transfers)
       /\ workers'[v].inbox = IF v = taker THEN Append(workers[v].inbox, request) ELSE workers[v].inbox
  /\ \A v \in DOMAIN workers' : v \notin DOMAIN workers => workers'[v].inbox = <<>> /\ workers'[v].transfers = <<>>
  /\ taker \in {0} \cup DOMAIN workers
  /\ taker # 0 => request \in RequestRecord
  /\ taker # 0 /\ Counts(request) => request.id = nextId /\ nextId < nextId'
  /\ taker # 0 /\ IsTransfer(request) => nextId \in DOMAIN told
  /\ nextId' \in Nat /\ nextId <= nextId'
  /\ Taken(s)
  /\ UNCHANGED <<scope, server>>

\* Where the numbers are after such a step.
LEMMA CallsNumbers ==
  ASSUME IInv, NEW taker, NEW request, NEW s, Calls(taker, request, s)
  PROVE  /\ \A v \in DOMAIN workers :
              /\ v \in DOMAIN workers' /\ EngineIds(v)' = EngineIds(v)
              /\ InboxIds(v) \subseteq InboxIds(v)'
              /\ v # taker => InboxIds(v)' = InboxIds(v)
              /\ InboxIds(v)' \subseteq InboxIds(v) \cup {nextId}
              /\ nextId \in InboxIds(v)' => v = taker /\ nextId < nextId'
         /\ \A v \in DOMAIN workers' : v \notin DOMAIN workers => InboxIds(v)' = {} /\ EngineIds(v)' = {}
         /\ PostedIds' \subseteq PostedIds
         /\ \A v \in DOMAIN workers : nextId \notin InboxIds(v) \cup EngineIds(v)
         /\ nextId \notin PostedIds /\ nextId \in Nat /\ nextId > 0
<1>1. /\ workers \in Seq(WorkerRecord) /\ nextId \in Nat /\ nextId > 0 /\ posted \in Seq(ReportRecord) /\ Apart
  BY DEF IInv, Typed
<1>2. /\ \A v \in DOMAIN workers : \A id \in InboxIds(v) \cup EngineIds(v) : id < nextId
      /\ \A id \in PostedIds : id < nextId
  BY <1>1 DEF Apart
<1>3. /\ \A v \in DOMAIN workers : nextId \notin InboxIds(v) \cup EngineIds(v)
      /\ nextId \notin PostedIds
  BY <1>1, <1>2
<1>4. ASSUME NEW v \in DOMAIN workers
      PROVE  /\ v \in DOMAIN workers' /\ EngineIds(v)' = EngineIds(v)
             /\ InboxIds(v) \subseteq InboxIds(v)'
             /\ v # taker => InboxIds(v)' = InboxIds(v)
             /\ InboxIds(v)' \subseteq InboxIds(v) \cup {nextId}
             /\ nextId \in InboxIds(v)' => v = taker /\ nextId < nextId'
  <2>1. /\ v \in DOMAIN workers' /\ Alike(workers'[v].transfers, workers[v].transfers)
        /\ workers'[v].inbox = IF v = taker THEN Append(workers[v].inbox, request) ELSE workers[v].inbox
    BY <1>4 DEF Calls
  <2>2. EngineIds(v)' = EngineIds(v)
    BY <2>1 DEF EngineIds, Ids, Alike
  <2>3. CASE v # taker
    <3>1. InboxIds(v)' = InboxIds(v)
      BY <2>1, <2>3 DEF InboxIds
    <3> QED
      BY <1>3, <2>1, <2>2, <2>3, <3>1
  <2>4. CASE v = taker
    <3> DEFINE old == workers[v].inbox
               new == workers'[v].inbox
    <3>1. v # 0
      BY <1>1
    <3>2. request \in RequestRecord /\ (Counts(request) => request.id = nextId /\ nextId < nextId')
      BY <2>4, <3>1 DEF Calls
    <3>3. workers[v] \in WorkerRecord
      BY <1>1
    <3>4. old \in Seq(RequestRecord)
      BY <3>3 DEF WorkerRecord
    <3>5. new = Append(old, request)
      BY <2>1, <2>4
    <3> HIDE DEF old, new
    <3>6. /\ \A k \in DOMAIN old : k \in DOMAIN new /\ new[k] = old[k]
          /\ \A k \in DOMAIN new : (k \in DOMAIN old /\ new[k] = old[k]) \/ new[k] = request
      <4>1. /\ new \in Seq(RequestRecord) /\ Len(old) \in Nat /\ Len(new) = Len(old) + 1
            /\ new[Len(old) + 1] = request
            /\ \A k \in 1 .. Len(old) : k \in 1 .. Len(new) /\ new[k] = old[k]
            /\ \A k \in 1 .. Len(new) : k \in 1 .. Len(old) \/ k = Len(old) + 1
        BY <3>2, <3>4, <3>5, AppendIs
      <4>2. DOMAIN old = 1 .. Len(old) /\ DOMAIN new = 1 .. Len(new)
        BY <3>4, <4>1
      <4> QED
        BY <4>1, <4>2
    <3>7. InboxIds(v) = {old[i].id : i \in {k \in DOMAIN old : Counts(old[k])}}
      BY DEF InboxIds, old
    <3>8. InboxIds(v)' = {new[i].id : i \in {k \in DOMAIN new : Counts(new[k])}}
      BY DEF InboxIds, new
    <3>9. InboxIds(v) \subseteq InboxIds(v)'
      BY <3>6, <3>7, <3>8
    <3>10. \A id \in InboxIds(v)' : id \in InboxIds(v) \/ (id = nextId /\ nextId < nextId')
      BY <3>2, <3>6, <3>7, <3>8
    <3> QED
      BY <1>3, <2>1, <2>2, <2>4, <3>9, <3>10
  <2> QED
    BY <2>3, <2>4
<1>5. ASSUME NEW v \in DOMAIN workers', v \notin DOMAIN workers
      PROVE  InboxIds(v)' = {} /\ EngineIds(v)' = {}
  <2>1. workers'[v].inbox = <<>> /\ workers'[v].transfers = <<>>
    BY <1>5 DEF Calls
  <2>2. DOMAIN <<>> = {} /\ Len(<<>>) = 0
    OBVIOUS
  <2> QED
    BY <2>1, <2>2 DEF InboxIds, EngineIds, Ids
<1>6. PostedIds' \subseteq PostedIds
  <2>1. SUFFICES ASSUME NEW i \in DOMAIN posted', IsReport(posted'[i])
                 PROVE  posted'[i].id \in PostedIds
    BY DEF PostedIds
  <2>2. posted' \in Seq(ReportRecord) /\ s \in {0, 1} /\ Len(posted') = Len(posted) - s
    BY DEF Calls, Taken
  <2>3. i + s \in DOMAIN posted /\ i \in 1 .. Len(posted')
    BY <1>1, <2>2
  <2>4. posted'[i] = posted[i + s]
    BY <2>3 DEF Calls, Taken
  <2> QED
    BY <2>1, <2>3, <2>4 DEF PostedIds
<1> QED
  BY <1>1, <1>3, <1>4, <1>5, <1>6

\* The new number is where no other is.
LEMMA CallsApart ==
  ASSUME IInv, NEW taker, NEW request, NEW s, Calls(taker, request, s)
  PROVE  Apart'
<1>1. /\ \A v \in DOMAIN workers :
           /\ v \in DOMAIN workers' /\ EngineIds(v)' = EngineIds(v)
           /\ v # taker => InboxIds(v)' = InboxIds(v)
           /\ InboxIds(v)' \subseteq InboxIds(v) \cup {nextId}
           /\ nextId \in InboxIds(v)' => v = taker /\ nextId < nextId'
      /\ \A v \in DOMAIN workers' : v \notin DOMAIN workers => InboxIds(v)' = {} /\ EngineIds(v)' = {}
      /\ PostedIds' \subseteq PostedIds
      /\ \A v \in DOMAIN workers : nextId \notin InboxIds(v) \cup EngineIds(v)
      /\ nextId \notin PostedIds /\ nextId \in Nat /\ nextId > 0
  BY CallsNumbers
<1>2. Apart /\ workers \in Seq(WorkerRecord) /\ posted \in Seq(ReportRecord)
  BY DEF IInv, Typed
<1>3. /\ nextId' \in Nat /\ nextId <= nextId' /\ workers' \in Seq(WorkerRecord)
      /\ posted' \in Seq(ReportRecord) /\ s \in {0, 1} /\ Len(posted') = Len(posted) - s
      /\ \A i \in 1 .. Len(posted') : posted'[i] = posted[i + s]
  BY DEF Calls, Taken
<1>4. ASSUME NEW v \in DOMAIN workers'
      PROVE  \A i, j \in DOMAIN workers'[v].inbox :
               Counts(workers'[v].inbox[i]) /\ Counts(workers'[v].inbox[j])
                 /\ workers'[v].inbox[i].id = workers'[v].inbox[j].id => i = j
  <2> DEFINE old == workers[v].inbox
             new == workers'[v].inbox
  <2>1. CASE v \notin DOMAIN workers
    <3>1. new = <<>> /\ DOMAIN <<>> = {}
      BY <2>1, <1>4 DEF Calls
    <3> QED
      BY <3>1
  <2>2. CASE v \in DOMAIN workers /\ v # taker
    <3>1. new = old
      BY <2>2 DEF Calls
    <3> QED
      BY <1>2, <2>2, <3>1 DEF Apart
  <2>3. CASE v \in DOMAIN workers /\ v = taker
    <3>1. new = Append(old, request)
      BY <2>3 DEF Calls
    <3>2. v # 0
      BY <1>2, <2>3
    <3>3. request \in RequestRecord /\ (Counts(request) => request.id = nextId)
      BY <2>3, <3>2 DEF Calls
    <3>4. workers[v] \in WorkerRecord
      BY <1>2, <2>3
    <3>5. old \in Seq(RequestRecord)
      BY <3>4 DEF WorkerRecord
    <3>6. \A i, j \in DOMAIN old : Counts(old[i]) /\ Counts(old[j]) /\ old[i].id = old[j].id => i = j
      BY <1>2, <2>3 DEF Apart
    <3>7. \A i \in DOMAIN old : Counts(old[i]) => old[i].id # nextId
      <4>1. nextId \notin InboxIds(v)
        BY <1>1, <2>3
      <4> QED
        BY <4>1 DEF InboxIds
    <3> HIDE DEF old, new
    <3>8. /\ \A k \in DOMAIN new : (k \in DOMAIN old /\ new[k] = old[k]) \/ (k = Len(old) + 1 /\ new[k] = request)
      <4>1. /\ new \in Seq(RequestRecord) /\ Len(old) \in Nat /\ Len(new) = Len(old) + 1
            /\ new[Len(old) + 1] = request
            /\ \A k \in 1 .. Len(old) : k \in 1 .. Len(new) /\ new[k] = old[k]
            /\ \A k \in 1 .. Len(new) : k \in 1 .. Len(old) \/ k = Len(old) + 1
        BY <3>1, <3>3, <3>5, AppendIs
      <4>2. DOMAIN old = 1 .. Len(old) /\ DOMAIN new = 1 .. Len(new)
        BY <3>5, <4>1
      <4> QED
        BY <4>1, <4>2
    <3>9. \A i, j \in DOMAIN new : Counts(new[i]) /\ Counts(new[j]) /\ new[i].id = new[j].id => i = j
      BY <3>3, <3>6, <3>7, <3>8
    <3> QED
      BY <3>9 DEF new
  <2> QED
    BY <2>1, <2>2, <2>3
<1>5. ASSUME NEW v \in DOMAIN workers'
      PROVE  Unique(workers'[v].transfers)
  <2>1. CASE v \notin DOMAIN workers
    <3>1. workers'[v].transfers = <<>> /\ Len(<<>>) = 0
      BY <1>5, <2>1 DEF Calls
    <3> QED
      BY <3>1 DEF Unique
  <2>2. CASE v \in DOMAIN workers
    <3>1. Alike(workers'[v].transfers, workers[v].transfers) /\ Unique(workers[v].transfers)
      BY <1>2, <2>2 DEF Calls, Apart
    <3> QED
      BY <3>1 DEF Unique, Alike
  <2> QED
    BY <2>1, <2>2
<1>6. ASSUME NEW v \in DOMAIN workers', NEW id \in InboxIds(v)' \cup EngineIds(v)'
      PROVE  id < nextId' /\ id > 0
  <2>1. v \in DOMAIN workers
    BY <1>1, <1>6
  <2>2. CASE id \in InboxIds(v) \cup EngineIds(v)
    <3>1. id < nextId /\ id > 0 /\ id \in Int
      <4>1. id < nextId /\ id > 0
        BY <1>2, <2>1, <2>2 DEF Apart
      <4>2. workers[v] \in WorkerRecord
        BY <1>2, <2>1
      <4>3. workers[v].inbox \in Seq(RequestRecord) /\ workers[v].transfers \in Seq(TransferRecord)
        BY <4>2 DEF WorkerRecord
      <4>4. /\ \A i \in DOMAIN workers[v].inbox : workers[v].inbox[i].id \in Nat
            /\ \A i \in 1 .. Len(workers[v].transfers) : workers[v].transfers[i].id \in Nat
        <5>1. /\ \A i \in DOMAIN workers[v].inbox : workers[v].inbox[i] \in RequestRecord
              /\ \A i \in 1 .. Len(workers[v].transfers) : workers[v].transfers[i] \in TransferRecord
          BY <4>3
        <5> QED
          BY <5>1 DEF RequestRecord, TransferRecord
      <4> QED
        BY <2>2, <4>1, <4>4 DEF InboxIds, EngineIds, Ids
    <3> QED
      BY <1>1, <1>3, <3>1
  <2>3. CASE id \notin InboxIds(v) \cup EngineIds(v)
    BY <1>1, <1>6, <2>1, <2>3
  <2> QED
    BY <2>2, <2>3
<1>7. ASSUME NEW u \in DOMAIN workers', NEW v \in DOMAIN workers'
      PROVE  /\ u # v => InboxIds(u)' \cap InboxIds(v)' = {} /\ EngineIds(u)' \cap EngineIds(v)' = {}
             /\ InboxIds(u)' \cap EngineIds(v)' = {}
  <2>1. CASE u \in DOMAIN workers /\ v \in DOMAIN workers
    <3>1. /\ u # v => InboxIds(u) \cap InboxIds(v) = {} /\ EngineIds(u) \cap EngineIds(v) = {}
          /\ InboxIds(u) \cap EngineIds(v) = {}
      BY <1>2, <2>1 DEF Apart
    <3> QED
      BY <1>1, <2>1, <3>1
  <2>2. CASE ~(u \in DOMAIN workers /\ v \in DOMAIN workers)
    BY <1>1, <2>2
  <2> QED
    BY <2>1, <2>2
<1>8. ASSUME NEW i \in DOMAIN posted', NEW j \in DOMAIN posted',
             IsReport(posted'[i]), IsReport(posted'[j]), posted'[i].id = posted'[j].id
      PROVE  i = j
  <2>1. /\ i + s \in DOMAIN posted /\ j + s \in DOMAIN posted /\ i \in Int /\ j \in Int
        /\ i \in 1 .. Len(posted') /\ j \in 1 .. Len(posted')
    BY <1>2, <1>3, SMTT(60)
  <2>2. posted'[i] = posted[i + s] /\ posted'[j] = posted[j + s]
    BY <1>3, <2>1
  <2>3. i + s = j + s
    BY <1>2, <1>8, <2>1, <2>2 DEF Apart
  <2> QED
    BY <1>3, <2>1, <2>3
<1>9. ASSUME NEW id \in PostedIds'
      PROVE  id < nextId' /\ id > 0 /\ \A v \in DOMAIN workers' : id \notin InboxIds(v)' \cup EngineIds(v)'
  <2>1. id \in PostedIds
    BY <1>1
  <2>2. id < nextId /\ id > 0 /\ \A v \in DOMAIN workers : id \notin InboxIds(v) \cup EngineIds(v)
    BY <1>2, <2>1 DEF Apart
  <2>3. id \in Nat
    <3>1. \A i \in DOMAIN posted : posted[i].id \in Nat
      <4>1. \A i \in DOMAIN posted : posted[i] \in ReportRecord
        BY <1>2
      <4> QED
        BY <4>1 DEF ReportRecord
    <3> QED
      BY <2>1, <3>1 DEF PostedIds
  <2>4. id < nextId'
    BY <1>1, <1>3, <2>2, <2>3
  <2>5. id # nextId
    BY <1>1, <2>1
  <2> QED
    BY <1>1, <2>2, <2>4, <2>5
<1> QED
  BY <1>4, <1>5, <1>6, <1>7, <1>8, <1>9 DEF Apart

\* The new number is that of nothing that was told.
LEMMA CallsTold ==
  ASSUME IInv, NEW taker, NEW request, NEW s, Calls(taker, request, s)
  PROVE  ToldFits'
<1>1. /\ \A v \in DOMAIN workers : EngineIds(v)' = EngineIds(v) /\ InboxIds(v)' \subseteq InboxIds(v) \cup {nextId}
      /\ \A v \in DOMAIN workers' : v \notin DOMAIN workers => InboxIds(v)' = {} /\ EngineIds(v)' = {}
      /\ nextId \in Nat
  BY CallsNumbers
<1>2. ToldFits /\ workers \in Seq(WorkerRecord) /\ posted \in Seq(ReportRecord)
      /\ scope \in Scope /\ told \in [1 .. scope.requests -> Nat]
  BY DEF IInv, Typed
<1>3. /\ nextId' \in Nat /\ nextId <= nextId'
      /\ posted' \in Seq(ReportRecord) /\ s \in {0, 1} /\ Len(posted') = Len(posted) - s
      /\ \A i \in 1 .. Len(posted') : posted'[i] = posted[i + s]
      /\ told' = told
  BY DEF Calls, Taken, server
<1>4. ASSUME NEW id \in DOMAIN told', told'[id] > 0
      PROVE  told'[id] = 1 /\ id < nextId' /\ \A v \in DOMAIN workers' : id \notin InboxIds(v)' \cup EngineIds(v)'
  <2>1. told[id] = 1 /\ id < nextId /\ \A v \in DOMAIN workers : id \notin InboxIds(v) \cup EngineIds(v)
    BY <1>2, <1>3, <1>4 DEF ToldFits
  <2>2. id \in Nat
    BY <1>2, <1>3 DEF Scope
  <2>3. id < nextId' /\ id # nextId
    BY <1>1, <1>3, <2>1, <2>2
  <2> QED
    BY <1>1, <1>3, <2>1, <2>3
<1>5. ASSUME NEW i \in DOMAIN posted', posted'[i].type = "transferred"
      PROVE  posted'[i].id \in DOMAIN told' /\ told'[posted'[i].id] = 1
  <2>1. i + s \in DOMAIN posted /\ i \in 1 .. Len(posted')
    BY <1>2, <1>3
  <2>2. posted'[i] = posted[i + s]
    BY <1>3, <2>1
  <2> QED
    BY <1>2, <1>3, <1>5, <2>1, <2>2 DEF ToldFits
<1>6. ASSUME NEW v \in DOMAIN workers'
      PROVE  EngineIds(v)' \subseteq DOMAIN told'
  BY <1>1, <1>2, <1>3 DEF ToldFits
<1>7. ASSUME NEW v \in DOMAIN workers', NEW i \in DOMAIN workers'[v].inbox, IsTransfer(workers'[v].inbox[i])
      PROVE  workers'[v].inbox[i].id \in DOMAIN told'
  <2> DEFINE old == workers[v].inbox
             new == workers'[v].inbox
  <2>1. CASE v \notin DOMAIN workers
    <3>1. new = <<>> /\ DOMAIN <<>> = {}
      BY <1>7, <2>1 DEF Calls
    <3> QED
      BY <1>7, <3>1
  <2>2. CASE v \in DOMAIN workers /\ v # taker
    <3>1. new = old
      BY <2>2 DEF Calls
    <3> QED
      BY <1>2, <1>3, <1>7, <2>2, <3>1 DEF ToldFits
  <2>3. CASE v \in DOMAIN workers /\ v = taker
    <3>1. new = Append(old, request)
      BY <2>3 DEF Calls
    <3>2. v # 0
      BY <1>2, <2>3
    <3>3. request \in RequestRecord
      BY <2>3, <3>2 DEF Calls
    <3>4. IsTransfer(request) => request.id \in DOMAIN told
      BY <2>3, <3>2 DEF Calls, IsTransfer, Counts
    <3>5. workers[v] \in WorkerRecord
      BY <1>2, <2>3
    <3>6. old \in Seq(RequestRecord)
      BY <3>5 DEF WorkerRecord
    <3>7. \A k \in DOMAIN old : IsTransfer(old[k]) => old[k].id \in DOMAIN told
      BY <1>2, <2>3 DEF ToldFits
    <3>8. IsTransfer(new[i]) /\ i \in DOMAIN new
      BY <1>7
    <3> HIDE DEF old, new
    <3>9. (i \in DOMAIN old /\ new[i] = old[i]) \/ new[i] = request
      <4>1. /\ new \in Seq(RequestRecord) /\ Len(old) \in Nat /\ Len(new) = Len(old) + 1
            /\ new[Len(old) + 1] = request
            /\ \A k \in 1 .. Len(old) : k \in 1 .. Len(new) /\ new[k] = old[k]
            /\ \A k \in 1 .. Len(new) : k \in 1 .. Len(old) \/ k = Len(old) + 1
        BY <3>1, <3>3, <3>6, AppendIs
      <4>2. DOMAIN old = 1 .. Len(old) /\ DOMAIN new = 1 .. Len(new)
        BY <3>6, <4>1
      <4> QED
        BY <3>8, <4>1, <4>2
    <3>10. new[i].id \in DOMAIN told
      BY <3>4, <3>7, <3>8, <3>9
    <3> QED
      BY <1>3, <3>10 DEF new
  <2> QED
    BY <2>1, <2>2, <2>3
<1> QED
  BY <1>4, <1>5, <1>6, <1>7 DEF ToldFits

\* The files are as they were.
LEMMA CallsHalves ==
  ASSUME IInv, NEW taker, NEW request, NEW s, Calls(taker, request, s)
  PROVE  HalvesFit'
<1>1. /\ \A v \in DOMAIN workers : EngineIds(v)' = EngineIds(v) /\ InboxIds(v)' \subseteq InboxIds(v) \cup {nextId}
      /\ \A v \in DOMAIN workers' : v \notin DOMAIN workers => InboxIds(v)' = {} /\ EngineIds(v)' = {}
      /\ nextId \in Nat
  BY CallsNumbers
<1>2. HalvesFit /\ files \subseteq File /\ workers \in Seq(WorkerRecord)
  BY DEF IInv, Typed
<1>3. nextId' \in Nat /\ nextId <= nextId' /\ told' = told /\ files' = files /\ right' = right
  BY DEF Calls, server
<1>4. ASSUME NEW x \in files
      PROVE  x.id < nextId' /\ \A v \in DOMAIN workers' : x.id \notin InboxIds(v)'
  <2>1. x.id < nextId /\ \A v \in DOMAIN workers : x.id \notin InboxIds(v)
    BY <1>2 DEF HalvesFit
  <2>2. x.id \in Nat
    BY <1>2 DEF File
  <2>3. x.id < nextId' /\ x.id # nextId
    BY <1>1, <1>3, <2>1, <2>2
  <2> QED
    BY <1>1, <2>1, <2>3
<1>5. ASSUME NEW x \in files, Half(x), NEW v \in DOMAIN workers', NEW i \in DOMAIN workers'[v].transfers,
             workers'[v].transfers[i].id = x.id
      PROVE  Stopping(workers'[v].transfers[i])
  <2>1. v \in DOMAIN workers
    <3>1. SUFFICES ASSUME v \notin DOMAIN workers
                   PROVE  FALSE
      OBVIOUS
    <3>2. workers'[v].transfers = <<>> /\ DOMAIN <<>> = {}
      BY <3>1 DEF Calls
    <3> QED
      BY <1>5, <3>2
  <2>2. Alike(workers'[v].transfers, workers[v].transfers) /\ workers' \in Seq(WorkerRecord)
    BY <2>1 DEF Calls
  <2>3. workers[v] \in WorkerRecord /\ workers'[v] \in WorkerRecord
    BY <1>2, <2>1, <2>2
  <2>4. /\ DOMAIN workers[v].transfers = 1 .. Len(workers[v].transfers)
        /\ DOMAIN workers'[v].transfers = 1 .. Len(workers'[v].transfers)
    BY <2>3 DEF WorkerRecord
  <2>5. /\ i \in DOMAIN workers[v].transfers /\ workers[v].transfers[i].id = x.id
        /\ Stopping(workers'[v].transfers[i]) = Stopping(workers[v].transfers[i])
    BY <1>5, <2>2, <2>4 DEF Alike
  <2>6. Stopping(workers[v].transfers[i])
    BY <1>2, <1>5, <2>1, <2>5 DEF HalvesFit
  <2> QED
    BY <2>5, <2>6
<1> QED
  BY <1>2, <1>3, <1>4, <1>5 DEF HalvesFit

\* What the browser waits for is still to come, unless it was the first event.
LEMMA CallsAwaited ==
  ASSUME IInv, NEW taker, NEW request, NEW s, Calls(taker, request, s),
         s = 1 => /\ posted[1].type # "finished"
                  /\ posted[1].type = "transferred" => \A t \in transfers' : t.id # posted[1].id,
         \A t \in transfers' : t \notin transfers =>
           s = 0 /\ taker \in {main, side} \ {0} /\ IsTransfer(request) /\ t.id = request.id
  PROVE  NoneIsForgotten'
<1>1. /\ workers \in Seq(WorkerRecord) /\ posted \in Seq(ReportRecord) /\ SessionFits /\ NoneIsForgotten
  BY DEF IInv, Typed
<1>2. /\ posted' \in Seq(ReportRecord) /\ s \in {0, 1} /\ Len(posted') = Len(posted) - s
      /\ \A i \in 1 .. Len(posted') : posted'[i] = posted[i + s]
      /\ taker \in {0} \cup DOMAIN workers
      /\ workers' \in Seq(WorkerRecord)
  BY DEF Calls, Taken
<1>3. \A i \in DOMAIN posted : (i = 1 /\ s = 1) \/ (i - s \in DOMAIN posted' /\ posted'[i - s] = posted[i])
  BY <1>1, <1>2
<1>4. ASSUME NEW v \in DOMAIN workers
      PROVE  /\ v \in DOMAIN workers' /\ workers'[v].kind = workers[v].kind /\ workers'[v].phase = workers[v].phase
             /\ \A id : (\E i \in DOMAIN workers[v].transfers : workers[v].transfers[i].id = id) =>
                          \E i \in DOMAIN workers'[v].transfers : workers'[v].transfers[i].id = id
             /\ \A id : InInbox(v, id) => InInbox(v, id)'
             /\ v = taker /\ IsTransfer(request) => InInbox(v, request.id)'
  <2> DEFINE old == workers[v].inbox
             new == workers'[v].inbox
  <2>1. /\ v \in DOMAIN workers' /\ workers'[v].kind = workers[v].kind /\ workers'[v].phase = workers[v].phase
        /\ Alike(workers'[v].transfers, workers[v].transfers)
        /\ new = IF v = taker THEN Append(old, request) ELSE old
        /\ taker # 0 => request \in RequestRecord
    BY <1>4 DEF Calls
  <2>2. workers[v] \in WorkerRecord /\ workers'[v] \in WorkerRecord /\ v # 0
    BY <1>1, <1>2, <2>1
  <2>3. /\ DOMAIN workers[v].transfers = 1 .. Len(workers[v].transfers)
        /\ DOMAIN workers'[v].transfers = 1 .. Len(workers'[v].transfers)
        /\ old \in Seq(RequestRecord)
    BY <2>2 DEF WorkerRecord
  <2>4. \A id : (\E i \in DOMAIN workers[v].transfers : workers[v].transfers[i].id = id) =>
                  \E i \in DOMAIN workers'[v].transfers : workers'[v].transfers[i].id = id
    BY <2>1, <2>3 DEF Alike
  <2>5. /\ \A id : InInbox(v, id) <=> \E i \in DOMAIN old : IsTransfer(old[i]) /\ old[i].id = id
        /\ \A id : (\E i \in DOMAIN new : IsTransfer(new[i]) /\ new[i].id = id) => InInbox(v, id)'
    BY DEF InInbox
  <2>6. CASE v # taker
    <3>1. new = old
      BY <2>1, <2>6
    <3> HIDE DEF old, new
    <3> QED
      BY <2>1, <2>4, <2>5, <2>6, <3>1
  <2>7. CASE v = taker
    <3>1. request \in RequestRecord /\ new = Append(old, request)
      BY <2>1, <2>2, <2>7
    <3> HIDE DEF old, new
    <3>2. /\ \A k \in DOMAIN old : k \in DOMAIN new /\ new[k] = old[k]
          /\ \E k \in DOMAIN new : new[k] = request
      <4>1. /\ new \in Seq(RequestRecord) /\ Len(old) \in Nat /\ Len(new) = Len(old) + 1
            /\ new[Len(old) + 1] = request
            /\ \A k \in 1 .. Len(old) : k \in 1 .. Len(new) /\ new[k] = old[k]
        BY <2>3, <3>1, AppendIs
      <4>2. DOMAIN old = 1 .. Len(old) /\ DOMAIN new = 1 .. Len(new) /\ Len(old) + 1 \in 1 .. Len(new)
        BY <2>3, <4>1
      <4> QED
        BY <4>1, <4>2
    <3>3. \A id : InInbox(v, id) => InInbox(v, id)'
      BY <2>5, <3>2
    <3>4. IsTransfer(request) => InInbox(v, request.id)'
      BY <2>5, <3>2
    <3> QED
      BY <2>1, <2>4, <3>3, <3>4
  <2> QED
    BY <2>6, <2>7
<1>5. SUFFICES ASSUME NEW t \in transfers'
               PROVE  IsAwaited(t.id)' \/ LeftBehind(t.id)'
  BY DEF NoneIsForgotten
<1> DEFINE id == t.id
<1>6. (\E r \in ToSet(posted') : (r.type = "transferred" /\ r.id = id) \/ r.type = "finished") => IsAwaited(id)'
  BY DEF IsAwaited
<1>7. \A i \in DOMAIN posted' : posted'[i] \in ToSet(posted')
  BY DEF ToSet
<1>8. CASE t \in transfers
  <2>1. IsAwaited(id) \/ LeftBehind(id)
    BY <1>1, <1>8 DEF NoneIsForgotten
  <2>2. CASE \E r \in ToSet(posted) : (r.type = "transferred" /\ r.id = id) \/ r.type = "finished"
    <3>1. PICK i \in DOMAIN posted : (posted[i].type = "transferred" /\ posted[i].id = id) \/ posted[i].type = "finished"
      BY <2>2 DEF ToSet
    <3>2. ~(i = 1 /\ s = 1)
      BY <1>5, <3>1
    <3>3. i - s \in DOMAIN posted' /\ posted'[i - s] = posted[i]
      BY <1>3, <3>2
    <3> QED
      BY <1>6, <1>7, <3>1, <3>3
  <2>3. CASE InEngine(id)
    BY <1>4, <2>3 DEF InEngine, IsAwaited
  <2>4. CASE \E v \in DOMAIN workers : workers[v].phase # "over" /\ InInbox(v, id)
    <3>1. PICK v \in DOMAIN workers : workers[v].phase # "over" /\ InInbox(v, id)
      BY <2>4
    <3>2. v \in DOMAIN workers' /\ workers'[v].phase # "over" /\ InInbox(v, id)'
      BY <1>4, <3>1
    <3> QED
      BY <3>2 DEF IsAwaited
  <2>5. CASE LeftBehind(id)
    <3>1. PICK v \in DOMAIN workers : workers[v].kind = "side" /\ workers[v].phase = "over" /\ InInbox(v, id)
      BY <2>5 DEF LeftBehind
    <3>2. v \in DOMAIN workers' /\ workers'[v].kind = "side" /\ workers'[v].phase = "over" /\ InInbox(v, id)'
      BY <1>4, <3>1
    <3> QED
      BY <3>2 DEF LeftBehind
  <2> QED
    BY <2>1, <2>2, <2>3, <2>4, <2>5 DEF IsAwaited
<1>9. CASE t \notin transfers
  <2>1. s = 0 /\ taker \in {main, side} \ {0} /\ IsTransfer(request) /\ id = request.id
    BY <1>5, <1>9
  <2>2. taker \in DOMAIN workers
    BY <1>2, <2>1
  <2>3. /\ taker \in DOMAIN workers' /\ workers'[taker].kind = workers[taker].kind
        /\ workers'[taker].phase = workers[taker].phase /\ InInbox(taker, id)'
    BY <1>4, <2>1, <2>2
  <2>4. CASE workers[taker].phase # "over"
    BY <2>3, <2>4 DEF IsAwaited
  <2>5. CASE workers[taker].phase = "over" /\ workers[taker].kind = "side"
    BY <2>3, <2>5 DEF LeftBehind
  <2>6. CASE workers[taker].phase = "over" /\ workers[taker].kind # "side"
    <3>1. taker = main /\ main # 0
      BY <1>1, <2>1, <2>6 DEF SessionFits
    <3>2. PICK i \in DOMAIN posted : posted[i].type = "finished"
      BY <1>1, <2>6, <3>1 DEF SessionFits
    <3>3. i - s \in DOMAIN posted' /\ posted'[i - s] = posted[i]
      BY <1>3, <2>1
    <3> QED
      BY <1>6, <1>7, <3>2, <3>3
  <2> QED
    BY <2>4, <2>5, <2>6
<1> QED
  BY <1>8, <1>9

\* The browser goes on knowing what is under way.
Knows(taker, request) ==
  /\ \A o \in operations : o.id \notin PostedIds => o \in operations'
  /\ \A id \in Uploading : id \notin PostedIds => id \in Uploading'
  /\ taker # 0 /\ request.type = "operate" => [id |-> request.id, dir |-> request.dir] \in operations'
  /\ taker # 0 /\ request.type = "upload" => request.id \in Uploading'

LEMMA CallsKnown ==
  ASSUME IInv, NEW taker, NEW request, NEW s, Calls(taker, request, s), Knows(taker, request),
         NEW v \in DOMAIN workers, Known(v)
  PROVE  Known(v)'
<1> DEFINE old == workers[v].inbox
           new == workers'[v].inbox
<1>1. /\ v \in DOMAIN workers' /\ Alike(workers'[v].transfers, workers[v].transfers)
      /\ new = IF v = taker THEN Append(old, request) ELSE old
      /\ taker # 0 => request \in RequestRecord
      /\ workers' \in Seq(WorkerRecord)
  BY DEF Calls
<1>2. workers \in Seq(WorkerRecord) /\ Apart
  BY DEF IInv, Typed
<1>3. workers[v] \in WorkerRecord /\ workers'[v] \in WorkerRecord /\ v # 0
  BY <1>1, <1>2
<1>4. /\ DOMAIN workers[v].transfers = 1 .. Len(workers[v].transfers)
      /\ DOMAIN workers'[v].transfers = 1 .. Len(workers'[v].transfers)
      /\ old \in Seq(RequestRecord)
  BY <1>3 DEF WorkerRecord
<1>5. \A id \in InboxIds(v) \cup EngineIds(v) : id \notin PostedIds
  BY <1>2 DEF Apart
<1>6. ASSUME NEW i \in DOMAIN workers'[v].transfers, workers'[v].transfers[i].upload
      PROVE  workers'[v].transfers[i].id \in Uploading'
  <2>1. /\ i \in DOMAIN workers[v].transfers /\ workers[v].transfers[i].id = workers'[v].transfers[i].id
        /\ workers[v].transfers[i].upload = workers'[v].transfers[i].upload
    BY <1>1, <1>4 DEF Alike
  <2>2. workers[v].transfers[i].id \in Uploading /\ workers[v].transfers[i].id \in EngineIds(v)
    BY <1>4, <1>6, <2>1 DEF Known, EngineIds, Ids
  <2> QED
    BY <1>5, <2>1, <2>2 DEF Knows
<1>7. ASSUME NEW i \in DOMAIN old
      PROVE  /\ old[i].type = "operate" => [id |-> old[i].id, dir |-> old[i].dir] \in operations'
             /\ old[i].type = "upload" => old[i].id \in Uploading'
  <2>1. CASE old[i].type = "operate"
    <3> DEFINE o == [id |-> old[i].id, dir |-> old[i].dir]
    <3>1. o \in operations
      BY <2>1 DEF Known
    <3>2. old[i].id \in InboxIds(v)
      BY <2>1 DEF InboxIds, Counts
    <3>3. o.id \notin PostedIds
      BY <1>5, <3>2
    <3> HIDE DEF o
    <3>4. o \in operations'
      BY <3>1, <3>3 DEF Knows
    <3> QED
      BY <2>1, <3>4 DEF o
  <2>2. CASE old[i].type = "upload"
    <3>1. old[i].id \in Uploading /\ old[i].id \in InboxIds(v)
      BY <2>2 DEF Known, InboxIds, Counts
    <3> QED
      BY <1>5, <2>2, <3>1 DEF Knows
  <2> QED
    BY <2>1, <2>2
<1>8. ASSUME NEW i \in DOMAIN new
      PROVE  /\ new[i].type = "operate" => [id |-> new[i].id, dir |-> new[i].dir] \in operations'
             /\ new[i].type = "upload" => new[i].id \in Uploading'
  <2>1. CASE v # taker
    <3>1. new = old
      BY <1>1, <2>1
    <3> QED
      BY <1>7, <1>8, <3>1
  <2>2. CASE v = taker
    <3>1. request \in RequestRecord /\ new = Append(old, request)
      BY <1>1, <1>3, <2>2
    <3>2. /\ request.type = "operate" => [id |-> request.id, dir |-> request.dir] \in operations'
          /\ request.type = "upload" => request.id \in Uploading'
      BY <1>3, <2>2 DEF Knows
    <3> HIDE DEF old, new
    <3>3. (i \in DOMAIN old /\ new[i] = old[i]) \/ new[i] = request
      <4>1. /\ new \in Seq(RequestRecord) /\ Len(old) \in Nat /\ Len(new) = Len(old) + 1
            /\ new[Len(old) + 1] = request
            /\ \A k \in 1 .. Len(old) : k \in 1 .. Len(new) /\ new[k] = old[k]
            /\ \A k \in 1 .. Len(new) : k \in 1 .. Len(old) \/ k = Len(old) + 1
        BY <1>4, <3>1, AppendIs
      <4>2. DOMAIN old = 1 .. Len(old) /\ DOMAIN new = 1 .. Len(new)
        BY <1>4, <4>1
      <4> QED
        BY <1>8, <4>1, <4>2
    <3>4. CASE new[i] = request
      BY <3>2, <3>4
    <3>5. CASE i \in DOMAIN old /\ new[i] = old[i]
      BY <1>7, <3>5
    <3> QED
      BY <3>3, <3>4, <3>5
  <2> QED
    BY <2>1, <2>2
<1> QED
  BY <1>6, <1>8 DEF Known

\* What is shown: a listing is under way or failed, it is as it was, or it has
\* just come.
Shows(s) ==
  \/ cut' \/ loading'
  \/ /\ path' = path /\ shown' = shown /\ (cut => cut') /\ (loading => loading')
     /\ s = 1 => \A d \in Dirs : d = path => ~Changed(posted[1], d, operations, Uploading)
  \/ /\ s = 1 /\ posted[1].type = "listed" /\ posted[1].good /\ posted[1].id = listId
     /\ path' = posted[1].dir /\ shown' = posted[1].seen

\* The reports that bring a listing still do.
Stays(s) ==
  \A i \in DOMAIN posted' : \A d \in Dirs :
    Changed(posted[i + s], d, operations, Uploading) => Changed(posted'[i], d, operations', Uploading')

LEMMA CallsFresh ==
  ASSUME IInv, ~Ending, NEW taker, NEW request, NEW s, Calls(taker, request, s), Knows(taker, request),
         Shows(s), Stays(s),
         listId' = listId \/ \A id \in PostedIds : id # listId'
  PROVE  FreshFits'
<1>1. /\ posted' \in Seq(ReportRecord) /\ s \in {0, 1} /\ Len(posted') = Len(posted) - s
      /\ \A i \in 1 .. Len(posted') : posted'[i] = posted[i + s]
      /\ due' = due
  BY DEF Calls, Taken, server
<1>2. /\ posted \in Seq(ReportRecord) /\ path \in Dirs \cup {None} /\ FreshFits
  BY DEF IInv, Typed
<1>3. /\ \A v \in DOMAIN workers : workers[v].phase # "over" /\ ~workers[v].stop => Known(v)
      /\ path # None /\ ~cut /\ ~loading =>
           \/ shown >= due[path]
           \/ \E i \in DOMAIN posted : Changed(posted[i], path, operations, Uploading)
      /\ \A i \in DOMAIN posted : posted[i].type = "listed" /\ posted[i].good /\ posted[i].id = listId =>
           /\ posted[i].dir \in Dirs
           /\ \/ posted[i].seen >= due[posted[i].dir]
              \/ \E j \in DOMAIN posted : i < j /\ Changed(posted[j], posted[i].dir, operations, Uploading)
  BY <1>2 DEF FreshFits
<1>4. DOMAIN posted = 1 .. Len(posted) /\ DOMAIN posted' = 1 .. Len(posted') /\ Len(posted) \in Nat
  BY <1>1, <1>2
<1>5. \A i \in DOMAIN posted' : i + s \in DOMAIN posted /\ posted'[i] = posted[i + s]
  <2>1. \A i \in 1 .. Len(posted') : i + s \in 1 .. Len(posted)
    BY <1>1, <1>4
  <2> QED
    BY <1>1, <1>4, <2>1
<1>6. \A i \in DOMAIN posted : (i = 1 /\ s = 1) \/ (i - s \in DOMAIN posted' /\ (i - s) + s = i)
  BY <1>1, <1>4
<1>7. ASSUME NEW v \in DOMAIN workers', workers'[v].phase # "over", ~workers'[v].stop
      PROVE  Known(v)'
  <2>1. CASE v \in DOMAIN workers
    <3>1. workers'[v].phase = workers[v].phase /\ (workers[v].stop => workers'[v].stop)
      BY <2>1 DEF Calls
    <3>2. Known(v)
      BY <1>3, <1>7, <2>1, <3>1
    <3> QED
      BY <2>1, <3>2, CallsKnown
  <2>2. CASE v \notin DOMAIN workers
    <3>1. workers'[v].inbox = <<>> /\ workers'[v].transfers = <<>> /\ DOMAIN <<>> = {}
      BY <1>7, <2>2 DEF Calls
    <3> QED
      BY <3>1 DEF Known
  <2> QED
    BY <2>1, <2>2
<1>8. ASSUME NEW i \in DOMAIN posted, NEW d \in Dirs, Changed(posted[i], d, operations, Uploading), ~(i = 1 /\ s = 1)
      PROVE  i - s \in DOMAIN posted' /\ Changed(posted'[i - s], d, operations', Uploading')
  <2>1. i - s \in DOMAIN posted' /\ (i - s) + s = i
    BY <1>6, <1>8
  <2> QED
    BY <1>8, <2>1 DEF Stays
<1>9. ASSUME NEW i \in DOMAIN posted, posted[i].type = "listed", posted[i].good, posted[i].id = listId
      PROVE  /\ posted[i].dir \in Dirs
             /\ \/ posted[i].seen >= due[posted[i].dir]
                \/ \E j \in DOMAIN posted' : i < j + s /\ Changed(posted'[j], posted[i].dir, operations', Uploading')
  <2> DEFINE d == posted[i].dir
  <2>1. /\ d \in Dirs
        /\ \/ posted[i].seen >= due[d]
           \/ \E j \in DOMAIN posted : i < j /\ Changed(posted[j], d, operations, Uploading)
    BY <1>3, <1>9
  <2> HIDE DEF d
  <2>2. ASSUME NEW j \in DOMAIN posted, i < j, Changed(posted[j], d, operations, Uploading)
        PROVE  \E k \in DOMAIN posted' : i < k + s /\ Changed(posted'[k], d, operations', Uploading')
    <3>1. j # 1
      BY <1>4, <2>2
    <3>2. j - s \in DOMAIN posted' /\ Changed(posted'[j - s], d, operations', Uploading')
      BY <1>8, <2>1, <2>2, <3>1
    <3>3. i < (j - s) + s
      BY <1>1, <1>4, <2>2
    <3> QED
      BY <3>2, <3>3
  <2> QED
    BY <2>1, <2>2 DEF d
<1>10. ASSUME path' # None, ~cut', ~loading'
       PROVE  \/ shown' >= due'[path']
              \/ \E i \in DOMAIN posted' : Changed(posted'[i], path', operations', Uploading')
  <2>1. CASE /\ path' = path /\ shown' = shown /\ (cut => cut') /\ (loading => loading')
             /\ s = 1 => \A d \in Dirs : d = path => ~Changed(posted[1], d, operations, Uploading)
    <3>1. path \in Dirs
      BY <1>2, <1>10, <2>1
    <3>2. \/ shown >= due[path]
          \/ \E i \in DOMAIN posted : Changed(posted[i], path, operations, Uploading)
      BY <1>3, <1>10, <2>1
    <3>3. ASSUME NEW i \in DOMAIN posted, Changed(posted[i], path, operations, Uploading)
          PROVE  \E k \in DOMAIN posted' : Changed(posted'[k], path', operations', Uploading')
      <4>1. ~(i = 1 /\ s = 1)
        BY <2>1, <3>1, <3>3
      <4> QED
        BY <1>8, <2>1, <3>1, <3>3, <4>1
    <3> QED
      BY <1>1, <2>1, <3>2, <3>3
  <2>2. CASE /\ s = 1 /\ posted[1].type = "listed" /\ posted[1].good /\ posted[1].id = listId
             /\ path' = posted[1].dir /\ shown' = posted[1].seen
    <3>1. 1 \in DOMAIN posted
      BY <1>1, <1>4, <2>2
    <3>2. \/ posted[1].seen >= due[posted[1].dir]
          \/ \E j \in DOMAIN posted' : Changed(posted'[j], posted[1].dir, operations', Uploading')
      BY <1>9, <2>2, <3>1
    <3> QED
      BY <1>1, <2>2, <3>2
  <2> QED
    BY <1>10, <2>1, <2>2 DEF Shows
<1>11. ASSUME NEW i \in DOMAIN posted', posted'[i].type = "listed", posted'[i].good, posted'[i].id = listId'
       PROVE  /\ posted'[i].dir \in Dirs
              /\ \/ posted'[i].seen >= due'[posted'[i].dir]
                 \/ \E j \in DOMAIN posted' : i < j /\ Changed(posted'[j], posted'[i].dir, operations', Uploading')
  <2>1. i + s \in DOMAIN posted /\ posted'[i] = posted[i + s]
    BY <1>5
  <2>2. posted[i + s].id \in PostedIds
    BY <1>11, <2>1 DEF PostedIds, IsReport
  <2>3. posted[i + s].id = listId
    BY <1>11, <2>1, <2>2
  <2>4. /\ posted[i + s].dir \in Dirs
        /\ \/ posted[i + s].seen >= due[posted[i + s].dir]
           \/ \E j \in DOMAIN posted' : i + s < j + s /\ Changed(posted'[j], posted[i + s].dir, operations', Uploading')
    BY <1>9, <1>11, <2>1, <2>3
  <2>5. \A j \in DOMAIN posted' : i + s < j + s => i < j
    BY <1>1, <1>4
  <2> QED
    BY <1>1, <2>1, <2>4, <2>5
<1> QED
  BY <1>7, <1>10, <1>11 DEF FreshFits

LEMMA NoneTaken ==
  ASSUME IInv, posted' = posted
  PROVE  Taken(0)
<1>1. posted \in Seq(ReportRecord)
  BY DEF IInv, Typed
<1>2. Len(posted) \in Nat /\ \A i \in 1 .. Len(posted) : i + 0 = i
  BY <1>1
<1> QED
  BY <1>1, <1>2 DEF Taken

LEMMA OneTaken ==
  ASSUME IInv, posted # <<>>, posted' = Tail(posted)
  PROVE  /\ Taken(1) /\ 1 \in DOMAIN posted /\ Head(posted) = posted[1] /\ posted[1] \in ReportRecord
         /\ \A i \in DOMAIN posted' : i + 1 \in DOMAIN posted /\ posted'[i] = posted[i + 1] /\ i + 1 # 1
<1>1. posted \in Seq(ReportRecord)
  BY DEF IInv, Typed
<1> DEFINE p == Tail(posted)
<1>2. /\ p \in Seq(ReportRecord) /\ Len(posted) \in Nat /\ Len(p) = Len(posted) - 1 /\ 1 \in 1 .. Len(posted)
      /\ \A k \in 1 .. Len(p) : k + 1 \in 1 .. Len(posted) /\ p[k] = posted[k + 1]
      /\ Head(posted) = posted[1] /\ posted[1] \in ReportRecord
  BY <1>1, TailIs
<1>3. p = posted'
  OBVIOUS
<1> HIDE DEF p
<1>4. DOMAIN posted = 1 .. Len(posted) /\ DOMAIN p = 1 .. Len(p) /\ \A i \in 1 .. Len(p) : i + 1 # 1
  BY <1>1, <1>2
<1> QED
  BY <1>2, <1>3, <1>4 DEF Taken

\* The worker a request goes to.
LEMMA TakerIs ==
  ASSUME IInv
  PROVE  /\ Taker \in {0} \cup DOMAIN workers /\ Taker \in {0, main, side}
         /\ workers \in Seq(WorkerRecord) /\ 0 \notin DOMAIN workers
<1>1. workers \in Seq(WorkerRecord) /\ SessionFits
  BY DEF IInv, Typed
<1> QED
  BY <1>1 DEF Taker, SessionFits

\* What the workers are when one is given a request.
LEMMA HandedIs ==
  ASSUME IInv, NEW request \in RequestRecord, RequestFits(request), workers' = Handed(request)
  PROVE  /\ workers' \in Seq(WorkerRecord) /\ DOMAIN workers' = DOMAIN workers
         /\ \A v \in DOMAIN workers :
              /\ WorkerFits(workers'[v])
              /\ workers'[v].kind = workers[v].kind /\ workers'[v].phase = workers[v].phase
              /\ workers'[v].stop = workers[v].stop /\ workers'[v].transfers = workers[v].transfers
              /\ workers'[v].inbox = IF v = Taker THEN Append(workers[v].inbox, request) ELSE workers[v].inbox
<1>1. /\ workers \in Seq(WorkerRecord) /\ \A v \in DOMAIN workers : WorkerFits(workers[v])
  BY DEF IInv, Typed
<1>2. Taker \in {0} \cup DOMAIN workers /\ 0 \notin DOMAIN workers
  BY TakerIs
<1>3. CASE Taker = 0
  <2>1. workers' = workers /\ \A v \in DOMAIN workers : v # Taker
    BY <1>2, <1>3 DEF Handed
  <2> QED
    BY <1>1, <2>1
<1>4. CASE Taker # 0
  <2> DEFINE w == Taker
             more == Append(workers[w].inbox, request)
             new == [workers[w] EXCEPT !.inbox = more]
  <2>1. w \in DOMAIN workers
    BY <1>2, <1>4
  <2>2. workers[w] \in WorkerRecord /\ WorkerFits(workers[w])
    BY <1>1, <2>1
  <2>3. workers[w].inbox \in Seq(RequestRecord)
    BY <2>2 DEF WorkerRecord
  <2>4. /\ more \in Seq(RequestRecord)
        /\ \A i \in 1 .. Len(more) : RequestFits(more[i])
    <3> DEFINE old == workers[w].inbox
    <3>1. \A i \in 1 .. Len(old) : RequestFits(old[i])
      BY <2>2 DEF WorkerFits
    <3>2. old \in Seq(RequestRecord)
      BY <2>3
    <3>3. more = Append(old, request)
      OBVIOUS
    <3> HIDE DEF old, more
    <3>4. /\ more \in Seq(RequestRecord) /\ Len(old) \in Nat /\ Len(more) = Len(old) + 1
          /\ more[Len(old) + 1] = request
          /\ \A k \in 1 .. Len(old) : k \in 1 .. Len(more) /\ more[k] = old[k]
          /\ \A k \in 1 .. Len(more) : k \in 1 .. Len(old) \/ k = Len(old) + 1
      BY <3>2, <3>3, AppendIs
    <3> QED
      BY <3>1, <3>4
  <2>5. workers' = [workers EXCEPT ![w].inbox = more]
    BY <1>4 DEF Handed
  <2> HIDE DEF more, w
  <2>6. /\ new \in WorkerRecord /\ new.kind = workers[w].kind /\ new.phase = workers[w].phase
        /\ new.stop = workers[w].stop /\ new.transfers = workers[w].transfers /\ new.inbox = more
    BY <2>2, <2>4 DEF WorkerRecord
  <2>7. WorkerFits(new)
    BY <2>2, <2>4, <2>6 DEF WorkerFits
  <2>8. workers' = [workers EXCEPT ![w] = new]
    BY <2>1, <2>2, <2>5
  <2> HIDE DEF new
  <2>9. /\ workers' \in Seq(WorkerRecord) /\ DOMAIN workers' = DOMAIN workers
        /\ workers'[w] = new /\ \A v \in DOMAIN workers : v # w => workers'[v] = workers[v]
    BY <2>1, <2>6, <2>8, WorkerIs
  <2>10. ASSUME NEW v \in DOMAIN workers
         PROVE  /\ WorkerFits(workers'[v])
                /\ workers'[v].kind = workers[v].kind /\ workers'[v].phase = workers[v].phase
                /\ workers'[v].stop = workers[v].stop /\ workers'[v].transfers = workers[v].transfers
                /\ workers'[v].inbox = IF v = w THEN Append(workers[v].inbox, request) ELSE workers[v].inbox
    <3>1. CASE v = w
      BY <2>6, <2>7, <2>9, <3>1 DEF more
    <3>2. CASE v # w
      BY <1>1, <2>9, <3>2
    <3> QED
      BY <3>1, <3>2
  <2> QED
    BY <2>9, <2>10 DEF w
<1> QED
  BY <1>3, <1>4

\* A request that is sent, or a cancel.
LEMMA HandedCalls ==
  ASSUME IInv, NEW request \in RequestRecord, RequestFits(request), workers' = Handed(request),
         Counts(request) => request.id = nextId /\ nextId' = nextId + 1,
         IsTransfer(request) => nextId <= scope.requests,
         nextId' \in {nextId, nextId + 1},
         NEW s \in {0, 1}, Taken(s), UNCHANGED <<scope, server>>
  PROVE  Calls(Taker, request, s)
<1>1. /\ workers' \in Seq(WorkerRecord) /\ DOMAIN workers' = DOMAIN workers
      /\ \A v \in DOMAIN workers :
           /\ WorkerFits(workers'[v])
           /\ workers'[v].kind = workers[v].kind /\ workers'[v].phase = workers[v].phase
           /\ workers'[v].stop = workers[v].stop /\ workers'[v].transfers = workers[v].transfers
           /\ workers'[v].inbox = IF v = Taker THEN Append(workers[v].inbox, request) ELSE workers[v].inbox
  BY HandedIs
<1>2. nextId \in Nat /\ nextId >= 1 /\ scope \in Scope /\ told \in [1 .. scope.requests -> Nat]
  BY DEF IInv, Typed
<1>3. IsTransfer(request) => nextId \in DOMAIN told
  BY <1>2 DEF Scope
<1>4. Taker \in {0} \cup DOMAIN workers
  BY TakerIs
<1>5. nextId' \in Nat /\ nextId <= nextId' /\ (Counts(request) => request.id = nextId /\ nextId < nextId')
  BY <1>2
<1>6. \A v \in DOMAIN workers : Alike(workers'[v].transfers, workers[v].transfers)
  BY <1>1 DEF Alike
<1> QED
  BY <1>1, <1>3, <1>4, <1>5, <1>6 DEF Calls


\* The session is as it was, or has heard of the end of its side worker.
LEMMA SideSession ==
  ASSUME IInv, NEW taker, NEW request, NEW s, Calls(taker, request, s),
         DOMAIN workers' = DOMAIN workers, main' = main, sshUp' \in BOOLEAN, sideUp' \in BOOLEAN,
         side' = side \/ (side' = 0 /\ (side # 0 => workers[side].phase = "over")),
         s = 1 => posted[1].type # "finished"
  PROVE  SessionFits'
<1>1. SessionFits /\ posted \in Seq(ReportRecord)
  BY DEF IInv, Typed
<1>2. Taken(s) /\ \A v \in DOMAIN workers :
         /\ workers'[v].kind = workers[v].kind /\ workers'[v].phase = workers[v].phase
         /\ workers[v].stop => workers'[v].stop
  BY DEF Calls
<1>3. s \in {0, 1} /\ \A i \in DOMAIN posted' : i + s \in DOMAIN posted /\ posted'[i] = posted[i + s]
  <2>1. /\ posted' \in Seq(ReportRecord) /\ s \in {0, 1} /\ Len(posted') = Len(posted) - s
        /\ \A i \in 1 .. Len(posted') : posted'[i] = posted[i + s]
    BY <1>2 DEF Taken
  <2> QED
    BY <1>1, <2>1
<1>4. \A i \in DOMAIN posted : (i = 1 /\ s = 1) \/ (i - s \in DOMAIN posted' /\ posted'[i - s] = posted[i])
  <2>1. /\ posted' \in Seq(ReportRecord) /\ s \in {0, 1} /\ Len(posted') = Len(posted) - s
        /\ \A i \in 1 .. Len(posted') : posted'[i] = posted[i + s]
    BY <1>2 DEF Taken
  <2>2. DOMAIN posted = 1 .. Len(posted) /\ DOMAIN posted' = 1 .. Len(posted') /\ Len(posted) \in Nat
    BY <1>1, <2>1
  <2>3. \A i \in 1 .. Len(posted) : (i = 1 /\ s = 1) \/ (i - s \in 1 .. Len(posted') /\ (i - s) + s = i)
    BY <2>1, <2>2
  <2> QED
    BY <2>1, <2>2, <2>3
<1>5. (\E i \in DOMAIN posted' : posted'[i].type = "finished") <=> \E i \in DOMAIN posted : posted[i].type = "finished"
  BY <1>3, <1>4
<1>6. ASSUME NEW i \in DOMAIN posted', NEW j \in DOMAIN posted',
             posted'[i].type = "finished", posted'[j].type = "finished"
      PROVE  i = j
  <2>1. i + s = j + s
    BY <1>1, <1>3, <1>6 DEF SessionFits
  <2>2. i \in Nat /\ j \in Nat /\ s \in Nat
    BY <1>2, <1>3 DEF Taken
  <2> QED
    BY <2>1, <2>2
<1>7. (\E i \in DOMAIN posted' : posted'[i].type = "sideFinished") => side = 0 \/ workers[side].phase = "over"
  BY <1>1, <1>3 DEF SessionFits
<1>8. \A v \in DOMAIN workers' : workers'[v].phase # "over" =>
        /\ workers'[v].kind # "side" => v = main
        /\ workers'[v].kind = "side" /\ ~workers'[v].stop => v = side'
  <2>1. SUFFICES ASSUME NEW v \in DOMAIN workers, workers'[v].phase # "over"
                 PROVE  /\ workers'[v].kind # "side" => v = main
                        /\ workers'[v].kind = "side" /\ ~workers'[v].stop => v = side'
    OBVIOUS
  <2>2. /\ workers'[v].kind # "side" => v = main
        /\ workers'[v].kind = "side" /\ ~workers'[v].stop => v = side /\ workers[v].phase # "over"
    BY <1>1, <1>2, <2>1 DEF SessionFits
  <2>3. v # 0
    <3>1. DOMAIN workers = 1 .. Len(workers)
      BY DEF IInv, Typed
    <3> QED
      BY <2>1, <3>1
  <2> QED
    BY <2>2, <2>3
<1>9. main \in {0} \cup DOMAIN workers /\ side \in {0} \cup DOMAIN workers
  BY <1>1 DEF SessionFits
<1>10. /\ main # 0 => workers'[main].kind = workers[main].kind /\ workers'[main].phase = workers[main].phase
       /\ side # 0 => workers'[side].kind = workers[side].kind /\ workers'[side].phase = workers[side].phase
  BY <1>2, <1>9
<1> QED
  BY <1>1, <1>5, <1>6, <1>7, <1>8, <1>9, <1>10 DEF SessionFits

\* The session is as it was.
LEMMA CallsSession ==
  ASSUME IInv, NEW taker, NEW request, NEW s, Calls(taker, request, s),
         DOMAIN workers' = DOMAIN workers, UNCHANGED <<main, side>>, sshUp' \in BOOLEAN, sideUp' = sideUp,
         s = 1 => posted[1].type # "finished"
  PROVE  SessionFits'
<1>1. sideUp' \in BOOLEAN
  BY DEF IInv, SessionFits
<1> QED
  BY <1>1, SideSession

\* What the browser shows is of its types.
Views ==
  /\ listId \in Nat /\ listId < nextId
  /\ path \in Dirs \cup {None} /\ shown \in Nat /\ loading \in BOOLEAN /\ cut \in BOOLEAN
  /\ operations \subseteq [id : Nat, dir : Dirs]
  /\ transfers \subseteq [id : Nat, upload : BOOLEAN]
  /\ finished \in [1 .. scope.requests -> Nat]

LEMMA CallsFits ==
  ASSUME IInv, NEW taker, NEW request, NEW s, Calls(taker, request, s),
         Views', SessionFits', ShownFits', NoneIsForgotten', FreshFits'
  PROVE  IInv'
<1>1. Apart' /\ ToldFits' /\ HalvesFit'
  BY CallsApart, CallsTold, CallsHalves
<1>2. /\ scope \in Scope /\ changes \in [Dirs -> Nat] /\ due \in [Dirs -> Nat] /\ files \subseteq File
      /\ (\A d \in Dirs : due[d] <= changes[d]) /\ told \in [1 .. scope.requests -> Nat]
      /\ nextId \in Nat /\ nextId >= 1
  BY DEF IInv, Typed
<1>3. /\ workers' \in Seq(WorkerRecord) /\ \A v \in DOMAIN workers' : WorkerFits(workers'[v])
      /\ nextId' \in Nat /\ nextId <= nextId' /\ posted' \in Seq(ReportRecord)
      /\ scope' = scope /\ changes' = changes /\ due' = due /\ files' = files /\ told' = told
  BY DEF Calls, Taken, server
<1>4. nextId' >= 1
  BY <1>2, <1>3
<1>5. Typed'
  BY <1>2, <1>3, <1>4 DEF Typed, Views
<1> QED
  BY <1>1, <1>5 DEF IInv

\* What a step of the browser has to keep, whatever it asks for.
LEMMA CallsKeep ==
  ASSUME IInv, NEW taker, NEW request, NEW s, Calls(taker, request, s),
         s = 1 => /\ posted[1].type # "finished"
                  /\ posted[1].type = "transferred" => \A t \in transfers' : t.id # posted[1].id,
         \A t \in transfers' : t \notin transfers =>
           s = 0 /\ taker \in {main, side} \ {0} /\ IsTransfer(request) /\ t.id = request.id,
         Knows(taker, request), Shows(s), Stays(s),
         listId' = listId \/ \A id \in PostedIds : id # listId',
         Views', SessionFits', ShownFits'
  PROVE  IInv'
<1>1. NoneIsForgotten'
  BY CallsAwaited
<1>2. CASE Ending
  <2>1. PICK i \in DOMAIN posted : posted[i].type = "finished"
    BY <1>2 DEF Ending
  <2>2. posted \in Seq(ReportRecord)
    BY DEF IInv, Typed
  <2>3. /\ posted' \in Seq(ReportRecord) /\ s \in {0, 1} /\ Len(posted') = Len(posted) - s
        /\ \A k \in 1 .. Len(posted') : posted'[k] = posted[k + s]
    BY DEF Calls, Taken
  <2>4. DOMAIN posted = 1 .. Len(posted) /\ DOMAIN posted' = 1 .. Len(posted') /\ Len(posted) \in Nat
    BY <2>2, <2>3
  <2>5. ~(i = 1 /\ s = 1)
    BY <2>1
  <2>6. i - s \in 1 .. Len(posted') /\ (i - s) + s = i
    BY <2>3, <2>4, <2>5
  <2>7. posted'[i - s] = posted[i]
    BY <2>3, <2>6
  <2>8. Ending'
    BY <2>1, <2>4, <2>6, <2>7 DEF Ending
  <2>9. FreshFits'
    BY <2>8 DEF FreshFits
  <2> QED
    BY <1>1, <2>9, CallsFits
<1>3. CASE ~Ending
  <2>1. FreshFits'
    BY <1>3, CallsFresh
  <2> QED
    BY <1>1, <2>1, CallsFits
<1> QED
  BY <1>2, <1>3

\* A request with a number of its own is sent.
LEMMA SendCalls ==
  ASSUME IInv, NEW type \in RequestType \ {"cancel"}, NEW d \in Dirs \cup {None}, NEW overwrite \in BOOLEAN,
         Send(type, d, overwrite), type # "list" => d # None, type \in {"download", "upload"} => nextId <= scope.requests,
         NEW s \in {0, 1}, Taken(s), UNCHANGED <<scope, server>>,
         NEW request, request = Request(type, nextId, d, overwrite)
  PROVE  /\ Calls(Taker, request, s) /\ nextId' = nextId + 1
         /\ request \in RequestRecord /\ request.type = type /\ request.id = nextId /\ request.dir = d
         /\ DOMAIN workers' = DOMAIN workers
<1>1. nextId \in Nat
  BY DEF IInv, Typed
<1>2. /\ request \in RequestRecord /\ request.type = type /\ request.id = nextId /\ request.dir = d
  BY <1>1 DEF Request, RequestRecord
<1>3. RequestFits(request) /\ (IsTransfer(request) => nextId <= scope.requests)
  BY <1>2 DEF RequestFits, IsTransfer
<1>4. workers' = Handed(request) /\ nextId' = nextId + 1
  BY DEF Send
<1>5. DOMAIN workers' = DOMAIN workers
  BY <1>2, <1>3, <1>4, HandedIs
<1>6. nextId' \in {nextId, nextId + 1} /\ (Counts(request) => request.id = nextId /\ nextId' = nextId + 1)
  BY <1>2, <1>4
<1> QED
  BY <1>2, <1>3, <1>4, <1>5, <1>6, HandedCalls

\* A folder is listed.
LEMMA ListCalls ==
  ASSUME IInv, NEW d \in Dirs \cup {None}, List(d),
         NEW s \in {0, 1}, Taken(s), UNCHANGED <<scope, server>>,
         NEW request, request = Request("list", nextId, d, FALSE)
  PROVE  /\ Calls(Taker, request, s) /\ request.type = "list" /\ nextId' = nextId + 1 /\ nextId \in Nat
         /\ DOMAIN workers' = DOMAIN workers
         /\ listId' \in Nat /\ listId' < nextId' /\ loading' \in BOOLEAN /\ cut' \in BOOLEAN
         /\ path' = path /\ shown' = shown /\ path \in Dirs \cup {None} /\ shown \in Nat
         /\ Shows(s)
         /\ \A id \in PostedIds : id # listId'
<1> DEFINE type == "list"
           overwrite == FALSE
<1>1. type \in RequestType \ {"cancel"} /\ overwrite \in BOOLEAN /\ type = "list"
  BY DEF RequestType
<1>2. Send(type, d, overwrite) /\ request = Request(type, nextId, d, overwrite)
  BY DEF List
<1> HIDE DEF type, overwrite
<1>3. /\ Calls(Taker, request, s) /\ nextId' = nextId + 1 /\ request.type = type
      /\ DOMAIN workers' = DOMAIN workers
  <2>1. (type # "list" => d # None) /\ (type \in {"download", "upload"} => nextId <= scope.requests)
    BY <1>1
  <2>2. request = Request(type, nextId, d, overwrite)
    BY <1>2
  <2> QED
    BY ONLY SMTT(60), IInv, Taken(s), UNCHANGED <<scope, server>>, s \in {0, 1}, d \in Dirs \cup {None},
            <1>1, <1>2, <2>1, <2>2, SendCalls
<1>4. /\ nextId \in Nat /\ nextId >= 1 /\ path \in Dirs \cup {None} /\ shown \in Nat /\ cut \in BOOLEAN /\ Apart
  BY DEF IInv, Typed
<1>5. /\ listId' = IF Taker # 0 THEN nextId ELSE 0
      /\ loading' = (Taker # 0) /\ cut' = (cut \/ Taker = 0) /\ path' = path /\ shown' = shown
  BY DEF List
<1>6. \A id \in PostedIds : id < nextId /\ id > 0
  BY <1>4 DEF Apart
<1>7. listId' \in Nat /\ listId' < nextId' /\ \A id \in PostedIds : id # listId'
  BY <1>3, <1>4, <1>5, <1>6
<1>8. cut' \in BOOLEAN /\ loading' \in BOOLEAN /\ (cut' \/ loading')
  BY <1>4, <1>5
<1> QED
  BY <1>1, <1>3, <1>4, <1>5, <1>7, <1>8 DEF Shows

\* What brings a listing when no event is taken and none is forgotten.
LEMMA NothingTaken ==
  ASSUME IInv, posted' = posted, operations \subseteq operations', Uploading \subseteq Uploading'
  PROVE  Stays(0)
<1>1. posted \in Seq(ReportRecord)
  BY DEF IInv, Typed
<1>2. \A i \in DOMAIN posted : i + 0 = i
  BY <1>1
<1> QED
  BY <1>2 DEF Stays, Changed

LEMMA OpenKeeps ==
  ASSUME IInv, NEW d \in Dirs \cup {None}, Open(d)
  PROVE  IInv'
<1> DEFINE request == Request("list", nextId, d, FALSE)
           s == 0
<1>1. /\ List(d) /\ UNCHANGED <<scope, operations, transfers, finished, main, sshUp, side, sideUp, posted, server>>
  BY DEF Open, list, session
<1>2. Taken(s) /\ s \in {0, 1} /\ s = 0
  BY <1>1, NoneTaken
<1>3. request = Request("list", nextId, d, FALSE)
  OBVIOUS
<1>4. Stays(s)
  BY <1>1, NothingTaken DEF Uploading, Uploads
<1> HIDE DEF request, s
<1>5. /\ Calls(Taker, request, s) /\ request.type = "list" /\ nextId' = nextId + 1 /\ nextId \in Nat
      /\ DOMAIN workers' = DOMAIN workers
      /\ listId' \in Nat /\ listId' < nextId' /\ loading' \in BOOLEAN /\ cut' \in BOOLEAN
      /\ path' = path /\ shown' = shown /\ path \in Dirs \cup {None} /\ shown \in Nat
      /\ Shows(s)
      /\ \A id \in PostedIds : id # listId'
  BY <1>1, <1>2, <1>3, ListCalls
<1>6. Knows(Taker, request)
  BY <1>1, <1>5 DEF Knows, Uploading, Uploads
<1>7. /\ scope \in Scope /\ operations \subseteq [id : Nat, dir : Dirs] /\ transfers \subseteq [id : Nat, upload : BOOLEAN]
      /\ finished \in [1 .. scope.requests -> Nat] /\ SessionFits /\ ShownFits
  BY DEF IInv, Typed
<1>8. Views'
  BY <1>1, <1>5, <1>7 DEF Views
<1>9. SessionFits'
  <2>1. sshUp' \in BOOLEAN /\ sideUp' = sideUp /\ UNCHANGED <<main, side>>
    BY <1>1, <1>7 DEF SessionFits
  <2> QED
    BY <1>2, <1>5, <2>1, CallsSession
<1>10. ShownFits'
  <2>1. /\ \A t \in transfers : t.id \in Nat
        /\ \A o \in operations : o.id \in Nat
        /\ \A id \in DOMAIN finished : id \in Nat
    BY <1>7 DEF Scope
  <2> QED
    BY <1>1, <1>5, <1>7, <2>1 DEF ShownFits
<1> QED
  BY <1>1, <1>2, <1>4, <1>5, <1>6, <1>8, <1>9, <1>10, CallsKeep

\* The browser shows what it did.
LEMMA SameShown ==
  ASSUME UNCHANGED <<path, shown, cut, loading>>
  PROVE  Shows(0)
BY DEF Shows

LEMMA OperateKeeps ==
  ASSUME IInv, Operate
  PROVE  IInv'
<1> DEFINE request == Request("operate", nextId, path, FALSE)
           s == 0
           type == "operate"
           overwrite == FALSE
<1>1. /\ Send(type, path, overwrite) /\ path # None
      /\ operations' = operations \cup IF Taker # 0 THEN {[id |-> nextId, dir |-> path]} ELSE {}
      /\ UNCHANGED <<scope, path, shown, listId, loading, cut, transfers, finished, main, sshUp, side, sideUp, posted, server>>
  BY DEF Operate, list, session
<1>2. Taken(s) /\ s \in {0, 1} /\ s = 0
  BY <1>1, NoneTaken
<1>3. request = Request(type, nextId, path, overwrite) /\ overwrite \in BOOLEAN /\ type \in RequestType \ {"cancel"}
      /\ type = "operate" /\ (type # "list" => path # None)
      /\ (type \in {"download", "upload"} => nextId <= scope.requests)
  BY <1>1 DEF RequestType
<1>4. Stays(s) /\ Shows(s)
  BY <1>1, NothingTaken, SameShown DEF Uploading, Uploads
<1>5. /\ scope \in Scope /\ operations \subseteq [id : Nat, dir : Dirs] /\ transfers \subseteq [id : Nat, upload : BOOLEAN]
      /\ finished \in [1 .. scope.requests -> Nat] /\ SessionFits /\ ShownFits
      /\ nextId \in Nat /\ listId \in Nat /\ listId < nextId
      /\ path \in Dirs \cup {None} /\ shown \in Nat /\ loading \in BOOLEAN /\ cut \in BOOLEAN
  BY DEF IInv, Typed
<1> HIDE DEF request, s, type, overwrite
<1>6. /\ Calls(Taker, request, s) /\ nextId' = nextId + 1
      /\ request \in RequestRecord /\ request.type = type /\ request.id = nextId /\ request.dir = path
      /\ DOMAIN workers' = DOMAIN workers
  BY ONLY IInv, <1>1, <1>2, <1>3, <1>5, SendCalls
<1>7. Knows(Taker, request)
  BY <1>1, <1>3, <1>6 DEF Knows, Uploading, Uploads
<1>8. operations' \subseteq [id : Nat, dir : Dirs]
  BY <1>1, <1>5
<1>9. Views'
  BY <1>1, <1>5, <1>6, <1>8 DEF Views
<1>10. SessionFits'
  <2>1. sshUp' \in BOOLEAN /\ sideUp' = sideUp /\ UNCHANGED <<main, side>>
    BY <1>1, <1>5 DEF SessionFits
  <2> QED
    BY <1>2, <1>6, <2>1, CallsSession
<1>11. ShownFits'
  <2>1. /\ \A t \in transfers : t.id \in Nat
        /\ \A o \in operations : o.id \in Nat /\ o.id < nextId
        /\ \A id \in DOMAIN finished : id \in Nat
    BY <1>5 DEF Scope, ShownFits
  <2>2. \A o \in operations' : o.id < nextId'
    BY <1>1, <1>5, <1>6, <2>1
  <2> QED
    BY <1>1, <1>5, <1>6, <2>1, <2>2 DEF ShownFits
<1> QED
  BY <1>1, <1>2, <1>4, <1>6, <1>7, <1>9, <1>10, <1>11, CallsKeep

LEMMA TransferKeeps ==
  ASSUME IInv, NEW type \in {"download", "upload"}, NEW d \in Dirs, NEW overwrite \in BOOLEAN,
         Transfer(type, d, overwrite)
  PROVE  IInv'
<1> DEFINE request == Request(type, nextId, d, overwrite)
           s == 0
           up == type = "upload"
           more == IF Taker # 0 THEN {[id |-> nextId, upload |-> up]} ELSE {}
<1>1. /\ Send(type, d, overwrite) /\ nextId <= scope.requests
      /\ transfers' = transfers \cup more
      /\ UNCHANGED <<scope, path, shown, listId, loading, operations, cut, finished, main, sshUp, side, sideUp, posted, server>>
  BY DEF Transfer, MayAskFor, session
<1>2. Taken(s) /\ s \in {0, 1} /\ s = 0
  BY <1>1, NoneTaken
<1>3. request = Request(type, nextId, d, overwrite) /\ type \in RequestType \ {"cancel"}
      /\ d \in Dirs \cup {None} /\ (type # "list" => d # None)
      /\ (type \in {"download", "upload"} => nextId <= scope.requests)
  BY <1>1, FilesAssumption DEF RequestType
<1>4. Stays(s) /\ Shows(s)
  <2>1. Uploading \subseteq Uploading'
    BY <1>1 DEF Uploading, Uploads
  <2> QED
    BY <1>1, <2>1, NothingTaken, SameShown
<1>5. /\ scope \in Scope /\ operations \subseteq [id : Nat, dir : Dirs] /\ transfers \subseteq [id : Nat, upload : BOOLEAN]
      /\ finished \in [1 .. scope.requests -> Nat] /\ SessionFits /\ ShownFits
      /\ nextId \in Nat /\ nextId >= 1 /\ listId \in Nat /\ listId < nextId
      /\ path \in Dirs \cup {None} /\ shown \in Nat /\ loading \in BOOLEAN /\ cut \in BOOLEAN
  BY DEF IInv, Typed
<1>6. Taker \in {0, main, side}
  BY TakerIs
<1>7. up \in BOOLEAN /\ (type = "upload" => up)
  OBVIOUS
<1> HIDE DEF up
<1>8. \A t \in more : Taker # 0 /\ t.id = nextId /\ t \in [id : Nat, upload : BOOLEAN]
  BY <1>5, <1>7
<1>9. Taker # 0 => \E t \in more : t.id = nextId /\ t.upload = up
  OBVIOUS
<1>10. \A t, u \in more : t = u
  OBVIOUS
<1> HIDE DEF request, s, more
<1>11. /\ Calls(Taker, request, s) /\ nextId' = nextId + 1
       /\ request \in RequestRecord /\ request.type = type /\ request.id = nextId /\ request.dir = d
       /\ DOMAIN workers' = DOMAIN workers
  BY ONLY IInv, <1>1, <1>2, <1>3, <1>5, SendCalls, overwrite \in BOOLEAN
<1>12. Knows(Taker, request)
  <2>1. \A id \in Uploading : id \in Uploading'
    BY <1>1 DEF Uploading, Uploads
  <2>2. Taker # 0 /\ request.type = "upload" => request.id \in Uploading'
    BY <1>1, <1>9, <1>11, <1>7 DEF Uploading, Uploads
  <2>3. request.type # "operate"
    BY <1>11
  <2> QED
    BY <1>1, <2>1, <2>2, <2>3 DEF Knows
<1>13. transfers' \subseteq [id : Nat, upload : BOOLEAN]
  BY <1>1, <1>5, <1>8
<1>14. Views'
  BY <1>1, <1>5, <1>11, <1>13 DEF Views
<1>15. SessionFits'
  <2>1. sshUp' \in BOOLEAN /\ sideUp' = sideUp /\ UNCHANGED <<main, side>>
    BY <1>1, <1>5 DEF SessionFits
  <2> QED
    BY <1>2, <1>11, <2>1, CallsSession
<1>16. ShownFits'
  <2>1. /\ \A t \in transfers : t.id \in Nat /\ t.id < nextId /\ t.id \in DOMAIN finished /\ finished[t.id] = 0
        /\ \A t, u \in transfers : t.id = u.id => t = u
        /\ \A o \in operations : o.id \in Nat /\ o.id < nextId
        /\ \A id \in DOMAIN finished : id \in Nat /\ finished[id] <= 1 /\ (id >= nextId => finished[id] = 0)
    BY <1>5 DEF Scope, ShownFits
  <2>2. nextId \in DOMAIN finished
    BY <1>1, <1>5 DEF Scope
  <2>3. ASSUME NEW t \in transfers'
        PROVE  t.id < nextId' /\ t.id \in DOMAIN finished /\ finished[t.id] = 0
    <3>1. CASE t \in transfers
      BY <1>5, <1>11, <2>1, <3>1
    <3>2. CASE t \in more
      BY <1>5, <1>8, <1>11, <2>1, <2>2, <3>2
    <3> QED
      BY <1>1, <3>1, <3>2
  <2>4. \A t, u \in transfers' : t.id = u.id => t = u
    <3>1. \A t \in transfers : t.id # nextId
      BY <1>5, <2>1
    <3> QED
      BY <1>1, <1>8, <1>10, <2>1, <3>1
  <2>5. \A o \in operations' : o.id < nextId'
    BY <1>1, <1>5, <1>11, <2>1
  <2>6. \A id \in DOMAIN finished' : finished'[id] <= 1 /\ (id >= nextId' => finished'[id] = 0)
    BY <1>1, <1>5, <1>11, <2>1
  <2> QED
    BY <1>1, <2>3, <2>4, <2>5, <2>6 DEF ShownFits
<1>17. \A t \in transfers' : t \notin transfers =>
         s = 0 /\ Taker \in {main, side} \ {0} /\ IsTransfer(request) /\ t.id = request.id
  BY <1>1, <1>2, <1>6, <1>8, <1>11 DEF IsTransfer
<1> QED
  BY <1>1, <1>2, <1>4, <1>11, <1>12, <1>14, <1>15, <1>16, <1>17, CallsKeep

LEMMA CancelKeeps ==
  ASSUME IInv, NEW id \in 0 .. scope.requests, Cancel(id)
  PROVE  IInv'
<1> DEFINE request == Request("cancel", id, None, FALSE)
           s == 0
<1>1. /\ workers' = Handed(request)
      /\ UNCHANGED <<scope, nextId, path, shown, listId, loading, operations, cut, transfers, finished,
                     main, sshUp, side, sideUp, posted, server>>
  BY DEF Cancel, view, list, session
<1>2. Taken(s) /\ s \in {0, 1} /\ s = 0
  BY <1>1, NoneTaken
<1>3. Stays(s) /\ Shows(s)
  BY <1>1, NothingTaken, SameShown DEF Uploading, Uploads
<1>4. /\ scope \in Scope /\ operations \subseteq [id : Nat, dir : Dirs] /\ transfers \subseteq [id : Nat, upload : BOOLEAN]
      /\ finished \in [1 .. scope.requests -> Nat] /\ SessionFits /\ ShownFits
      /\ nextId \in Nat /\ listId \in Nat /\ listId < nextId
      /\ path \in Dirs \cup {None} /\ shown \in Nat /\ loading \in BOOLEAN /\ cut \in BOOLEAN
  BY DEF IInv, Typed
<1>5. request \in RequestRecord /\ request.type = "cancel"
  BY <1>4 DEF Request, RequestRecord, RequestType, Scope
<1>6. RequestFits(request) /\ ~Counts(request) /\ ~IsTransfer(request) /\ request.type \notin {"operate", "upload"}
  BY <1>5 DEF RequestFits, Counts, IsTransfer
<1> HIDE DEF request, s
<1>7. Calls(Taker, request, s)
  BY <1>1, <1>2, <1>5, <1>6, HandedCalls
<1>8. DOMAIN workers' = DOMAIN workers
  BY <1>1, <1>5, <1>6, HandedIs
<1>9. Knows(Taker, request)
  BY <1>1, <1>6 DEF Knows, Uploading, Uploads
<1>10. Views'
  BY <1>1, <1>4 DEF Views
<1>11. SessionFits'
  <2>1. sshUp' \in BOOLEAN /\ sideUp' = sideUp /\ UNCHANGED <<main, side>>
    BY <1>1, <1>4 DEF SessionFits
  <2> QED
    BY <1>2, <1>7, <1>8, <2>1, CallsSession
<1>12. ShownFits'
  BY <1>1, <1>4 DEF ShownFits
<1> QED
  BY <1>1, <1>2, <1>3, <1>7, <1>9, <1>10, <1>11, <1>12, CallsKeep

\* A file that grows after its copy has ended is late, before that it is not.
LEMMA GrowsFits ==
  ASSUME NEW t, TransferFits(t), t.open, ~t.upload
  PROVE  LET u == [t EXCEPT !.source = t.source + 1, !.late = t.eof]
         IN  TransferFits(u) /\ u.made = t.made /\ u.id = t.id /\ u.upload = t.upload /\ Stopping(u) = Stopping(t)
<1> DEFINE n == t.source + 1
           e == t.eof
           u == [t EXCEPT !.source = n, !.late = e]
<1>1. t \in TransferRecord /\ t.source \in Nat /\ t.begun \in Nat /\ e \in BOOLEAN /\ n \in Nat /\ e = t.eof
  <2>1. t \in TransferRecord
    BY DEF TransferFits
  <2>2. t.source \in Nat /\ t.begun \in Nat /\ t.eof \in BOOLEAN
    BY <2>1, TransferTypes
  <2> QED
    BY <2>1, <2>2
<1> HIDE DEF n, e
<1>2. u \in TransferRecord
  <2> DEFINE v == [t EXCEPT !.source = n]
  <2>1. v \in TransferRecord
    BY <1>1 DEF TransferRecord
  <2>2. u = [v EXCEPT !.late = e]
    OBVIOUS
  <2> HIDE DEF u, v
  <2> QED
    BY <1>1, <2>1, <2>2 DEF TransferRecord
<1>3. /\ u.open = t.open /\ u.pending = t.pending /\ u.prepared = t.prepared /\ u.items = t.items
      /\ u.upload = t.upload /\ u.begun = t.begun /\ u.copy = t.copy /\ u.eof = t.eof /\ u.restart = t.restart
      /\ u.error = t.error /\ u.cancelled = t.cancelled /\ u.requested = t.requested
      /\ u.made = t.made /\ u.id = t.id /\ u.source = t.source + 1 /\ u.late = t.eof
  BY <1>1 DEF TransferRecord, n
<1>4. Stopping(u) = Stopping(t)
  BY <1>3 DEF Stopping
<1>5. DownloadFits(t)
  BY DEF TransferFits, ItemFits
<1> HIDE DEF u
<1>6. t.begun <= t.source + 1
  BY <1>1, <1>5 DEF DownloadFits
<1>7. DownloadFits(u)
  BY <1>1, <1>3, <1>4, <1>5, <1>6 DEF DownloadFits
<1>8. TransferFits(u)
  BY <1>2, <1>3, <1>7 DEF TransferFits, ItemFits
<1> QED
  BY <1>3, <1>4, <1>8 DEF u, n, e

LEMMA GrowsKeeps ==
  ASSUME IInv, NEW w \in DOMAIN workers, Grows(w)
  PROVE  IInv'
<1> DEFINE old == workers[w].transfers
           t == old[1]
           u == [t EXCEPT !.source = t.source + 1, !.late = t.eof]
           more == [old EXCEPT ![1] = u]
           new == [workers[w] EXCEPT !.transfers = more]
           request == Request("cancel", 0, None, FALSE)
           s == 0
<1>1. workers \in Seq(WorkerRecord) /\ WorkerFits(workers[w]) /\ \A v \in DOMAIN workers : WorkerFits(workers[v])
  BY DEF IInv, Typed
<1>2. workers[w] \in WorkerRecord
  BY <1>1
<1>3. old \in Seq(TransferRecord) /\ old # <<>>
  BY <1>2 DEF WorkerRecord, Grows
<1>4. Len(old) \in Nat /\ 1 \in 1 .. Len(old) /\ DOMAIN old = 1 .. Len(old) /\ Head(old) = old[1]
  BY <1>3
<1>5. /\ t.open /\ ~t.upload
      /\ workers' = [workers EXCEPT ![w].transfers[1].source = @ + 1, ![w].transfers[1].late = t.eof]
      /\ UNCHANGED <<scope, nextId, path, shown, listId, loading, operations, cut, transfers, finished,
                     main, sshUp, side, sideUp, posted, server>>
  BY <1>4 DEF Grows, view, list, session
<1>6. \A i \in 1 .. Len(old) : old[i] \in TransferRecord /\ TransferFits(old[i]) /\ old[i].made = {}
  BY <1>1, <1>3 DEF WorkerFits
<1>7. TransferFits(u) /\ u.made = t.made /\ u.id = t.id /\ u.upload = t.upload /\ Stopping(u) = Stopping(t)
  BY <1>4, <1>5, <1>6, GrowsFits
<1>8. workers' = [workers EXCEPT ![w] = new]
  <2> DEFINE u1 == [t EXCEPT !.source = t.source + 1]
             more1 == [old EXCEPT ![1] = u1]
             new1 == [workers[w] EXCEPT !.transfers = more1]
             workers1 == [workers EXCEPT ![w] = new1]
  <2>1. workers' = [workers1 EXCEPT ![w].transfers[1].late = t.eof]
    BY <1>5
  <2>2. workers' = [workers1 EXCEPT ![w] = [workers1[w] EXCEPT !.transfers =
                      [workers1[w].transfers EXCEPT ![1] = [workers1[w].transfers[1] EXCEPT !.late = t.eof]]]]
    BY <2>1
  <2>3. workers1[w] = new1
    OBVIOUS
  <2>4. new1.transfers = more1
    BY <1>2 DEF WorkerRecord
  <2>5. more1[1] = u1
    BY <1>4
  <2>6. workers' = [workers1 EXCEPT ![w] = [new1 EXCEPT !.transfers = [more1 EXCEPT ![1] = [u1 EXCEPT !.late = t.eof]]]]
    BY <2>2, <2>3, <2>4, <2>5
  <2>7. [u1 EXCEPT !.late = t.eof] = u
    OBVIOUS
  <2>8. workers' = [workers1 EXCEPT ![w] = [new1 EXCEPT !.transfers = [more1 EXCEPT ![1] = u]]]
    BY <2>6, <2>7
  <2> HIDE DEF u, u1
  <2>9. [more1 EXCEPT ![1] = u] = more
    OBVIOUS
  <2>10. workers' = [workers1 EXCEPT ![w] = [new1 EXCEPT !.transfers = more]]
    BY <2>8, <2>9
  <2> HIDE DEF more, more1
  <2>11. [new1 EXCEPT !.transfers = more] = new
    BY <1>2 DEF WorkerRecord
  <2>12. workers' = [workers1 EXCEPT ![w] = new]
    BY <2>10, <2>11
  <2> HIDE DEF new, new1
  <2> QED
    BY <2>12
<1>9. u \in TransferRecord
  BY <1>7 DEF TransferFits
<1> HIDE DEF u
<1>10. /\ more \in Seq(TransferRecord) /\ Len(more) = Len(old) /\ more[1] = u
       /\ \A i \in 1 .. Len(old) : i # 1 => more[i] = old[i]
  BY <1>3, <1>4, <1>9
<1> HIDE DEF more, t
<1>11. /\ new \in WorkerRecord /\ new.kind = workers[w].kind /\ new.phase = workers[w].phase
       /\ new.stop = workers[w].stop /\ new.transfers = more /\ new.inbox = workers[w].inbox
  BY <1>2, <1>10 DEF WorkerRecord
<1>12. WorkerFits(new)
  <2>1. workers[w].phase = "up"
    BY <1>1, <1>3 DEF WorkerFits
  <2>2. \A i \in 1 .. Len(more) : TransferFits(more[i]) /\ more[i].made = {}
    BY <1>4, <1>6, <1>7, <1>10 DEF t
  <2> QED
    BY <1>1, <1>11, <2>1, <2>2 DEF WorkerFits
<1>13. Alike(more, old)
  BY <1>4, <1>7, <1>10 DEF Alike, t
<1> HIDE DEF new
<1>14. /\ workers' \in Seq(WorkerRecord) /\ DOMAIN workers' = DOMAIN workers
       /\ workers'[w] = new /\ \A v \in DOMAIN workers : v # w => workers'[v] = workers[v]
  BY <1>8, <1>11, WorkerIs
<1>15. Taken(s) /\ s \in {0, 1} /\ s = 0 /\ Stays(s) /\ Shows(s)
  BY <1>5, NoneTaken, NothingTaken, SameShown DEF Uploading, Uploads
<1>16. /\ scope \in Scope /\ operations \subseteq [id : Nat, dir : Dirs] /\ transfers \subseteq [id : Nat, upload : BOOLEAN]
       /\ finished \in [1 .. scope.requests -> Nat] /\ SessionFits /\ ShownFits
       /\ nextId \in Nat /\ listId \in Nat /\ listId < nextId
       /\ path \in Dirs \cup {None} /\ shown \in Nat /\ loading \in BOOLEAN /\ cut \in BOOLEAN
  BY DEF IInv, Typed
<1>17. DOMAIN workers = 1 .. Len(workers)
  BY <1>1
<1> DEFINE none == 0
<1>18. none \notin DOMAIN workers /\ none = 0
  BY <1>17
<1> HIDE DEF none, request, s, old
<1>19. Calls(none, request, s)
  <2>1. ASSUME NEW v \in DOMAIN workers
        PROVE  /\ v \in DOMAIN workers' /\ WorkerFits(workers'[v])
               /\ workers'[v].kind = workers[v].kind /\ workers'[v].phase = workers[v].phase
               /\ workers[v].stop => workers'[v].stop
               /\ Alike(workers'[v].transfers, workers[v].transfers)
               /\ workers'[v].inbox = workers[v].inbox
    <3>1. CASE v = w
      BY <1>11, <1>12, <1>13, <1>14, <3>1 DEF old
    <3>2. CASE v # w
      BY <1>1, <1>14, <3>2 DEF Alike
    <3> QED
      BY <3>1, <3>2
  <2>2. nextId' \in Nat /\ nextId <= nextId'
    BY <1>5, <1>16
  <2> QED
    BY <1>5, <1>14, <1>15, <1>18, <2>1, <2>2 DEF Calls
<1>20. Knows(none, request)
  BY <1>5, <1>18 DEF Knows, Uploading, Uploads
<1>21. Views'
  BY <1>5, <1>16 DEF Views
<1>22. SessionFits'
  <2>1. sshUp' \in BOOLEAN /\ sideUp' = sideUp /\ UNCHANGED <<main, side>>
    BY <1>5, <1>16 DEF SessionFits
  <2> QED
    BY <1>14, <1>15, <1>19, <2>1, CallsSession
<1>23. ShownFits'
  BY <1>5, <1>16 DEF ShownFits
<1> QED
  BY <1>5, <1>15, <1>19, <1>20, <1>21, <1>22, <1>23, CallsKeep

\* A worker more.
LEMMA NewWorkerCalls ==
  ASSUME IInv, NEW kind \in {"main", "mosh", "side"}, NEW phase \in {"up", "closed"}, workers' = NewWorker(kind, phase),
         UNCHANGED <<scope, nextId, posted, server>>, NEW none, none = 0, NEW s, s = 0, NEW request
  PROVE  /\ Calls(none, request, s)
         /\ Len(workers) + 1 \in DOMAIN workers' /\ DOMAIN workers \subseteq DOMAIN workers'
         /\ Len(workers) + 1 \notin DOMAIN workers
         /\ \A v \in DOMAIN workers' : v \in DOMAIN workers \/ v = Len(workers) + 1
         /\ \A v \in DOMAIN workers : workers'[v] = workers[v]
         /\ LET new == workers'[Len(workers) + 1]
            IN  new.kind = kind /\ new.phase = phase /\ ~new.stop
<1> DEFINE stop == FALSE
           inbox == <<>>
           new == [kind |-> kind, phase |-> phase, stop |-> stop, inbox |-> inbox, transfers |-> inbox]
           w == Len(workers) + 1
<1>1. /\ workers \in Seq(WorkerRecord) /\ \A v \in DOMAIN workers : WorkerFits(workers[v])
      /\ nextId \in Nat
  BY DEF IInv, Typed
<1>2. workers' = Append(workers, new)
  BY DEF NewWorker
<1>3. stop \in BOOLEAN /\ ~stop /\ inbox \in Seq(RequestRecord) /\ inbox \in Seq(TransferRecord)
      /\ Len(inbox) = 0 /\ inbox = <<>>
  OBVIOUS
<1> HIDE DEF stop, inbox
<1>4. /\ new \in WorkerRecord /\ new.kind = kind /\ new.phase = phase /\ ~new.stop
      /\ new.inbox = inbox /\ new.transfers = inbox
  BY <1>3 DEF WorkerRecord
<1>5. WorkerFits(new)
  BY <1>3, <1>4 DEF WorkerFits
<1> HIDE DEF new
<1>6. /\ workers' \in Seq(WorkerRecord) /\ Len(workers) \in Nat /\ Len(workers') = w
      /\ workers'[w] = new
      /\ \A k \in 1 .. Len(workers) : k \in 1 .. Len(workers') /\ workers'[k] = workers[k]
      /\ \A k \in 1 .. Len(workers') : k \in 1 .. Len(workers) \/ k = w
  BY <1>1, <1>2, <1>4, AppendIs
<1>7. DOMAIN workers = 1 .. Len(workers) /\ DOMAIN workers' = 1 .. Len(workers')
  BY <1>1, <1>6
<1>8. w \in DOMAIN workers' /\ w \notin DOMAIN workers
  BY <1>6, <1>7
<1> HIDE DEF w
<1>9. /\ \A v \in DOMAIN workers : v \in DOMAIN workers' /\ workers'[v] = workers[v]
      /\ \A v \in DOMAIN workers' : v \in DOMAIN workers \/ v = w
  BY <1>6, <1>7
<1>10. Calls(none, request, s)
  <2>1. Taken(s)
    BY NoneTaken
  <2>2. \A v \in DOMAIN workers' : WorkerFits(workers'[v])
    BY <1>1, <1>5, <1>6, <1>9
  <2>3. \A v \in DOMAIN workers : Alike(workers'[v].transfers, workers[v].transfers)
    BY <1>9 DEF Alike
  <2>4. \A v \in DOMAIN workers' : v \notin DOMAIN workers => workers'[v].inbox = <<>> /\ workers'[v].transfers = <<>>
    BY <1>3, <1>4, <1>6, <1>9
  <2>5. \A v \in DOMAIN workers : v # none
    BY <1>7
  <2>6. nextId' = nextId /\ nextId <= nextId'
    BY <1>1
  <2> QED
    BY <1>1, <1>6, <1>9, <2>1, <2>2, <2>3, <2>4, <2>5, <2>6 DEF Calls
<1> QED
  BY <1>4, <1>6, <1>8, <1>9, <1>10 DEF w

\* What the browser shows is as it was.
LEMMA SameView ==
  ASSUME IInv, UNCHANGED <<scope, nextId, path, shown, listId, loading, operations, cut, transfers, finished>>,
         NEW none, none = 0, NEW request
  PROVE  Views' /\ ShownFits' /\ Knows(none, request) /\ Shows(0)
<1>1. /\ ShownFits
      /\ listId \in Nat /\ listId < nextId
      /\ path \in Dirs \cup {None} /\ shown \in Nat /\ loading \in BOOLEAN /\ cut \in BOOLEAN
      /\ operations \subseteq [id : Nat, dir : Dirs]
      /\ transfers \subseteq [id : Nat, upload : BOOLEAN]
      /\ finished \in [1 .. scope.requests -> Nat]
  BY DEF IInv, Typed
<1>2. Views'
  BY <1>1 DEF Views
<1>3. ShownFits'
  BY <1>1 DEF ShownFits
<1>4. Knows(none, request)
  BY DEF Knows, Uploading, Uploads
<1> QED
  BY <1>2, <1>3, <1>4, SameShown

LEMMA ConnectKeeps ==
  ASSUME IInv, Connect
  PROVE  IInv'
<1> DEFINE none == 0
           s == 0
           request == Request("cancel", 0, None, FALSE)
           w == Len(workers) + 1
<1>1. PICK kind \in {"main", "mosh"}, phase \in {"up", "closed"} :
        workers' = NewWorker(kind, phase) /\ sshUp' = (phase = "up")
  BY DEF Connect
<1>2. /\ main = 0 /\ main' = w
      /\ UNCHANGED <<scope, nextId, path, shown, listId, loading, operations, cut, transfers, finished,
                     side, sideUp, posted, server>>
  BY DEF Connect, view, list
<1>3. none = 0 /\ s = 0 /\ Shows(s) /\ Stays(s)
  BY <1>2, NothingTaken, SameShown DEF Uploading, Uploads
<1>4. workers \in Seq(WorkerRecord) /\ SessionFits
  BY DEF IInv, Typed
<1> HIDE DEF none, s, request
<1>5. /\ Calls(none, request, s)
      /\ w \in DOMAIN workers' /\ DOMAIN workers \subseteq DOMAIN workers'
      /\ w \notin DOMAIN workers
      /\ \A v \in DOMAIN workers' : v \in DOMAIN workers \/ v = w
      /\ \A v \in DOMAIN workers : workers'[v] = workers[v]
      /\ workers'[w].kind = kind /\ workers'[w].phase = phase
  BY <1>1, <1>2, <1>3, NewWorkerCalls
<1>6. w # 0
  BY <1>4
<1> HIDE DEF w
<1>7. Views' /\ ShownFits' /\ Knows(none, request)
  BY <1>2, <1>3, SameView
<1>8. SessionFits'
  <2>1. ~(\E i \in DOMAIN posted : posted[i].type = "finished")
    BY <1>2, <1>4 DEF SessionFits
  <2>2. /\ main' \in {0} \cup DOMAIN workers' /\ side' \in {0} \cup DOMAIN workers'
        /\ sshUp' \in BOOLEAN /\ sideUp' \in BOOLEAN
        /\ main' # 0 => workers'[main'].kind # "side"
        /\ side' # 0 => workers'[side'].kind = "side"
    BY <1>1, <1>2, <1>4, <1>5 DEF SessionFits
  <2>3. \A v \in DOMAIN workers' : workers'[v].phase # "over" =>
          /\ workers'[v].kind # "side" => v = main'
          /\ workers'[v].kind = "side" /\ ~workers'[v].stop => v = side'
    <3>1. ASSUME NEW v \in DOMAIN workers, workers'[v].phase # "over"
          PROVE  /\ workers'[v].kind = "side"
                 /\ workers'[v].kind = "side" /\ ~workers'[v].stop => v = side'
      <4>1. v # 0
        BY <1>4
      <4> QED
        BY <1>2, <1>4, <1>5, <3>1, <4>1 DEF SessionFits
    <3>2. workers'[w].kind # "side"
      BY <1>5
    <3> QED
      BY <1>2, <1>5, <3>1, <3>2
  <2>4. workers'[main'].phase # "over"
    BY <1>2, <1>5
  <2>5. (\E i \in DOMAIN posted' : posted'[i].type = "sideFinished") =>
          side' = 0 \/ workers'[side'].phase = "over"
    BY <1>2, <1>4, <1>5 DEF SessionFits
  <2> QED
    BY <1>2, <2>1, <2>2, <2>3, <2>4, <2>5 DEF SessionFits
<1> QED
  BY <1>2, <1>3, <1>5, <1>7, <1>8, CallsKeep

LEMMA SideConnectsKeeps ==
  ASSUME IInv, SideConnects
  PROVE  IInv'
<1> DEFINE none == 0
           s == 0
           request == Request("cancel", 0, None, FALSE)
           w == Len(workers) + 1
           kind == "side"
           phase == "up"
<1>1. /\ workers' = NewWorker(kind, phase) /\ side = 0 /\ side' = w /\ sideUp' = TRUE
      /\ \A i \in DOMAIN posted : posted[i].type # "sideFinished"
      /\ UNCHANGED <<scope, nextId, path, shown, listId, loading, operations, cut, transfers, finished,
                     main, sshUp, posted, server>>
  BY DEF SideConnects, view, list
<1>2. kind \in {"main", "mosh", "side"} /\ phase \in {"up", "closed"} /\ kind = "side" /\ phase = "up"
  OBVIOUS
<1>3. none = 0 /\ s = 0 /\ Shows(s) /\ Stays(s)
  BY <1>1, NothingTaken, SameShown DEF Uploading, Uploads
<1>4. workers \in Seq(WorkerRecord) /\ SessionFits
  BY DEF IInv, Typed
<1> HIDE DEF none, s, request, kind, phase
<1>5. /\ Calls(none, request, s)
      /\ w \in DOMAIN workers' /\ DOMAIN workers \subseteq DOMAIN workers'
      /\ w \notin DOMAIN workers
      /\ \A v \in DOMAIN workers' : v \in DOMAIN workers \/ v = w
      /\ \A v \in DOMAIN workers : workers'[v] = workers[v]
      /\ workers'[w].kind = kind /\ workers'[w].phase = phase
  BY <1>1, <1>2, <1>3, NewWorkerCalls
<1>6. w # 0
  BY <1>4
<1> HIDE DEF w
<1>7. Views' /\ ShownFits' /\ Knows(none, request)
  BY <1>1, <1>3, SameView
<1>8. SessionFits'
  <2>1. /\ main' \in {0} \cup DOMAIN workers' /\ side' \in {0} \cup DOMAIN workers'
        /\ sshUp' \in BOOLEAN /\ sideUp' \in BOOLEAN
        /\ main' # 0 => workers'[main'].kind # "side" /\ workers'[main'].phase = workers[main].phase
        /\ side' # 0 => workers'[side'].kind = "side"
    BY <1>1, <1>2, <1>4, <1>5 DEF SessionFits
  <2>2. \A v \in DOMAIN workers' : workers'[v].phase # "over" =>
          /\ workers'[v].kind # "side" => v = main'
          /\ workers'[v].kind = "side" /\ ~workers'[v].stop => v = side'
    <3>1. ASSUME NEW v \in DOMAIN workers, workers'[v].phase # "over"
          PROVE  /\ workers'[v].kind # "side" => v = main'
                 /\ workers'[v].kind = "side" => workers'[v].stop
      <4>1. v # 0
        BY <1>4
      <4> QED
        BY <1>1, <1>4, <1>5, <3>1, <4>1 DEF SessionFits
    <3> QED
      BY <1>1, <1>2, <1>5, <3>1
  <2>3. (\E i \in DOMAIN posted' : posted'[i].type = "finished") <=>
          main' # 0 /\ workers'[main'].phase = "over"
    BY <1>1, <1>4, <2>1 DEF SessionFits
  <2>4. \A i, j \in DOMAIN posted' : posted'[i].type = "finished" /\ posted'[j].type = "finished" => i = j
    BY <1>1, <1>4 DEF SessionFits
  <2> QED
    BY <1>1, <2>1, <2>2, <2>3, <2>4 DEF SessionFits
<1> QED
  BY <1>1, <1>3, <1>5, <1>7, <1>8, CallsKeep

\* Workers that go on.
LEMMA SameCalls ==
  ASSUME IInv, UNCHANGED <<scope, nextId, workers, server>>, NEW none, none = 0, NEW request, NEW s, Taken(s)
  PROVE  Calls(none, request, s)
<1>1. /\ workers \in Seq(WorkerRecord) /\ \A v \in DOMAIN workers : WorkerFits(workers[v])
      /\ nextId \in Nat
  BY DEF IInv, Typed
<1>2. nextId <= nextId' /\ \A v \in DOMAIN workers : v # none
  BY <1>1
<1> QED
  BY <1>1, <1>2 DEF Calls, Alike

\* A worker is told to stop.
LEMMA StopCalls ==
  ASSUME IInv, NEW w \in DOMAIN workers, workers' = [workers EXCEPT ![w].stop = TRUE],
         UNCHANGED <<scope, nextId, server>>, NEW none, none = 0, NEW request, NEW s, Taken(s)
  PROVE  Calls(none, request, s) /\ DOMAIN workers' = DOMAIN workers /\ workers'[w].stop
<1> DEFINE stop == TRUE
           new == [workers[w] EXCEPT !.stop = stop]
<1>1. /\ workers \in Seq(WorkerRecord) /\ \A v \in DOMAIN workers : WorkerFits(workers[v])
      /\ nextId \in Nat
  BY DEF IInv, Typed
<1>2. workers[w] \in WorkerRecord
  BY <1>1
<1>3. workers' = [workers EXCEPT ![w].stop = stop] /\ stop \in BOOLEAN /\ stop
  OBVIOUS
<1> HIDE DEF stop
<1>4. /\ new \in WorkerRecord /\ new.kind = workers[w].kind /\ new.phase = workers[w].phase
      /\ new.transfers = workers[w].transfers /\ new.inbox = workers[w].inbox /\ new.stop = stop
  BY <1>2, <1>3 DEF WorkerRecord
<1>5. WorkerFits(new)
  BY <1>1, <1>4 DEF WorkerFits
<1>6. workers' = [workers EXCEPT ![w] = new]
  BY <1>1, <1>2, <1>3
<1> HIDE DEF new
<1>7. /\ workers' \in Seq(WorkerRecord) /\ DOMAIN workers' = DOMAIN workers
      /\ workers'[w] = new /\ \A v \in DOMAIN workers : v # w => workers'[v] = workers[v]
  BY <1>4, <1>6, WorkerIs
<1>8. ASSUME NEW v \in DOMAIN workers
      PROVE  /\ v \in DOMAIN workers' /\ WorkerFits(workers'[v])
             /\ workers'[v].kind = workers[v].kind /\ workers'[v].phase = workers[v].phase
             /\ workers[v].stop => workers'[v].stop
             /\ Alike(workers'[v].transfers, workers[v].transfers)
             /\ workers'[v].inbox = workers[v].inbox
  <2>1. CASE v = w
    BY <1>3, <1>4, <1>5, <1>7, <2>1 DEF Alike
  <2>2. CASE v # w
    BY <1>1, <1>7, <2>2 DEF Alike
  <2> QED
    BY <2>1, <2>2
<1>9. nextId <= nextId' /\ \A v \in DOMAIN workers : v # none
  BY <1>1
<1> QED
  BY <1>1, <1>3, <1>4, <1>7, <1>8, <1>9 DEF Calls

LEMMA DisconnectKeeps ==
  ASSUME IInv, Disconnect
  PROVE  IInv'
<1> DEFINE none == 0
           s == 0
           request == Request("cancel", 0, None, FALSE)
<1>1. /\ main # 0 /\ workers' = [workers EXCEPT ![main].stop = TRUE]
      /\ UNCHANGED <<scope, nextId, path, shown, listId, loading, operations, cut, transfers, finished,
                     main, sshUp, side, sideUp, posted, server>>
  BY DEF Disconnect, view, list, session
<1>2. none = 0 /\ s = 0 /\ Taken(s) /\ Shows(s) /\ Stays(s)
  BY <1>1, NoneTaken, NothingTaken, SameShown DEF Uploading, Uploads
<1>3. main \in DOMAIN workers /\ sshUp \in BOOLEAN
  BY <1>1 DEF IInv, SessionFits
<1> HIDE DEF none, s, request
<1>4. Calls(none, request, s) /\ DOMAIN workers' = DOMAIN workers
  BY <1>1, <1>2, <1>3, StopCalls
<1>5. Views' /\ ShownFits' /\ Knows(none, request)
  BY <1>1, <1>2, SameView
<1>6. SessionFits'
  BY <1>1, <1>2, <1>3, <1>4, CallsSession
<1> QED
  BY <1>1, <1>2, <1>4, <1>5, <1>6, CallsKeep

-----------------------------------------------------------------------------
(* The events of the GUI thread *)

\* What brings a listing when one event is taken: the reports behind it are
\* not of its number.
LEMMA OthersStay ==
  ASSUME IInv, posted # <<>>, posted' = Tail(posted),
         IsReport(posted[1]) \/ (operations' = operations /\ transfers' = transfers),
         \A o \in operations : o.id # posted[1].id => o \in operations',
         \A t \in transfers : t.id # posted[1].id => t \in transfers'
  PROVE  Stays(1)
<1>1. /\ 1 \in DOMAIN posted
      /\ \A i \in DOMAIN posted' : i + 1 \in DOMAIN posted /\ posted'[i] = posted[i + 1] /\ i + 1 # 1
  BY OneTaken
<1>2. \A i, j \in DOMAIN posted :
        IsReport(posted[i]) /\ IsReport(posted[j]) /\ posted[i].id = posted[j].id => i = j
  BY DEF IInv, Apart
<1>3. SUFFICES ASSUME NEW i \in DOMAIN posted', NEW d \in Dirs, Changed(posted[i + 1], d, operations, Uploading)
               PROVE  Changed(posted'[i], d, operations', Uploading')
  BY DEF Stays
<1> DEFINE r == posted[i + 1]
<1>4. posted'[i] = r /\ IsReport(r)
  BY <1>1, <1>3 DEF Changed, IsReport
<1>5. IsReport(posted[1]) => r.id # posted[1].id
  BY <1>1, <1>2, <1>4
<1>6. (operations' = operations /\ transfers' = transfers) \/ r.id # posted[1].id
  BY <1>5
<1>7. Changed(r, d, operations, Uploading)
  BY <1>3
<1> HIDE DEF r
<1>8. CASE r.type = "done" /\ [id |-> r.id, dir |-> d] \in operations
  <2> DEFINE o == [id |-> r.id, dir |-> d]
  <2>1. o \in operations /\ o.id = r.id
    BY <1>8
  <2> HIDE DEF o
  <2>2. o \in operations'
    BY <1>6, <2>1
  <2> QED
    BY <1>4, <1>8, <2>2 DEF Changed, o
<1>9. CASE r.type = "transferred" /\ r.good /\ r.id \in Uploading
  <2>1. PICK t \in transfers : t.upload /\ t.id = r.id
    BY <1>9 DEF Uploading, Uploads
  <2>2. t \in transfers'
    BY <1>6, <2>1
  <2>3. r.id \in Uploading'
    BY <2>1, <2>2 DEF Uploading, Uploads
  <2> QED
    BY <1>4, <1>9, <2>3 DEF Changed
<1> QED
  BY <1>7, <1>8, <1>9 DEF Changed

LEMMA OnListedKeeps ==
  ASSUME IInv, posted # <<>>, posted' = Tail(posted), UNCHANGED <<scope, server>>,
         posted[1].type = "listed", OnListed(posted[1])
  PROVE  IInv'
<1> DEFINE none == 0
           s == 1
           request == Request("cancel", 0, None, FALSE)
           r == posted[1]
<1>1. Taken(s) /\ r \in ReportRecord /\ none = 0 /\ s = 1
  BY OneTaken
<1>2. UNCHANGED <<nextId, listId, operations, transfers, finished, main, sshUp, side, sideUp, workers>>
  BY DEF OnListed, list, session
<1>3. /\ listId \in Nat /\ listId < nextId
      /\ path \in Dirs \cup {None} /\ shown \in Nat /\ loading \in BOOLEAN /\ cut \in BOOLEAN
      /\ operations \subseteq [id : Nat, dir : Dirs]
      /\ transfers \subseteq [id : Nat, upload : BOOLEAN]
      /\ finished \in [1 .. scope.requests -> Nat] /\ ShownFits /\ SessionFits
  BY DEF IInv, Typed
<1>4. /\ r.dir \in Dirs \cup {None} /\ r.seen \in Nat \cup {NoEntries} /\ r.good \in BOOLEAN
      /\ r.good => r.seen \in Nat /\ r.seen # NoEntries
  BY <1>1 DEF ReportRecord, NoEntries
<1>5. Stays(s)
  BY <1>2, OthersStay
<1>6. Shows(s) /\ path' \in Dirs \cup {None} /\ shown' \in Nat /\ loading' \in BOOLEAN /\ cut' \in BOOLEAN
  <2>1. CASE r.id # listId
    <3>1. UNCHANGED <<path, shown, loading, cut>>
      BY <2>1 DEF OnListed
    <3>2. \A d \in Dirs : ~Changed(r, d, operations, Uploading)
      BY DEF Changed
    <3> QED
      BY <1>3, <3>1, <3>2 DEF Shows
  <2>2. CASE r.id = listId /\ r.good
    <3>1. loading' = FALSE /\ path' = r.dir /\ shown' = r.seen /\ cut' = ~r.good
      BY <1>4, <2>2 DEF OnListed
    <3> QED
      BY <1>1, <1>4, <2>2, <3>1 DEF Shows
  <2>3. CASE r.id = listId /\ ~r.good
    <3>1. /\ loading' = FALSE /\ cut' = ~r.good
          /\ \/ path' = path /\ shown' = shown
             \/ r.seen # NoEntries /\ path' = r.dir /\ shown' = r.seen
      BY <2>3 DEF OnListed
    <3>2. cut' /\ cut' \in BOOLEAN
      BY <2>3, <3>1
    <3> QED
      BY <1>3, <1>4, <3>1, <3>2 DEF Shows
  <2> QED
    BY <1>4, <2>1, <2>2, <2>3
<1> HIDE DEF none, s, request
<1>7. Calls(none, request, s)
  BY <1>1, <1>2, SameCalls
<1>8. Knows(none, request)
  BY <1>1, <1>2 DEF Knows, Uploading, Uploads
<1>9. Views'
  BY <1>2, <1>3, <1>6 DEF Views
<1>10. ShownFits'
  BY <1>2, <1>3 DEF ShownFits
<1>11. s = 1 => r.type # "finished" /\ r.type # "transferred"
  OBVIOUS
<1>12. SessionFits'
  BY <1>2, <1>3, <1>7, <1>11, CallsSession DEF SessionFits
<1> QED
  BY <1>2, <1>5, <1>6, <1>7, <1>8, <1>9, <1>10, <1>11, <1>12, CallsKeep

\* The events of the session that the browser does not hear of.
LEMMA SessionHears ==
  ASSUME IInv, posted # <<>>, posted' = Tail(posted), UNCHANGED <<scope, server>>,
         posted[1].type \in {"sshClosed", "sideFinished"},
         UNCHANGED <<nextId, path, shown, listId, loading, operations, cut, transfers, finished, workers, main>>,
         sshUp' \in BOOLEAN, sideUp' \in BOOLEAN,
         side' = side \/ (side' = 0 /\ (side # 0 => workers[side].phase = "over"))
  PROVE  IInv'
<1> DEFINE none == 0
           s == 1
           request == Request("cancel", 0, None, FALSE)
           r == posted[1]
<1>1. Taken(s) /\ none = 0 /\ s = 1
  BY OneTaken
<1>2. Stays(s)
  BY OthersStay
<1>3. Shows(s)
  <2>1. \A d \in Dirs : ~Changed(r, d, operations, Uploading)
    BY DEF Changed
  <2> QED
    BY <2>1 DEF Shows
<1> HIDE DEF none, s, request
<1>4. Calls(none, request, s)
  BY <1>1, SameCalls
<1>5. Views' /\ ShownFits' /\ Knows(none, request)
  BY <1>1, SameView
<1>6. s = 1 => r.type # "finished" /\ r.type # "transferred"
  OBVIOUS
<1>7. SessionFits'
  BY <1>4, <1>6, SideSession
<1> QED
  BY <1>2, <1>3, <1>4, <1>5, <1>6, <1>7, CallsKeep

LEMMA OnSshClosedKeeps ==
  ASSUME IInv, posted # <<>>, posted' = Tail(posted), UNCHANGED <<scope, server>>,
         posted[1].type = "sshClosed", OnSshClosed
  PROVE  IInv'
<1>1. sideUp \in BOOLEAN
  BY DEF IInv, SessionFits
<1> QED
  BY <1>1, SessionHears DEF OnSshClosed, view, list

LEMMA OnSideWorkerFinishedKeeps ==
  ASSUME IInv, posted # <<>>, posted' = Tail(posted), UNCHANGED <<scope, server>>,
         posted[1].type = "sideFinished", OnSideWorkerFinished
  PROVE  IInv'
<1>1. 1 \in DOMAIN posted
  BY OneTaken
<1>2. sshUp \in BOOLEAN /\ (side # 0 => workers[side].phase = "over")
  BY <1>1 DEF IInv, SessionFits
<1> QED
  BY <1>2, SessionHears DEF OnSideWorkerFinished, view, list

\* The folder shown is listed anew, or nothing is asked for.
LEMMA RelistCalls ==
  ASSUME IInv, NEW listed \in BOOLEAN, NEW s, s = 1, Taken(s), UNCHANGED <<scope, server>>,
         IF listed THEN List(path) ELSE UNCHANGED <<nextId, path, shown, listId, loading, cut, workers>>,
         ~listed => \A d \in Dirs : d = path => ~Changed(posted[1], d, operations, Uploading)
  PROVE  \E taker, request :
           /\ Calls(taker, request, s) /\ request.type = "list"
           /\ Shows(s)
           /\ listId' = listId \/ \A id \in PostedIds : id # listId'
           /\ DOMAIN workers' = DOMAIN workers
           /\ nextId' \in Nat /\ nextId <= nextId'
           /\ listId' \in Nat /\ listId' < nextId' /\ loading' \in BOOLEAN /\ cut' \in BOOLEAN
           /\ path' \in Dirs \cup {None} /\ shown' \in Nat
<1>1. /\ listId \in Nat /\ listId < nextId /\ nextId \in Nat
      /\ path \in Dirs \cup {None} /\ shown \in Nat /\ loading \in BOOLEAN /\ cut \in BOOLEAN
  BY DEF IInv, Typed
<1>2. CASE listed
  <2> DEFINE request == Request("list", nextId, path, FALSE)
  <2>1. List(path) /\ request = Request("list", nextId, path, FALSE) /\ s \in {0, 1}
    BY <1>2
  <2> HIDE DEF request
  <2>2. /\ Calls(Taker, request, s) /\ request.type = "list" /\ nextId' = nextId + 1 /\ nextId \in Nat
        /\ DOMAIN workers' = DOMAIN workers
        /\ listId' \in Nat /\ listId' < nextId' /\ loading' \in BOOLEAN /\ cut' \in BOOLEAN
        /\ path' = path /\ shown' = shown /\ path \in Dirs \cup {None} /\ shown \in Nat
        /\ Shows(s)
        /\ \A id \in PostedIds : id # listId'
    BY <1>1, <2>1, ListCalls
  <2>3. nextId' \in Nat /\ nextId <= nextId' /\ path' \in Dirs \cup {None} /\ shown' \in Nat
    BY <2>2
  <2> DEFINE taker == Taker
  <2> HIDE DEF taker
  <2>4. Calls(taker, request, s)
    BY <2>2 DEF taker
  <2> QED
    BY <2>2, <2>3, <2>4
<1>3. CASE ~listed
  <2> DEFINE none == 0
             request == Request("list", 0, None, FALSE)
  <2>1. UNCHANGED <<nextId, path, shown, listId, loading, cut, workers>> /\ none = 0 /\ request.type = "list"
    BY <1>3 DEF Request
  <2> HIDE DEF request, none
  <2>2. Calls(none, request, s)
    BY <2>1, SameCalls
  <2>3. Shows(s)
    BY <1>3, <2>1 DEF Shows
  <2>4. nextId <= nextId'
    BY <1>1, <2>1
  <2> QED
    BY <1>1, <2>1, <2>2, <2>3, <2>4
<1> QED
  BY <1>2, <1>3

LEMMA OnDoneKeeps ==
  ASSUME IInv, posted # <<>>, posted' = Tail(posted), UNCHANGED <<scope, server>>,
         posted[1].type = "done", OnDone(posted[1])
  PROVE  IInv'
<1> DEFINE s == 1
           r == posted[1]
           mine == {o \in operations : o.id = r.id}
           listed == \E o \in mine : Relists(o)
<1>1. Taken(s) /\ 1 \in DOMAIN posted /\ s = 1
  BY OneTaken
<1>2. /\ operations' = operations \ mine
      /\ UNCHANGED <<transfers, finished, main, sshUp, side, sideUp>>
      /\ IF listed THEN List(path) ELSE UNCHANGED <<nextId, path, shown, listId, loading, cut, workers>>
  BY DEF OnDone, list, session
<1>3. /\ operations \subseteq [id : Nat, dir : Dirs]
      /\ transfers \subseteq [id : Nat, upload : BOOLEAN] /\ nextId \in Nat /\ scope \in Scope
      /\ finished \in [1 .. scope.requests -> Nat] /\ ShownFits /\ SessionFits
  BY DEF IInv, Typed
<1>4. ASSUME ~listed, NEW d \in Dirs, d = path
      PROVE  ~Changed(r, d, operations, Uploading)
  <2>1. SUFFICES ASSUME [id |-> r.id, dir |-> d] \in operations
                 PROVE  FALSE
    BY DEF Changed
  <2> DEFINE o == [id |-> r.id, dir |-> d]
  <2>2. o \in mine /\ Relists(o)
    BY <1>4, <2>1 DEF Relists
  <2> QED
    BY <1>4, <2>2
<1>5. Stays(s)
  <2>1. IsReport(r)
    BY DEF IsReport
  <2>2. \A o \in operations : o.id # r.id => o \in operations'
    BY <1>2
  <2> QED
    BY <1>2, <2>1, <2>2, OthersStay
<1>6. r.id \in PostedIds
  BY <1>1 DEF PostedIds, IsReport
<1>7. \A o \in operations : o.id # r.id => o \in operations'
  BY <1>2
<1>8. operations' \subseteq operations /\ listed \in BOOLEAN
  BY <1>2
<1> HIDE DEF s, mine, listed
<1>9. PICK taker, request :
        /\ Calls(taker, request, s) /\ request.type = "list"
        /\ Shows(s)
        /\ listId' = listId \/ \A id \in PostedIds : id # listId'
        /\ DOMAIN workers' = DOMAIN workers
        /\ nextId' \in Nat /\ nextId <= nextId'
        /\ listId' \in Nat /\ listId' < nextId' /\ loading' \in BOOLEAN /\ cut' \in BOOLEAN
        /\ path' \in Dirs \cup {None} /\ shown' \in Nat
  BY <1>1, <1>2, <1>4, <1>8, RelistCalls
<1>10. Knows(taker, request)
  BY <1>2, <1>6, <1>7, <1>9 DEF Knows, Uploading, Uploads
<1>11. Views'
  BY <1>2, <1>3, <1>8, <1>9 DEF Views
<1>12. ShownFits'
  <2>1. /\ \A t \in transfers : t.id \in Nat /\ t.id < nextId
        /\ \A o \in operations : o.id \in Nat /\ o.id < nextId
        /\ \A id \in DOMAIN finished : id \in Nat
    BY <1>3 DEF Scope, ShownFits
  <2> QED
    BY <1>2, <1>3, <1>8, <1>9, <2>1 DEF ShownFits
<1>13. s = 1 => r.type # "finished" /\ r.type # "transferred"
  OBVIOUS
<1>14. SessionFits'
  BY <1>2, <1>3, <1>9, <1>13, CallsSession DEF SessionFits
<1> QED
  BY <1>2, <1>5, <1>9, <1>10, <1>11, <1>12, <1>13, <1>14, CallsKeep

\* The end of each transfer is told of once.
LEMMA EndsAreTold ==
  ASSUME IInv, NEW gone \in SUBSET transfers,
         finished' = [id \in DOMAIN finished |-> finished[id] + Cardinality({t \in gone : t.id = id})]
  PROVE  /\ finished' \in [1 .. scope.requests -> Nat]
         /\ \A id \in DOMAIN finished' : finished'[id] <= 1 /\ (id >= nextId => finished'[id] = 0)
         /\ \A t \in transfers : t \notin gone => t.id \in DOMAIN finished' /\ finished'[t.id] = 0
<1>1. /\ transfers \subseteq [id : Nat, upload : BOOLEAN] /\ nextId \in Nat /\ scope \in Scope
      /\ finished \in [1 .. scope.requests -> Nat] /\ ShownFits
  BY DEF IInv, Typed
<1>2. /\ \A t, u \in transfers : t.id = u.id => t = u
      /\ \A t \in transfers : t.id < nextId /\ t.id \in DOMAIN finished /\ finished[t.id] = 0
      /\ \A id \in DOMAIN finished : finished[id] <= 1 /\ (id >= nextId => finished[id] = 0)
  BY <1>1 DEF ShownFits
<1> DEFINE those(id) == {t \in gone : t.id = id}
<1>3. ASSUME NEW id \in DOMAIN finished
      PROVE  /\ \/ those(id) = {} /\ Cardinality(those(id)) = 0
                \/ (\E t \in gone : t.id = id) /\ Cardinality(those(id)) = 1
  <2>1. CASE those(id) = {}
    BY <2>1, FS_EmptySet
  <2>2. CASE those(id) # {}
    <3>1. PICK t \in gone : t.id = id
      BY <2>2
    <3>2. those(id) = {t}
      BY <1>2, <3>1
    <3> QED
      BY <3>1, <3>2, FS_Singleton
  <2> QED
    BY <2>1, <2>2
<1>4. finished' = [id \in DOMAIN finished |-> finished[id] + Cardinality(those(id))]
  OBVIOUS
<1> DEFINE more == [id \in DOMAIN finished |-> Cardinality(those(id))]
<1>5. \A id \in DOMAIN finished : more[id] \in {0, 1} /\ (more[id] = 1 => \E t \in gone : t.id = id)
  BY <1>3
<1>6. DOMAIN finished' = DOMAIN finished /\ \A id \in DOMAIN finished : finished'[id] = finished[id] + more[id]
  BY <1>4
<1> HIDE DEF more, those
<1>7. DOMAIN finished = 1 .. scope.requests /\ \A id \in DOMAIN finished : finished[id] \in Nat /\ id \in Nat
  BY <1>1 DEF Scope
<1>8. ASSUME NEW id \in DOMAIN finished
      PROVE  finished'[id] \in Nat /\ finished'[id] <= 1 /\ (id >= nextId => finished'[id] = 0)
  <2>1. CASE more[id] = 0
    <3>1. finished'[id] = finished[id] + more[id] /\ finished[id] \in Nat
      BY <1>6, <1>7, <1>8
    <3>2. finished[id] <= 1 /\ (id >= nextId => finished[id] = 0)
      BY <1>2, <1>8
    <3>3. finished'[id] = finished[id]
      BY <2>1, <3>1
    <3> QED
      BY <3>1, <3>2, <3>3
  <2>2. CASE more[id] = 1
    <3>1. PICK t \in gone : t.id = id
      BY <1>5, <2>2
    <3>2. finished[id] = 0 /\ id < nextId /\ id \in Nat
      BY <1>2, <1>7, <3>1
    <3> QED
      BY <1>1, <1>6, <2>2, <3>2
  <2> QED
    BY <1>5, <2>1, <2>2
<1>9. finished' \in [1 .. scope.requests -> Nat]
  BY <1>4, <1>6, <1>7, <1>8
<1>10. ASSUME NEW t \in transfers, t \notin gone
       PROVE  t.id \in DOMAIN finished' /\ finished'[t.id] = 0
  <2>1. t.id \in DOMAIN finished /\ finished[t.id] = 0
    BY <1>2
  <2>2. more[t.id] # 1
    BY <1>2, <1>5, <1>10, <2>1
  <2> QED
    BY <1>5, <1>6, <2>1, <2>2
<1> QED
  BY <1>6, <1>8, <1>9, <1>10

LEMMA OnTransferredKeeps ==
  ASSUME IInv, posted # <<>>, posted' = Tail(posted), UNCHANGED <<scope, server>>,
         posted[1].type = "transferred", OnTransferred(posted[1])
  PROVE  IInv'
<1> DEFINE s == 1
           r == posted[1]
           mine == {t \in transfers : t.id = r.id}
           listed == r.good /\ \E t \in mine : t.upload
<1>1. Taken(s) /\ 1 \in DOMAIN posted /\ s = 1
  BY OneTaken
<1>2. /\ transfers' = transfers \ mine
      /\ finished' = [id \in DOMAIN finished |-> finished[id] + Cardinality({t \in mine : t.id = id})]
      /\ UNCHANGED <<operations, main, sshUp, side, sideUp>>
      /\ IF listed THEN List(path) ELSE UNCHANGED <<nextId, path, shown, listId, loading, cut, workers>>
  BY DEF OnTransferred, session
<1>3. /\ operations \subseteq [id : Nat, dir : Dirs]
      /\ transfers \subseteq [id : Nat, upload : BOOLEAN] /\ nextId \in Nat /\ scope \in Scope
      /\ finished \in [1 .. scope.requests -> Nat] /\ ShownFits /\ SessionFits
  BY DEF IInv, Typed
<1>4. ASSUME ~listed, NEW d \in Dirs, d = path
      PROVE  ~Changed(r, d, operations, Uploading)
  BY <1>4 DEF Changed, Uploading, Uploads
<1>5. Stays(s)
  <2>1. IsReport(r)
    BY DEF IsReport
  <2>2. \A t \in transfers : t.id # r.id => t \in transfers'
    BY <1>2
  <2> QED
    BY <1>2, <2>1, <2>2, OthersStay
<1>6. r.id \in PostedIds
  BY <1>1 DEF PostedIds, IsReport
<1>7. /\ \A t \in transfers : t.id # r.id => t \in transfers'
      /\ \A t \in transfers' : t \in transfers /\ t.id # r.id /\ t \notin mine
  BY <1>2
<1>8. listed \in BOOLEAN /\ mine \in SUBSET transfers
  <2>1. r \in ReportRecord
    BY OneTaken
  <2>2. r.good \in BOOLEAN
    BY <2>1 DEF ReportRecord
  <2> QED
    BY <2>2
<1> HIDE DEF s, mine, listed
<1>9. PICK taker, request :
        /\ Calls(taker, request, s) /\ request.type = "list"
        /\ Shows(s)
        /\ listId' = listId \/ \A id \in PostedIds : id # listId'
        /\ DOMAIN workers' = DOMAIN workers
        /\ nextId' \in Nat /\ nextId <= nextId'
        /\ listId' \in Nat /\ listId' < nextId' /\ loading' \in BOOLEAN /\ cut' \in BOOLEAN
        /\ path' \in Dirs \cup {None} /\ shown' \in Nat
  BY <1>1, <1>2, <1>4, <1>8, RelistCalls
<1>10. Knows(taker, request)
  <2>1. \A id \in Uploading : id \notin PostedIds => id \in Uploading'
    BY <1>6, <1>7 DEF Uploading, Uploads
  <2> QED
    BY <1>2, <1>9, <2>1 DEF Knows
<1>11. /\ finished' \in [1 .. scope.requests -> Nat]
       /\ \A id \in DOMAIN finished' : finished'[id] <= 1 /\ (id >= nextId => finished'[id] = 0)
       /\ \A t \in transfers : t \notin mine => t.id \in DOMAIN finished' /\ finished'[t.id] = 0
  BY <1>2, <1>8, EndsAreTold
<1>12. Views'
  BY <1>2, <1>3, <1>7, <1>9, <1>11 DEF Views
<1>13. ShownFits'
  <2>1. /\ \A t \in transfers : t.id \in Nat /\ t.id < nextId
        /\ \A o \in operations : o.id \in Nat /\ o.id < nextId
        /\ \A t, u \in transfers : t.id = u.id => t = u
    BY <1>3 DEF ShownFits
  <2>2. \A id \in DOMAIN finished' : id \in Nat
    BY <1>3, <1>11 DEF Scope
  <2>3. /\ \A t \in transfers' : t.id < nextId' /\ t.id \in DOMAIN finished' /\ finished'[t.id] = 0
        /\ \A t, u \in transfers' : t.id = u.id => t = u
    BY <1>3, <1>7, <1>9, <1>11, <2>1
  <2>4. \A id \in DOMAIN finished' : finished'[id] <= 1 /\ (id >= nextId' => finished'[id] = 0)
    BY <1>3, <1>9, <1>11, <2>2
  <2>5. \A o \in operations' : o.id < nextId'
    BY <1>2, <1>3, <1>9, <2>1
  <2> QED
    BY <2>3, <2>4, <2>5 DEF ShownFits
<1>14. s = 1 => r.type # "finished"
  OBVIOUS
<1>15. SessionFits'
  BY <1>2, <1>3, <1>9, <1>14, CallsSession DEF SessionFits
<1> QED
  BY <1>2, <1>5, <1>7, <1>9, <1>10, <1>12, <1>13, <1>14, <1>15, CallsKeep

LEMMA OnWorkerFinishedKeeps ==
  ASSUME IInv, posted # <<>>, posted' = Tail(posted), UNCHANGED <<scope, server>>,
         posted[1].type = "finished", OnWorkerFinished
  PROVE  IInv'
<1> DEFINE none == 0
           s == 1
           request == Request("cancel", 0, None, FALSE)
<1>1. /\ Taken(s) /\ 1 \in DOMAIN posted /\ none = 0 /\ s = 1
      /\ \A i \in DOMAIN posted' : i + 1 \in DOMAIN posted /\ posted'[i] = posted[i + 1] /\ i + 1 # 1
  BY OneTaken
<1>2. /\ main' = 0 /\ sshUp' = FALSE /\ side' = 0 /\ sideUp' = FALSE
      /\ workers' = IF side = 0 THEN workers ELSE [workers EXCEPT ![side].stop = TRUE]
      /\ loading' = FALSE /\ listId' = 0 /\ operations' = {} /\ transfers' = {} /\ cut' = TRUE
      /\ finished' = [id \in DOMAIN finished |-> finished[id] + Cardinality({t \in transfers : t.id = id})]
      /\ UNCHANGED <<nextId, path, shown>>
  BY DEF OnWorkerFinished, OnDisconnected
<1>3. /\ nextId \in Nat /\ nextId >= 1 /\ scope \in Scope /\ path \in Dirs \cup {None} /\ shown \in Nat
      /\ workers \in Seq(WorkerRecord) /\ SessionFits /\ Apart
  BY DEF IInv, Typed
<1> HIDE DEF none, s, request
<1>4. Calls(none, request, s) /\ DOMAIN workers' = DOMAIN workers /\ (side # 0 => workers'[side].stop)
  <2>1. CASE side = 0
    BY <1>1, <1>2, <2>1, SameCalls
  <2>2. CASE side # 0
    <3>1. side \in DOMAIN workers
      BY <1>3, <2>2 DEF SessionFits
    <3> QED
      BY <1>1, <1>2, <2>2, <3>1, StopCalls
  <2> QED
    BY <2>1, <2>2
<1>5. /\ finished' \in [1 .. scope.requests -> Nat]
      /\ \A id \in DOMAIN finished' : finished'[id] <= 1 /\ (id >= nextId => finished'[id] = 0)
  <2> DEFINE gone == transfers
  <2>1. finished' = [id \in DOMAIN finished |-> finished[id] + Cardinality({t \in gone : t.id = id})]
    BY <1>2
  <2>2. gone \in SUBSET transfers
    OBVIOUS
  <2> HIDE DEF gone
  <2> QED
    BY <2>1, <2>2, EndsAreTold
<1>6. Views'
  <2>1. listId' \in Nat /\ listId' < nextId'
    BY <1>2, <1>3
  <2>2. /\ path' \in Dirs \cup {None} /\ shown' \in Nat
        /\ operations' \subseteq [id : Nat, dir : Dirs] /\ transfers' \subseteq [id : Nat, upload : BOOLEAN]
    BY <1>2, <1>3
  <2>3. loading' \in BOOLEAN /\ cut' \in BOOLEAN
    BY <1>2
  <2>4. finished' \in [1 .. scope'.requests -> Nat]
    BY <1>5
  <2> QED
    BY <2>1, <2>2, <2>3, <2>4 DEF Views
<1>7. ShownFits'
  BY <1>2, <1>5 DEF ShownFits
<1>8. NoneIsForgotten'
  BY <1>2 DEF NoneIsForgotten
<1>9. \A v \in DOMAIN workers : v # 0
  BY <1>3
<1>10. ASSUME NEW v \in DOMAIN workers', workers'[v].phase # "over"
       PROVE  workers'[v].kind = "side" /\ workers'[v].stop
  <2>1. /\ v \in DOMAIN workers /\ workers'[v].kind = workers[v].kind /\ workers'[v].phase = workers[v].phase
        /\ workers[v].stop => workers'[v].stop
    BY <1>4 DEF Calls
  <2>2. main # 0 /\ workers[main].phase = "over"
    BY <1>1, <1>3 DEF SessionFits
  <2>3. workers[v].kind = "side"
    BY <1>3, <1>10, <2>1, <2>2 DEF SessionFits
  <2>4. workers[v].stop \/ v = side
    BY <1>3, <1>10, <2>1, <2>3 DEF SessionFits
  <2> QED
    BY <1>4, <1>9, <2>1, <2>3, <2>4
<1>11. SessionFits'
  <2>1. \A i \in DOMAIN posted' : posted'[i].type # "finished"
    BY <1>1, <1>3 DEF SessionFits
  <2>2. \A v \in DOMAIN workers' : workers'[v].phase # "over" =>
          /\ workers'[v].kind # "side" => v = main'
          /\ workers'[v].kind = "side" /\ ~workers'[v].stop => v = side'
    BY <1>10
  <2> QED
    BY <1>2, <2>1, <2>2 DEF SessionFits
<1>12. FreshFits'
  <2>1. \A i \in DOMAIN posted' : posted'[i].type = "listed" => posted'[i].id # listId'
    <3>1. SUFFICES ASSUME NEW i \in DOMAIN posted', posted'[i].type = "listed"
                   PROVE  posted'[i].id # 0
      BY <1>2
    <3>2. posted'[i].id \in PostedIds
      BY <1>1, <3>1 DEF PostedIds, IsReport
    <3> QED
      BY <1>3, <3>2 DEF Apart
  <2>2. \A v \in DOMAIN workers' : workers'[v].phase # "over" /\ ~workers'[v].stop => Known(v)'
    BY <1>10
  <2> QED
    BY <1>2, <2>1, <2>2 DEF FreshFits
<1> QED
  BY <1>4, <1>6, <1>7, <1>8, <1>11, <1>12, CallsFits

LEMMA DeliverKeeps ==
  ASSUME IInv, Deliver
  PROVE  IInv'
<1>1. posted # <<>> /\ posted' = Tail(posted) /\ UNCHANGED <<scope, server>>
  BY DEF Deliver
<1>2. Head(posted) = posted[1]
  BY <1>1, OneTaken
<1>3. \/ posted[1].type = "listed" /\ OnListed(posted[1])
      \/ posted[1].type = "done" /\ OnDone(posted[1])
      \/ posted[1].type = "transferred" /\ OnTransferred(posted[1])
      \/ posted[1].type = "finished" /\ OnWorkerFinished
      \/ posted[1].type = "sshClosed" /\ OnSshClosed
      \/ posted[1].type = "sideFinished" /\ OnSideWorkerFinished
  BY <1>2 DEF Deliver
<1>4. CASE posted[1].type = "listed" /\ OnListed(posted[1])
  BY <1>1, <1>4, OnListedKeeps
<1>5. CASE posted[1].type = "done" /\ OnDone(posted[1])
  BY <1>1, <1>5, OnDoneKeeps
<1>6. CASE posted[1].type = "transferred" /\ OnTransferred(posted[1])
  BY <1>1, <1>6, OnTransferredKeeps
<1>7. CASE posted[1].type = "finished" /\ OnWorkerFinished
  BY <1>1, <1>7, OnWorkerFinishedKeeps
<1>8. CASE posted[1].type = "sshClosed" /\ OnSshClosed
  BY <1>1, <1>8, OnSshClosedKeeps
<1>9. CASE posted[1].type = "sideFinished" /\ OnSideWorkerFinished
  BY <1>1, <1>9, OnSideWorkerFinishedKeeps
<1> QED
  BY <1>3, <1>4, <1>5, <1>6, <1>7, <1>8, <1>9

-----------------------------------------------------------------------------
(* The whole *)

LEMMA Starts == Init => IInv
<1> SUFFICES ASSUME Init
             PROVE  IInv
  OBVIOUS
<1>1. scope \in Scope /\ scope.requests \in Nat
  BY FilesAssumption DEF Init, Scope
<1>2. /\ nextId = 1 /\ path = None /\ shown = 0 /\ listId = 0 /\ loading = FALSE
      /\ operations = {} /\ transfers = {} /\ main = 0 /\ sshUp = FALSE /\ side = 0 /\ sideUp = FALSE
      /\ workers = <<>> /\ posted = <<>> /\ changes = [d \in Dirs |-> 0] /\ due = changes
      /\ files = {} /\ right = {}
      /\ told = [i \in 1 .. scope.requests |-> 0] /\ finished = told /\ cut = FALSE
  BY DEF Init
<1>3. DOMAIN workers = {} /\ DOMAIN posted = {} /\ workers \in Seq(WorkerRecord) /\ posted \in Seq(ReportRecord)
  BY <1>2
<1>4. told \in [1 .. scope.requests -> Nat] /\ \A id \in DOMAIN told : told[id] = 0
  BY <1>2
<1>5. Typed
  <2>1. loading \in BOOLEAN /\ cut \in BOOLEAN
    BY <1>2
  <2>2. nextId \in Nat /\ nextId >= 1 /\ listId \in Nat /\ listId < nextId /\ shown \in Nat
        /\ path \in Dirs \cup {None}
    BY <1>2
  <2>3. operations \subseteq [id : Nat, dir : Dirs] /\ transfers \subseteq [id : Nat, upload : BOOLEAN] /\ files \subseteq File
    BY <1>2
  <2>4. /\ changes \in [Dirs -> Nat] /\ due \in [Dirs -> Nat] /\ \A d \in Dirs : due[d] <= changes[d]
        /\ told \in [1 .. scope.requests -> Nat] /\ finished \in [1 .. scope.requests -> Nat]
    BY <1>2, <1>4
  <2> QED
    BY <1>1, <1>3, <2>1, <2>2, <2>3, <2>4 DEF Typed
<1>6. SessionFits
  BY <1>2, <1>3 DEF SessionFits
<1>7. PostedIds = {}
  BY <1>3 DEF PostedIds
<1>8. Apart
  BY <1>3, <1>7 DEF Apart
<1>9. ToldFits
  BY <1>3, <1>4 DEF ToldFits
<1>10. ShownFits
  BY <1>2, <1>4 DEF ShownFits
<1>11. HalvesFit
  BY <1>2 DEF HalvesFit
<1>12. NoneIsForgotten
  BY <1>2 DEF NoneIsForgotten
<1>13. FreshFits
  BY <1>2, <1>3 DEF FreshFits
<1> QED
  BY <1>5, <1>6, <1>8, <1>9, <1>10, <1>11, <1>12, <1>13 DEF IInv

LEMMA NextKeeps == IInv /\ [Next]_vars => IInv'
<1> SUFFICES ASSUME IInv, [Next]_vars
             PROVE  IInv'
  OBVIOUS
<1>1. ASSUME NEW d \in Dirs \cup {None}, Open(d)
      PROVE  IInv'
  BY <1>1, OpenKeeps
<1>2. CASE Operate
  BY <1>2, OperateKeeps
<1>3. CASE Download
  <2> DEFINE type == "download"
             overwrite == FALSE
  <2>1. Transfer(type, Home, overwrite) /\ type \in {"download", "upload"} /\ overwrite \in BOOLEAN
    BY <1>3 DEF Download
  <2> HIDE DEF type, overwrite
  <2> QED
    BY <2>1, HomeIs, TransferKeeps
<1>4. CASE Upload
  <2> DEFINE type == "upload"
  <2>1. PICK overwrite \in scope.overwrites : Transfer(type, Home, overwrite)
    BY <1>4 DEF Upload
  <2>2. type \in {"download", "upload"} /\ overwrite \in BOOLEAN
    BY DEF IInv, Typed, Scope
  <2> HIDE DEF type
  <2> QED
    BY <2>1, <2>2, HomeIs, TransferKeeps
<1>5. ASSUME NEW id \in 0 .. scope.requests, Cancel(id)
      PROVE  IInv'
  BY <1>5, CancelKeeps
<1>6. ASSUME NEW w \in DOMAIN workers, Pass(w) \/ SshCloses(w) \/ RefuseAll(w) \/ ThreadEnds(w) \/ Grows(w)
      PROVE  IInv'
  BY <1>6, PassKeeps, SshClosesKeeps, RefuseAllKeeps, ThreadEndsKeeps, GrowsKeeps
<1>7. CASE Connect
  BY <1>7, ConnectKeeps
<1>8. CASE SideConnects
  BY <1>8, SideConnectsKeeps
<1>9. CASE Disconnect
  BY <1>9, DisconnectKeeps
<1>10. CASE Deliver
  BY <1>10, DeliverKeeps
<1>11. CASE UNCHANGED vars
  <2> DEFINE none == 0
             s == 0
             request == Request("cancel", 0, None, FALSE)
  <2>1. UNCHANGED <<scope, nextId, path, shown, listId, loading, operations, cut, transfers, finished,
                    main, sshUp, side, sideUp, workers, posted, server>>
    BY <1>11 DEF vars, view, list, session
  <2>2. none = 0 /\ s = 0 /\ Taken(s) /\ Shows(s) /\ Stays(s)
    BY <2>1, NoneTaken, NothingTaken, SameShown DEF Uploading, Uploads
  <2> HIDE DEF none, s, request
  <2>3. Calls(none, request, s)
    BY <2>1, <2>2, SameCalls
  <2>4. Views' /\ ShownFits' /\ Knows(none, request)
    BY <2>1, <2>2, SameView
  <2>5. SessionFits'
    <3>1. SessionFits
      BY DEF IInv
    <3> QED
      BY <2>1, <2>2, <2>3, <3>1, CallsSession DEF SessionFits
  <2> QED
    BY <2>1, <2>2, <2>3, <2>4, <2>5, CallsKeep
<1> QED
  BY <1>1, <1>2, <1>3, <1>4, <1>5, <1>6, <1>7, <1>8, <1>9, <1>10, <1>11 DEF Next

\* IInv is inductive.
THEOREM Invariance == Spec => []IInv
<1>1. Init => IInv
  BY Starts
<1>2. IInv /\ [Next]_vars => IInv'
  BY NextKeeps
<1> QED
  BY <1>1, <1>2, PTL DEF Spec

-----------------------------------------------------------------------------
(* What follows *)

\* A download is saved only whole, and a transfer reported as done has left only
\* whole files, whatever the answers were, unless the file grew under the copy
\* (sftpengine.cpp, serviceDownload(), serviceUpload(), closeItem()).
THEOREM WholeFiles == Spec => []FilesAreWhole
<1>1. ASSUME IInv, NEW f \in files, ~f.late, (~f.upload /\ f.is # f.before) \/ f.id \in right
      PROVE  Whole(f)
  <2>1. SUFFICES ASSUME ~Whole(f)
                 PROVE  FALSE
    OBVIOUS
  <2>2. Half(f)
    BY <1>1, <2>1 DEF Half
  <2>3. FileFits(f) /\ f.id \notin right
    BY <1>1, <2>2 DEF IInv, HalvesFit
  <2> QED
    BY <1>1, <2>2, <2>3 DEF FileFits
<1>2. IInv => FilesAreWhole
  BY <1>1 DEF FilesAreWhole
<1> QED
  BY <1>2, Invariance, PTL

\* A transfer that does not get to the end leaves what was there before, unless it
\* was to replace a file, no connection is there to remove what it wrote, or the
\* server does not remove it (sftpengine.cpp, closeItem()).
THEOREM NothingHalf == Spec => []NothingHalfIsLeft
<1>1. ASSUME IInv, NEW f \in files
      PROVE  f.late \/ Whole(f) \/ f.is = f.before \/ (f.upload /\ (f.overwrite \/ ~f.removable))
  BY <1>1 DEF IInv, HalvesFit, FileFits, Half
<1>2. IInv => NothingHalfIsLeft
  BY <1>1 DEF NothingHalfIsLeft
<1> QED
  BY <1>2, Invariance, PTL

\* The engine reports the end of a transfer once, when it no longer has it, and
\* the browser tells of it once (sftpengine.cpp, finishTransfer(), failAll();
\* sftpbrowser.cpp, onTransferred(), onDisconnected()).
THEOREM OneEnd == Spec => []EndsOnce
<1>1. ASSUME IInv, NEW id \in DOMAIN told
      PROVE  told[id] <= 1 /\ finished[id] <= 1 /\ (told[id] = 1 => ~InEngine(id))
  <2>1. /\ told \in [1 .. scope.requests -> Nat] /\ finished \in [1 .. scope.requests -> Nat]
        /\ workers \in Seq(WorkerRecord) /\ ToldFits /\ ShownFits
    BY <1>1 DEF IInv, Typed
  <2>2. told[id] \in Nat /\ id \in DOMAIN finished
    BY <1>1, <2>1
  <2>3. told[id] > 0 => told[id] = 1 /\ \A w \in DOMAIN workers : id \notin EngineIds(w)
    BY <1>1, <2>1 DEF ToldFits
  <2>4. finished[id] <= 1
    BY <2>1, <2>2 DEF ShownFits
  <2>5. \A w \in DOMAIN workers : DOMAIN workers[w].transfers = 1 .. Len(workers[w].transfers)
    <3>1. SUFFICES ASSUME NEW w \in DOMAIN workers
                   PROVE  DOMAIN workers[w].transfers = 1 .. Len(workers[w].transfers)
      OBVIOUS
    <3>2. workers[w] \in WorkerRecord
      BY <2>1
    <3> QED
      BY <3>2 DEF WorkerRecord
  <2>6. InEngine(id) => \E w \in DOMAIN workers : id \in EngineIds(w)
    BY <2>5 DEF InEngine, EngineIds, Ids
  <2> QED
    BY <2>2, <2>3, <2>4, <2>6
<1>2. IInv => EndsOnce
  BY <1>1 DEF EndsOnce
<1> QED
  BY <1>2, Invariance, PTL

\* Once nothing is under way the listing shown has every change and upload that
\* was reported as done in its folder, unless the last listing had an error or the
\* connection was lost (sftpbrowser.cpp, onListed(), onDone(), onTransferred()).
THEOREM FreshList == Spec => []FreshWhenQuiet
<1>1. ASSUME IInv, Quiet, path # None, ~cut
      PROVE  shown >= due[path]
  <2>1. posted = <<>> /\ ~loading /\ DOMAIN posted = {}
    BY <1>1 DEF Quiet
  <2>2. ~Ending
    BY <2>1 DEF Ending
  <2> QED
    BY <1>1, <2>1, <2>2 DEF IInv, FreshFits
<1>2. IInv => FreshWhenQuiet
  BY <1>1 DEF FreshWhenQuiet
<1> QED
  BY <1>2, Invariance, PTL

\* A report of the end of each transfer shown is still to come, but of one that
\* a side worker left behind (sftpbrowser.cpp, onDisconnected(); sshsession.cpp,
\* onSideWorkerFinished()).
THEOREM NoneForgotten == Spec => []NoneIsForgotten
<1>1. IInv => NoneIsForgotten
  BY DEF IInv
<1> QED
  BY <1>1, Invariance, PTL
=============================================================================
