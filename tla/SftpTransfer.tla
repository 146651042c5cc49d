---------------------------- MODULE SftpTransfer ----------------------------
(***************************************************************************)
(* One transfer of the SFTP engine (sftpengine.cpp), as operators on its   *)
(* record: what a pass of the worker's loop does with it, given what the   *)
(* server has answered by then.  A file is the sequence of its blocks, and *)
(* block i of what is copied is the number i, so a copy that lost, doubled *)
(* or misplaced a block shows it.                                          *)
(***************************************************************************)
EXTENDS Integers, SequencesExt

CONSTANTS
    ChunkSize,      \* blocks asked for at once
    MaxInFlight,    \* requests without an answer at a time
    ServerLimit     \* blocks the server takes in one write

ASSUME TransferAssumption ==
    /\ ChunkSize \in Nat \ {0} /\ MaxInFlight \in Nat \ {0}
    /\ ServerLimit \in 1..ChunkSize

\* What of a pass fails, if anything: a pass meets one fault at most
Faults == {"none", "prepare", "open", "local", "ask", "save", "close"}

\* The answer to a read or a write that failed
Failed == -1

\* No file, and a file that was there before the transfer, by a block that is
\* in no source
Absent == <<-2>>
Old == <<-1>>

NewTransfer(request) ==
    [id |-> request.id, dir |-> request.dir, upload |-> request.type = "upload", overwrite |-> request.overwrite,
     prepared |-> FALSE, items |-> 0, open |-> FALSE, source |-> 0, begun |-> 0, before |-> Absent,
     copy |-> <<>>, late |-> FALSE, requested |-> 0, pending |-> <<>>, eof |-> FALSE, restart |-> FALSE,
     error |-> FALSE, cancelled |-> FALSE, made |-> {}]

Stopping(t) == t.cancelled \/ t.error

\* What a loop makes of a value, with Step(value, k) its k-th round
Repeated(Step(_, _), start, n) ==
    LET run[k \in 0..n] == IF k = 0 THEN start ELSE Step(run[k - 1], k)
    IN run[n]

\* What a pass meets is a record, luck: its fault, the answers that have come,
\* whether the transfer is of a folder and how many files it has, for a file
\* that is opened its length and what was in its place, and whether the server
\* removes what it is told to

Prepare(t, luck) ==
    IF luck.fault = "prepare" THEN [t EXCEPT !.prepared = TRUE, !.error = TRUE]
                              ELSE [t EXCEPT !.prepared = TRUE, !.items = luck.items]

\* An upload creates the file, and fails on one that is there unless it replaces it
OpenFails(t, luck) ==
    luck.fault = "open" \/ (t.upload /\ ~t.overwrite /\ luck.before = Old)

\* "local" is the phone's file: of an upload it is opened first
OpenItem(t, luck) ==
    IF OpenFails(t, luck) \/ (luck.fault = "local" /\ t.upload)
    THEN [t EXCEPT !.error = TRUE]
    ELSE [t EXCEPT !.open = TRUE, !.source = luck.source, !.begun = luck.source, !.before = luck.before,
                   !.copy = <<>>, !.late = FALSE, !.requested = 0, !.eof = FALSE, !.restart = FALSE,
                   !.error = luck.fault = "local"]

---------------------------------------------------------------------------
(* Downloads *)

Blocks(from, n) == [i \in 1..n |-> from + i]

\* An answer is of its whole request, short, at the end of the file, or an error
ReadAnswers(t, ask) ==
    {Failed} \cup (IF ask.at < t.source THEN 1..(IF ask.length < t.source - ask.at
                                                 THEN ask.length ELSE t.source - ask.at)
                                        ELSE {0})

\* Bug: a short answer is taken for the end of its request
NeverShort(n, ask) == FALSE

\* A short answer leaves a gap before the next ones, so they are dropped
IsShort(n, ask) == n < ask.length

Dropped(t) == t.restart \/ Stopping(t)

TakeRead(t, n, savingFails) ==
    LET ask == Head(t.pending)
        u == [t EXCEPT !.pending = Tail(t.pending)]
    IN IF Dropped(t) THEN u
       ELSE IF n = Failed \/ (n > 0 /\ savingFails) THEN [u EXCEPT !.error = TRUE]
       ELSE IF n = 0 THEN [u EXCEPT !.eof = TRUE]
       ELSE [u EXCEPT !.copy = @ \o Blocks(ask.at, n), !.restart = IsShort(n, ask)]

TakeReads(t, answers, savingFails) ==
    LET Take(u, k) == TakeRead(u, answers[k], savingFails)
    IN Repeated(Take, t, Len(answers))

\* From where the copy ends, once every request in flight has come back
Restarted(t) ==
    IF t.restart /\ t.pending = <<>>
    THEN [t EXCEPT !.restart = FALSE, !.requested = Len(t.copy)]
    ELSE t

MayAsk(t) == ~t.eof /\ ~t.restart /\ ~Stopping(t)

Asked(t, askingFails) ==
    IF ~MayAsk(t) THEN t
    ELSE IF askingFails THEN [t EXCEPT !.error = TRUE]
    ELSE LET more == MaxInFlight - Len(t.pending)
         IN [t EXCEPT !.pending = @ \o [i \in 1..more |->
                          [at |-> t.requested + (i - 1) * ChunkSize, length |-> ChunkSize]],
                      !.requested = @ + more * ChunkSize]

ServiceDownload(t, luck) ==
    Asked(Restarted(TakeReads(t, luck.answers, luck.fault = "save")), luck.fault = "ask")

---------------------------------------------------------------------------
(* Uploads *)

WriteAnswers(ask) == {Failed, ask.length}

\* The server has written the blocks, whatever became of the transfer since
TakeWrite(t, n) ==
    LET ask == Head(t.pending)
        u == [t EXCEPT !.pending = Tail(t.pending)]
    IN IF n = Failed THEN [u EXCEPT !.error = TRUE]
                     ELSE [u EXCEPT !.copy = @ \o Blocks(ask.at, n)]

TakeWrites(t, answers) ==
    LET Take(u, k) == TakeWrite(u, answers[k])
    IN Repeated(Take, t, Len(answers))

\* Goes back over what the server did not take
Sought(position, n, taken) == position - (n - taken)

\* Reads a chunk of the phone's file, and writes what the server takes of it
WriteMore(t) ==
    LET left == t.source - t.requested
        n == IF left < ChunkSize THEN left ELSE ChunkSize
        taken == IF n < ServerLimit THEN n ELSE ServerLimit
    IN IF ~MayAsk(t) \/ Len(t.pending) >= MaxInFlight THEN t
       ELSE IF n <= 0 THEN [t EXCEPT !.eof = TRUE]
       ELSE [t EXCEPT !.pending = Append(@, [at |-> t.requested, length |-> taken]),
                      !.requested = Sought(@ + n, n, taken)]

WriteChunks(t) ==
    LET More(u, k) == WriteMore(u)
    IN Repeated(More, t, MaxInFlight)

ServiceUpload(t, luck) ==
    LET written == TakeWrites(t, luck.answers)
    IN IF luck.fault = "ask" /\ MayAsk(written) THEN [written EXCEPT !.error = TRUE]
                                                ELSE WriteChunks(written)

---------------------------------------------------------------------------
(* The end of a file, and of the transfer *)

\* Bug: a cancelled upload is no failed one
UnlinksFailed(t, failed, removable) == t.error /\ t.upload /\ ~t.overwrite /\ removable

\* Half an upload is no use, unless it replaced a file which is gone either way.
\* It can only be removed with a connection, and the server may refuse to, which
\* nobody looks at
Unlinks(t, failed, removable) == failed /\ t.upload /\ ~t.overwrite /\ removable

\* A download is kept when its file is complete, and then takes the place of
\* what was there; the server has an upload as far as it was written
FileNow(t, failed, removable) ==
    IF t.upload
    THEN IF Unlinks(t, failed, removable) THEN Absent ELSE t.copy
    ELSE IF failed THEN t.before ELSE t.copy

\* The fault is the server refusing the close, or the phone the commit
CloseItem(t, fault, removable) ==
    IF ~t.open THEN t
    ELSE LET error == t.error \/ fault = "close"
             file == [id |-> t.id, item |-> t.items, begun |-> t.begun, late |-> t.late, before |-> t.before,
                      is |-> FileNow(t, error \/ t.cancelled, removable),
                      removable |-> removable, upload |-> t.upload, overwrite |-> t.overwrite]
         IN [t EXCEPT !.open = FALSE, !.pending = <<>>, !.items = @ - 1, !.error = error,
                      !.made = @ \cup {file}]

ItemDone(t) == t.open /\ t.pending = <<>> /\ (t.eof \/ Stopping(t))

ServiceItem(t, luck) ==
    LET served == IF t.upload THEN ServiceUpload(t, luck) ELSE ServiceDownload(t, luck)
    IN IF ItemDone(served) THEN CloseItem(served, luck.fault, luck.removes) ELSE served

\* One call of serviceTransfer()
ServiceTransfer(t, luck) ==
    LET prepared == IF ~t.prepared /\ ~t.cancelled THEN Prepare(t, luck) ELSE t
        opened == IF ~prepared.open /\ ~Stopping(prepared) /\ prepared.items > 0
                  THEN OpenItem(prepared, luck) ELSE prepared
    IN IF opened.open THEN ServiceItem(opened, luck) ELSE opened

\* After a pass: all files are done, or it stopped with none open
Finished(t) == ~t.open /\ (t.items = 0 \/ Stopping(t))

\* What a pass that made u of an upload did on the server: it made the folder,
\* created or replaced a file, or finished or removed one
Touches(t, u, luck) ==
    /\ u.upload
    /\ \/ u.open # t.open \/ u.made # {}
       \/ u.prepared # t.prepared /\ luck.folder /\ luck.fault # "prepare"

=============================================================================
