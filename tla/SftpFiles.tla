------------------------------ MODULE SftpFiles ------------------------------
(***************************************************************************)
(* Files on the server: the browser (sftpbrowser.cpp) that keeps what the  *)
(* user sees, the session that hands its requests to the worker with an    *)
(* SSH connection (sshsession.cpp), and the SFTP engine of each worker     *)
(* (sftpengine.cpp), whose reports come back through the event queue of    *)
(* the GUI thread.  Workers are numbered as they come: the main worker of  *)
(* a session, alone or with mosh, and the side workers under mosh.         *)
(***************************************************************************)
EXTENDS SftpTransfer, FiniteSets

CONSTANTS
    Scopes,             \* the instances to check, see Scope
    Dirs                \* the folders of the server

None == "none"

\* The bounds of an instance, and what may happen in it
Scope ==
    [requests: Nat, kinds: SUBSET {"list", "operate", "download", "upload"},
     overwrites: SUBSET BOOLEAN, cancels: Nat, workers: Nat, items: Nat,
     folders: SUBSET BOOLEAN, sources: SUBSET Nat, faults: SUBSET Faults]

ASSUME FilesAssumption ==
    /\ IsFiniteSet(Dirs) /\ Dirs # {} /\ None \notin Dirs
    /\ Scopes \subseteq Scope

\* The folder an empty path stands for
Home == CHOOSE d \in Dirs : TRUE


VARIABLES
    scope,      \* the bounds of this behaviour, one of Scopes
    nextId,     \* m_nextId
    path,       \* m_path, the folder shown
    shown,      \* m_entries: how many changes of its folder they include
    listId,     \* m_listId
    loading,    \* m_loading
    operations, \* m_operations
    transfers,  \* m_transfers
    main,       \* m_worker, 0 for none
    sshUp,      \* m_sshUp
    side,       \* m_sideWorker
    sideUp,     \* m_sideUp
    workers,    \* by number: kind, phase, stop, inbox (m_sftpRequests), transfers (the engine's)
    posted,     \* the event queue of the GUI thread
    changes,    \* by folder, how much was done in it
    due,        \* by folder, what of it the last change reported as done includes
    files,      \* the files transfers are done with
    told,       \* by id, how often the engine reported the transfer
    right,      \* the transfers it reported as done
    finished,   \* by id, how often transferFinished() was emitted
    cut,        \* the listing shown could not be brought up to date
    cancels     \* the cancels so far

view == <<nextId, path, shown, listId, loading, operations, cut>>
list == <<transfers, finished>>
session == <<main, sshUp, side, sideUp>>
server == <<changes, due, files, told, right>>
vars == <<scope, view, list, session, workers, posted, server, cancels>>

Init ==
    /\ scope \in Scopes
    /\ nextId = 1 /\ path = None /\ shown = 0 /\ listId = 0 /\ loading = FALSE
    /\ operations = {} /\ transfers = {}
    /\ main = 0 /\ sshUp = FALSE /\ side = 0 /\ sideUp = FALSE
    /\ workers = <<>> /\ posted = <<>>
    /\ changes = [d \in Dirs |-> 0] /\ due = changes
    /\ files = {} /\ right = {}
    /\ told = [i \in 1..scope.requests |-> 0] /\ finished = told
    /\ cut = FALSE /\ cancels = 0

---------------------------------------------------------------------------
(* The worker a request goes to *)

\* sendSftp(): 0 when not connected
Taker == IF main # 0 /\ sshUp THEN main
         ELSE IF side # 0 /\ sideUp THEN side ELSE 0

Request(type, id, dir, overwrite) ==
    [type |-> type, id |-> id, dir |-> dir, overwrite |-> overwrite]

Handed(request) ==
    IF Taker = 0 THEN workers ELSE [workers EXCEPT ![Taker].inbox = Append(@, request)]

\* Takes an id even when it goes nowhere
Send(type, dir, overwrite) ==
    /\ nextId' = nextId + 1
    /\ workers' = Handed(Request(type, nextId, dir, overwrite))

MayAskFor(type) == nextId <= scope.requests /\ type \in scope.kinds

---------------------------------------------------------------------------
(* The browser: what the user asks *)

\* open(), up() and refresh()
List(d) ==
    /\ Send("list", d, FALSE)
    /\ listId' = IF Taker # 0 THEN nextId ELSE 0
    /\ loading' = (Taker # 0)
    /\ cut' = (cut \/ Taker = 0)
    /\ UNCHANGED <<path, shown>>

Open(d) ==
    /\ MayAskFor("list")
    /\ List(d)
    /\ UNCHANGED <<scope, operations, list, session, posted, server, cancels>>

\* makeDirectory(), remove() and rename(), in the folder shown: the page offers
\* them once there is one
Operate ==
    /\ MayAskFor("operate") /\ path # None
    /\ Send("operate", path, FALSE)
    /\ operations' = operations \cup IF Taker # 0 THEN {[id |-> nextId, dir |-> path]} ELSE {}
    /\ UNCHANGED <<scope, path, shown, listId, loading, cut, list, session, posted, server, cancels>>

Transfer(type, d, overwrite) ==
    /\ MayAskFor(type)
    /\ Send(type, d, overwrite)
    /\ transfers' = transfers \cup
           IF Taker # 0 THEN {[id |-> nextId, upload |-> type = "upload"]} ELSE {}
    /\ UNCHANGED <<scope, path, shown, listId, loading, operations, cut, finished,
                   session, posted, server, cancels>>

Download == Transfer("download", Home, FALSE)

Upload == \E overwrite \in scope.overwrites : Transfer("upload", Home, overwrite)

\* One of those shown, or 0 for all of them; goes to the worker that takes
\* requests by now
Cancel(id) ==
    /\ \E t \in transfers : id \in {0, t.id}
    /\ cancels < scope.cancels
    /\ cancels' = cancels + 1
    /\ workers' = Handed(Request("cancel", id, None, FALSE))
    /\ UNCHANGED <<scope, view, list, session, posted, server>>

---------------------------------------------------------------------------
(* The engine of a worker *)

Report(type, id, dir, good, seen) ==
    [type |-> type, id |-> id, dir |-> dir, good |-> good, seen |-> seen]

Names(request, t) == request.id \in {0, t.id}

\* Of the transfers a cancel names only the first has started, the rest just go
CancelAt(engine, request, i) ==
    IF ~Names(request, engine.transfers[i]) THEN engine
    ELSE IF i = 1 THEN [engine EXCEPT !.transfers[1].cancelled = TRUE]
    ELSE [engine EXCEPT !.transfers = RemoveAt(@, i),
                        !.out = Append(@, Report("transferred", engine.transfers[i].id, None, FALSE, 0))]

RunCancel(engine, request) ==
    LET n == Len(engine.transfers)
        FromTheLast(e, k) == CancelAt(e, request, n - k + 1)
    IN Repeated(FromTheLast, engine, n)

OneMore(counts, d) == [counts EXCEPT ![d] = @ + 1]

\* What a listing that fails before its first entry includes
NoEntries == -1

\* One request; the server refuses it, or it ends a listing with an error
Outcomes == {"done", "refused", "partly"}

Run(engine, request, outcome) ==
    LET d == IF request.dir = None THEN Home ELSE request.dir IN
    CASE request.type = "cancel" -> RunCancel(engine, request)
      [] request.type \in {"download", "upload"} ->
             [engine EXCEPT !.transfers = Append(@, NewTransfer(request))]
      [] request.type = "list" ->
             [engine EXCEPT !.out = Append(@, Report("listed", request.id, d, outcome = "done",
                                                     IF outcome = "refused" THEN NoEntries
                                                     ELSE engine.changes[d]))]
      [] request.type = "operate" ->
             LET good == outcome = "done" IN
             [engine EXCEPT !.changes = IF good THEN OneMore(@, d) ELSE @,
                            !.due[d] = IF good THEN engine.changes[d] + 1 ELSE @,
                            !.out = Append(@, Report("done", request.id, d, good, 0))]

RunAll(engine, requests, outcomes) ==
    LET RunNext(e, k) == Run(e, requests[k], outcomes[k])
    IN Repeated(RunNext, engine, Len(requests))

\* The first transfer ends: it is reported once, and gone.  An upload that is
\* still open changes its folder once more
Finish(engine, t, fault, removable) ==
    LET closed == CloseItem(t, fault, removable)
        good == ~Stopping(closed)
        now == IF t.open /\ t.upload THEN OneMore(engine.changes, t.dir) ELSE engine.changes
    IN [engine EXCEPT
          !.transfers = Tail(@),
          !.files = @ \cup closed.made,
          !.changes = now,
          !.due = IF good /\ t.upload THEN [@ EXCEPT ![t.dir] = now[t.dir]] ELSE @,
          !.out = Append(@, Report("transferred", t.id, None, good, 0))]

Touched(engine, t, luck) ==
    IF Touches(Head(engine.transfers), t, luck)
    THEN [engine EXCEPT !.changes = OneMore(@, t.dir)] ELSE engine

ServiceFirst(engine, luck) ==
    LET t == ServiceTransfer(Head(engine.transfers), luck)
        touched == Touched(engine, t, luck)
    IN IF Finished(t) THEN Finish(touched, t, "none", TRUE)
       ELSE [touched EXCEPT !.transfers = <<[t EXCEPT !.made = {}]>> \o Tail(@),
                            !.files = @ \cup t.made]

\* failAll(): first the requests, then the transfers, in order
FailRequest(engine, request) ==
    CASE request.type = "cancel" -> engine
      [] request.type = "list" ->
             [engine EXCEPT !.out = Append(@, Report("listed", request.id, request.dir, FALSE, NoEntries))]
      [] request.type = "operate" ->
             [engine EXCEPT !.out = Append(@, Report("done", request.id, request.dir, FALSE, 0))]
      [] OTHER ->
             [engine EXCEPT !.out = Append(@, Report("transferred", request.id, None, FALSE, 0))]

FailRequests(engine, requests) ==
    LET Fail(e, k) == FailRequest(e, requests[k])
    IN Repeated(Fail, engine, Len(requests))

WithError(t) == [t EXCEPT !.error = TRUE]

FailTransfers(engine, removable) ==
    LET Fail(e, k) == Finish(e, WithError(Head(e.transfers)), "none", removable)
    IN Repeated(Fail, engine, Len(engine.transfers))

\* Bug: the requests not run yet are dropped
FailStarted(engine, requests, removable) == FailTransfers(engine, removable)

FailAll(engine, requests, removable) == FailTransfers(FailRequests(engine, requests), removable)

Engine(w) ==
    [transfers |-> workers[w].transfers, out |-> <<>>, changes |-> changes, due |-> due, files |-> files]

ToldIn(out, id) == Cardinality({i \in DOMAIN out : out[i].type = "transferred" /\ out[i].id = id})

\* What an engine did in a pass: its reports are queued for the GUI thread,
\* with what the worker adds
Effect(engine, more) ==
    /\ posted' = posted \o engine.out \o more
    /\ changes' = engine.changes /\ due' = engine.due /\ files' = engine.files
    /\ told' = [id \in DOMAIN told |-> told[id] + ToldIn(engine.out, id)]
    /\ right' = right \cup {r.id : r \in {s \in ToSet(engine.out) : s.type = "transferred" /\ s.good}}

---------------------------------------------------------------------------
(* The worker's loop *)

Signal(type) == Report(type, 0, None, TRUE, 0)

\* The answers that may have come to the requests in flight
Answers(t) ==
    UNION {{a \in [1..k -> {Failed} \cup 0..ChunkSize] :
               \A i \in 1..k : a[i] \in IF t.upload THEN WriteAnswers(t.pending[i])
                                                    ELSE ReadAnswers(t, t.pending[i])} :
           k \in 0..Len(t.pending)}

MayFail(t, luck) == Stopping(t) \/ luck.fault # "none" \/ Failed \in ToSet(luck.answers)

\* Only a folder has none or several files, and only what may fail is removed
Lucks(t) ==
    {luck \in
       [fault: scope.faults, answers: Answers(t),
        folder: IF t.prepared THEN {FALSE} ELSE scope.folders,
        items: IF t.prepared THEN {0} ELSE 0..scope.items,
        source: IF t.open THEN {0} ELSE scope.sources,
        before: IF t.open THEN {Absent} ELSE {Absent, Old},
        removes: BOOLEAN] :
     /\ t.prepared \/ luck.folder \/ luck.items = 1
     /\ luck.removes \/ (t.upload /\ ~t.overwrite /\ MayFail(t, luck))}

\* One pass: what is in the inbox, then the first transfer
Pass(w) ==
    /\ workers[w].phase = "up" /\ ~workers[w].stop
    /\ \E outcomes \in [1..Len(workers[w].inbox) -> Outcomes] :
         LET ran == RunAll(Engine(w), workers[w].inbox, outcomes)
             After(engine) ==
                 /\ workers' = [workers EXCEPT ![w].inbox = <<>>, ![w].transfers = engine.transfers]
                 /\ Effect(engine, <<>>)
         IN IF ran.transfers = <<>> THEN After(ran)
            ELSE \E luck \in Lucks(Head(ran.transfers)) : After(ServiceFirst(ran, luck))
    /\ UNCHANGED <<scope, view, list, session, cancels>>

\* The SSH connection under a mosh session fails, with the requests of this
\* pass taken or not
SshCloses(w) ==
    /\ workers[w].kind = "mosh" /\ workers[w].phase = "up" /\ ~workers[w].stop
    /\ \E taken \in BOOLEAN :
         LET requests == IF taken THEN workers[w].inbox ELSE <<>>
         IN /\ Effect(FailAll(Engine(w), requests, FALSE), <<Signal("sshClosed")>>)
            /\ workers' = [workers EXCEPT ![w].phase = "closed", ![w].transfers = <<>>,
                                          ![w].inbox = IF taken THEN <<>> ELSE @]
    /\ UNCHANGED <<scope, view, list, session, cancels>>

\* A pass without an SSH connection
RefuseAll(w) ==
    /\ workers[w].phase = "closed" /\ ~workers[w].stop /\ workers[w].inbox # <<>>
    /\ Effect(FailAll(Engine(w), workers[w].inbox, FALSE), <<>>)
    /\ workers' = [workers EXCEPT ![w].inbox = <<>>]
    /\ UNCHANGED <<scope, view, list, session, cancels>>

\* The thread ends: the connection is lost, it was told to stop, or the shell
\* has ended, the connection is still there, and the server removes a half file
ThreadEnds(w) ==
    /\ workers[w].phase # "over"
    /\ \E taken \in BOOLEAN, removable \in BOOLEAN :
         LET requests == IF taken THEN workers[w].inbox ELSE <<>>
         IN /\ removable => workers[w].kind # "side" /\ workers[w].phase = "up" /\ ~workers[w].stop
            /\ workers[w].stop => ~taken
            /\ Effect(FailAll(Engine(w), requests, removable),
                      IF workers[w].kind # "side" THEN <<Signal("finished")>>
                      ELSE IF w = side THEN <<Signal("sideFinished")>> ELSE <<>>)
            /\ workers' = [workers EXCEPT ![w].phase = "over", ![w].transfers = <<>>,
                                          ![w].inbox = IF taken THEN <<>> ELSE @]
    /\ UNCHANGED <<scope, view, list, session, cancels>>

\* A file on the server, written to as it is downloaded
Grows(w) ==
    /\ workers[w].transfers # <<>>
    /\ LET t == Head(workers[w].transfers)
       IN /\ t.open /\ ~t.upload /\ t.source + 1 \in scope.sources
          /\ workers' = [workers EXCEPT ![w].transfers[1].source = @ + 1,
                                        ![w].transfers[1].late = t.eof]
    /\ UNCHANGED <<scope, view, list, session, posted, server, cancels>>

---------------------------------------------------------------------------
(* The session *)

NewWorker(kind, phase) ==
    Append(workers, [kind |-> kind, phase |-> phase, stop |-> FALSE, inbox |-> <<>>, transfers |-> <<>>])

\* Logged in, or with mosh resumed and no SSH connection
Connect ==
    /\ main = 0 /\ Len(workers) < scope.workers
    /\ \E kind \in {"main", "mosh"}, phase \in {"up", "closed"} :
         /\ phase = "closed" => kind = "mosh"
         /\ workers' = NewWorker(kind, phase)
         /\ sshUp' = (phase = "up")
    /\ main' = Len(workers) + 1
    /\ UNCHANGED <<scope, view, list, side, sideUp, posted, server, cancels>>

\* A side worker has logged in.  (That the end of an earlier one may still be
\* on its way is the finding of the run session_replaced.)
SideConnects ==
    /\ main # 0 /\ workers[main].kind = "mosh" /\ ~sshUp /\ side = 0
    /\ Len(workers) < scope.workers
    /\ \A i \in DOMAIN posted : posted[i].type # "sideFinished"
    /\ workers' = NewWorker("side", "up")
    /\ side' = Len(workers) + 1 /\ sideUp' = TRUE
    /\ UNCHANGED <<scope, view, list, main, sshUp, posted, server, cancels>>

\* The session stays connected until the worker has ended
Disconnect ==
    /\ main # 0 /\ ~workers[main].stop
    /\ workers' = [workers EXCEPT ![main].stop = TRUE]
    /\ UNCHANGED <<scope, view, list, session, posted, server, cancels>>

---------------------------------------------------------------------------
(* The GUI thread, one event after the other *)

\* Only the listing asked for last; what came before an error is shown with it
OnListed(r) ==
    /\ IF r.id # listId THEN UNCHANGED <<path, shown, loading, cut>>
       ELSE /\ loading' = FALSE
            /\ cut' = ~r.good
            /\ IF r.seen = NoEntries THEN UNCHANGED <<path, shown>>
               ELSE path' = r.dir /\ shown' = r.seen
    /\ UNCHANGED <<nextId, listId, operations, list, session, workers>>

\* Bug: what was asked after the listing shown is taken to be in it
RelistsIfOlder(operation) == operation.dir = path /\ operation.id < listId

\* The folder it was done in is listed anew when it is the one shown
Relists(operation) == operation.dir = path

OnDone(r) ==
    LET mine == {o \in operations : o.id = r.id}
    IN /\ operations' = operations \ mine
       /\ IF \E o \in mine : Relists(o) THEN List(path)
          ELSE UNCHANGED <<nextId, path, shown, listId, loading, cut, workers>>
       /\ UNCHANGED <<list, session>>

OnTransferred(r) ==
    LET mine == {t \in transfers : t.id = r.id}
    IN /\ transfers' = transfers \ mine
       /\ finished' = [id \in DOMAIN finished |-> finished[id] + Cardinality({t \in mine : t.id = id})]
       /\ IF r.good /\ \E t \in mine : t.upload THEN List(path)
          ELSE UNCHANGED <<nextId, path, shown, listId, loading, cut, workers>>
       /\ UNCHANGED <<operations, session>>

\* Bug: the transfers are told and kept
OnDisconnectedKept ==
    /\ loading' = FALSE /\ listId' = 0 /\ operations' = {} /\ cut' = TRUE
    /\ finished' = [id \in DOMAIN finished |->
                       finished[id] + Cardinality({t \in transfers : t.id = id})]
    /\ UNCHANGED <<nextId, path, shown, transfers>>

\* Whatever was under way is gone, and what it reports later is not for us
OnDisconnected ==
    /\ loading' = FALSE /\ listId' = 0 /\ operations' = {} /\ transfers' = {}
    /\ finished' = [id \in DOMAIN finished |->
                       finished[id] + Cardinality({t \in transfers : t.id = id})]
    /\ cut' = TRUE
    /\ UNCHANGED <<nextId, path, shown>>

OnWorkerFinished ==
    /\ main' = 0 /\ sshUp' = FALSE /\ side' = 0 /\ sideUp' = FALSE
    /\ workers' = IF side = 0 THEN workers ELSE [workers EXCEPT ![side].stop = TRUE]
    /\ OnDisconnected

OnSshClosed ==
    /\ sshUp' = FALSE
    /\ UNCHANGED <<view, list, main, side, sideUp, workers>>

OnSideWorkerFinished ==
    /\ side' = 0 /\ sideUp' = FALSE
    /\ UNCHANGED <<view, list, main, sshUp, workers>>

Deliver ==
    /\ posted # <<>> /\ posted' = Tail(posted)
    /\ LET r == Head(posted)
       IN \/ r.type = "listed" /\ OnListed(r)
          \/ r.type = "done" /\ OnDone(r)
          \/ r.type = "transferred" /\ OnTransferred(r)
          \/ r.type = "finished" /\ OnWorkerFinished
          \/ r.type = "sshClosed" /\ OnSshClosed
          \/ r.type = "sideFinished" /\ OnSideWorkerFinished
    /\ UNCHANGED <<scope, server, cancels>>

---------------------------------------------------------------------------
Next ==
    \/ \E d \in Dirs \cup {None} : Open(d)
    \/ Operate \/ Download \/ Upload
    \/ \E id \in 0..scope.requests : Cancel(id)
    \/ \E w \in DOMAIN workers :
         \/ Pass(w) \/ SshCloses(w) \/ RefuseAll(w) \/ ThreadEnds(w) \/ Grows(w)
    \/ Connect \/ SideConnects \/ Disconnect
    \/ Deliver

Spec == Init /\ [][Next]_vars

---------------------------------------------------------------------------
(* Properties *)

RequestType == {"list", "operate", "download", "upload", "cancel"}
ReportType == {"listed", "done", "transferred", "finished", "sshClosed", "sideFinished"}

\* The types of the variables, no more than the requests the server may have in
\* flight, and a request for nothing but a transfer under way
TypeOK ==
    /\ path \in Dirs \cup {None} /\ shown \in Nat /\ loading \in BOOLEAN /\ cut \in BOOLEAN
    /\ nextId \in 1..2 * scope.requests + 1 /\ listId \in 0..nextId - 1
    /\ main \in 0..Len(workers) /\ side \in 0..Len(workers) /\ sshUp \in BOOLEAN
    /\ sideUp \in BOOLEAN /\ (sshUp => main # 0) /\ (sideUp => side # 0)
    /\ \A r \in ToSet(posted) : r.type \in ReportType /\ r.id < nextId
    /\ \A w \in DOMAIN workers :
         /\ \A r \in ToSet(workers[w].inbox) : r.type \in RequestType /\ r.id < nextId
         /\ \A t \in ToSet(workers[w].transfers) :
              /\ Len(t.pending) <= MaxInFlight
              /\ t.pending # <<>> => t.open
              /\ ~t.prepared => ~t.open

Whole(f) == f.is \notin {Absent, Old} /\ f.is = Blocks(0, Len(f.is)) /\ Len(f.is) >= f.begun

\* A download is saved only complete, from its first block to the end of the
\* file as it was when opened or later, with no block lost, doubled or out of
\* place, whatever answers were short and whatever was dropped and asked again;
\* a transfer reported as done has left only such files (serviceDownload(),
\* serviceUpload(), closeItem()).
\* The exception is a file that grows between the answer that it ends and the
\* answers still in flight, which are written where the ended copy stops.
FilesAreWhole ==
    \A f \in files : ~f.late /\ ((~f.upload /\ f.is # f.before) \/ f.id \in right) => Whole(f)

\* A transfer that does not get to the end of a file leaves what was in its
\* place: nothing half of a download, and nothing of an upload that was not to
\* replace a file, as long as the connection is there to remove it and the server
\* does (closeItem(), which does not look at what became of sftp_unlink()).
NothingHalfIsLeft ==
    \A f \in files :
        f.late \/ Whole(f) \/ f.is = f.before \/ (f.upload /\ (f.overwrite \/ ~f.removable))

InEngine(id) == \E w \in DOMAIN workers :
    \E i \in DOMAIN workers[w].transfers : workers[w].transfers[i].id = id

\* However it is cancelled, fails or loses its connection, a transfer is
\* reported once by the engine and once by the browser, and not before the
\* engine is done with it (finishTransfer(), failAll(), onTransferred()).
EndsOnce ==
    \A id \in DOMAIN told :
        /\ told[id] <= 1 /\ finished[id] <= 1
        /\ told[id] = 1 => ~InEngine(id)

Uploads == {t \in transfers : t.upload}

Quiet ==
    /\ posted = <<>> /\ ~loading /\ operations = {} /\ Uploads = {}
    /\ \A w \in DOMAIN workers : workers[w].inbox = <<>> /\ workers[w].transfers = <<>>

\* Once nothing is under way, every folder change and upload that was reported as
\* done in the folder shown is in the listing, with all that was done there before
\* it, unless the last listing had an error or the connection was lost (onDone(),
\* onTransferred(), onListed()).  What an upload leaves that fails or is cancelled
\* is not listed anew: a folder, files already done, a file it could not remove, or
\* half of the one it replaced (onTransferred() looks at the error).
FreshWhenQuiet == Quiet /\ path # None /\ ~cut => shown >= due[path]

IsTransfer(request) == request.type \in {"download", "upload"}

InInbox(w, id) == \E i \in DOMAIN workers[w].inbox :
    IsTransfer(workers[w].inbox[i]) /\ workers[w].inbox[i].id = id

\* A report of the transfer is on its way, or it will be: the loop of its worker
\* runs, or the end of the main worker is on its way, which ends everything
IsAwaited(id) ==
    \/ \E r \in ToSet(posted) : (r.type = "transferred" /\ r.id = id) \/ r.type = "finished"
    \/ InEngine(id)
    \/ \E w \in DOMAIN workers : workers[w].phase # "over" /\ InInbox(w, id)

\* In the inbox of a side worker whose thread has ended
LeftBehind(id) ==
    \E w \in DOMAIN workers :
        workers[w].kind = "side" /\ workers[w].phase = "over" /\ InInbox(w, id)

\* A transfer the user is shown is never forgotten: whatever worker it was given
\* to and whatever became of that worker, a report of its end is still to come,
\* but of one that a side worker had not taken before its thread ended
\* (onSideWorkerFinished() does not tell the browser).
NoneIsForgotten == \A t \in transfers : IsAwaited(t.id) \/ LeftBehind(t.id)
=============================================================================
