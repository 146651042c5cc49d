----------------------------- MODULE SshSession -----------------------------
(***************************************************************************)
(* A session (src/src/sshsession.cpp) with its main worker, its side       *)
(* worker, the secret vault, the journal of its mosh session, the network  *)
(* changes SessionManager reacts to, and the app quitting, dying and       *)
(* starting.                                                               *)
(*                                                                         *)
(* Workers are threads.  What they signal is queued for the thread of the  *)
(* session and handled there in order, and a signal on its way still comes *)
(* after its worker was told to stop, or disconnected.  Requests to the    *)
(* vault are answered in order, each with success or not.  Logging in and  *)
(* the terminal's traffic are choices of the worker; prompts, files and    *)
(* what is shown are left out.                                             *)
(***************************************************************************)
EXTENDS Naturals, Sequences, FiniteSets, SequencesExt

CONSTANTS
  Mosh,           \* m_options.mosh
  AutoReconnect,  \* AppSettings::autoReconnect()
  MaxDone,        \* bound: times the user connects or disconnects, the network changes
                  \* or the app ends
  MaxSessions     \* bound: mosh sessions, past which mosh-server does not start

ASSUME SessionAssumption ==
  /\ Mosh \in BOOLEAN /\ AutoReconnect \in BOOLEAN
  /\ MaxDone \in Nat /\ MaxSessions \in Nat

VARIABLES
  up,        \* the app runs
  gui,       \* the SshSession's members
  side,      \* m_sideWorker, and what its thread is doing
  thread,    \* m_worker's thread and its members
  events,    \* signals queued for the SshSession, the oldest first
  journal,   \* the mosh session of the journal file, 0 when there is none
  key,       \* the mosh session whose key the vault has, 0 for none
  vault,     \* requests the vault has not answered
  bounds,    \* what was done so far of what is bounded
  history    \* what the properties ask about earlier states

vars == <<up, gui, side, thread, events, journal, key, vault, bounds, history>>

Phases == {"none", "start", "loop", "ending", "ended"}
SidePhases == {"none", "start", "loop", "ended"}
Requests == {"resume", "login", "side", "create", "store", "remove"}
Signals == {"connected", "failed", "lost", "exited", "key", "gone", "mosh", "sshClosed",
            "finished", "sideConnected", "sideFinished"}

NoGui(vaulted) ==
  [state |-> "Disconnected", vaulted |-> vaulted, fetching |-> FALSE, lost |-> FALSE,
   reached |-> FALSE, connectAfter |-> FALSE, resuming |-> FALSE, usesMosh |-> FALSE,
   sshUp |-> FALSE, reconnectDue |-> FALSE, sideFetching |-> FALSE, sideUp |-> FALSE,
   retry |-> FALSE]
NoSide == [id |-> 0, phase |-> "none", gaveUp |-> FALSE]
NoThread == [phase |-> "none", resume |-> 0, mosh |-> 0, ssh |-> FALSE, answers |-> FALSE,
             over |-> FALSE, stop |-> FALSE, keep |-> FALSE]

TypeOK ==
  /\ up \in BOOLEAN
  /\ gui \in [state : {"Disconnected", "Connecting", "Connected"},
              vaulted : BOOLEAN, fetching : BOOLEAN, lost : BOOLEAN, reached : BOOLEAN,
              connectAfter : BOOLEAN, resuming : BOOLEAN, usesMosh : BOOLEAN, sshUp : BOOLEAN,
              reconnectDue : BOOLEAN, sideFetching : BOOLEAN, sideUp : BOOLEAN, retry : BOOLEAN]
  /\ side \in [id : Nat, phase : SidePhases, gaveUp : BOOLEAN]
  /\ thread \in [phase : Phases, resume : Nat, mosh : Nat, ssh : BOOLEAN, answers : BOOLEAN,
                 over : BOOLEAN, stop : BOOLEAN, keep : BOOLEAN]
  /\ events \in Seq([signal : Signals, of : Nat])
  /\ journal \in Nat /\ key \in Nat
  /\ vault \in Seq([request : Requests, of : Nat])
  /\ bounds \in [done : Nat, sessions : Nat]
  /\ ~up => gui.state = "Disconnected" /\ side = NoSide /\ events = <<>> /\ vault = <<>>
  /\ history \in [ended : BOOLEAN, left : Nat, unkept : SUBSET Nat, aborted : BOOLEAN]

Worker == thread.phase # "none"

Signal(s, of) == [signal |-> s, of |-> of]
Request(r, of) == [request |-> r, of |-> of]
Queued(s) == \E i \in 1 .. Len(events) : events[i].signal = s

-----------------------------------------------------------------------------
(* Connecting *)

\* startWorker(): a worker for a login, or for a mosh session to resume.
StartWorker(g, resume) ==
  /\ gui' = [g EXCEPT !.state = "Connecting", !.fetching = FALSE, !.reached = FALSE,
                      !.resuming = (resume # 0)]
  /\ thread' = [NoThread EXCEPT !.phase = "start", !.resume = resume]

CanResume(file) == Mosh /\ file # 0

\* startConnection(): the secrets first, if there are any to fetch.
StartConnection(g, file, requests) ==
  LET fetching == [g EXCEPT !.state = "Connecting", !.fetching = TRUE]
  IN  IF CanResume(file) \/ g.vaulted
      THEN /\ gui' = fetching
           /\ vault' = Append(requests, Request(IF CanResume(file) THEN "resume" ELSE "login", 0))
           /\ thread' = NoThread
      ELSE /\ StartWorker(g, 0)
           /\ vault' = requests

\* connectToHost(), connectWithSecret(), reconnect(), trustNewHostKey(): the user
\* asks, with a password or with a secret of the vault.
Connect(vaulted) ==
  /\ up /\ gui.state = "Disconnected"
  /\ bounds.done < MaxDone
  /\ bounds' = [bounds EXCEPT !.done = @ + 1]
  /\ history' = [history EXCEPT !.ended = FALSE]
  /\ StartConnection([gui EXCEPT !.vaulted = vaulted], journal, vault)
  /\ UNCHANGED <<up, side, events, journal, key>>

Stopped == IF Worker THEN [thread EXCEPT !.stop = TRUE, !.keep = FALSE] ELSE thread

\* disconnectFromHost(), which the page offers when there is something to end.
Disconnect ==
  /\ up /\ gui.state # "Disconnected"
  /\ bounds.done < MaxDone
  /\ bounds' = [bounds EXCEPT !.done = @ + 1]
  /\ gui' = [gui EXCEPT !.lost = FALSE, !.fetching = FALSE,
                        !.state = IF gui.fetching THEN "Disconnected" ELSE @]
  /\ vault' = Append(vault, Request("remove", 0))
  /\ thread' = Stopped
  /\ history' = [history EXCEPT !.ended = TRUE,
                               !.unkept = IF gui.fetching THEN @ \cup ({journal} \ {0}) ELSE @]
  /\ UNCHANGED <<up, side, events, journal, key>>

-----------------------------------------------------------------------------
(* The side worker, for files and forwards under mosh *)

CanStartSide(g) ==
  side.id = 0 /\ ~g.sideFetching /\ Worker /\ g.usesMosh /\ g.state = "Connected" /\ ~g.sshUp

\* A new worker object is none that signals are still on their way from.
FreshSide == CHOOSE n \in 1 .. Len(events) + 2 :
               n # side.id /\ \A i \in 1 .. Len(events) : events[i].of # n

NewSide == [id |-> FreshSide, phase |-> "start", gaveUp |-> FALSE]

\* startSideWorker(), with no side worker there.
StartSide(g) ==
  /\ gui' = [g EXCEPT !.sideFetching = g.vaulted]
  /\ IF g.vaulted
     THEN vault' = Append(vault, Request("side", 0)) /\ side' = NoSide
     ELSE vault' = vault /\ side' = NewSide

\* stopSideWorker(): of its signals only those on their way still come.
WithoutSide(g) == [g EXCEPT !.sideFetching = FALSE, !.retry = FALSE, !.sideUp = FALSE]

\* m_sideRetry is due.
RetrySide ==
  /\ up /\ gui.retry
  /\ LET g == [gui EXCEPT !.retry = FALSE]
     IN  IF CanStartSide(g)
         THEN StartSide(g)
         ELSE gui' = g /\ UNCHANGED <<side, vault>>
  /\ UNCHANGED <<up, thread, events, journal, key, bounds, history>>

\* The side worker's thread logs in, and ends at some time.
SideConnects ==
  /\ up /\ side.phase = "start"
  /\ side' = [side EXCEPT !.phase = "loop"]
  /\ events' = Append(events, Signal("sideConnected", side.id))
  /\ UNCHANGED <<up, gui, thread, journal, key, vault, bounds, history>>

SideEnds ==
  /\ up /\ side.phase \in {"start", "loop"}
  /\ side' = [side EXCEPT !.phase = "ended"]
  /\ events' = Append(events, Signal("sideFinished", side.id))
  /\ UNCHANGED <<up, gui, thread, journal, key, vault, bounds, history>>

-----------------------------------------------------------------------------
(* The network *)

Lost(g, network) ==
  IF ~network THEN FALSE ELSE IF g.state = "Connected" THEN TRUE ELSE g.lost

\* onNetworkChanged(): a session that uses mosh roams, one without an address any
\* more is dropped, one that was lost is connected again.
NetworkChanges(hasAddress, online) ==
  /\ up /\ bounds.done < MaxDone
  /\ bounds' = [bounds EXCEPT !.done = @ + 1]
  /\ \/ /\ gui.usesMosh /\ gui.state = "Connected" /\ Worker /\ ~gui.sshUp /\ ~gui.sideUp
        /\ LET g == WithoutSide(gui)
           IN  StartSide(g)
        /\ UNCHANGED thread
     \/ /\ AutoReconnect /\ ~gui.usesMosh /\ gui.state = "Connected" /\ ~hasAddress /\ Worker
        /\ gui' = [gui EXCEPT !.lost = Lost(gui, TRUE)]
        /\ thread' = Stopped
        /\ UNCHANGED <<side, vault>>
     \/ /\ AutoReconnect /\ ~gui.usesMosh /\ gui.state = "Disconnected" /\ online /\ gui.lost
        /\ StartConnection(gui, journal, vault)
        /\ UNCHANGED side
  /\ UNCHANGED <<up, events, journal, key, history>>

\* The reconnect onWorkerFinished() asked for is due.
Reconnect ==
  /\ up /\ gui.reconnectDue
  /\ LET g == [gui EXCEPT !.reconnectDue = FALSE]
     IN  IF g.lost /\ g.state = "Disconnected"
         THEN StartConnection(g, journal, vault)
         ELSE gui' = g /\ UNCHANGED <<thread, vault>>
  /\ UNCHANGED <<up, side, events, journal, key, bounds, history>>

-----------------------------------------------------------------------------
(* The worker's thread *)

\* Nothing is delivered to a session that is gone.
Post(signals) == IF up THEN events' = events \o signals ELSE UNCHANGED events

\* report(): nothing is reported once told to stop.
Failed(network) ==
  IF thread.stop THEN <<>> ELSE <<Signal(IF network THEN "lost" ELSE "failed", 0)>>

Ends(t) == thread' = [t EXCEPT !.phase = "ending"]

\* openShell() does not get to a shell.
LoginFails(network) ==
  /\ thread.phase = "start" /\ thread.resume = 0
  /\ Ends(thread)
  /\ Post(Failed(network))
  /\ UNCHANGED <<up, gui, side, journal, key, vault, bounds, history>>

\* openShell() and startMosh(): over mosh when the server starts it.
LoginSucceeds(overMosh) ==
  LET id == bounds.sessions + 1
  IN  /\ thread.phase = "start" /\ thread.resume = 0 /\ ~thread.stop
      /\ overMosh => Mosh /\ id <= MaxSessions
      /\ thread' = [thread EXCEPT !.phase = "loop", !.ssh = TRUE, !.answers = TRUE,
                                  !.mosh = IF overMosh THEN id ELSE 0]
      /\ IF overMosh
         THEN /\ journal' = id
              /\ bounds' = [bounds EXCEPT !.sessions = id]
              /\ Post(<<Signal("key", id), Signal("mosh", 0), Signal("connected", 0)>>)
         ELSE /\ Post(<<Signal("connected", 0)>>)
              /\ UNCHANGED <<journal, bounds>>
      /\ UNCHANGED <<up, gui, side, key, vault, history>>

\* resumeMosh() cannot read the journal.
ResumeFails ==
  /\ thread.phase = "start" /\ thread.resume # 0
  /\ Ends(thread)
  /\ journal' = 0
  /\ Post(Append(Failed(FALSE), Signal("gone", 0)))
  /\ UNCHANGED <<up, gui, side, key, vault, bounds, history>>

\* resumeMosh(): whether the server still answers is not known yet.
ResumeSucceeds(answers) ==
  /\ thread.phase = "start" /\ thread.resume # 0 /\ journal # 0
  /\ answers => thread.resume = journal
  /\ thread' = [thread EXCEPT !.phase = "loop", !.mosh = journal, !.answers = answers]
  /\ Post(<<Signal("mosh", 0), Signal("connected", 0)>>)
  /\ UNCHANGED <<up, gui, side, journal, key, vault, bounds, history>>

\* readLoop(): the SSH connection fails, under mosh only files and forwards with it.
SshBreaks ==
  /\ thread.phase = "loop" /\ thread.ssh
  /\ IF thread.mosh = 0
     THEN /\ Ends([thread EXCEPT !.ssh = FALSE])
          /\ Post(Failed(TRUE))
     ELSE /\ thread' = [thread EXCEPT !.ssh = FALSE]
          /\ Post(<<Signal("sshClosed", 0)>>)
  /\ UNCHANGED <<up, gui, side, journal, key, vault, bounds, history>>

\* serviceMosh(): nothing was heard of a session resumed.
ResumedIsGone ==
  /\ thread.phase = "loop" /\ thread.resume # 0 /\ ~thread.answers
  /\ Ends([thread EXCEPT !.keep = TRUE])
  /\ journal' = 0
  /\ Post(<<Signal("gone", 0)>>)
  /\ history' = [history EXCEPT !.left = 0]
  /\ UNCHANGED <<up, gui, side, key, vault, bounds>>

\* readLoop(): the server ends the shell, or mosh fails.
ShellEnds(error) ==
  /\ thread.phase = "loop" /\ thread.answers
  /\ error => thread.mosh # 0
  /\ thread.mosh = 0 => thread.ssh
  /\ Ends([thread EXCEPT !.over = TRUE])
  /\ Post(IF error THEN <<Signal("failed", 0)>>
          ELSE IF thread.stop THEN <<>> ELSE <<Signal("exited", 0)>>)
  /\ history' = [history EXCEPT !.left = 0]
  /\ UNCHANGED <<up, gui, side, journal, key, vault, bounds>>

LeaveLoopOfSsh ==
  /\ thread.phase = "loop" /\ thread.stop /\ thread.ssh
  /\ Ends(thread)
  /\ UNCHANGED <<up, gui, side, events, journal, key, vault, bounds, history>>

\* readLoop(): told to stop.
LeaveLoop ==
  /\ thread.phase = "loop" /\ thread.stop
  /\ Ends(thread)
  /\ UNCHANGED <<up, gui, side, events, journal, key, vault, bounds, history>>

Keeps == thread.keep /\ ~thread.over

\* finishMosh(), whose journal only a session that is kept keeps, and run() returns.
ThreadEnds ==
  /\ thread.phase = "ending"
  /\ thread' = [thread EXCEPT !.phase = "ended", !.ssh = FALSE]
  /\ journal' = IF thread.mosh # 0 /\ ~Keeps THEN 0 ELSE journal
  /\ Post(<<Signal("finished", 0)>>)
  /\ UNCHANGED <<up, gui, side, key, vault, bounds, history>>

-----------------------------------------------------------------------------
(* The session's slots *)

Take(s) == up /\ events # <<>> /\ Head(events).signal = s /\ events' = Tail(events)

SshUpAlways(g) == TRUE
\* A resumed mosh session has no SSH connection.
SshUpFrom(g) == ~g.resuming

OnConnected ==
  /\ Take("connected")
  /\ gui' = [gui EXCEPT !.state = "Connected", !.reached = TRUE, !.lost = FALSE,
                        !.sshUp = SshUpFrom(gui), !.retry = @ \/ gui.resuming]
  /\ UNCHANGED <<up, side, thread, journal, key, vault, bounds, history>>

OnWorkerFailed ==
  /\ \/ Take("lost") /\ gui' = [gui EXCEPT !.lost = Lost(gui, TRUE)]
     \/ Take("failed") /\ gui' = [gui EXCEPT !.lost = Lost(gui, FALSE)]
  /\ UNCHANGED <<up, side, thread, journal, key, vault, bounds, history>>

\* onShellExited(), which forgets what was kept for resuming.
OnShellExited ==
  /\ Take("exited")
  /\ journal' = 0
  /\ vault' = Append(vault, Request("remove", 0))
  /\ UNCHANGED <<up, gui, side, thread, key, bounds, history>>

OnMoshKeyOnce ==
  /\ Take("key")
  /\ vault' = IF key = 0 THEN Append(vault, Request("create", Head(events).of)) ELSE vault
  /\ UNCHANGED <<up, gui, side, thread, journal, key, bounds, history>>

\* The key of a mosh session is stored, once there is a collection to store it in.
OnMoshKey ==
  /\ Take("key")
  /\ vault' = Append(vault, Request("create", Head(events).of))
  /\ UNCHANGED <<up, gui, side, thread, journal, key, bounds, history>>

OnMoshGone ==
  /\ Take("gone")
  /\ gui' = [gui EXCEPT !.connectAfter = TRUE]
  /\ UNCHANGED <<up, side, thread, journal, key, vault, bounds, history>>

OnMoshStarted ==
  /\ Take("mosh")
  /\ gui' = [gui EXCEPT !.usesMosh = TRUE]
  /\ UNCHANGED <<up, side, thread, journal, key, vault, bounds, history>>

OnSshClosed ==
  /\ Take("sshClosed")
  /\ gui' = [gui EXCEPT !.sshUp = FALSE, !.retry = TRUE]
  /\ UNCHANGED <<up, side, thread, journal, key, vault, bounds, history>>

ReconnectIsDueLate(g) == g.lost /\ g.state = "Connected"
\* Only a connection that was up comes back by itself.
ReconnectIsDue(g) == g.lost /\ g.reached

\* onWorkerFinished(): everything of the connection goes, and a new one follows a
\* mosh session that was gone, or one that was lost.
OnWorkerFinished ==
  /\ Take("finished")
  /\ side' = NoSide
  /\ LET g == [WithoutSide(gui) EXCEPT !.sshUp = FALSE, !.usesMosh = FALSE, !.resuming = FALSE,
                                       !.connectAfter = FALSE, !.state = "Disconnected"]
     IN  IF gui.connectAfter
         THEN /\ journal' = 0
              /\ StartConnection(g, 0, Append(vault, Request("remove", 0)))
         ELSE /\ gui' = [g EXCEPT !.reconnectDue = @ \/ (AutoReconnect /\ ReconnectIsDue(g))]
              /\ thread' = NoThread
              /\ UNCHANGED <<journal, vault>>
  /\ UNCHANGED <<up, key, bounds, history>>

OnSideConnected ==
  /\ Take("sideConnected")
  /\ gui' = [gui EXCEPT !.sideUp = TRUE]
  /\ UNCHANGED <<up, side, thread, journal, key, vault, bounds, history>>

RetriesNever(g) == FALSE
\* Tried again while the mosh session lasts.
Retries(g) == Worker /\ g.usesMosh /\ ~g.sshUp

\* The signal is of a side worker that was replaced, and the new one's thread runs.
Replaced == side.id # Head(events).of /\ side.phase \in {"start", "loop"}

\* onSideWorkerFinished(): deletes the side worker there is now.
OnSideFinished ==
  /\ Take("sideFinished")
  /\ ~Replaced
  /\ side' = NoSide
  /\ gui' = [gui EXCEPT !.sideUp = FALSE, !.retry = @ \/ Retries(gui)]
  /\ UNCHANGED <<up, thread, journal, key, vault, bounds, history>>

-----------------------------------------------------------------------------
(* The vault answers *)

Answered(r) == up /\ vault # <<>> /\ Head(vault).request = r

\* startConnection(), the key of the mosh session to resume.
AnswerResume(ok) ==
  /\ Answered("resume")
  /\ IF ~gui.fetching
     THEN vault' = Tail(vault) /\ UNCHANGED <<gui, thread, journal>>
     ELSE IF ok /\ key # 0
          THEN StartWorker(gui, key) /\ vault' = Tail(vault) /\ UNCHANGED journal
          ELSE journal' = 0 /\ StartConnection(gui, 0, Tail(vault))
  /\ UNCHANGED <<up, side, events, key, bounds, history>>

WantedAlways == TRUE
\* fetchCredentials(): nobody disconnected meanwhile.
Wanted == gui.fetching

\* fetchCredentials() for a login.
AnswerLogin(ok) ==
  /\ Answered("login")
  /\ vault' = Tail(vault)
  /\ IF ~Wanted
     THEN UNCHANGED <<gui, thread>>
     ELSE IF ok
          THEN StartWorker(gui, 0)
          ELSE /\ gui' = [gui EXCEPT !.fetching = FALSE, !.lost = Lost(gui, FALSE),
                                     !.state = "Disconnected"]
               /\ UNCHANGED thread
  /\ UNCHANGED <<up, side, events, journal, key, bounds, history>>

\* fetchCredentials() for the side worker.
AnswerSide(ok) ==
  /\ Answered("side")
  /\ vault' = Tail(vault)
  /\ gui' = [gui EXCEPT !.sideFetching = FALSE]
  /\ side' = IF gui.sideFetching /\ ~ok THEN [side EXCEPT !.gaveUp = TRUE]
             ELSE IF gui.sideFetching /\ Worker /\ gui.usesMosh /\ side.id = 0 THEN NewSide
             ELSE side
  /\ UNCHANGED <<up, thread, events, journal, key, bounds, history>>

\* store(), whose result for a mosh key nobody looks at, and remove().
AnswerStore(ok) ==
  LET of == Head(vault).of
  IN  /\ \/ /\ Answered("create")
            /\ vault' = IF ok THEN Append(Tail(vault), Request("store", of)) ELSE Tail(vault)
            /\ UNCHANGED key
         \/ /\ Answered("store")
            /\ vault' = Tail(vault)
            /\ key' = IF ok THEN of ELSE key
      /\ history' = [history EXCEPT !.unkept = IF ok THEN @ ELSE @ \cup ({of} \ {0})]
      /\ UNCHANGED <<up, gui, side, thread, events, journal, bounds>>

AnswerRemove(ok) ==
  /\ Answered("remove")
  /\ vault' = Tail(vault)
  /\ key' = IF ok THEN 0 ELSE key
  /\ UNCHANGED <<up, gui, side, thread, events, journal, bounds, history>>

-----------------------------------------------------------------------------
(* The app ends and starts *)

\* Mosh sessions whose key is not safely in the vault yet.
Unstored ==
  {events[i].of : i \in {j \in 1 .. Len(events) : events[j].signal = "key"}} \cup
  {vault[i].of : i \in {j \in 1 .. Len(vault) : vault[j].request \in {"create", "store"}}}

\* What the vault may have done of what it was asked.
KeyOutcomes ==
  {key} \cup {vault[i].of : i \in {j \in 1 .. Len(vault) : vault[j].request \in {"store", "remove"}}}

\* The mosh session a worker leaves running.
Running == IF thread.phase = "loop" /\ ~thread.stop /\ thread.answers THEN thread.mosh ELSE 0

Forget ==
  /\ up' = FALSE
  /\ gui' = NoGui(gui.vaulted) /\ side' = NoSide /\ events' = <<>> /\ vault' = <<>>
  /\ key' \in KeyOutcomes
  /\ bounds' = [bounds EXCEPT !.done = @ + 1]
  /\ UNCHANGED journal

EndOnQuit(t) == [t EXCEPT !.stop = TRUE]
\* stop(true)
KeepOnQuit(t) == [t EXCEPT !.stop = TRUE, !.keep = TRUE]

\* The app quits: ~SshSession() has the mosh session kept, and waits a little.
Quit ==
  /\ up /\ bounds.done < MaxDone
  /\ Forget
  /\ thread' = IF Worker THEN KeepOnQuit(thread) ELSE thread
  /\ history' = [history EXCEPT !.ended = FALSE, !.left = Running, !.unkept = @ \cup Unstored]

\* The app is killed.
Kill ==
  /\ up /\ bounds.done < MaxDone
  /\ Forget
  /\ thread' = NoThread
  /\ history' = [history EXCEPT !.ended = FALSE, !.left = Running, !.unkept = @ \cup Unstored]

\* A finished side worker's signal, on its way as it was replaced, has the new one
\* deleted whose thread is running, which ends the app.
Abort ==
  /\ up /\ events # <<>> /\ Head(events).signal = "sideFinished"
  /\ Replaced
  /\ up' = FALSE
  /\ gui' = NoGui(gui.vaulted) /\ side' = NoSide /\ events' = <<>> /\ vault' = <<>>
  /\ key' \in KeyOutcomes
  /\ thread' = NoThread
  /\ history' = [history EXCEPT !.ended = FALSE, !.left = Running, !.unkept = @ \cup Unstored,
                               !.aborted = TRUE]
  /\ UNCHANGED <<journal, bounds>>

\* A worker that takes too long goes with the process.
ProcessEnds ==
  /\ ~up /\ Worker
  /\ thread' = NoThread
  /\ UNCHANGED <<up, gui, side, events, journal, key, vault, bounds, history>>

\* load(): a session comes back disconnected, or picks up its mosh session.
Start ==
  /\ ~up /\ ~Worker
  /\ up' = TRUE
  /\ IF CanResume(journal)
     THEN StartConnection(gui, journal, vault)
     ELSE UNCHANGED <<gui, thread, vault>>
  /\ history' = [history EXCEPT !.left = 0]
  /\ UNCHANGED <<side, events, journal, key, bounds>>

-----------------------------------------------------------------------------
Init ==
  /\ up = TRUE
  /\ gui = NoGui(FALSE) /\ side = NoSide /\ thread = NoThread
  /\ events = <<>> /\ journal = 0 /\ key = 0 /\ vault = <<>>
  /\ bounds = [done |-> 0, sessions |-> 0]
  /\ history = [ended |-> FALSE, left |-> 0, unkept |-> {}, aborted |-> FALSE]

Slots ==
  \/ OnConnected \/ OnWorkerFailed \/ OnShellExited \/ OnMoshKey \/ OnMoshGone
  \/ OnMoshStarted \/ OnSshClosed \/ OnWorkerFinished
  \/ OnSideConnected \/ OnSideFinished \/ Abort

Answers ==
  \E ok \in BOOLEAN :
    AnswerResume(ok) \/ AnswerLogin(ok) \/ AnswerSide(ok) \/ AnswerStore(ok) \/ AnswerRemove(ok)

\* What a worker does by itself.
Winds == LeaveLoop \/ ThreadEnds \/ (thread.stop /\ LoginFails(FALSE))
Resumes == ResumeFails \/ \E answers \in BOOLEAN : ResumeSucceeds(answers)

Next ==
  \/ \E vaulted \in BOOLEAN : Connect(vaulted)
  \/ Disconnect
  \/ \E hasAddress, online \in BOOLEAN : NetworkChanges(hasAddress, online)
  \/ Reconnect \/ RetrySide \/ SideConnects \/ SideEnds
  \/ \E network \in BOOLEAN : LoginFails(network)
  \/ \E overMosh \in BOOLEAN : LoginSucceeds(overMosh)
  \/ Resumes \/ SshBreaks \/ ResumedIsGone
  \/ \E error \in BOOLEAN : ShellEnds(error)
  \/ LeaveLoop \/ ThreadEnds
  \/ Slots \/ Answers
  \/ Quit \/ Kill \/ ProcessEnds \/ Start

\* Threads run, signals are delivered, requests answered and timers due.
Fairness ==
  /\ WF_vars(Slots) /\ WF_vars(Answers)
  /\ WF_vars(Winds) /\ WF_vars(Resumes)
  /\ WF_vars(Reconnect) /\ WF_vars(RetrySide)

Spec == Init /\ [][Next]_vars /\ Fairness

-----------------------------------------------------------------------------
(* Properties *)

\* A session is disconnected exactly when it has no worker and fetches nothing for
\* one, and no connection is begun beside another: an answer of the vault that comes
\* after the user disconnected, or disconnected and connected again, starts nothing.
OneConnection ==
  /\ [](up => /\ (gui.state = "Disconnected") = (~Worker /\ ~gui.fetching)
              /\ ~(Worker /\ gui.fetching))
  /\ [][thread.phase # "start" /\ thread'.phase = "start" =>
          thread.phase \in {"none", "ended"}]_thread

\* What the session believes of its SSH connection is so, or corrected by a signal on
\* its way.
SshUpIsTrue ==
  up /\ thread.phase = "loop" /\ thread.mosh # 0 =>
    gui.sshUp = thread.ssh \/ Queued("connected") \/ Queued("sshClosed")

\* While a mosh session goes on without SSH, a side worker is there or on its way,
\* unless its secret could not be had.
SideIsRetried ==
  up /\ gui.state = "Connected" /\ gui.usesMosh /\ ~gui.sshUp =>
    side.id # 0 \/ gui.sideFetching \/ gui.retry \/ side.gaveUp

\* A journal is resumed with the key of the mosh session it is of, as its packet
\* numbers count for that key, unless its key could not be kept.
ResumeKeyFits ==
  thread.phase = "start" /\ thread.resume # 0 =>
    journal \in {0, thread.resume} \cup history.unkept

\* Quitting, and being killed, leaves what the next start needs to pick a running mosh
\* session up (README.md: "When the app quits, a mosh session stays on the server and
\* the app picks it up on its next start"), if there was time to store its key.
KeptIsResumable ==
  ~up /\ ~Worker /\ history.left # 0 =>
    journal = history.left /\ (key = history.left \/ history.left \in history.unkept)

\* A worker told to stop ends, wherever it was, and the session lets go of it.
EndsWhenAsked == thread.stop ~> ~thread.stop \/ ~up

\* A connection that was up and lost its network is tried again.
LostIsRetried ==
  AutoReconnect /\ up /\ gui.state = "Disconnected" /\ gui.lost /\ gui.reached
    ~> gui.state # "Disconnected" \/ ~up

Begins == (gui'.fetching /\ ~gui.fetching) \/ (thread'.phase = "start" /\ thread.phase # "start")

\* A session the user disconnected does not connect until they ask for it.
StaysEnded == [][history.ended /\ history'.ended => ~Begins]_vars

\* No worker is deleted while its thread runs.
WindsDown == ~history.aborted
=============================================================================
