--------------------------- MODULE SshWorkerProofs ---------------------------
(***************************************************************************)
(* Proofs about SshWorker, the thread of a connection: that an answer is   *)
(* taken only for the question the user saw, that stop() shuts down no     *)
(* descriptor of another part of the app, that a connection says once why  *)
(* it ends, that what ends as it should was carried whole, and that the    *)
(* loop never sleeps with work to do; for every configuration, any number  *)
(* of forwarded connections, and any limits.                               *)
(***************************************************************************)
EXTENDS SshWorker, FiniteSetTheorems, FunctionTheorems, SequenceTheorems, WellFoundedInduction, TLAPS

-----------------------------------------------------------------------------
(* Where the worker is *)

KeyPlaces == {"jumpKey", "key"}

LoginPlaces ==
    KeyPlaces \cup Logins \cup
    {"jumpSocket", "jumpWatch", "jumpConnect", "jumpVerify", "pair", "pairWatch", "socket", "watch",
     "connect", "verify", "shell"}

LoopPlaces ==
    {"loop", "drain", "swap", "serve", "streams", "look", "poll", "loopForget", "loopDisconnect"}

Places == LoginPlaces \cup LoopPlaces \cup {"resume", "finish"} \cup Leaving

-----------------------------------------------------------------------------
(* The types *)

Stream ==
    [st : {"none", "asks", "fresh", "on", "gone"}, chan : BOOLEAN, said : Nat, heard : Nat,
     ends : {"no", "eof", "reset"}, sent : Nat, taken : Nat, seen : Nat, replied : Nat, lib : Nat,
     read : Nat, buf : Nat, got : Nat, over : {"no", "eof", "closed"},
     overLib : {"no", "eof", "closed"}, channelEof : BOOLEAN, socketEof : BOOLEAN,
     closed : BOOLEAN, writeShutdown : BOOLEAN, cut : BOOLEAN]

Polled ==
    [buffered : BOOLEAN, ssh : BOOLEAN, on : SUBSET DOMAIN scope.forwards,
     in : SUBSET DOMAIN scope.forwards, out : SUBSET DOMAIN scope.forwards]

Link ==
    [up : BOOLEAN, mosh : BOOLEAN, shell : BOOLEAN, lost : BOOLEAN, typed : Nat, carried : Nat,
     after : {"look", "loop"}, exited : BOOLEAN, gone : BOOLEAN, unsaid : BOOLEAN,
     missed : BOOLEAN, polls : Polled]

Shell == [sent : Nat, lib : Nat, read : Nat, eaten : Nat, end : BOOLEAN, endLib : BOOLEAN]

PromptTypes ==
    /\ asking \in {"no", "locked", "decided", "waiting", "woken", "answered"}
    /\ asked \in Nat /\ answered \in BOOLEAN /\ answer \in Nat /\ shown \in Nat
    /\ queue \in Seq(Nat)

SocketTypes ==
    /\ table \in [Fds -> {"free", "worker", "others"}]
    /\ watched \subseteq Fds /\ shut \subseteq Fds
    /\ sockets \in [jump : Fds \cup {0}, own : Fds \cup {0}]
    /\ proxy \in {"none", "running", "ended"}

PlaceTypes ==
    /\ at \in Places /\ method \in {"none", "key", "password", "interactive"}
    /\ tries \in Nat /\ passwords \subseteq Logins
    /\ stopping \in {"no", "begun", "signalled", "done"} /\ wake \in BOOLEAN
    /\ reports \in Nat
    /\ history \in [mixed : BOOLEAN, hurt : BOOLEAN]

LoopTypes ==
    /\ scope \in Scopes /\ ui \in {"idle", "wake"}
    /\ link \in Link /\ shell \in Shell
    /\ streams \in [DOMAIN scope.forwards -> Stream]

Types == PlaceTypes /\ PromptTypes /\ SocketTypes /\ LoopTypes

-----------------------------------------------------------------------------
(* The inductive invariant *)

\* Who waits for an answer has asked the newest question, which is on its way to
\* the user, shown to the user, or answered; and nobody asks without waiting.
Waits == asking \in {"locked", "decided", "waiting", "woken"}

Prompting ==
    /\ ~history.mixed
    /\ answer <= asked /\ shown <= asked /\ \A i \in 1..Len(queue) : queue[i] \in 1..asked
    /\ asking # "no" => at \in KeyPlaces \cup Logins
    /\ scope.noPrompts => ~Waits /\ (asking = "answered" => at \in Logins)
    /\ Waits /\ answered => answer = asked
    /\ at \notin Leaving =>
         IF Waits /\ ~answered
         THEN (queue = <<asked>> /\ shown = 0) \/ (queue = <<>> /\ shown = asked)
         ELSE queue = <<>> /\ shown = 0

\* A socket is watched for stop() from when it is connected until it is about to be
\* closed, and once stop() is through every socket watched is shut down.
Sockets ==
    /\ ~history.hurt
    /\ \A fd \in watched : table[fd] = "worker"
    /\ sockets.jump # 0 => table[sockets.jump] = "worker"
    /\ sockets.own # 0 => table[sockets.own] = "worker"
    /\ sockets.jump # 0 => sockets.jump # sockets.own
    /\ at \in KeyPlaces \cup {"jumpSocket", "jumpWatch", "socket", "resume", "loopDisconnect",
                              "jumpFree", "disconnect", "join", "done"} => watched = {}
    /\ at = "jumpWatch" => sockets.jump # 0
    /\ at \in {"watch", "pairWatch"} => sockets.own # 0
    /\ at \in {"connect", "verify", "login", "shell"} => sockets.own \in watched
    /\ link.up /\ at # "loopDisconnect" => sockets.own \in watched
    /\ stopping = "done" => watched \subseteq shut

\* The end is reported on the way out, once, and by no worker that was stopped.
Reporting ==
    /\ at \in LoginPlaces \cup LoopPlaces \cup {"resume"} => reports = 0
    /\ reports <= 1
    /\ at \in Leaving \cup {"finish"} /\ ~Stopped => reports = 1 \/ link.gone \/ link.unsaid

\* The shell: what its channel has belongs to it, in order, and its end comes last.
Showing ==
    /\ shell.eaten <= shell.read /\ shell.read <= shell.lib /\ shell.lib <= shell.sent
    /\ shell.read <= shell.eaten + MaxUnconsumed + 1
    /\ shell.endLib => shell.end /\ shell.lib = shell.sent
    /\ link.exited => shell.end /\ shell.read = shell.sent

\* A forwarded connection: how far its bytes got each way, and what has ended.
Carried(i, s) ==
    /\ StreamOK(s)
    /\ s.read <= s.buf + s.got + Room
    /\ s.st \in {"none", "asks"} => s = [NoStream EXCEPT !.st = s.st]
    /\ ~s.chan => s.sent = 0 /\ s.replied = 0
    /\ s.chan => s.heard = s.sent + Request(i) \/ s.closed
    /\ s.overLib # "no" => s.over # "no" /\ s.lib = s.replied
    /\ s.overLib = "closed" => s.over = "closed"
    /\ s.channelEof => s.chan /\ s.overLib # "no" /\ s.read = s.lib
    /\ s.socketEof => s.chan /\ s.ends = "eof" /\ s.heard = s.said
    /\ s.writeShutdown => s.channelEof /\ s.buf = 0

\* A connection that is closed is gone, and was carried whole but when it was cut.
Ended(i, s) ==
    s.closed /\ ~s.cut =>
        /\ s.read = s.replied /\ s.buf = 0
        /\ s.over # "closed" => (s.ends = "eof" /\ s.sent = s.said - Request(i))

Kept(i, s) ==
    /\ Carried(i, s)
    /\ s.closed => s.st = "gone"
    /\ s.st = "gone" /\ ~s.cut => s.closed
    /\ Ended(i, s)

Forwarding == \A i \in DOMAIN scope.forwards : Kept(i, streams[i])

\* The connections of the loop, and input that is typed while the loop is behind the
\* place where it takes it.
Connected ==
    /\ link.carried <= link.typed
    /\ link.up => at \in LoopPlaces \cup {"finish"}
    /\ link.mosh => ~link.shell
    /\ at \in LoginPlaces \cup {"resume", "loopForget", "loopDisconnect"} => ~link.shell
    /\ at \in LoopPlaces /\ ~link.up => ~link.shell
    /\ at = "loopDisconnect" \/ ~link.up => \A i \in Ids : streams[i].st \in {"none", "gone"}
    /\ at \in {"serve", "streams", "look", "poll", "loopForget", "loopDisconnect"} =>
         link.carried = link.typed \/ wake \/ ui = "wake"

\* What poll() was asked for is what there is to wait for.
Polling ==
    /\ at \in {"look", "poll"} /\ ~link.missed => ~Missed(shell, streams)
    /\ at = "poll" => link.polls.on = On
    /\ at = "poll" /\ ~link.missed =>
         /\ link.polls.in = {i \in On : WatchesIn(streams[i])}
         /\ link.polls.out = {i \in On : streams[i].buf > 0}
         /\ link.up /\ ~throttled /\ Reading => link.polls.ssh \/ wake \/ ui = "wake"
         /\ link.up /\ link.polls.ssh /\ ~link.polls.buffered =>
              /\ link.shell => shell.lib = shell.read
              /\ \A i \in On : wantsChannelData(streams[i]) => streams[i].lib = streams[i].read

IInv ==
    Types /\ Prompting /\ Sockets /\ Reporting /\ Showing /\ Forwarding /\ Connected /\ Polling

-----------------------------------------------------------------------------
(* What holds of every configuration, and of every state *)

LEMMA Scoped ==
  ASSUME Types
  PROVE  /\ scope.jump \in BOOLEAN /\ scope.noPrompts \in BOOLEAN
         /\ scope.addresses \in Nat \ {0} /\ scope.typed \in Nat /\ scope.output \in Nat
         /\ scope.said \in Nat /\ scope.replied \in Nat /\ scope.status \in BOOLEAN
         /\ scope.kind \in {"shell", "mosh", "side", "resume"}
         /\ scope.forwards \in Seq({"local", "socks4", "socks5", "remote"})
         /\ PasswordAttempts \in Nat \ {0} /\ MaxInteractiveRounds \in Nat
         /\ MaxUnconsumed \in Nat /\ MaxForwardBuffer \in Nat \ {0}
         /\ Window \in Nat \ {0} /\ Room \in Nat \ {0}
         /\ Ids = DOMAIN scope.forwards
<1>1. LoginScope(scope) /\ WorkerScope(scope)
  BY LoginAssumption, WorkerAssumption DEF Types, LoopTypes
<1>2. Ids = DOMAIN scope.forwards
  BY DEF Types, LoopTypes, Ids
<1> QED
  BY <1>1, <1>2, LoginAssumption, WorkerAssumption DEF LoginScope, WorkerScope

\* What Beyond says, place by place.
LEMMA Next0 ==
  /\ Beyond.jumpKey = "key" /\ Beyond.jumpSocket = "jumpWatch"
  /\ Beyond.jumpWatch = "jumpConnect" /\ Beyond.jumpConnect = "jumpVerify"
  /\ Beyond.jumpVerify = "jumpLogin" /\ Beyond.jumpLogin = "pair"
  /\ Beyond.pair = "pairWatch" /\ Beyond.pairWatch = "connect"
  /\ Beyond.key = (IF scope.jump THEN "jumpSocket" ELSE "socket")
  /\ Beyond.socket = "watch" /\ Beyond.watch = "connect"
  /\ Beyond.connect = "verify" /\ Beyond.verify = "login" /\ Beyond.login = "shell"
  BY DEF Beyond

\* The loop of a connection that is up is not touched by what does not move it.
LEMMA LoopStays ==
  ASSUME IInv, UNCHANGED loopVars, at' = at, wake => wake'
  PROVE  Showing' /\ Forwarding' /\ Connected' /\ Polling'
<1>1. Showing'
  BY DEF IInv, Showing, loopVars
<1>2. Forwarding'
  BY DEF IInv, Forwarding, loopVars, Kept, Carried, StreamOK, Ended, Request
<1>3. Connected'
  BY DEF IInv, Connected, loopVars, Ids
<1>4. Polling'
  BY DEF IInv, Polling, loopVars, Ids, Missed, On, throttled, Reading, ShellHasEnded,
         wantsChannelData, WatchesIn, WindowLeft
<1> QED
  BY <1>1, <1>2, <1>3, <1>4

LEMMA LoopWaits ==
  ASSUME IInv, UNCHANGED loopVars,
         at \in LoginPlaces \cup Leaving, at' \in LoginPlaces \cup Leaving, at \in Leaving => at' \in Leaving
  PROVE  Showing' /\ Forwarding' /\ Connected' /\ Polling'
<1>1. Showing'
  BY DEF IInv, Showing, loopVars
<1>2. Forwarding'
  BY DEF IInv, Forwarding, loopVars, Kept, Carried, StreamOK, Ended, Request
<1>3. Connected'
  BY DEF IInv, Connected, loopVars, Ids, LoginPlaces, LoopPlaces, Leaving, KeyPlaces, Logins
<1>4. Polling'
  BY DEF IInv, Polling, loopVars, LoginPlaces, Leaving, KeyPlaces, Logins
<1> QED
  BY <1>1, <1>2, <1>3, <1>4

LEMMA LoopTypesStay ==
  ASSUME IInv, UNCHANGED loopVars
  PROVE  LoopTypes'
  BY DEF IInv, Types, LoopTypes, loopVars, Link, Polled

\* What asks nothing, and leaves no question behind by going where none is asked.
LEMMA PromptsStay ==
  ASSUME IInv, UNCHANGED <<promptVars, history, scope>>,
         asking # "no" => at' = at, at \in Leaving => at' \in Leaving
  PROVE  Prompting' /\ PromptTypes'
<1>1. PromptTypes'
  BY DEF IInv, Types, PromptTypes, promptVars
<1>2. Prompting'
  BY DEF IInv, Prompting, promptVars, Waits
<1> QED
  BY <1>1, <1>2

\* A report, or none by a worker that was stopped, on the way out.
LEMMA Reported ==
  ASSUME IInv, UNCHANGED <<stopping, link>>, at \in LoginPlaces \cup LoopPlaces \cup {"resume"},
         at' \in Leaving \cup {"finish"}, Report \/ (Stopped /\ reports' = reports)
  PROVE  Reporting' /\ reports' \in Nat
  BY DEF IInv, Types, PlaceTypes, Reporting, Report, Stopped, LoginPlaces, LoopPlaces, Leaving, KeyPlaces,
         Logins

\* No report, on the way.
LEMMA Unreported ==
  ASSUME IInv, UNCHANGED <<reports, link>>, stopping # "no" => stopping' # "no",
         \/ at' = at
         \/ at' \in LoginPlaces \cup LoopPlaces \cup {"resume"} /\ at \notin Leaving \cup {"finish"}
         \/ at \in Leaving \cup {"finish"} /\ at' \in Leaving
  PROVE  Reporting' /\ reports' \in Nat
<1>1. at \in Places
  BY DEF IInv, Types, PlaceTypes
<1> QED
  BY <1>1 DEF IInv, Types, PlaceTypes, Reporting, Stopped, LoginPlaces, LoopPlaces, Leaving, KeyPlaces,
         Logins, Places

\* The sockets as they are, with nothing expected of them where the worker goes that
\* was not expected where it was.
LEMMA SocketsStay ==
  ASSUME IInv, UNCHANGED <<socketVars, stopping, history, link>>, link.up => at' = at,
         \/ at' = at
         \/ watched = {} /\ at' \notin {"jumpWatch", "watch", "pairWatch", "connect", "verify", "login", "shell"}
         \/ at' \notin {"watch", "pairWatch", "jumpWatch", "connect", "verify", "login", "shell",
                        "jumpSocket", "socket", "resume", "loopDisconnect", "jumpFree", "disconnect",
                        "join", "done"} \cup KeyPlaces
         \/ at \in {"connect", "verify", "login"} /\ at' \in {"verify", "login", "shell"}
  PROVE  Sockets' /\ SocketTypes'
<1>1. SocketTypes'
  BY DEF IInv, Types, SocketTypes, socketVars
<1>2. Sockets'
  BY DEF IInv, Sockets, socketVars, KeyPlaces
<1> QED
  BY <1>1, <1>2

\* Before the loop and after it there is no connection.
LEMMA NotUp ==
  ASSUME IInv, at \in LoginPlaces \cup Leaving
  PROVE  ~link.up
  BY DEF IInv, Connected, LoginPlaces, LoopPlaces, Leaving, KeyPlaces, Logins

\* A step of the login, taken together.
LEMMA LoginOnly ==
  ASSUME IInv, UNCHANGED loopVars, at \in LoginPlaces, at' \in LoginPlaces \cup Leaving,
         Prompting', PromptTypes', Sockets', SocketTypes', Reporting', PlaceTypes'
  PROVE  IInv'
<1>1. LoopTypes'
  BY LoopTypesStay
<1>2. Showing' /\ Forwarding' /\ Connected' /\ Polling'
  BY LoopWaits DEF LoginPlaces, Leaving, KeyPlaces, Logins
<1> QED
  BY <1>1, <1>2 DEF IInv, Types

\* A login that fails, or is left by a worker that was stopped.
LEMMA Failing ==
  ASSUME IInv, at \in LoginPlaces, Fail \/ (Stopped /\ Leave),
         UNCHANGED <<loopVars, socketVars, stopping, wake, method, history>>,
         tries' \in Nat, passwords' \subseteq Logins, Prompting', PromptTypes'
  PROVE  IInv'
<1>1. /\ at' \in {"forget", "jumpForget"} /\ at' \in Leaving /\ link' = link
      /\ Report \/ (Stopped /\ reports' = reports)
  BY DEF Fail, Leave, CleanUp, Leaving, loopVars
<1>2. Sockets' /\ SocketTypes'
  BY <1>1, SocketsStay, NotUp DEF KeyPlaces
<1>3. Reporting' /\ reports' \in Nat
  BY <1>1, Reported
<1>4. PlaceTypes'
  BY <1>1, <1>3 DEF IInv, Types, PlaceTypes, Places
<1> QED
  BY <1>1, <1>2, <1>3, <1>4, LoginOnly

-----------------------------------------------------------------------------
(* Questions *)

\* What changes nothing but the questions.
LEMMA OnlyPrompts ==
  ASSUME IInv, UNCHANGED <<loopVars, at, method, tries, passwords, stopping, wake, socketVars, reports, history>>,
         Prompting', PromptTypes'
  PROVE  IInv'
<1>1. Sockets' /\ SocketTypes'
  BY SocketsStay DEF loopVars
<1>2. Reporting'
  BY Unreported DEF loopVars
<1>3. LoopTypes'
  BY LoopTypesStay
<1>4. PlaceTypes'
  BY DEF IInv, Types, PlaceTypes
<1>5. Showing' /\ Forwarding' /\ Connected' /\ Polling'
  BY LoopStays
<1> QED
  BY <1>1, <1>2, <1>3, <1>4, <1>5 DEF IInv, Types

LEMMA Taking ==
  ASSUME IInv, AskTakes
  PROVE  IInv'
<1>1. /\ Prompting /\ Types /\ Waits /\ answered /\ answer = asked /\ ~history.mixed
      /\ at \in LoginPlaces /\ at \notin Leaving
  BY DEF IInv, Prompting, AskTakes, Waits, LoginPlaces, Leaving, KeyPlaces, Logins
<1>2. history' = history
  BY <1>1 DEF AskTakes, Types, PlaceTypes
<1>3. Prompting' /\ PromptTypes'
  BY <1>1, <1>2 DEF AskTakes, Prompting, Waits, Types, PromptTypes, loopVars
<1> QED
  BY <1>2, <1>3, OnlyPrompts DEF AskTakes

LEMMA GivingUp ==
  ASSUME IInv, AskGivesUp
  PROVE  IInv'
<1>1. /\ Prompting /\ Types /\ at \in KeyPlaces \cup Logins /\ at \in LoginPlaces /\ ~link.up
  BY NotUp DEF IInv, Prompting, AskGivesUp, LoginPlaces
<1>2. /\ at' \in {"forget", "jumpForget"} /\ at' \in Leaving
      /\ UNCHANGED <<loopVars, method, tries, passwords, stopping, wake, socketVars, reports, history, link>>
  BY DEF AskGivesUp, Leave, CleanUp, Leaving, loopVars
<1>3. Prompting' /\ PromptTypes'
  BY <1>1, <1>2 DEF AskGivesUp, Prompting, Waits, Types, PromptTypes, loopVars
<1>4. Sockets' /\ SocketTypes'
  BY <1>1, <1>2, SocketsStay DEF KeyPlaces
<1>5. Reporting'
  BY <1>1, <1>2, Reported DEF AskGivesUp
<1>6. LoopTypes'
  BY <1>2, LoopTypesStay
<1>7. PlaceTypes'
  BY <1>1, <1>2 DEF Types, PlaceTypes, Places
<1>8. Showing' /\ Forwarding' /\ Connected' /\ Polling'
  BY <1>1, <1>2, LoopWaits DEF Leaving, KeyPlaces, Logins
<1> QED
  BY <1>3, <1>4, <1>5, <1>6, <1>7, <1>8 DEF IInv, Types

LEMMA Deciding ==
  ASSUME IInv, AskDecides \/ AskWaits \/ AskWakes
  PROVE  IInv'
<1>1. /\ UNCHANGED <<loopVars, at, method, tries, passwords, stopping, wake, socketVars, reports, history>>
      /\ UNCHANGED <<asked, answered, answer, queue, shown>>
      /\ asking # "no" /\ Waits /\ Waits' /\ asking' \in {"decided", "waiting", "locked"}
  BY DEF AskDecides, AskWaits, AskWakes, Waits
<1>2. Prompting' /\ PromptTypes'
  BY <1>1 DEF IInv, Types, PromptTypes, Prompting, Waits, loopVars
<1> QED
  BY <1>1, <1>2, OnlyPrompts

LEMMA ShowingPrompt ==
  ASSUME IInv, ShowPrompt
  PROVE  IInv'
<1>1. /\ UNCHANGED <<loopVars, at, method, tries, passwords, stopping, wake, socketVars, reports, history>>
      /\ UNCHANGED <<asking, asked, answered, answer>> /\ scope' = scope
      /\ queue # <<>> /\ shown' = Head(queue) /\ queue' = Tail(queue)
      /\ Prompting /\ PromptTypes
  BY DEF ShowPrompt, loopVars, IInv, Types
<1>2. /\ shown' \in Nat /\ shown' <= asked /\ queue' \in Seq(Nat)
      /\ \A i \in 1..Len(queue') : queue'[i] <= asked
  <2>1. queue \in Seq(Nat) /\ queue # <<>> /\ \A i \in 1..Len(queue) : queue[i] <= asked
    BY <1>1 DEF Prompting, PromptTypes
  <2>2. /\ Len(queue) \in Nat /\ Len(queue) >= 1 /\ Head(queue) = queue[1] /\ queue[1] \in Nat
        /\ Tail(queue) \in Seq(Nat) /\ Len(Tail(queue)) = Len(queue) - 1
        /\ \A i \in 1..Len(Tail(queue)) : Tail(queue)[i] = queue[i + 1]
    BY <2>1, HeadTailProperties, ElementOfSeq
  <2> QED
    BY <1>1, <2>1, <2>2
<1>3. (at \notin Leaving)' =>
        IF (Waits /\ ~answered)'
        THEN (queue = <<asked>> /\ shown = 0)' \/ (queue = <<>> /\ shown = asked)'
        ELSE (queue = <<>> /\ shown = 0)'
  <2> SUFFICES ASSUME at \notin Leaving
               PROVE  IF Waits' /\ ~answered
                      THEN queue' = <<>> /\ shown' = asked
                      ELSE FALSE
    BY <1>1
  <2>1. Waits /\ ~answered /\ queue = <<asked>>
    BY <1>1 DEF Prompting
  <2>2. Head(<<asked>>) = asked /\ Tail(<<asked>>) = <<>>
    OBVIOUS
  <2> QED
    BY <1>1, <2>1, <2>2 DEF Waits
<1>4. Prompting' /\ PromptTypes'
  BY <1>1, <1>2, <1>3 DEF Prompting, PromptTypes, Waits
<1> QED
  BY <1>1, <1>4, OnlyPrompts

LEMMA AnsweringPrompt ==
  ASSUME IInv, AnswerPrompt
  PROVE  IInv'
<1>1. /\ UNCHANGED <<loopVars, at, method, tries, passwords, stopping, wake, socketVars, reports, history>>
      /\ UNCHANGED <<asked, queue>> /\ scope' = scope
      /\ shown # 0 /\ asking \notin {"locked", "decided"}
      /\ answered' = TRUE /\ answer' = shown /\ shown' = 0
      /\ asking' = IF asking = "waiting" THEN "woken" ELSE asking
      /\ Prompting /\ PromptTypes
  BY DEF AnswerPrompt, PromptMutexIsFree, WakeAll, Dismissed, loopVars, IInv, Types
<1>2. PromptTypes'
  BY <1>1 DEF PromptTypes
<1>3. Waits' = Waits /\ (asking # "no" <=> asking' # "no") /\ (asking = "answered" <=> asking' = "answered")
  BY <1>1 DEF Waits
<1>4. Waits => at \notin Leaving
  BY <1>1 DEF Waits, Prompting, KeyPlaces, Logins, Leaving
<1>5. Prompting'
  BY <1>1, <1>3, <1>4, <1>2 DEF Prompting, PromptTypes
<1> QED
  BY <1>1, <1>2, <1>5, OnlyPrompts

-----------------------------------------------------------------------------
(* stop() *)

LEMMA Stopping ==
  ASSUME IInv, Stop
  PROVE  IInv'
<1>1. /\ UNCHANGED <<loopVars, at, method, tries, passwords, promptVars, socketVars, reports, history, link, scope>>
      /\ stopping' = "begun" /\ wake' = TRUE
  BY DEF Stop, loopVars
<1>2. Prompting' /\ PromptTypes'
  BY <1>1, PromptsStay
<1>3. SocketTypes'
  BY <1>1 DEF IInv, Types, SocketTypes, socketVars
<1>4. Sockets'
  BY <1>1 DEF IInv, Sockets, socketVars
<1>5. Reporting'
  BY <1>1, Unreported
<1>6. LoopTypes'
  BY <1>1, LoopTypesStay
<1>7. PlaceTypes'
  BY <1>1 DEF IInv, Types, PlaceTypes
<1>8. Showing' /\ Forwarding' /\ Connected' /\ Polling'
  BY <1>1, LoopStays
<1> QED
  BY <1>2, <1>3, <1>4, <1>5, <1>6, <1>7, <1>8 DEF IInv, Types

LEMMA StopSignalling ==
  ASSUME IInv, StopSignals
  PROVE  IInv'
<1>1. /\ UNCHANGED <<loopVars, at, method, tries, passwords, asked, answered, answer, queue, shown,
                     wake, socketVars, reports, history, link, scope>>
      /\ stopping' = "signalled" /\ stopping # "no"
      /\ asking' = IF asking = "waiting" THEN "woken" ELSE asking
  BY DEF StopSignals, WakeAll, loopVars
<1>2. /\ Waits' = Waits /\ (asking # "no" <=> asking' # "no")
      /\ asking = "answered" <=> asking' = "answered"
  BY <1>1 DEF Waits
<1>3. Prompting' /\ PromptTypes'
  BY <1>1, <1>2 DEF IInv, Types, Prompting, PromptTypes
<1>4. SocketTypes'
  BY <1>1 DEF IInv, Types, SocketTypes, socketVars
<1>5. Sockets'
  BY <1>1 DEF IInv, Sockets, socketVars
<1>6. Reporting'
  BY <1>1, Unreported
<1>7. LoopTypes'
  BY <1>1, LoopTypesStay
<1>8. PlaceTypes'
  BY <1>1 DEF IInv, Types, PlaceTypes
<1>9. Showing' /\ Forwarding' /\ Connected' /\ Polling'
  BY <1>1, LoopStays
<1> QED
  BY <1>3, <1>4, <1>5, <1>6, <1>7, <1>8, <1>9 DEF IInv, Types

LEMMA StopShutting ==
  ASSUME IInv, StopShuts
  PROVE  IInv'
<1>1. /\ UNCHANGED <<loopVars, at, method, tries, passwords, promptVars, wake, table, watched, sockets,
                     proxy, reports, link, scope>>
      /\ stopping' = "done" /\ stopping # "no"
      /\ shut' = shut \cup {fd \in watched : table[fd] # "free"}
      /\ history' = [history EXCEPT !.hurt = @ \/ \E fd \in watched : table[fd] = "others"]
  BY DEF StopShuts, loopVars
<1>2. /\ \A fd \in watched : table[fd] = "worker"
      /\ ~history.hurt /\ watched \subseteq Fds /\ history \in [mixed : BOOLEAN, hurt : BOOLEAN]
  BY DEF IInv, Sockets, Types, SocketTypes, PlaceTypes
<1>3. history' = history
  BY <1>1, <1>2
<1>4. Prompting' /\ PromptTypes'
  BY <1>1, <1>3, PromptsStay
<1>5. shut' = shut \cup watched
  BY <1>1, <1>2
<1>6. SocketTypes'
  BY <1>1, <1>2, <1>5 DEF IInv, Types, SocketTypes
<1>7. Sockets'
  BY <1>1, <1>3, <1>5 DEF IInv, Sockets
<1>8. Reporting'
  BY <1>1, Unreported
<1>9. LoopTypes'
  BY <1>1, LoopTypesStay
<1>10. PlaceTypes'
  BY <1>1, <1>3 DEF IInv, Types, PlaceTypes
<1>11. Showing' /\ Forwarding' /\ Connected' /\ Polling'
  BY <1>1, LoopStays
<1> QED
  BY <1>4, <1>6, <1>7, <1>8, <1>9, <1>10, <1>11 DEF IInv, Types

-----------------------------------------------------------------------------
(* Descriptors *)

\* A set of naturals that has a member has a least one, which Min() picks.
LEMMA Lowest ==
  ASSUME NEW T, T \subseteq Nat, T # {}
  PROVE  Min(T) \in T
<1> DEFINE R == {p \in Nat \X Nat : p[1] < p[2]}
<1>1. IsWellFoundedOn(R, Nat)
  BY NatLessThanWellFounded DEF OpToRel
<1>2. PICK x \in T : \A y \in T : ~ (<<y, x>> \in R)
  BY <1>1, WFMin
<1>3. ASSUME NEW y \in T
      PROVE  x <= y
  <2>1. x \in Nat /\ y \in Nat /\ ~ (<<y, x>> \in R)
    BY <1>2
  <2> QED
    BY <2>1
<1> QED
  BY <1>3 DEF Min

\* A descriptor that is opened was free, and all others stay what they were.
LEMMA Opening ==
  ASSUME SocketTypes, NEW whose \in {"worker", "others"}, Open(whose)
  PROVE  LET new == Min(Unused)
         IN  /\ new \in Fds /\ new # 0 /\ table[new] = "free"
             /\ table' = [table EXCEPT ![new] = whose]
             /\ table' \in [Fds -> {"free", "worker", "others"}]
             /\ table'[new] = whose
             /\ \A fd \in Fds : fd # new => table'[fd] = table[fd]
<1> DEFINE new == Min(Unused)
<1>1. Unused # {} /\ Unused \subseteq Nat /\ Unused \subseteq Fds /\ table' = [table EXCEPT ![new] = whose]
  BY LoginAssumption DEF Open, Unused
<1>2. new \in Unused
  BY <1>1, Lowest
<1>3. new \in Fds /\ new # 0 /\ table[new] = "free"
  BY <1>1, <1>2, LoginAssumption DEF Unused
<1> HIDE DEF new
<1>4. /\ table' \in [Fds -> {"free", "worker", "others"}] /\ table'[new] = whose
      /\ \A fd \in Fds : fd # new => table'[fd] = table[fd]
  BY <1>1, <1>3 DEF SocketTypes
<1> QED
  BY <1>1, <1>3, <1>4 DEF new

\* close() of what nothing watches.
LEMMA Closing ==
  ASSUME SocketTypes, NEW fds, Close(fds)
  PROVE  /\ table' \in [Fds -> {"free", "worker", "others"}]
         /\ shut' \subseteq Fds /\ shut' = shut \ fds
         /\ \A fd \in Fds : fd \notin fds => table'[fd] = table[fd]
  BY DEF SocketTypes, Close

LEMMA OtherOpening ==
  ASSUME IInv, OthersOpen
  PROVE  IInv'
<1>1. /\ UNCHANGED <<loopVars, at, method, tries, passwords, promptVars, stopping, wake, watched, shut,
                     sockets, proxy, reports, history, link, scope>>
      /\ Open("others") /\ SocketTypes
  BY DEF OthersOpen, loopVars, IInv, Types
<1>2. PICK new \in Fds : /\ table[new] = "free"
                         /\ table' \in [Fds -> {"free", "worker", "others"}]
                         /\ \A fd \in Fds : fd # new => table'[fd] = table[fd]
  BY <1>1, Opening
<1>3. Prompting' /\ PromptTypes'
  BY <1>1, PromptsStay
<1>4. SocketTypes'
  BY <1>1, <1>2 DEF SocketTypes
<1>5. Sockets'
  BY <1>1, <1>2 DEF IInv, Sockets, SocketTypes
<1>6. Reporting'
  BY <1>1, Unreported
<1>7. LoopTypes'
  BY <1>1, LoopTypesStay
<1>8. PlaceTypes'
  BY <1>1 DEF IInv, Types, PlaceTypes
<1>9. Showing' /\ Forwarding' /\ Connected' /\ Polling'
  BY <1>1, LoopStays
<1> QED
  BY <1>3, <1>4, <1>5, <1>6, <1>7, <1>8, <1>9 DEF IInv, Types

LEMMA ProxyEnding ==
  ASSUME IInv, ProxyEnds
  PROVE  IInv'
<1>1. /\ UNCHANGED <<loopVars, at, method, tries, passwords, promptVars, stopping, wake, table, watched,
                     shut, sockets, reports, history, link, scope>>
      /\ proxy' = "ended"
  BY DEF ProxyEnds, loopVars
<1>2. Prompting' /\ PromptTypes'
  BY <1>1, PromptsStay
<1>3. SocketTypes'
  BY <1>1 DEF IInv, Types, SocketTypes
<1>4. Sockets'
  BY <1>1 DEF IInv, Sockets
<1>5. Reporting'
  BY <1>1, Unreported
<1>6. LoopTypes'
  BY <1>1, LoopTypesStay
<1>7. PlaceTypes'
  BY <1>1 DEF IInv, Types, PlaceTypes
<1>8. Showing' /\ Forwarding' /\ Connected' /\ Polling'
  BY <1>1, LoopStays
<1> QED
  BY <1>2, <1>3, <1>4, <1>5, <1>6, <1>7, <1>8 DEF IInv, Types

\* The socket at hand is that of the jump host, or of the host.
LEMMA AtHand ==
  ASSUME SocketTypes
  PROVE  /\ Whose \in {"jump", "own"}
         /\ Whose = "jump" => sockets[Whose] = sockets.jump
         /\ Whose = "own" => sockets[Whose] = sockets.own
         /\ sockets[Whose] \in Fds \cup {0}
         /\ at \in {"jumpSocket", "jumpWatch", "jumpConnect", "jumpVerify", "jumpLogin", "pair"} <=> Whose = "jump"
         /\ \A fd : [sockets EXCEPT ![Whose] = fd] =
                [jump |-> IF Whose = "jump" THEN fd ELSE sockets.jump,
                 own |-> IF Whose = "own" THEN fd ELSE sockets.own]
  BY DEF SocketTypes, Whose, WithJump

\* The questions while the worker is not asking, wherever it goes.
LEMMA Unasked ==
  ASSUME IInv, UNCHANGED <<promptVars, history, scope>>, at \in LoginPlaces \ (KeyPlaces \cup Logins)
  PROVE  Prompting' /\ PromptTypes'
<1>1. asking = "no" /\ at \notin Leaving
  BY DEF IInv, Prompting, LoginPlaces, Leaving, KeyPlaces, Logins
<1> QED
  BY <1>1, PromptsStay

LEMMA Addressing ==
  ASSUME IInv, TryAddress
  PROVE  IInv'
<1>1. /\ at \in {"jumpSocket", "socket"} /\ sockets[Whose] = 0
      /\ UNCHANGED <<loopVars, method, tries, passwords, promptVars, stopping, wake, watched, shut, proxy,
                     history, link, scope>>
      /\ at \in LoginPlaces /\ at \in LoginPlaces \ (KeyPlaces \cup Logins)
  BY DEF TryAddress, loopVars, LoginPlaces, KeyPlaces, Logins
<1>2. Prompting' /\ PromptTypes'
  BY <1>1, Unasked
<1>3. Types /\ SocketTypes /\ Sockets
  BY DEF IInv, Types
<1>4. CASE Fail /\ UNCHANGED <<table, sockets>>
  <2>1. UNCHANGED socketVars
    BY <1>1, <1>4 DEF socketVars
  <2> QED
    BY <1>1, <1>2, <1>3, <1>4, <2>1, Failing DEF Types, PlaceTypes
<1>5. CASE /\ Open("worker") /\ sockets' = [sockets EXCEPT ![Whose] = Min(Unused)]
           /\ UNCHANGED <<at, reports>>
  <2>1. PICK new \in Fds : /\ table[new] = "free" /\ new # 0 /\ table'[new] = "worker"
                           /\ table' \in [Fds -> {"free", "worker", "others"}]
                           /\ \A fd \in Fds : fd # new => table'[fd] = table[fd]
                           /\ sockets' = [sockets EXCEPT ![Whose] = new]
    BY <1>3, <1>5, Opening
  <2>2. /\ Whose = "jump" => sockets' = [jump |-> new, own |-> sockets.own]
        /\ Whose = "own" => sockets' = [jump |-> sockets.jump, own |-> new]
        /\ Whose \in {"jump", "own"}
    BY <1>3, <2>1, AtHand
  <2>3. SocketTypes'
    BY <1>1, <1>3, <2>1, <2>2 DEF SocketTypes
  <2>4. ~link.up /\ watched = {}
    BY <1>1, <1>3, NotUp DEF Sockets
  <2>5. \A fd \in Fds : table[fd] = "worker" => fd # new
    BY <2>1
  <2>6. Sockets'
    BY <1>1, <1>3, <1>5, <2>1, <2>2, <2>4, <2>5 DEF Sockets, SocketTypes, KeyPlaces
  <2>7. Reporting'
    BY <1>1, <1>5, Unreported
  <2>8. PlaceTypes'
    BY <1>1, <1>3, <1>5 DEF Types, PlaceTypes
  <2> QED
    BY <1>1, <1>2, <1>5, <2>3, <2>6, <2>7, <2>8, LoginOnly
<1> QED
  BY <1>4, <1>5 DEF TryAddress

\* The socket at hand, which nothing watches yet, is closed.
LEMMA AddressClosing ==
  ASSUME IInv, UNCHANGED <<watched, stopping, history, link, proxy>>, at' = at,
         at \in {"jumpSocket", "socket"},
         Close({sockets[Whose]}), sockets' = [sockets EXCEPT ![Whose] = 0]
  PROVE  Sockets' /\ SocketTypes'
<1>1. SocketTypes /\ Sockets /\ watched = {} /\ ~link.up
  BY NotUp DEF IInv, Types, Sockets, LoginPlaces
<1>2. /\ table' \in [Fds -> {"free", "worker", "others"}] /\ shut' \subseteq Fds
      /\ \A fd \in Fds : fd # sockets[Whose] => table'[fd] = table[fd]
  BY <1>1, Closing
<1>3. CASE Whose = "jump"
  <2>1. sockets' = [jump |-> 0, own |-> sockets.own] /\ sockets[Whose] = sockets.jump
    BY <1>1, <1>3, AtHand
  <2>2. SocketTypes'
    BY <1>1, <1>2, <2>1 DEF SocketTypes
  <2>3. sockets.own # 0 => table'[sockets.own] = "worker"
    BY <1>1, <1>2, <2>1 DEF Sockets, SocketTypes
  <2> QED
    BY <1>1, <1>2, <2>1, <2>2, <2>3 DEF Sockets, KeyPlaces
<1>4. CASE Whose = "own"
  <2>1. sockets' = [jump |-> sockets.jump, own |-> 0] /\ sockets[Whose] = sockets.own
    BY <1>1, <1>4, AtHand
  <2>2. SocketTypes'
    BY <1>1, <1>2, <2>1 DEF SocketTypes
  <2>3. sockets.jump # 0 => table'[sockets.jump] = "worker"
    BY <1>1, <1>2, <2>1 DEF Sockets, SocketTypes
  <2> QED
    BY <1>1, <1>2, <2>1, <2>2, <2>3 DEF Sockets, KeyPlaces
<1> QED
  BY <1>1, <1>3, <1>4, AtHand

LEMMA AddressFailing ==
  ASSUME IInv, AddressFails
  PROVE  IInv'
<1>1. /\ at \in {"jumpSocket", "socket"} /\ at' = at /\ tries' = tries + 1
      /\ UNCHANGED <<loopVars, method, passwords, promptVars, stopping, wake, watched, proxy, reports,
                     history, link, scope>>
      /\ at \in LoginPlaces /\ at \in LoginPlaces \ (KeyPlaces \cup Logins)
      /\ Close({sockets[Whose]}) /\ sockets' = [sockets EXCEPT ![Whose] = 0]
  BY DEF AddressFails, loopVars, LoginPlaces, KeyPlaces, Logins
<1>2. Prompting' /\ PromptTypes'
  BY <1>1, Unasked
<1>3. Sockets' /\ SocketTypes'
  BY <1>1, AddressClosing
<1>4. Reporting'
  BY <1>1, Unreported
<1>5. PlaceTypes'
  BY <1>1 DEF IInv, Types, PlaceTypes
<1> QED
  BY <1>1, <1>2, <1>3, <1>4, <1>5, LoginOnly

LEMMA AddressWaking ==
  ASSUME IInv, AddressWakes
  PROVE  IInv'
<1>1. /\ at \in {"jumpSocket", "socket"} /\ at' = at /\ wake' = FALSE
      /\ UNCHANGED <<loopVars, method, tries, passwords, promptVars, stopping, watched, proxy, reports,
                     history, link, scope>>
      /\ at \in LoginPlaces /\ at \in LoginPlaces \ (KeyPlaces \cup Logins)
  BY DEF AddressWakes, loopVars, LoginPlaces, KeyPlaces, Logins
<1>2. Prompting' /\ PromptTypes'
  BY <1>1, Unasked
<1>3. Sockets' /\ SocketTypes'
  <2>1. CASE Close({sockets[Whose]}) /\ sockets' = [sockets EXCEPT ![Whose] = 0]
    BY <1>1, <2>1, AddressClosing
  <2>2. CASE UNCHANGED <<table, shut, sockets>>
    BY <1>1, <2>2, SocketsStay DEF socketVars
  <2> QED
    BY <2>1, <2>2 DEF AddressWakes
<1>4. Reporting'
  BY <1>1, Unreported
<1>5. PlaceTypes'
  BY <1>1 DEF IInv, Types, PlaceTypes
<1> QED
  BY <1>1, <1>2, <1>3, <1>4, <1>5, LoginOnly

LEMMA AddressConnecting ==
  ASSUME IInv, AddressConnects
  PROVE  IInv'
<1>1. /\ at \in {"jumpSocket", "socket"} /\ at' = Beyond[at] /\ tries' = 0 /\ sockets[Whose] # 0
      /\ UNCHANGED <<loopVars, method, passwords, promptVars, stopping, wake, socketVars, reports,
                     history, link, scope>>
      /\ at \in LoginPlaces /\ at \in LoginPlaces \ (KeyPlaces \cup Logins)
  BY DEF AddressConnects, Proceed, loopVars, LoginPlaces, KeyPlaces, Logins
<1>2. /\ at = "jumpSocket" => at' = "jumpWatch" /\ sockets.jump # 0
      /\ at = "socket" => at' = "watch" /\ sockets.own # 0
      /\ at' \in LoginPlaces /\ at' \in Places
  BY <1>1, Next0, AtHand DEF LoginPlaces, Places, IInv, Types
<1>3. Prompting' /\ PromptTypes'
  BY <1>1, Unasked
<1>4. ~link.up /\ watched = {}
  BY <1>1, NotUp DEF IInv, Sockets
<1>5. SocketTypes'
  BY <1>1 DEF IInv, Types, SocketTypes, socketVars
<1>6. Sockets'
  BY <1>1, <1>2, <1>4 DEF IInv, Sockets, socketVars, KeyPlaces
<1>7. Reporting'
  BY <1>1, <1>2, Unreported DEF Leaving
<1>8. PlaceTypes'
  BY <1>1, <1>2 DEF IInv, Types, PlaceTypes
<1> QED
  BY <1>1, <1>2, <1>3, <1>5, <1>6, <1>7, <1>8, LoginOnly

LEMMA Watching ==
  ASSUME IInv, WatchSocket
  PROVE  IInv'
<1>1. /\ at \in {"jumpWatch", "pairWatch", "watch"} /\ at' = Beyond[at] /\ tries' = 0
      /\ watched' = watched \cup {sockets[Whose]}
      /\ shut' = IF Stopped THEN shut \cup {sockets[Whose]} ELSE shut
      /\ UNCHANGED <<loopVars, method, passwords, promptVars, stopping, wake, table, sockets, proxy,
                     reports, history, link, scope>>
      /\ at \in LoginPlaces /\ at \in LoginPlaces \ (KeyPlaces \cup Logins)
  BY DEF WatchSocket, Proceed, loopVars, LoginPlaces, KeyPlaces, Logins
<1>2. /\ at = "jumpWatch" => at' = "jumpConnect" /\ sockets[Whose] = sockets.jump /\ sockets.jump # 0
      /\ at # "jumpWatch" => at' = "connect" /\ sockets[Whose] = sockets.own /\ sockets.own # 0
      /\ at' \in LoginPlaces /\ at' \in Places
  BY <1>1, Next0, AtHand DEF LoginPlaces, Places, IInv, Types, Sockets
<1>3. Prompting' /\ PromptTypes'
  BY <1>1, Unasked
<1>4. ~link.up /\ sockets[Whose] \in Fds /\ table[sockets[Whose]] = "worker"
  BY <1>1, <1>2, NotUp, AtHand DEF IInv, Types, Sockets
<1>5. SocketTypes'
  BY <1>1, <1>4 DEF IInv, Types, SocketTypes
<1>6. Sockets'
  BY <1>1, <1>2, <1>4 DEF IInv, Sockets, KeyPlaces, Stopped
<1>7. Reporting'
  BY <1>1, <1>2, Unreported DEF Leaving
<1>8. PlaceTypes'
  BY <1>1, <1>2 DEF IInv, Types, PlaceTypes
<1> QED
  BY <1>1, <1>2, <1>3, <1>5, <1>6, <1>7, <1>8, LoginOnly

-----------------------------------------------------------------------------
(* Logging in *)

\* Nothing is asked any more, after an answer or on the way out.
LEMMA Asked ==
  ASSUME IInv, UNCHANGED <<asked, answered, answer, queue, shown, history, scope>>, asking' = "no",
         (~Waits /\ at \notin Leaving) \/ at' \in Leaving
  PROVE  Prompting' /\ PromptTypes'
<1>1. PromptTypes'
  BY DEF IInv, Types, PromptTypes
<1>2. Prompting'
  BY DEF IInv, Prompting, Waits
<1> QED
  BY <1>1, <1>2

\* The login goes on where it was, or from one place to the next.
LEMMA GoingOn ==
  ASSUME IInv, UNCHANGED <<loopVars, socketVars, stopping, wake, history, reports>>, at \in LoginPlaces,
         \/ at' = at
         \/ at' = Beyond[at] /\ at \in KeyPlaces \cup Logins \cup
                {"connect", "verify", "jumpConnect", "jumpVerify"},
         tries' \in Nat, passwords' \subseteq Logins,
         method' \in {"none", "key", "password", "interactive"}, Prompting', PromptTypes'
  PROVE  IInv'
<1>1. link' = link /\ ~link.up
  BY NotUp DEF loopVars
<1>2. \/ at' = at
      \/ at \in KeyPlaces /\ at' \in {"key", "jumpSocket", "socket"}
      \/ at \in {"connect", "verify", "login"} /\ at' \in {"verify", "login", "shell"}
      \/ at \in {"jumpConnect", "jumpVerify", "jumpLogin"} /\ at' \in {"jumpVerify", "jumpLogin", "pair"}
  BY Next0 DEF KeyPlaces, Logins
<1>3. at' \in LoginPlaces /\ at' \in Places /\ at \notin Leaving \cup {"finish"}
  BY <1>2 DEF LoginPlaces, Places, KeyPlaces, Logins, Leaving
<1>4. Sockets' /\ SocketTypes'
  <2>1. CASE at \in KeyPlaces /\ at' \in {"key", "jumpSocket", "socket"}
    <3>1. watched = {}
      BY <2>1 DEF IInv, Sockets
    <3> QED
      BY <1>1, <2>1, <3>1, SocketsStay
  <2>2. CASE at \in {"jumpConnect", "jumpVerify", "jumpLogin"} /\ at' \in {"jumpVerify", "jumpLogin", "pair"}
    BY <1>1, <2>2, SocketsStay DEF KeyPlaces
  <2> QED
    BY <1>1, <1>2, <2>1, <2>2, SocketsStay
<1>5. Reporting'
  BY <1>1, <1>3, Unreported
<1>6. PlaceTypes'
  BY <1>3 DEF IInv, Types, PlaceTypes
<1> QED
  BY <1>3, <1>4, <1>5, <1>6, LoginOnly

\* A question is put to the user, or nobody may be asked and the login fails.
LEMMA Asking ==
  ASSUME IInv, Ask, at \in KeyPlaces \cup Logins, asking = "no" \/ (asking = "answered" /\ at \in KeyPlaces),
         UNCHANGED <<loopVars, socketVars, stopping, wake, method, history, passwords>>, tries' \in Nat
  PROVE  IInv'
<1>1. /\ at \in LoginPlaces /\ at \notin Leaving /\ scope' = scope /\ Prompting /\ PromptTypes /\ Types
      /\ scope.noPrompts \in BOOLEAN /\ queue = <<>> /\ shown = 0
  BY Scoped DEF LoginPlaces, Leaving, KeyPlaces, Logins, loopVars, IInv, Types, Prompting, Waits
<1>2. CASE scope.noPrompts
  <2>1. Fail /\ UNCHANGED promptVars
    BY <1>2 DEF Ask, Unanswerable
  <2>2. asking = "no"
    BY <1>1, <1>2 DEF Prompting, KeyPlaces, Logins
  <2>3. Prompting' /\ PromptTypes'
    BY <1>1, <2>1, <2>2, PromptsStay
  <2> QED
    BY <1>1, <2>1, <2>3, Failing DEF Types, PlaceTypes
<1>3. CASE ~scope.noPrompts
  <2>1. /\ asking' = "locked" /\ asked' = asked + 1 /\ answered' = FALSE
        /\ queue' = Append(queue, asked + 1) /\ UNCHANGED <<answer, shown, at, reports>>
    BY <1>3 DEF Ask
  <2>2. asked \in Nat /\ asked + 1 \in Nat
    BY <1>1 DEF PromptTypes
  <2>3. queue' = <<asked + 1>> /\ <<asked + 1>> \in Seq(Nat)
    BY <1>1, <2>1, <2>2
  <2>6. PromptTypes'
    BY <1>1, <2>1, <2>2, <2>3 DEF PromptTypes
  <2>4. answer <= asked' /\ \A i \in 1..Len(queue') : queue'[i] <= asked'
    BY <1>1, <2>1, <2>2, <2>3 DEF Prompting, PromptTypes
  <2>5. Prompting'
    BY <1>1, <1>3, <2>1, <2>2, <2>3, <2>4 DEF Prompting, PromptTypes, Waits
  <2> QED
    BY <1>1, <2>1, <2>5, <2>6, GoingOn DEF Types, PlaceTypes
<1> QED
  BY <1>1, <1>2, <1>3

LEMMA CallFailing ==
  ASSUME IInv, CallFails
  PROVE  IInv'
<1>1. /\ at \in LoginPlaces /\ Fail /\ asking' = "no" /\ at' \in Leaving
      /\ UNCHANGED <<loopVars, method, tries, passwords, asked, answered, answer, queue, shown, stopping,
                     wake, socketVars, history, scope>>
  BY DEF CallFails, InCall, Fail, CleanUp, LoginPlaces, Leaving, Logins, loopVars
<1>2. Prompting' /\ PromptTypes'
  BY <1>1, Asked
<1> QED
  BY <1>1, <1>2, Failing DEF IInv, Types, PlaceTypes

LEMMA Connecting ==
  ASSUME IInv, Connect
  PROVE  IInv'
<1>1. /\ at \in {"jumpConnect", "connect"} /\ at \in LoginPlaces /\ at \in LoginPlaces \ (KeyPlaces \cup Logins)
      /\ UNCHANGED <<loopVars, method, passwords, promptVars, stopping, wake, socketVars, history, scope>>
  BY DEF Connect, LoginPlaces, KeyPlaces, Logins, loopVars
<1>2. Prompting' /\ PromptTypes'
  BY <1>1, Unasked
<1>3. CASE Stopped /\ Leave /\ UNCHANGED tries
  BY <1>1, <1>2, <1>3, Failing DEF IInv, Types, PlaceTypes
<1>4. CASE Proceed
  BY <1>1, <1>2, <1>4, GoingOn DEF Proceed, IInv, Types, PlaceTypes
<1> QED
  BY <1>3, <1>4 DEF Connect

LEMMA Verifying ==
  ASSUME IInv, VerifyHost
  PROVE  IInv'
<1>1. /\ at \in {"jumpVerify", "verify"} /\ at \in LoginPlaces /\ at \in LoginPlaces \ (KeyPlaces \cup Logins)
      /\ UNCHANGED <<loopVars, passwords, promptVars, stopping, wake, socketVars, history, scope>>
      /\ method' = "none" /\ Proceed
  BY DEF VerifyHost, LoginPlaces, KeyPlaces, Logins, loopVars
<1>2. Prompting' /\ PromptTypes'
  BY <1>1, Unasked
<1> QED
  BY <1>1, <1>2, GoingOn DEF Proceed, IInv, Types, PlaceTypes

LEMMA Refusing ==
  ASSUME IInv, HostIsRefused
  PROVE  IInv'
<1>1. /\ at \in {"jumpVerify", "verify"} /\ at \in LoginPlaces /\ at \in LoginPlaces \ (KeyPlaces \cup Logins)
      /\ UNCHANGED <<loopVars, method, tries, passwords, promptVars, stopping, wake, socketVars, history, scope>>
      /\ Fail
  BY DEF HostIsRefused, LoginPlaces, KeyPlaces, Logins, loopVars
<1>2. Prompting' /\ PromptTypes'
  BY <1>1, Unasked
<1> QED
  BY <1>1, <1>2, Failing DEF IInv, Types, PlaceTypes

LEMMA Reaching ==
  ASSUME IInv, ReachHost
  PROVE  IInv'
<1>1. /\ at = "pair" /\ at' = "pairWatch" /\ tries' = 0 /\ proxy' = "running"
      /\ UNCHANGED <<loopVars, method, passwords, promptVars, stopping, wake, watched, shut, reports,
                     history, link, scope>>
      /\ Open("worker") /\ sockets' = [sockets EXCEPT !.own = Min(Unused)]
      /\ at \in LoginPlaces /\ at \in LoginPlaces \ (KeyPlaces \cup Logins)
      /\ at' \in LoginPlaces /\ at' \in Places
  BY Next0 DEF ReachHost, Proceed, LoginPlaces, Places, KeyPlaces, Logins, loopVars
<1>2. Prompting' /\ PromptTypes'
  BY <1>1, Unasked
<1>3. Types /\ SocketTypes /\ Sockets /\ ~link.up
  BY <1>1, NotUp DEF IInv, Types
<1>4. PICK new \in Fds : /\ table[new] = "free" /\ new # 0 /\ table'[new] = "worker"
                         /\ table' \in [Fds -> {"free", "worker", "others"}]
                         /\ \A fd \in Fds : fd # new => table'[fd] = table[fd]
                         /\ sockets' = [sockets EXCEPT !.own = new]
  BY <1>1, <1>3, Opening
<1>5. sockets' = [jump |-> sockets.jump, own |-> new]
  BY <1>3, <1>4 DEF SocketTypes
<1>6. SocketTypes'
  BY <1>1, <1>3, <1>4, <1>5 DEF SocketTypes
<1>7. \A fd \in Fds : table[fd] = "worker" => fd # new
  BY <1>4
<1>8. Sockets'
  BY <1>1, <1>3, <1>4, <1>5, <1>7 DEF Sockets, SocketTypes, KeyPlaces
<1>9. Reporting'
  BY <1>1, Unreported DEF Leaving
<1>10. PlaceTypes'
  BY <1>1, <1>3 DEF Types, PlaceTypes
<1> QED
  BY <1>1, <1>2, <1>6, <1>8, <1>9, <1>10, LoginOnly

LEMMA KeyLoading ==
  ASSUME IInv, LoadKey
  PROVE  IInv'
<1>1. /\ at \in KeyPlaces /\ at \in LoginPlaces /\ at \notin Leaving /\ asking = "no"
      /\ UNCHANGED <<loopVars, method, passwords, stopping, wake, socketVars, history, scope>>
  BY DEF LoadKey, KeyPlaces, LoginPlaces, Leaving, loopVars
<1>2. CASE Ask /\ UNCHANGED tries
  BY <1>1, <1>2, Asking DEF IInv, Types, PlaceTypes
<1>3. CASE Proceed /\ UNCHANGED promptVars
  <2>1. Prompting' /\ PromptTypes'
    BY <1>1, <1>3, PromptsStay
  <2> QED
    BY <1>1, <1>3, <2>1, GoingOn DEF Proceed, IInv, Types, PlaceTypes
<1> QED
  BY <1>2, <1>3 DEF LoadKey

LEMMA KeyBeingBad ==
  ASSUME IInv, KeyIsBad
  PROVE  IInv'
<1>1. /\ at \in KeyPlaces /\ at \in LoginPlaces /\ at \notin Leaving /\ asking = "no" /\ Fail
      /\ UNCHANGED <<loopVars, method, tries, passwords, promptVars, stopping, wake, socketVars, history, scope>>
  BY DEF KeyIsBad, KeyPlaces, LoginPlaces, Leaving, loopVars
<1>2. Prompting' /\ PromptTypes'
  BY <1>1, PromptsStay
<1> QED
  BY <1>1, <1>2, Failing DEF IInv, Types, PlaceTypes

LEMMA Decrypting ==
  ASSUME IInv, Decrypt
  PROVE  IInv'
<1>1. /\ at \in KeyPlaces /\ at \in LoginPlaces /\ at \notin Leaving /\ ~Waits /\ asking' = "no" /\ Proceed
      /\ UNCHANGED <<loopVars, method, passwords, asked, answered, answer, queue, shown, stopping, wake,
                     socketVars, history, scope>>
  BY DEF Decrypt, KeyPlaces, LoginPlaces, Leaving, Waits, loopVars
<1>2. Prompting' /\ PromptTypes'
  BY <1>1, Asked
<1> QED
  BY <1>1, <1>2, GoingOn DEF Proceed, IInv, Types, PlaceTypes

LEMMA MistakingPassphrase ==
  ASSUME IInv, WrongPassphrase
  PROVE  IInv'
<1>1. /\ at \in KeyPlaces /\ at \in LoginPlaces /\ at \notin Leaving /\ asking = "answered" /\ ~Waits
      /\ UNCHANGED <<loopVars, method, passwords, stopping, wake, socketVars, history, scope>>
      /\ tries' = tries + 1
  BY DEF WrongPassphrase, KeyPlaces, LoginPlaces, Leaving, Waits, loopVars
<1>2. tries' \in Nat /\ passwords \subseteq Logins
  BY <1>1 DEF IInv, Types, PlaceTypes
<1>3. CASE Fail /\ asking' = "no" /\ UNCHANGED <<asked, answered, answer, queue, shown>>
  <2>1. Prompting' /\ PromptTypes'
    BY <1>1, <1>3, Asked
  <2> QED
    BY <1>1, <1>2, <1>3, <2>1, Failing
<1>4. CASE Ask
  BY <1>1, <1>2, <1>4, Asking
<1> QED
  BY <1>3, <1>4 DEF WrongPassphrase

LEMMA Authenticating ==
  ASSUME IInv, Authenticated \/ NextMethod \/ OnlyInteractive
  PROVE  IInv'
<1>1. /\ at \in Logins /\ at \in LoginPlaces /\ at \notin Leaving
      /\ UNCHANGED <<loopVars, passwords, asked, answered, answer, queue, shown, stopping, wake,
                     socketVars, history, scope>>
      /\ asking \in {"no", "answered"} /\ ~Waits
  BY DEF Authenticated, NextMethod, OnlyInteractive, InCall, Logins, LoginPlaces, Leaving, Waits, loopVars,
         promptVars
<1>2. Types /\ method \in {"none", "key", "password", "interactive"} /\ tries \in Nat
      /\ passwords \subseteq Logins
  BY DEF IInv, Types, PlaceTypes
<1>3. CASE Authenticated
  <2>1. Prompting' /\ PromptTypes'
    BY <1>1, <1>3, Asked DEF Authenticated
  <2> QED
    BY <1>1, <1>2, <1>3, <2>1, GoingOn DEF Authenticated, Proceed
<1>4. CASE NextMethod
  <2>1. Prompting' /\ PromptTypes'
    BY <1>1, <1>4, Asked DEF NextMethod
  <2>2. method' \in {"none", "key", "password", "interactive"}
    BY <1>4 DEF NextMethod
  <2> QED
    BY <1>1, <1>2, <1>4, <2>1, <2>2, GoingOn DEF NextMethod
<1>5. CASE OnlyInteractive
  <2>1. Prompting' /\ PromptTypes'
    BY <1>1, <1>5, PromptsStay DEF OnlyInteractive
  <2> QED
    BY <1>1, <1>2, <1>5, <2>1, GoingOn DEF OnlyInteractive
<1> QED
  BY <1>3, <1>4, <1>5

\* The password that is known answers instead of the user.
LEMMA Knowing ==
  ASSUME IInv, Know, at \in Logins, asking = "no",
         UNCHANGED <<loopVars, socketVars, stopping, wake, method, tries, history>>
  PROVE  IInv'
<1>1. /\ at \in LoginPlaces /\ at \notin Leaving /\ scope' = scope
      /\ asking' = "answered" /\ passwords' = passwords \ {at}
      /\ UNCHANGED <<at, asked, answered, answer, queue, shown, reports>>
  BY DEF Know, LoginPlaces, Leaving, Logins, loopVars
<1>2. Types /\ method \in {"none", "key", "password", "interactive"} /\ tries \in Nat
      /\ passwords \subseteq Logins
  BY DEF IInv, Types, PlaceTypes
<1>3. Prompting' /\ PromptTypes'
  BY <1>1, <1>2 DEF IInv, Types, Prompting, PromptTypes, Waits
<1> QED
  BY <1>1, <1>2, <1>3, GoingOn

LEMMA PasswordGetting ==
  ASSUME IInv, GetPassword
  PROVE  IInv'
<1>1. /\ at \in Logins /\ asking = "no"
      /\ UNCHANGED <<loopVars, method, tries, stopping, wake, socketVars, history>>
  BY DEF GetPassword
<1>2. CASE Know
  BY <1>1, <1>2, Knowing
<1>3. CASE Ask /\ UNCHANGED passwords
  BY <1>1, <1>3, Asking DEF IInv, Types, PlaceTypes
<1> QED
  BY <1>2, <1>3 DEF GetPassword

LEMMA MistakingPassword ==
  ASSUME IInv, WrongPassword \/ AnswerRound
  PROVE  IInv'
<1>1. /\ at \in LoginPlaces /\ at \notin Leaving /\ ~Waits /\ asking' = "no" /\ tries' = tries + 1
      /\ UNCHANGED <<loopVars, method, passwords, asked, answered, answer, queue, shown, stopping, wake,
                     socketVars, history, scope>>
      /\ Fail \/ UNCHANGED <<at, reports>>
  BY DEF WrongPassword, AnswerRound, LoginPlaces, Leaving, Logins, Waits, loopVars
<1>2. /\ method \in {"none", "key", "password", "interactive"} /\ tries' \in Nat
      /\ passwords \subseteq Logins
  BY <1>1 DEF IInv, Types, PlaceTypes
<1>3. Prompting' /\ PromptTypes'
  BY <1>1, Asked
<1> QED
  BY <1>1, <1>2, <1>3, Failing, GoingOn

LEMMA Rounding ==
  ASSUME IInv, Round
  PROVE  IInv'
<1>1. /\ at \in Logins /\ at \in LoginPlaces /\ asking = "no"
      /\ UNCHANGED <<loopVars, method, tries, stopping, wake, socketVars, history, scope>>
  BY DEF Round, LoginPlaces, loopVars
<1>2. tries \in Nat /\ passwords \subseteq Logins
  BY DEF IInv, Types, PlaceTypes
<1>3. CASE (Fail \/ (Stopped /\ Leave)) /\ UNCHANGED <<promptVars, passwords>>
  <2>1. at \notin Leaving
    BY <1>1 DEF Logins, Leaving
  <2>2. Prompting' /\ PromptTypes'
    BY <1>1, <1>3, <2>1, PromptsStay
  <2> QED
    BY <1>1, <1>2, <1>3, <2>2, Failing
<1>4. CASE Know
  BY <1>1, <1>4, Knowing
<1>5. CASE Ask /\ UNCHANGED passwords
  BY <1>1, <1>2, <1>5, Asking
<1> QED
  BY <1>3, <1>4, <1>5 DEF Round

-----------------------------------------------------------------------------
(* The way out *)

\* A step of the way out, taken together.
LEMMA Leavings ==
  ASSUME IInv, UNCHANGED <<loopVars, method, tries, passwords, promptVars, stopping, wake, reports, history>>,
         at \in Leaving, at' \in Leaving, Sockets', SocketTypes'
  PROVE  IInv'
<1>1. UNCHANGED <<scope, link>> /\ at' \in Places
  BY DEF loopVars, Places
<1>2. Prompting' /\ PromptTypes'
  <2>1. asking = "no"
    BY DEF IInv, Prompting, Leaving, KeyPlaces, Logins
  <2> QED
    BY <1>1, <2>1, PromptsStay
<1>3. Reporting'
  BY <1>1, Unreported
<1>4. LoopTypes'
  BY LoopTypesStay
<1>5. PlaceTypes'
  BY <1>1 DEF IInv, Types, PlaceTypes
<1>6. Showing' /\ Forwarding' /\ Connected' /\ Polling'
  BY LoopWaits
<1> QED
  BY <1>2, <1>3, <1>4, <1>5, <1>6 DEF IInv, Types

LEMMA Forgetting ==
  ASSUME IInv, JumpForget \/ Forget
  PROVE  IInv'
<1>1. /\ UNCHANGED <<loopVars, method, tries, passwords, promptVars, stopping, wake, table, shut, sockets,
                     proxy, reports, history, link>>
      /\ at \in Leaving /\ at' \in {"jumpFree", "disconnect"} /\ at' \in Leaving /\ watched' = {}
  BY DEF JumpForget, Forget, Forgotten, Leaving, loopVars
<1>2. SocketTypes'
  BY <1>1 DEF IInv, Types, SocketTypes
<1>3. Sockets'
  BY <1>1, NotUp DEF IInv, Sockets
<1> QED
  BY <1>1, <1>2, <1>3, Leavings

LEMMA Disconnecting ==
  ASSUME IInv, JumpFree \/ Disconnect \/ JoinProxy
  PROVE  IInv'
<1>1. /\ UNCHANGED <<loopVars, method, tries, passwords, promptVars, stopping, wake, watched, reports,
                     history, link>>
      /\ at \in {"jumpFree", "disconnect", "join"} /\ at' \in {"forget", "join", "done"}
      /\ at \in Leaving /\ at' \in Leaving /\ proxy' \in {proxy, "none"}
  BY DEF JumpFree, Disconnect, JoinProxy, Leaving, loopVars
<1>2. SocketTypes /\ Sockets /\ watched = {} /\ ~link.up
  BY <1>1, NotUp DEF IInv, Types, Sockets
<1>3. CASE Close({sockets.jump}) /\ sockets' = [sockets EXCEPT !.jump = 0]
  <2>1. /\ table' \in [Fds -> {"free", "worker", "others"}] /\ shut' \subseteq Fds
        /\ \A fd \in Fds : fd # sockets.jump => table'[fd] = table[fd]
    BY <1>2, <1>3, Closing
  <2>2. sockets' = [jump |-> 0, own |-> sockets.own]
    BY <1>2, <1>3 DEF SocketTypes
  <2>3. SocketTypes'
    BY <1>1, <1>2, <2>1, <2>2 DEF SocketTypes
  <2>4. sockets.own # 0 => table'[sockets.own] = "worker"
    BY <1>2, <2>1 DEF Sockets, SocketTypes
  <2>5. Sockets'
    BY <1>1, <1>2, <2>2, <2>4 DEF Sockets
  <2> QED
    BY <1>1, <2>3, <2>5, Leavings
<1>4. CASE Close({sockets.own}) /\ sockets' = [sockets EXCEPT !.own = 0]
  <2>1. /\ table' \in [Fds -> {"free", "worker", "others"}] /\ shut' \subseteq Fds
        /\ \A fd \in Fds : fd # sockets.own => table'[fd] = table[fd]
    BY <1>2, <1>4, Closing
  <2>2. sockets' = [jump |-> sockets.jump, own |-> 0]
    BY <1>2, <1>4 DEF SocketTypes
  <2>3. SocketTypes'
    BY <1>1, <1>2, <2>1, <2>2 DEF SocketTypes
  <2>4. sockets.jump # 0 => table'[sockets.jump] = "worker"
    BY <1>2, <2>1 DEF Sockets, SocketTypes
  <2>5. Sockets'
    BY <1>1, <1>2, <2>2, <2>4 DEF Sockets
  <2> QED
    BY <1>1, <2>3, <2>5, Leavings
<1> QED
  BY <1>3, <1>4 DEF JumpFree, Disconnect, JoinProxy

\* Every step of a login keeps the invariant.
LEMMA LoginSteps ==
  ASSUME IInv,
         \/ LoginRuns \/ AddressConnects \/ CallFails \/ Connect \/ HostIsRefused \/ ReachHost
         \/ KeyIsBad \/ WrongPassphrase
         \/ Authenticated \/ NextMethod \/ OnlyInteractive \/ WrongPassword \/ Round
         \/ ProxyEnds \/ OthersOpen
         \/ ShowPrompt \/ AnswerPrompt \/ Stop \/ StopSignals \/ StopShuts
  PROVE  IInv'
<1>1. CASE LoginRuns
  BY <1>1, Taking, GivingUp, Deciding, Addressing, AddressFailing, AddressWaking, Watching, Verifying,
     KeyLoading, Decrypting, PasswordGetting, MistakingPassword, Forgetting, Disconnecting DEF LoginRuns
<1>2. CASE AddressConnects \/ CallFails \/ Connect \/ HostIsRefused \/ ReachHost \/ KeyIsBad \/ WrongPassphrase
  BY <1>2, AddressConnecting, CallFailing, Connecting, Refusing, Reaching, KeyBeingBad, MistakingPassphrase
<1>3. CASE Authenticated \/ NextMethod \/ OnlyInteractive \/ WrongPassword \/ Round
  BY <1>3, Authenticating, MistakingPassword, Rounding
<1>4. CASE ProxyEnds \/ OthersOpen \/ ShowPrompt \/ AnswerPrompt \/ Stop \/ StopSignals \/ StopShuts
  BY <1>4, ProxyEnding, OtherOpening, ShowingPrompt, AnsweringPrompt, Stopping, StopSignalling, StopShutting
<1> QED
  BY <1>1, <1>2, <1>3, <1>4

-----------------------------------------------------------------------------
(* The server, and the ends of forwarded connections *)

\* What happens outside of the worker, taken together.
LEMMA OutsideOnly ==
  ASSUME IInv, UNCHANGED <<scope, loginVars>>,
         link'.gone = link.gone, link'.unsaid = link.unsaid, link'.up = link.up,
         LoopTypes', Showing', Forwarding', Connected', Polling'
  PROVE  IInv'
<1>1. PlaceTypes' /\ PromptTypes' /\ SocketTypes'
  BY DEF IInv, Types, PlaceTypes, PromptTypes, SocketTypes, loginVars, promptVars, socketVars
<1>2. Prompting'
  BY DEF IInv, Prompting, Waits, loginVars, promptVars
<1>3. Sockets'
  BY DEF IInv, Sockets, loginVars, socketVars
<1>4. Reporting'
  BY DEF IInv, Reporting, Stopped, loginVars
<1> QED
  BY <1>1, <1>2, <1>3, <1>4 DEF IInv, Types

\* What a forwarded connection is to the loop stays what it is while its ends talk.
LEMMA Talking ==
  ASSUME IInv, NEW i \in Ids, NEW s \in Stream, Step(i, s), Kept(i, s),
         LET b == streams[i]
         IN  /\ s.st = b.st \/ (b.st = "none" /\ s.st = "asks" /\ ServerWorks)
             /\ s.chan = b.chan /\ s.channelEof = b.channelEof /\ s.socketEof = b.socketEof
             /\ s.sent = b.sent /\ s.seen = b.seen /\ s.buf = b.buf /\ s.lib = b.lib
             /\ s.read = b.read /\ s.overLib = b.overLib
  PROVE  IInv'
<1>1. /\ UNCHANGED <<scope, ui, link, shell, loginVars, at, wake>> /\ streams' = [streams EXCEPT ![i] = s]
      /\ streams \in [DOMAIN scope.forwards -> Stream] /\ Ids = DOMAIN scope.forwards
      /\ Types
  BY DEF Step, loginVars, IInv, Types, LoopTypes, Ids
<1>2. /\ streams' \in [DOMAIN scope.forwards -> Stream] /\ streams'[i] = s /\ Ids' = Ids
      /\ \A j \in Ids : j # i => streams'[j] = streams[j]
  BY <1>1 DEF Ids
<1>3. LoopTypes'
  BY <1>1, <1>2 DEF Types, LoopTypes, Link, Polled
<1>4. Showing'
  BY <1>1 DEF IInv, Showing
<1>5. Forwarding'
  BY <1>1, <1>2 DEF IInv, Forwarding, Kept, Carried, StreamOK, Ended, Request
<1>6. Connected'
  BY <1>1, <1>2 DEF IInv, Connected, ServerWorks, Looping
<1>7. /\ On' = On /\ (throttled' <=> throttled)
      /\ \A j \in Ids : /\ streams'[j].buf = streams[j].buf /\ streams'[j].lib = streams[j].lib
                        /\ streams'[j].read = streams[j].read /\ streams'[j].overLib = streams[j].overLib
                        /\ streams'[j].st \in {streams[j].st, "asks"}
                        /\ wantsChannelData(streams'[j]) <=> wantsChannelData(streams[j])
                        /\ WatchesIn(streams'[j]) <=> WatchesIn(streams[j])
  BY <1>1, <1>2 DEF On, throttled, wantsChannelData, WatchesIn, WindowLeft
<1>8. Reading' <=> Reading
  BY <1>1, <1>2, <1>7 DEF Reading, On
<1>9. ~Missed(shell, streams) => ~Missed(shell, streams)'
  BY <1>1, <1>2, <1>7 DEF Missed, ShellHasEnded, wantsChannelData
<1>10. Polling'
  <2>1. at = "poll" /\ ~link.missed => link.polls.in = {j \in On : WatchesIn(streams[j])}'
    BY <1>1, <1>2, <1>7 DEF IInv, Polling, On
  <2>2. at = "poll" /\ ~link.missed => link.polls.out = {j \in On : streams[j].buf > 0}'
    BY <1>1, <1>2, <1>7 DEF IInv, Polling, On
  <2>3. at = "poll" /\ link.up /\ ~link.missed /\ link.polls.ssh /\ ~link.polls.buffered =>
          \A j \in On' : wantsChannelData(streams'[j]) => streams'[j].lib = streams'[j].read
    BY <1>1, <1>2, <1>7 DEF IInv, Polling, On
  <2> QED
    BY <1>1, <1>2, <1>7, <1>8, <1>9, <2>1, <2>2, <2>3 DEF IInv, Polling
<1> QED
  BY <1>1, <1>3, <1>4, <1>5, <1>6, <1>10, OutsideOnly

LEMMA ClientConnecting ==
  ASSUME IInv, NEW i \in Ids, ClientConnects(i)
  PROVE  IInv'
<1> DEFINE s == [streams[i] EXCEPT !.st = "asks"]
<1>1. streams[i] \in Stream /\ Kept(i, streams[i]) /\ streams[i].st = "none" /\ Step(i, s) /\ ServerWorks
  BY DEF IInv, Types, LoopTypes, Forwarding, Ids, ClientConnects
<1>2. s \in Stream
  BY <1>1 DEF Stream
<1>3. Kept(i, s)
  BY <1>1 DEF Stream, Kept, Carried, StreamOK, Ended, NoStream
<1> QED
  BY <1>1, <1>2, <1>3, Talking DEF Stream

LEMMA ClientSaying ==
  ASSUME IInv, NEW i \in Ids, ClientSays(i)
  PROVE  IInv'
<1> DEFINE s == [streams[i] EXCEPT !.said = @ + 1]
<1>1. /\ streams[i] \in Stream /\ Kept(i, streams[i]) /\ streams[i].st \in {"fresh", "on"}
      /\ streams[i].ends = "no" /\ Step(i, s)
  BY DEF IInv, Types, LoopTypes, Forwarding, Ids, ClientSays
<1>2. s \in Stream
  BY <1>1 DEF Stream
<1>3. Kept(i, s)
  BY <1>1 DEF Stream, Kept, Carried, StreamOK, Ended, NoStream
<1> QED
  BY <1>1, <1>2, <1>3, Talking DEF Stream

LEMMA ClientEnding ==
  ASSUME IInv, NEW i \in Ids, ClientEnds(i)
  PROVE  IInv'
<1>1. PICK end \in {"eof", "reset"} : Step(i, [streams[i] EXCEPT !.ends = end])
  BY DEF ClientEnds
<1> DEFINE s == [streams[i] EXCEPT !.ends = end]
<1>2. /\ streams[i] \in Stream /\ Kept(i, streams[i]) /\ streams[i].st \in {"fresh", "on"}
      /\ streams[i].ends = "no" /\ Step(i, s)
  BY <1>1 DEF IInv, Types, LoopTypes, Forwarding, Ids, ClientEnds
<1>3. s \in Stream
  BY <1>2 DEF Stream
<1>4. Kept(i, s)
  BY <1>2 DEF Stream, Kept, Carried, StreamOK, Ended, NoStream
<1> QED
  BY <1>2, <1>3, <1>4, Talking DEF Stream

LEMMA ClientTaking ==
  ASSUME IInv, NEW i \in Ids, ClientTakes(i)
  PROVE  IInv'
<1> DEFINE s == [streams[i] EXCEPT !.got = @ + 1]
<1>1. /\ streams[i] \in Stream /\ Kept(i, streams[i]) /\ streams[i].st = "on"
      /\ streams[i].got < streams[i].read - streams[i].buf /\ Step(i, s)
  BY DEF IInv, Types, LoopTypes, Forwarding, Ids, ClientTakes
<1>2. s \in Stream
  BY <1>1 DEF Stream
<1>4. Room \in Nat /\ MaxForwardBuffer \in Nat
  BY WorkerAssumption
<1>5. StreamOK(s) /\ s.read <= s.buf + s.got + Room
  BY <1>1, <1>4 DEF Stream, Kept, Carried, StreamOK
<1>3. Kept(i, s)
  BY <1>1, <1>5 DEF Stream, Kept, Carried, Ended
<1> QED
  BY <1>1, <1>2, <1>3, Talking DEF Stream

LEMMA ServerReplying ==
  ASSUME IInv, NEW i \in Ids, ServerReplies(i)
  PROVE  IInv'
<1> DEFINE s == [streams[i] EXCEPT !.replied = @ + 1]
<1>1. /\ streams[i] \in Stream /\ Kept(i, streams[i]) /\ streams[i].st \in {"fresh", "on"}
      /\ streams[i].chan /\ streams[i].over = "no" /\ Step(i, s)
  BY DEF IInv, Types, LoopTypes, Forwarding, Ids, ServerReplies
<1>2. s \in Stream
  BY <1>1 DEF Stream
<1>3. Kept(i, s)
  BY <1>1 DEF Stream, Kept, Carried, StreamOK, Ended, NoStream
<1> QED
  BY <1>1, <1>2, <1>3, Talking DEF Stream

LEMMA ServerTaking ==
  ASSUME IInv, NEW i \in Ids, ServerTakes(i)
  PROVE  IInv'
<1> DEFINE s == [streams[i] EXCEPT !.taken = @ + 1]
<1>1. /\ streams[i] \in Stream /\ Kept(i, streams[i])
      /\ streams[i].taken < streams[i].sent /\ Step(i, s)
  BY DEF IInv, Types, LoopTypes, Forwarding, Ids, ServerTakes
<1>2. s \in Stream
  BY <1>1 DEF Stream
<1>3. Kept(i, s)
  BY <1>1 DEF Stream, Kept, Carried, StreamOK, Ended, NoStream
<1> QED
  BY <1>1, <1>2, <1>3, Talking DEF Stream

LEMMA ServerEnding ==
  ASSUME IInv, NEW i \in Ids, ServerEnds(i)
  PROVE  IInv'
<1>1. PICK end \in {"eof", "closed"} :
        /\ Step(i, [streams[i] EXCEPT !.over = end])
        /\ (streams[i].over = "no" \/ (streams[i].over # "closed" /\ end = "closed"))
  <2>1. CASE streams[i].over = "no" /\ Step(i, [streams[i] EXCEPT !.over = "eof"])
    BY <2>1
  <2>2. CASE streams[i].over # "closed" /\ Step(i, [streams[i] EXCEPT !.over = "closed"])
    BY <2>2
  <2> QED
    BY <2>1, <2>2 DEF ServerEnds
<1> DEFINE s == [streams[i] EXCEPT !.over = end]
<1>5. streams[i].st \in {"fresh", "on"} /\ streams[i].chan
  BY DEF ServerEnds
<1>6. Step(i, s)
  BY <1>1
<1>2. streams[i] \in Stream /\ Kept(i, streams[i])
  BY DEF IInv, Types, LoopTypes, Forwarding, Ids
<1>3. s \in Stream
  BY <1>2 DEF Stream
<1>4. Kept(i, s)
  BY <1>1, <1>2, <1>5 DEF Stream, Kept, Carried, StreamOK, Ended, NoStream
<1> QED
  BY <1>2, <1>3, <1>4, <1>6, Talking DEF Stream

-----------------------------------------------------------------------------
(* The terminal, the user, and the server of the shell *)

\* What poll() was asked for stays right: a throttle that is let go of wakes it.
LEMMA PollingStays ==
  ASSUME IInv, UNCHANGED <<scope, streams, at>>,
         link'.up = link.up, link'.shell = link.shell, link'.missed = link.missed, link'.polls = link.polls,
         shell'.lib = shell.lib, shell'.read = shell.read, shell'.endLib = shell.endLib,
         (throttled' <=> throttled) \/ wake' \/ ui' = "wake",
         wake \/ ui = "wake" => wake' \/ ui' = "wake"
  PROVE  Polling'
<1>1. On' = On /\ (Reading' <=> Reading) /\ Ids' = Ids
  BY DEF On, Reading, Ids
<1>2. Missed(shell, streams)' <=> Missed(shell, streams)
  BY <1>1 DEF Missed, ShellHasEnded, wantsChannelData
<1>3. {i \in On : WatchesIn(streams[i])}' = {i \in On : WatchesIn(streams[i])}
  BY <1>1 DEF WatchesIn, WindowLeft
<1>4. {i \in On : streams[i].buf > 0}' = {i \in On : streams[i].buf > 0}
  BY <1>1
<1> QED
  BY <1>1, <1>2, <1>3, <1>4 DEF IInv, Polling, wantsChannelData

LEMMA ForwardingStays ==
  ASSUME IInv, UNCHANGED <<scope, streams>>
  PROVE  Forwarding'
  BY DEF IInv, Forwarding, Kept, Carried, StreamOK, Ended, Request

LEMMA Typing ==
  ASSUME IInv, Write
  PROVE  IInv'
<1>1. /\ UNCHANGED <<scope, shell, streams, loginVars, at, wake>> /\ ui' = "wake"
      /\ link' = [link EXCEPT !.typed = @ + 1] /\ link \in Link /\ Types
  BY DEF Write, loginVars, IInv, Types, LoopTypes
<1>2. /\ link'.up = link.up /\ link'.mosh = link.mosh /\ link'.shell = link.shell
      /\ link'.gone = link.gone /\ link'.unsaid = link.unsaid
      /\ link'.missed = link.missed /\ link'.polls = link.polls /\ link'.exited = link.exited
      /\ link'.typed = link.typed + 1 /\ link'.carried = link.carried
      /\ link.typed \in Nat /\ link.carried \in Nat
  BY <1>1 DEF Link
<1>3. link' \in Link
  BY <1>1 DEF Link
<1>4. LoopTypes'
  BY <1>1, <1>3 DEF Types, LoopTypes, Link, Polled
<1>5. Showing'
  BY <1>1, <1>2 DEF IInv, Showing
<1>6. Forwarding'
  BY <1>1, ForwardingStays
<1>7. Connected'
  BY <1>1, <1>2 DEF IInv, Connected, Ids
<1>8. Polling'
  BY <1>1, <1>2, PollingStays
<1> QED
  BY <1>1, <1>2, <1>4, <1>5, <1>6, <1>7, <1>8, OutsideOnly

LEMMA Eating ==
  ASSUME IInv, consumed
  PROVE  IInv'
<1>1. /\ UNCHANGED <<scope, link, streams, loginVars, at, wake>> /\ ui = "idle" /\ shell.eaten < shell.read
      /\ shell' = [shell EXCEPT !.eaten = @ + 1] /\ shell \in Shell /\ Types
      /\ ui' = IF Crosses(shell.read - shell.eaten) THEN "wake" ELSE ui
  BY DEF consumed, UiIsFree, loginVars, IInv, Types, LoopTypes
<1>2. /\ shell'.sent = shell.sent /\ shell'.lib = shell.lib /\ shell'.read = shell.read
      /\ shell'.end = shell.end /\ shell'.endLib = shell.endLib /\ shell'.eaten = shell.eaten + 1
      /\ shell.eaten \in Nat /\ shell.read \in Nat /\ shell' \in Shell /\ MaxUnconsumed \in Nat
  BY <1>1, WorkerAssumption DEF Shell
<1>3. LoopTypes'
  BY <1>1, <1>2 DEF Types, LoopTypes, Link, Polled
<1>4. Showing'
  BY <1>1, <1>2 DEF IInv, Showing
<1>5. Forwarding'
  BY <1>1, ForwardingStays
<1>6. Connected'
  BY <1>1, <1>2 DEF IInv, Connected, Ids
<1>7. (throttled' <=> throttled) \/ ui' = "wake"
  BY <1>1, <1>2 DEF throttled, Crosses
<1>8. Polling'
  BY <1>1, <1>2, <1>7, PollingStays
<1> QED
  BY <1>1, <1>3, <1>4, <1>5, <1>6, <1>8, OutsideOnly

LEMMA ShellTalking ==
  ASSUME IInv, ServerShows \/ ShellEnds
  PROVE  IInv'
<1>1. /\ UNCHANGED <<scope, ui, link, streams, loginVars, at, wake>> /\ ~shell.end
      /\ shell \in Shell /\ Types
      /\ shell' = [shell EXCEPT !.sent = @ + 1] \/ shell' = [shell EXCEPT !.end = TRUE]
  BY DEF ServerShows, ShellEnds, loginVars, IInv, Types, LoopTypes
<1>2. /\ shell'.sent \in {shell.sent, shell.sent + 1} /\ shell'.lib = shell.lib /\ shell'.read = shell.read
      /\ shell'.endLib = shell.endLib /\ shell'.eaten = shell.eaten
      /\ shell.sent \in Nat /\ shell.lib \in Nat /\ shell.read \in Nat /\ shell' \in Shell
  <2>1. CASE shell' = [shell EXCEPT !.sent = @ + 1]
    BY <1>1, <2>1 DEF Shell
  <2>2. CASE shell' = [shell EXCEPT !.end = TRUE]
    BY <1>1, <2>2 DEF Shell
  <2> QED
    BY <1>1, <2>1, <2>2
<1>3. LoopTypes'
  BY <1>1, <1>2 DEF Types, LoopTypes, Link, Polled
<1>4. Showing'
  BY <1>1, <1>2 DEF IInv, Showing
<1>5. Forwarding'
  BY <1>1, ForwardingStays
<1>6. Connected'
  BY <1>1 DEF IInv, Connected, Ids
<1>7. throttled' <=> throttled
  BY <1>2 DEF throttled
<1>8. Polling'
  BY <1>1, <1>2, <1>7, PollingStays
<1> QED
  BY <1>1, <1>3, <1>4, <1>5, <1>6, <1>8, OutsideOnly

LEMMA Dropping ==
  ASSUME IInv, Drop
  PROVE  IInv'
<1>1. /\ UNCHANGED <<scope, ui, shell, streams, loginVars, at, wake>>
      /\ link' = [link EXCEPT !.lost = TRUE] /\ link \in Link /\ Types
  BY DEF Drop, loginVars, IInv, Types, LoopTypes
<1>2. /\ link'.up = link.up /\ link'.mosh = link.mosh /\ link'.shell = link.shell
      /\ link'.gone = link.gone /\ link'.unsaid = link.unsaid
      /\ link'.missed = link.missed /\ link'.polls = link.polls /\ link'.exited = link.exited
      /\ link'.typed = link.typed /\ link'.carried = link.carried /\ link' \in Link
  BY <1>1 DEF Link
<1>3. LoopTypes'
  BY <1>1, <1>2 DEF Types, LoopTypes, Link, Polled
<1>4. Showing'
  BY <1>1, <1>2 DEF IInv, Showing
<1>5. Forwarding'
  BY <1>1, ForwardingStays
<1>6. Connected'
  BY <1>1, <1>2 DEF IInv, Connected, Ids
<1>7. throttled' <=> throttled
  BY <1>1 DEF throttled
<1>8. Polling'
  BY <1>1, <1>2, <1>7, PollingStays
<1> QED
  BY <1>1, <1>2, <1>3, <1>4, <1>5, <1>6, <1>8, OutsideOnly

LEMMA Waking ==
  ASSUME IInv, Wake
  PROVE  IInv'
<1>1. /\ UNCHANGED <<scope, link, shell, streams, at, reports, kept>> /\ ui' = "idle" /\ wake' = TRUE /\ Types
      /\ UNCHANGED <<promptVars, socketVars, stopping, history, method, tries, passwords>>
  BY DEF Wake, IInv, kept
<1>2. LoopTypes'
  BY <1>1 DEF Types, LoopTypes, Link, Polled
<1>3. PlaceTypes' /\ PromptTypes' /\ SocketTypes'
  BY <1>1 DEF Types, PlaceTypes, PromptTypes, SocketTypes, promptVars, socketVars
<1>4. Prompting'
  BY <1>1, PromptsStay
<1>5. Sockets'
  BY <1>1, SocketsStay
<1>6. Reporting'
  BY <1>1, Unreported
<1>7. Showing'
  BY <1>1 DEF IInv, Showing
<1>8. Forwarding'
  BY <1>1, ForwardingStays
<1>9. Connected'
  BY <1>1 DEF IInv, Connected, Ids
<1>10. throttled' <=> throttled
  BY <1>1 DEF throttled
<1>11. Polling'
  BY <1>1, <1>10, PollingStays
<1> QED
  BY <1>2, <1>3, <1>4, <1>5, <1>6, <1>7, <1>8, <1>9, <1>11 DEF IInv, Types

-----------------------------------------------------------------------------
(* The beginning and the end of the loop *)

\* Nothing is asked in the loop, and no socket changes but in closeSsh().
LEMMA InLoop ==
  ASSUME IInv, UNCHANGED <<scope, kept>>, at \in LoopPlaces \cup {"shell", "resume", "finish"},
         at' \in (LoopPlaces \ {"loopDisconnect"}) \cup {"finish", "forget"}, at # "loopDisconnect",
         link'.up => link.up \/ at = "shell"
  PROVE  /\ Prompting' /\ PromptTypes' /\ Sockets' /\ SocketTypes'
         /\ reports' \in Nat /\ wake' \in BOOLEAN => PlaceTypes'
<1>1. /\ UNCHANGED <<method, tries, passwords, promptVars, stopping, socketVars, history>>
      /\ at' \in Places
  BY DEF kept, LoopPlaces, Places, Leaving
<1>2. asking = "no" /\ at \notin Leaving
  BY DEF IInv, Prompting, LoopPlaces, Leaving, KeyPlaces, Logins
<1>3. Prompting' /\ PromptTypes'
  BY <1>1, <1>2, PromptsStay
<1>4. SocketTypes'
  BY <1>1 DEF IInv, Types, SocketTypes, socketVars
<1>5. Sockets'
  BY <1>1 DEF IInv, Sockets, socketVars, LoopPlaces, KeyPlaces
<1>6. reports' \in Nat /\ wake' \in BOOLEAN => PlaceTypes'
  BY <1>1 DEF IInv, Types, PlaceTypes
<1> QED
  BY <1>3, <1>4, <1>5, <1>6

\* closeSsh(): every forwarded connection is cut.
LEMMA Cutting ==
  ASSUME IInv, CloseStreams, scope' = scope
  PROVE  /\ streams' \in [DOMAIN scope.forwards -> Stream] /\ Forwarding'
         /\ \A i \in Ids' : streams'[i].st \in {"none", "gone"}
<1>1. streams \in [DOMAIN scope.forwards -> Stream] /\ Ids = DOMAIN scope.forwards /\ Forwarding
  BY DEF IInv, Types, LoopTypes, Ids
<1>2. ASSUME NEW i \in Ids
      PROVE  streams'[i] \in Stream /\ Kept(i, streams'[i]) /\ streams'[i].st \in {"none", "gone"}
  <2>1. CASE streams[i].st \in {"asks", "fresh", "on"}
    <3>1. streams'[i] = [streams[i] EXCEPT !.st = "gone", !.cut = TRUE] /\ streams[i] \in Stream /\ Kept(i, streams[i])
      BY <1>1, <2>1 DEF CloseStreams, Forwarding
    <3>2. streams'[i] \in Stream
      BY <3>1 DEF Stream
    <3>3. Carried(i, streams'[i])
      BY <3>1 DEF Stream, Kept, Carried, StreamOK
    <3> QED
      BY <3>1, <3>2, <3>3 DEF Stream, Kept, Ended
  <2>2. CASE streams[i].st \notin {"asks", "fresh", "on"}
    <3>1. streams'[i] = streams[i] /\ streams[i] \in Stream
      BY <1>1, <2>2 DEF CloseStreams
    <3> QED
      BY <1>1, <2>2, <3>1 DEF Forwarding, Stream
  <2> QED
    BY <2>1, <2>2
<1>3. streams' \in [DOMAIN scope.forwards -> Stream] /\ Ids' = Ids
  BY <1>1, <1>2 DEF CloseStreams, Ids
<1>4. Forwarding'
  BY <1>1, <1>2 DEF Forwarding, Kept, Carried, StreamOK, Ended, Request
<1> QED
  BY <1>2, <1>3, <1>4

LEMMA ShellStarting ==
  ASSUME IInv, StartShell
  PROVE  IInv'
<1>1. /\ UNCHANGED <<scope, ui, shell, streams, wake, reports, kept, stopping>> /\ Types /\ link \in Link
      /\ at = "shell" /\ at' = "loop" /\ at' \in LoopPlaces
  BY DEF StartShell, kept, IInv, Types, LoopTypes, LoopPlaces
<1>2. PICK mosh \in {FALSE, scope.kind = "mosh"} :
        link' = [link EXCEPT !.up = TRUE, !.mosh = mosh, !.shell = scope.kind # "side" /\ ~mosh]
  BY DEF StartShell
<1> DEFINE sh == scope.kind # "side" /\ ~mosh
<1>3. mosh \in BOOLEAN /\ sh \in BOOLEAN /\ (mosh => ~sh) /\ link' = [link EXCEPT !.up = TRUE, !.mosh = mosh, !.shell = sh]
  BY <1>2
<1> HIDE DEF sh
<1>4. /\ link' \in Link /\ link'.up /\ (link'.mosh => ~link'.shell) /\ link'.exited = link.exited
      /\ link'.typed = link.typed /\ link'.carried = link.carried
      /\ link'.gone = link.gone /\ link'.unsaid = link.unsaid
  BY <1>1, <1>3 DEF Link
<1>5. LoopTypes'
  BY <1>1, <1>4 DEF Types, LoopTypes, Link, Polled
<1>6. /\ Prompting' /\ PromptTypes' /\ Sockets' /\ SocketTypes' /\ PlaceTypes'
  <2>1. reports' \in Nat /\ wake' \in BOOLEAN
    BY <1>1 DEF Types, PlaceTypes
  <2> QED
    BY <1>1, <2>1, InLoop DEF LoopPlaces
<1>7. Reporting'
  BY <1>1, <1>4 DEF IInv, Reporting, Stopped, LoginPlaces, Leaving
<1>8. Showing' /\ Forwarding'
  BY <1>1, <1>4, ForwardingStays DEF IInv, Showing
<1>9. Connected' /\ Polling'
  BY <1>1, <1>4 DEF IInv, Connected, Polling, LoginPlaces, LoopPlaces, KeyPlaces, Logins
<1> QED
  BY <1>5, <1>6, <1>7, <1>8, <1>9 DEF IInv, Types

LEMMA Resuming ==
  ASSUME IInv, ResumeMosh
  PROVE  IInv'
<1>1. /\ UNCHANGED <<scope, ui, shell, streams, wake, kept, stopping>> /\ Types /\ link \in Link
      /\ at = "resume" /\ at' \in {"loop", "finish"} /\ ~link.up /\ ~link.shell /\ reports = 0
  BY DEF ResumeMosh, kept, IInv, Types, LoopTypes, Connected, LoopPlaces, Reporting
<1>2. /\ \/ at' = "loop" /\ link' = [link EXCEPT !.mosh = TRUE] /\ reports' = 0
         \/ at' = "finish" /\ link' = [link EXCEPT !.gone = TRUE] /\ reports' \in {0, 1}
  BY <1>1 DEF ResumeMosh, Report
<1>3. /\ link' \in Link /\ ~link'.up /\ ~link'.shell /\ link'.exited = link.exited
      /\ link'.typed = link.typed /\ link'.carried = link.carried
      /\ at' = "finish" => link'.gone
  <2>1. CASE link' = [link EXCEPT !.mosh = TRUE] /\ at' = "loop"
    BY <1>1, <2>1 DEF Link
  <2>2. CASE link' = [link EXCEPT !.gone = TRUE] /\ at' = "finish"
    BY <1>1, <2>2 DEF Link
  <2> QED
    BY <1>2, <2>1, <2>2
<1>4. LoopTypes'
  BY <1>1, <1>3 DEF Types, LoopTypes, Link, Polled
<1>5. /\ Prompting' /\ PromptTypes' /\ Sockets' /\ SocketTypes' /\ PlaceTypes'
  <2>1. reports' \in Nat /\ wake' \in BOOLEAN
    BY <1>1, <1>2 DEF Types, PlaceTypes
  <2> QED
    BY <1>1, <1>3, <2>1, InLoop DEF LoopPlaces
<1>6. Reporting'
  BY <1>1, <1>2, <1>3 DEF Reporting, Stopped, LoginPlaces, LoopPlaces, KeyPlaces, Logins, Leaving
<1>7. Showing' /\ Forwarding'
  BY <1>1, <1>3, ForwardingStays DEF IInv, Showing
<1>8. Connected' /\ Polling'
  BY <1>1, <1>3 DEF IInv, Connected, Polling, Ids, LoginPlaces, LoopPlaces, KeyPlaces, Logins
<1> QED
  BY <1>4, <1>5, <1>6, <1>7, <1>8 DEF IInv, Types

LEMMA Finishing ==
  ASSUME IInv, Finish
  PROVE  IInv'
<1>1. /\ UNCHANGED <<scope, ui, shell, wake, reports, kept, stopping>> /\ Types /\ link \in Link
      /\ at = "finish" /\ at' = "forget" /\ at' \in Leaving /\ CloseStreams
      /\ link' = [link EXCEPT !.mosh = FALSE, !.up = FALSE]
  BY DEF Finish, kept, IInv, Types, LoopTypes, Leaving
<1>2. /\ link' \in Link /\ ~link'.up /\ ~link'.mosh /\ link'.exited = link.exited
      /\ link'.gone = link.gone /\ link'.unsaid = link.unsaid
      /\ link'.typed = link.typed /\ link'.carried = link.carried
  BY <1>1 DEF Link
<1>3. /\ streams' \in [DOMAIN scope.forwards -> Stream] /\ Forwarding'
      /\ \A i \in Ids' : streams'[i].st \in {"none", "gone"}
  BY <1>1, Cutting
<1>4. LoopTypes'
  BY <1>1, <1>2, <1>3 DEF Types, LoopTypes, Link, Polled
<1>5. /\ Prompting' /\ PromptTypes' /\ Sockets' /\ SocketTypes' /\ PlaceTypes'
  <2>1. reports' \in Nat /\ wake' \in BOOLEAN
    BY <1>1 DEF Types, PlaceTypes
  <2> QED
    BY <1>1, <1>2, <2>1, InLoop DEF LoopPlaces
<1>6. Reporting'
  BY <1>1, <1>2 DEF IInv, Reporting, Stopped, LoginPlaces, LoopPlaces, KeyPlaces, Logins, Leaving
<1>7. Showing'
  BY <1>1, <1>2 DEF IInv, Showing
<1>8. Connected' /\ Polling'
  BY <1>1, <1>2, <1>3 DEF IInv, Connected, Polling, LoginPlaces, LoopPlaces, KeyPlaces, Logins
<1> QED
  BY <1>3, <1>4, <1>5, <1>6, <1>7, <1>8 DEF IInv, Types

-----------------------------------------------------------------------------
(* The passes of the loop *)

LEMMA Beginning ==
  ASSUME IInv, LoopBegins
  PROVE  IInv'
<1>1. /\ UNCHANGED <<loopVars, scope, ui, link, shell, streams, wake, reports, kept, stopping>> /\ Types
      /\ at = "loop" /\ at' \in {"drain", "finish"} /\ (at' = "finish" => Stopped) /\ at \in LoopPlaces
  BY DEF LoopBegins, kept, loopVars, IInv, Types, LoopPlaces
<1>2. LoopTypes'
  BY <1>1, LoopTypesStay
<1>3. /\ Prompting' /\ PromptTypes' /\ Sockets' /\ SocketTypes' /\ PlaceTypes'
  <2>1. reports' \in Nat /\ wake' \in BOOLEAN
    BY <1>1 DEF Types, PlaceTypes
  <2> QED
    BY <1>1, <2>1, InLoop DEF LoopPlaces
<1>4. Reporting'
  BY <1>1 DEF IInv, Reporting, Stopped, LoginPlaces, LoopPlaces, KeyPlaces, Logins, Leaving
<1>5. Showing' /\ Forwarding'
  BY <1>1, ForwardingStays DEF IInv, Showing
<1>6. Connected' /\ Polling'
  BY <1>1 DEF IInv, Connected, Polling, Ids, LoginPlaces, LoopPlaces, KeyPlaces, Logins
<1> QED
  BY <1>2, <1>3, <1>4, <1>5, <1>6 DEF IInv, Types

LEMMA TimingOut ==
  ASSUME IInv, PollTimesOut
  PROVE  IInv'
<1>1. /\ UNCHANGED <<loopVars, scope, ui, link, shell, streams, wake, reports, kept, stopping>> /\ Types
      /\ at = "poll" /\ at' = "loop" /\ at \in LoopPlaces /\ at' \in LoopPlaces
  BY DEF PollTimesOut, kept, loopVars, IInv, Types, LoopPlaces
<1>2. LoopTypes'
  BY <1>1, LoopTypesStay
<1>3. /\ Prompting' /\ PromptTypes' /\ Sockets' /\ SocketTypes' /\ PlaceTypes'
  <2>1. reports' \in Nat /\ wake' \in BOOLEAN
    BY <1>1 DEF Types, PlaceTypes
  <2> QED
    BY <1>1, <2>1, InLoop DEF LoopPlaces
<1>4. Reporting'
  BY <1>1, Unreported DEF LoopPlaces, Leaving
<1>5. Showing' /\ Forwarding'
  BY <1>1, ForwardingStays DEF IInv, Showing
<1>6. Connected' /\ Polling'
  BY <1>1 DEF IInv, Connected, Polling, Ids, LoginPlaces, LoopPlaces, KeyPlaces, Logins
<1> QED
  BY <1>2, <1>3, <1>4, <1>5, <1>6 DEF IInv, Types

LEMMA PollFailing ==
  ASSUME IInv, PollFails
  PROVE  IInv'
<1>1. /\ UNCHANGED <<scope, ui, shell, streams, wake, kept, stopping>> /\ Types /\ link \in Link
      /\ at = "poll" /\ at \in LoopPlaces /\ at' = "finish" /\ reports = 0
  BY DEF PollFails, kept, IInv, Types, LoopTypes, LoopPlaces, Reporting
<1>2. \/ link' = link /\ reports' = 1
      \/ link' = link /\ reports' = 0 /\ Stopped
      \/ link' = [link EXCEPT !.unsaid = TRUE] /\ reports' = 0
  BY <1>1 DEF PollFails, Report
<1>3. /\ link' \in Link /\ link'.up = link.up /\ link'.mosh = link.mosh /\ link'.shell = link.shell
      /\ link'.exited = link.exited
      /\ link'.typed = link.typed /\ link'.carried = link.carried
      /\ link'.unsaid \/ reports' = 1 \/ Stopped
  <2>1. CASE link' = link
    BY <1>1, <1>2, <2>1 DEF Link
  <2>2. CASE link' = [link EXCEPT !.unsaid = TRUE]
    BY <1>1, <2>2 DEF Link
  <2> QED
    BY <1>2, <2>1, <2>2
<1>4. LoopTypes'
  BY <1>1, <1>3 DEF Types, LoopTypes, Link, Polled
<1>5. /\ Prompting' /\ PromptTypes' /\ Sockets' /\ SocketTypes' /\ PlaceTypes'
  <2>1. reports' \in Nat /\ wake' \in BOOLEAN
    BY <1>1, <1>2 DEF Types, PlaceTypes
  <2> QED
    BY <1>1, <1>3, <2>1, InLoop DEF LoopPlaces
<1>6. Reporting'
  BY <1>1, <1>2, <1>3 DEF IInv, Reporting, Stopped, LoginPlaces, LoopPlaces, KeyPlaces, Logins, Leaving
<1>7. Showing' /\ Forwarding'
  BY <1>1, <1>3, ForwardingStays DEF IInv, Showing
<1>8. Connected' /\ Polling'
  BY <1>1, <1>3 DEF IInv, Connected, Polling, Ids, LoginPlaces, LoopPlaces, KeyPlaces, Logins
<1> QED
  BY <1>4, <1>5, <1>6, <1>7, <1>8 DEF IInv, Types

LEMMA Draining ==
  ASSUME IInv, drainWakePipe
  PROVE  IInv'
<1>1. /\ UNCHANGED <<scope, ui, shell, streams, reports, kept, stopping>> /\ Types /\ link \in Link
      /\ at = "drain" /\ at' = "swap" /\ at \in LoopPlaces /\ at' \in LoopPlaces /\ wake' = FALSE
      /\ link' = [link EXCEPT !.missed = FALSE]
  BY DEF drainWakePipe, kept, IInv, Types, LoopTypes, LoopPlaces
<1>2. /\ link' \in Link /\ link'.up = link.up /\ link'.mosh = link.mosh /\ link'.shell = link.shell
      /\ link'.exited = link.exited /\ link'.gone = link.gone /\ link'.unsaid = link.unsaid
      /\ link'.typed = link.typed /\ link'.carried = link.carried
  BY <1>1 DEF Link
<1>3. LoopTypes'
  BY <1>1, <1>2 DEF Types, LoopTypes, Link, Polled
<1>4. /\ Prompting' /\ PromptTypes' /\ Sockets' /\ SocketTypes' /\ PlaceTypes'
  <2>1. reports' \in Nat /\ wake' \in BOOLEAN
    BY <1>1 DEF Types, PlaceTypes
  <2> QED
    BY <1>1, <1>2, <2>1, InLoop DEF LoopPlaces
<1>5. Reporting'
  BY <1>1, <1>2 DEF IInv, Reporting, Stopped, LoginPlaces, LoopPlaces, KeyPlaces, Logins, Leaving
<1>6. Showing' /\ Forwarding'
  BY <1>1, <1>2, ForwardingStays DEF IInv, Showing
<1>7. Connected' /\ Polling'
  BY <1>1, <1>2 DEF IInv, Connected, Polling, Ids, LoginPlaces, LoopPlaces, KeyPlaces, Logins
<1> QED
  BY <1>3, <1>4, <1>5, <1>6, <1>7 DEF IInv, Types

LEMMA Swapping ==
  ASSUME IInv, SwapPending
  PROVE  IInv'
<1>1. /\ UNCHANGED <<scope, ui, shell, streams, wake, kept, stopping>> /\ Types /\ link \in Link
      /\ at = "swap" /\ at \in LoopPlaces /\ link' = [link EXCEPT !.carried = link.typed] /\ reports = 0
      /\ at' \in {"serve", "finish"}
  BY DEF SwapPending, kept, IInv, Types, LoopTypes, LoopPlaces, Reporting
<1>2. /\ link' \in Link /\ link'.up = link.up /\ link'.mosh = link.mosh /\ link'.shell = link.shell
      /\ link'.exited = link.exited /\ link'.gone = link.gone /\ link'.unsaid = link.unsaid
      /\ link'.typed = link.typed /\ link'.carried = link.typed /\ link.typed \in Nat
  BY <1>1 DEF Link
<1>3. \/ at' = "serve" /\ reports' = 0
      \/ at' = "finish" /\ reports' = (IF Stopped THEN 0 ELSE 1)
  BY <1>1 DEF SwapPending, Report
<1>4. LoopTypes'
  BY <1>1, <1>2 DEF Types, LoopTypes, Link, Polled
<1>5. /\ Prompting' /\ PromptTypes' /\ Sockets' /\ SocketTypes' /\ PlaceTypes'
  <2>1. reports' \in Nat /\ wake' \in BOOLEAN
    BY <1>1, <1>3 DEF Types, PlaceTypes
  <2> QED
    BY <1>1, <1>2, <2>1, InLoop DEF LoopPlaces
<1>6. Reporting'
  BY <1>1, <1>2, <1>3 DEF IInv, Reporting, Stopped, LoginPlaces, LoopPlaces, KeyPlaces, Logins, Leaving
<1>7. Showing' /\ Forwarding'
  BY <1>1, <1>2, ForwardingStays DEF IInv, Showing
<1>8. Connected' /\ Polling'
  BY <1>1, <1>2 DEF IInv, Connected, Polling, Ids, LoginPlaces, LoopPlaces, KeyPlaces, Logins
<1> QED
  BY <1>4, <1>5, <1>6, <1>7, <1>8 DEF IInv, Types

LEMMA MoshEnding ==
  ASSUME IInv, MoshEnds
  PROVE  IInv'
<1>1. /\ UNCHANGED <<scope, ui, shell, streams, wake, kept, stopping>> /\ Types /\ link \in Link
      /\ at = "look" /\ at \in LoopPlaces /\ at' = "finish" /\ reports = 0
  BY DEF MoshEnds, kept, IInv, Types, LoopTypes, LoopPlaces, Reporting
<1>2. \/ link' = link /\ reports' = 1
      \/ link' = link /\ reports' = 0 /\ Stopped
      \/ link' = [link EXCEPT !.gone = TRUE] /\ reports' = 0
  BY <1>1 DEF MoshEnds, Report
<1>3. /\ link' \in Link /\ link'.up = link.up /\ link'.mosh = link.mosh /\ link'.shell = link.shell
      /\ link'.exited = link.exited
      /\ link'.typed = link.typed /\ link'.carried = link.carried
      /\ link'.gone \/ reports' = 1 \/ Stopped
  <2>1. CASE link' = link
    BY <1>1, <1>2, <2>1 DEF Link
  <2>2. CASE link' = [link EXCEPT !.gone = TRUE]
    BY <1>1, <2>2 DEF Link
  <2> QED
    BY <1>2, <2>1, <2>2
<1>4. LoopTypes'
  BY <1>1, <1>3 DEF Types, LoopTypes, Link, Polled
<1>5. /\ Prompting' /\ PromptTypes' /\ Sockets' /\ SocketTypes' /\ PlaceTypes'
  <2>1. reports' \in Nat /\ wake' \in BOOLEAN
    BY <1>1, <1>2 DEF Types, PlaceTypes
  <2> QED
    BY <1>1, <1>3, <2>1, InLoop DEF LoopPlaces
<1>6. Reporting'
  BY <1>1, <1>2, <1>3 DEF IInv, Reporting, Stopped, LoginPlaces, LoopPlaces, KeyPlaces, Logins, Leaving
<1>7. Showing' /\ Forwarding'
  BY <1>1, <1>3, ForwardingStays DEF IInv, Showing
<1>8. Connected' /\ Polling'
  BY <1>1, <1>3 DEF IInv, Connected, Polling, Ids, LoginPlaces, LoopPlaces, KeyPlaces, Logins
<1> QED
  BY <1>4, <1>5, <1>6, <1>7, <1>8 DEF IInv, Types

LEMMA LoopForgetting ==
  ASSUME IInv, LoopForget
  PROVE  IInv'
<1>1. /\ UNCHANGED <<scope, ui, link, shell, method, tries, passwords, promptVars, stopping, wake, table,
                     shut, sockets, proxy, reports, history>>
      /\ at = "loopForget" /\ at' = "loopDisconnect" /\ watched' = {} /\ Types /\ CloseStreams
      /\ at \in LoopPlaces /\ at' \in LoopPlaces /\ at' \in Places
  BY DEF LoopForget, Forgotten, IInv, Types, LoopPlaces, Places
<1>2. /\ streams' \in [DOMAIN scope.forwards -> Stream] /\ Forwarding'
      /\ \A i \in Ids' : streams'[i].st \in {"none", "gone"}
  BY <1>1, Cutting
<1>3. LoopTypes'
  BY <1>1, <1>2 DEF Types, LoopTypes, Link, Polled
<1>4. Prompting' /\ PromptTypes'
  <2>1. asking = "no"
    BY <1>1 DEF IInv, Prompting, KeyPlaces, Logins
  <2> QED
    BY <1>1, <2>1, PromptsStay DEF Leaving
<1>5. SocketTypes' /\ PlaceTypes'
  BY <1>1 DEF Types, SocketTypes, PlaceTypes
<1>6. Sockets'
  BY <1>1 DEF IInv, Sockets
<1>7. Reporting'
  BY <1>1, Unreported DEF LoopPlaces, Leaving
<1>8. Showing'
  BY <1>1 DEF IInv, Showing
<1>9. Connected' /\ Polling'
  BY <1>1, <1>2 DEF IInv, Connected, Polling, LoginPlaces, LoopPlaces, KeyPlaces, Logins
<1> QED
  BY <1>2, <1>3, <1>4, <1>5, <1>6, <1>7, <1>8, <1>9 DEF IInv, Types

LEMMA LoopDisconnecting ==
  ASSUME IInv, LoopDisconnect
  PROVE  IInv'
<1>1. /\ UNCHANGED <<scope, ui, shell, streams, method, tries, passwords, promptVars, stopping, wake,
                     watched, proxy, reports, history>>
      /\ at = "loopDisconnect" /\ at' = link.after /\ Types /\ link \in Link
      /\ Close({sockets.own}) /\ sockets' = [sockets EXCEPT !.own = 0]
      /\ link' = [link EXCEPT !.up = FALSE] /\ at \in LoopPlaces
  BY DEF LoopDisconnect, IInv, Types, LoopTypes, LoopPlaces
<1>2. /\ link' \in Link /\ ~link'.up /\ link'.mosh = link.mosh /\ link'.shell = link.shell
      /\ link'.exited = link.exited
      /\ link'.gone = link.gone /\ link'.unsaid = link.unsaid /\ link.after \in {"look", "loop"}
      /\ link'.typed = link.typed /\ link'.carried = link.carried
  BY <1>1 DEF Link
<1>3. at' \in {"look", "loop"} /\ at' \in LoopPlaces /\ at' \in Places
  BY <1>1, <1>2 DEF LoopPlaces, Places
<1>4. LoopTypes'
  BY <1>1, <1>2 DEF Types, LoopTypes, Link, Polled
<1>5. Prompting' /\ PromptTypes'
  <2>1. asking = "no"
    BY <1>1 DEF IInv, Prompting, KeyPlaces, Logins
  <2> QED
    BY <1>1, <2>1, PromptsStay DEF Leaving
<1>6. SocketTypes /\ Sockets /\ watched = {}
  BY <1>1 DEF IInv, Types, Sockets
<1>7. /\ table' \in [Fds -> {"free", "worker", "others"}] /\ shut' \subseteq Fds
      /\ \A fd \in Fds : fd # sockets.own => table'[fd] = table[fd]
  BY <1>1, <1>6, Closing
<1>8. sockets' = [jump |-> sockets.jump, own |-> 0]
  BY <1>1, <1>6 DEF SocketTypes
<1>9. SocketTypes' /\ PlaceTypes'
  BY <1>1, <1>3, <1>6, <1>7, <1>8 DEF Types, SocketTypes, PlaceTypes
<1>10. sockets.jump # 0 => table'[sockets.jump] = "worker"
  BY <1>6, <1>7 DEF Sockets, SocketTypes
<1>11. Sockets'
  BY <1>1, <1>2, <1>3, <1>6, <1>8, <1>10 DEF Sockets
<1>12. Reporting'
  BY <1>1, <1>2, <1>3 DEF IInv, Reporting, Stopped, LoginPlaces, LoopPlaces, KeyPlaces, Logins, Leaving
<1>13. Showing' /\ Forwarding'
  BY <1>1, <1>2, ForwardingStays DEF IInv, Showing
<1>14. ~link.shell /\ \A i \in Ids : streams[i].st \in {"none", "gone"}
  BY <1>1 DEF IInv, Connected
<1>15. ~Missed(shell, streams)'
  BY <1>1, <1>2, <1>14 DEF Missed, Ids
<1>16. Connected' /\ Polling'
  BY <1>1, <1>2, <1>3, <1>14, <1>15 DEF IInv, Connected, Polling, Ids, LoginPlaces, LoopPlaces, KeyPlaces, Logins
<1> QED
  BY <1>4, <1>5, <1>9, <1>11, <1>12, <1>13, <1>16 DEF IInv, Types

-----------------------------------------------------------------------------
(* What libssh takes in *)

\* One forwarded connection as libssh has taken in what arrived for it.
In(i, refused) ==
    LET s == [streams[i] EXCEPT !.lib = streams[i].replied, !.overLib = streams[i].over,
                                !.seen = streams[i].taken]
    IN IF s.st = "asks" /\ scope.forwards[i] = "remote"
       THEN [s EXCEPT !.st = IF i \in refused THEN "gone" ELSE "fresh",
                      !.chan = i \notin refused, !.cut = i \in refused]
       ELSE s

LEMMA TakenIn ==
  ASSUME IInv, NEW refused
  PROVE  \A i \in Ids :
           /\ StreamsIn(refused)[i] = In(i, refused)
           /\ In(i, refused) \in Stream /\ Kept(i, In(i, refused))
           /\ streams[i].st \in {"none", "fresh", "on", "gone"} => In(i, refused).st = streams[i].st
           /\ streams[i].st = "asks" => In(i, refused).st \in {"asks", "fresh", "gone"}
           /\ In(i, refused).sent = streams[i].sent
<1> SUFFICES ASSUME NEW i \in Ids
             PROVE  /\ StreamsIn(refused)[i] = In(i, refused)
                    /\ In(i, refused) \in Stream /\ Kept(i, In(i, refused))
                    /\ streams[i].st \in {"none", "fresh", "on", "gone"} => In(i, refused).st = streams[i].st
                    /\ streams[i].st = "asks" => In(i, refused).st \in {"asks", "fresh", "gone"}
                    /\ In(i, refused).sent = streams[i].sent
  OBVIOUS
<1>1. streams[i] \in Stream /\ Kept(i, streams[i])
  BY DEF IInv, Types, LoopTypes, Forwarding, Ids
<1>2. streams[i].lib \in Nat /\ streams[i].replied \in Nat
  BY <1>1 DEF Stream
<1>3. streams[i].lib + (streams[i].replied - streams[i].lib) = streams[i].replied
  BY <1>2
<1> DEFINE s == [streams[i] EXCEPT !.lib = streams[i].replied, !.overLib = streams[i].over,
                                   !.seen = streams[i].taken]
<1>4. StreamsIn(refused)[i] = In(i, refused)
  BY <1>1, <1>3 DEF StreamsIn, In, Stream
<1>5. s \in Stream
  BY <1>1 DEF Stream
<1>6. Carried(i, s)
  <2>1. MaxForwardBuffer \in Nat /\ Room \in Nat
    BY WorkerAssumption
  <2>2. StreamOK(s) /\ s.read <= s.buf + s.got + Room
    BY <1>1, <2>1 DEF Stream, Kept, Carried, StreamOK
  <2>3. s.st \in {"none", "asks"} => s = [NoStream EXCEPT !.st = s.st]
    <3> SUFFICES ASSUME streams[i].st \in {"none", "asks"}
                 PROVE  s = [NoStream EXCEPT !.st = s.st]
      BY <1>1 DEF Stream
    <3>1. streams[i] = [NoStream EXCEPT !.st = streams[i].st]
      BY <1>1 DEF Kept, Carried
    <3>2. /\ streams[i].replied = streams[i].lib /\ streams[i].over = streams[i].overLib
          /\ streams[i].taken = streams[i].seen
      BY <3>1 DEF NoStream
    <3>3. s = streams[i]
      BY <1>1, <3>2 DEF Stream
    <3> QED
      BY <3>1, <3>3
  <2>4. /\ ~s.chan => s.sent = 0 /\ s.replied = 0
        /\ s.chan => s.heard = s.sent + Request(i) \/ s.closed
        /\ s.overLib # "no" => s.over # "no" /\ s.lib = s.replied
        /\ s.overLib = "closed" => s.over = "closed"
    BY <1>1 DEF Stream, Kept, Carried
  <2>5. /\ s.channelEof => s.chan /\ s.overLib # "no" /\ s.read = s.lib
        /\ s.socketEof => s.chan /\ s.ends = "eof" /\ s.heard = s.said
        /\ s.writeShutdown => s.channelEof /\ s.buf = 0
    BY <1>1 DEF Stream, Kept, Carried
  <2> QED
    BY <2>2, <2>3, <2>4, <2>5 DEF Carried
<1>7. Kept(i, s)
  BY <1>1, <1>6 DEF Stream, Kept, Ended
<1>8. CASE ~(streams[i].st = "asks" /\ scope.forwards[i] = "remote")
  <2>1. In(i, refused) = s
    BY <1>1, <1>8 DEF In, Stream
  <2> QED
    BY <1>1, <1>4, <1>5, <1>7, <2>1 DEF Stream
<1>9. CASE streams[i].st = "asks" /\ scope.forwards[i] = "remote"
  <2> DEFINE no == i \in refused
  <2>1. no \in BOOLEAN /\ In(i, refused) = [s EXCEPT !.st = IF no THEN "gone" ELSE "fresh", !.chan = ~no, !.cut = no]
    BY <1>1, <1>9 DEF In, Stream
  <2> HIDE DEF no
  <2>2. Request(i) = 0
    BY <1>9 DEF Request
  <2>3. /\ s.heard = 0 /\ s.said = 0 /\ s.sent = 0 /\ s.taken = 0 /\ s.seen = 0 /\ s.replied = 0 /\ s.lib = 0
        /\ s.read = 0 /\ s.buf = 0 /\ s.got = 0 /\ s.over = "no" /\ s.overLib = "no"
        /\ ~s.channelEof /\ ~s.socketEof /\ ~s.closed /\ ~s.writeShutdown
    BY <1>1, <1>9 DEF Kept, Carried, NoStream, Stream
  <2>4. MaxForwardBuffer \in Nat /\ Room \in Nat
    BY WorkerAssumption
  <2>5. CASE no
    <3>1. In(i, refused) = [s EXCEPT !.st = "gone", !.chan = FALSE, !.cut = TRUE]
      BY <2>1, <2>5
    <3> HIDE DEF s
    <3>2. /\ In(i, refused) \in Stream /\ In(i, refused).st = "gone" /\ In(i, refused).sent = s.sent
      BY <1>5, <3>1 DEF Stream
    <3>3. Kept(i, In(i, refused))
      BY <1>5, <2>3, <2>4, <3>1 DEF Stream, Kept, Carried, StreamOK, Ended
    <3> QED
      BY <1>1, <1>4, <1>9, <3>2, <3>3 DEF s, Stream
  <2>6. CASE ~no
    <3>1. In(i, refused) = [s EXCEPT !.st = "fresh", !.chan = TRUE, !.cut = FALSE]
      BY <2>1, <2>6
    <3> HIDE DEF s
    <3>2. /\ In(i, refused) \in Stream /\ In(i, refused).st = "fresh" /\ In(i, refused).sent = s.sent
      BY <1>5, <3>1 DEF Stream
    <3>3. Kept(i, In(i, refused))
      BY <1>5, <2>2, <2>3, <2>4, <3>1 DEF Stream, Kept, Carried, StreamOK, Ended
    <3> QED
      BY <1>1, <1>4, <1>9, <3>2, <3>3 DEF s, Stream
  <2> QED
    BY <2>5, <2>6
<1> QED
  BY <1>8, <1>9

\* All of them, once nothing else has become of them.
LEMMA AllTakenIn ==
  ASSUME IInv, NEW refused, streams' = StreamsIn(refused), scope' = scope
  PROVE  /\ streams' \in [DOMAIN scope.forwards -> Stream] /\ Forwarding' /\ Ids' = Ids
         /\ \A i \in Ids : /\ streams[i].st \in {"none", "fresh", "on", "gone"} => streams'[i].st = streams[i].st
                           /\ streams[i].st = "asks" => streams'[i].st \in {"asks", "fresh", "gone"}
<1>1. Ids = DOMAIN scope.forwards
  BY DEF IInv, Types, LoopTypes, Ids
<1>2. streams' = [i \in Ids |-> In(i, refused)]
  <2>1. StreamsIn(refused) = [i \in Ids |-> StreamsIn(refused)[i]]
    BY DEF StreamsIn
  <2>2. \A i \in Ids : StreamsIn(refused)[i] = In(i, refused)
    BY TakenIn
  <2> QED
    BY <2>1, <2>2
<1>3. \A i \in Ids : In(i, refused) \in Stream /\ Kept(i, In(i, refused))
  BY TakenIn
<1>4. streams' \in [DOMAIN scope.forwards -> Stream] /\ Ids' = Ids
  BY <1>1, <1>2, <1>3 DEF Ids
<1>5. Forwarding'
  <2> SUFFICES ASSUME NEW i \in Ids
               PROVE  Kept(i, streams[i])'
    BY <1>1 DEF Forwarding
  <2>1. streams'[i] = In(i, refused) /\ Kept(i, In(i, refused))
    BY <1>2, <1>3
  <2>2. Kept(i, streams'[i])
    BY <2>1
  <2> QED
    BY <2>2 DEF Kept, Carried, StreamOK, Ended, Request
<1> QED
  BY <1>2, <1>4, <1>5, TakenIn

-----------------------------------------------------------------------------
(* The connection is over *)

LEMMA LostLink ==
  ASSUME IInv, NEW next \in {"look", "loop"}, LoseSsh(next)
  PROVE  /\ link' \in Link /\ link'.up = link.up /\ link'.mosh = link.mosh /\ link'.shell = link.shell
         /\ link'.exited = link.exited
         /\ link'.gone = link.gone /\ link'.unsaid = link.unsaid /\ link'.missed = link.missed
         /\ link'.typed = link.typed /\ link'.carried = link.carried
<1>1. link \in Link
  BY DEF IInv, Types, LoopTypes
<1>2. CASE link' = [link EXCEPT !.after = next]
  BY <1>1, <1>2 DEF Link
<1>3. CASE link' = link
  BY <1>1, <1>3 DEF Link
<1> QED
  BY <1>2, <1>3 DEF LoseSsh

\* For mosh only files and forwards are, and for a shell everything, which is reported.
LEMMA Losing ==
  ASSUME IInv, NEW next \in {"look", "loop"}, LoseSsh(next), at \in {"serve", "streams", "poll"},
         UNCHANGED <<scope, ui, wake, kept>>, shell' \in Shell,
         streams' \in [DOMAIN scope.forwards -> Stream], Showing', Forwarding',
         link.up \/ \A i \in Ids : streams'[i].st \in {"none", "gone"}
  PROVE  IInv'
<1>1. /\ link' \in Link /\ link'.up = link.up /\ link'.mosh = link.mosh /\ link'.shell = link.shell
      /\ link'.gone = link.gone /\ link'.unsaid = link.unsaid
      /\ link'.typed = link.typed /\ link'.carried = link.carried
  BY LostLink
<1>2. /\ at \in LoopPlaces /\ reports = 0 /\ Types /\ UNCHANGED stopping
      /\ \/ link.mosh /\ at' = "loopForget" /\ reports' = 0
         \/ at' = "finish" /\ reports' = (IF Stopped THEN 0 ELSE 1)
  BY DEF IInv, Reporting, LoopPlaces, LoseSsh, Report, kept
<1>3. LoopTypes'
  BY <1>1, <1>2 DEF Types, LoopTypes, Link, Polled
<1>4. /\ Prompting' /\ PromptTypes' /\ Sockets' /\ SocketTypes' /\ PlaceTypes'
  <2>1. reports' \in Nat /\ wake' \in BOOLEAN
    BY <1>2 DEF Types, PlaceTypes
  <2> QED
    BY <1>1, <1>2, <2>1, InLoop DEF LoopPlaces
<1>5. Reporting'
  BY <1>1, <1>2 DEF Reporting, Stopped, LoginPlaces, LoopPlaces, KeyPlaces, Logins, Leaving
<1>6. Ids' = Ids
  BY <1>2 DEF Types, LoopTypes, Ids
<1>7. Connected' /\ Polling'
  BY <1>1, <1>2, <1>6 DEF IInv, Connected, Polling, LoginPlaces, LoopPlaces, KeyPlaces, Logins
<1> QED
  BY <1>3, <1>4, <1>5, <1>7 DEF IInv, Types

LEMMA KeepAliveFailing ==
  ASSUME IInv, KeepAliveFails
  PROVE  IInv'
<1>1. /\ UNCHANGED <<scope, ui, shell, streams, wake, kept>> /\ Types
      /\ at = "streams" /\ link.up /\ LoseSsh("look")
  BY DEF KeepAliveFails, IInv
<1>2. link'.exited = link.exited
  BY <1>1, LostLink
<1>3. Showing' /\ Forwarding'
  BY <1>1, <1>2, ForwardingStays DEF IInv, Showing
<1> QED
  BY <1>1, <1>3, Losing DEF Types, LoopTypes

-----------------------------------------------------------------------------
(* Reading the shell *)

LEMMA ReadingShell ==
  ASSUME IInv, ~throttled
  PROVE  LET s == [ShellIn EXCEPT !.read = Least(shell.sent, ReadUpTo)]
         IN  /\ s \in Shell /\ s.sent = shell.sent /\ s.lib = shell.sent /\ s.end = shell.end
             /\ s.endLib = shell.end /\ s.eaten = shell.eaten
             /\ s.eaten <= s.read /\ s.read <= s.lib /\ s.read <= s.eaten + MaxUnconsumed + 1
             /\ link.exited => s.end /\ s.read = s.sent
<1> DEFINE n == Least(shell.sent, ReadUpTo)
<1> DEFINE s == [ShellIn EXCEPT !.read = n]
<1>1. /\ shell \in Shell /\ MaxUnconsumed \in Nat /\ Showing
      /\ shell.sent \in Nat /\ shell.read \in Nat /\ shell.eaten \in Nat /\ shell.lib \in Nat
  BY WorkerAssumption DEF IInv, Types, LoopTypes, Shell
<1>2. /\ n \in Nat /\ n <= shell.sent /\ n <= shell.eaten + MaxUnconsumed + 1
      /\ shell.read <= n
  BY <1>1 DEF Least, ReadUpTo, Showing
<1>3. shell.read <= shell.sent /\ shell.eaten <= shell.read
  BY <1>1 DEF Showing
<1> HIDE DEF n
<1>4. ShellIn \in Shell /\ ShellIn = [shell EXCEPT !.lib = shell.sent, !.endLib = shell.end]
  BY <1>1 DEF ShellIn, Shell
<1>5. /\ s \in Shell /\ s.sent = shell.sent /\ s.lib = shell.sent /\ s.end = shell.end
      /\ s.endLib = shell.end /\ s.eaten = shell.eaten /\ s.read = n
  <2> DEFINE r == ShellIn
  <2>1. /\ r \in Shell /\ r.sent = shell.sent /\ r.lib = shell.sent /\ r.end = shell.end
        /\ r.endLib = shell.end /\ r.eaten = shell.eaten
    BY <1>1, <1>4 DEF Shell
  <2> HIDE DEF r
  <2>2. s = [r EXCEPT !.read = n] /\ n \in Nat
    BY <1>2 DEF r
  <2> HIDE DEF s
  <2> QED
    BY <2>1, <2>2 DEF Shell
<1> HIDE DEF s
<1>6. /\ s.eaten <= s.read /\ s.read <= s.lib /\ s.read <= s.eaten + MaxUnconsumed + 1
  BY <1>1, <1>2, <1>3, <1>5
<1>7. link.exited => s.end /\ s.read = s.sent
  BY <1>1, <1>2, <1>3, <1>5 DEF Showing
<1> QED
  BY <1>5, <1>6, <1>7 DEF s, n

LEMMA ReadingAll ==
  ASSUME IInv, readAvailable
  PROVE  IInv'
<1>1. /\ UNCHANGED <<scope, ui, wake, kept, stopping>> /\ Types /\ link \in Link /\ shell \in Shell
      /\ streams \in [DOMAIN scope.forwards -> Stream]
      /\ at = "serve" /\ at \in LoopPlaces /\ reports = 0 /\ Showing
  BY DEF readAvailable, kept, IInv, Types, LoopTypes, LoopPlaces, Reporting
<1>2. CASE at' = "streams" /\ UNCHANGED <<link, shell, streams, reports>>
  <2>1. LoopTypes'
    BY <1>1, <1>2 DEF Types, LoopTypes, Link, Polled
  <2>2. /\ Prompting' /\ PromptTypes' /\ Sockets' /\ SocketTypes' /\ PlaceTypes'
    <3>1. reports' \in Nat /\ wake' \in BOOLEAN
      BY <1>1, <1>2 DEF Types, PlaceTypes
    <3> QED
      BY <1>1, <1>2, <3>1, InLoop DEF LoopPlaces
  <2>3. Reporting'
    BY <1>1, <1>2, Unreported DEF LoopPlaces, Leaving
  <2>4. Showing' /\ Forwarding'
    BY <1>1, <1>2, ForwardingStays DEF Showing
  <2>5. Connected' /\ Polling'
    BY <1>1, <1>2 DEF IInv, Connected, Polling, Ids, LoginPlaces, LoopPlaces, KeyPlaces, Logins
  <2> QED
    BY <2>1, <2>2, <2>3, <2>4, <2>5 DEF IInv, Types
<1> DEFINE s == IF throttled THEN shell ELSE [ShellIn EXCEPT !.read = Least(shell.sent, ReadUpTo)]
<1>3. ASSUME ~(~(link.up /\ link.shell) \/ (throttled /\ ~ShellHasEnded(shell)))
      PROVE  IInv'
  <2>1. /\ link.up /\ link.shell /\ (throttled => ShellHasEnded(shell)) /\ shell' = s
        /\ IF throttled THEN UNCHANGED streams ELSE \E refused \in SUBSET Ids : streams' = StreamsIn(refused)
        /\ IF ShellHasEnded(s)
           THEN /\ at' = "finish" /\ Report
                /\ link' = [link EXCEPT !.exited = TRUE]
           ELSE IF Dead /\ s.read - s.eaten <= MaxUnconsumed THEN LoseSsh("look")
           ELSE at' = "streams" /\ UNCHANGED <<link, reports>>
    BY <1>3 DEF readAvailable
  <2>2. /\ s \in Shell /\ s.eaten <= s.read /\ s.read <= s.lib /\ s.lib <= s.sent
        /\ s.read <= s.eaten + MaxUnconsumed + 1
        /\ s.endLib => s.end /\ s.lib = s.sent
        /\ link.exited => s.end /\ s.read = s.sent
    <3>1. CASE throttled
      BY <1>1, <3>1 DEF Showing
    <3>2. CASE ~throttled
      <4> DEFINE r == [ShellIn EXCEPT !.read = Least(shell.sent, ReadUpTo)]
      <4>1. /\ r \in Shell /\ r.sent = shell.sent /\ r.lib = shell.sent /\ r.end = shell.end
            /\ r.endLib = shell.end /\ r.eaten = shell.eaten
            /\ r.eaten <= r.read /\ r.read <= r.lib /\ r.read <= r.eaten + MaxUnconsumed + 1
            /\ link.exited => r.end /\ r.read = r.sent
        BY <3>2, ReadingShell
      <4>2. s = r
        BY <3>2
      <4>3. shell.sent \in Nat
        BY <1>1 DEF Shell
      <4> HIDE DEF s, r
      <4> QED
        BY <4>1, <4>2, <4>3
    <3> QED
      BY <3>1, <3>2
  <2> HIDE DEF s
  <2>3. /\ streams' \in [DOMAIN scope.forwards -> Stream] /\ Forwarding' /\ Ids' = Ids
    <3>1. CASE UNCHANGED streams
      BY <1>1, <3>1, ForwardingStays DEF Ids
    <3>2. CASE \E refused \in SUBSET Ids : streams' = StreamsIn(refused)
      BY <1>1, <3>2, AllTakenIn
    <3> QED
      BY <2>1, <3>1, <3>2
  <2>4. CASE ShellHasEnded(s)
    <3>1. /\ at' = "finish" /\ reports' \in {0, 1} /\ (Stopped \/ reports' = 1)
          /\ link' = [link EXCEPT !.exited = TRUE]
      BY <1>1, <2>1, <2>4 DEF Report
    <3>2. /\ link' \in Link /\ link'.up = link.up /\ link'.mosh = link.mosh /\ link'.shell = link.shell
          /\ link'.gone = link.gone /\ link'.unsaid = link.unsaid
          /\ link'.typed = link.typed /\ link'.carried = link.carried
      BY <1>1, <3>1 DEF Link
    <3>3. LoopTypes'
      BY <1>1, <2>1, <2>2, <2>3, <3>2 DEF Types, LoopTypes, Link, Polled
    <3>4. /\ Prompting' /\ PromptTypes' /\ Sockets' /\ SocketTypes' /\ PlaceTypes'
      <4>1. reports' \in Nat /\ wake' \in BOOLEAN
        BY <1>1, <3>1 DEF Types, PlaceTypes
      <4> QED
        BY <1>1, <3>1, <3>2, <4>1, InLoop DEF LoopPlaces
    <3>5. Reporting'
      BY <1>1, <3>1 DEF Reporting, Stopped, LoginPlaces, LoopPlaces, KeyPlaces, Logins, Leaving
    <3>6. s.end /\ s.read = s.sent
      BY <2>2, <2>4 DEF ShellHasEnded
    <3>7. Showing'
      BY <2>1, <2>2, <3>6 DEF Showing
    <3>8. Connected' /\ Polling'
      BY <1>1, <2>1, <2>3, <3>1, <3>2 DEF IInv, Connected, Polling, LoginPlaces, LoopPlaces, KeyPlaces, Logins
    <3> QED
      BY <2>3, <3>3, <3>4, <3>5, <3>7, <3>8 DEF IInv, Types
  <2>5. CASE ~ShellHasEnded(s) /\ LoseSsh("look")
    <3>1. link'.exited = link.exited
      BY <2>5, LostLink
    <3>2. Showing'
      BY <2>1, <2>2, <3>1 DEF Showing
    <3> QED
      BY <1>1, <2>1, <2>2, <2>3, <2>5, <3>2, Losing
  <2>6. CASE ~ShellHasEnded(s) /\ at' = "streams" /\ UNCHANGED <<link, reports>>
    <3>1. LoopTypes'
      BY <1>1, <2>1, <2>2, <2>3, <2>6 DEF Types, LoopTypes, Link, Polled
    <3>2. /\ Prompting' /\ PromptTypes' /\ Sockets' /\ SocketTypes' /\ PlaceTypes'
      <4>1. reports' \in Nat /\ wake' \in BOOLEAN
        BY <1>1, <2>6 DEF Types, PlaceTypes
      <4> QED
        BY <1>1, <2>6, <4>1, InLoop DEF LoopPlaces
    <3>3. Reporting'
      BY <1>1, <2>6, Unreported DEF LoopPlaces, Leaving
    <3>4. Showing'
      BY <2>1, <2>2, <2>6 DEF Showing
    <3>5. Connected' /\ Polling'
      BY <1>1, <2>1, <2>3, <2>6 DEF IInv, Connected, Polling, LoginPlaces, LoopPlaces, KeyPlaces, Logins
    <3> QED
      BY <2>3, <3>1, <3>2, <3>3, <3>4, <3>5 DEF IInv, Types
  <2> QED
    BY <2>1, <2>4, <2>5, <2>6
<1>4. CASE ~(link.up /\ link.shell) \/ (throttled /\ ~ShellHasEnded(shell))
  BY <1>2, <1>4 DEF readAvailable
<1> QED
  BY <1>3, <1>4

-----------------------------------------------------------------------------
(* What becomes of one forwarded connection *)

\* On its way through a pass: what it carried is in order, and if it is closed
\* already it may only have to be swept out.
Passing(i, s) == s \in Stream /\ s.st = "on" /\ Carried(i, s) /\ Ended(i, s)

LEMMA Sweeping ==
  ASSUME NEW i, NEW s, Passing(i, s)
  PROVE  Swept(s) \in Stream /\ Kept(i, Swept(s)) /\ Swept(s).st \in {"on", "gone"} /\ Swept(s).sent = s.sent
<1>1. CASE s.closed
  <2>1. Swept(s) = [s EXCEPT !.st = "gone"]
    BY <1>1 DEF Swept
  <2>2. Swept(s) \in Stream /\ Swept(s).st = "gone" /\ Swept(s).closed /\ Swept(s).sent = s.sent
    BY <1>1, <2>1 DEF Passing, Stream
  <2>3. Carried(i, Swept(s)) /\ Ended(i, Swept(s))
    BY <2>1 DEF Passing, Stream, Carried, StreamOK, Ended
  <2> QED
    BY <2>2, <2>3 DEF Kept
<1>2. CASE ~s.closed
  BY <1>2 DEF Swept, Passing, Kept
<1> QED
  BY <1>1, <1>2

LEMMA Reads ==
  ASSUME NEW i, NEW s, Passing(i, s), ~s.closed, MaxForwardBuffer \in Nat, Room \in Nat
  PROVE  Passing(i, Read(s)) /\ ~Read(s).closed /\ Read(s).sent = s.sent
<1>1. CASE ~wantsChannelData(s)
  BY <1>1 DEF Read
<1>2. CASE wantsChannelData(s)
  <2> DEFINE n == Least(s.lib - s.read, MaxForwardBuffer - s.buf)
  <2>1. /\ s.read \in Nat /\ s.lib \in Nat /\ s.buf \in Nat /\ s.read <= s.lib /\ s.buf <= MaxForwardBuffer
        /\ s.chan /\ ~s.channelEof /\ s.got \in Nat /\ s.replied \in Nat
    BY <1>2 DEF Passing, Carried, StreamOK, Stream, wantsChannelData
  <2>2. n \in Nat /\ s.read + n <= s.lib /\ s.buf + n <= MaxForwardBuffer
    BY <2>1 DEF Least
  <2> DEFINE e == s.overLib # "no" /\ s.read + n = s.lib /\ s.buf + n < MaxForwardBuffer
  <2>3. Read(s) = [s EXCEPT !.read = s.read + n, !.buf = s.buf + n, !.channelEof = e]
    BY <1>2, <2>1 DEF Read, Passing, Stream
  <2>4. e \in BOOLEAN /\ (e => s.overLib # "no" /\ s.read + n = s.lib)
    OBVIOUS
  <2> HIDE DEF n, e
  <2>5. s.read + n \in Nat /\ s.buf + n \in Nat
    BY <2>1, <2>2
  <2> DEFINE r == [s EXCEPT !.read = s.read + n, !.buf = s.buf + n, !.channelEof = e]
  <2>6. r \in Stream /\ r.st = "on" /\ ~r.closed /\ r.sent = s.sent
    BY <2>4, <2>5 DEF Passing, Stream
  <2>7. StreamOK(r)
    BY <2>1, <2>2, <2>5 DEF Passing, Stream, Carried, StreamOK
  <2>8. r.read <= r.buf + r.got + Room
    BY <2>1, <2>2, <2>5 DEF Passing, Stream, Carried
  <2>9. Carried(i, r)
    BY <2>1, <2>4, <2>6, <2>7, <2>8 DEF Passing, Stream, Carried
  <2>10. Ended(i, r)
    BY <2>6 DEF Ended
  <2> QED
    BY <2>3, <2>6, <2>9, <2>10 DEF Passing
<1> QED
  BY <1>1, <1>2

LEMMA Flushes ==
  ASSUME NEW i, NEW s, Passing(i, s), ~s.closed, MaxForwardBuffer \in Nat, Room \in Nat
  PROVE  LET f == flushToSocket(s)
         IN  /\ Passing(i, f) /\ (f.closed => f.cut /\ s.ends = "reset") /\ f.sent = s.sent
             /\ f.buf \in Nat /\ f.chan = s.chan /\ f.said = s.said /\ f.heard = s.heard /\ f.ends = s.ends
             /\ s.buf = 0 => f = s
<1>1. CASE s.buf = 0
  BY <1>1 DEF flushToSocket, Passing, Stream
<1>2. CASE s.buf # 0 /\ s.ends = "reset"
  <2> DEFINE f == [s EXCEPT !.closed = TRUE, !.cut = TRUE]
  <2>1. flushToSocket(s) = f
    BY <1>2 DEF flushToSocket
  <2>2. f \in Stream /\ f.st = "on" /\ f.closed /\ f.cut /\ f.sent = s.sent
    BY DEF Passing, Stream
  <2>3. Carried(i, f) /\ Ended(i, f)
    BY <2>2 DEF Passing, Stream, Carried, StreamOK, Ended
  <2>4. /\ f.buf \in Nat /\ f.chan = s.chan /\ f.said = s.said /\ f.heard = s.heard /\ f.ends = s.ends
    BY DEF Passing, Stream
  <2> QED
    BY <1>2, <2>1, <2>2, <2>3, <2>4 DEF Passing
<1>3. CASE s.buf # 0 /\ s.ends # "reset"
  <2> DEFINE n == Least(s.buf, RoomLeft(s))
  <2>1. /\ s.read \in Nat /\ s.got \in Nat /\ s.buf \in Nat /\ s.got + s.buf <= s.read
        /\ s.read <= s.buf + s.got + Room /\ s.buf <= MaxForwardBuffer
    BY DEF Passing, Carried, StreamOK, Stream
  <2>2. n \in Nat /\ n <= s.buf /\ s.read <= (s.buf - n) + s.got + Room
    BY <2>1 DEF Least, RoomLeft
  <2>3. flushToSocket(s) = [s EXCEPT !.buf = s.buf - n]
    BY <1>3, <2>1 DEF flushToSocket, Passing, Stream
  <2> HIDE DEF n
  <2> DEFINE f == [s EXCEPT !.buf = s.buf - n]
  <2>4. s.buf - n \in Nat
    BY <2>1, <2>2
  <2>5. /\ f \in Stream /\ f.st = "on" /\ ~f.closed /\ f.sent = s.sent
        /\ f.buf \in Nat /\ f.chan = s.chan /\ f.said = s.said /\ f.heard = s.heard /\ f.ends = s.ends
    BY <2>4 DEF Passing, Stream
  <2>6. ~s.writeShutdown
    BY <1>3 DEF Passing, Carried
  <2>7. StreamOK(f) /\ f.read <= f.buf + f.got + Room
    BY <2>1, <2>2, <2>4 DEF Passing, Stream, Carried, StreamOK
  <2>8. Carried(i, f)
    BY <2>5, <2>6, <2>7 DEF Passing, Stream, Carried
  <2>9. Ended(i, f)
    BY <2>5 DEF Ended
  <2> QED
    BY <1>3, <2>3, <2>5, <2>8, <2>9 DEF Passing
<1> QED
  BY <1>1, <1>2, <1>3

LEMMA SideEnding ==
  ASSUME NEW i, NEW s, Passing(i, s), s.closed => s.cut
  PROVE  Passing(i, EndSide(s)) /\ EndSide(s).sent = s.sent
<1>1. CASE ~(s.channelEof /\ s.buf = 0)
  BY <1>1 DEF EndSide
<1>2. CASE s.channelEof /\ s.buf = 0 /\ (s.socketEof \/ s.overLib = "closed")
  <2> DEFINE e == [s EXCEPT !.closed = TRUE]
  <2>1. EndSide(s) = e
    BY <1>2 DEF EndSide
  <2>2. e \in Stream /\ e.st = "on" /\ e.sent = s.sent
    BY DEF Passing, Stream
  <2>3. Carried(i, e)
    BY DEF Passing, Stream, Carried, StreamOK
  <2>4. Ended(i, e)
    <3>1. s.read = s.replied
      BY <1>2 DEF Passing, Carried
    <3>2. s.over # "closed" => s.socketEof
      BY <1>2 DEF Passing, Carried
    <3>3. s.socketEof => s.ends = "eof" /\ (s.said = s.sent + Request(i) \/ s.cut)
      BY DEF Passing, Carried
    <3>4. s.sent \in Nat /\ Request(i) \in Nat
      BY DEF Passing, Stream, Request
    <3>5. s.socketEof => s.ends = "eof" /\ (s.sent = s.said - Request(i) \/ s.cut)
      BY <3>3, <3>4
    <3> QED
      BY <1>2, <3>1, <3>2, <3>5 DEF Ended, Passing, Stream
  <2> QED
    BY <2>1, <2>2, <2>3, <2>4 DEF Passing
<1>3. CASE s.channelEof /\ s.buf = 0 /\ ~(s.socketEof \/ s.overLib = "closed")
  <2> DEFINE e == [s EXCEPT !.writeShutdown = TRUE]
  <2>1. EndSide(s) = e
    BY <1>3 DEF EndSide
  <2>2. e \in Stream /\ e.st = "on" /\ e.sent = s.sent
    BY DEF Passing, Stream
  <2>3. Carried(i, e) /\ Ended(i, e)
    BY <1>3 DEF Passing, Stream, Carried, StreamOK, Ended
  <2> QED
    BY <2>1, <2>2, <2>3 DEF Passing
<1> QED
  BY <1>1, <1>2, <1>3

\* A pass of serviceStreams() over one connection.
LEMMA Serving ==
  ASSUME NEW i, NEW s, Passing(i, s), ~s.closed, MaxForwardBuffer \in Nat, Room \in Nat
  PROVE  LET r == Swept(EndSide(flushToSocket(Read(s))))
         IN  r \in Stream /\ Kept(i, r) /\ r.st \in {"on", "gone"} /\ r.sent = s.sent
<1>1. Passing(i, Read(s)) /\ ~Read(s).closed /\ Read(s).sent = s.sent
  BY Reads
<1> DEFINE f == flushToSocket(Read(s))
<1>2. Passing(i, f) /\ (f.closed => f.cut) /\ f.sent = s.sent
  BY <1>1, Flushes
<1> HIDE DEF f
<1>3. Passing(i, EndSide(f)) /\ EndSide(f).sent = s.sent
  BY <1>2, SideEnding
<1> QED
  BY <1>3, Sweeping DEF f

\* The request of a SOCKS client, refused or served.
LEMMA RefusingOne ==
  ASSUME NEW i, NEW s, Passing(i, s)
  PROVE  Passing(i, Refuse(s)) /\ Refuse(s).sent = s.sent
<1>1. Refuse(s) = [s EXCEPT !.closed = TRUE, !.cut = TRUE]
  BY DEF Refuse
<1>2. Refuse(s) \in Stream /\ Refuse(s).st = "on" /\ Refuse(s).closed /\ Refuse(s).cut /\ Refuse(s).sent = s.sent
  BY <1>1 DEF Passing, Stream
<1>3. Carried(i, Refuse(s)) /\ Ended(i, Refuse(s))
  BY <1>1 DEF Passing, Stream, Carried, StreamOK, Ended
<1> QED
  BY <1>2, <1>3 DEF Passing

LEMMA SocksReading ==
  ASSUME NEW i, NEW s, NEW works, Passing(i, s), ~s.chan, s.closed => s.cut /\ s.ends = "reset"
  PROVE  Passing(i, readSocks(i, s, works))
<1>1. /\ Request(i) \in Nat /\ s.sent = 0 /\ s.replied = 0 /\ s.said \in Nat /\ s.heard \in Nat /\ s.taken \in Nat
      /\ s.heard <= s.said /\ s.taken <= s.sent
  BY DEF Request, Passing, Carried, StreamOK, Stream
<1>2. CASE readSocks(i, s, works) = Refuse(s)
  BY <1>2, RefusingOne
<1>3. CASE /\ ~s.closed /\ s.said >= Request(i)
           /\ readSocks(i, s, works) = [s EXCEPT !.heard = s.said, !.chan = TRUE, !.sent = s.said - Request(i)]
  <2> DEFINE r == [s EXCEPT !.heard = s.said, !.chan = TRUE, !.sent = s.said - Request(i)]
  <2>1. s.said - Request(i) \in Nat /\ s.said - Request(i) >= 0 /\ s.said - Request(i) <= s.said
    BY <1>1, <1>3
  <2>2. r \in Stream /\ r.st = "on" /\ ~r.closed
    BY <1>1, <1>3, <2>1 DEF Passing, Stream
  <2>3. StreamOK(r)
    BY <1>1, <2>1 DEF Passing, Carried, StreamOK, Stream
  <2>4. Carried(i, r)
    BY <1>1, <2>1, <2>2, <2>3 DEF Passing, Carried, Stream
  <2> QED
    BY <1>3, <2>2, <2>4 DEF Passing, Ended
<1>4. CASE ~s.closed /\ readSocks(i, s, works) = [s EXCEPT !.heard = s.said]
  <2> DEFINE r == [s EXCEPT !.heard = s.said]
  <2>1. r \in Stream /\ r.st = "on" /\ ~r.closed
    BY <1>1, <1>4 DEF Passing, Stream
  <2>2. Carried(i, r)
    BY <1>1 DEF Passing, Carried, StreamOK, Stream
  <2> QED
    BY <1>4, <2>1, <2>2 DEF Passing, Ended
<1> QED
  BY <1>2, <1>3, <1>4 DEF readSocks

LEMMA SocketReading ==
  ASSUME NEW i, NEW s, NEW works, Passing(i, s), s.closed => s.cut /\ s.ends = "reset",
         CanRead(s), MaxForwardBuffer \in Nat, Window \in Nat
  PROVE  Passing(i, readSocket(i, s, works))
<1>1. /\ Request(i) \in Nat /\ s.sent \in Nat /\ s.said \in Nat /\ s.heard \in Nat /\ s.taken \in Nat
      /\ s.heard <= s.said /\ s.taken <= s.sent /\ s.seen \in Nat /\ s.seen <= s.taken /\ s.sent <= s.heard
  BY DEF Request, Passing, Carried, StreamOK, Stream
<1>2. CASE ~s.chan
  BY <1>2, SocksReading DEF readSocket
<1>3. CASE s.chan /\ WindowLeft(s) = 0
  BY <1>3 DEF readSocket
<1>4. CASE s.chan /\ WindowLeft(s) # 0 /\ s.ends = "reset"
  BY <1>4, RefusingOne DEF readSocket
<1>5. CASE s.chan /\ WindowLeft(s) # 0 /\ s.ends # "reset" /\ s.said > s.heard /\ s.overLib # "closed"
  <2> DEFINE n == Least(s.said - s.heard, WindowLeft(s))
  <2>1. n \in Nat /\ n <= s.said - s.heard
    BY <1>1, <1>5 DEF Least, WindowLeft
  <2>2. readSocket(i, s, works) = [s EXCEPT !.heard = s.heard + n, !.sent = s.sent + n]
    BY <1>5 DEF readSocket, Passing, Stream
  <2> HIDE DEF n
  <2> DEFINE r == [s EXCEPT !.heard = s.heard + n, !.sent = s.sent + n]
  <2>3. s.heard + n \in Nat /\ s.sent + n \in Nat
    BY <1>1, <2>1
  <2>4. r \in Stream /\ r.st = "on" /\ ~r.closed
    BY <1>5, <2>3 DEF Passing, Stream
  <2>5. StreamOK(r)
    BY <1>1, <2>1, <2>3 DEF Passing, Carried, StreamOK, Stream
  <2>6. r.chan => r.heard = r.sent + Request(i)
    BY <1>1, <1>5, <2>1 DEF Passing, Carried, Stream
  <2>7. ~s.socketEof
    BY <1>1, <1>5 DEF Passing, Carried
  <2>8. Carried(i, r)
    BY <1>5, <2>4, <2>5, <2>6, <2>7 DEF Passing, Carried, Stream
  <2> QED
    BY <2>2, <2>4, <2>8 DEF Passing, Ended
<1>6. CASE s.chan /\ WindowLeft(s) # 0 /\ s.ends # "reset" /\ ~(s.said > s.heard)
  <2> DEFINE c == s.channelEof /\ s.buf = 0
  <2>1. readSocket(i, s, works) = [s EXCEPT !.socketEof = TRUE, !.closed = c]
    BY <1>6 DEF readSocket
  <2>2. c \in BOOLEAN /\ (c => s.channelEof /\ s.buf = 0)
    BY DEF Passing, Stream
  <2> HIDE DEF c
  <2> DEFINE r == [s EXCEPT !.socketEof = TRUE, !.closed = c]
  <2>3. r \in Stream /\ r.st = "on"
    BY <2>2 DEF Passing, Stream
  <2>4. s.heard = s.said /\ s.ends = "eof"
    BY <1>1, <1>6 DEF CanRead, Passing, Stream
  <2>5. Carried(i, r)
    BY <1>6, <2>3, <2>4 DEF Passing, Carried, StreamOK, Stream
  <2>6. Ended(i, r)
    <3>1. c => s.read = s.replied /\ s.buf = 0
      BY <2>2 DEF Passing, Carried
    <3>2. s.said = s.sent + Request(i)
      BY <1>6, <2>4 DEF Passing, Carried
    <3>3. s.sent = s.said - Request(i)
      BY <1>1, <3>2
    <3> QED
      BY <2>4, <3>1, <3>3 DEF Passing, Stream, Ended
  <2> QED
    BY <2>1, <2>3, <2>5, <2>6 DEF Passing
<1>7. CASE s.chan /\ WindowLeft(s) # 0 /\ s.ends # "reset" /\ s.said > s.heard /\ s.overLib = "closed"
  <2> DEFINE n == Least(s.said - s.heard, WindowLeft(s))
             c == s.cut \/ s.buf > 0 \/ s.read < s.lib
  <2>1. n \in Nat /\ n <= s.said - s.heard
    BY <1>1, <1>7 DEF Least, WindowLeft
  <2>2. readSocket(i, s, works) = [s EXCEPT !.heard = s.heard + n, !.closed = TRUE, !.cut = c]
    BY <1>7 DEF readSocket, WriteFails, Passing, Stream
  <2>3. c \in BOOLEAN /\ (~c => ~(s.buf > 0) /\ ~(s.read < s.lib))
    BY DEF Passing, Stream
  <2> HIDE DEF n, c
  <2> DEFINE r == [s EXCEPT !.heard = s.heard + n, !.closed = TRUE, !.cut = c]
  <2>4. s.heard + n \in Nat /\ s.heard <= s.heard + n /\ s.heard + n <= s.said
    BY <1>1, <2>1
  <2>5. r \in Stream /\ r.st = "on" /\ r.closed
    BY <2>3, <2>4 DEF Passing, Stream
  <2>6. StreamOK(r)
    BY <1>1, <2>4 DEF Passing, Carried, StreamOK, Stream
  <2>7. ~s.socketEof
    BY <1>1, <1>7 DEF Passing, Carried
  <2>8. Carried(i, r)
    BY <1>7, <2>5, <2>6, <2>7 DEF Passing, Carried, Stream
  <2>9. Ended(i, r)
    <3>1. ~c => s.buf = 0 /\ s.read = s.lib
      <4>1. s.buf \in Nat /\ s.read \in Nat /\ s.lib \in Nat
        BY DEF Passing, Stream
      <4>2. s.read <= s.lib
        BY DEF Passing, Carried, StreamOK
      <4> QED
        BY <2>3, <4>1, <4>2
    <3>2. s.lib = s.replied /\ s.over = "closed"
      BY <1>7 DEF Passing, Carried
    <3> QED
      BY <2>5, <3>1, <3>2 DEF Passing, Stream, Ended
  <2> QED
    BY <2>2, <2>5, <2>8, <2>9 DEF Passing
<1> QED
  BY <1>2, <1>3, <1>4, <1>5, <1>6, <1>7

-----------------------------------------------------------------------------
(* The passes over the forwarded connections *)

LEMMA Opened ==
  ASSUME NEW i, NEW s \in Stream, Kept(i, s), s.st \in {"fresh", "on"}
  PROVE  LET r == [s EXCEPT !.st = "on"]
         IN  /\ Passing(i, r) /\ ~r.closed /\ r.sent = s.sent /\ r.chan = s.chan
             /\ r \in Stream /\ Kept(i, r) /\ r.st = "on"
<1> DEFINE r == [s EXCEPT !.st = "on"]
<1>1. r \in Stream /\ r.st = "on" /\ ~r.closed /\ r.sent = s.sent /\ r.chan = s.chan
  BY DEF Stream, Kept
<1>2. Carried(i, r)
  BY <1>1 DEF Stream, Kept, Carried, StreamOK
<1>3. Ended(i, r)
  BY <1>1 DEF Ended
<1> QED
  BY <1>1, <1>2, <1>3 DEF Passing, Kept

\* What holds of every connection after a step holds of them together.
LEMMA AllKept ==
  ASSUME IInv, scope' = scope, streams' = [i \in Ids |-> streams'[i]],
         \A i \in Ids : streams'[i] \in Stream /\ Kept(i, streams'[i])
  PROVE  streams' \in [DOMAIN scope.forwards -> Stream] /\ Forwarding' /\ Ids' = Ids
<1>1. Ids = DOMAIN scope.forwards
  BY DEF IInv, Types, LoopTypes, Ids
<1>2. streams' \in [DOMAIN scope.forwards -> Stream] /\ Ids' = Ids
  BY <1>1 DEF Ids
<1>3. Forwarding'
  <2> SUFFICES ASSUME NEW i \in Ids
               PROVE  Kept(i, streams[i])'
    BY <1>1 DEF Forwarding
  <2>1. Kept(i, streams'[i])
    OBVIOUS
  <2> QED
    BY <2>1 DEF Kept, Carried, StreamOK, Ended, Request
<1> QED
  BY <1>2, <1>3

\* What a pass of serviceStreams() leaves of a connection.
Pass(i, on, in) ==
    IF i \in on /\ link.up /\ in[i].chan
    THEN Swept(EndSide(flushToSocket(Read([in[i] EXCEPT !.st = "on"]))))
    ELSE IF i \in on THEN [in[i] EXCEPT !.st = "on"] ELSE in[i]

LEMMA Passes ==
  ASSUME IInv, NEW i \in Ids, NEW on, NEW in, in[i] \in Stream, Kept(i, in[i]),
         i \in on => in[i].st \in {"fresh", "on"}
  PROVE  Pass(i, on, in) \in Stream /\ Kept(i, Pass(i, on, in))
<1>1. MaxForwardBuffer \in Nat /\ Room \in Nat
  BY WorkerAssumption
<1>2. CASE i \notin on
  BY <1>2 DEF Pass
<1>3. CASE i \in on
  <2> DEFINE r == [in[i] EXCEPT !.st = "on"]
  <2>1. /\ Passing(i, r) /\ ~r.closed /\ r \in Stream /\ Kept(i, r)
    BY <1>3, Opened
  <2>2. Pass(i, on, in) = r \/ Pass(i, on, in) = Swept(EndSide(flushToSocket(Read(r))))
    BY <1>3 DEF Pass
  <2> HIDE DEF r
  <2>3. Swept(EndSide(flushToSocket(Read(r)))) \in Stream /\ Kept(i, Swept(EndSide(flushToSocket(Read(r)))))
    BY <1>1, <2>1, Serving
  <2> QED
    BY <2>1, <2>2, <2>3
<1> QED
  BY <1>2, <1>3

LEMMA Servicing ==
  ASSUME IInv, serviceStreams
  PROVE  IInv'
<1>1. /\ UNCHANGED <<scope, ui, wake, kept, stopping>> /\ Types /\ link \in Link /\ shell \in Shell
      /\ streams \in [DOMAIN scope.forwards -> Stream] /\ Ids = DOMAIN scope.forwards
      /\ at = "streams" /\ at \in LoopPlaces /\ reports = 0 /\ Showing /\ Forwarding
  BY DEF serviceStreams, kept, IInv, Types, LoopTypes, LoopPlaces, Reporting, Ids
<1> DEFINE on == {i \in Ids : streams[i].st \in {"fresh", "on"}}
<1> DEFINE calls == link.up /\ (scope.status \/ \E i \in on : wantsChannelData(streams[i]))
<1>2. PICK refused \in SUBSET Ids :
        /\ shell' = IF calls THEN ShellIn ELSE shell
        /\ streams' = [i \in Ids |-> Pass(i, on, IF calls THEN StreamsIn(refused) ELSE streams)]
        /\ IF calls /\ Dead
           THEN LoseSsh("look")
           ELSE /\ at' = "look"
                /\ link' = [link EXCEPT !.missed = Missed(shell', streams')]
                /\ UNCHANGED reports
  BY DEF serviceStreams, Pass
<1> DEFINE in == IF calls THEN StreamsIn(refused) ELSE streams
<1>3. \A i \in Ids : /\ in[i] \in Stream /\ Kept(i, in[i])
                     /\ i \in on => in[i].st \in {"fresh", "on"}
  <2>1. CASE calls
    <3>1. in = StreamsIn(refused)
      BY <2>1
    <3>2. \A i \in Ids : /\ StreamsIn(refused)[i] \in Stream /\ Kept(i, StreamsIn(refused)[i])
                         /\ streams[i].st \in {"none", "fresh", "on", "gone"} => StreamsIn(refused)[i].st = streams[i].st
      BY TakenIn
    <3> QED
      BY <3>1, <3>2
  <2>2. CASE ~calls
    <3>1. in = streams
      BY <2>2
    <3> QED
      BY <1>1, <3>1 DEF Forwarding
  <2> QED
    BY <2>1, <2>2
<1>4. calls => link.up
  OBVIOUS
<1>5. on = {i \in Ids : streams[i].st \in {"fresh", "on"}} /\ (~calls => in = streams)
  OBVIOUS
<1> HIDE DEF on, in
<1>6. \A i \in Ids : streams'[i] = Pass(i, on, in)
  BY <1>2 DEF in
<1>7. /\ streams' \in [DOMAIN scope.forwards -> Stream] /\ Forwarding' /\ Ids' = Ids
  <2>1. \A i \in Ids : streams'[i] \in Stream /\ Kept(i, streams'[i])
    <3> SUFFICES ASSUME NEW i \in Ids
                 PROVE  streams'[i] \in Stream /\ Kept(i, streams'[i])
      OBVIOUS
    <3>1. in[i] \in Stream /\ Kept(i, in[i]) /\ (i \in on => in[i].st \in {"fresh", "on"})
      BY <1>3
    <3>2. Pass(i, on, in) \in Stream /\ Kept(i, Pass(i, on, in))
      BY <3>1, Passes
    <3> QED
      BY <1>6, <3>2
  <2>2. streams' = [i \in Ids |-> streams'[i]]
    BY <1>2
  <2> QED
    BY <1>1, <2>1, <2>2, AllKept
<1>8. link.up \/ \A i \in Ids : streams'[i].st \in {"none", "gone"}
  <2> SUFFICES ASSUME ~link.up, NEW i \in Ids
               PROVE  streams'[i].st \in {"none", "gone"}
    OBVIOUS
  <2>1. streams[i].st \in {"none", "gone"}
    BY DEF IInv, Connected
  <2>2. i \notin on /\ in = streams
    BY <1>4, <1>5, <2>1
  <2> QED
    BY <1>6, <2>1, <2>2 DEF Pass
<1>9. /\ shell' \in Shell /\ shell'.eaten <= shell'.read /\ shell'.read <= shell'.lib /\ shell'.lib <= shell'.sent
      /\ shell'.read <= shell'.eaten + MaxUnconsumed + 1
      /\ shell'.endLib => shell'.end /\ shell'.lib = shell'.sent
      /\ link.exited => shell'.end /\ shell'.read = shell'.sent
  <2>1. CASE shell' = shell
    BY <1>1, <2>1 DEF Showing
  <2>2. CASE shell' = ShellIn
    <3>1. shell' = [sent |-> shell.sent, lib |-> shell.sent, read |-> shell.read, eaten |-> shell.eaten,
                    end |-> shell.end, endLib |-> shell.end]
      BY <1>1, <2>2 DEF ShellIn, Shell
    <3>2. MaxUnconsumed \in Nat
      BY WorkerAssumption
    <3> QED
      BY <1>1, <3>1, <3>2 DEF Showing, Shell
  <2> QED
    BY <1>2, <2>1, <2>2
<1>10. CASE calls /\ Dead
  <2>1. LoseSsh("look")
    BY <1>2, <1>10
  <2>2. Showing'
    BY <1>9, <2>1, LostLink DEF Showing
  <2> QED
    BY <1>1, <1>7, <1>8, <1>9, <2>1, <2>2, Losing
<1>11. CASE ~(calls /\ Dead)
  <2> DEFINE m == Missed(shell', streams')
  <2>1. at' = "look" /\ link' = [link EXCEPT !.missed = m] /\ UNCHANGED reports
    BY <1>2, <1>11
  <2>2. m \in BOOLEAN
    BY DEF Missed
  <2>3. Ids' = Ids /\ (link'.shell = link.shell => (m <=> Missed(shell, streams)'))
    BY <1>7 DEF Missed, ShellHasEnded, wantsChannelData
  <2> HIDE DEF m
  <2>4. /\ link' \in Link /\ link'.up = link.up /\ link'.mosh = link.mosh /\ link'.shell = link.shell
        /\ link'.gone = link.gone /\ link'.unsaid = link.unsaid
        /\ link'.typed = link.typed /\ link'.carried = link.carried
        /\ link'.missed = m /\ link'.exited = link.exited
    BY <1>1, <2>1, <2>2 DEF Link
  <2>5. LoopTypes'
    BY <1>1, <1>7, <1>9, <2>4 DEF Types, LoopTypes, Link, Polled
  <2>6. /\ Prompting' /\ PromptTypes' /\ Sockets' /\ SocketTypes' /\ PlaceTypes'
    <3>1. reports' \in Nat /\ wake' \in BOOLEAN
      BY <1>1, <2>1 DEF Types, PlaceTypes
    <3> QED
      BY <1>1, <2>1, <2>4, <3>1, InLoop DEF LoopPlaces
  <2>7. Reporting'
    BY <1>1, <2>1, <2>4 DEF Reporting, LoginPlaces, LoopPlaces, KeyPlaces, Logins, Leaving
  <2>8. Showing'
    BY <1>9, <2>4 DEF Showing
  <2>9. Connected'
    BY <1>1, <1>7, <1>8, <2>1, <2>4 DEF IInv, Connected, LoginPlaces, LoopPlaces, KeyPlaces, Logins
  <2>10. Polling'
    BY <2>1, <2>3, <2>4 DEF Polling
  <2> QED
    BY <1>7, <2>5, <2>6, <2>7, <2>8, <2>9, <2>10 DEF IInv, Types
<1> QED
  BY <1>10, <1>11

-----------------------------------------------------------------------------
(* poll() *)

\* What is looked for is listed as it is.
LEMMA Listing ==
  ASSUME IInv, NEW b \in BOOLEAN
  PROVE  /\ Polls(b) \in Polled /\ Polls(b).on = On /\ Polls(b).in = {i \in On : WatchesIn(streams[i])}
         /\ Polls(b).out = {i \in On : streams[i].buf > 0} /\ Polls(b).buffered = b
         /\ Polls(b).ssh = (link.up /\ ~throttled /\ Reading)
<1>1. On \subseteq DOMAIN scope.forwards /\ link.up \in BOOLEAN
  BY DEF On, IInv, Types, LoopTypes, Ids, Link
<1>2. (link.up /\ ~throttled /\ Reading) \in BOOLEAN
  OBVIOUS
<1>3. {i \in On : WatchesIn(streams[i])} \subseteq On /\ {i \in On : streams[i].buf > 0} \subseteq On
  OBVIOUS
<1> QED
  BY <1>1, <1>2, <1>3 DEF Polls, Polled

\* On to poll(), with what was listed.
LEMMA ToPoll ==
  ASSUME IInv, UNCHANGED <<scope, ui, wake, reports, kept>>, at = "look", at' = "poll",
         link' \in Link, link'.up = link.up, link'.mosh = link.mosh, link'.shell = link.shell,
         link'.gone = link.gone, link'.unsaid = link.unsaid,
         link'.typed = link.typed, link'.carried = link.carried,
         link'.exited = link.exited, shell' \in Shell, streams' \in [DOMAIN scope.forwards -> Stream], Forwarding',
         shell'.eaten <= shell'.read, shell'.read <= shell'.lib, shell'.lib <= shell'.sent,
         shell'.read <= shell'.eaten + MaxUnconsumed + 1,
         shell'.endLib => shell'.end /\ shell'.lib = shell'.sent,
         link.exited => shell'.end /\ shell'.read = shell'.sent,
         link.up \/ \A i \in Ids : streams'[i].st \in {"none", "gone"},
         Polling'
  PROVE  IInv'
<1>1. /\ Types /\ link \in Link /\ reports = 0 /\ at \in LoopPlaces /\ UNCHANGED stopping
      /\ Ids = DOMAIN scope.forwards
  BY DEF kept, IInv, Types, LoopTypes, LoopPlaces, Reporting, Ids
<1>2. LoopTypes'
  BY <1>1 DEF Types, LoopTypes, Link, Polled
<1>3. /\ Prompting' /\ PromptTypes' /\ Sockets' /\ SocketTypes' /\ PlaceTypes'
  <2>1. reports' \in Nat /\ wake' \in BOOLEAN
    BY <1>1 DEF Types, PlaceTypes
  <2> QED
    BY <1>1, <2>1, InLoop DEF LoopPlaces
<1>4. Reporting'
  BY <1>1 DEF Reporting, LoginPlaces, LoopPlaces, KeyPlaces, Logins, Leaving
<1>5. Showing'
  BY DEF Showing
<1>6. Ids' = Ids
  BY <1>1 DEF Ids
<1>7. Connected'
  BY <1>1, <1>6 DEF IInv, Connected, LoginPlaces, LoopPlaces, KeyPlaces, Logins
<1> QED
  BY <1>2, <1>3, <1>4, <1>5, <1>7 DEF IInv, Types

LEMMA Looking ==
  ASSUME IInv, Look
  PROVE  IInv'
<1> DEFINE b == Buffered(shell, streams)
<1>1. /\ UNCHANGED <<scope, ui, shell, streams, wake, reports, kept>> /\ at = "look" /\ at' = "poll"
      /\ link' = [link EXCEPT !.polls = Polls(b)]
      /\ link \in Link /\ shell \in Shell /\ streams \in [DOMAIN scope.forwards -> Stream] /\ Showing /\ Forwarding
      /\ Ids = DOMAIN scope.forwards
  BY DEF Look, IInv, Types, LoopTypes, Ids
<1>2. b \in BOOLEAN
  BY DEF Buffered
<1>3. b <=> Buffered(shell, streams)
  OBVIOUS
<1> HIDE DEF b
<1>4. /\ Polls(b) \in Polled /\ Polls(b).on = On /\ Polls(b).in = {i \in On : WatchesIn(streams[i])}
      /\ Polls(b).out = {i \in On : streams[i].buf > 0} /\ Polls(b).buffered = b
      /\ Polls(b).ssh = (link.up /\ ~throttled /\ Reading)
  BY <1>2, Listing
<1>5. /\ link'.up = link.up /\ link'.shell = link.shell /\ link'.missed = link.missed /\ link'.polls = Polls(b)
      /\ link' \in Link /\ link'.mosh = link.mosh
      /\ link'.gone = link.gone /\ link'.unsaid = link.unsaid /\ link'.typed = link.typed
      /\ link'.carried = link.carried /\ link'.exited = link.exited
  BY <1>1, <1>4 DEF Link
<1>6. /\ On' = On /\ (Reading' <=> Reading) /\ Ids' = Ids /\ (throttled' <=> throttled)
      /\ {i \in On : WatchesIn(streams[i])}' = {i \in On : WatchesIn(streams[i])}
      /\ {i \in On : streams[i].buf > 0}' = {i \in On : streams[i].buf > 0}
      /\ Missed(shell, streams)' <=> Missed(shell, streams)
  <2>1. On' = On /\ (Reading' <=> Reading) /\ Ids' = Ids /\ (throttled' <=> throttled)
    BY <1>1, <1>5 DEF On, Reading, Ids, throttled
  <2>2. {i \in On : WatchesIn(streams[i])}' = {i \in On : WatchesIn(streams[i])}
    BY <1>1, <2>1 DEF WatchesIn, WindowLeft
  <2>3. {i \in On : streams[i].buf > 0}' = {i \in On : streams[i].buf > 0}
    BY <1>1, <2>1
  <2>4. Missed(shell, streams)' <=> Missed(shell, streams)
    BY <1>1, <1>5, <2>1 DEF Missed, ShellHasEnded, wantsChannelData
  <2> QED
    BY <2>1, <2>2, <2>3, <2>4
<1>7. link.up /\ ~throttled /\ ~b =>
        /\ link.shell => shell.lib = shell.read
        /\ \A i \in On : wantsChannelData(streams[i]) => streams[i].lib = streams[i].read
  <2> SUFFICES ASSUME link.up, ~throttled, ~b
               PROVE  /\ link.shell => shell.lib = shell.read
                      /\ \A i \in On : wantsChannelData(streams[i]) => streams[i].lib = streams[i].read
    OBVIOUS
  <2>1. link.shell => shell.lib = shell.read
    BY <1>1, <1>3 DEF Buffered, Showing, Shell
  <2>2. ASSUME NEW i \in On, wantsChannelData(streams[i])
        PROVE  streams[i].lib = streams[i].read
    <3>1. /\ streams[i].lib \in Nat /\ streams[i].read \in Nat /\ streams[i].read <= streams[i].lib
      BY <1>1 DEF On, Stream, Forwarding, Kept, Carried, StreamOK
    <3>2. ~(streams[i].lib > streams[i].read)
      BY <1>3, <2>2 DEF Buffered
    <3> QED
      BY <3>1, <3>2
  <2> QED
    BY <2>1, <2>2
<1>8. Polling'
  <2>1. ~link.missed => ~Missed(shell, streams)
    BY <1>1 DEF IInv, Polling
  <2>2. link'.polls.on = On' /\ link'.polls.in = {i \in On : WatchesIn(streams[i])}'
        /\ link'.polls.out = {i \in On : streams[i].buf > 0}'
    BY <1>4, <1>5, <1>6
  <2>3. (link.up /\ ~throttled /\ Reading)' => link'.polls.ssh
    BY <1>4, <1>5, <1>6
  <2>4. (link.up /\ link.polls.ssh /\ ~link.polls.buffered)' => link.up /\ ~throttled /\ ~b
    BY <1>4, <1>5
  <2>5. (/\ link.shell => shell.lib = shell.read
         /\ \A i \in On : wantsChannelData(streams[i]) => streams[i].lib = streams[i].read)'
        <=> /\ link.shell => shell.lib = shell.read
            /\ \A i \in On : wantsChannelData(streams[i]) => streams[i].lib = streams[i].read
    BY <1>1, <1>5, <1>6 DEF wantsChannelData
  <2> QED
    BY <1>1, <1>5, <1>6, <1>7, <2>1, <2>2, <2>3, <2>4, <2>5 DEF Polling
<1>9. /\ Forwarding' /\ shell' \in Shell /\ streams' \in [DOMAIN scope.forwards -> Stream]
      /\ shell'.eaten <= shell'.read /\ shell'.read <= shell'.lib /\ shell'.lib <= shell'.sent
      /\ shell'.read <= shell'.eaten + MaxUnconsumed + 1
      /\ shell'.endLib => shell'.end /\ shell'.lib = shell'.sent
      /\ link.exited => shell'.end /\ shell'.read = shell'.sent
  BY <1>1, ForwardingStays DEF Showing
<1>10. link.up \/ \A i \in Ids : streams'[i].st \in {"none", "gone"}
  BY <1>1 DEF IInv, Connected
<1> QED
  BY <1>1, <1>5, <1>8, <1>9, <1>10, ToPoll

LEMMA Hearing ==
  ASSUME IInv, LookHears
  PROVE  IInv'
<1>1. PICK refused \in SUBSET Ids :
        /\ shell' = ShellIn /\ streams' = StreamsIn(refused)
        /\ \E buffered \in {Buffered(shell, streams), Buffered(shell', streams')} :
             link' = [link EXCEPT !.polls = Polls(buffered), !.missed = TRUE]
  BY DEF LookHears
<1>2. /\ UNCHANGED <<scope, ui, wake, reports, kept>> /\ at = "look" /\ at' = "poll" /\ link.up
      /\ link \in Link /\ shell \in Shell /\ Showing
      /\ Ids = DOMAIN scope.forwards
  BY DEF LookHears, IInv, Types, LoopTypes, Ids
<1>3. /\ streams' \in [DOMAIN scope.forwards -> Stream] /\ Forwarding' /\ Ids' = Ids
      /\ \A i \in Ids : /\ streams[i].st \in {"none", "fresh", "on", "gone"} => streams'[i].st = streams[i].st
                        /\ streams[i].st = "asks" => streams'[i].st \in {"asks", "fresh", "gone"}
  BY <1>1, <1>2, AllTakenIn
<1>4. On' = On
  <2>1. \A i \in Ids : streams[i].st \in {"none", "asks", "fresh", "on", "gone"}
    BY <1>2 DEF IInv, Types, LoopTypes, Stream
  <2>2. \A i \in Ids : streams'[i].st = "on" <=> streams[i].st = "on"
    BY <1>3, <2>1
  <2> QED
    BY <1>3, <2>2 DEF On
<1>5. /\ link'.missed /\ link'.polls.on = On
      /\ link' \in Link /\ link'.up = link.up /\ link'.mosh = link.mosh /\ link'.shell = link.shell
      /\ link'.gone = link.gone /\ link'.unsaid = link.unsaid
      /\ link'.typed = link.typed /\ link'.carried = link.carried
      /\ link'.exited = link.exited
  <2> DEFINE now == Buffered(shell, streams)
  <2> DEFINE then == Buffered(shell', streams')
  <2>1. now \in BOOLEAN /\ then \in BOOLEAN
    BY DEF Buffered
  <2>2. \/ link' = [link EXCEPT !.polls = Polls(now), !.missed = TRUE]
        \/ link' = [link EXCEPT !.polls = Polls(then), !.missed = TRUE]
    BY <1>1
  <2> HIDE DEF now, then
  <2>3. Polls(now) \in Polled /\ Polls(now).on = On /\ Polls(then) \in Polled /\ Polls(then).on = On
    BY <2>1, Listing
  <2>4. CASE link' = [link EXCEPT !.polls = Polls(now), !.missed = TRUE]
    BY <1>2, <2>3, <2>4 DEF Link
  <2>5. CASE link' = [link EXCEPT !.polls = Polls(then), !.missed = TRUE]
    BY <1>2, <2>3, <2>5 DEF Link
  <2> QED
    BY <2>2, <2>4, <2>5
<1>6. Polling'
  BY <1>2, <1>4, <1>5 DEF Polling
<1>7. /\ shell' \in Shell
      /\ shell'.eaten <= shell'.read /\ shell'.read <= shell'.lib /\ shell'.lib <= shell'.sent
      /\ shell'.read <= shell'.eaten + MaxUnconsumed + 1
      /\ shell'.endLib => shell'.end /\ shell'.lib = shell'.sent
      /\ link.exited => shell'.end /\ shell'.read = shell'.sent
  <2>1. shell' = [sent |-> shell.sent, lib |-> shell.sent, read |-> shell.read, eaten |-> shell.eaten,
                  end |-> shell.end, endLib |-> shell.end]
    BY <1>1, <1>2 DEF ShellIn, Shell
  <2>2. MaxUnconsumed \in Nat
    BY WorkerAssumption
  <2> QED
    BY <1>2, <2>1, <2>2 DEF Showing, Shell
<1> QED
  BY <1>2, <1>3, <1>5, <1>6, <1>7, ToPoll

\* A hang-up closes a connection for good, which was whole if both sides had ended.
LEMMA HangingUp ==
  ASSUME NEW i, NEW s, NEW f, Passing(i, s), Passing(i, f), HangUp(s), s.buf = 0 => f = s,
         ~s.closed,
         NEW r, r = [f EXCEPT !.closed = TRUE, !.cut = @ \/ ~s.socketEof]
  PROVE  Passing(i, r)
<1> DEFINE c == f.cut \/ ~s.socketEof
<1>1. c \in BOOLEAN /\ (~c => s.socketEof /\ ~f.cut)
  BY DEF Passing, Stream
<1>2. r = [f EXCEPT !.closed = TRUE, !.cut = c]
  BY DEF Passing, Stream
<1> HIDE DEF c
<1>3. r \in Stream /\ r.st = "on" /\ r.closed /\ r.cut = c
  <2> DEFINE g == [f EXCEPT !.closed = TRUE]
  <2>1. f \in Stream /\ f.st = "on"
    BY DEF Passing
  <2>2. g \in Stream /\ g.st = "on" /\ g.closed
    BY ONLY <2>1 DEF Stream
  <2>3. r = [g EXCEPT !.cut = c]
    BY ONLY <1>2, <2>1 DEF Stream
  <2> HIDE DEF g
  <2> QED
    BY ONLY <1>1, <2>2, <2>3 DEF Stream
<1>4. Carried(i, r)
  BY <1>1, <1>2, <1>3 DEF Passing, Stream, Carried, StreamOK
<1>5. Ended(i, r)
  <2> SUFFICES ASSUME ~c
               PROVE  /\ f.read = f.replied /\ f.buf = 0
                      /\ f.ends = "eof" /\ f.sent = f.said - Request(i)
    BY <1>2, <1>3 DEF Ended, Passing, Stream
  <2>1. s.socketEof /\ s.ends = "eof" /\ s.chan /\ s.heard = s.said /\ s.said = s.sent + Request(i)
    BY <1>1 DEF Passing, Carried
  <2>2. s.writeShutdown /\ s.channelEof /\ s.buf = 0 /\ s.read = s.lib /\ s.lib = s.replied
    BY <2>1 DEF HangUp, Passing, Carried
  <2>3. s.sent \in Nat /\ Request(i) \in Nat
    BY DEF Passing, Stream, Request
  <2>4. s.sent = s.said - Request(i)
    BY <2>1, <2>3
  <2> QED
    BY <2>1, <2>2, <2>4
<1> QED
  BY <1>3, <1>4, <1>5 DEF Passing

LEMMA WakingOne ==
  ASSUME IInv, NEW i \in Ids, streams[i].st = "on", NEW works
  PROVE  Woken(i, works) \in Stream /\ Kept(i, Woken(i, works))
<1> DEFINE s == streams[i]
<1>1. s \in Stream /\ Kept(i, s)
  BY DEF IInv, Types, LoopTypes, Ids, Forwarding
<1>2. /\ MaxForwardBuffer \in Nat /\ Room \in Nat /\ Window \in Nat
  BY WorkerAssumption
<1>3. Passing(i, s) /\ ~s.closed
  BY <1>1 DEF Passing, Kept
<1> DEFINE f == IF i \in link.polls.out THEN flushToSocket(s) ELSE s
<1> HIDE DEF s
<1>4. /\ Passing(i, f) /\ (f.closed => f.cut /\ f.ends = "reset") /\ (s.buf = 0 => f = s)
      /\ f.said = s.said /\ f.heard = s.heard /\ f.ends = s.ends
  <2> DEFINE g == flushToSocket(s)
  <2>1. /\ Passing(i, g) /\ (g.closed => g.cut /\ s.ends = "reset")
        /\ g.said = s.said /\ g.heard = s.heard /\ g.ends = s.ends /\ (s.buf = 0 => g = s)
    BY <1>2, <1>3, Flushes
  <2> HIDE DEF g
  <2>2. f = g \/ f = s
    BY DEF g
  <2> HIDE DEF f
  <2> QED
    BY <1>3, <2>1, <2>2
<1>5. \/ CanRead(s) /\ Woken(i, works) = Swept(readSocket(i, f, works))
      \/ HangUp(s) /\ Woken(i, works) = Swept([f EXCEPT !.closed = TRUE, !.cut = @ \/ ~s.socketEof])
      \/ Woken(i, works) = Swept(f)
  BY DEF Woken, s
<1> HIDE DEF f
<1>6. CASE CanRead(s) /\ Woken(i, works) = Swept(readSocket(i, f, works))
  <2>1. CanRead(f)
    BY <1>4, <1>6 DEF CanRead
  <2>2. Passing(i, readSocket(i, f, works))
    BY <1>2, <1>4, <2>1, SocketReading
  <2> QED
    BY <1>6, <2>2, Sweeping
<1>7. CASE HangUp(s) /\ Woken(i, works) = Swept([f EXCEPT !.closed = TRUE, !.cut = @ \/ ~s.socketEof])
  <2> DEFINE r == [f EXCEPT !.closed = TRUE, !.cut = @ \/ ~s.socketEof]
  <2>1. r = [f EXCEPT !.closed = TRUE, !.cut = @ \/ ~s.socketEof] /\ Woken(i, works) = Swept(r)
    BY <1>7
  <2>2. HangUp(s) /\ (f.closed => f.cut)
    BY <1>4, <1>7
  <2> HIDE DEF r
  <2>3. Passing(i, r)
    BY <1>3, <1>4, <2>1, <2>2, HangingUp
  <2> QED
    BY <2>1, <2>3, Sweeping
<1>8. CASE Woken(i, works) = Swept(f)
  BY <1>4, <1>8, Sweeping
<1> QED
  BY <1>5, <1>6, <1>7, <1>8

LEMMA Accepting ==
  ASSUME IInv, NEW i \in Ids, streams[i].st = "asks", NEW works
  PROVE  acceptForward(i, works) \in Stream /\ Kept(i, acceptForward(i, works))
<1> DEFINE s == streams[i]
<1>1. s \in Stream /\ Kept(i, s) /\ s = [NoStream EXCEPT !.st = "asks"]
  BY DEF IInv, Types, LoopTypes, Ids, Forwarding, Kept, Carried
<1>2. MaxForwardBuffer \in Nat /\ Room \in Nat /\ Request(i) \in Nat
  BY WorkerAssumption DEF Request
<1> HIDE DEF s
<1>3. CASE acceptForward(i, works) = [s EXCEPT !.st = "on"]
  <2> DEFINE r == [s EXCEPT !.st = "on"]
  <2>1. r \in Stream /\ r.st = "on"
    <3>1. s \in Stream
      BY <1>1
    <3> QED
      BY <3>1 DEF Stream
  <2>2. Kept(i, r)
    BY <1>1, <1>2, <2>1 DEF NoStream, Kept, Carried, StreamOK, Ended
  <2> QED
    BY <1>3, <2>1, <2>2
<1>4. CASE Request(i) = 0 /\ acceptForward(i, works) = [s EXCEPT !.st = "on", !.chan = TRUE]
  <2> DEFINE r == [s EXCEPT !.st = "on", !.chan = TRUE]
  <2>1. r \in Stream /\ r.st = "on"
    <3>1. s \in Stream
      BY <1>1
    <3> QED
      BY <3>1 DEF Stream
  <2>2. Kept(i, r)
    BY <1>1, <1>2, <1>4, <2>1 DEF NoStream, Kept, Carried, StreamOK, Ended
  <2> QED
    BY <1>4, <2>1, <2>2
<1>5. CASE acceptForward(i, works) = [s EXCEPT !.st = "gone", !.cut = TRUE]
  <2> DEFINE r == [s EXCEPT !.st = "gone", !.cut = TRUE]
  <2>1. r \in Stream /\ r.st = "gone"
    <3>1. s \in Stream
      BY <1>1
    <3> QED
      BY <3>1 DEF Stream
  <2>2. Kept(i, r)
    BY <1>1, <1>2, <2>1 DEF NoStream, Kept, Carried, StreamOK, Ended
  <2> QED
    BY <1>5, <2>1, <2>2
<1>6. \/ acceptForward(i, works) = [s EXCEPT !.st = "on"]
      \/ Request(i) = 0 /\ acceptForward(i, works) = [s EXCEPT !.st = "on", !.chan = TRUE]
      \/ acceptForward(i, works) = [s EXCEPT !.st = "gone", !.cut = TRUE]
  <2>1. Request(i) > 0 \/ Request(i) = 0
    BY <1>2
  <2> QED
    BY <2>1 DEF acceptForward, s
<1> QED
  BY <1>3, <1>4, <1>5, <1>6

LEMMA Returning ==
  ASSUME IInv, PollReturns
  PROVE  IInv'
<1>1. /\ UNCHANGED <<scope, ui, shell, wake, kept, stopping>> /\ Types /\ link \in Link /\ shell \in Shell
      /\ streams \in [DOMAIN scope.forwards -> Stream] /\ Ids = DOMAIN scope.forwards
      /\ at = "poll" /\ at \in LoopPlaces /\ reports = 0 /\ Showing /\ Forwarding /\ link.polls.on = On
  BY DEF PollReturns, kept, IInv, Types, LoopTypes, LoopPlaces, Reporting, Ids, Polling
<1>2. PICK works \in SUBSET Ids :
         streams' = [i \in Ids |->
            IF i \in link.polls.on THEN Woken(i, i \in works)
            ELSE IF streams[i].st = "asks" /\ scope.forwards[i] # "remote"
            THEN acceptForward(i, i \in works)
            ELSE streams[i]]
  BY DEF PollReturns
<1>3. /\ streams' \in [DOMAIN scope.forwards -> Stream] /\ Forwarding' /\ Ids' = Ids
  <2>1. streams' = [i \in Ids |-> streams'[i]]
    BY <1>2
  <2>2. ASSUME NEW i \in Ids
        PROVE  streams'[i] \in Stream /\ Kept(i, streams'[i])
    <3> DEFINE w == i \in works
    <3>1. streams'[i] = IF i \in link.polls.on THEN Woken(i, w)
                        ELSE IF streams[i].st = "asks" /\ scope.forwards[i] # "remote"
                        THEN acceptForward(i, w)
                        ELSE streams[i]
      BY <1>2
    <3> HIDE DEF w
    <3>2. CASE i \in link.polls.on
      <4>1. streams[i].st = "on" /\ streams'[i] = Woken(i, w)
        BY <1>1, <3>1, <3>2 DEF On
      <4> QED
        BY <4>1, WakingOne
    <3>3. CASE i \notin link.polls.on /\ streams[i].st = "asks" /\ scope.forwards[i] # "remote"
      <4>1. streams[i].st = "asks" /\ streams'[i] = acceptForward(i, w)
        BY <3>1, <3>3
      <4> QED
        BY <4>1, Accepting
    <3>4. CASE i \notin link.polls.on /\ ~(streams[i].st = "asks" /\ scope.forwards[i] # "remote")
      BY <1>1, <3>1, <3>4 DEF Forwarding
    <3> QED
      BY <3>2, <3>3, <3>4
  <2> QED
    BY <1>1, <2>1, <2>2, AllKept
<1>4. link.up \/ \A i \in Ids : streams'[i].st \in {"none", "gone"}
  <2> SUFFICES ASSUME ~link.up, NEW i \in Ids
               PROVE  streams'[i].st \in {"none", "gone"}
    OBVIOUS
  <2>1. streams[i].st \in {"none", "gone"}
    BY DEF IInv, Connected
  <2>2. i \notin link.polls.on
    BY <1>1, <2>1 DEF On
  <2> QED
    BY <1>2, <2>1, <2>2
<1>5. CASE LoseSsh("loop")
  <2>1. Showing'
    BY <1>1, <1>5, LostLink DEF Showing
  <2> QED
    BY <1>1, <1>3, <1>4, <1>5, <2>1, Losing
<1>6. CASE at' = "loop" /\ UNCHANGED <<link, reports>>
  <2>1. LoopTypes'
    BY <1>1, <1>3, <1>6 DEF Types, LoopTypes, Link, Polled
  <2>2. /\ Prompting' /\ PromptTypes' /\ Sockets' /\ SocketTypes' /\ PlaceTypes'
    <3>1. reports' \in Nat /\ wake' \in BOOLEAN
      BY <1>1, <1>6 DEF Types, PlaceTypes
    <3> QED
      BY <1>1, <1>6, <3>1, InLoop DEF LoopPlaces
  <2>3. Reporting'
    BY <1>1, <1>6, Unreported DEF LoopPlaces, Leaving
  <2>4. Showing'
    BY <1>1, <1>6 DEF Showing
  <2>5. Connected' /\ Polling'
    BY <1>1, <1>3, <1>4, <1>6 DEF IInv, Connected, Polling, LoginPlaces, LoopPlaces, KeyPlaces, Logins
  <2> QED
    BY <1>3, <2>1, <2>2, <2>3, <2>4, <2>5 DEF IInv, Types
<1>7. LoseSsh("loop") \/ (at' = "loop" /\ UNCHANGED <<link, reports>>)
  <2> DEFINE writes == {i \in Ids : streams[i].chan /\ streams'[i].heard > streams[i].heard}
             sends == {i \in writes : streams'[i].sent > streams[i].sent}
  <2>1. \/ Dead /\ writes # {} /\ LoseSsh("loop")
        \/ (Dead => sends = {}) /\ at' = "loop" /\ UNCHANGED <<link, reports>>
    BY DEF PollReturns
  <2> QED
    BY <2>1
<1> QED
  BY <1>5, <1>6, <1>7

-----------------------------------------------------------------------------
(* The invariant *)

LEMMA Starts ==
  ASSUME Init
  PROVE  IInv
<1>1. /\ scope \in Scopes /\ LoginScope(scope) /\ WorkerScope(scope)
      /\ MaxUnconsumed \in Nat /\ MaxForwardBuffer \in Nat /\ Room \in Nat
  BY LoginAssumption, WorkerAssumption DEF Init, LoginInit
<1>2. at \in {"resume", "jumpKey", "key"} /\ at \in Places
  BY DEF Init, Places, LoginPlaces, KeyPlaces
<1>3. PlaceTypes
  BY <1>1, <1>2 DEF Init, LoginInit, PlaceTypes, LoginScope
<1>4. PromptTypes
  <2>1. <<>> \in Seq(Nat)
    OBVIOUS
  <2> QED
    BY <2>1 DEF Init, LoginInit, PromptTypes
<1>5. SocketTypes
  BY DEF Init, LoginInit, SocketTypes
<1>6. NoStream \in Stream
  BY DEF NoStream, Stream
<1>7. /\ streams = [i \in DOMAIN scope.forwards |-> NoStream] /\ Ids = DOMAIN scope.forwards
  BY DEF Init, Ids
<1>8. LoopTypes
  <2>1. NoPolls \in Polled
    BY DEF NoPolls, Polled
  <2>2. link \in Link /\ shell \in Shell
    BY <2>1 DEF Init, Link, Shell
  <2> QED
    BY <1>1, <1>6, <1>7, <2>2 DEF Init, LoopTypes
<1>9. Prompting
  BY <1>2 DEF Init, LoginInit, Prompting, Waits, KeyPlaces, Leaving
<1>10. Sockets
  BY <1>2 DEF Init, LoginInit, Sockets, KeyPlaces
<1>11. Reporting
  BY <1>2 DEF Init, LoginInit, Reporting, Leaving
<1>12. Showing
  BY <1>1 DEF Init, Showing
<1>13. Forwarding
  <2> SUFFICES ASSUME NEW i \in DOMAIN scope.forwards
               PROVE  Kept(i, NoStream)
    BY <1>7 DEF Forwarding
  <2>1. Carried(i, NoStream)
    BY <1>1 DEF Carried, StreamOK, NoStream
  <2> QED
    BY <2>1 DEF Kept, Ended, NoStream
<1>14. Connected /\ Polling
  <2>1. \A i \in Ids : streams[i].st = "none"
    BY <1>7 DEF NoStream
  <2> QED
    BY <1>2, <2>1 DEF Init, Connected, Polling
<1> QED
  BY <1>3, <1>4, <1>5, <1>8, <1>9, <1>10, <1>11, <1>12, <1>13, <1>14 DEF IInv, Types

LEMMA Steps ==
  ASSUME IInv, [Next]_vars
  PROVE  IInv'
<1>1. CASE Runs
  <2>1. CASE LoginRuns
    BY <2>1, LoginSteps
  <2>2. CASE LoopBegins \/ drainWakePipe \/ SwapPending \/ readAvailable \/ serviceStreams
    BY <2>2, Beginning, Draining, Swapping, ReadingAll, Servicing
  <2>3. CASE LoopForget \/ LoopDisconnect \/ Look \/ PollReturns
    BY <2>3, LoopForgetting, LoopDisconnecting, Looking, Returning
  <2>4. CASE ResumeMosh \/ Finish
    BY <2>4, Resuming, Finishing
  <2> QED
    BY <1>1, <2>1, <2>2, <2>3, <2>4 DEF Runs
<1>2. CASE \/ AddressConnects \/ CallFails \/ Connect \/ HostIsRefused \/ ReachHost
           \/ KeyIsBad \/ WrongPassphrase
           \/ Authenticated \/ NextMethod \/ OnlyInteractive \/ WrongPassword \/ Round
           \/ ProxyEnds \/ OthersOpen
           \/ ShowPrompt \/ AnswerPrompt \/ Stop \/ StopSignals \/ StopShuts
  BY <1>2, LoginSteps
<1>3. CASE StartShell \/ KeepAliveFails \/ MoshEnds \/ LookHears \/ PollTimesOut \/ PollFails
  BY <1>3, ShellStarting, KeepAliveFailing, MoshEnding, Hearing, TimingOut, PollFailing
<1>4. CASE Write \/ Wake \/ consumed \/ ServerShows \/ ShellEnds \/ Drop
  BY <1>4, Typing, Waking, Eating, ShellTalking, Dropping
<1>5. ASSUME NEW i \in Ids,
             \/ ClientConnects(i) \/ ClientSays(i) \/ ClientEnds(i) \/ ClientTakes(i)
             \/ ServerReplies(i) \/ ServerTakes(i) \/ ServerEnds(i)
      PROVE  IInv'
  BY <1>5, ClientConnecting, ClientSaying, ClientEnding, ClientTaking, ServerReplying, ServerTaking, ServerEnding
<1>6. CASE UNCHANGED vars
  <2>1. UNCHANGED <<loopVars, at, method, tries, passwords, stopping, wake, socketVars, reports, history>>
    BY <1>6 DEF vars, loginVars
  <2>2. UNCHANGED <<promptVars, history, scope>>
    BY <1>6 DEF vars, loginVars, loopVars
  <2>3. Prompting' /\ PromptTypes'
    BY <2>1, <2>2, PromptsStay
  <2> QED
    BY <2>1, <2>3, OnlyPrompts
<1> QED
  BY <1>1, <1>2, <1>3, <1>4, <1>5, <1>6 DEF Next

(***************************************************************************)
(* The inductive invariant: what is asked, watched, reported, shown,       *)
(* carried and polled for, wherever the worker and the other threads are.  *)
(***************************************************************************)
THEOREM Invariance == Spec => []IInv
<1>1. Init => IInv
  BY Starts
<1>2. IInv /\ [Next]_vars => IInv'
  BY Steps
<1> QED
  BY <1>1, <1>2, PTL DEF Spec

-----------------------------------------------------------------------------
(* What follows *)

(***************************************************************************)
(* What is held for the terminal and for a forwarded connection never      *)
(* passes the limits of the code by more than one read (readAvailable(),   *)
(* serviceStreams()).                                                      *)
(***************************************************************************)
THEOREM TypesHold == Spec => []TypeOK
<1>1. ASSUME IInv
      PROVE  TypeOK
  <2>1. /\ Types /\ Showing /\ MaxUnconsumed \in Nat /\ Ids = DOMAIN scope.forwards
    BY <1>1, WorkerAssumption DEF IInv, Types, LoopTypes, Ids
  <2>2. at \in DOMAIN Beyond \cup Leaving \cup
               {"resume", "loop", "drain", "swap", "serve", "streams", "look", "poll", "loopForget",
                "loopDisconnect", "finish"}
    BY <2>1 DEF Types, PlaceTypes, Places, LoginPlaces, LoopPlaces, KeyPlaces, Logins, Beyond
  <2>3. answer \in 0..asked /\ shown \in 0..asked /\ queue \in Seq(1..asked)
    <3>1. /\ asked \in Nat /\ answer \in Nat /\ shown \in Nat /\ queue \in Seq(Nat)
          /\ answer <= asked /\ shown <= asked /\ \A i \in 1..Len(queue) : queue[i] \in 1..asked
      BY <1>1 DEF IInv, Types, PromptTypes, Prompting
    <3>2. queue \in Seq(1..asked)
      BY <3>1
    <3> QED
      BY <3>1, <3>2
  <2>4. \A w \in {"jump", "own"} : sockets[w] # 0 => table[sockets[w]] = "worker"
    BY <1>1 DEF IInv, Sockets
  <2>5. LoginTypeOK
    BY <2>1, <2>2, <2>3, <2>4 DEF LoginTypeOK, Types, PlaceTypes, PromptTypes, SocketTypes, LoopTypes
  <2>6. shell.read - shell.eaten <= MaxUnconsumed + 1
    BY <2>1 DEF Types, LoopTypes, Showing, Shell
  <2>7. \A i \in Ids : StreamOK(streams[i])
    BY <1>1, <2>1 DEF IInv, Forwarding, Kept, Carried
  <2>8. link.carried <= link.typed
    BY <1>1 DEF IInv, Connected
  <2> QED
    BY <2>1, <2>5, <2>6, <2>7, <2>8 DEF TypeOK, Types, LoopTypes, Showing
<1> QED
  BY <1>1, Invariance, PTL

(***************************************************************************)
(* No answer is taken for another question than the one the user saw       *)
(* (ask() and answerPrompt()).                                             *)
(***************************************************************************)
THEOREM AnswersFit == Spec => []AnswersItsPrompt
<1>1. IInv => AnswersItsPrompt
  BY DEF IInv, Prompting, AnswersItsPrompt
<1> QED
  BY <1>1, Invariance, PTL

(***************************************************************************)
(* stop() shuts down no descriptor that is not the worker's any more       *)
(* (forgetSockets() before each close).                                    *)
(***************************************************************************)
THEOREM OthersAreSpared == Spec => []OnlyItsSockets
<1>1. IInv => OnlyItsSockets
  BY DEF IInv, Sockets, OnlyItsSockets
<1> QED
  BY <1>1, Invariance, PTL

(***************************************************************************)
(* One reason at the end of a connection that was not told to end, and     *)
(* never two (fail(), report()).                                           *)
(***************************************************************************)
THEOREM OneReason == Spec => []SaysWhyItEnds
<1>1. IInv => SaysWhyItEnds
  BY DEF IInv, Reporting, SaysWhyItEnds, Leaving
<1> QED
  BY <1>1, Invariance, PTL

(***************************************************************************)
(* The shell's output was shown, and a forwarded connection carried, whole *)
(* once it has ended as it should (readAvailable(), serviceStreams()).     *)
(***************************************************************************)
THEOREM CarriedWhole == Spec => []WholeWhenEnded
<1>1. ASSUME IInv
      PROVE  WholeWhenEnded
  <2>1. Ids = DOMAIN scope.forwards
    BY <1>1 DEF IInv, Types, LoopTypes, Ids
  <2> QED
    BY <1>1, <2>1 DEF IInv, Showing, Forwarding, Kept, Ended, WholeWhenEnded
<1> QED
  BY <1>1, Invariance, PTL

(***************************************************************************)
(* The loop sleeps in poll() only when nothing waits for it: each reason   *)
(* to go on is one that poll() was asked for or a byte in the wake pipe.   *)
(***************************************************************************)
THEOREM SleepsIdle == Spec => []NothingWaits
<1>1. ASSUME IInv, Asleep, ~link.missed
      PROVE  /\ link.carried = link.typed
             /\ Stopped => ~link.up
             /\ link.up /\ ~throttled /\ Reading =>
                   /\ ~AnyArrived /\ ~Dead
                   /\ link.shell => (shell.lib = shell.read /\ ~shell.end)
                   /\ \A i \in On : wantsChannelData(streams[i]) =>
                         (streams[i].lib = streams[i].read /\ streams[i].overLib = "no")
             /\ \A i \in Ids :
                   /\ streams[i].st # "fresh"
                   /\ streams[i].st = "asks" => scope.forwards[i] = "remote"
                   /\ streams[i].st = "on" => (streams[i].buf = 0 \/ RoomLeft(streams[i]) = 0)
                   /\ streams[i].st = "on" /\ CanRead(streams[i]) /\ ~streams[i].socketEof =>
                        (streams[i].chan /\ WindowLeft(streams[i]) = 0)
  <2>1. /\ at = "poll" /\ stopping \in {"no", "done"} /\ ui = "idle" /\ ~PollReady /\ ~wake
        /\ ~link.polls.buffered
    BY <1>1 DEF Asleep, UiIsFree, PollReady
  <2>2. /\ ~Missed(shell, streams)
        /\ link.polls.in = {i \in On : WatchesIn(streams[i])}
        /\ link.polls.out = {i \in On : streams[i].buf > 0}
        /\ link.up /\ ~throttled /\ Reading => link.polls.ssh
        /\ link.up /\ link.polls.ssh =>
             /\ link.shell => shell.lib = shell.read
             /\ \A i \in On : wantsChannelData(streams[i]) => streams[i].lib = streams[i].read
    BY <1>1, <2>1 DEF IInv, Polling
  <2>3. link.carried = link.typed
    BY <1>1, <2>1 DEF IInv, Connected
  <2>4. Stopped => ~link.up
    <3> SUFFICES ASSUME Stopped, link.up
                 PROVE  FALSE
      OBVIOUS
    <3>1. sockets.own \in watched /\ watched \subseteq shut
      BY <1>1, <2>1 DEF IInv, Sockets, Stopped
    <3> QED
      BY <2>1, <3>1 DEF PollReady
  <2>5. ASSUME link.up, ~throttled, Reading
        PROVE  /\ ~AnyArrived /\ ~Dead
               /\ link.shell => (shell.lib = shell.read /\ ~shell.end)
               /\ \A i \in On : wantsChannelData(streams[i]) =>
                     (streams[i].lib = streams[i].read /\ streams[i].overLib = "no")
    <3>1. ~AnyArrived /\ ~Dead
      BY <2>1, <2>2, <2>5 DEF PollReady
    <3>2. link.shell => (shell.lib = shell.read /\ ~shell.end)
      BY <2>2, <2>5, <3>1 DEF Missed, ShellHasEnded, AnyArrived, ShellArrived
    <3>3. ASSUME NEW i \in On, wantsChannelData(streams[i])
          PROVE  streams[i].lib = streams[i].read /\ streams[i].overLib = "no"
      BY <2>2, <2>5, <3>3 DEF Missed, On
    <3> QED
      BY <3>1, <3>2, <3>3
  <2>6. ASSUME NEW i \in Ids
        PROVE  /\ streams[i].st # "fresh"
               /\ streams[i].st = "asks" => scope.forwards[i] = "remote"
               /\ streams[i].st = "on" => (streams[i].buf = 0 \/ RoomLeft(streams[i]) = 0)
               /\ streams[i].st = "on" /\ CanRead(streams[i]) /\ ~streams[i].socketEof =>
                    (streams[i].chan /\ WindowLeft(streams[i]) = 0)
    <3>1. streams[i].st # "fresh"
      BY <2>2 DEF Missed
    <3>2. streams[i].st = "asks" => scope.forwards[i] = "remote"
      BY <2>1 DEF PollReady
    <3>3. ASSUME streams[i].st = "on", streams[i].buf # 0
          PROVE  RoomLeft(streams[i]) = 0
      <4> DEFINE s == streams[i]
      <4>1. /\ s \in Stream /\ Carried(i, s) /\ Room \in Nat
        BY <1>1, WorkerAssumption DEF IInv, Types, LoopTypes, Ids, Forwarding, Kept
      <4>2. s.buf \in Nat /\ s.read \in Nat /\ s.got \in Nat /\ s.buf > 0 /\ s.read <= s.buf + s.got + Room
        BY <3>3, <4>1 DEF Stream, Carried
      <4>3. RoomLeft(s) \in Nat
        BY <4>1, <4>2 DEF RoomLeft
      <4>4. i \in link.polls.out
        BY <2>2, <3>3, <4>2 DEF On
      <4>5. ~(RoomLeft(s) > 0)
        BY <2>1, <4>4 DEF PollReady
      <4> QED
        BY <4>3, <4>5
    <3>4. ASSUME streams[i].st = "on", CanRead(streams[i]), ~streams[i].socketEof
          PROVE  streams[i].chan /\ WindowLeft(streams[i]) = 0
      <4>1. i \notin link.polls.in
        BY <2>1, <3>4 DEF PollReady
      <4> QED
        BY <2>2, <3>4, <4>1 DEF On, WatchesIn
    <3> QED
      BY <3>1, <3>2, <3>3, <3>4
  <2> QED
    BY <2>3, <2>4, <2>5, <2>6
<1>2. IInv => NothingWaits
  BY <1>1 DEF NothingWaits
<1> QED
  BY <1>2, Invariance, PTL

=============================================================================
