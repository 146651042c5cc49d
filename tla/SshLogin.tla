------------------------------- MODULE SshLogin -------------------------------
(***************************************************************************)
(* The thread of a connection, SshWorker of sshsession.cpp, up to its      *)
(* shell and from its end on: keys loaded, the jump host and the host      *)
(* connected and logged in to, questions put to the user, and everything   *)
(* closed again.  Meanwhile the thread of the user interface shows the     *)
(* questions, answers them, and may tell the worker to stop, whatever the  *)
(* worker is waiting for: an answer, the network, or a thread of its own   *)
(* that carries the connection through the jump host.                      *)
(* SshWorker has what is between: the loop of a connection that is up.     *)
(***************************************************************************)
EXTENDS Naturals, Sequences, FiniteSets, FiniteSetsExt

CONSTANTS
    PasswordAttempts, MaxInteractiveRounds,
    Fds,                \* bound: the descriptors there are
    Scopes              \* the configurations and bounds to check, see scope

Logins == {"jumpLogin", "login"}

(* What a connection is like: whether it goes through a jump host, who has *)
(* a key and whose is encrypted, whose password is known, whether it may   *)
(* ask, and as bounds how many addresses a host has, how many descriptors  *)
(* the rest of the app opens meanwhile, and whether it is told to stop.    *)
LoginScope(s) ==
    /\ s.jump \in BOOLEAN /\ s.noPrompts \in BOOLEAN /\ s.stops \in BOOLEAN
    /\ s.keys \subseteq Logins /\ s.encrypted \subseteq s.keys /\ s.passwords \subseteq Logins
    /\ s.addresses \in Nat \ {0} /\ s.others \in Nat

ASSUME LoginAssumption ==
    /\ PasswordAttempts \in Nat \ {0} /\ MaxInteractiveRounds \in Nat
    /\ Fds \subseteq Nat \ {0} /\ IsFiniteSet(Fds)
    /\ \A s \in Scopes : LoginScope(s)

VARIABLES
    scope,
    at,         \* where run() is
    method,     \* how authenticate() is trying to log in
    tries,      \* the attempt, round or address it is at
    passwords,  \* whose password is still known
    asking,     \* where ask() is, which holds m_promptMutex when "locked" or "decided"
    asked,      \* the questions asked, numbered
    answered,   \* m_promptAnswered
    answer,     \* m_promptAnswer, as the question the user saw when giving it
    queue,      \* promptRequested signals on their way
    shown,      \* the question the session shows, 0 without m_prompting
    stopping,   \* how far stop() is; m_stop is set once it has begun
    wake,       \* whether a byte is in m_wakePipe
    table,      \* whose descriptor each is
    watched,    \* m_sockets
    shut,       \* the sockets shut down
    sockets,    \* the connections to the jump host and to the host, 0 for none
    proxy,      \* m_jumpProxy's thread
    reports,    \* how often the end of the connection was reported
    history,    \* what the properties ask about earlier states
    ui,         \* whether the other thread still owes a byte to m_wakePipe
    link, shell, streams    \* the loop of a connection that is up, see SshWorker

loopVars == <<scope, ui, link, shell, streams>>
promptVars == <<asking, asked, answered, answer, queue, shown>>
socketVars == <<table, watched, shut, sockets, proxy>>
loginVars == <<at, method, tries, passwords, promptVars, stopping, wake, socketVars, reports, history>>

Stopped == stopping # "no"

-----------------------------------------------------------------------------
(* Where the worker goes from each place, and where once that has failed.  *)

Beyond ==
    [jumpKey |-> "key", jumpSocket |-> "jumpWatch", jumpWatch |-> "jumpConnect",
     jumpConnect |-> "jumpVerify", jumpVerify |-> "jumpLogin", jumpLogin |-> "pair",
     pair |-> "pairWatch", pairWatch |-> "connect",
     key |-> IF scope.jump THEN "jumpSocket" ELSE "socket", socket |-> "watch",
     watch |-> "connect", connect |-> "verify", verify |-> "login", login |-> "shell",
     shell |-> "loop"]

Leaving == {"jumpForget", "jumpFree", "forget", "disconnect", "join", "done"}

WithJump == {"jumpConnect", "jumpVerify", "jumpLogin", "pair"}

CleanUp == IF at \in WithJump THEN "jumpForget" ELSE "forget"

Whose == IF at \in WithJump \cup {"jumpSocket", "jumpWatch"} THEN "jump" ELSE "own"

(* A stopped worker has nothing to report. *)
Report == reports' = IF Stopped THEN reports ELSE reports + 1

Fail == at' = CleanUp /\ Report

Leave == at' = CleanUp /\ UNCHANGED reports

Proceed == at' = Beyond[at] /\ tries' = 0 /\ UNCHANGED reports

-----------------------------------------------------------------------------
(* Questions.  The worker holds the mutex from the question on, and gives  *)
(* it up only as it begins to wait.                                        *)

(* Bug: a login nobody may be asked about ends without a word. *)
EndsSilently == Leave

Unanswerable == Fail

Ask ==
    IF scope.noPrompts
    THEN Unanswerable /\ UNCHANGED promptVars
    ELSE /\ asking' = "locked" /\ asked' = asked + 1
         /\ answered' = FALSE
         /\ queue' = Append(queue, asked + 1)
         /\ UNCHANGED <<answer, shown, at, reports>>

PromptMutexIsFree == asking \notin {"locked", "decided"}

AskTakes ==
    /\ asking = "locked" /\ answered
    /\ asking' = "answered" /\ answer' = 0
    /\ history' = [history EXCEPT !.mixed = @ \/ answer # asked]
    /\ UNCHANGED <<loopVars, at, method, tries, passwords, asked, answered, queue, shown, stopping,
                   wake, socketVars, reports>>

AskGivesUp ==
    /\ asking = "locked" /\ ~answered /\ Stopped
    /\ asking' = "no" /\ Leave
    /\ UNCHANGED <<loopVars, method, tries, passwords, asked, answered, answer, queue, shown,
                   stopping, wake, socketVars, history>>

(* m_stop was not set when it looked: it is about to wait. *)
AskDecides ==
    /\ asking = "locked" /\ ~answered /\ ~Stopped
    /\ asking' = "decided"
    /\ UNCHANGED <<loopVars, at, method, tries, passwords, asked, answered, answer, queue, shown,
                   stopping, wake, socketVars, reports, history>>

AskWaits ==
    /\ asking = "decided" /\ asking' = "waiting"
    /\ UNCHANGED <<loopVars, at, method, tries, passwords, asked, answered, answer, queue, shown,
                   stopping, wake, socketVars, reports, history>>

AskWakes ==
    /\ asking = "woken" /\ asking' = "locked"
    /\ UNCHANGED <<loopVars, at, method, tries, passwords, asked, answered, answer, queue, shown,
                   stopping, wake, socketVars, reports, history>>

(* m_promptCondition.wakeAll(), which wakes only who waits already. *)
WakeAll == asking' = IF asking = "waiting" THEN "woken" ELSE asking

UiIsFree == stopping \in {"no", "done"} /\ ui = "idle"

ShowPrompt ==
    /\ UiIsFree /\ queue # <<>>
    /\ shown' = Head(queue) /\ queue' = Tail(queue)
    /\ UNCHANGED <<loopVars, at, method, tries, passwords, asking, asked, answered, answer,
                   stopping, wake, socketVars, reports, history>>

(* Bug: the session goes on prompting, and a second tap answers again. *)
StillShown == shown

Dismissed == 0

AnswerPrompt ==
    /\ UiIsFree /\ shown # 0 /\ PromptMutexIsFree
    /\ answered' = TRUE /\ answer' = shown
    /\ shown' = Dismissed
    /\ WakeAll
    /\ UNCHANGED <<loopVars, at, method, tries, passwords, asked, queue, stopping, wake, socketVars,
                   reports, history>>

-----------------------------------------------------------------------------
(* stop(): the flag and a byte in the pipe, then the condition, then the   *)
(* sockets, each under its mutex.                                          *)

Stop ==
    /\ scope.stops /\ stopping = "no" /\ ui = "idle" /\ at \notin {"join", "done"}
    /\ stopping' = "begun" /\ wake' = TRUE
    /\ UNCHANGED <<loopVars, at, method, tries, passwords, promptVars, socketVars, reports, history>>

(* Bug: the condition is signalled without the mutex, before the wait. *)
SignalsAnytime == TRUE

MaySignal == PromptMutexIsFree

StopSignals ==
    /\ stopping = "begun" /\ MaySignal
    /\ stopping' = "signalled" /\ WakeAll
    /\ UNCHANGED <<loopVars, at, method, tries, passwords, asked, answered, answer, queue, shown,
                   wake, socketVars, reports, history>>

StopShuts ==
    /\ stopping = "signalled" /\ stopping' = "done"
    /\ shut' = shut \cup {fd \in watched : table[fd] # "free"}
    /\ history' = [history EXCEPT !.hurt = @ \/ \E fd \in watched : table[fd] = "others"]
    /\ UNCHANGED <<loopVars, at, method, tries, passwords, promptVars, wake, table, watched, sockets,
                   proxy, reports>>

-----------------------------------------------------------------------------
(* Descriptors: a new one is the lowest that is free.                      *)

Unused == {fd \in Fds : table[fd] = "free"}

Open(whose) == Unused # {} /\ table' = [table EXCEPT ![Min(Unused)] = whose]

Close(fds) ==
    /\ table' = [fd \in Fds |-> IF fd \in fds THEN "free" ELSE table[fd]]
    /\ shut' = shut \ fds

OthersOpen ==
    /\ Cardinality({fd \in Fds : table[fd] = "others"}) < scope.others
    /\ Open("others")
    /\ UNCHANGED <<loopVars, at, method, tries, passwords, promptVars, stopping, wake, watched, shut,
                   sockets, proxy, reports, history>>

(* connectSocket() tries one address after the other, if there are any. *)
TryAddress ==
    /\ at \in {"jumpSocket", "socket"} /\ sockets[Whose] = 0
    /\ \/ /\ tries < scope.addresses /\ ~Stopped
          /\ Open("worker") /\ sockets' = [sockets EXCEPT ![Whose] = Min(Unused)]
          /\ UNCHANGED <<at, reports>>
       \/ /\ tries \in {0, scope.addresses} \/ Stopped
          /\ Fail
          /\ UNCHANGED <<table, sockets>>
    /\ UNCHANGED <<loopVars, method, tries, passwords, promptVars, stopping, wake, watched, shut, proxy,
                   history>>

AddressFails ==
    /\ at \in {"jumpSocket", "socket"} /\ sockets[Whose] # 0
    /\ Close({sockets[Whose]}) /\ sockets' = [sockets EXCEPT ![Whose] = 0]
    /\ tries' = tries + 1
    /\ UNCHANGED <<loopVars, at, method, passwords, promptVars, stopping, wake, watched, proxy,
                   reports, history>>

(* A byte in the pipe ends the wait for an address only when it is to stop. *)
AddressWakes ==
    /\ at \in {"jumpSocket", "socket"} /\ sockets[Whose] # 0 /\ wake
    /\ wake' = FALSE
    /\ IF Stopped
       THEN Close({sockets[Whose]}) /\ sockets' = [sockets EXCEPT ![Whose] = 0]
       ELSE UNCHANGED <<table, shut, sockets>>
    /\ UNCHANGED <<loopVars, at, method, tries, passwords, promptVars, stopping, watched, proxy,
                   reports, history>>

AddressConnects ==
    /\ at \in {"jumpSocket", "socket"} /\ sockets[Whose] # 0
    /\ Proceed
    /\ UNCHANGED <<loopVars, method, passwords, promptVars, stopping, wake, socketVars, history>>

(* A stop that found nothing to shut down has come and gone. *)
WatchSocket ==
    /\ at \in {"jumpWatch", "pairWatch", "watch"}
    /\ watched' = watched \cup {sockets[Whose]}
    /\ shut' = IF Stopped THEN shut \cup {sockets[Whose]} ELSE shut
    /\ Proceed
    /\ UNCHANGED <<loopVars, method, passwords, promptVars, stopping, wake, table, sockets, proxy,
                   history>>

-----------------------------------------------------------------------------
(* Calls into libssh that wait for the network.  They fail when a socket   *)
(* they need is shut down or its other end is gone, and may any time.      *)

Broken ==
    \/ sockets[Whose] \in shut
    \/ scope.jump /\ Whose = "own" /\ proxy = "ended"

InCall ==
    \/ at \in {"jumpConnect", "connect", "pair", "shell"}
    \/ at \in Logins /\ asking = IF method = "password" THEN "answered" ELSE "no"

CallFails ==
    /\ InCall
    /\ Fail /\ asking' = "no"
    /\ UNCHANGED <<loopVars, method, tries, passwords, asked, answered, answer, queue, shown,
                   stopping, wake, socketVars, history>>

(* Connected: a stop is noticed here. *)
Connect ==
    /\ at \in {"jumpConnect", "connect"}
    /\ IF Stopped THEN Leave /\ UNCHANGED tries ELSE Proceed
    /\ UNCHANGED <<loopVars, method, passwords, promptVars, stopping, wake, socketVars, history>>

(* The host's key is known, or is trusted and saved. *)
VerifyHost ==
    /\ at \in {"jumpVerify", "verify"}
    /\ method' = "none"
    /\ Proceed
    /\ UNCHANGED <<loopVars, passwords, promptVars, stopping, wake, socketVars, history>>

(* The key has changed, or could not be saved. *)
HostIsRefused ==
    /\ at \in {"jumpVerify", "verify"}
    /\ Fail
    /\ UNCHANGED <<loopVars, method, tries, passwords, promptVars, stopping, wake, socketVars, history>>

(* The jump host reaches the host: a thread carries the bytes from here. *)
ReachHost ==
    /\ at = "pair"
    /\ Open("worker") /\ sockets' = [sockets EXCEPT !.own = Min(Unused)]
    /\ proxy' = "running"
    /\ Proceed
    /\ UNCHANGED <<loopVars, method, passwords, promptVars, stopping, wake, watched, shut, history>>

(* The proxy's connection ends, or it was told to. *)
ProxyEnds ==
    /\ proxy = "running" /\ proxy' = "ended"
    /\ UNCHANGED <<loopVars, at, method, tries, passwords, promptVars, stopping, wake, table, watched,
                   shut, sockets, reports, history>>

ProxyMustEnd == proxy = "running" /\ (at = "join" \/ {sockets.jump, sockets.own} \cap shut # {})
-----------------------------------------------------------------------------
(* loadKey() decrypts a key before anything connects, asking for its       *)
(* passphrase as often as a password is asked for.                         *)

KeyOf == IF at = "jumpKey" THEN "jumpLogin" ELSE "login"

LoadKey ==
    /\ at \in {"jumpKey", "key"} /\ asking = "no"
    /\ IF KeyOf \in scope.encrypted
       THEN Ask /\ UNCHANGED tries
       ELSE Proceed /\ UNCHANGED promptVars
    /\ UNCHANGED <<loopVars, method, passwords, stopping, wake, socketVars, history>>

(* A key that cannot be loaded, or has a problem no passphrase solves. *)
KeyIsBad ==
    /\ at \in {"jumpKey", "key"} /\ asking = "no" /\ KeyOf \in scope.keys
    /\ Fail
    /\ UNCHANGED <<loopVars, method, tries, passwords, promptVars, stopping, wake, socketVars, history>>

Decrypt ==
    /\ at \in {"jumpKey", "key"} /\ asking = "answered"
    /\ asking' = "no" /\ Proceed
    /\ UNCHANGED <<loopVars, method, passwords, asked, answered, answer, queue, shown, stopping, wake,
                   socketVars, history>>

WrongPassphrase ==
    /\ at \in {"jumpKey", "key"} /\ asking = "answered"
    /\ tries' = tries + 1
    /\ IF tries' = PasswordAttempts
       THEN Fail /\ asking' = "no" /\ UNCHANGED <<asked, answered, answer, queue, shown>>
       ELSE Ask
    /\ UNCHANGED <<loopVars, method, passwords, stopping, wake, socketVars, history>>

-----------------------------------------------------------------------------
(* authenticate() and keyboardInteractive().                               *)

Authenticated ==
    /\ at \in Logins /\ InCall
    /\ asking' = "no" /\ Proceed
    /\ UNCHANGED <<loopVars, method, passwords, asked, answered, answer, queue, shown, stopping, wake,
                   socketVars, history>>

(* What the server wants after "none" was refused, or wants as well. *)
NextMethod ==
    /\ at \in Logins /\ InCall
    /\ method' = CASE method = "none" /\ at \in scope.keys -> "key"
                   [] method = "none" /\ at \notin scope.keys -> "password"
                   [] OTHER -> "interactive"
    /\ method # "interactive"
    /\ tries' = 0 /\ asking' = "no"
    /\ UNCHANGED <<loopVars, at, passwords, asked, answered, answer, queue, shown, stopping, wake,
                   socketVars, reports, history>>

OnlyInteractive ==
    /\ at \in Logins /\ InCall /\ method = "none" /\ at \notin scope.keys
    /\ method' = "interactive"
    /\ UNCHANGED <<loopVars, at, tries, passwords, promptVars, stopping, wake, socketVars, reports,
                   history>>

(* The password that is known answers once, whatever becomes of it. *)
Know ==
    /\ asking' = "answered" /\ passwords' = passwords \ {at}
    /\ UNCHANGED <<at, asked, answered, answer, queue, shown, reports>>

GetPassword ==
    /\ at \in Logins /\ method = "password" /\ asking = "no"
    /\ IF at \in passwords THEN Know ELSE Ask /\ UNCHANGED passwords
    /\ UNCHANGED <<loopVars, method, tries, stopping, wake, socketVars, history>>

WrongPassword ==
    /\ at \in Logins /\ method = "password" /\ asking = "answered"
    /\ tries' = tries + 1 /\ asking' = "no"
    /\ IF tries' = PasswordAttempts THEN Fail ELSE UNCHANGED <<at, reports>>
    /\ UNCHANGED <<loopVars, method, passwords, asked, answered, answer, queue, shown, stopping, wake,
                   socketVars, history>>

(* The server has a question, or a round without one. *)
Round ==
    /\ at \in Logins /\ method = "interactive" /\ asking = "no"
    /\ IF Stopped
       THEN Leave /\ UNCHANGED <<promptVars, passwords>>
       ELSE IF tries = MaxInteractiveRounds
       THEN Fail /\ UNCHANGED <<promptVars, passwords>>
       ELSE \/ at \in passwords /\ Know
            \/ Ask /\ UNCHANGED passwords
    /\ UNCHANGED <<loopVars, method, tries, stopping, wake, socketVars, history>>

AnswerRound ==
    /\ at \in Logins /\ method = "interactive" /\ asking = "answered"
    /\ tries' = tries + 1 /\ asking' = "no"
    /\ UNCHANGED <<loopVars, at, method, passwords, asked, answered, answer, queue, shown, stopping,
                   wake, socketVars, reports, history>>

-----------------------------------------------------------------------------
(* The way out.  The sockets are forgotten before they are closed.         *)

(* Bug: forgotten only once libssh has closed them. *)
ForgetLater == watched

Forgotten == {}

JumpForget ==
    /\ at = "jumpForget"
    /\ watched' = Forgotten /\ at' = "jumpFree"
    /\ UNCHANGED <<loopVars, method, tries, passwords, promptVars, stopping, wake, table, shut, sockets,
                   proxy, reports, history>>

JumpFree ==
    /\ at = "jumpFree"
    /\ Close({sockets.jump}) /\ sockets' = [sockets EXCEPT !.jump = 0]
    /\ at' = "forget"
    /\ UNCHANGED <<loopVars, method, tries, passwords, promptVars, stopping, wake, watched, proxy,
                   reports, history>>

Forget ==
    /\ at = "forget"
    /\ watched' = Forgotten /\ at' = "disconnect"
    /\ UNCHANGED <<loopVars, method, tries, passwords, promptVars, stopping, wake, table, shut, sockets,
                   proxy, reports, history>>

Disconnect ==
    /\ at = "disconnect"
    /\ Close({sockets.own}) /\ sockets' = [sockets EXCEPT !.own = 0]
    /\ at' = "join"
    /\ UNCHANGED <<loopVars, method, tries, passwords, promptVars, stopping, wake, watched, proxy,
                   reports, history>>

(* The proxy's thread is waited for, and its connection closed with it. *)
JoinProxy ==
    /\ at = "join" /\ proxy # "running"
    /\ Close({sockets.jump}) /\ sockets' = [sockets EXCEPT !.jump = 0]
    /\ proxy' = "none" /\ at' = "done"
    /\ UNCHANGED <<loopVars, method, tries, passwords, promptVars, stopping, wake, watched, reports,
                   history>>

-----------------------------------------------------------------------------
LoginInit ==
    /\ scope \in Scopes
    /\ method = "none" /\ tries = 0 /\ passwords = scope.passwords
    /\ asking = "no" /\ asked = 0 /\ answered = FALSE /\ answer = 0 /\ queue = <<>> /\ shown = 0
    /\ stopping = "no" /\ wake = FALSE
    /\ table = [fd \in Fds |-> "free"] /\ watched = {} /\ shut = {}
    /\ sockets = [jump |-> 0, own |-> 0] /\ proxy = "none"
    /\ reports = 0
    /\ history = [mixed |-> FALSE, hurt |-> FALSE]

(* What the worker does by itself, without an answer from anywhere. *)
LoginRuns ==
    \/ AskTakes \/ AskGivesUp \/ AskDecides \/ AskWaits \/ AskWakes
    \/ TryAddress \/ AddressFails \/ AddressWakes \/ WatchSocket
    \/ VerifyHost \/ LoadKey \/ Decrypt \/ GetPassword \/ AnswerRound
    \/ JumpForget \/ JumpFree \/ Forget \/ Disconnect \/ JoinProxy

LoginNext ==
    \/ LoginRuns \/ AddressConnects \/ CallFails \/ Connect \/ HostIsRefused \/ ReachHost
    \/ KeyIsBad \/ WrongPassphrase
    \/ Authenticated \/ NextMethod \/ OnlyInteractive \/ WrongPassword \/ Round
    \/ ProxyEnds \/ OthersOpen
    \/ ShowPrompt \/ AnswerPrompt \/ Stop \/ StopSignals \/ StopShuts

-----------------------------------------------------------------------------
LoginTypeOK ==
    /\ scope \in Scopes
    /\ at \in DOMAIN Beyond \cup Leaving \cup
              {"resume", "loop", "drain", "swap", "serve", "streams", "look", "poll", "loopForget",
               "loopDisconnect", "finish"}
    /\ method \in {"none", "key", "password", "interactive"}
    /\ tries \in Nat /\ passwords \subseteq Logins
    /\ asking \in {"no", "locked", "decided", "waiting", "woken", "answered"}
    /\ asked \in Nat /\ answered \in BOOLEAN /\ answer \in 0..asked /\ shown \in 0..asked
    /\ queue \in Seq(1..asked)
    /\ stopping \in {"no", "begun", "signalled", "done"} /\ wake \in BOOLEAN
    /\ table \in [Fds -> {"free", "worker", "others"}]
    /\ watched \subseteq Fds /\ shut \subseteq Fds
    /\ sockets \in [jump : Fds \cup {0}, own : Fds \cup {0}]
    /\ \A w \in {"jump", "own"} : sockets[w] # 0 => table[sockets[w]] = "worker"
    /\ proxy \in {"none", "running", "ended"}
    /\ reports \in Nat
    /\ history \in [mixed : BOOLEAN, hurt : BOOLEAN]

(***************************************************************************)
(* An answer is taken only for the question the user saw when giving it,   *)
(* though questions follow each other while answers are on their way       *)
(* (ask() in the worker, answerPrompt() in the session and the worker).    *)
(***************************************************************************)
AnswersItsPrompt == ~history.mixed

(***************************************************************************)
(* stop() never shuts down a descriptor that the worker had closed and the *)
(* system given to another part of the app (forgetSockets()).              *)
(***************************************************************************)
OnlyItsSockets == ~history.hurt

(***************************************************************************)
(* Once stop() has been called the worker ends, whatever it was waiting    *)
(* for: the session waits for it.                                          *)
(***************************************************************************)
StopEnds == Stopped ~> at = "done"
=============================================================================
