------------------------------ MODULE SshWorker ------------------------------
(***************************************************************************)
(* The thread of a connection, SshWorker of sshsession.cpp: logging in     *)
(* (SshLogin), and then readLoop(), which sleeps in poll() until there is  *)
(* something to do: output of the shell, which it passes to the terminal   *)
(* and stops reading when the terminal falls behind; input from the other  *)
(* thread; mosh; and forwarded connections, accepted here, with SOCKS or   *)
(* without, or opened by the server, whose bytes it carries both ways.     *)
(*                                                                         *)
(* Output and forwarded bytes are counted in pieces.  What the server sent *)
(* has arrived at the socket until a call into libssh, for any channel,    *)
(* takes all of it in; only then does it belong to its channel.            *)
(***************************************************************************)
EXTENDS SshLogin

CONSTANTS
    MaxUnconsumed, MaxForwardBuffer,    \* in pieces
    Window, Room                        \* bound: of a channel and of a local socket

(* What the connection carries: a shell, mosh, only forwards, or a mosh    *)
(* session resumed with no connection; whether the status file is read,    *)
(* and, as a bound, whether the connection may be lost and poll() fail;    *)
(* as bounds, the pieces typed, shown, and sent each way by a forwarded    *)
(* connection, and the forwarded connections there will be.                *)
WorkerScope(s) ==
    /\ s.kind \in {"shell", "mosh", "side", "resume"}
    /\ s.status \in BOOLEAN /\ s.drops \in BOOLEAN
    /\ s.typed \in Nat /\ s.output \in Nat /\ s.said \in Nat /\ s.replied \in Nat
    /\ s.forwards \in Seq({"local", "socks4", "socks5", "remote"})

ASSUME WorkerAssumption ==
    /\ MaxUnconsumed \in Nat /\ MaxForwardBuffer \in Nat \ {0}
    /\ Window \in Nat \ {0} /\ Room \in Nat \ {0}
    /\ \A s \in Scopes : WorkerScope(s)

kept == <<method, tries, passwords, promptVars, stopping, socketVars, history>>
vars == <<loopVars, loginVars>>

Ids == DOMAIN streams

(* A SOCKS client's greeting, and all it says before the data behind. *)
Greeting(i) == IF scope.forwards[i] = "socks5" THEN 2 ELSE 0
Request(i) == CASE scope.forwards[i] = "socks5" -> 4
                [] scope.forwards[i] = "socks4" -> 2
                [] OTHER -> 0

-----------------------------------------------------------------------------
(* The terminal and the session's thread. *)

throttled == shell.read - shell.eaten > MaxUnconsumed

Write ==
    /\ at \notin {"join", "done"} /\ UiIsFree /\ link.typed < scope.typed
    /\ link' = [link EXCEPT !.typed = @ + 1] /\ ui' = "wake"
    /\ UNCHANGED <<scope, shell, streams, loginVars>>

Wake ==
    /\ ui = "wake" /\ ui' = "idle" /\ wake' = TRUE
    /\ UNCHANGED <<scope, link, shell, streams, at, reports, kept>>

(* Bug: no wake-up as the terminal catches up. *)
NeverCrosses(before) == FALSE

Crosses(before) == before > MaxUnconsumed /\ before - 1 <= MaxUnconsumed

(* The terminal has taken a piece of what it was sent. *)
consumed ==
    /\ UiIsFree /\ shell.eaten < shell.read
    /\ shell' = [shell EXCEPT !.eaten = @ + 1]
    /\ ui' = IF Crosses(shell.read - shell.eaten) THEN "wake" ELSE ui
    /\ UNCHANGED <<scope, link, streams, loginVars>>

-----------------------------------------------------------------------------
(* The server, and the local ends of forwarded connections. *)

Dead == link.lost \/ Broken

Looping == at \in {"loop", "drain", "swap", "serve", "streams", "look", "poll"}

ServerWorks == Looping /\ link.up /\ ~Dead

ServerShows ==
    /\ ServerWorks /\ link.shell /\ ~shell.end /\ shell.sent < scope.output
    /\ shell' = [shell EXCEPT !.sent = @ + 1]
    /\ UNCHANGED <<scope, ui, link, streams, loginVars>>

ShellEnds ==
    /\ ServerWorks /\ link.shell /\ ~shell.end
    /\ shell' = [shell EXCEPT !.end = TRUE]
    /\ UNCHANGED <<scope, ui, link, streams, loginVars>>

Drop ==
    /\ scope.drops /\ ServerWorks
    /\ link' = [link EXCEPT !.lost = TRUE]
    /\ UNCHANGED <<scope, ui, shell, streams, loginVars>>

Step(i, s) == streams' = [streams EXCEPT ![i] = s] /\ UNCHANGED <<scope, ui, link, shell, loginVars>>

(* A client connects to a port listened on here, or on the server. *)
ClientConnects(i) ==
    /\ ServerWorks /\ streams[i].st = "none"
    /\ Step(i, [streams[i] EXCEPT !.st = "asks"])

ClientSays(i) ==
    LET s == streams[i] IN
    /\ s.st \in {"fresh", "on"} /\ s.ends = "no" /\ s.said < Request(i) + scope.said
    /\ Step(i, [s EXCEPT !.said = @ + 1])

ClientEnds(i) ==
    LET s == streams[i] IN
    /\ s.st \in {"fresh", "on"} /\ s.ends = "no"
    /\ \/ Step(i, [s EXCEPT !.ends = "eof"])
       \/ Step(i, [s EXCEPT !.ends = "reset"])

ClientTakes(i) ==
    LET s == streams[i] IN
    /\ s.st = "on" /\ s.got < s.read - s.buf
    /\ Step(i, [s EXCEPT !.got = @ + 1])

ServerReplies(i) ==
    LET s == streams[i] IN
    /\ ServerWorks /\ s.st \in {"fresh", "on"} /\ s.chan /\ s.over = "no" /\ s.replied < scope.replied
    /\ Step(i, [s EXCEPT !.replied = @ + 1])

ServerTakes(i) ==
    LET s == streams[i] IN
    /\ ServerWorks /\ s.taken < s.sent
    /\ Step(i, [s EXCEPT !.taken = @ + 1])

(* The server ends its side, or closes the channel. *)
ServerEnds(i) ==
    LET s == streams[i] IN
    /\ ServerWorks /\ s.st \in {"fresh", "on"} /\ s.chan
    /\ \/ s.over = "no" /\ Step(i, [s EXCEPT !.over = "eof"])
       \/ s.over # "closed" /\ Step(i, [s EXCEPT !.over = "closed"])

-----------------------------------------------------------------------------
(* What libssh has taken in. *)

ShellArrived == shell.lib < shell.sent \/ shell.endLib # shell.end

Arrived(i) ==
    LET s == streams[i] IN
    \/ s.lib < s.replied \/ s.overLib # s.over \/ s.seen < s.taken
    \/ s.st = "asks" /\ scope.forwards[i] = "remote"

AnyArrived == ShellArrived \/ \E i \in Ids : Arrived(i)

ShellIn == [shell EXCEPT !.lib = shell.sent, !.endLib = shell.end]

(* onForwardedChannelRequest() runs inside of it: refused when nothing is  *)
(* listening here.                                                         *)
StreamsIn(refused) ==
    [i \in Ids |->
        LET s == [streams[i] EXCEPT !.lib = @ + (streams[i].replied - @),
                                    !.overLib = streams[i].over, !.seen = streams[i].taken]
        IN IF s.st = "asks" /\ scope.forwards[i] = "remote"
           THEN [s EXCEPT !.st = IF i \in refused THEN "gone" ELSE "fresh",
                          !.chan = i \notin refused, !.cut = i \in refused]
           ELSE s]

wantsChannelData(s) == s.chan /\ ~s.channelEof /\ s.buf < MaxForwardBuffer

WindowLeft(s) == IF s.sent - s.seen < Window THEN Window - (s.sent - s.seen) ELSE 0

RoomLeft(s) == Room - (s.read - s.buf - s.got)

(* poll() reports it whether asked to or not. *)
HangUp(s) == s.ends = "reset" \/ (s.ends = "eof" /\ s.writeShutdown)

Least(a, b) == IF a < b THEN a ELSE b

flushToSocket(s) ==
    IF s.buf = 0 THEN s
    ELSE IF s.ends = "reset" THEN [s EXCEPT !.closed = TRUE, !.cut = TRUE]
    ELSE [s EXCEPT !.buf = @ - Least(@, RoomLeft(s))]

-----------------------------------------------------------------------------
(* The passes of the loop. *)

LoopBegins ==
    /\ at = "loop" /\ at' = IF Stopped THEN "finish" ELSE "drain"
    /\ UNCHANGED <<loopVars, wake, reports, kept>>

drainWakePipe ==
    /\ at = "drain" /\ at' = "swap" /\ wake' = FALSE
    /\ link' = [link EXCEPT !.missed = FALSE]
    /\ UNCHANGED <<scope, ui, shell, streams, reports, kept>>

(* Input goes to mosh or the shell; a write to a dead connection fails. *)
SwapPending ==
    /\ at = "swap"
    /\ link' = [link EXCEPT !.carried = link.typed]
    /\ \/ at' = "serve" /\ UNCHANGED reports
       \/ /\ link.carried < link.typed /\ link.shell /\ Dead
          /\ at' = "finish" /\ Report
    /\ UNCHANGED <<scope, ui, shell, streams, wake, kept>>

(* The connection is over, but for mosh only files and forwards are. *)
LoseSsh(next) ==
    IF link.mosh
    THEN /\ at' = "loopForget" /\ link' = [link EXCEPT !.after = next]
         /\ UNCHANGED reports
    ELSE at' = "finish" /\ Report /\ UNCHANGED link

(* libssh calls a channel ended, or closed, only once it has been read. *)
ShellHasEnded(s) == s.endLib /\ s.read = s.lib

(* Bug: the throttle is looked at once, not before each read. *)
ReadsAll == shell.sent

ReadUpTo == shell.eaten + MaxUnconsumed + 1

readAvailable ==
    /\ at = "serve"
    /\ IF ~(link.up /\ link.shell) \/ (throttled /\ ~ShellHasEnded(shell))
       THEN at' = "streams" /\ UNCHANGED <<link, shell, streams, reports>>
       ELSE LET s == IF throttled THEN shell
                     ELSE [ShellIn EXCEPT
                             !.read = Least(shell.sent, ReadUpTo)]
            IN /\ shell' = s
               /\ IF throttled THEN UNCHANGED streams
                  ELSE \E refused \in SUBSET Ids : streams' = StreamsIn(refused)
               /\ IF ShellHasEnded(s)
                  THEN /\ at' = "finish" /\ Report
                       /\ link' = [link EXCEPT !.exited = TRUE]
                  ELSE IF Dead /\ s.read - s.eaten <= MaxUnconsumed THEN LoseSsh("look")
                  ELSE at' = "streams" /\ UNCHANGED <<link, reports>>
    /\ UNCHANGED <<scope, ui, wake, kept>>

(* What a stream of m_streams goes through in serviceStreams(). *)
Read(s) ==
    IF ~wantsChannelData(s) THEN s
    ELSE LET n == Least(s.lib - s.read, MaxForwardBuffer - s.buf)
         IN [s EXCEPT !.read = @ + n, !.buf = @ + n,
                      !.channelEof = s.overLib # "no" /\ s.read + n = s.lib
                                     /\ s.buf + n < MaxForwardBuffer]

(* Bug: the socket is closed as the server's side ends. *)
EndsAtOnce(s) == IF s.channelEof /\ s.buf = 0 THEN [s EXCEPT !.closed = TRUE] ELSE s

EndSide(s) ==
    IF ~(s.channelEof /\ s.buf = 0) THEN s
    ELSE IF s.socketEof \/ s.overLib = "closed" THEN [s EXCEPT !.closed = TRUE]
    ELSE [s EXCEPT !.writeShutdown = TRUE]

Swept(s) == IF s.closed THEN [s EXCEPT !.st = "gone"] ELSE s

(* What nothing looks for any more before it sleeps: a connection opened   *)
(* by the server, or the end of a channel, taken in by a call for another; *)
(* and an end behind bytes that filled the buffer, as ssh_channel_poll()   *)
(* is asked for bytes.                                                     *)
Missed(sh, ss) ==
    \/ link.shell /\ ShellHasEnded(sh)
    \/ \E i \in Ids : ss[i].st = "fresh"
    \/ \E i \in Ids : /\ ss[i].st = "on" /\ wantsChannelData(ss[i])
                     /\ ss[i].overLib # "no" /\ ss[i].lib = ss[i].read

serviceStreams ==
    /\ at = "streams"
    /\ \E refused \in SUBSET Ids :
         LET on == {i \in Ids : streams[i].st \in {"fresh", "on"}}
             calls == link.up /\ (scope.status \/ \E i \in on : wantsChannelData(streams[i]))
             in == IF calls THEN StreamsIn(refused) ELSE streams
         IN /\ refused # {} => calls
            /\ shell' = IF calls THEN ShellIn ELSE shell
            /\ streams' = [i \in Ids |->
                 IF i \in on /\ link.up /\ in[i].chan
                 THEN Swept(EndSide(flushToSocket(Read([in[i] EXCEPT !.st = "on"]))))
                 ELSE IF i \in on THEN [in[i] EXCEPT !.st = "on"] ELSE in[i]]
            /\ IF calls /\ Dead
               THEN LoseSsh("look")
               ELSE /\ at' = "look"
                    /\ link' = [link EXCEPT !.missed = Missed(shell', streams')]
                    /\ UNCHANGED reports
    /\ UNCHANGED <<scope, ui, wake, kept>>

(* Nothing but the keepalive notices that the connection is gone. *)
KeepAliveFails ==
    /\ at = "streams" /\ link.up /\ Dead /\ LoseSsh("look")
    /\ UNCHANGED <<scope, ui, shell, streams, wake, kept>>

(* closeSsh() while mosh goes on. *)
CloseStreams ==
    streams' = [i \in Ids |-> IF streams[i].st \in {"asks", "fresh", "on"}
                              THEN [streams[i] EXCEPT !.st = "gone", !.cut = TRUE] ELSE streams[i]]

LoopForget ==
    /\ at = "loopForget" /\ at' = "loopDisconnect"
    /\ CloseStreams /\ watched' = Forgotten
    /\ UNCHANGED <<scope, ui, link, shell, method, tries, passwords, promptVars, stopping, wake,
                   table, shut, sockets, proxy, reports, history>>

LoopDisconnect ==
    /\ at = "loopDisconnect" /\ at' = link.after
    /\ Close({sockets.own}) /\ sockets' = [sockets EXCEPT !.own = 0]
    /\ link' = [link EXCEPT !.up = FALSE]
    /\ UNCHANGED <<scope, ui, shell, streams, method, tries, passwords, promptVars, stopping, wake,
                   watched, proxy, reports, history>>

(* serviceMosh() finds it over, failed, or, if resumed, never there. *)
MoshEnds ==
    /\ at = "look" /\ link.mosh /\ at' = "finish"
    /\ \/ Report /\ UNCHANGED link
       \/ reports' = reports + 1 /\ UNCHANGED link
       \/ scope.kind = "resume" /\ link' = [link EXCEPT !.gone = TRUE] /\ UNCHANGED reports
    /\ UNCHANGED <<scope, ui, shell, streams, wake, kept>>

-----------------------------------------------------------------------------
(* poll().  The descriptors are listed first, then libssh is asked what it *)
(* has, and that may take in more than it is asked for.                    *)

Reading == link.shell \/ scope.status \/ \E i \in Ids : streams[i].st = "on"

WatchesIn(s) == ~s.socketEof /\ ~(s.chan /\ WindowLeft(s) = 0)

On == {i \in Ids : streams[i].st = "on"}

Buffered(sh, ss) ==
    /\ link.up
    /\ \/ link.shell /\ ~throttled /\ sh.lib > sh.read
       \/ \E i \in On : wantsChannelData(ss[i]) /\ ss[i].lib > ss[i].read

Polls(buffered) ==
    [buffered |-> buffered,
     ssh |-> link.up /\ ~throttled /\ Reading,
     on |-> On,
     in |-> {i \in On : WatchesIn(streams[i])},
     out |-> {i \in On : streams[i].buf > 0}]

Look ==
    /\ at = "look" /\ at' = "poll"
    /\ link' = [link EXCEPT !.polls = Polls(Buffered(shell, streams))]
    /\ UNCHANGED <<scope, ui, shell, streams, wake, reports, kept>>

(* The same, with something arriving as it asks, noticed or not. *)
LookHears ==
    /\ at = "look" /\ at' = "poll" /\ AnyArrived
    /\ link.up /\ (scope.status \/ (link.shell /\ ~throttled) \/ \E i \in On : wantsChannelData(streams[i]))
    /\ \E refused \in SUBSET Ids :
         /\ shell' = ShellIn /\ streams' = StreamsIn(refused)
         /\ \E buffered \in {Buffered(shell, streams), Buffered(shell', streams')} :
              link' = [link EXCEPT !.polls = Polls(buffered), !.missed = TRUE]
    /\ UNCHANGED <<scope, ui, wake, reports, kept>>

CanRead(s) == s.said > s.heard \/ s.ends # "no"

PollReady ==
    \/ wake \/ link.polls.buffered
    \/ link.up /\ sockets.own \in shut
    \/ link.polls.ssh /\ (AnyArrived \/ Dead)
    \/ \E i \in link.polls.in : CanRead(streams[i])
    \/ \E i \in link.polls.on : HangUp(streams[i])
    \/ \E i \in link.polls.out : RoomLeft(streams[i]) > 0
    \/ \E i \in Ids : streams[i].st = "asks" /\ scope.forwards[i] # "remote"

(* The keepalive is due, or one of mosh's timers. *)
PollTimesOut ==
    /\ at = "poll" /\ at' = "loop"
    /\ UNCHANGED <<loopVars, wake, reports, kept>>
-----------------------------------------------------------------------------
(* What it woke for.                                                       *)

Refuse(s) == [s EXCEPT !.closed = TRUE, !.cut = TRUE]

(* A SOCKS client's request, in pieces.  Whether the request is one to     *)
(* serve, and the server opens the channel and does not close it before    *)
(* what came behind the request is written, is asked of "works".           *)
readSocks(i, s, works) ==
    IF s.ends = "reset" \/ s.said = s.heard THEN Refuse(s)
    ELSE IF s.said >= Request(i)
    THEN IF works /\ ~Dead
         THEN [s EXCEPT !.heard = s.said, !.chan = TRUE, !.sent = s.said - Request(i)]
         ELSE Refuse(s)
    ELSE IF ~works /\ s.heard < Greeting(i) /\ s.said >= Greeting(i) THEN Refuse(s)
    ELSE [s EXCEPT !.heard = s.said]

(* A channel the server has closed takes no more: with what was read, what *)
(* is held for the client goes, and what libssh has for it.                *)
WriteFails(s, n) ==
    [s EXCEPT !.heard = @ + n, !.closed = TRUE, !.cut = @ \/ s.buf > 0 \/ s.read < s.lib]

readSocket(i, s, works) ==
    IF ~s.chan THEN readSocks(i, s, works)
    ELSE IF WindowLeft(s) = 0 THEN s
    ELSE IF s.ends = "reset" THEN Refuse(s)
    ELSE IF s.said > s.heard
    THEN LET n == Least(s.said - s.heard, WindowLeft(s))
         IN IF s.overLib = "closed" THEN WriteFails(s, n)
            ELSE [s EXCEPT !.heard = @ + n, !.sent = @ + n]
    ELSE [s EXCEPT !.socketEof = TRUE, !.closed = s.channelEof /\ s.buf = 0]

(* A hang-up is looked at only where nothing can be read.  Without a       *)
(* window, data is left behind.                                            *)
Woken(i, works) ==
    LET s == streams[i]
        flushed == IF i \in link.polls.out THEN flushToSocket(s) ELSE s
    IN Swept(IF i \in link.polls.in /\ CanRead(s) THEN readSocket(i, flushed, works)
             ELSE IF HangUp(s) THEN [flushed EXCEPT !.closed = TRUE, !.cut = @ \/ ~s.socketEof]
             ELSE flushed)

acceptForward(i, works) ==
    IF Request(i) > 0 THEN [streams[i] EXCEPT !.st = "on"]
    ELSE IF works /\ ~Dead THEN [streams[i] EXCEPT !.st = "on", !.chan = TRUE]
    ELSE [streams[i] EXCEPT !.st = "gone", !.cut = TRUE]

PollReturns ==
    /\ at = "poll" /\ PollReady
    /\ \E works \in SUBSET Ids :
         streams' = [i \in Ids |->
            IF i \in link.polls.on THEN Woken(i, i \in works)
            ELSE IF streams[i].st = "asks" /\ scope.forwards[i] # "remote"
            THEN acceptForward(i, i \in works)
            ELSE streams[i]]
    /\ LET writes == {i \in Ids : streams[i].chan /\ streams'[i].heard > streams[i].heard}
           sends == {i \in writes : streams'[i].sent > streams[i].sent}
       IN \/ Dead /\ writes # {} /\ LoseSsh("loop")
          \/ (Dead => sends = {}) /\ at' = "loop" /\ UNCHANGED <<link, reports>>
    /\ UNCHANGED <<scope, ui, shell, wake, kept>>

(* poll() itself fails, other than by a signal.  Under mosh report() only  *)
(* says that the SSH connection is over, but the loop is left all the same.*)
PollFails ==
    /\ scope.drops /\ at = "poll" /\ at' = "finish"
    /\ IF link.mosh THEN link' = [link EXCEPT !.unsaid = TRUE] /\ UNCHANGED reports
                    ELSE Report /\ UNCHANGED link
    /\ UNCHANGED <<scope, ui, shell, streams, wake, kept>>

-----------------------------------------------------------------------------
(* The beginning and the end of the loop. *)

(* A mosh-server that does not start leaves a shell. *)
StartShell ==
    /\ at = "shell" /\ at' = "loop"
    /\ \E mosh \in {FALSE, scope.kind = "mosh"} :
         link' = [link EXCEPT !.up = TRUE, !.mosh = mosh, !.shell = scope.kind # "side" /\ ~mosh]
    /\ UNCHANGED <<scope, ui, shell, streams, wake, reports, kept>>

ResumeMosh ==
    /\ at = "resume"
    /\ \/ at' = "loop" /\ link' = [link EXCEPT !.mosh = TRUE] /\ UNCHANGED reports
       \/ at' = "finish" /\ link' = [link EXCEPT !.gone = TRUE] /\ Report
    /\ UNCHANGED <<scope, ui, shell, streams, wake, kept>>

(* finishMosh() gives up after a while; then closeSsh(). *)
Finish ==
    /\ at = "finish" /\ at' = "forget"
    /\ CloseStreams
    /\ link' = [link EXCEPT !.mosh = FALSE, !.up = FALSE]
    /\ UNCHANGED <<scope, ui, shell, wake, reports, kept>>

-----------------------------------------------------------------------------
NoStream ==
    [st |-> "none", chan |-> FALSE, said |-> 0, heard |-> 0, ends |-> "no", sent |-> 0, taken |-> 0,
     seen |-> 0, replied |-> 0, lib |-> 0, read |-> 0, buf |-> 0, got |-> 0, over |-> "no",
     overLib |-> "no", channelEof |-> FALSE, socketEof |-> FALSE, closed |-> FALSE,
     writeShutdown |-> FALSE, cut |-> FALSE]

NoPolls == [buffered |-> FALSE, ssh |-> FALSE, on |-> {}, in |-> {}, out |-> {}]

Init ==
    /\ LoginInit
    /\ at = IF scope.kind = "resume" THEN "resume" ELSE IF scope.jump THEN "jumpKey" ELSE "key"
    /\ ui = "idle"
    /\ link = [up |-> FALSE, mosh |-> FALSE, shell |-> FALSE, lost |-> FALSE, typed |-> 0,
               carried |-> 0, after |-> "look", exited |-> FALSE, gone |-> FALSE,
               unsaid |-> FALSE, missed |-> FALSE, polls |-> NoPolls]
    /\ shell = [sent |-> 0, lib |-> 0, read |-> 0, eaten |-> 0, end |-> FALSE, endLib |-> FALSE]
    /\ streams = [i \in DOMAIN scope.forwards |-> NoStream]

(* What the worker does by itself, without an answer from anywhere. *)
Runs ==
    \/ LoginRuns
    \/ LoopBegins \/ drainWakePipe \/ SwapPending \/ readAvailable \/ serviceStreams
    \/ LoopForget \/ LoopDisconnect \/ Look \/ PollReturns
    \/ ResumeMosh \/ Finish

Next ==
    \/ Runs
    \/ AddressConnects \/ CallFails \/ Connect \/ HostIsRefused \/ ReachHost
    \/ KeyIsBad \/ WrongPassphrase
    \/ Authenticated \/ NextMethod \/ OnlyInteractive \/ WrongPassword \/ Round
    \/ ProxyEnds \/ OthersOpen
    \/ ShowPrompt \/ AnswerPrompt \/ Stop \/ StopSignals \/ StopShuts
    \/ StartShell \/ KeepAliveFails \/ MoshEnds \/ LookHears \/ PollTimesOut \/ PollFails
    \/ Write \/ Wake \/ consumed
    \/ ServerShows \/ ShellEnds \/ Drop
    \/ \E i \in Ids : \/ ClientConnects(i) \/ ClientSays(i) \/ ClientEnds(i) \/ ClientTakes(i)
                      \/ ServerReplies(i) \/ ServerTakes(i) \/ ServerEnds(i)

Spec == Init /\ [][Next]_vars

(* Told to stop, the worker and the other threads go on, a call over a     *)
(* connection that is gone fails, and mosh's timers run.                   *)
Fairness ==
    /\ WF_vars(Stopped /\ Runs)
    /\ WF_vars(Stopped /\ Broken /\ CallFails)
    /\ WF_vars(Stopped /\ ProxyMustEnd /\ ProxyEnds)
    /\ WF_vars(StopSignals) /\ WF_vars(StopShuts)
    /\ WF_vars(Stopped /\ link.mosh /\ PollTimesOut)

FairSpec == Spec /\ Fairness

-----------------------------------------------------------------------------
StreamOK(s) ==
    /\ s.st \in {"none", "asks", "fresh", "on", "gone"}
    /\ s.heard <= s.said /\ s.taken <= s.sent /\ s.seen <= s.taken /\ s.sent <= s.heard
    /\ s.got + s.buf <= s.read /\ s.read <= s.lib /\ s.lib <= s.replied
    /\ s.buf <= MaxForwardBuffer

(***************************************************************************)
(* The types, with what is held for the terminal and for a forwarded       *)
(* connection bounded by the limits of the code and one read more.         *)
(***************************************************************************)
TypeOK ==
    /\ LoginTypeOK
    /\ ui \in {"idle", "wake"}
    /\ link.carried <= link.typed
    /\ shell.eaten <= shell.read /\ shell.read <= shell.lib /\ shell.lib <= shell.sent
    /\ shell.read - shell.eaten <= MaxUnconsumed + 1
    /\ \A i \in Ids : StreamOK(streams[i])

(***************************************************************************)
(* A connection that ends without having been told to has reported why,    *)
(* and whatever fails on the way out no connection reports it twice: the   *)
(* session shows one reason, and decides by it whether to connect again    *)
(* (fail(), report() and the returns of openShell() and readLoop()).  Left *)
(* out is a mosh session whose poll() fails, which ends without a reason   *)
(* (unsaid, PollFails).                                                    *)
(***************************************************************************)
SaysWhyItEnds ==
    /\ reports <= 1
    /\ at = "done" /\ ~Stopped => (reports = 1 \/ link.gone \/ link.unsaid)

(***************************************************************************)
(* What ends as it should has been carried whole.  The shell's end is      *)
(* reported only after all its output went to the terminal, though reading *)
(* stops while the terminal is behind.  A forwarded connection has carried *)
(* all that its client sent, behind the SOCKS request and the piece it     *)
(* came in, and all that the server sent, whichever side ended first       *)
(* (readAvailable(), serviceStreams(), readSocket(), readSocks()).  Left   *)
(* out are resets, lost connections, and two known cases: a client that    *)
(* ends, after the server did, while the channel's window is used up, as   *)
(* poll() then reports only the hang-up; and one that writes after the     *)
(* server closed the channel, with bytes still held for it (WriteFails).   *)
(***************************************************************************)
WholeWhenEnded ==
    /\ link.exited => shell.read = shell.sent
    /\ \A i \in Ids : LET s == streams[i] IN
        s.st = "gone" /\ ~s.cut =>
            /\ s.read = s.replied /\ s.buf = 0
            /\ s.over # "closed" => (s.ends = "eof" /\ s.sent = s.said - Request(i))

Asleep == at = "poll" /\ UiIsFree /\ ~PollReady

(***************************************************************************)
(* The loop never sleeps with work to do: input, output the terminal can   *)
(* take, bytes of a forwarded connection that can go on, a connection to   *)
(* accept, a lost connection, or a stop.  Its wake-ups must not be lost to *)
(* drainWakePipe(), to the throttle, or to what poll() is asked for.       *)
(* Left out is what libssh took in where the loop no longer looks for it   *)
(* (Missed, LookHears), and a stop of a mosh session without SSH, which    *)
(* its timers notice.                                                      *)
(***************************************************************************)
NothingWaits ==
    Asleep /\ ~link.missed =>
        /\ link.carried = link.typed
        /\ Stopped => ~link.up
        /\ link.up /\ ~throttled /\ Reading =>
              /\ ~AnyArrived /\ ~Dead
              /\ link.shell => (shell.lib = shell.read /\ ~shell.end)
              /\ \A i \in On : wantsChannelData(streams[i]) =>
                    (streams[i].lib = streams[i].read /\ streams[i].overLib = "no")
        /\ \A i \in Ids : LET s == streams[i] IN
              /\ s.st # "fresh"
              /\ s.st = "asks" => scope.forwards[i] = "remote"
              /\ s.st = "on" => (s.buf = 0 \/ RoomLeft(s) = 0)
              /\ s.st = "on" /\ CanRead(s) /\ ~s.socketEof => (s.chan /\ WindowLeft(s) = 0)
=============================================================================
