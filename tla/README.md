# Formal models of Longterm

Longterm is an SSH and mosh terminal for Sailfish OS, written in C++ with Qt
(`src/src/`) and QML (`src/qml/`).  This directory holds TLA+ models of the parts
of it whose correctness depends on the order of things: threads, packets, files
and stored secrets.  Each module is a translation of the C++ code, function by
function; `PROJECT.json` says for every definition which lines it stands for.

1. [Inventory](#1-inventory): the parts of the system
2. [Plan](#2-plan): what is modelled, in which order
3. [The modules](#3-the-modules): how state and actions correspond to the code
4. [The runs](#4-the-runs): what TLC checks, and with which bounds
5. [Fairness](#5-fairness)
6. [Where the code and its comments disagree](#6-where-the-code-and-its-comments-disagree)
7. [The proofs](#7-the-proofs)
8. [What is not modelled](#8-what-is-not-modelled)

To check a run: `tlc -workers 2 -config MCMoshSender.cfg MCMoshSender.tla`.
To check the proofs of a module: `tlapm MoshSenderProofs.tla`.

## 1. Inventory

### Threads and how the parts talk

A **SshSession** lives in the user interface's thread.  It starts a **SshWorker**
on a QThread of its own for each connection, and while mosh carries the terminal a
second, *side* worker for port forwards, files and the agent.  Worker to session
goes by queued signals (one FIFO per worker), session to worker by atomics, by
pipes the worker polls and by a prompt handshake on a mutex and a condition.  With mosh, the worker's loop drives a
**MoshClient**, which is an object of the worker's thread.  A **SecretVault** answers requests one
by one through callbacks from the Sailfish Secrets daemon.  What outlives the app:
the mosh journals, the known hosts, the saved index of hosts and keys, and the vault.

### Components

**MoshClient, packet numbers** (`moshclient.cpp` 635-671, 893-920; *MoshNonces*).
State: `m_nextSeq`, `m_seqReserved`, the journal's `Q` record.  Operations: send a
packet, reserve a block by rewriting the journal, resume.  Hard: the app can be killed between any two
records, and writes fail unnoticed.  Correct when no nonce is used twice under a session key.

**MoshClient, sender** (`moshclient.cpp` 485-544, 604-790, 1215-1460; *MoshSender*,
*MoshInput*).  State: the user's input as events `m_events` from `m_eventBase` on, the sent states
`m_sent`, number reservations, the shutdown's counters, the journal's `M F B E T`
records.  Operations: `write`, `resize`, `tick` (timers, trimming, which state the
server is assumed to have, a new state or an empty acknowledgment, the shutdown's end),
`processAcknowledgment`, `shutdown`, `rewriteJournal`, `resume`.  Hard: lost,
repeated and reordered packets; a queue that culls its middle; an event that grows
after it was sent; a restart.  Correct when the server gets the input once,
in order and unchanged; when nothing is forgotten that the server still needs, in memory or in the
journal; and when a number means one state for ever.

**MoshClient, receiver** (`moshclient.cpp` 300-470, 546-602, 1022-1204, `terminal.cpp`
167-177, `sshsession.cpp` 3020-3027; *MoshReceiver*).  State: the tree of received states `m_states`,
`m_latest`, `m_mirror`, `m_shownScroll`, `m_output`, the journal's `S L` records, the
terminal.  Operations: `applyDiff`, `throwAwayUntil`, acknowledging, showing, resuming.
Hard: changes come from any base, the base may be gone, scrollback is counted separately from screens.  Correct when
the terminal gets the server's screens whole and in order, with every line once.

**MoshClient, network plumbing** (`moshclient.cpp` 820-1020, 1429-1444).  State: fragments of the
instruction being received, sockets of the recent ports, round-trip estimates.  Hard: fragments of
several instructions interleave.  Correct when an instruction is only ever put
together from its own fragments.

**SshSession** (`sshsession.cpp` 2100-3250).  State: the connection state, whether a
secret is being fetched, the main and the side worker, `m_sshUp`, `m_usesMosh`, `m_lost`, the reconnect timer, the journal and the key of a mosh
session to resume.  Operations: connect, disconnect, roam, reconnect, start and end of
workers, and all the slots on their signals.  Hard: signals of a worker that was
told to stop are still delivered; secrets arrive after a change of mind; the journal and the vault change in separate steps.  Correct when there is at most one
connection, a lost one comes back, a closed one stays closed, and a
mosh session that is kept can be resumed.

**SshWorker, login and prompts** (`sshsession.cpp` 190-250, 311-414, 601-855, 1215-1478;
*SshLogin*).  State: where `run()` is, the prompt's mutex, condition and answer, `m_stop`,
the registry of sockets `m_sockets`, the thread of `JumpProxy`.  Operations: `ask`,
`answerPrompt`, `stop`, `connectSocket`, `watchSocket`, `forgetSockets`, `connectJump`, `loadKey`,
`verifyHost`, authentication in its order of methods, the way out of each.
Hard: both threads touch prompts and sockets; a wake-up may be missed; a descriptor
closed is soon somebody else's.  Correct when an answer only answers the question it was given
to, `stop` ends every wait, no socket of somebody else is shut down, and an end is reported once.

**SshWorker, read loop and forwards** (`sshsession.cpp` 401-422, 557-602, 1100-1159,
1536-1890, 1959-2150; *SshWorker*).  State: unread output and the throttle, the wake pipe, forwarded
channels with their buffers and the half each has ended, what libssh holds and what is
still at its socket.  Operations: a pass of `readLoop`, with `readAvailable`, `serviceStreams`, `readSocket`, `readSocks`,
`acceptForward`, what `poll` is asked and what it answers; `closeSsh` and `finishMosh`.
Hard: any call into libssh takes in data of all channels; several reasons to sleep or
not to; each side of a stream ends by itself.  Correct when output is
bounded, nothing that ends in order is cut, and the loop does not sleep with work to do.

**Typing predictions** (`sshsession.cpp`, `predict`, `onMoshEcho`, `trackTyping`).  State: predicted characters and
the echo they wait for.

**SessionManager** (`sessionmanager.cpp`).  State: list of sessions, saved sessions,
network state.  Operations: reconnecting after a network change, closing, restoring.

**SftpEngine, SftpBrowser** (`sftpengine.cpp`, `sftpbrowser.cpp`, `sshsession.cpp` 2408-2417;
*SftpTransfer*, *SftpFiles*).  State: requests taken by the worker, the transfers of its engine with
the requests in flight and the file begun; the listing shown, the operations and transfers the user waits for.
Operations: the browser's (open a folder, operate, transfer, cancel), a pass of `service`, `failAll`, the slots on
every report.  Hard: short answers, cancelling with requests in
flight, an engine replaced under the browser.  Correct when a finished file
is complete, half of one is removed, every transfer ends once, and the folder shown includes what was reported as done in it.

**SecretVault, HostStore, KeyStore, Backup** (`secretvault.cpp`, `hoststore.cpp`,
`keystore.cpp`, `backup.cpp`; *Secrets*).  State: the saved lists of hosts and keys beside asynchronous secrets, the backup under way.
Operations: adding, changing, duplicating, importing and removing hosts and keys, exporting and restoring backups, every answer of the vault.
Hard: changes of mind during a request, partial failure, kills.  Correct when an entry said to have a secret has one, no
secret is left without an entry, limits hold, and a backup ends.

**KnownHosts** (`knownhosts.cpp`, `sshsession.cpp` 2350-2377).  A file two threads write: an entry
added between its reading and its renaming is lost, and trusted anew on the next connect.

**Others**: `SshAgent` (one request at a time), `Terminal` (libvterm with a scrollback),
`TerminalView`, `AppSettings` and the app lock, `ColorSchemes`, list models and QR codes, QML,
the libraries.  Little state that depends on an order; not planned, see section 8.

The hazards this list leads to are in `PROJECT.json` under "hazards", each at the line where it bites.

## 2. Plan

| # | modules | what they model | state |
|---|---|---|---|
| 1 | `MoshNonces` | packet numbers over kills and failed writes | done; proved in `MoshNoncesProofs` |
| 2 | `MoshSender`, `MoshInput` | input to the server; `MoshInput` is what it promises | done; proved in `MoshSenderProofs`, `MoshInputProofs` |
| 3 | `MoshReceiver` | the server's screen to the terminal | done; proved in `MoshReceiverProofs` |
| 4 | `SshSession` | session, main and side worker, vault, journal, network changes | done; proved in `SshSessionProofs` |
| 5 | `SshLogin`, `SshWorker` | the worker's thread: logging in, questions, `stop()`, the loop, forwards | done; proved in `SshWorkerProofs` |
| 6 | `SftpTransfer`, `SftpFiles` | one transfer; browser, session and the engines of several workers | done; proved in `SftpFilesProofs` |
| 7 | `Secrets` | hosts, keys and their secrets, backups | done; proved in `SecretsProofs` |
| 8 | `MoshFragments` | instructions from fragments | left out, see section 8 |

Runs: one for each of these, with one more where the code and a comment
disagree.  Every safety property of a passing run is stated by a theorem; liveness is only checked.

Every module is written so that it can be proved about: sizes and limits are constants with
named assumptions, invariants are conjunctions of named parts, and recursion is a
recursive function or a fold.

## 3. The modules

### MoshNonces

`up`, `nextSeq`, `seqReserved` and `disk` are the running client, `m_nextSeq`,
`m_seqReserved` and the file.  `rewriteJournal()` is three actions, `BeginRewrite` (the file is
emptied, a block reserved in memory), `WriteReservation` (the `Q` record) and
`FinishRewrite` (the rest), because `journal()` flushes each record and ignores its result: each
write may fail, and the app may stop between any two.  The worker is in
the rewrite (`pc`) until it is done, so no packet is sent meanwhile.  `SendPacket` is
the rest of `sendPacket()`; its reservation check is `MustReserve`, and when it holds
only `BeginRewrite` can come first.  Encryption is left out: what matters
is which number it is done with.

### MoshInput and MoshSender

The n-th key or resize of the session is the number n, and a piece of input is a sequence of
such numbers, so the properties can tell input that is left out, repeated or
out of order.  `events` has an entry for each event, with the first and last
input in it, since `write()` lets the last event grow.

One action is one handler: `Type` is `write()` and `resize()` with `journalEvent()`;
`Tick` is `tick()` with all it calls (`calculateTimers()` trims, then an
empty acknowledgment, or a new or repeated state, or nothing, then the end of a shutdown);
`ProcessAcknowledgment`, `BeginShutdown` (`finishMosh()` removing the journal, then
`shutdown()`), `Rewrite` (`rewriteJournal()` for another reason), and
`Resume` (`readJournal()`, `resume()`, `setJournal()`, and the resize to the screen that follows).
A rewrite in the middle of `addSentState()` is part of that action.  `Stop` is the app being left or killed
between handlers, and `StopInRewrite` a kill within `rewriteJournal()`, with
every prefix of the records on disk that differs to `readJournal()`.

Timers are choices: whether anything is due, whether the states sent are recent
(`Assumable`: `updateAssumedReceiverState()` goes from the front on until a state is old, and as the
timestamps never decrease along `m_sent` it ends at the front or at the last), and
whether the time of the shutdown is up.

Outside the code: `toServer` is a set from which `Receive` does not take packets away, so
they repeat; `Send` may drop any of them, and a set has no order.  The server takes a state it has not,
from one it has, forgets the states it is told to, and any number it ever
acknowledged may arrive, in any order (`acks`).

`MoshInput` says in two actions what this amounts to: input is made, and a
longer prefix of it is delivered.

### MoshReceiver

The program on the server prints lines 1, 2, 3 and so on, so a screen is the
number of lines printed and its content the last `Height` of them.  Changes from one
screen to another scroll if the two have lines in common and draw anew if not.
Applied to a screen they were not made for they give `Garbled`, so a wrong base
shows.  `known` is `m_states`, with a parent and the changes from it; `ScreenAt` draws the steps from a root
(`stepsTo()`, `describeScreen()`).  `Receive` is `receiveInstruction()`,
`applyDiff()` and `throwAwayUntil()` in one, with the `S` and `L` records;
`StopInReceive` is a kill between these.  `Acknowledge` is the acknowledgment every
packet carries, `Show` is `takeOutput()` and `onMoshData()` in the other thread, with
`output` being what is between the two.  `ServerSend` sends a new or the newest
state from any state the server holds, `Oldest` being what it throws away up to.
A kill between the `S` and the `L` record of a state resumes with one that is known but not shown, and is
refused when it comes again; `CatchesUp` excepts it (`NewestUnshown`).

`leapt` is history: a screen was drawn anew past lines that were in neither screen (`Leaps`), which no scrollback
gets.  `LinesInOrder` is stated for as long as that has not happened.  After it `scrollIndex`, of
which each state has its own, counts less than was scrolled, by a different amount along each branch of the tree, and
the lines to skip (`moshclient.cpp` 1140) are the difference of two such counts.  With a screen of four lines and the
lines printed as states 0 to 4, the changes 0 to 1, 0 to 2 drawn anew, 2 to 3 and 1 to 4 give a scrollback with a line twice.

The model cuts the tree by the number of states (`MaxReceivedStates`).  The code also
cuts by bytes, which is the same action at other times.

### SshSession

`gui` holds the members of the session (`state`, `fetching` for `m_secretFetchPending`,
`vaulted` for an `m_auth` with a vault, `lost`, `reached`, `connectAfter`, `resuming`,
`usesMosh`, `sshUp`, `sideFetching`, `sideUp`, and `retry` and `reconnectDue` for the two
timers).  `thread` is the main worker: `phase` says where `run()` is, `stop`
and `keep` are its atomics, `mosh` the mosh session it carries, `over` whether that has finished,
and `answers` whether the server still has it.  `side` is the side worker, with an identity,
as `onSideWorkerFinished()` deletes whichever there is.

`events` is the queue of signals posted to the session.  It is one FIFO, as posted
events of one receiver are, and `disconnect()` takes nothing out of it: Qt calls a slot
for a call posted before.  Quitting destroys the session and the queue with it.  `vault` is the queue of
requests to Sailfish Secrets, taken to be answered in order, each with success or
without.  `store()` asks for the collection first and stores only when that is
answered, so a removal asked for in between comes before the store, and both
steps are in the queue on their own.

Each action is a slot (`On...`), an answer of the vault (`Answer...`), a call of the
user or of SessionManager (`Connect`, `Disconnect`, `NetworkChanges`, `Reconnect`, `Start`), a timer
(`RetrySide`), or a step of a worker between two points where it looks at what the session told it.
`StartConnection` and `StartWorker` are the functions of that name, with the session as
they find it as a parameter, because `onWorkerFinished()` changes it before it
calls them.  What a connection attempt does is a choice: logging in fails, with or without
the network to blame, or succeeds over SSH or mosh; a resumed session answers or not.
`Quit` is `~SshSession()`, after which the worker goes on for as long as the process lasts
(`ProcessEnds`); `Kill` ends both at once, with `KeyOutcomes` being what the vault
may have done of what it had been asked.  `Abort` is Qt ending the app, see section 6.

`history` has what the properties ask about: that the user ended the session, the mosh
session left running as the app went, and the mosh sessions whose key could not be kept.

Left out here: prompts, host keys, jump hosts (two secrets are fetched one after the other
instead of one), a command run instead of a shell, removing the session from the list, and a
journal that cannot be written.

### SshLogin and SshWorker

One thread of the worker, one of the session, the jump host's proxy thread, and the
descriptors of the process.  `at` is where `run()` is, from the first key to the end;
`Beyond` is the order of the steps, `CleanUp` where each goes when it fails (`connectJump()`
cleans up before it returns, the rest in `closeSsh()`).  A step that waits for the network is one
action that succeeds (`Connect`, `ReachHost`, `Authenticated`, `NextMethod`, ...) or `CallFails`, which is
always possible and, once the socket is shut down, all that is left (`Broken`).

*Questions.*  `asking` is where `ask()` is: with the mutex (`locked`), decided to wait but not yet waiting
(`decided`), `waiting`, `woken`, or with an `answer`.  The mutex is held until the wait begins, as
`QWaitCondition::wait()` releases it only then; `AnswerPrompt` and `StopSignals` need it (`PromptMutexIsFree`).
Answers are the number of the question the user saw.  `queue` is the signal on its way, `shown` the
session's `m_prompting`.

*Descriptors.*  `table` says whose each descriptor is, and a new one is the lowest unused, as
POSIX has it; the rest of the app opens some too (`OthersOpen`).  `StopShuts` shuts down all of
`watched`, and `history.hurt` records one that is not the worker's.

*The loop.*  `link`, `shell` and `streams` are the connection, the shell's output and the forwarded
connections, counted in pieces.  Of each, what the server `sent` arrives at the socket, is in libssh
(`lib`) once any call reads the socket, and is `read` by the loop after that.  A pass is
`LoopBegins`, `drainWakePipe`, `SwapPending`, `readAvailable`, `serviceStreams`, `Look` (what `poll` is asked) and `PollReturns` or
`PollTimesOut`, in this order, with the other thread and the network between any two.  `LookHears` is something that arrives
while the loop asks libssh what it has.  A stream is its local socket (`said`, `heard`, `ends`), the channel to the
server (`sent`, `taken`, `seen`, which is the window) and the way back (`replied`, `lib`, `read`, `buf`, `got`).
`readSocks` counts the pieces of a greeting and a request instead of reading addresses.

Found while modelling, and named as exceptions in the properties:

* A connection the server opens, or the end of a channel, that libssh takes in while the loop
  asks about another channel waits for the next event or the keepalive, up to
  a minute (`missed`; 2054-2066 ask for bytes only).
* A client that ends after the server did, with the window used up, is closed with its last bytes
  unread: `poll` then reports only the hang-up (`cut`, 2102).
* A client that writes after the server closed the channel: the write fails, and the connection is closed with what it
  held for the client, and what libssh had for it, lost (`cut`, `WriteFails`, 1668-1671).
* A mosh session whose `poll()` fails leaves the loop, and so ends, without a reason: `report()` only says that the
  SSH connection is over and the session goes on without it (`unsaid`, `PollFails`, 2080-2083 and 2138).
* A stop between the check at 1964 and the drain at 1965 loses its byte; the shut-down
  socket still ends `poll`, but a mosh session without SSH has none and goes on to its next timer.
* A side connection without a status file and without streams does not look at its socket (2031), so a remote forward is
  not taken up before the keepalive.

It is assumed that libssh closes a socket only in `ssh_disconnect()` and `ssh_free()`, as the comment on `forgetSockets()` says.

### SftpTransfer and SftpFiles

`SftpTransfer` is one transfer as a record, and what a pass of `service()` does with it as
operators: preparing, opening an item, taking the answers, asking for more, closing.  A file is the
sequence of its blocks by number.  A pass meets one fault at most (`Faults`) and any number
of answers, each whole, short, at the end of the file, or failed.

`SftpFiles` has the browser's members (`path`, `listId`, `loading`, `operations`, `transfers`), the session's
route for requests (`Taker`: the main worker with SSH, else the side worker), `workers` with their inbox
(`m_sftpRequests`) and engine, and `posted`, the event queue.  `changes` counts what was done in each folder, by uploads that
fail too (`Touches`: a folder made, a file created, finished, replaced or removed); `due` is how much that was when something in
the folder was last reported as done, and `shown` what of it the listing includes.  A listing may be refused, or end with an
error after some entries (`Outcomes`), which are then shown; the server may refuse to remove a half file (`removes`,
`removable`).  `Pass` is `handleSftp()` and `service()` of one worker; `SshCloses`, `RefuseAll` and
`ThreadEnds` are its ends; the slots are `On...`, taken in order by `Deliver`.  `Grows` is a file another program
writes to.  The loops of the engine (taking answers, asking for more, writing, cancelling, a pass over all transfers,
`failAll()`) are written with one recursive function, `Repeated`, so that they can be proved about.

Exceptions in the properties: a file that grows between the answer that it ends and later answers in
flight is saved with a hole and reported as done (`late`, `sftpengine.cpp` 480-490); requests a side worker has not taken as its
thread ends are never reported (`LeftBehind`); half an upload stays if the server refuses to remove it, as nobody looks at what became
of `sftp_unlink()` (413-415, `removable`); and what an upload that fails or is cancelled leaves (its folder, the files already done, half of the
file it replaced) is not listed anew, as `onTransferred()` only does so without an error (`sftpbrowser.cpp` 250), so `FreshWhenQuiet` is about
what was reported as done (`due`), and about listings without an error (`cut`).  Two more oddities are outside the properties: opening a folder is undone by a listing
that `onDone()` asks for meanwhile (225), and `cancel()` goes to whichever worker takes requests by then.

### Secrets

`hosts`, `keys` and `secrets` are the two lists and the vault, `requests` the vault's queue, in which `store()` is
two requests (the collection, then the secret) and what the answer is `use`d for stands for the callback.  Keys are made by a pool
(`making`), backups sealed and opened by it (`Sealed`, `Opened`).  `Restart` is a kill at any time, with each request on its way
done or not, and the next start from the files.

Exceptions: a password dropped, or a host or key removed, while its store is under way (`crossed`); restored hosts keep their
word for a password whose store failed, as `storeSecrets()` ignores errors (`crossed`); secrets that a kill, a failed removal or a restored host that
already exists leave (`left`); keys made, imported or restored at the same time pass the limit (`crowded`, `keystore.cpp` 214).

## 4. The runs

Each property has a mutant in `PROJECT.json`: a change to the model, such as a bug
in that code would be, with which the same run finds the property violated.

| run | states | what it shows |
|---|---|---|
| `nonces` | 17 thousand | no nonce is used twice and the file reserves enough, at each step of a rewrite |
| `sender` | 1.2 million | the server's input is what was typed; the front is held, now and after a restart; an agreed shutdown has delivered everything; `MoshInput` is implemented |
| `sender_crash` | 89 thousand | with kills in a rewrite too, a number keeps its meaning; all input is delivered |
| `sender_continues` | violation | a kill in a rewrite loses the input since the front |
| `receiver` | 205 thousand | the terminal follows the server, what was acknowledged survives, lines are in order, the terminal catches up |
| `receiver_skip` | violation | lines left out of the scrollback that are not in it |
| `session` | 597 thousand | one connection at most; the session follows its workers; a side worker is tried again; a loss is followed by another try, a stop by an end; a mosh session left running is resumed, with its own key |
| `session_ended` | violation | a session ended on purpose connects again |
| `session_replaced` | violation | the side worker deleted is not the one that ended |
| `worker` | 1.8 million | answers go to their questions; only its own sockets are shut down; the end is said once; what ends in order was carried whole; the loop does not sleep with work to do; a stop ends the thread |
| `sftp` | 3.3 million | files are whole or not there; each transfer ends once and is not forgotten; the folder shown has what was reported as done in it when nothing is under way |
| `secrets` | 717 thousand | what the lists promise is in the vault, and nothing else; the key limit; a backup ends |

Bounds.  *Nonces*: blocks of 2 and numbers to 9, so that a run has several
reservations, rewrites and restarts.  *Sender*: a queue of 3 sent states that culls the
one before the last (32 and 16 in the code) is culled after two unacknowledged states;
blocks of 2 numbers make the reservation renew itself twice; 3 inputs, one of them the
size told at the start, and a fourth after the restart; 2 packets in flight can overtake
each other.  `MaxStates` bounds the empty acknowledgments only: input is always numbered.
*Receiver*: 3 states of the server (0 to 2) and its last, trees cut at 2 states,
a screen of 4 lines, and 2 packets in flight reach the restart from each point, a base
thrown away while changes from it are on the way, and a screen drawn anew and then scrolled.
*Session*: three of the things that come from outside (connecting, disconnecting, a network
change, the end of the app) in any order, and any number of losses, failures,
reconnects and side workers between them.  Three are what it takes to connect again while the answer of
a connection given up is on its way, to start a second mosh session and be killed in it, or to be roaming after a restart;
`MaxSessions` 2 gives the first session's key to the second to be confused with, and past it mosh-server does not start.
*Worker*: a set of scopes instead of one size, each for one question, so that their sum is
small.  Logging in with a password, with an encrypted key, through a jump host, and without anybody to ask,
each with a stop anywhere, two addresses, two attempts and descriptors the rest of the app takes as the worker closes them;
a shell with more output than it may hold, one that is stopped or lost, mosh, a resumed mosh session (where the connection may be
lost, `poll()` may fail too); and each kind of forward with
one connection, a window, a buffer and a local socket of one piece, so that each is full and empty again, and two pieces one
way where order matters.  A limit of one unread piece is passed by the one read more that the code allows.
*SFTP*: one transfer of a file of up to 5 blocks, with chunks of 2, two requests in flight and
every fault (a short answer in the first, the last and a middle request, a removal that is refused); two transfers of folders of up to two files; three requests over two workers that follow each other, with
uploads that make a folder; and two over three workers, with uploads that fail.  *Secrets*: two hosts (and one, on a full phone), one key too many for the limit, and five
or six things done, which is what an import, a change of mind, a kill and a second import take.
None of the runs needs symmetry: numbers are ordered.

`CHECK_DEADLOCK FALSE` is in the configurations because these systems really stop: sessions
end, an unreadable journal is not resumed, and the bounds are reached.

## 5. Fairness

*Sender.*  `WF(Retransmit)`: the worker's loop polls with a timeout and calls
`tick()`, which sends again once a state is older than the timeout, so in the end
from the front.  `WF(Resume)`: sessions are restored as the app starts.  `SF` on
receiving a packet of use to the server: the network loses packets but not all of them; nothing is assumed of
acknowledgments.  *Receiver.*  `WF` on `Acknowledge` and `Show` (the two threads run), on
`Resume`, and on `Retransmit`, the server's own retransmission from its oldest state; `SF` on receiving
a packet that applies.

*Session.*  `WF` on the slots and on the vault's answers (an event loop and a
daemon that run, in order), on the two timers, on `Resumes` (`resumeMosh()` reads a
file) and on `Winds`, what a worker told to stop does: `stop()` wakes every wait of it
and shuts its sockets down.  Nothing is assumed of logging in, of the server, of the
network or of the user.

*Worker.*  Only after a stop: `WF` on what the worker does by itself (`Runs`), on a call over a connection that is shut
down failing, on the proxy's end once a side of it is, on mosh's timers, and on the steps of `stop()`, which
the other thread is in.  Nothing is assumed of the user's answers, the server or the network.
*Secrets.*  `WF` on the vault's answers and on the pool's work.  *SFTP* has only safety properties;
`NoneIsForgotten` says that an end is still on its way.

`Delivered` has the exceptions the code has: a session that is ended first, and
a journal that was cut by a kill in a rewrite (`cut`; see section 6) or cannot be read.

## 6. Where the code and its comments disagree

* `sender_continues`.  `rewriteJournal()` empties the file and writes record by record.
  A kill in between leaves a journal that `readJournal()` accepts without the events, so the
  next start continues from the front, and replaces input the server had already
  taken.  `moshclient.h` 141 says a restart has to go on with it.
* `receiver_skip`.  `applyDiff()` counts the lines to skip from `scrollIndex`, which does not
  count what was never scrolled when a screen was drawn anew, so lines are skipped that are not in the scrollback.
  `moshclient.h` 33 says they are in it already.  The same wrong count may skip too few, and a line is in
  the scrollback twice (section 3).
* `session_ended`.  `disconnectFromHost()` clears `m_lost`, but the signal of a loss may be queued
  already.  It sets `m_lost` again, and the session reconnects when its worker has finished.
  `longterm.changes` 63 lists reconnects after disconnecting on purpose as fixed.
  The same happens when the mosh session resumed is found gone (`moshGone`).
* `session_replaced`.  A side worker that ended has its `finished` queued as the network changes.
  `roam()` replaces the worker (with a password there is no secret to wait for), and
  the slot then deletes the new one, whose thread runs, on which Qt ends the app.
  `README.md` 57 says the terminal goes on over mosh.  `onKeyUnlocked()` compares
  `sender()`; `onSideWorkerFinished()` does not.

The passing runs include all these kills; the properties that survive them say so in
their statement, and the others name their exception (`~cut`).

## 7. The proofs

TLAPS proves these for every value of the constants that satisfies the modules'
assumptions (`SeqBlockAssumption`, `MaxSeqAssumption`, `SenderAssumption`, `SessionAssumption`,
`LoginAssumption`, `WorkerAssumption`, `SecretsAssumption`, `ReceiverAssumption`, `TransferAssumption`, `FilesAssumption`): sizes are
naturals, blocks, chunks, screens, buffers and windows not empty, the culled place is in the queue, the shutdown's number is not 0, and ids and descriptors are finitely many.
Each proof has the same shape: an inductive invariant `IInv`, a lemma for each action that keeps it
(some for a group of actions that change the same things), `Starts` or `Init => IInv`, and the properties as consequences.

**MoshNoncesProofs**: `TypeCorrect`, `ReservationCoversAlways`, `NoncesAreFresh`.
`ReservationCovers` is not inductive, as it says nothing while the file is not whole.
`IInv` has in its place: while a client runs every nonce used is below the next one,
which is within the reservation; the file reserves either nothing or what memory
does; and what it reserves, if anything, is above every nonce used.

**MoshSenderProofs**: `NeverReused` (`NumbersFresh`: a state number never stands for other
input, in any sequence of losses, retransmissions, kills and restarts), `TypeCorrect`,
and `Invariance` of `IInv`.  The argument:

1. A new number is above the last sent state and not below the floor, so it is fresh when
   every number given away is at most one or below the other (`MemoryInv`).
2. The floor is what the journal reserved, so a restart keeps this if the journal's
   reservation, or the last of its `T` records, is above every number given away
   (`JournalInv`).  The reservation alone is not enough: after a restart it may equal
   the floor, and the first number taken renews it only as it is added.
3. The journal of a running client is as its memory (`SameInv`), so a rewrite cut
   anywhere either keeps the reservation, which was raised to be above the last state, or leaves nothing to resume.
4. The number of the shutdown is outside this order.  It is only given while the session is being
   ended, when nothing is typed and the journal is gone (`EndInv`), so it stands for one input as well.
5. A state is sent again only when nothing was typed since, so it stands for
   what it stood for (the third conjunct of `MemoryInv`).

`WireInv` adds to it what the server needs for `TypeOK`: packets carry numbers that were given away.
Lemmas on sequences: `FromFits` (the first place with a number, from
well-foundedness), `DropBeforeFits`, `CullFits`, `PrefixFits`, `AppendFits`, `TrimFits`.

**MoshInputProofs**: `InputArrivesInOrder` (`ServerInputIsTyped`), `FrontIsHeld`, `RestartIsHeld`,
`EndIsDelivered` and `SenderImplements`, by an invariant on top of the one above (`UncutHeld`).  `meant[n]` is how much of the input
the number n stands for, in memory (`MemoryHeld`), in the journal (`JournalHeld`), in each packet that may still come
(`PacketsHeld`: its difference makes one number's input into the other's) and in each state of the server (`StatesHeld`).
Events are consecutive stretches that go up to all of the input (`Chain`), so what is trimmed at the front
was before the front, and a state that is culled takes no input with it.  `FrontsKept` says
that the server cannot throw away what the client, or its journal, counts from.  All of it is under `~cut`: a kill
within `rewriteJournal()` loses events, after which numbers and input no longer go together (section 6).  With
`~KillInRewrite` each step is a step of `MoshInput` or none.

**SshSessionProofs**: `ConnectsOnce` (`OneConnection`), `SshIsUp`, `SideComesBack`, `KeyFitsJournal`, `KeptStaysResumable`.
The session only sees signals, late.  `Signalled` and `InOrder` say which signals a worker can have sent by its phase and what cannot come
behind what; `InStep` and `SshTold` relate what the session believes to the worker and to what is still queued.  `KeyOf` follows the key of the journal's mosh
session to the vault: signalled, asked to be stored with nothing behind it that removes it or stores another, or there.
`Left` is what a session that was quit or killed leaves; the mosh session left running has its key by
`KeyOf` of the moment it was left.

**SecretsProofs**: `PromisesAreKept` (`PromisedIsThere`), `NothingStays` (`NothingIsLeftBehind`), `KeysAlwaysFit` (`KeysFit`).
`Held` relates four sets of ids: those the lists promise, those the vault has, those the queue drops, and those a
restore has stored for hosts it has yet to add.  What is promised and did not cross a removal is in the vault and not
about to be dropped; what is in the vault is promised, about to be dropped or known to be left.  Lemmas say what a queue drops, stores and
overtakes when something is asked behind it or its head is answered.  `OneKey` is the limit: one key at a time has room.  The ids are finite in the assumptions, as
`StoreAll` puts them in an order.

**SshWorkerProofs**: `TypesHold` (`TypeOK`, with the limits of what is held unread), `AnswersFit`, `OthersAreSpared` (`OnlyItsSockets`),
`OneReason` (`SaysWhyItEnds`), `CarriedWhole` (`WholeWhenEnded`) and `SleepsIdle` (`NothingWaits`), for any number of questions,
attempts, addresses, descriptors and forwarded connections.  The parts of `IInv`:

* `Prompting`: who waits has asked the newest question, which is queued, shown or answered, and nobody else has one on its way.
* `Sockets`: what is watched is the worker's, and where in `run()` each socket is watched; before each close nothing of it is watched any more.
* `Reporting`: nothing is reported before the end, and once unless stopped on the way out.
* `Showing`, `Forwarding`: how far each stream got at each of its stations, what has ended, and that a side is taken as
  ended only when all before it was read.  A connection is followed through a pass by lemmas on `Read`, `flushToSocket`, `EndSide`, `readSocket` and `readSocks`.
* `Connected`: input typed is taken up or a wake-up is on its way, and connections exist only while SSH is up.
* `Polling`: at `poll()`, unless something was `missed`, what was listed is what there is now, though the throttle, the buffers and the windows moved meanwhile.

`NothingWaits` follows from `Polling`, `Connected` and `Sockets`: each reason to go on is listed, or has put a byte in the pipe.

**MoshReceiverProofs**: `TypesHold` (`TypeOK`), `TerminalIsTheServers` (`TerminalFollows`), `FrontHeld` (`ServerFrontHeld`),
`AcknowledgedSurvives` (`AckedSurvives`) and `InOrder` (`LinesInOrder`), for any number of states, a screen of any height, any limit of
the tree, and kills anywhere.  The parts of `IInv`:

* `ServerFits`, `PacketFits`: the server's screens go forward, a packet has the two screens it names, and it throws away
  nothing the server may still count from (`Oldest`).
* `ClientFits`: each state known, in memory or in the journal, has the server's screen, and its parent is an older one with the
  screen it counts from (`Fits`).  So what `stepsTo()` draws from any root is the server's screen, whatever was culled or thrown away.
* `OutputFits`: each change on its way to the terminal is made for the screen it will meet, and the last gets to the mirror.
  `TerminalFollows` is about what the queue amounts to (`DrainedIs`).
* `AckedHeld`: unless `cut`, what was acknowledged, the oldest state of the server and the newest of the journal have all their steps in
  the journal.  `throwAwayUntil()` and the limit of the tree keep such steps (lemmas on `Reached`), and `ServerFrontHeld` and `AckedSurvives` follow.
* `LinesFit`: unless `leapt`, every state has scrolled what is above its screen, a change skips at least what the terminal
  has beyond the change's base, and the scrollback goes up to the top of the screen.  A change on its way may be from a base
  before what the terminal shows, so this is said of each place in the queue.

**SftpFilesProofs**: `WholeFiles` (`FilesAreWhole`), `NothingHalf` (`NothingHalfIsLeft`), `OneEnd` (`EndsOnce`), `FreshList` (`FreshWhenQuiet`) and
`NoneForgotten` (`NoneIsForgotten`), for any number of workers, requests, folders and items, and any sizes of files, chunks and answers.
The argument goes up in four levels:

1. *One transfer.*  What is asked for goes on where the copy ends, without a gap (`Chained`), and the copy is the
   file's blocks in order, unless the file grew after its end was told (`late`).  Taking an answer, a short one, an end or a failure keeps this;
   so do asking for more, starting over and closing, and a file is only closed as done when its copy is whole.
2. *One engine.*  A loop is a recursive function over its rounds.  A lemma shows that it exists and has the value
   its definition says, for this loop's own step; then what each round keeps holds at the end.  It is well-founded recursion at one named
   step, not induction over an operator.  `RunAll`, `RunCancel`, `FailRequests` and `FailTransfers` are shown to report each number they drop, once, and no other.
3. *Workers* (`Advances`): a pass, the end of the connection, the requests left refused and the end of the thread.
4. *Browser and session* (`Calls`, and the slots): requests, cancelling, and each report.

The parts of `IInv`: `Typed`; `SessionFits` (one main worker and one side worker at a time, as the session knows them); `Apart` (a number
is in one inbox, one engine or one report at most) and `ToldFits` (a transfer that was reported is nowhere any more), from which `EndsOnce` follows;
`ShownFits` (the browser has a transfer until it told of its end); `HalvesFit` (the transfer of a half file was not reported as
done, and one still in an engine is failed or cancelled); `NoneIsForgotten` itself; and `FreshFits`: unless the end of the main worker is on its way, what was reported as done in a folder (`due`)
and is not in the listing shown, or in one on its way, is in a report behind that listing, on which the browser lists anew.  A listing
includes all that was done before it, which is at least what was reported as done (`DueFits`); what an upload does as it goes adds to the one only (`TouchedFits`).

Only model-checked: liveness, which is out of the prover's reach (`Delivered`, `CatchesUp`, `EndsWhenAsked`, `LostIsRetried`, `StopEnds`,
`BackupEnds`).
`TypeOK` of SshSession, SftpFiles and Secrets states the types for their proofs and is in no run.

## 8. What is not modelled

Left out: encryption,
compression and the wire format (libraries and conversions whose result no property
depends on); libssh, libvterm and OpenSSL; painting, touch input, QML, colour
schemes, list models, QR codes (no order of events to get wrong, and pure functions);
`AppSettings` and the app lock (single values).  Putting an instruction together
from fragments and the choice of UDP ports depend on the wire format; the mosh modules take whole instructions
from a network that loses, repeats and reorders them.  The known hosts file, the typing predictions and the agent's parser are left out
for having little state that depends on an order, or none that the code in `src/` decides.

Within the modelled parts: the receiver leaves out resizes and the server's echo acknowledgments;
the sender round-trip estimation, as it only decides when something is due; the session the items at the end of its
part of section 3; the worker agent channels, the system probe, status lines, waiting for a name to be looked up, and what is in
known hosts; SFTP names, sizes, permissions, sorting and progress; Secrets the other fields of a host, certificates, reading a key out,
parsing, encryption, and lists that cannot be written.

Between the modules: `SshSession` has a worker as its signals show it, `SshWorker` one worker as its thread runs, with the
session only as what calls `stop()`, answers and writes; `SftpFiles` has both as far as files go.
