---------------------------- MODULE MoshReceiver ----------------------------
(***************************************************************************)
(* The receiving half of MoshClient (src/src/moshclient.cpp): the states   *)
(* of the server's screen, which come as changes from any state the server *)
(* thinks this side has, the way they get to the terminal, the lines that  *)
(* go into its scrollback, and the part of the journal a restart of the    *)
(* app shows the screen from.                                              *)
(*                                                                         *)
(* The program on the server prints lines 1, 2, 3, ..., so a screen is the *)
(* number of the lines printed, the last Height of which are on it.        *)
(* Changes from one screen to another scroll when the two have a line in   *)
(* common, and otherwise draw the screen anew.                             *)
(***************************************************************************)
EXTENDS Integers, Sequences, FiniteSets, Functions

CONSTANTS
  MaxNum,             \* bound: no state of the server's but the last is numbered above
  MaxStops,           \* bound: times the app ends with the session left running
  MaxInFlight,        \* bound: packets the network holds at a time
  MaxReceivedStates,  \* MaxReceivedStates, 64 in the code
  Height,             \* the terminal's lines
  NoParent,           \* quint64(-2)
  Shutdown,           \* the state number quint64(-1)
  KillInRewrite       \* whether the app is killed also between two records of
                      \* rewriteJournal()

ASSUME ReceiverAssumption ==
  /\ MaxNum \in Nat /\ MaxStops \in Nat /\ MaxInFlight \in Nat
  /\ MaxReceivedStates \in Nat /\ Height \in Nat \ {0}
  /\ NoParent \in Nat /\ Shutdown \in Nat /\ MaxNum < NoParent /\ NoParent < Shutdown
  /\ KillInRewrite \in BOOLEAN

VARIABLES
  up,           \* a MoshClient drives the session
  known,        \* m_states
  latest,       \* m_latest, which m_ackNum follows
  shownScroll,  \* m_shownScroll
  mirror,       \* m_mirror: the screen it is at
  output,       \* m_output, and what is on its way to the user's thread
  finished,     \* m_finished, the server having ended the session
  disk,         \* the journal's S and L records
  terminal,     \* the Terminal: its screen and its scrollback
  stops,        \* times the app ended so far
  cut,          \* history: whether one of them was in rewriteJournal()
  leapt,        \* history: whether a screen was drawn anew past lines nobody got
  truth,        \* history: the screen of each of the server's states
  held,         \* the states the server may send changes from
  toClient,     \* packets on the way to the app
  acks          \* acknowledgments the server has not heard or had no use for

client == <<up, known, latest, shownScroll, mirror, output, finished, disk, terminal>>
history == <<stops, cut, leapt>>
server == <<truth, held>>
vars == <<client, history, server, toClient, acks>>

\* mosh-server: its newest state, and the oldest it sends changes from.
Newest == CHOOSE n \in DOMAIN truth : \A k \in DOMAIN truth : k <= n
Oldest == CHOOSE n \in held : \A k \in held : n <= k

Screen == Nat
\* Changes to a screen they were not made for draw something else.
Garbled == -1

ReceivedState == [parent : Nat, from : Screen, to : Screen, scroll : Nat]
Packet == [old : Nat, new : Nat, from : Screen, to : Screen, throwaway : Nat]
Output == [replace : BOOLEAN, screen : Screen, from : Screen, to : Screen, skip : Nat]

States(s) == DOMAIN s \subseteq Nat /\ \A n \in DOMAIN s : s[n] \in ReceivedState

TypeOK ==
  /\ up \in BOOLEAN /\ finished \in BOOLEAN
  /\ cut \in BOOLEAN /\ leapt \in BOOLEAN
  /\ States(known) /\ States(disk.states)
  /\ latest \in Nat /\ disk.latest \in Nat
  /\ shownScroll \in Nat /\ stops \in Nat
  /\ mirror \in Screen /\ terminal.screen \in Screen
  /\ terminal.scrollback \in Seq(Nat)
  /\ output \in Seq(Output)
  /\ DOMAIN truth \subseteq Nat /\ \A n \in DOMAIN truth : truth[n] \in Screen
  /\ held # {} /\ held \subseteq DOMAIN truth /\ acks \subseteq DOMAIN truth
  /\ \A m \in toClient : m \in Packet

-----------------------------------------------------------------------------
(* Screens *)

\* Lines that are off the screen once k have been printed.
Top(k) == IF k > Height THEN k - Height ELSE 0

\* The lines changes scroll off a screen they were made for.
ScrolledOff(screen, change) ==
  IF screen = change.from /\ Top(change.to) < change.from
  THEN [i \in 1 .. Top(change.to) - Top(change.from) |-> Top(change.from) + i]
  ELSE <<>>

\* Changes that take more lines off a screen than they scroll.
Leaps(change) == Len(ScrolledOff(change.from, change)) < Top(change.to) - Top(change.from)

\* What changes make of a screen.
Draw(screen, change) == IF screen = change.from THEN change.to ELSE Garbled

\* stepsTo() and describeScreen(): the screen the steps to a state draw, a root
\* being drawn whole, and Garbled when a state on the way is gone.
ScreenAt(ss, num) ==
  LET drawn[n \in Nat] ==
        IF n \notin DOMAIN ss THEN Garbled
        ELSE IF ss[n].parent = NoParent THEN ss[n].to
        ELSE Draw(drawn[ss[n].parent], ss[n])
  IN  drawn[num]

Reached(ss, num) ==
  LET reached[n \in Nat] ==
        n \in DOMAIN ss /\ (ss[n].parent = NoParent \/ reached[ss[n].parent])
  IN  reached[num]

-----------------------------------------------------------------------------
(* The app receives *)

SkipNone(base) == 0
\* applyDiff(): lines the terminal got before it is put back to the base.
SkipLines(base) ==
  IF shownScroll > known[base].scroll THEN shownScroll - known[base].scroll ELSE 0

ReplaceNever(m) == FALSE
\* applyDiff(): the terminal is not at the state the changes are from.
Replaces(m) == m.old # latest

AppliesToLatest(m) == m.new > latest /\ m.old = latest
\* applyDiff(): states only go forward, from a state that is there.
Applies(m) ==
  /\ m.new > latest /\ m.new \notin DOMAIN known /\ m.old \in DOMAIN known
  /\ m.old # latest => Reached(known, m.old)

\* applyDiff(): the screen the changes are drawn on.
Start(m) == IF m.old = latest THEN mirror ELSE ScreenAt(known, m.old)

\* applyDiff(): the state a packet adds.
NewState(m) ==
  [parent |-> m.old, from |-> m.from, to |-> m.to,
   scroll |-> known[m.old].scroll + Len(ScrolledOff(Start(m), m))]

With(ss, num, state) == [n \in DOMAIN ss \cup {num} |-> IF n = num THEN state ELSE ss[n]]

RootedAnyway(ss, n, num) == TRUE
\* throwAwayUntil(): whether a state is reached from the states that stay.
ThroughKept(ss, n, num) ==
  LET stays[k \in Nat] ==
        /\ k \in DOMAIN ss /\ k >= num
        /\ ss[k].parent = NoParent \/ k = num \/ stays[ss[k].parent]
  IN  ss[n].parent = NoParent \/ stays[ss[n].parent]

ThrowAwayThrough(ss, num) ==
  [n \in {k \in DOMAIN ss : k > num} |-> [ss[n] EXCEPT !.to = ScreenAt(ss, n), !.parent = NoParent]]
\* throwAwayUntil(): the states from num on, those reached through what goes
\* drawn whole.
ThrowAwayUntil(ss, num) ==
  [n \in {k \in DOMAIN ss : k >= num /\ (Reached(ss, k) \/ (k # num /\ ThroughKept(ss, k, num)))} |->
     IF ThroughKept(ss, n, num) /\ n # num THEN ss[n]
     ELSE [ss[n] EXCEPT !.to = ScreenAt(ss, n), !.parent = NoParent]]

\* throwAwayUntil(): many states are there (or bytes, in fewer states).
Trims(ss, num) == num \in DOMAIN ss /\ Cardinality(DOMAIN ss) >= MaxReceivedStates

\* applyDiff() then throwAwayUntil(), and what they journal.
ReceiveInstruction(m) ==
  LET applied == IF Applies(m) THEN With(known, m.new, NewState(m)) ELSE known
      newest == IF Applies(m) THEN m.new ELSE latest
  IN  /\ known' = IF Trims(applied, m.throwaway)
                  THEN ThrowAwayUntil(applied, m.throwaway) ELSE applied
      /\ latest' = newest
      /\ disk' = [states |-> known', latest |-> newest]
      /\ IF Applies(m)
         THEN /\ mirror' = Draw(Start(m), m)
              /\ shownScroll' = IF NewState(m).scroll > shownScroll
                                THEN NewState(m).scroll ELSE shownScroll
              /\ output' = Append(output,
                   [replace |-> Replaces(m), screen |-> Start(m), from |-> m.from,
                    to |-> m.to, skip |-> SkipLines(m.old)])
         ELSE UNCHANGED <<mirror, shownScroll, output>>
      /\ leapt' = (leapt \/ (Applies(m) /\ Leaps(m)))

\* A packet may come again, late or not at all.
Receive(m) ==
  /\ up /\ ~finished
  /\ ReceiveInstruction(m)
  /\ UNCHANGED <<up, finished, terminal, stops, cut, server, toClient, acks>>

\* sendInstruction() in tick(): every packet acknowledges the newest state, and
\* having acknowledged the last one the app is done.
Acknowledge ==
  /\ up /\ ~finished
  /\ acks' = {num \in acks \cup {latest} : num > Oldest}
  /\ finished' = (latest = Shutdown)
  /\ UNCHANGED <<up, known, latest, shownScroll, mirror, output, disk, terminal,
                 history, server, toClient>>

\* takeOutput(), onMoshData(): the user's thread shows what came.
Show ==
  /\ output # <<>>
  /\ LET o == Head(output)
         start == IF o.replace THEN o.screen ELSE terminal.screen
         scrolled == ScrolledOff(start, o)
         new == SubSeq(scrolled, o.skip + 1, Len(scrolled))
     IN  /\ terminal' = [screen |-> Draw(start, o), scrollback |-> terminal.scrollback \o new]
  /\ output' = Tail(output)
  /\ UNCHANGED <<up, known, latest, shownScroll, mirror, finished, disk, history,
                 server, toClient, acks>>

-----------------------------------------------------------------------------
(* The app ends and starts again *)

\* readJournal() and resume(): whether there is a screen to start from.
Resumable(d) == Reached(d.states, d.latest)

\* With the app go its memory, its terminal and the output not shown yet.
Forget ==
  /\ up' = FALSE
  /\ known' = <<>> /\ latest' = 0 /\ shownScroll' = 0 /\ mirror' = 0 /\ output' = <<>>
  /\ terminal' = [screen |-> 0, scrollback |-> <<>>]
  /\ stops' = stops + 1
  /\ UNCHANGED <<finished, server, toClient, acks>>

CanStop == up /\ ~finished /\ stops < MaxStops

\* The app quits leaving the session running, or is killed.
Stop == CanStop /\ Forget /\ UNCHANGED <<disk, cut, leapt>>

\* It is killed in applyDiff() between the S and the L record.
StopInReceive(m) ==
  /\ CanStop /\ Applies(m)
  /\ Forget
  /\ disk' = [disk EXCEPT !.states = With(@, m.new, NewState(m))]
  /\ leapt' = (leapt \/ Leaps(m))
  /\ UNCHANGED cut

\* It is killed in rewriteJournal(): some of the states are written, and no L
\* record, which readJournal() takes for state 0.
StopInRewrite ==
  /\ KillInRewrite
  /\ CanStop /\ Forget /\ cut' = TRUE /\ UNCHANGED leapt
  /\ \E num \in {0} \cup {n + 1 : n \in DOMAIN known} :
       disk' = [states |-> Restrict(known, {n \in DOMAIN known : n < num}), latest |-> 0]

\* resume(): the terminal starts from the newest state's screen.
Resume ==
  /\ ~up /\ Resumable(disk)
  /\ up' = TRUE
  /\ known' = disk.states /\ latest' = disk.latest
  /\ shownScroll' = disk.states[disk.latest].scroll
  /\ mirror' = ScreenAt(disk.states, disk.latest)
  /\ output' = <<[replace |-> TRUE, screen |-> mirror', from |-> mirror', to |-> mirror', skip |-> 0]>>
  /\ UNCHANGED <<finished, disk, terminal, history, server, toClient, acks>>

-----------------------------------------------------------------------------
(* mosh-server *)

\* The network takes the packet, and loses it or others, or none.
Send(m) ==
  toClient' \in {packets \in SUBSET (toClient \cup {m}) : Cardinality(packets) <= MaxInFlight}

\* The program first fills the screen, and then prints one line at a time.
Printed == IF truth[Newest] = 0 THEN Height ELSE 1

\* The server sends its newest state again, or a new one for what the program
\* printed, with the changes from a state it assumes the app to have.  The last
\* one goes out when the program has ended.
ServerSend(assumed, num) ==
  /\ num = Newest => assumed # Newest
  /\ num = Newest + 1 => num <= MaxNum
  /\ truth' = IF num = Newest THEN truth ELSE With(truth, num, truth[Newest] + Printed)
  /\ held' = held \cup {num}
  /\ Send([old |-> assumed, new |-> num, from |-> truth[assumed], to |-> truth'[num],
           throwaway |-> Oldest])
  /\ UNCHANGED <<client, history, acks>>

\* An acknowledgment arrives, late or not, of a state the server still has.
ServerHear(num) ==
  /\ num \in held /\ Oldest < num
  /\ held' = {n \in held : n >= num}
  /\ acks' = {n \in acks : n > num}
  /\ UNCHANGED <<client, history, truth, toClient>>

-----------------------------------------------------------------------------
\* start(): the server's first screen is empty.
Init ==
  /\ up = TRUE /\ finished = FALSE
  /\ known = [n \in {0} |-> [parent |-> NoParent, from |-> 0, to |-> 0, scroll |-> 0]]
  /\ latest = 0 /\ shownScroll = 0 /\ mirror = 0 /\ output = <<>>
  /\ disk = [states |-> known, latest |-> 0]
  /\ terminal = [screen |-> 0, scrollback |-> <<>>]
  /\ stops = 0 /\ cut = FALSE /\ leapt = FALSE
  /\ truth = [n \in {0} |-> 0] /\ held = {0}
  /\ toClient = {} /\ acks = {}

Next ==
  \/ \E m \in toClient : Receive(m) \/ StopInReceive(m)
  \/ Acknowledge \/ Show
  \/ Stop \/ StopInRewrite \/ Resume
  \/ \E assumed \in held, num \in {Newest, Newest + 1, Shutdown} : ServerSend(assumed, num)
  \/ \E num \in acks : ServerHear(num)

\* The server sends its newest state from its oldest until it is acknowledged,
\* and not every such packet is lost.
Retransmit ==
  /\ ServerSend(Oldest, Newest)
  /\ \E m \in toClient' : m.old = Oldest /\ m.new = Newest

\* The app's threads run, it starts again when it has a session to resume, and of
\* the packets it could use some arrive.
Fairness ==
  /\ WF_vars(Acknowledge) /\ WF_vars(Show) /\ WF_vars(Resume)
  /\ WF_vars(Retransmit)
  /\ SF_vars(\E m \in toClient : Applies(m) /\ Receive(m))

Spec == Init /\ [][Next]_vars /\ Fairness

-----------------------------------------------------------------------------
(* Properties *)

\* The screen the terminal has once what is on its way is shown.
Drained ==
  LET drained[i \in 0 .. Len(output)] ==
        IF i = 0 THEN terminal.screen
        ELSE Draw(IF output[i].replace THEN output[i].screen ELSE drained[i - 1], output[i])
  IN  drained[Len(output)]

\* The terminal gets to the very screen the server had at the newest state,
\* whatever states the changes came from, were lost, thrown away or read back
\* from a journal, also one that was cut; and the mirror is at that screen too.
TerminalFollows == up => Drained = truth[latest] /\ mirror = truth[latest]

\* The state the server falls back to is always one the app can apply changes
\* to, in this life or, from the journal, in the next.
ServerFrontHeld ==
  ~cut => /\ up => Reached(known, Oldest)
          /\ ~finished => Reached(disk.states, Oldest)

\* What was acknowledged is there after a restart (moshclient.cpp, applyDiff():
\* "Acknowledged only once it would be there after a restart").
AckedSurvives ==
  ~cut => Resumable(disk) /\ \A num \in acks \cup {Oldest} : num <= disk.latest

\* No line comes twice or out of order, neither in the scrollback nor on the
\* screen below it, as long as every change scrolled what it took off a screen:
\* then the lines to skip are counted right from whatever base, also one that is
\* before what the terminal shows, in this life or the next.
LinesInOrder ==
  ~leapt =>
  LET shown == terminal.scrollback \o
               [i \in 1 .. terminal.screen - Top(terminal.screen) |-> Top(terminal.screen) + i]
  IN  \A i \in 1 .. Len(shown) - 1 : shown[i] < shown[i + 1]

\* The app was killed between the S and the L record of a state, so it has a state
\* it does not show, and drops it as known each time it comes again.
NewestUnshown == up /\ \E n \in DOMAIN known : n > latest

\* Again and again the terminal catches up with the program, and once it has ended
\* the session ends, unless the app was killed while it wrote the journal.
CatchesUp ==
  []<>(\/ terminal.screen = truth[Newest] /\ (Newest = Shutdown => finished)
       \/ cut \/ NewestUnshown)

\* Lines that are left out of the scrollback are in it already (moshclient.h,
\* Output: "Of the lines bytes scroll off, the first skipLines are in the
\* scrollback already, from the changes the screen started over from").
SkippedAreKept ==
  output # <<>> =>
    LET o == Head(output)
        scrolled == ScrolledOff(IF o.replace THEN o.screen ELSE terminal.screen, o)
    IN  \A i \in 1 .. Len(scrolled) : i <= o.skip => scrolled[i] \in Range(terminal.scrollback)
=============================================================================
