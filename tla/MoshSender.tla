----------------------------- MODULE MoshSender -----------------------------
(***************************************************************************)
(* The sending half of MoshClient (src/src/moshclient.cpp): the user's     *)
(* keys and resizes, the states they are numbered by, the packets that     *)
(* bring the server from one state to another, and the part of the journal *)
(* with which a restart of the app goes on.                                *)
(*                                                                         *)
(* The network loses, repeats and reorders packets.  The server is         *)
(* mosh-server, modelled from what the client relies on.  Timers are       *)
(* abstracted to choices: a tick may find a packet due or not, and the     *)
(* states it sent to be recent, and so taken for received, or not.         *)
(***************************************************************************)
EXTENDS Naturals, Sequences, FiniteSets, SequencesExt

CONSTANTS
  MaxTyped,         \* bound: inputs the user makes
  MaxStates,        \* bound: an empty packet takes no number above this; and no
                    \* session gets to the number Shutdown otherwise
  MaxStops,         \* bound: times the app ends with the session left running
  MaxInFlight,      \* bound: packets the network holds at a time
  MaxSentStates,    \* MaxSentStates, 32 in the code
  CullBack,         \* which state addSentState() culls, 16 from the end
  SeqBlock,         \* state numbers reserved at a time
  ShutdownRetries,  \* ShutdownRetries
  Shutdown,         \* the state number quint64(-1)
  KillInRewrite     \* whether the app is killed also between two records of
                    \* rewriteJournal()

ASSUME SenderAssumption ==
  /\ MaxTyped \in Nat /\ MaxStates \in Nat /\ MaxStops \in Nat
  /\ MaxInFlight \in Nat
  /\ CullBack \in Nat \ {0, 1} /\ MaxSentStates \in Nat /\ CullBack <= MaxSentStates
  /\ SeqBlock \in Nat \ {0} /\ ShutdownRetries \in Nat
  /\ Shutdown \in Nat \ {0}
  /\ KillInRewrite \in BOOLEAN

VARIABLES
  up,             \* a MoshClient drives the session
  events,         \* m_events: the inputs of each, and whether it is a resize
  eventBase,      \* m_eventBase
  sent,           \* m_sent: number and count of events, the front first
  stateReserved,  \* m_stateReserved
  stateFloor,     \* m_stateFloor
  shutdown,       \* m_shutdownInProgress
  tries,          \* m_shutdownTries
  finished,       \* m_finished
  disk,           \* the journal's M, F, B, E and T records
  stops,          \* times the app ended so far
  cut,            \* history: whether one of them was in rewriteJournal()
  typed,          \* history: inputs made, the n-th is the number n
  meant,          \* history: how much of the input each number stands for
  toServer,       \* instructions on the way to the server
  states,         \* the server's received states: the input in each
  acks            \* state numbers the server has acknowledged

client == <<events, eventBase, sent, stateReserved, stateFloor, shutdown, tries, finished>>
past == <<stops, cut>>
history == <<typed, meant>>
server == <<states, acks>>
vars == <<up, client, disk, past, history, toServer, server>>

Run(a, b) == [i \in 1 .. (b + 1) - a |-> (a + i) - 1]
NatMax(a, b) == IF a > b THEN a ELSE b

Event == [first : Nat, last : Nat, resize : BOOLEAN]
SentState == [num : Nat, events : Nat]
Instruction == [old : Nat, new : Nat, throwaway : Nat, diff : Seq(Nat)]

NoJournal == [reserved |-> 0, front |-> 0, base |-> 0, events |-> <<>>, sent |-> <<>>]

Journal == [reserved : Nat, front : Nat, base : Nat,
            events : Seq(Event), sent : Seq(SentState)]

TypeOK ==
  /\ up \in BOOLEAN /\ shutdown \in BOOLEAN /\ finished \in BOOLEAN
  /\ events \in Seq(Event) /\ eventBase \in Nat
  /\ sent \in Seq(SentState) /\ (up => sent # <<>>)
  /\ stateReserved \in Nat /\ stateFloor \in Nat
  /\ tries \in Nat /\ stops \in Nat /\ cut \in BOOLEAN /\ typed \in Nat
  /\ disk \in Journal
  /\ DOMAIN meant \subseteq Nat /\ \A n \in DOMAIN meant : meant[n] \in Nat
  /\ \A m \in toServer : m \in Instruction
  /\ DOMAIN states \subseteq Nat /\ \A n \in DOMAIN states : states[n] \in Seq(Nat)
  /\ acks \subseteq DOMAIN meant

LastSent == sent[Len(sent)]

\* Events made in all, as tick() counts them.
Total == eventBase + Len(events)

-----------------------------------------------------------------------------
(* The journal *)

\* Records written once finishMosh() has removed the file are gone with it.
Journaled(d) == IF shutdown THEN NoJournal ELSE d

\* rewriteJournal(): the state numbers it reserves.
Reserve(reserved, ss) == NatMax(reserved, ss[Len(ss)].num + SeqBlock)

\* rewriteJournal(): everything as it is in memory, with reserved numbers.
Snapshot(reserved, base, es, ss) ==
  [reserved |-> reserved, front |-> ss[1].num, base |-> base, events |-> es, sent |-> ss]

\* rewriteJournal(), cut: the numbers without the input, or with some of the
\* events, or with all of them and some of the sent states.
Cut(d) ==
  {[d EXCEPT !.base = 0, !.events = <<>>, !.sent = <<>>]}
    \cup {[d EXCEPT !.events = SubSeq(@, 1, n), !.sent = <<>>] : n \in 0 .. Len(d.events)}
    \cup {[d EXCEPT !.sent = SubSeq(@, 1, n)] : n \in 0 .. Len(d.sent)}

\* readJournal(): whether resume() has what it insists on.
Readable(d) == d.reserved > 0

From(ss, num) == CHOOSE i \in 1 .. Len(ss) + 1 :
                   /\ \A j \in 1 .. i - 1 : ss[j].num < num
                   /\ i <= Len(ss) => ss[i].num >= num

\* The states before a number go, from the front on.
DropBefore(ss, num) == SubSeq(ss, From(ss, num), Len(ss))

\* readJournal() and resume(): the states it starts from, the front first, and
\* made up when its record is missing.
RestoredSent(d) ==
  LET kept == DropBefore(d.sent, d.front)
  IN  IF kept = <<>> \/ kept[1].num # d.front
      THEN <<[num |-> d.front, events |-> d.base]>> \o kept
      ELSE kept

-----------------------------------------------------------------------------
(* What the user types *)

GrowAlways == events # <<>> /\ ~events[Len(events)].resize
\* write(): the last event has not been sent, so it can still grow.
CanGrow ==
  /\ events # <<>> /\ ~events[Len(events)].resize
  /\ Total > LastSent.events

Grown(es) == [es EXCEPT ![Len(es)].last = typed + 1]
Input(isResize) == [first |-> typed + 1, last |-> typed + 1, resize |-> isResize]

MayTypeAnytime == up /\ ~finished
MayType == up /\ ~shutdown

\* write() and resize(): the input goes into the events and the journal.
Type(isResize) ==
  /\ MayType /\ typed < MaxTyped
  /\ typed' = typed + 1
  /\ IF CanGrow /\ ~isResize
     THEN /\ events' = Grown(events)
          /\ disk' = Journaled([disk EXCEPT !.events = Grown(@)])
     ELSE /\ events' = Append(events, Input(isResize))
          /\ disk' = Journaled([disk EXCEPT !.events = Append(@, Input(isResize))])
  /\ UNCHANGED <<up, eventBase, sent, stateReserved, stateFloor, shutdown, tries,
                 finished, past, meant, toServer, server>>

-----------------------------------------------------------------------------
(* tick() *)

TrimmedToLast == NatMax(eventBase, LastSent.events)
\* calculateTimers(): events the server has are dropped.
TrimmedBase == NatMax(eventBase, sent[1].events)
Trimmed == SubSeq(events, (TrimmedBase - eventBase) + 1, Len(events))

AlwaysLast == {Len(sent)}
\* updateAssumedReceiverState(): the front, or the last when all since were
\* sent a moment ago, which states restored from the journal never were.
Assumable ==
  {1} \cup {i \in {Len(sent)} : \A j \in 2 .. i : sent[j].num >= stateFloor}

\* userDiff(): the input from an event on.
Diff(from) ==
  LET es == SubSeq(Trimmed, (NatMax(from, TrimmedBase) - TrimmedBase) + 1, Len(Trimmed))
  IN  IF es = <<>> THEN <<>> ELSE Run(es[1].first, es[Len(es)].last)

\* sendEmptyAck() and sendToReceiver(): the next number.
NewNum == IF shutdown THEN Shutdown ELSE NatMax(LastSent.num + 1, stateFloor)

\* addSentState(): a full queue loses one of its middle.
Cull(ss) ==
  IF Len(ss) > MaxSentStates THEN RemoveAt(ss, (Len(ss) - CullBack) + 1) ELSE ss

\* addSentState() of the input so far under a new number.
AddSentState(num) ==
  LET state   == [num |-> num, events |-> Total]
      renewed == num # Shutdown /\ num >= stateReserved
      rewrite == Snapshot(Reserve(stateReserved, sent), TrimmedBase, Trimmed, sent)
      journal == IF renewed THEN rewrite ELSE disk
  IN  /\ sent' = Cull(Append(sent, state))
      /\ stateReserved' = IF renewed THEN rewrite.reserved ELSE stateReserved
      /\ disk' = Journaled([journal EXCEPT !.sent = Append(@, state)])

\* The network takes the packet, and loses it or others, or none.
Send(m) ==
  toServer' \in {packets \in SUBSET (toServer \cup {m}) : Cardinality(packets) <= MaxInFlight}

ThrowAwayToLast == LastSent.num
\* sendInstruction(): the server may forget the states before this one.
ThrowAway == sent'[1].num

\* sendInstruction(): the changes from the state assumed, by its place in what
\* may have been culled since, to the state num.
SendInstruction(assumed, num, diff) ==
  /\ Send([old |-> sent'[assumed].num, new |-> num, throwaway |-> ThrowAway, diff |-> diff])
  /\ tries' = IF num = Shutdown THEN tries + 1 ELSE tries
  /\ meant' = [n \in DOMAIN meant \cup {num} |-> IF n = num THEN typed ELSE meant[n]]

\* sendEmptyAck(): a state of its own, although nothing changed.
SendEmptyAck(assumed) ==
  /\ Total = sent[assumed].events
  /\ (NewNum <= MaxStates /\ NewNum < Shutdown) \/ shutdown
  /\ AddSentState(NewNum)
  /\ SendInstruction(assumed, NewNum, <<>>)

\* sendToReceiver(): a new state, or the last one again.
SendToReceiver(assumed) ==
  LET again == Total = LastSent.events /\ (shutdown => LastSent.num = Shutdown)
      num == IF again THEN LastSent.num ELSE NewNum
  IN  /\ Total # sent[assumed].events
      /\ IF num = LastSent.num
         THEN UNCHANGED <<sent, stateReserved, disk>>
         ELSE (num < Shutdown \/ shutdown) /\ AddSentState(num)
      /\ SendInstruction(assumed, num, Diff(sent[assumed].events))

NothingDue == UNCHANGED <<sent, stateReserved, disk, toServer, tries, meant>>

\* tick(), with a choice of what is due and of whether the shutdown's time is up.
Tick ==
  /\ up /\ ~finished
  /\ eventBase' = TrimmedBase /\ events' = Trimmed
  /\ \/ \E assumed \in Assumable : SendEmptyAck(assumed) \/ SendToReceiver(assumed)
     \/ NothingDue
  /\ \E timeUp \in BOOLEAN :
       finished' = (shutdown /\ (\/ sent'[1].num = Shutdown
                                 \/ tries' >= ShutdownRetries
                                 \/ timeUp))
  /\ UNCHANGED <<up, stateFloor, shutdown, past, typed, server>>

-----------------------------------------------------------------------------
(* Acknowledgments, shutdown, rewrites of the journal *)

FrontUnrecorded(d, num) == d
\* processAcknowledgment(): the front a restart starts from is written down.
RecordFront(d, num) == [d EXCEPT !.front = num]

KeepAfter(num) == DropBefore(sent, num + 1)
\* The states before the one acknowledged go.
KeepFrom(num) == DropBefore(sent, num)

\* processAcknowledgment() of a number the server acknowledged at some time.
ProcessAcknowledgment(num) ==
  /\ up /\ ~finished
  /\ \E i \in 2 .. Len(sent) : sent[i].num = num
  /\ sent[1].num < num
  /\ sent' = KeepFrom(num)
  /\ disk' = Journaled(RecordFront(disk, num))
  /\ UNCHANGED <<up, events, eventBase, stateReserved, stateFloor, shutdown, tries,
                 finished, past, history, toServer, server>>

\* finishMosh() of a session that is not kept, then shutdown().
BeginShutdown ==
  /\ up /\ ~shutdown
  /\ shutdown' = TRUE
  /\ disk' = NoJournal
  /\ UNCHANGED <<up, events, eventBase, sent, stateReserved, stateFloor, tries, finished,
                 past, history, toServer, server>>

\* rewriteJournal() from throwAwayUntil(), setJournalNote() or sendPacket().
Rewrite ==
  /\ up /\ ~shutdown
  /\ stateReserved' = Reserve(stateReserved, sent)
  /\ disk' = Snapshot(stateReserved', eventBase, events, sent)
  /\ UNCHANGED <<up, events, eventBase, sent, stateFloor, shutdown, tries, finished,
                 past, history, toServer, server>>

-----------------------------------------------------------------------------
(* The app ends and starts again *)

Forget ==
  /\ up' = FALSE
  /\ events' = <<>> /\ eventBase' = 0 /\ sent' = <<>>
  /\ stateReserved' = 0 /\ stateFloor' = 0
  /\ shutdown' = FALSE /\ tries' = 0 /\ finished' = FALSE
  /\ stops' = stops + 1
  /\ UNCHANGED <<history, toServer, server>>

\* The app quits leaving the session running, or is killed.
Stop ==
  /\ up /\ ~finished /\ stops < MaxStops
  /\ Forget
  /\ UNCHANGED <<cut, disk>>

\* It is killed in rewriteJournal(), which writes record by record: early on
\* nothing can be resumed, later a part of the input can.
StopInRewrite ==
  /\ KillInRewrite
  /\ up /\ ~shutdown /\ stops < MaxStops
  /\ Forget /\ cut' = TRUE
  /\ disk' \in {NoJournal} \cup
       Cut(Snapshot(Reserve(stateReserved, sent), eventBase, events, sent))

FloorUnset(d) == 0
\* resume(): state numbers below the reservation may be in use.
FloorAfter(d) == d.reserved

\* resume(): reads the journal and writes it anew, then tells the screen's size.
Resume ==
  /\ ~up /\ Readable(disk)
  /\ up' = TRUE
  /\ typed' = typed + 1
  /\ eventBase' = disk.base
  /\ events' = Append(disk.events, Input(TRUE))
  /\ sent' = RestoredSent(disk)
  /\ stateFloor' = FloorAfter(disk)
  /\ stateReserved' = Reserve(disk.reserved, sent')
  /\ disk' = Snapshot(stateReserved', eventBase', events', sent')
  /\ UNCHANGED <<shutdown, tries, finished, past, meant, toServer, server>>

-----------------------------------------------------------------------------
(* The network and mosh-server *)

Newest(ss) == CHOOSE n \in DOMAIN ss : \A k \in DOMAIN ss : k <= n

\* The server takes changes from a state it has to one it has not, forgets what
\* it is told to, and acknowledges its newest.  The packet may come again.
Receive(m) ==
  /\ m.new \notin DOMAIN states /\ m.old \in DOMAIN states
  /\ states' = [n \in {k \in DOMAIN states : k >= m.throwaway} \cup {m.new} |->
                  IF n = m.new THEN states[m.old] \o m.diff ELSE states[n]]
  /\ acks' = acks \cup {Newest(states')}
  /\ UNCHANGED <<up, client, disk, past, history, toServer>>

-----------------------------------------------------------------------------
\* start(), resize() to the screen's size, and setJournal().
Init ==
  /\ up = TRUE
  /\ typed = 1
  /\ events = <<[first |-> 1, last |-> 1, resize |-> TRUE]>> /\ eventBase = 0
  /\ sent = <<[num |-> 0, events |-> 0]>>
  /\ stateReserved = SeqBlock /\ stateFloor = 0
  /\ shutdown = FALSE /\ tries = 0 /\ finished = FALSE
  /\ disk = Snapshot(SeqBlock, 0, events, sent)
  /\ stops = 0 /\ cut = FALSE
  /\ meant = [n \in {0} |-> 0]
  /\ toServer = {}
  /\ states = [n \in {0} |-> <<>>]
  /\ acks = {0}

Next ==
  \/ \E isResize \in BOOLEAN : Type(isResize)
  \/ Tick
  \/ \E num \in acks : ProcessAcknowledgment(num)
  \/ BeginShutdown \/ Rewrite
  \/ Stop \/ StopInRewrite \/ Resume
  \/ \E m \in toServer : Receive(m)

\* A tick that takes nothing for received: the states sent get old.
Retransmit ==
  /\ Tick
  /\ SendToReceiver(1)

\* The worker's loop keeps ticking, the app starts again when it has a session
\* to resume, and of the packets the server could use some arrive.
Fairness ==
  /\ WF_vars(Retransmit)
  /\ WF_vars(Resume)
  /\ SF_vars(\E m \in toServer : Receive(m))

Spec == Init /\ [][Next]_vars /\ Fairness

-----------------------------------------------------------------------------
(* Properties *)

\* What the input before an event amounts to, in a journal or in memory.
InputBefore(event, base, es) ==
  IF event < base + Len(es) THEN es[(event - base) + 1].first - 1 ELSE typed

\* Whether the server holds the front of ss with the input it stands for, and
\* everything after it is still in es.
HeldByServer(ss, base, es) ==
  /\ ss[1].num \in DOMAIN states
  /\ base <= ss[1].events /\ ss[1].events <= base + Len(es)
  /\ states[ss[1].num] = Run(1, InputBefore(ss[1].events, base, es))

\* Each of the server's states is the user's input up to some point: nothing
\* is left out, repeated or swapped by retransmissions, events that grow,
\* culled states, lost packets or restarts.
ServerInputIsTyped ==
  \A n \in DOMAIN states :
    Len(states[n]) <= typed /\ states[n] = Run(1, Len(states[n]))

\* The client can always bring the server forward: it never lets go of a state,
\* or of the input since it, before the server acknowledged a later one.
FrontHeld == up => HeldByServer(sent, eventBase, events)

\* So can the next start of the app, whenever this one ends.
RestartHeld == Readable(disk) => HeldByServer(RestoredSent(disk), disk.base, disk.events)

\* Once the server has agreed to the end of the session it has everything that
\* was typed (tick(), the front being the shutdown's state).
ShutdownDeliversAll ==
  up /\ finished /\ sent[1].num = Shutdown => states[Newest(states)] = Run(1, typed)

\* A state number never comes to stand for another input, also not after a
\* restart (moshclient.h: "the server takes a number it has as a state it has").
NumbersFresh == [][\A n \in DOMAIN meant : meant'[n] = meant[n]]_vars

\* What is typed gets to the server, unless the session is ended first or the
\* journal was cut.
Delivered ==
  \A n \in 1 .. MaxTyped :
    typed >= n ~> \/ Len(states[Newest(states)]) >= n
                  \/ shutdown
                  \/ ~up /\ ~Readable(disk)
                  \/ cut

\* What the user types is what the server's program gets, see MoshInput.
Contract == INSTANCE MoshInput WITH received <- states[Newest(states)]
Implements == Contract!Spec

\* The server's newest input only ever continues the one before (moshclient.h:
\* "the server takes its newest input as continuing the one it had, so a
\* restart has to go on with it").
InputContinues ==
  [][IsPrefix(states[Newest(states)], states'[Newest(states')])]_states
=============================================================================
