-------------------------- MODULE SshSessionProofs --------------------------
(***************************************************************************)
(* Proofs about SshSession: one connection at a time, a belief about SSH   *)
(* that is true or about to be, a side worker that is tried again, and a   *)
(* mosh session that is resumed with the key of its journal and outlives   *)
(* the app, whatever is queued and however late it is handled.             *)
(*                                                                         *)
(* The argument is about what can be queued: which signals a worker has    *)
(* sent by the phase it is in and what comes behind what, and where the    *)
(* key of the journal's mosh session is on its way into the vault.         *)
(***************************************************************************)
EXTENDS SshSession, FiniteSetTheorems, SequenceTheorems, TLAPS

---------------------------------------------------------------------------
(* What the two queues say *)

SideSignals == {"sideConnected", "sideFinished"}

Raised(queue) == {e.signal : e \in Range(queue)}

\* What cannot come behind a signal: a worker's last is that it finished, it
\* uses mosh before it is connected, and loses SSH only after.
NotBehind(signal) ==
    CASE signal = "finished" -> Signals \ SideSignals
      [] signal = "connected" -> {"mosh"}
      [] signal = "sshClosed" -> {"connected"}
      [] OTHER -> {}

InOrder(queue) ==
    \A i, j \in DOMAIN queue : i < j => queue[j].signal \notin NotBehind(queue[i].signal)

Asked(queue) == {r.request : r \in Range(queue)}

\* A request is made, and none of these kinds behind it.
LastOf(queue, r, kinds) ==
    \E i \in DOMAIN queue :
      queue[i] = r /\ \A j \in DOMAIN queue : i < j => queue[j].request \notin kinds

---------------------------------------------------------------------------
(* The inductive invariant *)

Guis == [state : {"Disconnected", "Connecting", "Connected"},
         vaulted : BOOLEAN, fetching : BOOLEAN, lost : BOOLEAN, reached : BOOLEAN,
         connectAfter : BOOLEAN, resuming : BOOLEAN, usesMosh : BOOLEAN, sshUp : BOOLEAN,
         reconnectDue : BOOLEAN, sideFetching : BOOLEAN, sideUp : BOOLEAN, retry : BOOLEAN]

Sides == [id : Nat, phase : SidePhases, gaveUp : BOOLEAN]

Threads == [phase : Phases, resume : Nat, mosh : Nat, ssh : BOOLEAN, answers : BOOLEAN,
            over : BOOLEAN, stop : BOOLEAN, keep : BOOLEAN]

Messages == [signal : Signals, of : Nat]
Asks == {r \in [request : Requests, of : Nat] : r.request = "remove" => r.of = 0}

Types ==
    /\ up \in BOOLEAN /\ gui \in Guis /\ side \in Sides /\ thread \in Threads
    /\ thread.phase = "none" => thread = NoThread
    /\ events \in Seq(Messages) /\ journal \in Nat /\ key \in Nat /\ vault \in Seq(Asks)
    /\ bounds \in [done : Nat, sessions : Nat]
    /\ history \in [ended : BOOLEAN, left : Nat, unkept : SUBSET Nat, aborted : BOOLEAN]

\* What a worker has sent at most.
Sent(phase) ==
    CASE phase = "loop" -> {"connected", "key", "mosh", "sshClosed"}
      [] phase = "ending" -> Signals \ (SideSignals \cup {"finished"})
      [] phase = "ended" -> Signals \ SideSignals
      [] OTHER -> {}

\* Signals are of the worker there is, whose phase says which they can be.
Signalled ==
    /\ InOrder(events)
    /\ Raised(events) \subseteq SideSignals \cup Sent(thread.phase)
    /\ \A e \in Range(events) : e.signal = "key" => e.of = thread.mosh
    /\ "sshClosed" \in Raised(events) => ~thread.ssh

\* The session and its worker agree on what is being connected.
InStep ==
    /\ (gui.state = "Disconnected") = (~Worker /\ ~gui.fetching)
    /\ Worker => ~gui.fetching /\ gui.resuming = (thread.resume # 0)
    /\ gui.fetching \/ thread.phase = "start" => gui.state = "Connecting"
    /\ gui.state = "Connected" => "mosh" \notin Raised(events)

\* A resumed session has no SSH, and one that lost it says so behind that it is connected.
SshTold ==
    /\ thread.resume # 0 => ~thread.ssh
    /\ thread.phase = "loop" /\ thread.resume = 0 /\ thread.mosh # 0 /\ ~thread.ssh
       /\ "connected" \in Raised(events) => "sshClosed" \in Raised(events)
    /\ thread.phase = "loop" /\ thread.mosh # 0 =>
         \/ gui.sshUp = thread.ssh
         \/ "connected" \in Raised(events) \/ "sshClosed" \in Raised(events)

\* A journal is of the mosh session of the worker there is, or of one to resume.
JournalOf ==
    /\ journal # 0 =>
         /\ Mosh /\ ~thread.keep /\ thread.phase # "ended"
         /\ thread.phase = "start" => thread.resume # 0
         /\ thread.phase \in {"loop", "ending"} => thread.mosh = journal
         /\ thread.phase = "none" => Asked(vault) \cap {"login", "create", "store"} = {}
    /\ thread.phase = "loop" /\ thread.mosh # 0 => journal = thread.mosh
    /\ thread.phase \in {"start", "loop"} => ~thread.over /\ ~thread.keep

\* The key of a mosh session is in the vault, or on its way there, with nothing behind
\* it that takes it out or puts another in its place, unless the session is to end.
KeyOf(id) ==
    LET removes == IF thread.stop THEN {} ELSE {"remove"}
    IN  \/ id \in history.unkept
        \/ Signal("key", id) \in Range(events)
        \/ LastOf(vault, Request("create", id), {"create"} \cup removes)
        \/ LastOf(vault, Request("store", id), {"store"} \cup removes) /\ "create" \notin Asked(vault)
        \/ /\ Asked(vault) \cap ({"create", "store"} \cup removes) = {}
           /\ key = id \/ (key = 0 /\ (~Worker \/ thread.stop))

\* What a session that was quit or killed left behind.
Left ==
    /\ gui = NoGui(gui.vaulted) /\ side = NoSide /\ events = <<>> /\ vault = <<>>
    /\ Worker => thread.stop
    /\ journal # 0 => Mosh /\ (key \in {0, journal} \/ journal \in history.unkept)
    /\ history.left # 0 =>
         /\ journal = history.left
         /\ key = history.left \/ history.left \in history.unkept
         /\ Worker => /\ thread.phase \notin {"none", "start"}
                      /\ thread.mosh = history.left /\ thread.keep /\ ~thread.over

IInv ==
    /\ Types /\ Signalled /\ ResumeKeyFits
    /\ up => InStep /\ SshTold /\ SideIsRetried /\ JournalOf /\ (journal # 0 => KeyOf(journal))
    /\ ~up => Left
---------------------------------------------------------------------------
(* Lemmas about the queues *)

\* A sequence and what is put behind it.
LEMMA Behind ==
  ASSUME NEW S, NEW queue \in Seq(S), NEW last \in S
  PROVE  LET more == Append(queue, last)
         IN  /\ more \in Seq(S) /\ Len(queue) \in Nat /\ DOMAIN queue = 1..Len(queue)
             /\ DOMAIN more = 1..Len(queue) + 1
             /\ \A i \in 1..Len(queue) : more[i] = queue[i]
             /\ more[Len(queue) + 1] = last
             /\ Range(more) = Range(queue) \cup {last}
<1> DEFINE more == Append(queue, last)
           m == Len(queue)
<1>1. /\ more \in Seq(S) /\ m \in Nat /\ DOMAIN queue = 1..m
      /\ Len(more) = m + 1 /\ DOMAIN more = 1..m + 1
      /\ \A i \in 1..m : more[i] = queue[i]
      /\ more[m + 1] = last
  BY AppendProperties, LenProperties
<1> HIDE DEF more, m
<1>2. Range(more) \subseteq Range(queue) \cup {last}
  <2>1. ASSUME NEW i \in DOMAIN more
        PROVE  more[i] \in Range(queue) \cup {last}
    <3>1. i \in 1..m \/ i = m + 1
      BY <1>1
    <3> QED
      BY <1>1, <3>1 DEF Range
  <2> QED
    BY <2>1 DEF Range
<1>3. Range(queue) \subseteq Range(more) /\ last \in Range(more)
  <2>1. \A i \in DOMAIN queue : i \in DOMAIN more /\ more[i] = queue[i]
    BY <1>1
  <2>2. m + 1 \in DOMAIN more
    BY <1>1
  <2> QED
    BY <1>1, <2>1, <2>2 DEF Range
<1> QED
  BY <1>1, <1>2, <1>3 DEF more, m

\* A sequence, its head and its tail.
LEMMA Ahead ==
  ASSUME NEW S, NEW queue \in Seq(S), queue # <<>>
  PROVE  LET head == Head(queue)
             tail == Tail(queue)
         IN  /\ head \in S /\ tail \in Seq(S) /\ 1 \in DOMAIN queue /\ queue[1] = head
             /\ \A i \in DOMAIN tail : i \in Nat /\ i > 0 /\ i + 1 \in DOMAIN queue /\ tail[i] = queue[i + 1]
             /\ \A i \in DOMAIN queue : i # 1 => i \in Nat /\ i > 1 /\ i - 1 \in DOMAIN tail /\ tail[i - 1] = queue[i]
             /\ Range(queue) = {head} \cup Range(tail)
<1> DEFINE head == Head(queue)
           tail == Tail(queue)
           m == Len(queue)
<1>1. /\ head \in S /\ tail \in Seq(S) /\ m \in Nat /\ m > 0
      /\ DOMAIN queue = 1..m /\ DOMAIN tail = 1..m - 1
      /\ head = queue[1] /\ \A i \in 1..m - 1 : tail[i] = queue[i + 1]
  BY HeadTailProperties, LenProperties, EmptySeq
<1> HIDE DEF head, tail, m
<1>2. 1 \in DOMAIN queue
  BY <1>1
<1>3. \A i \in DOMAIN tail : i \in Nat /\ i > 0 /\ i + 1 \in DOMAIN queue /\ tail[i] = queue[i + 1]
  BY <1>1
<1>4. \A i \in DOMAIN queue : i # 1 => i \in Nat /\ i > 1 /\ i - 1 \in DOMAIN tail /\ tail[i - 1] = queue[i]
  BY <1>1
<1>5. Range(queue) = {head} \cup Range(tail)
  <2>1. ASSUME NEW i \in DOMAIN queue
        PROVE  queue[i] \in {head} \cup Range(tail)
    BY <1>1, <1>4 DEF Range
  <2>2. \A i \in DOMAIN tail : tail[i] \in Range(queue)
    BY <1>3 DEF Range
  <2> QED
    BY <1>1, <1>2, <2>1, <2>2 DEF Range
<1> QED
  BY <1>1, <1>2, <1>3, <1>4, <1>5 DEF head, tail

\* One more signal on its way.
LEMMA Sending ==
  ASSUME NEW queue \in Seq(Messages), NEW last \in Messages
  PROVE  LET more == Append(queue, last)
         IN  /\ more \in Seq(Messages) /\ Range(more) = Range(queue) \cup {last}
             /\ Raised(more) = Raised(queue) \cup {last.signal}
             /\ InOrder(queue) /\ (\A s \in Raised(queue) : last.signal \notin NotBehind(s))
                => InOrder(more)
<1> DEFINE more == Append(queue, last)
           m == Len(queue)
<1>1. /\ more \in Seq(Messages) /\ m \in Nat /\ DOMAIN queue = 1..m /\ DOMAIN more = 1..m + 1
      /\ \A i \in 1..m : more[i] = queue[i]
      /\ more[m + 1] = last /\ Range(more) = Range(queue) \cup {last}
  BY Behind
<1> HIDE DEF more, m
<1>2. Raised(more) = Raised(queue) \cup {last.signal}
  BY <1>1 DEF Raised
<1>3. ASSUME InOrder(queue), \A s \in Raised(queue) : last.signal \notin NotBehind(s),
             NEW i \in DOMAIN more, NEW j \in DOMAIN more, i < j
      PROVE  more[j].signal \notin NotBehind(more[i].signal)
  <2>1. i \in 1..m /\ (j \in 1..m \/ j = m + 1)
    BY <1>1, <1>3
  <2>2. CASE j \in 1..m
    BY <1>1, <1>3, <2>1, <2>2 DEF InOrder
  <2>3. CASE j = m + 1
    <3>1. queue[i].signal \in Raised(queue)
      BY <1>1, <2>1 DEF Raised, Range
    <3> QED
      BY <1>1, <1>3, <2>1, <2>3, <3>1
  <2> QED
    BY <2>1, <2>2, <2>3
<1> QED
  BY <1>1, <1>2, <1>3 DEF more, InOrder

\* A signal delivered, and those behind it.
LEMMA Delivering ==
  ASSUME NEW queue \in Seq(Messages), queue # <<>>
  PROVE  LET head == Head(queue)
             tail == Tail(queue)
         IN  /\ head \in Messages /\ tail \in Seq(Messages)
             /\ Range(queue) = {head} \cup Range(tail)
             /\ Raised(queue) = {head.signal} \cup Raised(tail)
             /\ InOrder(queue) => /\ InOrder(tail)
                                  /\ \A s \in Raised(tail) : s \notin NotBehind(head.signal)
<1> DEFINE head == Head(queue)
           tail == Tail(queue)
<1>1. /\ head \in Messages /\ tail \in Seq(Messages) /\ 1 \in DOMAIN queue /\ queue[1] = head
      /\ \A i \in DOMAIN tail : i \in Nat /\ i > 0 /\ i + 1 \in DOMAIN queue /\ tail[i] = queue[i + 1]
      /\ Range(queue) = {head} \cup Range(tail)
  BY Ahead
<1> HIDE DEF head, tail
<1>2. Raised(queue) = {head.signal} \cup Raised(tail)
  BY <1>1 DEF Raised
<1>3. ASSUME InOrder(queue), NEW i \in DOMAIN tail, NEW j \in DOMAIN tail, i < j
      PROVE  tail[j].signal \notin NotBehind(tail[i].signal)
  <2>1. /\ i + 1 \in DOMAIN queue /\ j + 1 \in DOMAIN queue /\ i + 1 < j + 1
        /\ tail[i] = queue[i + 1] /\ tail[j] = queue[j + 1]
    BY <1>1, <1>3
  <2> QED
    BY <1>3, <2>1 DEF InOrder
<1>4. ASSUME InOrder(queue), NEW i \in DOMAIN tail
      PROVE  tail[i].signal \notin NotBehind(head.signal)
  <2>1. 1 < i + 1 /\ i + 1 \in DOMAIN queue /\ tail[i] = queue[i + 1]
    BY <1>1
  <2> QED
    BY <1>1, <1>4, <2>1 DEF InOrder
<1>5. InOrder(queue) => InOrder(tail)
  BY <1>3 DEF InOrder
<1>6. InOrder(queue) => \A s \in Raised(tail) : s \notin NotBehind(head.signal)
  BY <1>4 DEF Raised, Range
<1> QED
  BY <1>1, <1>2, <1>5, <1>6 DEF head, tail

\* One more request to the vault.
LEMMA Asking ==
  ASSUME NEW queue \in Seq(Asks), NEW last \in Asks
  PROVE  LET more == Append(queue, last)
         IN  /\ more \in Seq(Asks) /\ Range(more) = Range(queue) \cup {last}
             /\ Asked(more) = Asked(queue) \cup {last.request}
             /\ \A kinds : LastOf(more, last, kinds)
             /\ \A r, kinds : LastOf(queue, r, kinds) /\ last.request \notin kinds => LastOf(more, r, kinds)
<1> DEFINE more == Append(queue, last)
           m == Len(queue)
<1>1. /\ more \in Seq(Asks) /\ m \in Nat /\ DOMAIN queue = 1..m /\ DOMAIN more = 1..m + 1
      /\ \A i \in 1..m : more[i] = queue[i]
      /\ more[m + 1] = last /\ Range(more) = Range(queue) \cup {last}
  BY Behind
<1> HIDE DEF more, m
<1>2. Asked(more) = Asked(queue) \cup {last.request}
  BY <1>1 DEF Asked
<1>3. ASSUME NEW kinds
      PROVE  LastOf(more, last, kinds)
  <2>1. m + 1 \in DOMAIN more /\ \A j \in DOMAIN more : ~(m + 1 < j)
    BY <1>1
  <2> QED
    BY <1>1, <2>1 DEF LastOf
<1>4. ASSUME NEW r, NEW kinds, LastOf(queue, r, kinds), last.request \notin kinds
      PROVE  LastOf(more, r, kinds)
  <2>1. PICK i \in DOMAIN queue : queue[i] = r /\ \A j \in DOMAIN queue : i < j => queue[j].request \notin kinds
    BY <1>4 DEF LastOf
  <2>2. i \in DOMAIN more /\ more[i] = r
    BY <1>1, <2>1
  <2>3. ASSUME NEW j \in DOMAIN more, i < j
        PROVE  more[j].request \notin kinds
    <3>1. j \in 1..m \/ j = m + 1
      BY <1>1
    <3> QED
      BY <1>1, <1>4, <2>1, <2>3, <3>1
  <2> QED
    BY <2>2, <2>3 DEF LastOf
<1> QED
  BY <1>1, <1>2, <1>3, <1>4 DEF more

\* A request answered, and those behind it.
LEMMA Answering ==
  ASSUME NEW queue \in Seq(Asks), queue # <<>>
  PROVE  LET head == Head(queue)
             tail == Tail(queue)
         IN  /\ head \in Asks /\ tail \in Seq(Asks)
             /\ Range(queue) = {head} \cup Range(tail)
             /\ Asked(queue) = {head.request} \cup Asked(tail)
             /\ \A r, kinds : LastOf(queue, r, kinds) =>
                  LastOf(tail, r, kinds) \/ (head = r /\ Asked(tail) \cap kinds = {})
<1> DEFINE head == Head(queue)
           tail == Tail(queue)
<1>1. /\ head \in Asks /\ tail \in Seq(Asks) /\ 1 \in DOMAIN queue /\ queue[1] = head
      /\ \A i \in DOMAIN tail : i \in Nat /\ i > 0 /\ i + 1 \in DOMAIN queue /\ tail[i] = queue[i + 1]
      /\ \A i \in DOMAIN queue : i # 1 => i \in Nat /\ i > 1 /\ i - 1 \in DOMAIN tail /\ tail[i - 1] = queue[i]
      /\ Range(queue) = {head} \cup Range(tail)
  BY Ahead
<1> HIDE DEF head, tail
<1>2. Asked(queue) = {head.request} \cup Asked(tail)
  BY <1>1 DEF Asked
<1>3. ASSUME NEW r, NEW kinds, LastOf(queue, r, kinds)
      PROVE  LastOf(tail, r, kinds) \/ (head = r /\ Asked(tail) \cap kinds = {})
  <2>1. PICK i \in DOMAIN queue : queue[i] = r /\ \A j \in DOMAIN queue : i < j => queue[j].request \notin kinds
    BY <1>3 DEF LastOf
  <2>2. CASE i = 1
    <3>1. ASSUME NEW j \in DOMAIN tail
          PROVE  tail[j].request \notin kinds
      <4>1. 1 < j + 1 /\ j + 1 \in DOMAIN queue /\ tail[j] = queue[j + 1]
        BY <1>1
      <4> QED
        BY <2>1, <2>2, <4>1
    <3> QED
      BY <1>1, <2>1, <2>2, <3>1 DEF Asked, Range
  <2>3. CASE i # 1
    <3>1. i \in Nat /\ i - 1 \in DOMAIN tail /\ tail[i - 1] = r
      BY <1>1, <2>1, <2>3
    <3>2. ASSUME NEW j \in DOMAIN tail, i - 1 < j
          PROVE  tail[j].request \notin kinds
      <4>1. i < j + 1 /\ j + 1 \in DOMAIN queue /\ tail[j] = queue[j + 1]
        BY <1>1, <3>1, <3>2
      <4> QED
        BY <2>1, <4>1
    <3> QED
      BY <3>1, <3>2 DEF LastOf
  <2> QED
    BY <2>2, <2>3
<1> QED
  BY <1>1, <1>2, <1>3 DEF head, tail

\* Nothing is said by a queue that is empty.
LEMMA Silence ==
  /\ Range(<<>>) = {} /\ Raised(<<>>) = {} /\ Asked(<<>>) = {} /\ InOrder(<<>>)
  /\ \A r, kinds : ~LastOf(<<>>, r, kinds)
  /\ <<>> \in Seq(Messages) /\ <<>> \in Seq(Asks)
BY DEF Range, Raised, Asked, InOrder, LastOf

\* Signals posted together are posted one after the other.
LEMMA Together ==
  ASSUME NEW S, NEW queue \in Seq(S), NEW a \in S, NEW b \in S, NEW c \in S
  PROVE  /\ queue \o <<>> = queue
         /\ queue \o <<a>> = Append(queue, a)
         /\ queue \o <<a, b>> = Append(Append(queue, a), b)
         /\ queue \o <<a, b, c>> = Append(Append(Append(queue, a), b), c)
OBVIOUS

\* Queued() looks for a signal on its way.
LEMMA QueuedIsRaised ==
  ASSUME Types
  PROVE  \A s : Queued(s) <=> s \in Raised(events)
<1>1. DOMAIN events = 1..Len(events)
  BY LenProperties DEF Types
<1> QED
  BY <1>1 DEF Queued, Raised, Range
---------------------------------------------------------------------------
(* Lemmas about what the actions share *)

\* What is on its way are signals.
LEMMA Received ==
  ASSUME Types
  PROVE  Range(events) \subseteq Messages /\ Raised(events) \subseteq Signals
<1>1. \A i \in DOMAIN events : events[i] \in Messages
  BY DEF Types
<1>2. Range(events) \subseteq Messages
  BY <1>1 DEF Range
<1> QED
  BY <1>2 DEF Raised, Messages

\* There is always an identity that no side worker's signals on their way have.
LEMMA Fresh ==
  ASSUME Types
  PROVE  FreshSide \in Nat \ {0} /\ NewSide \in Sides /\ NewSide.id # 0
<1> DEFINE n == Len(events)
           ofs == {events[i].of : i \in 1..n}
           of == [i \in 1..n |-> events[i].of]
           taken == ofs \cup {side.id}
<1>1. n \in Nat
  BY LenProperties DEF Types
<1>2. IsFiniteSet(1..n) /\ Cardinality(1..n) = n /\ IsFiniteSet(1..n + 2) /\ Cardinality(1..n + 2) = n + 2
  <2> HIDE DEF n
  <2>1. IsFiniteSet(1..n) /\ Cardinality(1..n) = n
    BY <1>1, FS_Interval
  <2>2. n + 2 \in Int /\ ~(1 > n + 2) /\ (n + 2) - 1 + 1 = n + 2
    BY <1>1
  <2>3. IsFiniteSet(1..n + 2) /\ Cardinality(1..n + 2) = IF 1 > n + 2 THEN 0 ELSE (n + 2) - 1 + 1
    <3> DEFINE most == n + 2
    <3> HIDE DEF most
    <3>1. most \in Int => IsFiniteSet(1..most) /\ Cardinality(1..most) = IF 1 > most THEN 0 ELSE most - 1 + 1
      BY FS_Interval
    <3> QED
      BY <2>2, <3>1 DEF most
  <2> QED
    BY <2>1, <2>2, <2>3
<1>3. of \in Surjection(1..n, ofs)
  <2>1. of \in [1..n -> ofs] /\ \A t \in ofs : \E i \in 1..n : of[i] = t
    OBVIOUS
  <2> QED
    BY <2>1 DEF Surjection
<1>4. IsFiniteSet(ofs) /\ Cardinality(ofs) \in Nat /\ Cardinality(ofs) <= n
  BY <1>2, <1>3, FS_Surjection, FS_CardinalityType
<1>5. IsFiniteSet(taken) /\ Cardinality(taken) \in Nat /\ Cardinality(taken) <= n + 1
  <2> HIDE DEF n, ofs
  <2>1. IsFiniteSet(ofs \cup {side.id})
        /\ Cardinality(ofs \cup {side.id}) = IF side.id \in ofs THEN Cardinality(ofs) ELSE Cardinality(ofs) + 1
    BY <1>4, FS_AddElement
  <2> QED
    BY <1>1, <1>4, <2>1
<1>6. ~(1..n + 2 \subseteq taken)
  <2>1. SUFFICES ASSUME 1..n + 2 \subseteq taken
                 PROVE  FALSE
    OBVIOUS
  <2>2. Cardinality(1..n + 2) <= Cardinality(taken)
    BY <1>5, <2>1, FS_Subset
  <2> HIDE DEF n, taken
  <2> QED
    BY <1>1, <1>2, <1>5, <2>2
<1>7. \E m \in 1..n + 2 : m # side.id /\ \A i \in 1..n : events[i].of # m
  BY <1>6
<1>8. FreshSide \in 1..n + 2
  BY <1>7 DEF FreshSide
<1>9. FreshSide \in Nat \ {0}
  <2> HIDE DEF n
  <2> QED
    BY <1>1, <1>8
<1> QED
  BY <1>9 DEF NewSide, Sides, SidePhases

\* A connection that is begun, when no signal of an earlier worker is on its way: a
\* worker logs in when there is nothing to resume, or secrets are fetched first.
LEMMA Connecting ==
  ASSUME Types, NEW g \in Guis, NEW requests \in Seq(Asks),
         up' = TRUE, side' \in Sides, key' \in Nat, journal' \in Nat,
         bounds' \in [done : Nat, sessions : Nat],
         history' \in [ended : BOOLEAN, left : Nat, unkept : SUBSET Nat, aborted : BOOLEAN],
         events' \in Seq(Messages), InOrder(events'), Raised(events') \subseteq SideSignals,
         journal' # 0 => /\ Mosh /\ Asked(requests) \cap {"login", "create", "store"} = {}
                         /\ \/ journal' \in history'.unkept
                            \/ "remove" \notin Asked(requests) /\ key' \in {0, journal'},
         StartConnection(g, journal', requests)
  PROVE  IInv' /\ gui'.state = "Connecting"
<1>1. \A request \in Requests : Request(request, 0) \in Asks /\ Request(request, 0).request = request
  BY DEF Request, Asks
<1>2. NoThread \in Threads /\ NoThread.phase = "none"
  BY DEF NoThread, Threads, Phases
<1>3. CASE CanResume(journal') \/ g.vaulted
  <2> DEFINE request == IF CanResume(journal') THEN "resume" ELSE "login"
  <2>1. /\ gui' = [g EXCEPT !.state = "Connecting", !.fetching = TRUE]
        /\ vault' = Append(requests, Request(request, 0))
        /\ thread' = NoThread
    BY <1>3 DEF StartConnection
  <2>2. /\ vault' \in Seq(Asks) /\ Asked(vault') = Asked(requests) \cup {request}
    BY <1>1, <2>1, Asking DEF Requests
  <2>3. gui' \in Guis /\ gui'.state = "Connecting" /\ gui'.fetching
    BY <2>1 DEF Guis
  <2>4. Types'
    BY <1>2, <2>1, <2>2, <2>3 DEF Types
  <2>5. \A e \in Range(events') : e.signal \in SideSignals
    BY DEF Raised
  <2>6. Signalled'
    BY <1>2, <2>1, <2>5 DEF Signalled, SideSignals
  <2>7. InStep' /\ SshTold' /\ SideIsRetried' /\ ResumeKeyFits'
    BY <1>2, <2>1, <2>3 DEF InStep, SshTold, SideIsRetried, ResumeKeyFits, Worker, NoThread, SideSignals
  <2>8. JournalOf'
    BY <1>2, <2>1, <2>2 DEF JournalOf, NoThread, CanResume
  <2>9. ASSUME journal' # 0
        PROVE  KeyOf(journal)'
    BY <1>2, <2>1, <2>2, <2>9 DEF KeyOf, NoThread, Worker, CanResume
  <2> QED
    BY <2>3, <2>4, <2>6, <2>7, <2>8, <2>9 DEF IInv
<1>4. CASE ~(CanResume(journal') \/ g.vaulted)
  <2>1. /\ gui' = [g EXCEPT !.state = "Connecting", !.fetching = FALSE, !.reached = FALSE, !.resuming = FALSE]
        /\ thread' = [NoThread EXCEPT !.phase = "start", !.resume = 0]
        /\ vault' = requests
    BY <1>4 DEF StartConnection, StartWorker
  <2>2. thread' \in Threads /\ thread'.phase = "start" /\ thread'.resume = 0 /\ ~thread'.ssh /\ ~thread'.over /\ ~thread'.keep
    BY <2>1 DEF NoThread, Threads, Phases
  <2>3. gui' \in Guis /\ gui'.state = "Connecting" /\ ~gui'.fetching /\ ~gui'.resuming
    BY <2>1 DEF Guis
  <2>4. journal' = 0
    BY <1>4 DEF CanResume
  <2>5. Types'
    BY <2>1, <2>2, <2>3 DEF Types
  <2>6. \A e \in Range(events') : e.signal \in SideSignals
    BY DEF Raised
  <2>7. Signalled'
    BY <2>2, <2>6 DEF Signalled, SideSignals
  <2>8. InStep'
    <3>1. gui'.resuming = FALSE
      BY <2>1 DEF Guis
    <3> QED
      BY <2>2, <2>3, <3>1 DEF InStep, Worker
  <2>9. SshTold' /\ SideIsRetried' /\ ResumeKeyFits' /\ JournalOf'
    BY <2>2, <2>3, <2>4 DEF SshTold, SideIsRetried, ResumeKeyFits, JournalOf
  <2> QED
    BY <2>3, <2>4, <2>5, <2>7, <2>8, <2>9 DEF IInv
<1> QED
  BY <1>3, <1>4

\* A side worker that is started is there, or its secret is being fetched.
LEMMA SideStarting ==
  ASSUME Types, NEW g \in Guis, StartSide(g)
  PROVE  /\ gui' = [g EXCEPT !.sideFetching = g.vaulted] /\ gui' \in Guis /\ side' \in Sides
         /\ side'.id # 0 \/ gui'.sideFetching
         /\ \/ vault' = vault
            \/ vault' = Append(vault, Request("side", 0))
<1>1. gui' = [g EXCEPT !.sideFetching = g.vaulted] /\ gui' \in Guis
  BY DEF StartSide, Guis
<1>2. CASE g.vaulted
  <2>1. vault' = Append(vault, Request("side", 0)) /\ side' = NoSide
    BY <1>2 DEF StartSide
  <2>2. NoSide \in Sides
    BY DEF NoSide, Sides, SidePhases
  <2>3. gui'.sideFetching
    BY <1>1, <1>2 DEF Guis
  <2> QED
    BY <1>1, <2>1, <2>2, <2>3
<1>3. CASE ~g.vaulted
  BY <1>1, <1>3, Fresh DEF StartSide
<1> QED
  BY <1>1, <1>2, <1>3

\* The key stays in the vault, or on its way there, when nothing is asked of the
\* vault that touches it, or when the session is to end.
LEMMA KeyStays ==
  ASSUME Types, journal' = journal, KeyOf(journal),
         history.unkept \subseteq history'.unkept, key' = key, vault \in Seq(Asks),
         Range(events) \subseteq Range(events'),
         thread.stop => thread'.stop,
         Worker' => Worker \/ thread'.stop,
         ~Worker' => ~Worker \/ thread'.stop,
         \/ vault' = vault
         \/ \E r \in Asks : /\ vault' = Append(vault, r)
                            /\ r.request \notin {"create", "store"}
                            /\ r.request = "remove" => thread'.stop
  PROVE  KeyOf(journal)'
<1>0. PICK id \in Nat : id = journal /\ id = journal'
  BY DEF Types
<1> DEFINE before == IF thread.stop THEN {} ELSE {"remove"}
           after == IF thread'.stop THEN {} ELSE {"remove"}
<1>1. after \subseteq before
  OBVIOUS
<1>2. \A queue, r, kinds, fewer : fewer \subseteq kinds /\ LastOf(queue, r, kinds) => LastOf(queue, r, fewer)
  BY DEF LastOf
<1>3. PICK more : /\ more \subseteq {"resume", "login", "side"} \cup (IF thread'.stop THEN {"remove"} ELSE {})
                  /\ Asked(vault') = Asked(vault) \cup more
                  /\ \A r, kinds : LastOf(vault, r, kinds) /\ more \cap kinds = {} => LastOf(vault', r, kinds)
  <2>1. CASE vault' = vault
    <3> WITNESS {}
    <3> QED
      BY <2>1
  <2>2. ASSUME NEW r \in Asks, vault' = Append(vault, r), r.request \notin {"create", "store"},
               r.request = "remove" => thread'.stop
        PROVE  \E more : /\ more \subseteq {"resume", "login", "side"} \cup (IF thread'.stop THEN {"remove"} ELSE {})
                         /\ Asked(vault') = Asked(vault) \cup more
                         /\ \A q, kinds : LastOf(vault, q, kinds) /\ more \cap kinds = {} => LastOf(vault', q, kinds)
    <3>1. r.request \in {"resume", "login", "side", "remove"}
      BY <2>2 DEF Asks, Requests
    <3>2. Asked(vault') = Asked(vault) \cup {r.request}
      BY <2>2, Asking
    <3>3. ASSUME NEW q, NEW kinds, LastOf(vault, q, kinds), {r.request} \cap kinds = {}
          PROVE  LastOf(vault', q, kinds)
      BY <2>2, <3>3, Asking
    <3> QED
      BY <2>2, <3>1, <3>2, <3>3
  <2> QED
    BY <2>1, <2>2
<1>4. more \cap after = {}
  BY <1>3
<1>5. CASE id \in history.unkept
  BY <1>0, <1>5 DEF KeyOf
<1>6. CASE Signal("key", id) \in Range(events)
  BY <1>0, <1>6 DEF KeyOf
<1>7. CASE LastOf(vault, Request("create", id), {"create"} \cup before)
  <2>1. LastOf(vault, Request("create", id), {"create"} \cup after)
    BY <1>1, <1>2, <1>7
  <2>2. LastOf(vault', Request("create", id), {"create"} \cup after)
    BY <1>3, <1>4, <2>1
  <2> QED
    BY <1>0, <2>2 DEF KeyOf
<1>8. CASE LastOf(vault, Request("store", id), {"store"} \cup before) /\ "create" \notin Asked(vault)
  <2>1. LastOf(vault, Request("store", id), {"store"} \cup after)
    BY <1>1, <1>2, <1>8
  <2>2. LastOf(vault', Request("store", id), {"store"} \cup after)
    BY <1>3, <1>4, <2>1
  <2>3. "create" \notin Asked(vault')
    BY <1>3, <1>8
  <2> QED
    BY <1>0, <2>2, <2>3 DEF KeyOf
<1>9. CASE /\ Asked(vault) \cap ({"create", "store"} \cup before) = {}
           /\ key = id \/ (key = 0 /\ (~Worker \/ thread.stop))
  <2>1. Asked(vault') \cap ({"create", "store"} \cup after) = {}
    BY <1>3, <1>4, <1>9
  <2>2. key' = id \/ (key' = 0 /\ (~Worker' \/ thread'.stop))
    BY <1>9
  <2> QED
    BY <1>0, <2>1, <2>2 DEF KeyOf
<1> QED
  BY <1>0, <1>5, <1>6, <1>7, <1>8, <1>9 DEF KeyOf
\* Without a worker, the key of a mosh session to resume is in the vault, or lost.
LEMMA Unvaulted ==
  ASSUME Types, Signalled, JournalOf, journal # 0 => KeyOf(journal), thread.phase = "none", journal # 0
  PROVE  /\ Mosh /\ Asked(vault) \cap {"login", "create", "store"} = {}
         /\ \/ journal \in history.unkept
            \/ "remove" \notin Asked(vault) /\ key \in {0, journal}
<1>1. Mosh /\ Asked(vault) \cap {"login", "create", "store"} = {} /\ KeyOf(journal)
  BY DEF JournalOf
<1>2. Signal("key", journal) \notin Range(events)
  BY DEF Signalled, Sent, Raised, Signal, SideSignals
<1>3. \A id, kinds : /\ LastOf(vault, Request("create", id), kinds) => "create" \in Asked(vault)
                     /\ LastOf(vault, Request("store", id), kinds) => "store" \in Asked(vault)
  BY DEF LastOf, Asked, Range, Request
<1> QED
  BY <1>1, <1>2, <1>3 DEF KeyOf, Types, NoThread

\* What cannot be behind what.
LEMMA Orders ==
  ASSUME NEW s \in Signals, NEW t \in Signals, t \in NotBehind(s)
  PROVE  \/ s = "finished" /\ t \notin SideSignals
         \/ s = "connected" /\ t = "mosh"
         \/ s = "sshClosed" /\ t = "connected"
BY DEF NotBehind, Signals

\* A worker that is not done posts one more signal, if the session is there.
LEMMA Posting ==
  ASSUME Types, Signalled, thread.phase \in {"start", "loop", "ending"},
         NEW m \in Messages, m.signal \notin {"mosh", "connected"}, Post(<<m>>)
  PROVE  /\ events' \in Seq(Messages) /\ InOrder(events') /\ (~up => events' = events)
         /\ Range(events) \subseteq Range(events') /\ Range(events') \subseteq Range(events) \cup {m}
         /\ Raised(events') \subseteq Raised(events) \cup {m.signal}
         /\ up => Range(events') = Range(events) \cup {m} /\ Raised(events') = Raised(events) \cup {m.signal}
<1>1. events \in Seq(Messages) /\ InOrder(events)
  BY DEF Types, Signalled
<1>2. CASE ~up
  BY <1>1, <1>2 DEF Post
<1>3. CASE up
  <2>1. events' = Append(events, m)
    BY <1>1, <1>3, Together DEF Post
  <2>2. "finished" \notin Raised(events) /\ Raised(events) \subseteq Signals
    BY Received DEF Signalled, Sent, SideSignals
  <2>3. \A s \in Raised(events) : m.signal \notin NotBehind(s)
    BY <2>2, Orders DEF Messages
  <2> QED
    BY <1>1, <1>3, <2>1, <2>3, Sending
<1> QED
  BY <1>2, <1>3

\* What report() posts.
LEMMA FailurePosted ==
  ASSUME Types, Signalled, thread.phase \in {"start", "loop", "ending"},
         NEW network \in BOOLEAN, Post(Failed(network))
  PROVE  /\ events' \in Seq(Messages) /\ InOrder(events') /\ (~up => events' = events)
         /\ Range(events) \subseteq Range(events')
         /\ Raised(events') \subseteq Raised(events) \cup {"lost", "failed"}
         /\ \A e \in Range(events') : e \in Range(events) \/ e.signal \in {"lost", "failed"}
<1>1. CASE thread.stop
  <2>1. Post(<<>>)
    BY <1>1 DEF Failed
  <2>2. events' = events
    BY <2>1, Together DEF Post, Types
  <2> QED
    BY <2>2 DEF Types, Signalled
<1>2. CASE ~thread.stop
  <2> DEFINE m == Signal(IF network THEN "lost" ELSE "failed", 0)
  <2>1. Post(<<m>>)
    BY <1>2 DEF Failed
  <2>2. m \in Messages /\ m.signal \in {"lost", "failed"}
    BY DEF Signal, Messages, Signals
  <2> HIDE DEF m
  <2> QED
    BY <2>1, <2>2, Posting
<1> QED
  BY <1>1, <1>2

\* What the worker's thread does, once logged in or not, leaves the rest in place.
LEMMA Working ==
  ASSUME IInv, Worker, UNCHANGED <<up, gui, side, key, vault>>,
         events' \in Seq(Messages), Signalled', Range(events) \subseteq Range(events'), ~up => events' = events,
         thread' \in Threads, thread'.phase \notin {"none", "start"},
         thread'.stop = thread.stop, thread'.resume = thread.resume,
         journal' \in {0, journal}, bounds' \in [done : Nat, sessions : Nat],
         history' \in [ended : BOOLEAN, left : Nat, unkept : SUBSET Nat, aborted : BOOLEAN],
         history'.unkept = history.unkept, history'.left \in {0, history.left},
         up => SshTold' /\ JournalOf',
         "mosh" \in Raised(events') => "mosh" \in Raised(events),
         ~up /\ history'.left # 0 =>
           /\ journal' = journal /\ thread'.mosh = thread.mosh
           /\ thread'.keep = thread.keep /\ thread'.over = thread.over
  PROVE  IInv'
<1>1. Types /\ Signalled /\ ResumeKeyFits
  BY DEF IInv
<1>2. Types'
  BY <1>1 DEF Types
<1>3. ResumeKeyFits'
  BY DEF ResumeKeyFits
<1>4. CASE up
  <2>1. InStep /\ SideIsRetried /\ (journal # 0 => KeyOf(journal))
    BY <1>4 DEF IInv
  <2>2. InStep' /\ SideIsRetried'
    BY <2>1 DEF InStep, SideIsRetried, Worker
  <2>3. ASSUME journal' # 0
        PROVE  KeyOf(journal)'
    <3>1. journal' = journal /\ KeyOf(journal) /\ vault \in Seq(Asks) /\ Worker'
      BY <1>1, <2>1, <2>3 DEF Types, Worker
    <3> QED
      BY <1>1, <3>1, KeyStays
  <2> QED
    BY <1>2, <1>3, <1>4, <2>2, <2>3 DEF IInv
<1>5. CASE ~up
  <2>1. Left
    BY <1>5 DEF IInv
  <2>2. Left'
    BY <1>5, <2>1 DEF Left, Worker
  <2> QED
    BY <1>2, <1>3, <1>5, <2>2 DEF IInv
<1> QED
  BY <1>1, <1>4, <1>5 DEF Types

---------------------------------------------------------------------------
(* Each action keeps the invariant *)

LEMMA Connects ==
  ASSUME IInv, NEW vaulted \in BOOLEAN, Connect(vaulted)
  PROVE  IInv'
<1> DEFINE g == [gui EXCEPT !.vaulted = vaulted]
<1>1. Types /\ up /\ Signalled /\ InStep /\ JournalOf /\ (journal # 0 => KeyOf(journal))
  BY DEF IInv, Connect
<1>2. thread.phase = "none"
  BY <1>1 DEF Connect, InStep, Worker
<1>3. /\ up' = TRUE /\ side' \in Sides /\ key' \in Nat /\ journal' = journal /\ journal' \in Nat
      /\ bounds' \in [done : Nat, sessions : Nat]
      /\ history' \in [ended : BOOLEAN, left : Nat, unkept : SUBSET Nat, aborted : BOOLEAN]
      /\ history'.unkept = history.unkept
      /\ events' \in Seq(Messages) /\ vault \in Seq(Asks) /\ g \in Guis
  <2>1. g \in Guis
    BY <1>1 DEF Types, Guis
  <2>2. bounds' \in [done : Nat, sessions : Nat]
    BY <1>1 DEF Connect, Types
  <2> HIDE DEF g
  <2> QED
    BY <1>1, <2>1, <2>2 DEF Connect, Types
<1>4. InOrder(events') /\ Raised(events') \subseteq SideSignals
  BY <1>1, <1>2 DEF Connect, Signalled, Sent
<1>5. journal' # 0 => /\ Mosh /\ Asked(vault) \cap {"login", "create", "store"} = {}
                      /\ \/ journal' \in history'.unkept
                         \/ "remove" \notin Asked(vault) /\ key' \in {0, journal'}
  BY <1>1, <1>2, Unvaulted DEF Connect
<1>6. StartConnection(g, journal', vault)
  BY <1>3 DEF Connect
<1> QED
  BY <1>1, <1>3, <1>4, <1>5, <1>6, Connecting

LEMMA Disconnecting ==
  ASSUME IInv, Disconnect
  PROVE  IInv'
<1>1. /\ Types /\ up /\ Signalled /\ InStep /\ SshTold /\ JournalOf /\ SideIsRetried /\ ResumeKeyFits
      /\ (journal # 0 => KeyOf(journal))
  BY DEF IInv, Disconnect
<1> DEFINE r == Request("remove", 0)
<1>2. r \in Asks /\ r.request = "remove"
  BY DEF Request, Asks, Requests
<1>3. vault' \in Seq(Asks) /\ Asked(vault') = Asked(vault) \cup {"remove"} /\ vault' = Append(vault, r)
  BY <1>1, <1>2, Asking DEF Types, Disconnect
<1>4. /\ thread' \in Threads /\ thread'.phase = thread.phase /\ thread'.resume = thread.resume
      /\ thread'.mosh = thread.mosh /\ thread'.ssh = thread.ssh /\ thread'.over = thread.over
      /\ thread'.keep => thread.keep
      /\ thread.phase # "none" => thread'.stop
      /\ thread.phase = "none" => thread' = thread
  BY <1>1 DEF Disconnect, Stopped, Worker, Types, Threads
<1>5. /\ gui' \in Guis /\ ~gui'.fetching /\ gui'.resuming = gui.resuming /\ gui'.sshUp = gui.sshUp
      /\ gui'.usesMosh = gui.usesMosh /\ gui'.retry = gui.retry /\ gui'.sideFetching = gui.sideFetching
      /\ gui'.state = IF gui.fetching THEN "Disconnected" ELSE gui.state
  BY <1>1 DEF Disconnect, Types, Guis
<1>6. /\ history' \in [ended : BOOLEAN, left : Nat, unkept : SUBSET Nat, aborted : BOOLEAN]
      /\ history.unkept \subseteq history'.unkept
      /\ gui.fetching /\ journal # 0 => journal \in history'.unkept
  BY <1>1 DEF Disconnect, Types
<1>7. UNCHANGED <<up, side, events, journal, key>> /\ bounds' \in [done : Nat, sessions : Nat]
  <2>1. bounds' = [bounds EXCEPT !.done = @ + 1]
    BY DEF Disconnect
  <2>2. bounds' \in [done : Nat, sessions : Nat]
    BY <1>1, <2>1 DEF Types
  <2> QED
    BY <2>2 DEF Disconnect
<1>8. Types'
  BY <1>1, <1>3, <1>4, <1>5, <1>6, <1>7 DEF Types
<1>9. Signalled' /\ SshTold' /\ ResumeKeyFits'
  BY <1>1, <1>4, <1>5, <1>6, <1>7 DEF Signalled, SshTold, ResumeKeyFits
<1>10. gui.fetching <=> thread.phase = "none"
  BY <1>1 DEF InStep, Disconnect, Worker
<1>11. InStep'
  <2>1. CASE gui.fetching
    BY <1>1, <1>4, <1>5, <1>7, <1>10, <2>1 DEF InStep, Worker
  <2>2. CASE ~gui.fetching
    BY <1>1, <1>4, <1>5, <1>7, <1>10, <2>2 DEF InStep, Worker, Disconnect
  <2> QED
    BY <2>1, <2>2
<1>12. SideIsRetried'
  BY <1>1, <1>5, <1>7 DEF SideIsRetried
<1>13. JournalOf'
  BY <1>1, <1>3, <1>4, <1>7 DEF JournalOf
<1>14. ASSUME journal # 0
       PROVE  KeyOf(journal)'
  <2>1. CASE gui.fetching
    BY <1>6, <1>7, <1>14, <2>1 DEF KeyOf
  <2>2. CASE ~gui.fetching
    <3>1. thread'.stop /\ Worker /\ Worker'
      BY <1>4, <1>10, <2>2 DEF Worker
    <3>2. KeyOf(journal) /\ vault \in Seq(Asks)
      BY <1>1, <1>14 DEF Types
    <3> QED
      BY <1>1, <1>2, <1>3, <1>6, <1>7, <3>1, <3>2, KeyStays
  <2> QED
    BY <2>1, <2>2
<1> QED
  BY <1>1, <1>7, <1>8, <1>9, <1>11, <1>12, <1>13, <1>14 DEF IInv

LEMMA NetworkChanging ==
  ASSUME IInv, NEW hasAddress \in BOOLEAN, NEW online \in BOOLEAN, NetworkChanges(hasAddress, online)
  PROVE  IInv'
<1>1. /\ Types /\ up /\ Signalled /\ InStep /\ SshTold /\ JournalOf /\ SideIsRetried /\ ResumeKeyFits
      /\ (journal # 0 => KeyOf(journal))
  BY DEF IInv, NetworkChanges
<1>2. /\ UNCHANGED <<up, events, journal, key, history>> /\ bounds' \in [done : Nat, sessions : Nat]
  BY <1>1 DEF NetworkChanges, Types
<1>3. ASSUME gui.usesMosh, gui.state = "Connected", Worker, ~gui.sshUp, StartSide(WithoutSide(gui)), UNCHANGED thread
      PROVE  IInv'
  <2> DEFINE g == WithoutSide(gui)
  <2>1. /\ g \in Guis /\ g.state = gui.state /\ g.fetching = gui.fetching /\ g.resuming = gui.resuming
        /\ g.sshUp = gui.sshUp
    BY <1>1 DEF Types, Guis, WithoutSide
  <2> HIDE DEF g
  <2>2. /\ gui' = [g EXCEPT !.sideFetching = g.vaulted] /\ gui' \in Guis /\ side' \in Sides
        /\ side'.id # 0 \/ gui'.sideFetching
        /\ \/ vault' = vault
           \/ vault' = Append(vault, Request("side", 0))
    BY <1>1, <1>3, <2>1, SideStarting DEF g
  <2>3. Request("side", 0) \in Asks /\ Request("side", 0).request = "side"
    BY DEF Request, Asks, Requests
  <2>4. vault' \in Seq(Asks) /\ Asked(vault') \subseteq Asked(vault) \cup {"side"}
    BY <1>1, <2>2, <2>3, Asking, ZenonT(60) DEF Types
  <2>5. /\ gui'.state = gui.state /\ gui'.fetching = gui.fetching /\ gui'.resuming = gui.resuming
        /\ gui'.sshUp = gui.sshUp
    BY <2>1, <2>2 DEF Guis
  <2>6. Types'
    BY <1>1, <1>2, <1>3, <2>2, <2>4 DEF Types
  <2>7. Signalled' /\ InStep' /\ SshTold' /\ ResumeKeyFits'
    BY <1>1, <1>2, <1>3, <2>5 DEF Signalled, InStep, SshTold, ResumeKeyFits, Worker
  <2>8. SideIsRetried' /\ JournalOf'
    BY <1>1, <1>2, <1>3, <2>2, <2>4 DEF SideIsRetried, JournalOf
  <2>9. ASSUME journal # 0
        PROVE  KeyOf(journal)'
    <3>1. KeyOf(journal) /\ vault \in Seq(Asks) /\ Worker' = Worker
      BY <1>1, <1>3, <2>9 DEF Types, Worker
    <3>2. \/ vault' = vault
          \/ \E r \in Asks : /\ vault' = Append(vault, r)
                             /\ r.request \notin {"create", "store"}
                             /\ r.request = "remove" => thread'.stop
      BY <2>2, <2>3
    <3> QED
      BY <1>1, <1>2, <1>3, <3>1, <3>2, KeyStays
  <2> QED
    BY <1>1, <1>2, <2>6, <2>7, <2>8, <2>9 DEF IInv
<1>4. ASSUME gui.state = "Connected", Worker, gui' = [gui EXCEPT !.lost = Lost(gui, TRUE)],
             thread' = Stopped, UNCHANGED <<side, vault>>
      PROVE  IInv'
  <2>1. /\ thread' \in Threads /\ thread'.phase = thread.phase /\ thread'.resume = thread.resume
        /\ thread'.mosh = thread.mosh /\ thread'.ssh = thread.ssh /\ thread'.over = thread.over
        /\ thread'.stop /\ ~thread'.keep
    BY <1>1, <1>4 DEF Stopped, Types, Threads
  <2>2. /\ gui' \in Guis /\ gui'.fetching = gui.fetching /\ gui'.resuming = gui.resuming
        /\ gui'.sshUp = gui.sshUp /\ gui'.state = gui.state
        /\ gui'.usesMosh = gui.usesMosh /\ gui'.retry = gui.retry /\ gui'.sideFetching = gui.sideFetching
    <3> DEFINE lost == Lost(gui, TRUE)
    <3>1. lost \in BOOLEAN
      BY <1>1 DEF Lost, Types, Guis
    <3> HIDE DEF lost
    <3> QED
      BY <1>1, <1>4, <3>1 DEF Types, Guis, lost
  <2>3. Types'
    BY <1>1, <1>2, <1>4, <2>1, <2>2 DEF Types, Worker
  <2>4. Signalled' /\ InStep' /\ SshTold' /\ ResumeKeyFits'
    BY <1>1, <1>2, <2>1, <2>2 DEF Signalled, InStep, SshTold, ResumeKeyFits, Worker
  <2>5. SideIsRetried' /\ JournalOf'
    BY <1>1, <1>2, <1>4, <2>1, <2>2 DEF SideIsRetried, JournalOf
  <2>6. ASSUME journal # 0
        PROVE  KeyOf(journal)'
    <3>1. KeyOf(journal) /\ vault \in Seq(Asks) /\ Worker'
      BY <1>1, <1>4, <2>1, <2>6 DEF Types, Worker
    <3> QED
      BY <1>1, <1>2, <1>4, <2>1, <3>1, KeyStays
  <2> QED
    BY <1>1, <1>2, <2>3, <2>4, <2>5, <2>6 DEF IInv
<1>5. ASSUME gui.state = "Disconnected", StartConnection(gui, journal, vault), UNCHANGED side
      PROVE  IInv'
  <2>1. thread.phase = "none"
    BY <1>1, <1>5 DEF InStep, Worker
  <2>2. /\ up' = TRUE /\ side' \in Sides /\ key' \in Nat /\ journal' = journal /\ journal' \in Nat
        /\ history' \in [ended : BOOLEAN, left : Nat, unkept : SUBSET Nat, aborted : BOOLEAN]
        /\ events' \in Seq(Messages) /\ vault \in Seq(Asks) /\ gui \in Guis
    BY <1>1, <1>2, <1>5 DEF Types
  <2>3. InOrder(events') /\ Raised(events') \subseteq SideSignals
    BY <1>1, <1>2, <2>1 DEF Signalled, Sent
  <2>4. journal' # 0 => /\ Mosh /\ Asked(vault) \cap {"login", "create", "store"} = {}
                        /\ \/ journal' \in history'.unkept
                           \/ "remove" \notin Asked(vault) /\ key' \in {0, journal'}
    BY <1>1, <1>2, <2>1, Unvaulted
  <2>5. StartConnection(gui, journal', vault)
    BY <1>2, <1>5
  <2> QED
    BY <1>1, <1>2, <2>2, <2>3, <2>4, <2>5, Connecting
<1> QED
  BY <1>3, <1>4, <1>5 DEF NetworkChanges

LEMMA Reconnecting ==
  ASSUME IInv, Reconnect
  PROVE  IInv'
<1> DEFINE g == [gui EXCEPT !.reconnectDue = FALSE]
<1>1. /\ Types /\ up /\ Signalled /\ InStep /\ SshTold /\ JournalOf /\ SideIsRetried /\ ResumeKeyFits
      /\ (journal # 0 => KeyOf(journal))
  BY DEF IInv, Reconnect
<1>2. /\ g \in Guis /\ g.state = gui.state /\ g.fetching = gui.fetching /\ g.resuming = gui.resuming
      /\ g.sshUp = gui.sshUp /\ g.usesMosh = gui.usesMosh /\ g.sideFetching = gui.sideFetching
      /\ g.retry = gui.retry
  BY <1>1 DEF Types, Guis
<1> HIDE DEF g
<1>3. UNCHANGED <<up, side, events, journal, key, bounds, history>>
  BY DEF Reconnect
<1>4. CASE g.lost /\ g.state = "Disconnected"
  <2>1. thread.phase = "none"
    BY <1>1, <1>2, <1>4 DEF InStep, Worker
  <2>2. InOrder(events') /\ Raised(events') \subseteq SideSignals
    BY <1>1, <1>3, <2>1 DEF Signalled, Sent
  <2>3. journal' # 0 => /\ Mosh /\ Asked(vault) \cap {"login", "create", "store"} = {}
                        /\ \/ journal' \in history'.unkept
                           \/ "remove" \notin Asked(vault) /\ key' \in {0, journal'}
    BY <1>1, <1>3, <2>1, Unvaulted
  <2>4. StartConnection(g, journal', vault)
    BY <1>3, <1>4 DEF Reconnect, g
  <2>5. /\ up' = TRUE /\ side' \in Sides /\ key' \in Nat /\ journal' \in Nat
        /\ bounds' \in [done : Nat, sessions : Nat]
        /\ history' \in [ended : BOOLEAN, left : Nat, unkept : SUBSET Nat, aborted : BOOLEAN]
        /\ events' \in Seq(Messages) /\ vault \in Seq(Asks)
    BY <1>1, <1>3 DEF Types
  <2> QED
    BY <1>1, <1>2, <2>2, <2>3, <2>4, <2>5, Connecting
<1>5. CASE ~(g.lost /\ g.state = "Disconnected")
  <2>1. gui' = g /\ UNCHANGED <<thread, vault>>
    BY <1>5 DEF Reconnect, g
  <2>2. Types' /\ Signalled' /\ InStep' /\ SshTold' /\ ResumeKeyFits'
    BY <1>1, <1>2, <1>3, <2>1 DEF Types, Signalled, InStep, SshTold, ResumeKeyFits, Worker
  <2>3. SideIsRetried' /\ JournalOf' /\ (journal # 0 => KeyOf(journal))'
    BY <1>1, <1>2, <1>3, <2>1 DEF SideIsRetried, JournalOf, KeyOf, Worker
  <2> QED
    BY <1>1, <1>3, <2>2, <2>3 DEF IInv
<1> QED
  BY <1>4, <1>5

LEMMA SideRetrying ==
  ASSUME IInv, RetrySide
  PROVE  IInv'
<1> DEFINE g == [gui EXCEPT !.retry = FALSE]
<1>1. /\ Types /\ up /\ Signalled /\ InStep /\ SshTold /\ JournalOf /\ SideIsRetried /\ ResumeKeyFits
      /\ (journal # 0 => KeyOf(journal))
  BY DEF IInv, RetrySide
<1>2. /\ g \in Guis /\ g.state = gui.state /\ g.fetching = gui.fetching /\ g.resuming = gui.resuming
      /\ g.sshUp = gui.sshUp /\ g.usesMosh = gui.usesMosh /\ g.sideFetching = gui.sideFetching
  BY <1>1 DEF Types, Guis
<1> HIDE DEF g
<1>3. UNCHANGED <<up, thread, events, journal, key, bounds, history>>
  BY DEF RetrySide
<1>4. \/ CanStartSide(g) /\ StartSide(g)
      \/ ~CanStartSide(g) /\ gui' = g /\ UNCHANGED <<side, vault>>
  BY DEF RetrySide, g
<1>5. Request("side", 0) \in Asks /\ Request("side", 0).request = "side"
  BY DEF Request, Asks, Requests
<1>6. /\ gui' \in Guis /\ gui'.state = g.state /\ gui'.fetching = g.fetching /\ gui'.resuming = g.resuming
      /\ gui'.sshUp = g.sshUp /\ gui'.usesMosh = g.usesMosh
      /\ side' \in Sides
      /\ CanStartSide(g) => side'.id # 0 \/ gui'.sideFetching
      /\ ~CanStartSide(g) => gui' = g /\ side' = side
      /\ \/ vault' = vault
         \/ vault' = Append(vault, Request("side", 0))
  <2>1. CASE CanStartSide(g)
    <3>1. /\ gui' = [g EXCEPT !.sideFetching = g.vaulted] /\ gui' \in Guis /\ side' \in Sides
          /\ side'.id # 0 \/ gui'.sideFetching
          /\ \/ vault' = vault
             \/ vault' = Append(vault, Request("side", 0))
      BY <1>1, <1>2, <1>4, <2>1, SideStarting
    <3> QED
      BY <1>2, <2>1, <3>1 DEF Guis
  <2>2. CASE ~CanStartSide(g)
    BY <1>1, <1>2, <1>4, <2>2 DEF Types
  <2> QED
    BY <2>1, <2>2
<1>7. vault' \in Seq(Asks) /\ Asked(vault') \subseteq Asked(vault) \cup {"side"}
  BY <1>1, <1>5, <1>6, Asking, ZenonT(60) DEF Types
<1>8. Types'
  BY <1>1, <1>3, <1>6, <1>7 DEF Types
<1>9. Signalled' /\ InStep' /\ SshTold' /\ ResumeKeyFits'
  BY <1>1, <1>2, <1>3, <1>6 DEF Signalled, InStep, SshTold, ResumeKeyFits, Worker
<1>10. JournalOf'
  BY <1>1, <1>3, <1>7 DEF JournalOf
<1>11. SideIsRetried'
  <2>1. gui.state = "Connected" => Worker
    BY <1>1 DEF InStep
  <2>2. CASE CanStartSide(g)
    BY <1>6, <2>2 DEF SideIsRetried
  <2>3. CASE ~CanStartSide(g)
    BY <1>2, <1>6, <2>1, <2>3 DEF SideIsRetried, CanStartSide
  <2> QED
    BY <2>2, <2>3
<1>12. ASSUME journal # 0
       PROVE  KeyOf(journal)'
  <2>1. KeyOf(journal) /\ vault \in Seq(Asks) /\ Worker' = Worker
    BY <1>1, <1>3, <1>12 DEF Types, Worker
  <2>2. \/ vault' = vault
        \/ \E r \in Asks : /\ vault' = Append(vault, r)
                           /\ r.request \notin {"create", "store"}
                           /\ r.request = "remove" => thread'.stop
    BY <1>5, <1>6
  <2> QED
    BY <1>1, <1>3, <2>1, <2>2, KeyStays
<1> QED
  BY <1>1, <1>3, <1>8, <1>9, <1>10, <1>11, <1>12 DEF IInv

LEMMA SideConnecting ==
  ASSUME IInv, SideConnects \/ SideEnds
  PROVE  IInv'
<1>1. /\ Types /\ up /\ Signalled /\ InStep /\ SshTold /\ JournalOf /\ SideIsRetried /\ ResumeKeyFits
      /\ (journal # 0 => KeyOf(journal))
  BY DEF IInv, SideConnects, SideEnds
<1>2. PICK m \in Messages : events' = Append(events, m) /\ m.signal \in SideSignals
  <2>1. \A s \in SideSignals : Signal(s, side.id) \in Messages /\ Signal(s, side.id).signal = s
    BY <1>1 DEF SideSignals, Signal, Messages, Signals, Types, Sides
  <2> QED
    BY <2>1 DEF SideConnects, SideEnds, SideSignals
<1>3. side' \in Sides /\ side'.id = side.id /\ side'.gaveUp = side.gaveUp
  BY <1>1 DEF SideConnects, SideEnds, Types, Sides, SidePhases
<1>4. UNCHANGED <<up, gui, thread, journal, key, vault, bounds, history>>
  BY DEF SideConnects, SideEnds
<1>5. \A s \in Signals : NotBehind(s) \cap SideSignals = {}
  BY DEF NotBehind, SideSignals
<1>6. Raised(events) \subseteq Signals
  BY <1>1, Received
<1>7. \A s \in Raised(events) : m.signal \notin NotBehind(s)
  BY <1>2, <1>5, <1>6
<1>8. /\ events' \in Seq(Messages) /\ Range(events') = Range(events) \cup {m}
      /\ Raised(events') = Raised(events) \cup {m.signal} /\ InOrder(events')
  BY <1>1, <1>2, <1>7, Sending DEF Types, Signalled
<1>9. Types' /\ Signalled'
  BY <1>1, <1>2, <1>3, <1>4, <1>8 DEF Types, Signalled, SideSignals
<1>10. InStep' /\ SshTold' /\ ResumeKeyFits' /\ SideIsRetried' /\ JournalOf'
  BY <1>1, <1>2, <1>3, <1>4, <1>8 DEF InStep, SshTold, ResumeKeyFits, SideIsRetried, JournalOf, Worker, SideSignals
<1>11. journal # 0 => KeyOf(journal)'
  BY <1>1, <1>4, <1>8, KeyStays DEF Types, Worker
<1> QED
  BY <1>1, <1>4, <1>9, <1>10, <1>11 DEF IInv

LEMMA LoginFailing ==
  ASSUME IInv, NEW network \in BOOLEAN, LoginFails(network)
  PROVE  IInv'
<1>1. Types /\ Signalled /\ thread.phase = "start" /\ thread.resume = 0 /\ Worker
  BY DEF IInv, LoginFails, Worker
<1>2. /\ thread' \in Threads /\ thread'.phase = "ending" /\ thread'.stop = thread.stop
      /\ thread'.resume = thread.resume /\ thread'.mosh = thread.mosh /\ thread'.keep = thread.keep
      /\ thread'.over = thread.over /\ thread'.ssh = thread.ssh
  BY <1>1 DEF LoginFails, Ends, Types, Threads, Phases
<1>3. UNCHANGED <<up, gui, side, journal, key, vault, bounds, history>>
  BY DEF LoginFails
<1>4. /\ events' \in Seq(Messages) /\ InOrder(events') /\ (~up => events' = events)
      /\ Range(events) \subseteq Range(events')
      /\ Raised(events') \subseteq Raised(events) \cup {"lost", "failed"}
      /\ \A e \in Range(events') : e \in Range(events) \/ e.signal \in {"lost", "failed"}
  BY <1>1, FailurePosted DEF LoginFails
<1>5. Signalled'
  BY <1>1, <1>2, <1>4 DEF Signalled, Sent, SideSignals, Signals
<1>6. up => SshTold' /\ JournalOf'
  BY <1>1, <1>2, <1>3, <1>4 DEF IInv, SshTold, JournalOf
<1> QED
  BY <1>1, <1>2, <1>3, <1>4, <1>5, <1>6, Working DEF Types

LEMMA ResumeFailing ==
  ASSUME IInv, ResumeFails
  PROVE  IInv'
<1>1. Types /\ Signalled /\ thread.phase = "start" /\ thread.resume # 0 /\ Worker
  BY DEF IInv, ResumeFails, Worker
<1>2. /\ thread' \in Threads /\ thread'.phase = "ending" /\ thread'.stop = thread.stop
      /\ thread'.resume = thread.resume /\ thread'.mosh = thread.mosh /\ thread'.keep = thread.keep
      /\ thread'.over = thread.over /\ thread'.ssh = thread.ssh
  BY <1>1 DEF ResumeFails, Ends, Types, Threads, Phases
<1>3. UNCHANGED <<up, gui, side, key, vault, bounds, history>> /\ journal' = 0
  BY DEF ResumeFails
<1>4. /\ events' \in Seq(Messages) /\ InOrder(events') /\ (~up => events' = events)
      /\ Range(events) \subseteq Range(events')
      /\ Raised(events') \subseteq Raised(events) \cup {"failed", "gone"}
      /\ \A e \in Range(events') : e \in Range(events) \/ e.signal \in {"failed", "gone"}
  <2> DEFINE failed == Signal("failed", 0)
             gone == Signal("gone", 0)
  <2>1. events \in Seq(Messages) /\ InOrder(events)
    BY <1>1 DEF Types, Signalled
  <2>2. failed \in Messages /\ gone \in Messages /\ failed.signal = "failed" /\ gone.signal = "gone"
    BY DEF Signal, Messages, Signals
  <2>3. CASE ~up
    BY <2>1, <2>3 DEF ResumeFails, Post
  <2>4. ASSUME up, NEW queue \in Seq(Messages), InOrder(queue), Raised(queue) \subseteq Signals \ {"finished"},
               NEW m \in {failed, gone}
        PROVE  /\ Append(queue, m) \in Seq(Messages) /\ InOrder(Append(queue, m))
               /\ Range(Append(queue, m)) = Range(queue) \cup {m}
               /\ Raised(Append(queue, m)) = Raised(queue) \cup {m.signal}
    <3>1. \A s \in Raised(queue) : m.signal \notin NotBehind(s)
      BY <2>2, <2>4, Orders DEF Messages
    <3> QED
      BY <2>2, <2>4, <3>1, Sending
  <2>5. Raised(events) \subseteq Signals \ {"finished"}
    BY <1>1, Received DEF Signalled, Sent, SideSignals
  <2>6. CASE up /\ thread.stop
    <3>1. events' = Append(events, gone)
      <4>1. events' = events \o Append(<<>>, gone)
        BY <2>6 DEF ResumeFails, Post, Failed
      <4> HIDE DEF gone
      <4> QED
        BY <2>1, <2>2, <4>1
    <3> HIDE DEF gone, failed
    <3> QED
      BY <2>1, <2>2, <2>4, <2>5, <2>6, <3>1
  <2>7. CASE up /\ ~thread.stop
    <3> DEFINE first == Append(events, failed)
    <3>1. events' = Append(first, gone)
      <4>1. events' = events \o Append(<<failed>>, gone)
        BY <2>7 DEF ResumeFails, Post, Failed
      <4> HIDE DEF gone, failed
      <4> QED
        BY <2>1, <2>2, <4>1
    <3>2. /\ first \in Seq(Messages) /\ InOrder(first) /\ Range(first) = Range(events) \cup {failed}
          /\ Raised(first) = Raised(events) \cup {failed.signal}
      BY <2>1, <2>4, <2>5, <2>7
    <3>3. Raised(first) \subseteq Signals \ {"finished"}
      BY <2>2, <2>5, <3>2 DEF Signals
    <3> HIDE DEF gone, failed, first
    <3>4. /\ Append(first, gone) \in Seq(Messages) /\ InOrder(Append(first, gone))
          /\ Range(Append(first, gone)) = Range(first) \cup {gone}
          /\ Raised(Append(first, gone)) = Raised(first) \cup {gone.signal}
      BY <2>4, <2>7, <3>2, <3>3
    <3> QED
      BY <2>2, <2>7, <3>1, <3>2, <3>4
  <2> QED
    BY <1>1, <2>3, <2>6, <2>7 DEF Types, Threads
<1>5. Signalled'
  BY <1>1, <1>2, <1>4 DEF Signalled, Sent, SideSignals, Signals
<1>6. up => SshTold' /\ JournalOf'
  BY <1>1, <1>2, <1>3, <1>4 DEF IInv, SshTold, JournalOf
<1>7. ~up => history.left = 0
  BY <1>1 DEF IInv, Left
<1> QED
  BY <1>1, <1>2, <1>3, <1>4, <1>5, <1>6, <1>7, Working DEF Types

LEMMA SshBreaking ==
  ASSUME IInv, SshBreaks
  PROVE  IInv'
<1>1. Types /\ Signalled /\ thread.phase = "loop" /\ thread.ssh /\ Worker
  BY DEF IInv, SshBreaks, Worker
<1>2. UNCHANGED <<up, gui, side, journal, key, vault, bounds, history>>
  BY DEF SshBreaks
<1>3. CASE thread.mosh = 0
  <2>1. Ends([thread EXCEPT !.ssh = FALSE]) /\ Post(Failed(TRUE))
    BY <1>3 DEF SshBreaks
  <2>2. /\ thread' \in Threads /\ thread'.phase = "ending" /\ thread'.stop = thread.stop
        /\ thread'.resume = thread.resume /\ thread'.mosh = thread.mosh /\ thread'.keep = thread.keep
        /\ thread'.over = thread.over /\ thread'.ssh = FALSE
    BY <1>1, <2>1 DEF Ends, Types, Threads, Phases
  <2>3. /\ events' \in Seq(Messages) /\ InOrder(events') /\ (~up => events' = events)
        /\ Range(events) \subseteq Range(events')
        /\ Raised(events') \subseteq Raised(events) \cup {"lost", "failed"}
        /\ \A e \in Range(events') : e \in Range(events) \/ e.signal \in {"lost", "failed"}
    BY <1>1, <2>1, FailurePosted
  <2>4. Signalled'
    BY <1>1, <2>2, <2>3 DEF Signalled, Sent, SideSignals, Signals
  <2>5. up => SshTold' /\ JournalOf'
    BY <1>1, <1>2, <2>2, <2>3 DEF IInv, SshTold, JournalOf
  <2> QED
    BY <1>1, <1>2, <2>2, <2>3, <2>4, <2>5, Working DEF Types
<1>4. CASE thread.mosh # 0
  <2> DEFINE m == Signal("sshClosed", 0)
  <2>1. thread' = [thread EXCEPT !.ssh = FALSE] /\ Post(<<m>>)
    BY <1>4 DEF SshBreaks
  <2>2. /\ thread' \in Threads /\ thread'.phase = "loop" /\ thread'.stop = thread.stop
        /\ thread'.resume = thread.resume /\ thread'.mosh = thread.mosh /\ thread'.keep = thread.keep
        /\ thread'.over = thread.over /\ thread'.ssh = FALSE
    BY <1>1, <2>1 DEF Types, Threads
  <2>3. m \in Messages /\ m.signal = "sshClosed"
    BY DEF Signal, Messages, Signals
  <2> HIDE DEF m
  <2>4. /\ events' \in Seq(Messages) /\ InOrder(events') /\ (~up => events' = events)
        /\ Range(events) \subseteq Range(events') /\ Range(events') \subseteq Range(events) \cup {m}
        /\ Raised(events') \subseteq Raised(events) \cup {"sshClosed"}
        /\ up => Raised(events') = Raised(events) \cup {"sshClosed"}
    BY <1>1, <2>1, <2>3, Posting
  <2>5. Signalled'
    BY <1>1, <2>2, <2>3, <2>4 DEF Signalled, Sent, SideSignals, Signals
  <2>6. up => SshTold' /\ JournalOf'
    BY <1>1, <1>2, <1>4, <2>2, <2>4 DEF IInv, SshTold, JournalOf
  <2> QED
    BY <1>1, <1>2, <2>2, <2>4, <2>5, <2>6, Working DEF Types
<1> QED
  BY <1>3, <1>4

LEMMA ResumedBeingGone ==
  ASSUME IInv, ResumedIsGone
  PROVE  IInv'
<1> DEFINE m == Signal("gone", 0)
<1>1. Types /\ Signalled /\ thread.phase = "loop" /\ Worker
  BY DEF IInv, ResumedIsGone, Worker
<1>2. UNCHANGED <<up, gui, side, key, vault, bounds>> /\ journal' = 0 /\ Post(<<m>>)
  BY DEF ResumedIsGone
<1>3. /\ thread' \in Threads /\ thread'.phase = "ending" /\ thread'.stop = thread.stop
      /\ thread'.resume = thread.resume /\ thread'.mosh = thread.mosh
      /\ thread'.over = thread.over /\ thread'.ssh = thread.ssh
  BY <1>1 DEF ResumedIsGone, Ends, Types, Threads, Phases
<1>4. /\ history' \in [ended : BOOLEAN, left : Nat, unkept : SUBSET Nat, aborted : BOOLEAN]
      /\ history'.unkept = history.unkept /\ history'.left = 0
  BY <1>1 DEF ResumedIsGone, Types
<1>5. m \in Messages /\ m.signal = "gone"
  BY DEF Signal, Messages, Signals
<1> HIDE DEF m
<1>6. /\ events' \in Seq(Messages) /\ InOrder(events') /\ (~up => events' = events)
      /\ Range(events) \subseteq Range(events') /\ Range(events') \subseteq Range(events) \cup {m}
      /\ Raised(events') \subseteq Raised(events) \cup {"gone"}
  BY <1>1, <1>2, <1>5, Posting
<1>7. Signalled'
  BY <1>1, <1>3, <1>5, <1>6 DEF Signalled, Sent, SideSignals, Signals
<1>8. up => SshTold' /\ JournalOf'
  BY <1>1, <1>2, <1>3, <1>6 DEF IInv, SshTold, JournalOf
<1> QED
  BY <1>1, <1>2, <1>3, <1>4, <1>6, <1>7, <1>8, Working DEF Types

LEMMA ShellEnding ==
  ASSUME IInv, NEW error \in BOOLEAN, ShellEnds(error)
  PROVE  IInv'
<1>1. Types /\ Signalled /\ thread.phase = "loop" /\ Worker
  BY DEF IInv, ShellEnds, Worker
<1>2. UNCHANGED <<up, gui, side, journal, key, vault, bounds>>
  BY DEF ShellEnds
<1>3. /\ thread' \in Threads /\ thread'.phase = "ending" /\ thread'.stop = thread.stop
      /\ thread'.resume = thread.resume /\ thread'.mosh = thread.mosh /\ thread'.keep = thread.keep
      /\ thread'.ssh = thread.ssh
  BY <1>1 DEF ShellEnds, Ends, Types, Threads, Phases
<1>4. /\ history' \in [ended : BOOLEAN, left : Nat, unkept : SUBSET Nat, aborted : BOOLEAN]
      /\ history'.unkept = history.unkept /\ history'.left = 0
  BY <1>1 DEF ShellEnds, Types
<1>5. /\ events' \in Seq(Messages) /\ InOrder(events') /\ (~up => events' = events)
      /\ Range(events) \subseteq Range(events')
      /\ Raised(events') \subseteq Raised(events) \cup {"failed", "exited"}
      /\ \A e \in Range(events') : e \in Range(events) \/ e.signal \in {"failed", "exited"}
  <2>1. CASE ~error /\ thread.stop
    <3>1. Post(<<>>)
      BY <2>1 DEF ShellEnds
    <3>2. events' = events
      BY <1>1, <3>1, Together DEF Post, Types
    <3> QED
      BY <1>1, <3>2 DEF Types, Signalled
  <2>2. CASE error \/ ~thread.stop
    <3> DEFINE m == Signal(IF error THEN "failed" ELSE "exited", 0)
    <3>1. Post(<<m>>)
      BY <2>2 DEF ShellEnds
    <3>2. m \in Messages /\ m.signal \in {"failed", "exited"}
      BY DEF Signal, Messages, Signals
    <3> HIDE DEF m
    <3> QED
      BY <1>1, <3>1, <3>2, Posting
  <2> QED
    BY <2>1, <2>2
<1>6. Signalled'
  BY <1>1, <1>3, <1>5 DEF Signalled, Sent, SideSignals, Signals
<1>7. up => SshTold' /\ JournalOf'
  BY <1>1, <1>2, <1>3, <1>5 DEF IInv, SshTold, JournalOf
<1> QED
  BY <1>1, <1>2, <1>3, <1>4, <1>5, <1>6, <1>7, Working DEF Types

LEMMA LoopLeaving ==
  ASSUME IInv, LeaveLoop
  PROVE  IInv'
<1>1. Types /\ Signalled /\ thread.phase = "loop" /\ Worker
  BY DEF IInv, LeaveLoop, Worker
<1>2. UNCHANGED <<up, gui, side, events, journal, key, vault, bounds, history>>
  BY DEF LeaveLoop
<1>3. /\ thread' \in Threads /\ thread'.phase = "ending" /\ thread'.stop = thread.stop
      /\ thread'.resume = thread.resume /\ thread'.mosh = thread.mosh /\ thread'.keep = thread.keep
      /\ thread'.over = thread.over /\ thread'.ssh = thread.ssh
  BY <1>1 DEF LeaveLoop, Ends, Types, Threads, Phases
<1>4. Signalled'
  BY <1>1, <1>2, <1>3 DEF Signalled, Sent, SideSignals, Signals
<1>5. up => SshTold' /\ JournalOf'
  BY <1>1, <1>2, <1>3 DEF IInv, SshTold, JournalOf
<1> QED
  BY <1>1, <1>2, <1>3, <1>4, <1>5, Working DEF Types

LEMMA ThreadEnding ==
  ASSUME IInv, ThreadEnds
  PROVE  IInv'
<1> DEFINE m == Signal("finished", 0)
<1>1. Types /\ Signalled /\ thread.phase = "ending" /\ Worker
  BY DEF IInv, ThreadEnds, Worker
<1>2. /\ UNCHANGED <<up, gui, side, key, vault, bounds, history>> /\ Post(<<m>>)
      /\ journal' = IF thread.mosh # 0 /\ ~Keeps THEN 0 ELSE journal
  BY DEF ThreadEnds
<1>3. /\ thread' \in Threads /\ thread'.phase = "ended" /\ thread'.stop = thread.stop
      /\ thread'.resume = thread.resume /\ thread'.mosh = thread.mosh /\ thread'.keep = thread.keep
      /\ thread'.over = thread.over /\ thread'.ssh = FALSE
  BY <1>1 DEF ThreadEnds, Types, Threads, Phases
<1>4. m \in Messages /\ m.signal = "finished"
  BY DEF Signal, Messages, Signals
<1> HIDE DEF m
<1>5. /\ events' \in Seq(Messages) /\ InOrder(events') /\ (~up => events' = events)
      /\ Range(events) \subseteq Range(events') /\ Range(events') \subseteq Range(events) \cup {m}
      /\ Raised(events') \subseteq Raised(events) \cup {"finished"}
  BY <1>1, <1>2, <1>4, Posting
<1>6. Signalled'
  BY <1>1, <1>3, <1>4, <1>5 DEF Signalled, Sent, SideSignals, Signals
<1>7. up => SshTold' /\ JournalOf'
  BY <1>1, <1>2, <1>3, <1>5 DEF IInv, SshTold, JournalOf, Keeps
<1>8. journal' \in {0, journal} /\ (~up /\ history.left # 0 => journal' = journal)
  BY <1>1, <1>2 DEF IInv, Left, Keeps
<1> QED
  BY <1>1, <1>2, <1>3, <1>5, <1>6, <1>7, <1>8, Working DEF Types

\* What a worker that is connected posts, all of it at once.
LEMMA ConnectedPosted ==
  ASSUME Types, Signalled, up, thread.phase = "start", NEW id \in Nat,
         \/ events' = events \o <<Signal("key", id), Signal("mosh", 0), Signal("connected", 0)>>
         \/ events' = events \o <<Signal("mosh", 0), Signal("connected", 0)>>
         \/ events' = events \o <<Signal("connected", 0)>>
  PROVE  /\ events' \in Seq(Messages) /\ InOrder(events') /\ Range(events) \subseteq Range(events')
         /\ Raised(events') \subseteq SideSignals \cup {"key", "mosh", "connected"}
         /\ "connected" \in Raised(events')
         /\ \A e \in Range(events') : e.signal = "key" => e = Signal("key", id)
         /\ events' = events \o <<Signal("key", id), Signal("mosh", 0), Signal("connected", 0)>>
              => Signal("key", id) \in Range(events')
<1> DEFINE k == Signal("key", id)
           m == Signal("mosh", 0)
           c == Signal("connected", 0)
<1>1. /\ k \in Messages /\ m \in Messages /\ c \in Messages
      /\ k.signal = "key" /\ m.signal = "mosh" /\ c.signal = "connected"
  BY DEF Signal, Messages, Signals
<1>2. /\ events \in Seq(Messages) /\ InOrder(events) /\ Raised(events) \subseteq SideSignals
      /\ \A e \in Range(events) : e.signal # "key"
  BY DEF Types, Signalled, Sent, Raised, SideSignals
<1> HIDE DEF k, m, c
<1>3. ASSUME NEW queue \in Seq(Messages), InOrder(queue), NEW last \in {k, m, c},
             Raised(queue) \subseteq SideSignals \cup {"key", "mosh"}
      PROVE  /\ Append(queue, last) \in Seq(Messages) /\ InOrder(Append(queue, last))
             /\ Range(Append(queue, last)) = Range(queue) \cup {last}
             /\ Raised(Append(queue, last)) = Raised(queue) \cup {last.signal}
  <2>1. \A s \in Raised(queue) : last.signal \notin NotBehind(s)
    <3>1. \A s \in Raised(queue) : s \in Signals /\ s \notin {"finished", "connected", "sshClosed"}
      BY <1>3 DEF SideSignals, Signals
    <3> QED
      BY <1>1, <1>3, <3>1, Orders DEF Messages
  <2> QED
    BY <1>1, <1>3, <2>1, Sending
<1>4. CASE events' = events \o <<c>>
  <2>1. events' = Append(events, c)
    BY <1>1, <1>2, <1>4
  <2> QED
    BY <1>1, <1>2, <1>3, <2>1
<1>5. CASE events' = events \o <<m, c>>
  <2> DEFINE one == Append(events, m)
  <2>1. events' = Append(one, c)
    BY <1>1, <1>2, <1>5
  <2>2. /\ one \in Seq(Messages) /\ InOrder(one) /\ Range(one) = Range(events) \cup {m}
        /\ Raised(one) = Raised(events) \cup {"mosh"}
    BY <1>1, <1>2, <1>3
  <2> HIDE DEF one
  <2>3. /\ events' \in Seq(Messages) /\ InOrder(events') /\ Range(events') = Range(one) \cup {c}
        /\ Raised(events') = Raised(one) \cup {"connected"}
    BY <1>1, <1>2, <1>3, <2>1, <2>2
  <2>4. events' # events \o <<k, m, c>>
    <3>1. Len(events \o <<k, m, c>>) = Len(events) + 3 /\ Len(events \o <<m, c>>) = Len(events) + 2
      BY <1>1, <1>2
    <3>2. Len(events) \in Nat
      BY <1>2, LenProperties
    <3> QED
      BY <1>5, <3>1, <3>2
  <2> QED
    BY <1>1, <1>2, <2>2, <2>3, <2>4 DEF k, m, c
<1>6. CASE events' = events \o <<k, m, c>>
  <2> DEFINE one == Append(events, k)
             two == Append(one, m)
  <2>1. events' = Append(two, c)
    BY <1>1, <1>2, <1>6
  <2>2. /\ one \in Seq(Messages) /\ InOrder(one) /\ Range(one) = Range(events) \cup {k}
        /\ Raised(one) = Raised(events) \cup {"key"}
    BY <1>1, <1>2, <1>3
  <2> HIDE DEF one
  <2>3. /\ two \in Seq(Messages) /\ InOrder(two) /\ Range(two) = Range(one) \cup {m}
        /\ Raised(two) = Raised(one) \cup {"mosh"}
    BY <1>1, <1>2, <1>3, <2>2
  <2> HIDE DEF two
  <2>4. /\ events' \in Seq(Messages) /\ InOrder(events') /\ Range(events') = Range(two) \cup {c}
        /\ Raised(events') = Raised(two) \cup {"connected"}
    BY <1>1, <1>2, <1>3, <2>1, <2>2, <2>3
  <2> QED
    BY <1>1, <1>2, <2>2, <2>3, <2>4 DEF k
<1> QED
  BY <1>4, <1>5, <1>6 DEF k, m, c

LEMMA LoggingIn ==
  ASSUME IInv, NEW overMosh \in BOOLEAN, LoginSucceeds(overMosh)
  PROVE  IInv'
<1> DEFINE id == bounds.sessions + 1
           mosh == IF overMosh THEN id ELSE 0
<1>1. Types /\ Signalled /\ thread.phase = "start" /\ thread.resume = 0 /\ ~thread.stop /\ Worker
  BY DEF IInv, LoginSucceeds, Worker
<1>2. up
  BY <1>1 DEF IInv, Left, Types
<1>3. InStep /\ SideIsRetried /\ JournalOf /\ journal = 0 /\ gui.state = "Connecting"
  BY <1>1, <1>2 DEF IInv, JournalOf, InStep
<1>4. id \in Nat /\ id # 0 /\ mosh \in Nat
  BY <1>1 DEF Types
<1>5. thread' = [thread EXCEPT !.phase = "loop", !.ssh = TRUE, !.answers = TRUE, !.mosh = mosh]
  BY DEF LoginSucceeds
<1>6. /\ UNCHANGED <<up, gui, side, key, vault, history>>
      /\ journal' = mosh /\ (overMosh => Mosh)
  BY <1>3 DEF LoginSucceeds
<1>7. bounds' \in [done : Nat, sessions : Nat]
  <2>1. bounds' = [bounds EXCEPT !.sessions = id] \/ bounds' = bounds
    BY DEF LoginSucceeds
  <2> QED
    BY <1>1, <1>4, <2>1 DEF Types
<1>8. \/ overMosh /\ events' = events \o <<Signal("key", id), Signal("mosh", 0), Signal("connected", 0)>>
      \/ ~overMosh /\ events' = events \o <<Signal("connected", 0)>>
  BY <1>2 DEF LoginSucceeds, Post
<1> HIDE DEF id
<1>9. /\ events' \in Seq(Messages) /\ InOrder(events') /\ Range(events) \subseteq Range(events')
      /\ Raised(events') \subseteq SideSignals \cup {"key", "mosh", "connected"}
      /\ "connected" \in Raised(events')
      /\ \A e \in Range(events') : e.signal = "key" => e = Signal("key", id)
      /\ events' = events \o <<Signal("key", id), Signal("mosh", 0), Signal("connected", 0)>>
           => Signal("key", id) \in Range(events')
  BY <1>1, <1>2, <1>4, <1>8, ConnectedPosted
<1>10. overMosh => Signal("key", id) \in Range(events')
  BY <1>8, <1>9
<1>11. overMosh \/ \A e \in Range(events') : e.signal # "key"
  <2>1. ASSUME ~overMosh
        PROVE  \A e \in Range(events') : e.signal # "key"
    <3> DEFINE c == Signal("connected", 0)
    <3>1. c \in Messages /\ c.signal = "connected"
      BY DEF Signal, Messages, Signals
    <3> HIDE DEF c
    <3>2. events' = Append(events, c)
      BY <1>1, <1>8, <2>1, <3>1 DEF Types, c
    <3>3. Range(events') = Range(events) \cup {c}
      BY <1>1, <3>1, <3>2, Sending DEF Types
    <3>4. \A e \in Range(events) : e.signal # "key"
      BY <1>1 DEF Signalled, Sent, Raised, SideSignals
    <3> QED
      BY <3>1, <3>3, <3>4
  <2> QED
    BY <2>1
<1>12. /\ thread' \in Threads /\ thread'.phase = "loop" /\ thread'.resume = 0 /\ thread'.mosh = mosh
       /\ thread'.ssh = TRUE /\ ~thread'.stop /\ thread'.keep = thread.keep /\ thread'.over = thread.over
  BY <1>1, <1>4, <1>5 DEF Types, Threads, Phases
<1>13. ~thread.keep
  BY <1>1, <1>3 DEF JournalOf
<1>14. Types'
  BY <1>1, <1>4, <1>6, <1>7, <1>9, <1>12 DEF Types
<1>15. Signalled'
  <2>1. \A e \in Range(events') : e.signal = "key" => e.of = thread'.mosh
    BY <1>9, <1>11, <1>12 DEF Signal
  <2> QED
    BY <1>9, <1>12, <2>1 DEF Signalled, Sent, SideSignals
<1>16. InStep' /\ ResumeKeyFits' /\ SideIsRetried' /\ SshTold'
  BY <1>1, <1>3, <1>6, <1>9, <1>12 DEF InStep, ResumeKeyFits, SideIsRetried, SshTold, Worker
<1>17. JournalOf'
  BY <1>1, <1>3, <1>6, <1>12, <1>13 DEF JournalOf
<1>18. ASSUME journal' # 0
       PROVE  KeyOf(journal)'
  <2>1. overMosh /\ journal' = id
    BY <1>6, <1>18
  <2> QED
    BY <1>10, <2>1 DEF KeyOf
<1> QED
  BY <1>2, <1>6, <1>14, <1>15, <1>16, <1>17, <1>18 DEF IInv

LEMMA Resuming ==
  ASSUME IInv, NEW answers \in BOOLEAN, ResumeSucceeds(answers)
  PROVE  IInv'
<1>1. Types /\ Signalled /\ thread.phase = "start" /\ thread.resume # 0 /\ journal # 0 /\ Worker
  BY DEF IInv, ResumeSucceeds, Worker
<1>2. /\ thread' = [thread EXCEPT !.phase = "loop", !.mosh = journal, !.answers = answers]
      /\ UNCHANGED <<up, gui, side, journal, key, vault, bounds, history>>
  BY DEF ResumeSucceeds
<1>3. /\ thread' \in Threads /\ thread'.phase = "loop" /\ thread'.resume = thread.resume
      /\ thread'.mosh = journal /\ thread'.ssh = thread.ssh /\ thread'.stop = thread.stop
      /\ thread'.keep = thread.keep /\ thread'.over = thread.over
  BY <1>1, <1>2 DEF Types, Threads, Phases
<1>4. ResumeKeyFits'
  BY <1>3 DEF ResumeKeyFits
<1>5. CASE up
  <2>1. events' = events \o <<Signal("mosh", 0), Signal("connected", 0)>>
    BY <1>5 DEF ResumeSucceeds, Post
  <2>2. /\ events' \in Seq(Messages) /\ InOrder(events') /\ Range(events) \subseteq Range(events')
        /\ Raised(events') \subseteq SideSignals \cup {"key", "mosh", "connected"}
        /\ "connected" \in Raised(events')
    BY <1>1, <1>5, <2>1, ConnectedPosted DEF Types
  <2>3. \A e \in Range(events') : e.signal # "key"
    <3> DEFINE m == Signal("mosh", 0)
               c == Signal("connected", 0)
               one == Append(events, m)
    <3>1. /\ m \in Messages /\ m.signal = "mosh"
          /\ c \in Messages /\ c.signal = "connected"
      BY DEF Signal, Messages, Signals
    <3>2. events \in Seq(Messages) /\ one \in Seq(Messages) /\ events' = Append(one, c)
      BY <1>1, <2>1, <3>1 DEF Types
    <3>3. Range(one) = Range(events) \cup {m}
      BY <3>1, <3>2, Sending
    <3> HIDE DEF one, m, c
    <3>4. Range(events') = Range(one) \cup {c}
      BY <3>1, <3>2, Sending
    <3>5. \A e \in Range(events) : e.signal # "key"
      BY <1>1 DEF Signalled, Sent, Raised, SideSignals
    <3> QED
      BY <3>1, <3>3, <3>4, <3>5
  <2>4. InStep /\ SideIsRetried /\ SshTold /\ JournalOf /\ KeyOf(journal) /\ gui.state = "Connecting"
    BY <1>1, <1>5 DEF IInv, InStep
  <2>5. Types' /\ Signalled'
    BY <1>1, <1>2, <1>3, <2>2, <2>3 DEF Types, Signalled, Sent, SideSignals
  <2>6. InStep' /\ SideIsRetried' /\ SshTold' /\ JournalOf'
    BY <1>1, <1>2, <1>3, <2>2, <2>4 DEF InStep, SideIsRetried, SshTold, JournalOf, Worker
  <2>7. KeyOf(journal)'
    <3>1. Worker' /\ vault \in Seq(Asks)
      BY <1>1, <1>3 DEF Worker, Types
    <3> QED
      BY <1>1, <1>2, <1>3, <2>2, <2>4, <3>1, KeyStays
  <2> QED
    BY <1>2, <1>4, <1>5, <2>5, <2>6, <2>7 DEF IInv
<1>6. CASE ~up
  <2>1. events' = events /\ Left
    BY <1>6 DEF ResumeSucceeds, Post, IInv
  <2>2. events = <<>> /\ history.left = 0
    BY <1>1, <2>1 DEF Left
  <2>3. Types' /\ Signalled'
    BY <1>1, <1>2, <1>3, <2>1, <2>2, Silence DEF Types, Signalled
  <2>4. Left'
    BY <1>1, <1>2, <1>3, <2>1, <2>2 DEF Left, Worker
  <2> QED
    BY <1>2, <1>4, <1>6, <2>3, <2>4 DEF IInv
<1> QED
  BY <1>1, <1>5, <1>6 DEF Types

\* What is left on its way when a signal is delivered.
LEMMA Taking ==
  ASSUME Types, Signalled, NEW s, Take(s)
  PROVE  /\ up /\ s \in Raised(events) /\ Head(events) \in Range(events) /\ Head(events).signal = s
         /\ events' \in Seq(Messages) /\ InOrder(events')
         /\ Range(events') \subseteq Range(events)
         /\ Range(events) = {Head(events)} \cup Range(events')
         /\ Raised(events) = {s} \cup Raised(events')
         /\ \A t \in Raised(events') : t \notin NotBehind(s)
         /\ thread' = thread => Signalled'
<1>1. up /\ events # <<>> /\ Head(events).signal = s /\ events' = Tail(events)
  BY DEF Take
<1>2. events \in Seq(Messages) /\ InOrder(events)
  BY DEF Types, Signalled
<1>3. /\ events' \in Seq(Messages) /\ InOrder(events')
      /\ Range(events) = {Head(events)} \cup Range(events')
      /\ Raised(events) = {s} \cup Raised(events')
      /\ \A t \in Raised(events') : t \notin NotBehind(s)
  BY <1>1, <1>2, Delivering
<1>4. thread' = thread => Signalled'
  BY <1>3 DEF Signalled
<1> QED
  BY <1>1, <1>3, <1>4

\* A signal other than that of a key leaves the key on its way.
LEMMA KeyStaysQueued ==
  ASSUME Types, Signalled, KeyOf(journal), NEW s, s # "key", Take(s),
         UNCHANGED <<journal, key, thread, history>>, vault' = vault
  PROVE  KeyOf(journal)'
<1>1. /\ Head(events).signal = s /\ Range(events) = {Head(events)} \cup Range(events')
  BY Taking
<1>2. Signal("key", journal).signal = "key"
  BY DEF Signal
<1>3. Signal("key", journal) \in Range(events) => Signal("key", journal) \in Range(events')
  BY <1>1, <1>2
<1> QED
  BY <1>3 DEF KeyOf, Worker

\* A slot that changes the session's members only.
LEMMA Slotting ==
  ASSUME IInv, NEW s, s # "key", Take(s),
         UNCHANGED <<up, side, thread, journal, key, vault, bounds, history>>,
         gui' \in Guis, InStep', SshTold', SideIsRetried'
  PROVE  IInv'
<1>1. Types /\ Signalled /\ up
  BY DEF IInv, Take
<1>2. JournalOf /\ ResumeKeyFits /\ (journal # 0 => KeyOf(journal))
  BY <1>1 DEF IInv
<1>3. events' \in Seq(Messages) /\ Signalled'
  BY <1>1, Taking
<1>4. Types' /\ JournalOf' /\ ResumeKeyFits'
  BY <1>1, <1>2, <1>3 DEF Types, JournalOf, ResumeKeyFits
<1>5. journal # 0 => KeyOf(journal)'
  BY <1>1, <1>2, KeyStaysQueued
<1> QED
  BY <1>1, <1>3, <1>4, <1>5 DEF IInv

LEMMA BeingConnected ==
  ASSUME IInv, OnConnected
  PROVE  IInv'
<1>1. /\ Types /\ Signalled /\ up /\ InStep /\ SshTold /\ SideIsRetried /\ Take("connected")
  BY DEF IInv, OnConnected, Take
<1>2. UNCHANGED <<up, side, thread, journal, key, vault, bounds, history>>
  BY DEF OnConnected
<1>3. /\ Raised(events) = {"connected"} \cup Raised(events')
      /\ \A t \in Raised(events') : t \notin NotBehind("connected")
  BY <1>1, Taking
<1>4. "mosh" \notin Raised(events')
  BY <1>3 DEF NotBehind
<1>5. thread.phase \notin {"none", "start"}
  BY <1>1, <1>3 DEF Signalled, Sent, SideSignals
<1>6. /\ gui' \in Guis /\ gui'.state = "Connected" /\ gui'.fetching = gui.fetching
      /\ gui'.resuming = gui.resuming /\ gui'.sshUp = ~gui.resuming
      /\ gui'.retry = (gui.retry \/ gui.resuming)
      /\ gui'.usesMosh = gui.usesMosh /\ gui'.sideFetching = gui.sideFetching
  <2> DEFINE sshUp == SshUpFrom(gui)
             retry == gui.retry \/ gui.resuming
  <2>1. sshUp \in BOOLEAN /\ retry \in BOOLEAN /\ sshUp = ~gui.resuming
    BY <1>1 DEF SshUpFrom, Types, Guis
  <2>2. gui' = [gui EXCEPT !.state = "Connected", !.reached = TRUE, !.lost = FALSE, !.sshUp = sshUp, !.retry = retry]
    BY DEF OnConnected
  <2> HIDE DEF sshUp
  <2>3. retry = (gui.retry \/ gui.resuming)
    OBVIOUS
  <2> HIDE DEF retry
  <2>4. /\ gui' \in Guis /\ gui'.state = "Connected" /\ gui'.fetching = gui.fetching
        /\ gui'.resuming = gui.resuming /\ gui'.sshUp = sshUp /\ gui'.retry = retry
        /\ gui'.usesMosh = gui.usesMosh /\ gui'.sideFetching = gui.sideFetching
    BY <1>1, <2>1, <2>2, ZenonT(60) DEF Types, Guis
  <2> QED
    BY <2>1, <2>3, <2>4
<1>7. ~gui.fetching /\ gui.resuming = (thread.resume # 0)
  BY <1>1, <1>5 DEF InStep, Worker
<1>8. InStep'
  BY <1>2, <1>4, <1>5, <1>6, <1>7 DEF InStep, Worker
<1>9. SideIsRetried'
  BY <1>6 DEF SideIsRetried
<1>10. SshTold'
  <2>1. /\ thread.resume # 0 => ~thread.ssh
        /\ thread.phase = "loop" /\ thread.resume = 0 /\ thread.mosh # 0 /\ ~thread.ssh
             => "sshClosed" \in Raised(events')
    BY <1>1, <1>3 DEF SshTold
  <2>2. thread.ssh \in BOOLEAN
    BY <1>1 DEF Types, Threads
  <2>3. gui'.sshUp = (thread.resume = 0)
    BY <1>6, <1>7
  <2>4. thread.phase = "loop" /\ thread.mosh # 0 => gui'.sshUp = thread.ssh \/ "sshClosed" \in Raised(events')
    BY <2>1, <2>2, <2>3
  <2> QED
    BY <1>2, <1>3, <2>1, <2>4 DEF SshTold
<1> QED
  BY <1>1, <1>2, <1>6, <1>8, <1>9, <1>10, Slotting

LEMMA WorkerFailing ==
  ASSUME IInv, OnWorkerFailed
  PROVE  IInv'
<1>1. PICK s \in {"lost", "failed"}, network \in BOOLEAN :
        Take(s) /\ gui' = [gui EXCEPT !.lost = Lost(gui, network)]
  BY DEF OnWorkerFailed
<1>2. Types /\ Signalled /\ up /\ InStep /\ SshTold /\ SideIsRetried
  BY <1>1 DEF IInv, Take
<1>3. UNCHANGED <<up, side, thread, journal, key, vault, bounds, history>>
  BY DEF OnWorkerFailed
<1>4. Raised(events) = {s} \cup Raised(events')
  BY <1>1, <1>2, Taking
<1>5. /\ gui' \in Guis /\ gui'.state = gui.state /\ gui'.fetching = gui.fetching
      /\ gui'.resuming = gui.resuming /\ gui'.sshUp = gui.sshUp /\ gui'.retry = gui.retry
      /\ gui'.usesMosh = gui.usesMosh /\ gui'.sideFetching = gui.sideFetching
  <2> DEFINE lost == Lost(gui, network)
  <2>1. lost \in BOOLEAN
    BY <1>2 DEF Lost, Types, Guis
  <2> HIDE DEF lost
  <2> QED
    BY <1>1, <1>2, <2>1 DEF Types, Guis, lost
<1>6. InStep' /\ SideIsRetried' /\ SshTold'
  BY <1>1, <1>2, <1>3, <1>4, <1>5 DEF InStep, SideIsRetried, SshTold, Worker
<1> QED
  BY <1>1, <1>3, <1>5, <1>6, Slotting

LEMMA MoshBeingGone ==
  ASSUME IInv, OnMoshGone
  PROVE  IInv'
<1>1. Types /\ Signalled /\ up /\ InStep /\ SshTold /\ SideIsRetried /\ Take("gone")
  BY DEF IInv, OnMoshGone, Take
<1>2. UNCHANGED <<up, side, thread, journal, key, vault, bounds, history>>
  BY DEF OnMoshGone
<1>3. Raised(events) = {"gone"} \cup Raised(events')
  BY <1>1, Taking
<1>4. /\ gui' \in Guis /\ gui'.state = gui.state /\ gui'.fetching = gui.fetching
      /\ gui'.resuming = gui.resuming /\ gui'.sshUp = gui.sshUp /\ gui'.retry = gui.retry
      /\ gui'.usesMosh = gui.usesMosh /\ gui'.sideFetching = gui.sideFetching
  BY <1>1 DEF OnMoshGone, Types, Guis
<1>5. InStep' /\ SideIsRetried' /\ SshTold'
  BY <1>1, <1>2, <1>3, <1>4 DEF InStep, SideIsRetried, SshTold, Worker
<1> QED
  BY <1>1, <1>2, <1>4, <1>5, Slotting

LEMMA MoshStarting ==
  ASSUME IInv, OnMoshStarted
  PROVE  IInv'
<1>1. Types /\ Signalled /\ up /\ InStep /\ SshTold /\ SideIsRetried /\ Take("mosh")
  BY DEF IInv, OnMoshStarted, Take
<1>2. UNCHANGED <<up, side, thread, journal, key, vault, bounds, history>>
  BY DEF OnMoshStarted
<1>3. Raised(events) = {"mosh"} \cup Raised(events')
  BY <1>1, Taking
<1>4. /\ gui' \in Guis /\ gui'.state = gui.state /\ gui'.fetching = gui.fetching
      /\ gui'.resuming = gui.resuming /\ gui'.sshUp = gui.sshUp /\ gui'.retry = gui.retry
      /\ gui'.sideFetching = gui.sideFetching
  BY <1>1 DEF OnMoshStarted, Types, Guis
<1>5. gui.state # "Connected"
  BY <1>1, <1>3 DEF InStep
<1>6. InStep' /\ SideIsRetried' /\ SshTold'
  BY <1>1, <1>2, <1>3, <1>4, <1>5 DEF InStep, SideIsRetried, SshTold, Worker
<1> QED
  BY <1>1, <1>2, <1>4, <1>6, Slotting

LEMMA SshClosing ==
  ASSUME IInv, OnSshClosed
  PROVE  IInv'
<1>1. Types /\ Signalled /\ up /\ InStep /\ SshTold /\ SideIsRetried /\ Take("sshClosed")
  BY DEF IInv, OnSshClosed, Take
<1>2. UNCHANGED <<up, side, thread, journal, key, vault, bounds, history>>
  BY DEF OnSshClosed
<1>3. /\ Raised(events) = {"sshClosed"} \cup Raised(events')
      /\ \A t \in Raised(events') : t \notin NotBehind("sshClosed")
  BY <1>1, Taking
<1>4. /\ gui' \in Guis /\ gui'.state = gui.state /\ gui'.fetching = gui.fetching
      /\ gui'.resuming = gui.resuming /\ gui'.sshUp = FALSE /\ gui'.retry
      /\ gui'.usesMosh = gui.usesMosh /\ gui'.sideFetching = gui.sideFetching
  BY <1>1 DEF OnSshClosed, Types, Guis
<1>5. "connected" \notin Raised(events') /\ thread.ssh = FALSE
  BY <1>1, <1>3 DEF NotBehind, Signalled, Types, Threads
<1>6. InStep' /\ SideIsRetried'
  BY <1>1, <1>2, <1>3, <1>4 DEF InStep, SideIsRetried, Worker
<1>7. SshTold'
  BY <1>2, <1>4, <1>5 DEF SshTold
<1> QED
  BY <1>1, <1>2, <1>4, <1>6, <1>7, Slotting

LEMMA SideBeingConnected ==
  ASSUME IInv, OnSideConnected
  PROVE  IInv'
<1>1. Types /\ Signalled /\ up /\ InStep /\ SshTold /\ SideIsRetried /\ Take("sideConnected")
  BY DEF IInv, OnSideConnected, Take
<1>2. UNCHANGED <<up, side, thread, journal, key, vault, bounds, history>>
  BY DEF OnSideConnected
<1>3. Raised(events) = {"sideConnected"} \cup Raised(events')
  BY <1>1, Taking
<1>4. /\ gui' \in Guis /\ gui'.state = gui.state /\ gui'.fetching = gui.fetching
      /\ gui'.resuming = gui.resuming /\ gui'.sshUp = gui.sshUp /\ gui'.retry = gui.retry
      /\ gui'.usesMosh = gui.usesMosh /\ gui'.sideFetching = gui.sideFetching
  BY <1>1 DEF OnSideConnected, Types, Guis
<1>5. InStep' /\ SideIsRetried' /\ SshTold'
  BY <1>1, <1>2, <1>3, <1>4 DEF InStep, SideIsRetried, SshTold, Worker
<1> QED
  BY <1>1, <1>2, <1>4, <1>5, Slotting

LEMMA ShellExiting ==
  ASSUME IInv, OnShellExited
  PROVE  IInv'
<1>1. /\ Types /\ Signalled /\ up /\ InStep /\ SshTold /\ SideIsRetried /\ ResumeKeyFits /\ JournalOf
      /\ Take("exited")
  BY DEF IInv, OnShellExited, Take
<1>2. /\ UNCHANGED <<up, gui, side, thread, key, bounds, history>>
      /\ journal' = 0 /\ vault' = Append(vault, Request("remove", 0))
  BY DEF OnShellExited
<1>3. /\ Raised(events) = {"exited"} \cup Raised(events')
      /\ events' \in Seq(Messages) /\ Signalled'
  BY <1>1, <1>2, Taking
<1>4. Request("remove", 0) \in Asks
  BY DEF Request, Asks, Requests
<1>5. vault' \in Seq(Asks)
  BY <1>1, <1>2, <1>4, Asking DEF Types
<1>6. thread.phase # "loop"
  BY <1>1, <1>3 DEF Signalled, Sent, SideSignals
<1>7. Types' /\ ResumeKeyFits'
  BY <1>1, <1>2, <1>3, <1>5 DEF Types, ResumeKeyFits
<1>8. InStep' /\ SshTold' /\ SideIsRetried' /\ JournalOf'
  BY <1>1, <1>2, <1>3, <1>6 DEF InStep, SshTold, SideIsRetried, JournalOf, Worker
<1> QED
  BY <1>1, <1>2, <1>3, <1>7, <1>8 DEF IInv

LEMMA KeyBeingSent ==
  ASSUME IInv, OnMoshKey
  PROVE  IInv'
<1> DEFINE of == Head(events).of
           r == Request("create", of)
<1>1. /\ Types /\ Signalled /\ up /\ InStep /\ SshTold /\ SideIsRetried /\ ResumeKeyFits /\ JournalOf
      /\ (journal # 0 => KeyOf(journal)) /\ Take("key")
  BY DEF IInv, OnMoshKey, Take
<1>2. /\ UNCHANGED <<up, gui, side, thread, journal, key, bounds, history>>
      /\ vault' = Append(vault, r)
  BY DEF OnMoshKey
<1>3. /\ Raised(events) = {"key"} \cup Raised(events')
      /\ Head(events) \in Range(events) /\ Head(events).signal = "key"
      /\ events' \in Seq(Messages) /\ Signalled'
  BY <1>1, <1>2, Taking
<1>4. of = thread.mosh /\ of \in Nat
  BY <1>1, <1>3 DEF Signalled, Types, Threads
<1>5. r \in Asks /\ r.request = "create"
  BY <1>4 DEF Request, Asks, Requests
<1> HIDE DEF r
<1>6. vault' \in Seq(Asks) /\ Asked(vault') = Asked(vault) \cup {"create"}
  BY <1>1, <1>2, <1>5, Asking DEF Types
<1>7. thread.phase \in {"loop", "ending", "ended"}
  BY <1>1, <1>3 DEF Signalled, Sent, SideSignals, Types, Threads, Phases
<1>8. Types' /\ ResumeKeyFits'
  BY <1>1, <1>2, <1>3, <1>6 DEF Types, ResumeKeyFits
<1>9. InStep' /\ SshTold' /\ SideIsRetried' /\ JournalOf'
  BY <1>1, <1>2, <1>3, <1>7 DEF InStep, SshTold, SideIsRetried, JournalOf, Worker
<1>10. ASSUME journal' # 0
       PROVE  KeyOf(journal)'
  <2>1. of = journal'
    BY <1>1, <1>2, <1>4, <1>7, <1>10 DEF JournalOf
  <2>2. \A kinds : LastOf(vault', r, kinds)
    BY <1>1, <1>2, <1>5, Asking DEF Types
  <2> QED
    BY <2>1, <2>2 DEF KeyOf, r
<1> QED
  BY <1>1, <1>2, <1>3, <1>8, <1>9, <1>10 DEF IInv

LEMMA WorkerFinishing ==
  ASSUME IInv, OnWorkerFinished
  PROVE  IInv'
<1> DEFINE g == [WithoutSide(gui) EXCEPT !.sshUp = FALSE, !.usesMosh = FALSE, !.resuming = FALSE,
                                        !.connectAfter = FALSE, !.state = "Disconnected"]
<1>1. /\ Types /\ Signalled /\ up /\ InStep /\ JournalOf /\ Take("finished")
  BY DEF IInv, OnWorkerFinished, Take
<1>2. /\ Raised(events) = {"finished"} \cup Raised(events')
      /\ events' \in Seq(Messages) /\ InOrder(events')
      /\ \A t \in Raised(events') : t \notin NotBehind("finished")
  BY <1>1, Taking
<1>3. Raised(events') \subseteq SideSignals
  BY <1>1, <1>2, Received DEF NotBehind
<1>4. thread.phase = "ended" /\ journal = 0
  BY <1>1, <1>2 DEF Signalled, Sent, SideSignals, JournalOf
<1>5. g \in Guis /\ g.state = "Disconnected" /\ g.fetching = gui.fetching
  BY <1>1 DEF Types, Guis, WithoutSide
<1>6. gui.fetching = FALSE
  BY <1>1, <1>4 DEF InStep, Worker, Types, Guis
<1>7. up' = TRUE /\ side' = NoSide /\ UNCHANGED <<key, bounds, history>>
  BY <1>1 DEF OnWorkerFinished
<1>8. NoSide \in Sides
  BY DEF NoSide, Sides, SidePhases
<1>9. CASE gui.connectAfter
  <2> DEFINE requests == Append(vault, Request("remove", 0))
  <2>1. journal' = 0 /\ StartConnection(g, 0, requests)
    BY <1>9 DEF OnWorkerFinished
  <2>2. Request("remove", 0) \in Asks
    BY DEF Request, Asks, Requests
  <2>3. requests \in Seq(Asks)
    BY <1>1, <2>2, Asking DEF Types
  <2> HIDE DEF requests, g
  <2>4. StartConnection(g, journal', requests)
    BY <2>1
  <2>5. /\ side' \in Sides /\ key' \in Nat /\ journal' \in Nat /\ bounds' \in [done : Nat, sessions : Nat]
        /\ history' \in [ended : BOOLEAN, left : Nat, unkept : SUBSET Nat, aborted : BOOLEAN]
    BY <1>1, <1>7, <1>8, <2>1 DEF Types
  <2> QED
    BY <1>1, <1>2, <1>3, <1>5, <1>7, <2>1, <2>3, <2>4, <2>5, Connecting
<1>10. CASE ~gui.connectAfter
  <2> DEFINE due == g.reconnectDue \/ (AutoReconnect /\ ReconnectIsDue(g))
  <2>1. gui' = [g EXCEPT !.reconnectDue = due] /\ thread' = NoThread /\ UNCHANGED <<journal, vault>>
    BY <1>10 DEF OnWorkerFinished
  <2>2. due \in BOOLEAN
    BY <1>5, SessionAssumption DEF ReconnectIsDue, Guis
  <2> HIDE DEF due, g
  <2>3. gui' \in Guis /\ gui'.state = "Disconnected" /\ gui'.fetching = FALSE
    BY <1>5, <1>6, <2>1, <2>2 DEF Guis
  <2>4. NoThread \in Threads /\ NoThread.phase = "none" /\ NoThread.resume = 0 /\ NoThread.ssh = FALSE
    BY DEF NoThread, Threads, Phases
  <2>5. Types'
    BY <1>1, <1>2, <1>7, <1>8, <2>1, <2>3, <2>4 DEF Types
  <2>6. \A e \in Range(events') : e.signal # "key"
    BY <1>3 DEF Raised, SideSignals
  <2>7. Signalled'
    BY <1>2, <1>3, <2>1, <2>4, <2>6 DEF Signalled, SideSignals
  <2>8. InStep' /\ SshTold' /\ SideIsRetried' /\ ResumeKeyFits' /\ JournalOf'
    BY <1>4, <2>1, <2>3, <2>4 DEF InStep, SshTold, SideIsRetried, ResumeKeyFits, JournalOf, Worker
  <2> QED
    BY <1>4, <1>7, <2>1, <2>5, <2>7, <2>8 DEF IInv
<1> QED
  BY <1>9, <1>10

LEMMA SideFinishing ==
  ASSUME IInv, OnSideFinished
  PROVE  IInv'
<1>1. /\ Types /\ Signalled /\ up /\ InStep /\ SshTold /\ SideIsRetried /\ ResumeKeyFits /\ JournalOf
      /\ (journal # 0 => KeyOf(journal)) /\ Take("sideFinished")
  BY DEF IInv, OnSideFinished, Take
<1>2. UNCHANGED <<up, thread, journal, key, vault, bounds, history>> /\ side' = NoSide
  BY DEF OnSideFinished
<1>3. /\ Raised(events) = {"sideFinished"} \cup Raised(events')
      /\ events' \in Seq(Messages) /\ Signalled'
  BY <1>1, <1>2, Taking
<1>4. /\ gui' \in Guis /\ gui'.state = gui.state /\ gui'.fetching = gui.fetching
      /\ gui'.resuming = gui.resuming /\ gui'.sshUp = gui.sshUp
      /\ gui'.usesMosh = gui.usesMosh
      /\ Retries(gui) => gui'.retry
  <2> DEFINE retry == gui.retry \/ Retries(gui)
  <2>1. retry \in BOOLEAN /\ (Retries(gui) => retry)
    BY <1>1 DEF Retries, Types, Guis, Worker
  <2>2. gui' = [gui EXCEPT !.sideUp = FALSE, !.retry = retry]
    BY DEF OnSideFinished
  <2> HIDE DEF retry
  <2> QED
    BY <1>1, <2>1, <2>2 DEF Types, Guis
<1>5. NoSide \in Sides
  BY DEF NoSide, Sides, SidePhases
<1>6. Types' /\ ResumeKeyFits'
  BY <1>1, <1>2, <1>3, <1>4, <1>5 DEF Types, ResumeKeyFits
<1>7. InStep' /\ SshTold' /\ JournalOf'
  BY <1>1, <1>2, <1>3, <1>4 DEF InStep, SshTold, JournalOf, Worker
<1>8. SideIsRetried'
  <2>1. gui.state = "Connected" => Worker
    BY <1>1 DEF InStep
  <2> QED
    BY <1>4, <2>1 DEF SideIsRetried, Retries
<1>9. journal # 0 => KeyOf(journal)'
  BY <1>1, <1>2, KeyStaysQueued
<1> QED
  BY <1>1, <1>2, <1>3, <1>6, <1>7, <1>8, <1>9 DEF IInv

\* What the vault is still asked for when it has answered a request.
LEMMA Answer ==
  ASSUME Types, NEW request, Answered(request)
  PROVE  /\ up /\ Head(vault) \in Asks /\ Head(vault).request = request /\ Tail(vault) \in Seq(Asks)
         /\ Asked(vault) = {request} \cup Asked(Tail(vault))
         /\ \A r, kinds : LastOf(vault, r, kinds) =>
              LastOf(Tail(vault), r, kinds) \/ (Head(vault) = r /\ Asked(Tail(vault)) \cap kinds = {})
<1>1. up /\ vault # <<>> /\ Head(vault).request = request
  BY DEF Answered
<1>2. vault \in Seq(Asks)
  BY DEF Types
<1>3. /\ Head(vault) \in Asks /\ Tail(vault) \in Seq(Asks)
      /\ Asked(vault) = {Head(vault).request} \cup Asked(Tail(vault))
      /\ \A r, kinds : LastOf(vault, r, kinds) =>
           LastOf(Tail(vault), r, kinds) \/ (Head(vault) = r /\ Asked(Tail(vault)) \cap kinds = {})
  BY <1>1, <1>2, Answering
<1> QED
  BY <1>1, <1>3

\* An answer that is not about a key leaves the key where it is.
LEMMA KeyStaysAnswered ==
  ASSUME Types, KeyOf(journal), NEW request, request \notin {"create", "store", "remove"}, Answered(request),
         UNCHANGED <<journal, key, thread, events, history>>, vault' = Tail(vault)
  PROVE  KeyOf(journal)'
<1> DEFINE removes == IF thread.stop THEN {} ELSE {"remove"}
<1>1. /\ Head(vault).request = request
      /\ Asked(vault) = {request} \cup Asked(vault')
      /\ \A r, kinds : LastOf(vault, r, kinds) => LastOf(vault', r, kinds) \/ Head(vault) = r
  BY Answer
<1>2. /\ Head(vault) # Request("create", journal)
      /\ Head(vault) # Request("store", journal)
  BY <1>1 DEF Request
<1>3. /\ LastOf(vault, Request("create", journal), {"create"} \cup removes)
           => LastOf(vault', Request("create", journal), {"create"} \cup removes)
      /\ LastOf(vault, Request("store", journal), {"store"} \cup removes)
           => LastOf(vault', Request("store", journal), {"store"} \cup removes)
  BY <1>1, <1>2
<1> QED
  BY <1>1, <1>3 DEF KeyOf, Worker

LEMMA ResumeAnswering ==
  ASSUME IInv, NEW ok \in BOOLEAN, AnswerResume(ok)
  PROVE  IInv'
<1>1. /\ Types /\ Signalled /\ up /\ InStep /\ SshTold /\ SideIsRetried /\ ResumeKeyFits /\ JournalOf
      /\ (journal # 0 => KeyOf(journal)) /\ Answered("resume")
  BY DEF IInv, AnswerResume, Answered
<1>2. Tail(vault) \in Seq(Asks) /\ Asked(vault) = {"resume"} \cup Asked(Tail(vault))
  BY <1>1, Answer
<1>3. UNCHANGED <<up, side, events, key, bounds, history>>
  BY DEF AnswerResume
<1>4. CASE ~gui.fetching
  <2>1. vault' = Tail(vault) /\ UNCHANGED <<gui, thread, journal>>
    BY <1>4 DEF AnswerResume
  <2>2. Types' /\ Signalled' /\ ResumeKeyFits'
    BY <1>1, <1>2, <1>3, <2>1 DEF Types, Signalled, ResumeKeyFits
  <2>3. InStep' /\ SshTold' /\ SideIsRetried' /\ JournalOf'
    BY <1>1, <1>2, <1>3, <2>1 DEF InStep, SshTold, SideIsRetried, JournalOf, Worker
  <2>4. journal # 0 => KeyOf(journal)'
    BY <1>1, <1>3, <2>1, KeyStaysAnswered
  <2> QED
    BY <1>1, <1>3, <2>1, <2>2, <2>3, <2>4 DEF IInv
<1>5. ASSUME gui.fetching
      PROVE  thread.phase = "none" /\ InOrder(events) /\ Raised(events) \subseteq SideSignals
  BY <1>1, <1>5 DEF InStep, Worker, Signalled, Sent
<1>6. CASE gui.fetching /\ ok /\ key # 0
  <2>1. StartWorker(gui, key) /\ vault' = Tail(vault) /\ UNCHANGED journal
    BY <1>6 DEF AnswerResume
  <2>2. /\ gui' = [gui EXCEPT !.state = "Connecting", !.fetching = FALSE, !.reached = FALSE, !.resuming = TRUE]
        /\ thread' = [NoThread EXCEPT !.phase = "start", !.resume = key]
    BY <1>6, <2>1 DEF StartWorker
  <2>3. gui' \in Guis /\ gui'.state = "Connecting" /\ gui'.fetching = FALSE /\ gui'.resuming = TRUE
    BY <1>1, <2>2 DEF Types, Guis
  <2>4. key \in Nat
    BY <1>1 DEF Types
  <2>5. /\ thread' \in Threads /\ thread'.phase = "start" /\ thread'.resume = key /\ ~thread'.ssh
        /\ ~thread'.over /\ ~thread'.keep /\ ~thread'.stop
    BY <2>2, <2>4 DEF NoThread, Threads, Phases
  <2>6. Types'
    BY <1>1, <1>2, <1>3, <2>1, <2>3, <2>5 DEF Types
  <2>7. \A e \in Range(events) : e.signal # "key"
    BY <1>5, <1>6 DEF Raised, SideSignals
  <2>8. Signalled'
    BY <1>3, <1>5, <1>6, <2>5, <2>7 DEF Signalled, SideSignals
  <2>9. InStep'
    <3>1. (thread'.resume # 0) = TRUE
      BY <1>6, <2>5
    <3>2. gui'.resuming = (thread'.resume # 0)
      BY <2>3, <3>1
    <3> QED
      BY <2>3, <2>5, <3>2 DEF InStep, Worker
  <2>10. SshTold' /\ SideIsRetried'
    BY <2>3, <2>5 DEF SshTold, SideIsRetried
  <2>11. journal # 0 => /\ Mosh /\ Asked(vault) \cap {"login", "create", "store"} = {}
                        /\ \/ journal \in history.unkept
                           \/ "remove" \notin Asked(vault) /\ key = journal
    BY <1>1, <1>5, <1>6, Unvaulted
  <2>12. ResumeKeyFits'
    BY <1>1, <1>3, <2>1, <2>5, <2>11 DEF ResumeKeyFits
  <2>13. JournalOf'
    BY <1>6, <2>1, <2>5, <2>11 DEF JournalOf
  <2>14. journal # 0 => KeyOf(journal)'
    BY <1>2, <1>3, <2>1, <2>5, <2>11 DEF KeyOf
  <2> QED
    BY <1>1, <1>3, <2>1, <2>6, <2>8, <2>9, <2>10, <2>12, <2>13, <2>14 DEF IInv
<1>7. CASE gui.fetching /\ ~(ok /\ key # 0)
  <2>1. journal' = 0 /\ StartConnection(gui, 0, Tail(vault))
    BY <1>7 DEF AnswerResume
  <2>2. StartConnection(gui, journal', Tail(vault))
    BY <2>1
  <2>3. /\ up' = TRUE /\ side' \in Sides /\ key' \in Nat /\ journal' \in Nat
        /\ bounds' \in [done : Nat, sessions : Nat] /\ gui \in Guis
        /\ history' \in [ended : BOOLEAN, left : Nat, unkept : SUBSET Nat, aborted : BOOLEAN]
        /\ events' \in Seq(Messages) /\ InOrder(events') /\ Raised(events') \subseteq SideSignals
    BY <1>1, <1>3, <1>5, <1>7, <2>1 DEF Types
  <2> QED
    BY <1>1, <1>2, <2>1, <2>2, <2>3, Connecting
<1> QED
  BY <1>4, <1>6, <1>7

LEMMA LoginAnswering ==
  ASSUME IInv, NEW ok \in BOOLEAN, AnswerLogin(ok)
  PROVE  IInv'
<1>1. /\ Types /\ Signalled /\ up /\ InStep /\ SshTold /\ SideIsRetried /\ ResumeKeyFits /\ JournalOf
      /\ (journal # 0 => KeyOf(journal)) /\ Answered("login")
  BY DEF IInv, AnswerLogin, Answered
<1>2. Tail(vault) \in Seq(Asks) /\ Asked(vault) = {"login"} \cup Asked(Tail(vault))
  BY <1>1, Answer
<1>3. UNCHANGED <<up, side, events, journal, key, bounds, history>> /\ vault' = Tail(vault)
  BY DEF AnswerLogin
<1>4. CASE ~gui.fetching
  <2>1. UNCHANGED <<gui, thread>>
    BY <1>4 DEF AnswerLogin, Wanted
  <2>2. Types' /\ Signalled' /\ ResumeKeyFits'
    BY <1>1, <1>2, <1>3, <2>1 DEF Types, Signalled, ResumeKeyFits
  <2>3. InStep' /\ SshTold' /\ SideIsRetried' /\ JournalOf'
    BY <1>1, <1>2, <1>3, <2>1 DEF InStep, SshTold, SideIsRetried, JournalOf, Worker
  <2>4. journal # 0 => KeyOf(journal)'
    BY <1>1, <1>3, <2>1, KeyStaysAnswered
  <2> QED
    BY <1>1, <1>3, <2>2, <2>3, <2>4 DEF IInv
<1>5. ASSUME gui.fetching
      PROVE  /\ thread.phase = "none" /\ InOrder(events) /\ Raised(events) \subseteq SideSignals
             /\ journal = 0 /\ \A e \in Range(events) : e.signal # "key"
  <2>1. thread.phase = "none" /\ InOrder(events) /\ Raised(events) \subseteq SideSignals
    BY <1>1, <1>5 DEF InStep, Worker, Signalled, Sent
  <2>2. journal = 0
    BY <1>1, <1>2, <2>1 DEF JournalOf
  <2> QED
    BY <2>1, <2>2 DEF Raised, SideSignals
<1>6. CASE gui.fetching /\ ok
  <2>1. /\ gui' = [gui EXCEPT !.state = "Connecting", !.fetching = FALSE, !.reached = FALSE, !.resuming = FALSE]
        /\ thread' = [NoThread EXCEPT !.phase = "start", !.resume = 0]
    BY <1>6 DEF AnswerLogin, Wanted, StartWorker
  <2>2. gui' \in Guis /\ gui'.state = "Connecting" /\ gui'.fetching = FALSE /\ gui'.resuming = FALSE
    BY <1>1, <2>1 DEF Types, Guis
  <2>3. /\ thread' \in Threads /\ thread'.phase = "start" /\ thread'.resume = 0 /\ ~thread'.ssh
        /\ ~thread'.over /\ ~thread'.keep
    BY <2>1 DEF NoThread, Threads, Phases
  <2>4. Types' /\ Signalled'
    BY <1>1, <1>2, <1>3, <1>5, <1>6, <2>2, <2>3 DEF Types, Signalled, SideSignals
  <2>5. InStep' /\ SshTold' /\ SideIsRetried' /\ ResumeKeyFits' /\ JournalOf'
    BY <1>3, <1>5, <1>6, <2>2, <2>3 DEF InStep, SshTold, SideIsRetried, ResumeKeyFits, JournalOf, Worker
  <2> QED
    BY <1>1, <1>3, <1>5, <1>6, <2>4, <2>5 DEF IInv
<1>7. CASE gui.fetching /\ ~ok
  <2> DEFINE lost == Lost(gui, FALSE)
  <2>1. gui' = [gui EXCEPT !.fetching = FALSE, !.lost = lost, !.state = "Disconnected"] /\ UNCHANGED thread
    BY <1>7 DEF AnswerLogin, Wanted
  <2>2. lost \in BOOLEAN
    BY DEF Lost
  <2> HIDE DEF lost
  <2>3. gui' \in Guis /\ gui'.state = "Disconnected" /\ gui'.fetching = FALSE
    BY <1>1, <2>1, <2>2 DEF Types, Guis
  <2>4. Types' /\ Signalled' /\ ResumeKeyFits'
    BY <1>1, <1>2, <1>3, <2>1, <2>3 DEF Types, Signalled, ResumeKeyFits
  <2>5. InStep' /\ SshTold' /\ SideIsRetried' /\ JournalOf'
    BY <1>1, <1>3, <1>5, <1>7, <2>1, <2>3 DEF InStep, SshTold, SideIsRetried, JournalOf, Worker
  <2> QED
    BY <1>1, <1>3, <1>5, <1>7, <2>4, <2>5 DEF IInv
<1> QED
  BY <1>4, <1>6, <1>7

LEMMA SideAnswering ==
  ASSUME IInv, NEW ok \in BOOLEAN, AnswerSide(ok)
  PROVE  IInv'
<1>1. /\ Types /\ Signalled /\ up /\ InStep /\ SshTold /\ SideIsRetried /\ ResumeKeyFits /\ JournalOf
      /\ (journal # 0 => KeyOf(journal)) /\ Answered("side")
  BY DEF IInv, AnswerSide, Answered
<1>2. Tail(vault) \in Seq(Asks) /\ Asked(vault) = {"side"} \cup Asked(Tail(vault))
  BY <1>1, Answer
<1>3. UNCHANGED <<up, thread, events, journal, key, bounds, history>> /\ vault' = Tail(vault)
  BY DEF AnswerSide
<1>4. gui' = [gui EXCEPT !.sideFetching = FALSE]
  BY DEF AnswerSide
<1>5. /\ gui' \in Guis /\ gui'.state = gui.state /\ gui'.fetching = gui.fetching
      /\ gui'.resuming = gui.resuming /\ gui'.sshUp = gui.sshUp /\ gui'.retry = gui.retry
      /\ gui'.usesMosh = gui.usesMosh /\ gui'.sideFetching = FALSE
  BY <1>1, <1>4 DEF Types, Guis
<1>6. NewSide \in Sides /\ NewSide.id # 0
  BY <1>1, Fresh
<1>7. \/ gui.sideFetching /\ side' \in Sides /\ side'.gaveUp /\ ~ok
      \/ gui.sideFetching /\ side' \in Sides /\ side'.id # 0
      \/ side' = side /\ (gui.sideFetching => side.id # 0 \/ ~(Worker /\ gui.usesMosh))
  <2>1. CASE gui.sideFetching /\ ~ok
    <3>1. side' = [side EXCEPT !.gaveUp = TRUE]
      BY <2>1 DEF AnswerSide
    <3> QED
      BY <1>1, <2>1, <3>1 DEF Types, Sides
  <2>2. CASE ~(gui.sideFetching /\ ~ok) /\ gui.sideFetching /\ Worker /\ gui.usesMosh /\ side.id = 0
    BY <1>6, <2>2 DEF AnswerSide
  <2>3. CASE ~(gui.sideFetching /\ ~ok) /\ ~(gui.sideFetching /\ Worker /\ gui.usesMosh /\ side.id = 0)
    <3>1. side' = side
      BY <2>3 DEF AnswerSide
    <3> QED
      BY <2>3, <3>1
  <2> QED
    BY <2>1, <2>2, <2>3
<1>8. Types' /\ Signalled' /\ ResumeKeyFits'
  BY <1>1, <1>2, <1>3, <1>5, <1>7 DEF Types, Signalled, ResumeKeyFits
<1>9. InStep' /\ SshTold' /\ JournalOf'
  BY <1>1, <1>2, <1>3, <1>5 DEF InStep, SshTold, JournalOf, Worker
<1>10. SideIsRetried'
  <2>1. gui.state = "Connected" => Worker
    BY <1>1 DEF InStep
  <2> QED
    BY <1>1, <1>5, <1>7, <2>1 DEF SideIsRetried
<1>11. journal # 0 => KeyOf(journal)'
  BY <1>1, <1>3, KeyStaysAnswered
<1> QED
  BY <1>1, <1>3, <1>8, <1>9, <1>10, <1>11 DEF IInv

\* An answer about keys, which touches nothing but them.
LEMMA KeyAnswering ==
  ASSUME IInv, up, UNCHANGED <<up, gui, side, thread, events, journal, bounds>>,
         vault' \in Seq(Asks), key' \in Nat, Asked(vault') \subseteq Asked(vault) \cup {"store"},
         history' \in [ended : BOOLEAN, left : Nat, unkept : SUBSET Nat, aborted : BOOLEAN],
         history.unkept \subseteq history'.unkept,
         "store" \in Asked(vault') => "store" \in Asked(vault) \/ "create" \in Asked(vault),
         journal # 0 => KeyOf(journal)'
  PROVE  IInv'
<1>1. Types /\ Signalled /\ InStep /\ SshTold /\ SideIsRetried /\ ResumeKeyFits /\ JournalOf
  BY DEF IInv
<1>2. Types' /\ Signalled' /\ ResumeKeyFits'
  BY <1>1 DEF Types, Signalled, ResumeKeyFits
<1>3. InStep' /\ SshTold' /\ SideIsRetried'
  BY <1>1 DEF InStep, SshTold, SideIsRetried, Worker
<1>4. JournalOf'
  BY <1>1 DEF JournalOf
<1> QED
  BY <1>1, <1>2, <1>3, <1>4 DEF IInv

LEMMA CreateAnswering ==
  ASSUME IInv, NEW ok \in BOOLEAN, AnswerStore(ok), Answered("create")
  PROVE  IInv'
<1> DEFINE of == Head(vault).of
           r == Request("store", of)
           removes == IF thread.stop THEN {} ELSE {"remove"}
<1>1. Types /\ Signalled /\ up /\ JournalOf /\ (journal # 0 => KeyOf(journal))
  BY DEF IInv, Answered
<1>2. /\ Head(vault) \in Asks /\ Head(vault).request = "create" /\ Tail(vault) \in Seq(Asks)
      /\ Asked(vault) = {"create"} \cup Asked(Tail(vault))
      /\ \A q, kinds : LastOf(vault, q, kinds) =>
           LastOf(Tail(vault), q, kinds) \/ (Head(vault) = q /\ Asked(Tail(vault)) \cap kinds = {})
  BY <1>1, Answer
<1>3. of \in Nat
  BY <1>2 DEF Asks
<1>4. /\ UNCHANGED <<up, gui, side, thread, events, journal, bounds, key>>
      /\ history' = [history EXCEPT !.unkept = IF ok THEN @ ELSE @ \cup ({of} \ {0})]
      /\ vault' = IF ok THEN Append(Tail(vault), r) ELSE Tail(vault)
  BY DEF AnswerStore, Answered
<1>5. r \in Asks /\ r.request = "store"
  BY <1>3 DEF Request, Asks, Requests
<1>6. /\ history' \in [ended : BOOLEAN, left : Nat, unkept : SUBSET Nat, aborted : BOOLEAN]
      /\ history.unkept \subseteq history'.unkept
      /\ ~ok /\ of # 0 => of \in history'.unkept
  <2> HIDE DEF of
  <2> QED
    BY <1>1, <1>3, <1>4 DEF Types
<1> HIDE DEF r
<1>7. /\ vault' \in Seq(Asks) /\ Asked(vault') \subseteq Asked(Tail(vault)) \cup {"store"}
      /\ \A q, kinds : LastOf(Tail(vault), q, kinds) /\ "store" \notin kinds => LastOf(vault', q, kinds)
      /\ ok => \A kinds : LastOf(vault', r, kinds)
  <2>1. CASE ok
    BY <1>2, <1>4, <1>5, <2>1, Asking, ZenonT(60)
  <2>2. CASE ~ok
    BY <1>2, <1>4, <2>2
  <2> QED
    BY <2>1, <2>2
<1>8. ASSUME journal # 0
      PROVE  KeyOf(journal)'
  <2>1. KeyOf(journal) /\ journal' = journal
    BY <1>1, <1>4, <1>8
  <2>2. CASE journal \in history.unkept
    BY <1>4, <1>6, <2>2 DEF KeyOf
  <2>3. CASE Signal("key", journal) \in Range(events)
    BY <1>4, <2>3 DEF KeyOf
  <2>4. CASE LastOf(vault, Request("create", journal), {"create"} \cup removes)
    <3>1. CASE LastOf(Tail(vault), Request("create", journal), {"create"} \cup removes)
      <4>1. LastOf(vault', Request("create", journal), {"create"} \cup removes)
        BY <1>7, <3>1
      <4> QED
        BY <1>4, <4>1 DEF KeyOf
    <3>2. CASE /\ Head(vault) = Request("create", journal)
               /\ Asked(Tail(vault)) \cap ({"create"} \cup removes) = {}
      <4>1. of = journal
        BY <3>2 DEF Request
      <4>2. CASE ok
        <5>1. r = Request("store", journal)
          BY <4>1 DEF r
        <5>2. "create" \notin Asked(vault')
          BY <1>7, <3>2
        <5>3. LastOf(vault', Request("store", journal), {"store"} \cup removes)
          BY <1>7, <4>2, <5>1
        <5> QED
          BY <1>4, <5>2, <5>3 DEF KeyOf
      <4>3. CASE ~ok
        BY <1>4, <1>6, <1>8, <4>1, <4>3 DEF KeyOf
      <4> QED
        BY <4>2, <4>3
    <3> QED
      BY <1>2, <2>4, <3>1, <3>2
  <2> QED
    BY <1>2, <2>1, <2>2, <2>3, <2>4 DEF KeyOf
<1>9. key' \in Nat
  BY <1>1, <1>4 DEF Types
<1> QED
  BY <1>1, <1>2, <1>4, <1>6, <1>7, <1>8, <1>9, KeyAnswering

LEMMA StoreAnswering ==
  ASSUME IInv, NEW ok \in BOOLEAN, AnswerStore(ok), Answered("store")
  PROVE  IInv'
<1> DEFINE of == Head(vault).of
           removes == IF thread.stop THEN {} ELSE {"remove"}
<1>1. Types /\ Signalled /\ up /\ JournalOf /\ (journal # 0 => KeyOf(journal))
  BY DEF IInv, Answered
<1>2. /\ Head(vault) \in Asks /\ Head(vault).request = "store" /\ Tail(vault) \in Seq(Asks)
      /\ Asked(vault) = {"store"} \cup Asked(Tail(vault))
      /\ \A q, kinds : LastOf(vault, q, kinds) =>
           LastOf(Tail(vault), q, kinds) \/ (Head(vault) = q /\ Asked(Tail(vault)) \cap kinds = {})
  BY <1>1, Answer
<1>3. of \in Nat
  BY <1>2 DEF Asks
<1>4. /\ UNCHANGED <<up, gui, side, thread, events, journal, bounds>>
      /\ history' = [history EXCEPT !.unkept = IF ok THEN @ ELSE @ \cup ({of} \ {0})]
      /\ vault' = Tail(vault) /\ key' = IF ok THEN of ELSE key
  BY DEF AnswerStore, Answered
<1>5. /\ history' \in [ended : BOOLEAN, left : Nat, unkept : SUBSET Nat, aborted : BOOLEAN]
      /\ history.unkept \subseteq history'.unkept
      /\ ~ok /\ of # 0 => of \in history'.unkept
  <2> HIDE DEF of
  <2> QED
    BY <1>1, <1>3, <1>4 DEF Types
<1>6. ASSUME journal # 0
      PROVE  KeyOf(journal)'
  <2>1. KeyOf(journal) /\ journal' = journal
    BY <1>1, <1>4, <1>6
  <2>2. CASE journal \in history.unkept
    BY <1>4, <1>5, <2>2 DEF KeyOf
  <2>3. CASE Signal("key", journal) \in Range(events)
    BY <1>4, <2>3 DEF KeyOf
  <2>4. CASE LastOf(vault, Request("create", journal), {"create"} \cup removes)
    <3>1. Head(vault) # Request("create", journal)
      BY <1>2 DEF Request
    <3>2. LastOf(vault', Request("create", journal), {"create"} \cup removes)
      BY <1>2, <1>4, <2>4, <3>1
    <3> QED
      BY <1>4, <3>2 DEF KeyOf
  <2>5. CASE LastOf(vault, Request("store", journal), {"store"} \cup removes) /\ "create" \notin Asked(vault)
    <3>1. CASE LastOf(Tail(vault), Request("store", journal), {"store"} \cup removes)
      <4>1. "create" \notin Asked(vault')
        BY <1>2, <1>4, <2>5
      <4> QED
        BY <1>4, <3>1, <4>1 DEF KeyOf
    <3>2. CASE /\ Head(vault) = Request("store", journal)
               /\ Asked(Tail(vault)) \cap ({"store"} \cup removes) = {}
      <4>1. of = journal
        BY <3>2 DEF Request
      <4>2. CASE ok
        <5>1. Asked(vault') \cap ({"create", "store"} \cup removes) = {} /\ key' = journal
          BY <1>2, <1>4, <2>5, <3>2, <4>1, <4>2
        <5> QED
          BY <1>4, <5>1 DEF KeyOf
      <4>3. CASE ~ok
        BY <1>4, <1>5, <1>6, <4>1, <4>3 DEF KeyOf
      <4> QED
        BY <4>2, <4>3
    <3> QED
      BY <1>2, <2>5, <3>1, <3>2
  <2> QED
    BY <1>2, <2>1, <2>2, <2>3, <2>4, <2>5 DEF KeyOf
<1>7. key' \in Nat
  BY <1>1, <1>3, <1>4 DEF Types
<1> QED
  BY <1>1, <1>2, <1>4, <1>5, <1>6, <1>7, KeyAnswering

LEMMA RemoveAnswering ==
  ASSUME IInv, NEW ok \in BOOLEAN, AnswerRemove(ok)
  PROVE  IInv'
<1> DEFINE removes == IF thread.stop THEN {} ELSE {"remove"}
<1>1. Types /\ Signalled /\ up /\ JournalOf /\ (journal # 0 => KeyOf(journal)) /\ Answered("remove")
  BY DEF IInv, AnswerRemove, Answered
<1>2. /\ Head(vault).request = "remove" /\ Tail(vault) \in Seq(Asks)
      /\ Asked(vault) = {"remove"} \cup Asked(Tail(vault))
      /\ \A q, kinds : LastOf(vault, q, kinds) =>
           LastOf(Tail(vault), q, kinds) \/ (Head(vault) = q /\ Asked(Tail(vault)) \cap kinds = {})
  BY <1>1, Answer
<1>3. /\ UNCHANGED <<up, gui, side, thread, events, journal, bounds, history>>
      /\ vault' = Tail(vault) /\ key' = IF ok THEN 0 ELSE key
  BY DEF AnswerRemove
<1>4. Head(vault) # Request("create", journal) /\ Head(vault) # Request("store", journal)
  BY <1>2 DEF Request
<1>5. ASSUME journal # 0
      PROVE  KeyOf(journal)'
  <2>1. KeyOf(journal) /\ journal' = journal
    BY <1>1, <1>3, <1>5
  <2>2. CASE journal \in history.unkept
    BY <1>3, <2>2 DEF KeyOf
  <2>3. CASE Signal("key", journal) \in Range(events)
    BY <1>3, <2>3 DEF KeyOf
  <2>4. CASE LastOf(vault, Request("create", journal), {"create"} \cup removes)
    <3>1. LastOf(vault', Request("create", journal), {"create"} \cup removes)
      BY <1>2, <1>3, <1>4, <2>4
    <3> QED
      BY <1>3, <3>1 DEF KeyOf
  <2>5. CASE LastOf(vault, Request("store", journal), {"store"} \cup removes) /\ "create" \notin Asked(vault)
    <3>1. LastOf(vault', Request("store", journal), {"store"} \cup removes)
      BY <1>2, <1>3, <1>4, <2>5
    <3>2. "create" \notin Asked(vault')
      BY <1>2, <1>3, <2>5
    <3> QED
      BY <1>3, <3>1, <3>2 DEF KeyOf
  <2>6. CASE /\ Asked(vault) \cap ({"create", "store"} \cup removes) = {}
             /\ key = journal \/ (key = 0 /\ (~Worker \/ thread.stop))
    <3>1. thread.stop
      BY <1>2, <2>6
    <3>2. Asked(vault') \cap {"create", "store"} = {}
      BY <1>2, <1>3, <2>6
    <3>3. key' \in {0, journal}
      BY <1>3, <2>6
    <3> QED
      BY <1>3, <3>1, <3>2, <3>3 DEF KeyOf
  <2> QED
    BY <2>1, <2>2, <2>3, <2>4, <2>5, <2>6 DEF KeyOf
<1>6. key' \in Nat
  BY <1>1, <1>3 DEF Types
<1>7. history' \in [ended : BOOLEAN, left : Nat, unkept : SUBSET Nat, aborted : BOOLEAN]
  BY <1>1, <1>3 DEF Types
<1>8. history.unkept \subseteq history'.unkept
  BY <1>3
<1> QED
  BY <1>1, <1>2, <1>3, <1>5, <1>6, <1>7, <1>8, KeyAnswering

---------------------------------------------------------------------------
(* The app ends and starts *)

\* The key of the journal's mosh session is not in the vault yet, or whatever the vault
\* still does leaves it there, unless the session was to end.
LEMMA KeyWhenEnding ==
  ASSUME Types, KeyOf(journal)
  PROVE  \/ journal \in history.unkept \cup Unstored
         \/ \A k \in KeyOutcomes : k = journal \/ (k = 0 /\ (~Worker \/ thread.stop))
<1> DEFINE removes == IF thread.stop THEN {} ELSE {"remove"}
<1>1. DOMAIN events = 1..Len(events) /\ DOMAIN vault = 1..Len(vault)
  BY LenProperties DEF Types
<1>2. Signal("key", journal) \in Range(events) => journal \in Unstored
  BY <1>1 DEF Unstored, Range, Signal
<1>3. ASSUME NEW request \in {"create", "store"}, NEW kinds, LastOf(vault, Request(request, journal), kinds)
      PROVE  journal \in Unstored
  <2>1. PICK i \in DOMAIN vault : vault[i] = Request(request, journal)
    BY <1>3 DEF LastOf
  <2>2. vault[i].request \in {"create", "store"} /\ vault[i].of = journal
    BY <2>1 DEF Request
  <2> QED
    BY <1>1, <2>1, <2>2 DEF Unstored
<1>4. ASSUME /\ Asked(vault) \cap ({"create", "store"} \cup removes) = {}
             /\ key = journal \/ (key = 0 /\ (~Worker \/ thread.stop)),
             NEW k \in KeyOutcomes
      PROVE  k = journal \/ (k = 0 /\ (~Worker \/ thread.stop))
  <2>1. \A i \in DOMAIN vault : vault[i].request \in Asked(vault)
    BY DEF Asked, Range
  <2>2. CASE k = key
    BY <1>4, <2>2
  <2>3. ASSUME NEW i \in DOMAIN vault, vault[i].request \in {"store", "remove"}, k = vault[i].of
        PROVE  k = journal \/ (k = 0 /\ (~Worker \/ thread.stop))
    <3>1. vault[i].request = "remove" /\ thread.stop
      BY <1>4, <2>1, <2>3
    <3>2. k = 0
      BY <2>3, <3>1 DEF Types, Asks
    <3> QED
      BY <3>1, <3>2
  <2> QED
    BY <1>1, <1>4, <2>2, <2>3 DEF KeyOutcomes
<1> QED
  BY <1>2, <1>3, <1>4 DEF KeyOf

\* The app ends: what was queued is gone, and the vault has done what it has.
LEMMA Forgetting ==
  ASSUME IInv, up, up' = FALSE, gui' = NoGui(gui.vaulted), side' = NoSide, events' = <<>>, vault' = <<>>,
         key' \in KeyOutcomes, journal' = journal, bounds' \in [done : Nat, sessions : Nat],
         history' \in [ended : BOOLEAN, left : Nat, unkept : SUBSET Nat, aborted : BOOLEAN],
         history'.left = Running, history'.unkept = history.unkept \cup Unstored,
         \/ thread' = NoThread
         \/ Worker /\ thread' = KeepOnQuit(thread)
  PROVE  IInv'
<1>1. Types /\ Signalled /\ ResumeKeyFits /\ JournalOf /\ (journal # 0 => KeyOf(journal))
  BY DEF IInv
<1>2. /\ NoThread \in Threads /\ NoThread.phase = "none" /\ NoThread.stop = FALSE
      /\ NoGui(gui.vaulted) \in Guis /\ NoGui(gui.vaulted).vaulted = gui.vaulted /\ NoSide \in Sides
  BY <1>1 DEF NoThread, Threads, Phases, NoGui, Guis, NoSide, Sides, SidePhases, Types
<1>3. key' \in Nat
  <2>1. key \in Nat /\ \A i \in 1..Len(vault) : vault[i].of \in Nat
    BY <1>1 DEF Types, Asks
  <2> QED
    BY <2>1 DEF KeyOutcomes
<1>4. \/ thread' = NoThread
      \/ /\ thread' \in Threads /\ Worker /\ thread'.phase = thread.phase /\ thread'.resume = thread.resume
         /\ thread'.mosh = thread.mosh /\ thread'.over = thread.over /\ thread'.ssh = thread.ssh
         /\ thread'.stop /\ thread'.keep
  BY <1>1, ZenonT(60) DEF Types, Threads, KeepOnQuit
<1>5. Types'
  BY <1>1, <1>2, <1>3, <1>4, Silence DEF Types, Worker
<1>6. Signalled'
  BY Silence DEF Signalled
<1>7. ResumeKeyFits'
  BY <1>1, <1>2, <1>4 DEF ResumeKeyFits
<1>8. /\ journal # 0 => \/ journal \in history'.unkept
                        \/ key' \in {0, journal}
      /\ journal # 0 /\ Worker /\ ~thread.stop => journal \in history'.unkept \/ key' = journal
  BY <1>1, KeyWhenEnding
<1>9. history'.left # 0 =>
        /\ thread.phase = "loop" /\ ~thread.stop /\ thread.mosh = history'.left /\ Worker
        /\ journal = history'.left /\ ~thread.over
  BY <1>1 DEF Running, JournalOf, Worker
<1>10. journal # 0 => Mosh
  BY <1>1 DEF JournalOf
<1>11. Left'
  <2>1. Worker' => thread'.stop /\ thread'.keep /\ thread'.phase = thread.phase /\ thread'.mosh = thread.mosh
                   /\ thread'.over = thread.over
    BY <1>2, <1>4 DEF Worker
  <2>2. gui' = NoGui(gui'.vaulted)
    BY <1>2
  <2>3. history'.left # 0 => /\ journal' = history'.left
                             /\ key' = history'.left \/ history'.left \in history'.unkept
    BY <1>8, <1>9
  <2>4. history'.left # 0 /\ Worker' => /\ thread'.phase \notin {"none", "start"}
                                        /\ thread'.mosh = history'.left /\ thread'.keep /\ ~thread'.over
    BY <1>9, <2>1
  <2>5. journal' # 0 => Mosh /\ (key' \in {0, journal'} \/ journal' \in history'.unkept)
    BY <1>8, <1>10
  <2> QED
    BY <2>1, <2>2, <2>3, <2>4, <2>5 DEF Left
<1> QED
  BY <1>5, <1>6, <1>7, <1>11 DEF IInv

\* Mosh sessions are numbered.
LEMMA Numbered ==
  ASSUME Types
  PROVE  Unstored \subseteq Nat /\ Running \in Nat
<1>1. /\ \A i \in 1..Len(events) : events[i].of \in Nat
      /\ \A i \in 1..Len(vault) : vault[i].of \in Nat
  <2>1. \A i \in 1..Len(events) : events[i] \in Messages
    BY DEF Types
  <2>2. \A i \in 1..Len(vault) : vault[i] \in Asks
    BY DEF Types
  <2>3. (\A m \in Messages : m.of \in Nat) /\ \A r \in Asks : r.of \in Nat
    BY DEF Messages, Asks
  <2> QED
    BY <2>1, <2>2, <2>3
<1>2. Unstored \subseteq Nat
  BY <1>1 DEF Unstored
<1> QED
  BY <1>2 DEF Running, Types, Threads

LEMMA Quitting ==
  ASSUME IInv, Quit \/ Kill
  PROVE  IInv'
<1>1. Types /\ up
  BY DEF IInv, Quit, Kill
<1>2. /\ Forget
      /\ history' = [history EXCEPT !.ended = FALSE, !.left = Running, !.unkept = @ \cup Unstored]
      /\ thread' = NoThread \/ (Worker /\ thread' = KeepOnQuit(thread))
  <2>1. thread.phase = "none" => thread = NoThread
    BY <1>1 DEF Types
  <2> QED
    BY <2>1 DEF Quit, Kill, Worker
<1>3. bounds' \in [done : Nat, sessions : Nat]
  <2>1. bounds' = [bounds EXCEPT !.done = @ + 1]
    BY <1>2 DEF Forget
  <2> QED
    BY <1>1, <2>1 DEF Types
<1>4. /\ history' \in [ended : BOOLEAN, left : Nat, unkept : SUBSET Nat, aborted : BOOLEAN]
      /\ history'.left = Running /\ history'.unkept = history.unkept \cup Unstored
  <2>1. Unstored \subseteq Nat /\ Running \in Nat
    BY <1>1, Numbered
  <2> QED
    BY <1>1, <1>2, <2>1 DEF Types
<1>5. /\ up' = FALSE /\ gui' = NoGui(gui.vaulted) /\ side' = NoSide /\ events' = <<>> /\ vault' = <<>>
      /\ key' \in KeyOutcomes /\ journal' = journal
  BY <1>2 DEF Forget
<1> QED
  BY <1>1, <1>2, <1>3, <1>4, <1>5, Forgetting

LEMMA Aborting ==
  ASSUME IInv, Abort
  PROVE  IInv'
<1>1. Types /\ up
  BY DEF IInv, Abort
<1>2. bounds' \in [done : Nat, sessions : Nat]
  BY <1>1 DEF Abort, Types
<1>3. /\ history' \in [ended : BOOLEAN, left : Nat, unkept : SUBSET Nat, aborted : BOOLEAN]
      /\ history'.left = Running /\ history'.unkept = history.unkept \cup Unstored
  <2>1. Unstored \subseteq Nat /\ Running \in Nat
    BY <1>1, Numbered
  <2>2. history' = [history EXCEPT !.ended = FALSE, !.left = Running, !.unkept = @ \cup Unstored, !.aborted = TRUE]
    BY DEF Abort
  <2> QED
    BY <1>1, <2>1, <2>2 DEF Types
<1>4. /\ up' = FALSE /\ gui' = NoGui(gui.vaulted) /\ side' = NoSide /\ events' = <<>> /\ vault' = <<>>
      /\ key' \in KeyOutcomes /\ journal' = journal /\ thread' = NoThread
  BY DEF Abort
<1> QED
  BY <1>1, <1>2, <1>3, <1>4, Forgetting

LEMMA ProcessEnding ==
  ASSUME IInv, ProcessEnds
  PROVE  IInv'
<1>1. Types /\ Signalled /\ ~up /\ Left
  BY DEF IInv, ProcessEnds
<1>2. thread' = NoThread /\ UNCHANGED <<up, gui, side, events, journal, key, vault, bounds, history>>
  BY DEF ProcessEnds
<1>3. NoThread \in Threads /\ NoThread.phase = "none"
  BY DEF NoThread, Threads, Phases
<1>4. Types' /\ ResumeKeyFits'
  BY <1>1, <1>2, <1>3 DEF Types, ResumeKeyFits
<1>5. Signalled'
  BY <1>1, <1>2, Silence DEF Signalled, Left
<1>6. Left'
  BY <1>1, <1>2, <1>3 DEF Left, Worker
<1> QED
  BY <1>1, <1>2, <1>4, <1>5, <1>6 DEF IInv

LEMMA AppStarting ==
  ASSUME IInv, Start
  PROVE  IInv'
<1>1. Types /\ Signalled /\ ~up /\ Left /\ thread = NoThread
  BY DEF IInv, Start, Worker, Types
<1>2. /\ up' = TRUE /\ UNCHANGED <<side, events, journal, key, bounds>>
      /\ history' = [history EXCEPT !.left = 0]
  BY DEF Start
<1>3. /\ history' \in [ended : BOOLEAN, left : Nat, unkept : SUBSET Nat, aborted : BOOLEAN]
      /\ history'.unkept = history.unkept
  BY <1>1, <1>2 DEF Types
<1>4. /\ side' \in Sides /\ key' \in Nat /\ journal' \in Nat /\ bounds' \in [done : Nat, sessions : Nat]
      /\ events' \in Seq(Messages) /\ vault \in Seq(Asks) /\ gui \in Guis
  BY <1>1, <1>2 DEF Types
<1>5. /\ InOrder(events') /\ Raised(events') \subseteq SideSignals /\ Asked(vault) = {}
      /\ events' = <<>> /\ vault = <<>> /\ Range(events') = {}
  BY <1>1, <1>2, Silence DEF Left
<1>6. journal' # 0 => /\ Mosh
                      /\ \/ journal' \in history'.unkept
                         \/ key' \in {0, journal'}
  BY <1>1, <1>2, <1>3 DEF Left
<1>7. CASE CanResume(journal)
  <2>1. StartConnection(gui, journal', vault)
    BY <1>2, <1>7 DEF Start
  <2> QED
    BY <1>1, <1>2, <1>3, <1>4, <1>5, <1>6, <2>1, Connecting
<1>8. CASE ~CanResume(journal)
  <2>1. UNCHANGED <<gui, thread, vault>>
    BY <1>8 DEF Start
  <2>2. journal = 0
    BY <1>2, <1>6, <1>8 DEF CanResume
  <2>3. gui.state = "Disconnected" /\ gui.fetching = FALSE
    BY <1>1 DEF Left, NoGui
  <2>4. thread.phase = "none" /\ thread.resume = 0 /\ ~thread.ssh
    BY <1>1 DEF NoThread
  <2>5. Types' /\ Signalled'
    BY <1>1, <1>2, <1>3, <2>1 DEF Types, Signalled
  <2>6. InStep' /\ SshTold' /\ SideIsRetried' /\ ResumeKeyFits' /\ JournalOf'
    BY <1>2, <2>1, <2>2, <2>3, <2>4 DEF InStep, SshTold, SideIsRetried, ResumeKeyFits, JournalOf, Worker
  <2> QED
    BY <1>2, <2>2, <2>5, <2>6 DEF IInv
<1> QED
  BY <1>7, <1>8

---------------------------------------------------------------------------
(* What holds of every behaviour *)

LEMMA Starts == Init => IInv
<1> SUFFICES ASSUME Init
             PROVE  IInv
  OBVIOUS
<1>1. Types
  BY Silence DEF Init, Types, NoGui, Guis, NoSide, Sides, SidePhases, NoThread, Threads, Phases
<1>2. Signalled
  BY Silence DEF Init, Signalled, NoThread
<1>3. ResumeKeyFits /\ SshTold /\ SideIsRetried /\ JournalOf
  BY DEF Init, ResumeKeyFits, SshTold, SideIsRetried, JournalOf, NoThread, NoGui
<1>4. InStep
  BY DEF Init, InStep, NoThread, NoGui, Worker
<1> QED
  BY <1>1, <1>2, <1>3, <1>4 DEF Init, IInv

LEMMA Stutters == IInv /\ UNCHANGED vars => IInv'
<1> SUFFICES ASSUME IInv, UNCHANGED vars
             PROVE  IInv'
  OBVIOUS
<1>1. Types' <=> Types
  BY DEF vars, Types
<1>2. (Signalled' <=> Signalled) /\ (InStep' <=> InStep) /\ (SshTold' <=> SshTold)
  BY DEF vars, Signalled, InStep, SshTold, Worker
<1>3. (ResumeKeyFits' <=> ResumeKeyFits) /\ (SideIsRetried' <=> SideIsRetried) /\ (JournalOf' <=> JournalOf)
  BY DEF vars, ResumeKeyFits, SideIsRetried, JournalOf
<1>4. (KeyOf(journal)' <=> KeyOf(journal)) /\ (Left' <=> Left)
  BY DEF vars, KeyOf, Left, Worker
<1> QED
  BY <1>1, <1>2, <1>3, <1>4 DEF IInv, vars

LEMMA Steps == IInv /\ [Next]_vars => IInv'
<1> SUFFICES ASSUME IInv, Next
             PROVE  IInv'
  BY Stutters
<1>1. CASE Slots
  <2>1. CASE OnConnected \/ OnWorkerFailed \/ OnShellExited \/ OnMoshKey \/ OnMoshGone
    BY <2>1, BeingConnected, WorkerFailing, ShellExiting, KeyBeingSent, MoshBeingGone
  <2>2. CASE OnMoshStarted \/ OnSshClosed \/ OnWorkerFinished \/ OnSideConnected \/ OnSideFinished \/ Abort
    BY <2>2, MoshStarting, SshClosing, WorkerFinishing, SideBeingConnected, SideFinishing, Aborting
  <2> QED
    BY <1>1, <2>1, <2>2 DEF Slots
<1>2. CASE Answers
  <2>1. PICK ok \in BOOLEAN :
          AnswerResume(ok) \/ AnswerLogin(ok) \/ AnswerSide(ok) \/ AnswerStore(ok) \/ AnswerRemove(ok)
    BY <1>2 DEF Answers
  <2>2. AnswerStore(ok) => Answered("create") \/ Answered("store")
    BY DEF AnswerStore
  <2> QED
    BY <2>1, <2>2, ResumeAnswering, LoginAnswering, SideAnswering, CreateAnswering, StoreAnswering, RemoveAnswering
<1>3. CASE Resumes \/ SshBreaks \/ ResumedIsGone \/ LeaveLoop \/ ThreadEnds
  BY <1>3, ResumeFailing, Resuming, SshBreaking, ResumedBeingGone, LoopLeaving, ThreadEnding DEF Resumes
<1>4. CASE \/ \E network \in BOOLEAN : LoginFails(network)
           \/ \E overMosh \in BOOLEAN : LoginSucceeds(overMosh)
           \/ \E error \in BOOLEAN : ShellEnds(error)
  BY <1>4, LoginFailing, LoggingIn, ShellEnding
<1>5. CASE \/ \E vaulted \in BOOLEAN : Connect(vaulted)
           \/ Disconnect
           \/ \E hasAddress, online \in BOOLEAN : NetworkChanges(hasAddress, online)
           \/ Reconnect \/ RetrySide \/ SideConnects \/ SideEnds
  BY <1>5, Connects, Disconnecting, NetworkChanging, Reconnecting, SideRetrying, SideConnecting
<1>6. CASE Quit \/ Kill \/ ProcessEnds \/ Start
  BY <1>6, Quitting, ProcessEnding, AppStarting
<1> QED
  BY <1>1, <1>2, <1>3, <1>4, <1>5, <1>6 DEF Next

\* A worker is started where there is none, or by the slot that takes the last word of
\* one whose thread is over.
LEMMA WorkersStart ==
  ASSUME IInv, Next, thread.phase # "start", thread'.phase = "start"
  PROVE  thread.phase \in {"none", "ended"}
<1>1. Types /\ Signalled /\ (up => InStep)
  BY DEF IInv
<1>2. thread' # thread
  OBVIOUS
<1>3. CASE Slots
  <2>1. OnWorkerFinished \/ Abort
    BY <1>2, <1>3 DEF Slots, OnConnected, OnWorkerFailed, OnShellExited, OnMoshKey, OnMoshGone,
                      OnMoshStarted, OnSshClosed, OnSideConnected, OnSideFinished
  <2>2. ~Abort
    BY DEF Abort, NoThread
  <2>3. "finished" \in Raised(events)
    BY <1>1, <2>1, <2>2, Taking DEF OnWorkerFinished
  <2> QED
    BY <1>1, <2>3 DEF Signalled, Sent, SideSignals
<1>4. CASE Answers
  <2>1. PICK ok \in BOOLEAN : AnswerResume(ok) \/ AnswerLogin(ok)
    BY <1>2, <1>4 DEF Answers, AnswerSide, AnswerStore, AnswerRemove
  <2>2. gui.fetching /\ up
    BY <1>2, <2>1 DEF AnswerResume, AnswerLogin, Answered, Wanted
  <2> QED
    BY <1>1, <2>2 DEF InStep, Worker
<1>5. CASE Resumes \/ SshBreaks \/ ResumedIsGone \/ LeaveLoop \/ ThreadEnds
  <2>1. \A t \in Threads : Ends(t) => thread'.phase = "ending"
    BY DEF Ends, Threads
  <2> QED
    BY <1>1, <1>5, <2>1 DEF Types, Threads, Resumes, ResumeFails, ResumeSucceeds, SshBreaks, ResumedIsGone,
                            LeaveLoop, ThreadEnds
<1>6. CASE \/ \E network \in BOOLEAN : LoginFails(network)
           \/ \E overMosh \in BOOLEAN : LoginSucceeds(overMosh)
           \/ \E error \in BOOLEAN : ShellEnds(error)
  <2>1. thread.phase = "loop"
    BY <1>6 DEF LoginFails, LoginSucceeds, ShellEnds
  <2>2. PICK error \in BOOLEAN : ShellEnds(error)
    BY <1>6, <2>1 DEF LoginFails, LoginSucceeds
  <2>3. thread' = [[thread EXCEPT !.over = TRUE] EXCEPT !.phase = "ending"]
    BY <2>2 DEF ShellEnds, Ends
  <2> QED
    BY <1>1, <2>3 DEF Types, Threads
<1>7. CASE \/ \E vaulted \in BOOLEAN : Connect(vaulted)
           \/ Disconnect
           \/ \E hasAddress, online \in BOOLEAN : NetworkChanges(hasAddress, online)
           \/ Reconnect \/ RetrySide \/ SideConnects \/ SideEnds
  <2>1. Stopped.phase = thread.phase
    BY <1>1 DEF Stopped, Types, Threads
  <2>2. up /\ gui.state = "Disconnected"
    <3>1. CASE \E vaulted \in BOOLEAN : Connect(vaulted)
      BY <3>1 DEF Connect
    <3>2. CASE Disconnect \/ RetrySide \/ SideConnects \/ SideEnds
      BY <1>2, <2>1, <3>2 DEF Disconnect, RetrySide, SideConnects, SideEnds
    <3>3. CASE \E hasAddress, online \in BOOLEAN : NetworkChanges(hasAddress, online)
      BY <1>2, <2>1, <3>3 DEF NetworkChanges
    <3>4. CASE Reconnect
      <4>1. [gui EXCEPT !.reconnectDue = FALSE].state = gui.state
        BY <1>1 DEF Types, Guis
      <4> QED
        BY <1>2, <3>4, <4>1 DEF Reconnect
    <3> QED
      BY <1>7, <3>1, <3>2, <3>3, <3>4
  <2> QED
    BY <1>1, <2>2 DEF InStep, Worker
<1>8. CASE Quit \/ Kill \/ ProcessEnds \/ Start
  <2>1. KeepOnQuit(thread).phase = thread.phase
    BY <1>1 DEF KeepOnQuit, Types, Threads
  <2>2. NoThread.phase = "none"
    BY DEF NoThread
  <2>3. Start
    BY <1>8, <2>1, <2>2 DEF Quit, Kill, ProcessEnds
  <2> QED
    BY <2>3 DEF Start, Worker
<1> QED
  BY <1>3, <1>4, <1>5, <1>6, <1>7, <1>8 DEF Next

\* However signals, answers and timers interleave, the session and its worker are in
\* step, and the key of the journal's mosh session is safe or on its way.
THEOREM Invariance == Spec => []IInv
BY Starts, Steps, PTL DEF Spec

\* What the variables hold, and that an app that does not run has nothing queued.
THEOREM TypesHold == Spec => []TypeOK
<1>1. IInv => TypeOK
  <2> SUFFICES ASSUME IInv
               PROVE  TypeOK
    OBVIOUS
  <2>1. Types /\ (~up => Left)
    BY DEF IInv
  <2>2. Asks \subseteq [request : Requests, of : Nat]
    BY DEF Asks
  <2>3. vault \in Seq([request : Requests, of : Nat])
    <3>1. vault \in Seq(Asks)
      BY <2>1 DEF Types
    <3> QED
      BY <2>2, <3>1, SeqMonotonic
  <2>4. gui \in Guis /\ side \in Sides /\ thread \in Threads /\ events \in Seq(Messages)
    BY <2>1 DEF Types
  <2>5. ~up => gui.state = "Disconnected" /\ side = NoSide /\ events = <<>> /\ vault = <<>>
    BY <2>1 DEF Left, NoGui
  <2> QED
    BY <2>1, <2>3, <2>4, <2>5 DEF Types, TypeOK, Guis, Sides, Threads, Messages
<1> QED
  BY <1>1, Invariance, PTL

\* A session is disconnected exactly when it has no worker and fetches nothing for
\* one, and a worker is only started when there is none, or the last one's thread is
\* over: an answer that comes late starts nothing.
THEOREM ConnectsOnce == Spec => OneConnection
<1> DEFINE Agree == up => /\ (gui.state = "Disconnected") = (~Worker /\ ~gui.fetching)
                          /\ ~(Worker /\ gui.fetching)
           StartsAlone == thread.phase # "start" /\ thread'.phase = "start" => thread.phase \in {"none", "ended"}
<1>1. IInv => Agree
  BY DEF IInv, InStep
<1>2. IInv /\ [Next]_vars => [StartsAlone]_thread
  <2> SUFFICES ASSUME IInv, Next, thread.phase # "start", thread'.phase = "start"
               PROVE  thread.phase \in {"none", "ended"}
    BY DEF vars
  <2>1. Types
    BY DEF IInv
  <2> QED
    BY <2>1, WorkersStart
<1>3. Spec => [](Agree) /\ [][StartsAlone]_thread
  BY <1>1, <1>2, Invariance, PTL DEF Spec
<1> QED
  BY <1>3 DEF OneConnection

\* What the session believes of its SSH connection under mosh is so, or corrected by a
\* signal on its way: nothing of an earlier connection is taken for this one's.
THEOREM SshIsUp == Spec => []SshUpIsTrue
<1>1. IInv => SshUpIsTrue
  BY QueuedIsRaised DEF IInv, SshTold, SshUpIsTrue
<1> QED
  BY <1>1, Invariance, PTL

\* While a mosh session goes on without SSH, a side worker is there or on its way,
\* unless its secret could not be had.
THEOREM SideComesBack == Spec => []SideIsRetried
<1>1. IInv => SideIsRetried
  BY DEF IInv, SideIsRetried
<1> QED
  BY <1>1, Invariance, PTL

\* A journal is resumed with the key of the mosh session it is of, unless that could
\* not be kept, however often keys were stored and removed before.
THEOREM KeyFitsJournal == Spec => []ResumeKeyFits
<1>1. IInv => ResumeKeyFits
  BY DEF IInv
<1> QED
  BY <1>1, Invariance, PTL

\* Quitting and being killed, at whatever step, leaves the journal and the key of a
\* mosh session that goes on, unless there was no time to store the key.
THEOREM KeptStaysResumable == Spec => []KeptIsResumable
<1>1. IInv => KeptIsResumable
  BY DEF IInv, Left, KeptIsResumable
<1> QED
  BY <1>1, Invariance, PTL
=============================================================================
