--------------------------- MODULE MoshInputProofs ---------------------------
(***************************************************************************)
(* Proofs about what MoshSender promises the user: the server takes what   *)
(* was typed, in order and once, the client and every later start of the   *)
(* app can always bring it forward, and the end of a session comes after   *)
(* all of the input.  As long as no rewriteJournal() is cut, MoshSender    *)
(* implements MoshInput, step by step.                                     *)
(*                                                                         *)
(* The argument is about what a state number stands for, which a server    *)
(* that has the number takes for granted: meant[n] is that much of the     *)
(* input, in memory, in the journal, in every packet that may still come   *)
(* and in every state of the server.                                       *)
(***************************************************************************)
EXTENDS MoshSenderProofs

\* Events are consecutive stretches of the input, and go up to all of it.
Chain(es, all) ==
  /\ \A i \in 1 .. Len(es) : 0 < es[i].first /\ es[i].first <= es[i].last
  /\ \A i \in 2 .. Len(es) : es[i].first = es[i - 1].last + 1
  /\ es # <<>> => es[Len(es)].last = all

\* InputBefore() with all of the input as a parameter.
Amount(event, base, es, all) ==
  IF event < base + Len(es) THEN es[(event - base) + 1].first - 1 ELSE all

\* Later states have later numbers and more of the input.
Ordered(ss) ==
  \A i, j \in 1 .. Len(ss) : i < j => ss[i].num <= ss[j].num /\ ss[i].events <= ss[j].events

\* The number of each state stands for the input before the event the state
\* counts to, which is still there to tell.
Stands(ss, base, es, all, means) ==
  \A i \in 1 .. Len(ss) :
    /\ base <= ss[i].events /\ ss[i].events <= base + Len(es)
    /\ ss[i].num \in DOMAIN means
    /\ means[ss[i].num] = Amount(ss[i].events, base, es, all)

\* Every state of the one is a state of the other.
Among(some, ss) == \A i \in 1 .. Len(some) : \E j \in 1 .. Len(ss) : some[i] = ss[j]

\* A journal that a restart can go on from with nothing lost.
Whole(d, all, means) ==
  /\ Chain(d.events, all) /\ Ordered(d.sent)
  /\ Stands(d.sent, d.base, d.events, all, means)
  /\ \E i \in 1 .. Len(d.sent) : d.sent[i].num = d.front

\* A journal that has at least what is in memory.
Covers(d, base, ss) == d.front = ss[1].num /\ d.base <= base /\ Among(ss, d.sent)

\* The server has a state, and all it acknowledged since, whatever packets come.
Kept(front) ==
  /\ front \in DOMAIN states
  /\ \A m \in toServer : m.throwaway <= front
  /\ \A n \in acks : n >= front => n \in DOMAIN states

NumbersRise ==
  /\ \A n \in DOMAIN meant : n <= Shutdown /\ meant[n] <= typed
  /\ \A n, k \in DOMAIN meant : n <= k => meant[n] <= meant[k]

MemoryHeld ==
  up => /\ Chain(events, typed) /\ Ordered(sent)
        /\ Stands(sent, eventBase, events, typed, meant)

JournalHeld == Readable(disk) => Whole(disk, typed, meant)

BothHeld == up /\ Readable(disk) => Covers(disk, eventBase, sent)

\* A packet the server can use makes one number's input into the other's.
PacketsHeld ==
  \A m \in toServer :
    /\ m.old \in DOMAIN meant
    /\ m.old # m.new => Run(1, meant[m.old]) \o m.diff = Run(1, meant[m.new])
    /\ \E n \in DOMAIN states : m.throwaway <= n

StatesHeld == \A n \in DOMAIN states : states[n] = Run(1, meant[n])

FrontsKept ==
  /\ up => Kept(sent[1].num)
  /\ Readable(disk) => Kept(disk.front)

HeldInv ==
  /\ NumbersRise /\ MemoryHeld /\ JournalHeld /\ BothHeld
  /\ PacketsHeld /\ StatesHeld /\ FrontsKept

\* A journal cut short loses input, and a restart from it gives the events
\* that are left other numbers.
UncutHeld == ~cut => HeldInv

-----------------------------------------------------------------------------
(* Stretches of the input *)

LEMMA RunLength ==
  ASSUME NEW n \in Nat
  PROVE  Run(1, n) \in Seq(Nat) /\ Len(Run(1, n)) = n
<1>1. (n + 1) - 1 = n
  OBVIOUS
<1>2. Run(1, n) = [i \in 1 .. n |-> (1 + i) - 1]
  BY <1>1 DEF Run
<1>3. \A i \in 1 .. n : (1 + i) - 1 \in Nat
  OBVIOUS
<1>4. Run(1, n) \in [1 .. n -> Nat]
  BY <1>2, <1>3
<1>5. QED
  BY <1>4

LEMMA RunsJoin ==
  ASSUME NEW n \in Nat, NEW k \in Nat, n <= k
  PROVE  Run(1, n) \o Run(n + 1, k) = Run(1, k)
<1>1. /\ Run(1, n) = [i \in 1 .. n |-> (1 + i) - 1]
      /\ Run(1, k) = [i \in 1 .. k |-> (1 + i) - 1]
      /\ Run(n + 1, k) = [i \in 1 .. k - n |-> ((n + 1) + i) - 1]
  <2>1. (n + 1) - 1 = n /\ (k + 1) - 1 = k /\ (k + 1) - (n + 1) = k - n
    OBVIOUS
  <2> QED BY <2>1 DEF Run
<1>2. k - n \in Nat
  OBVIOUS
<1>3. Run(1, n) \in Seq(Nat) /\ Len(Run(1, n)) = n /\ Run(1, k) \in Seq(Nat) /\ Len(Run(1, k)) = k
  BY RunLength
<1>4. Run(n + 1, k) \in Seq(Nat) /\ Len(Run(n + 1, k)) = k - n
  <2>1. \A i \in 1 .. k - n : ((n + 1) + i) - 1 \in Nat
    OBVIOUS
  <2>2. Run(n + 1, k) \in [1 .. k - n -> Nat]
    BY <2>1, <1>1
  <2> QED BY <2>2, <1>2
<1> DEFINE both == Run(1, n) \o Run(n + 1, k)
<1>5. /\ both \in Seq(Nat) /\ Len(both) = n + (k - n)
      /\ \A i \in 1 .. n + (k - n) :
           both[i] = IF i <= n THEN Run(1, n)[i] ELSE Run(n + 1, k)[i - n]
  BY <1>3, <1>4, ConcatProperties, SMTT(60)
<1> HIDE DEF both
<1>6. Len(both) = k /\ \A i \in 1 .. k : both[i] = Run(1, k)[i]
  <2>1. n + (k - n) = k
    OBVIOUS
  <2>2. ASSUME NEW i \in 1 .. k PROVE both[i] = Run(1, k)[i]
    <3>1. CASE i <= n
      BY <3>1, <2>1, <1>1, <1>5
    <3>2. CASE ~ (i <= n)
      <4>1. i - n \in 1 .. k - n /\ ((n + 1) + (i - n)) - 1 = (1 + i) - 1
        BY <3>2
      <4>2. Run(n + 1, k)[i - n] = ((n + 1) + (i - n)) - 1
        BY <4>1, <1>1
      <4>3. Run(1, k)[i] = (1 + i) - 1
        BY <1>1
      <4>4. both[i] = Run(n + 1, k)[i - n]
        BY <3>2, <2>1, <1>5
      <4> QED BY <4>1, <4>2, <4>3, <4>4
    <3> QED BY <3>1, <3>2
  <2> QED BY <2>1, <2>2, <1>5
<1>7. QED
  <2>1. both = Run(1, k)
    BY <1>3, <1>5, <1>6, SeqEqual
  <2> QED BY <2>1 DEF both

-----------------------------------------------------------------------------
(* Events and the states that count them *)

\* What an event is made of.
LEMMA EventsOf ==
  ASSUME NEW es \in Seq(Event)
  PROVE  /\ Len(es) \in Nat
         /\ \A i \in 1 .. Len(es) : es[i] \in Event /\ es[i].first \in Nat /\ es[i].last \in Nat
<1>1. Len(es) \in Nat /\ \A i \in 1 .. Len(es) : es[i] \in Event
  OBVIOUS
<1>2. \A e \in Event : e.first \in Nat /\ e.last \in Nat
  BY DEF Event
<1>3. QED
  BY <1>1, <1>2

\* Dropping events from the front changes no amount after them.
LEMMA SuffixStands ==
  ASSUME NEW es \in Seq(Event), NEW base \in Nat, NEW to \in Nat,
         base <= to, to <= base + Len(es), NEW all, Chain(es, all)
  PROVE  LET rest == SubSeq(es, (to - base) + 1, Len(es))
         IN  /\ rest \in Seq(Event) /\ Len(rest) = (base + Len(es)) - to
             /\ \A i \in 1 .. Len(rest) : rest[i] = es[(to - base) + i]
             /\ Chain(rest, all)
             /\ \A means : \A ss \in Seq(SentState) :
                  /\ Stands(ss, base, es, all, means)
                  /\ \A i \in 1 .. Len(ss) : to <= ss[i].events
                  => Stands(ss, to, rest, all, means)
<1> DEFINE k == to - base
           rest == SubSeq(es, (to - base) + 1, Len(es))
<1>1. /\ Len(es) \in Nat /\ k \in Nat /\ k <= Len(es)
      /\ \A i \in 1 .. Len(es) : es[i] \in Event /\ es[i].first \in Nat /\ es[i].last \in Nat
  BY EventsOf
<1>2. /\ rest \in Seq(Event)
      /\ Len(rest) = IF k + 1 <= Len(es) THEN Len(es) - (k + 1) + 1 ELSE 0
      /\ \A i \in 1 .. Len(es) - (k + 1) + 1 : rest[i] = es[(k + 1) + i - 1]
  <2>1. \A i \in k + 1 .. Len(es) : es[i] \in Event
    BY <1>1
  <2>2. k + 1 \in Int /\ Len(es) \in Int
    BY <1>1
  <2> QED BY <2>1, <2>2, SubSeqProperties, SMTT(40)
<1> HIDE DEF rest, k
<1>3. Len(rest) = Len(es) - k /\ \A i \in 1 .. Len(rest) : rest[i] = es[k + i]
  BY <1>1, <1>2
<1>4. Len(es) - k = (base + Len(es)) - to /\ base + k = to
  BY <1>1 DEF k
<1>5. Chain(rest, all)
  <2>1. ASSUME NEW i \in 1 .. Len(rest) PROVE 0 < rest[i].first /\ rest[i].first <= rest[i].last
    <3>1. k + i \in 1 .. Len(es) /\ rest[i] = es[k + i]
      BY <1>1, <1>3
    <3>2. \A j \in 1 .. Len(es) : 0 < es[j].first /\ es[j].first <= es[j].last
      BY DEF Chain
    <3>3. 0 < es[k + i].first /\ es[k + i].first <= es[k + i].last
      BY <3>1, <3>2
    <3> QED BY <3>1, <3>3
  <2>2. ASSUME NEW i \in 2 .. Len(rest) PROVE rest[i].first = rest[i - 1].last + 1
    <3>1. /\ i - 1 \in 1 .. Len(rest) /\ i \in 1 .. Len(rest)
          /\ k + i \in 2 .. Len(es) /\ k + (i - 1) = (k + i) - 1
      BY <1>1, <1>3
    <3>2. rest[i] = es[k + i] /\ rest[i - 1] = es[(k + i) - 1]
      BY <3>1, <1>3
    <3> QED BY <3>1, <3>2 DEF Chain
  <2>3. ASSUME rest # <<>> PROVE rest[Len(rest)].last = all
    <3>1. Len(rest) \in 1 .. Len(rest) /\ k + Len(rest) = Len(es) /\ es # <<>>
      BY <2>3, <1>1, <1>2, <1>3, EmptySeq
    <3> QED BY <3>1, <1>3 DEF Chain
  <2> QED BY <2>1, <2>2, <2>3 DEF Chain
<1>6. ASSUME NEW ss \in Seq(SentState), NEW means, Stands(ss, base, es, all, means),
             \A i \in 1 .. Len(ss) : to <= ss[i].events
      PROVE  Stands(ss, to, rest, all, means)
  <2> SUFFICES ASSUME NEW i \in 1 .. Len(ss)
               PROVE  /\ to <= ss[i].events /\ ss[i].events <= to + Len(rest)
                      /\ ss[i].num \in DOMAIN means
                      /\ means[ss[i].num] = Amount(ss[i].events, to, rest, all)
    BY DEF Stands
  <2>1. /\ to <= ss[i].events /\ ss[i].events <= base + Len(es) /\ ss[i].num \in DOMAIN means
        /\ means[ss[i].num] = Amount(ss[i].events, base, es, all)
    BY <1>6 DEF Stands
  <2>2. ss[i].events \in Nat
    BY StatesOf
  <2>3. to + Len(rest) = base + Len(es)
    BY <1>1, <1>3, <1>4
  <2>4. Amount(ss[i].events, base, es, all) = Amount(ss[i].events, to, rest, all)
    <3>1. CASE ss[i].events < to + Len(rest)
      <4>1. /\ (ss[i].events - to) + 1 \in 1 .. Len(rest)
            /\ k + ((ss[i].events - to) + 1) = (ss[i].events - base) + 1
        <5>1. Len(rest) \in Nat /\ k \in Nat /\ base + k = to
          BY <1>1, <1>3, <1>4
        <5>2. to <= ss[i].events /\ ss[i].events \in Nat
          BY <2>1, <2>2
        <5>3. \A x, n \in Nat : to <= x /\ x < to + n =>
                 /\ (x - to) + 1 \in 1 .. n
                 /\ k + ((x - to) + 1) = (x - base) + 1
          BY <5>1
        <5> QED BY <5>1, <5>2, <5>3, <3>1
      <4>2. rest[(ss[i].events - to) + 1] = es[(ss[i].events - base) + 1]
        BY <4>1, <1>3
      <4> QED BY <4>2, <3>1, <2>3 DEF Amount
    <3>2. CASE ~ (ss[i].events < to + Len(rest))
      BY <3>2, <2>3 DEF Amount
    <3> QED BY <3>1, <3>2
  <2> QED BY <2>1, <2>3, <2>4
<1>7. QED
  BY <1>2, <1>3, <1>4, <1>5, <1>6 DEF rest, k

\* An event that no state counts grows by the next input.
LEMMA GrownStands ==
  ASSUME NEW es \in Seq(Event), es # <<>>, typed \in Nat, Chain(es, typed)
  PROVE  /\ Chain(Grown(es), typed + 1)
         /\ \A means : \A ss \in Seq(SentState), base \in Nat :
              /\ Stands(ss, base, es, typed, means)
              /\ \A i \in 1 .. Len(ss) : ss[i].events < base + Len(es)
              => Stands(ss, base, Grown(es), typed + 1, means)
<1> DEFINE g == Grown(es)
<1>1. /\ Len(es) \in Nat \ {0}
      /\ \A i \in 1 .. Len(es) : es[i] \in Event /\ es[i].first \in Nat /\ es[i].last \in Nat
  BY EventsOf, EmptySeq
<1>2. g \in Seq(Event) /\ Len(g) = Len(es)
  BY EventsFit
<1>3. /\ \A i \in 1 .. Len(es) : g[i].first = es[i].first
      /\ \A i \in 1 .. Len(es) : i # Len(es) => g[i] = es[i]
      /\ g[Len(es)].last = typed + 1
  <2>1. es \in [1 .. Len(es) -> Event]
    BY <1>1
  <2>2. g = [es EXCEPT ![Len(es)] = [es[Len(es)] EXCEPT !.last = typed + 1]]
    BY DEF Grown
  <2>3. /\ g[Len(es)] = [es[Len(es)] EXCEPT !.last = typed + 1]
        /\ \A i \in 1 .. Len(es) : i # Len(es) => g[i] = es[i]
    BY <2>1, <2>2, <1>1
  <2>4. g[Len(es)].last = typed + 1 /\ g[Len(es)].first = es[Len(es)].first
    BY <2>3, <1>1 DEF Event
  <2> QED BY <2>3, <2>4
<1> HIDE DEF g
<1>4. Chain(g, typed + 1)
  <2>1. ASSUME NEW i \in 1 .. Len(g) PROVE 0 < g[i].first /\ g[i].first <= g[i].last
    <3>1. CASE i = Len(es)
      <4>1. 0 < es[i].first /\ es[i].first <= typed
        BY <3>1, <1>1, <1>2 DEF Chain
      <4> QED BY <4>1, <3>1, <1>1, <1>2, <1>3
    <3>2. CASE i # Len(es)
      BY <3>2, <1>1, <1>2, <1>3 DEF Chain
    <3> QED BY <3>1, <3>2
  <2>2. ASSUME NEW i \in 2 .. Len(g) PROVE g[i].first = g[i - 1].last + 1
    <3>1. i - 1 \in 1 .. Len(es) /\ i - 1 # Len(es) /\ i \in 1 .. Len(es) /\ i \in 2 .. Len(es)
      BY <1>1, <1>2
    <3> QED BY <3>1, <1>3 DEF Chain
  <2>3. g[Len(g)].last = typed + 1
    BY <1>2, <1>3
  <2> QED BY <2>1, <2>2, <2>3 DEF Chain
<1>5. ASSUME NEW ss \in Seq(SentState), NEW means, NEW base \in Nat,
             Stands(ss, base, es, typed, means),
             \A i \in 1 .. Len(ss) : ss[i].events < base + Len(es)
      PROVE  Stands(ss, base, g, typed + 1, means)
  <2> SUFFICES ASSUME NEW i \in 1 .. Len(ss)
               PROVE  /\ base <= ss[i].events /\ ss[i].events <= base + Len(g)
                      /\ ss[i].num \in DOMAIN means
                      /\ means[ss[i].num] = Amount(ss[i].events, base, g, typed + 1)
    BY DEF Stands
  <2>1. /\ base <= ss[i].events /\ ss[i].events < base + Len(es) /\ ss[i].num \in DOMAIN means
        /\ ss[i].events <= base + Len(es)
        /\ means[ss[i].num] = Amount(ss[i].events, base, es, typed)
    BY <1>5 DEF Stands
  <2>2. ss[i].events \in Nat
    BY StatesOf
  <2>3. (ss[i].events - base) + 1 \in 1 .. Len(es)
    BY <2>1, <2>2, <1>1
  <2>4. Amount(ss[i].events, base, g, typed + 1) = Amount(ss[i].events, base, es, typed)
    BY <2>1, <2>3, <1>2, <1>3 DEF Amount
  <2> QED BY <2>1, <2>4, <1>2
<1>6. QED
  BY <1>4, <1>5 DEF g

\* The next input is an event of its own.
LEMMA AppendStands ==
  ASSUME NEW es \in Seq(Event), typed \in Nat, Chain(es, typed), NEW isResize \in BOOLEAN
  PROVE  /\ Chain(Append(es, Input(isResize)), typed + 1)
         /\ \A means : \A ss \in Seq(SentState), base \in Nat :
              Stands(ss, base, es, typed, means)
                => Stands(ss, base, Append(es, Input(isResize)), typed + 1, means)
<1> DEFINE e == Input(isResize)
           g == Append(es, e)
<1>1. /\ Len(es) \in Nat
      /\ \A i \in 1 .. Len(es) : es[i] \in Event /\ es[i].first \in Nat /\ es[i].last \in Nat
  BY EventsOf
<1>2. e \in Event /\ e.first = typed + 1 /\ e.last = typed + 1
  BY DEF Input, Event
<1> HIDE DEF e
<1>3. /\ g \in Seq(Event) /\ Len(g) = Len(es) + 1 /\ g[Len(es) + 1] = e
      /\ \A i \in 1 .. Len(es) : g[i] = es[i]
  BY <1>2, AppendProperties
<1> HIDE DEF g
<1>4. Chain(g, typed + 1)
  <2>1. ASSUME NEW i \in 1 .. Len(g) PROVE 0 < g[i].first /\ g[i].first <= g[i].last
    <3>1. CASE i = Len(es) + 1
      BY <3>1, <1>2, <1>3
    <3>2. CASE i # Len(es) + 1
      <4>1. i \in 1 .. Len(es)
        BY <3>2, <1>1, <1>3
      <4> QED BY <4>1, <1>3 DEF Chain
    <3> QED BY <3>1, <3>2
  <2>2. ASSUME NEW i \in 2 .. Len(g) PROVE g[i].first = g[i - 1].last + 1
    <3>1. CASE i = Len(es) + 1
      <4>1. i - 1 = Len(es) /\ Len(es) \in 1 .. Len(es) /\ es # <<>>
        BY <3>1, <1>1, EmptySeq
      <4>2. g[i - 1].last = typed
        BY <4>1, <1>3 DEF Chain
      <4> QED BY <4>2, <3>1, <1>2, <1>3
    <3>2. CASE i # Len(es) + 1
      <4>1. i \in 2 .. Len(es) /\ i \in 1 .. Len(es) /\ i - 1 \in 1 .. Len(es)
        BY <3>2, <1>1, <1>3
      <4> QED BY <4>1, <1>3 DEF Chain
    <3> QED BY <3>1, <3>2
  <2>3. g[Len(g)].last = typed + 1
    BY <1>2, <1>3
  <2> QED BY <2>1, <2>2, <2>3 DEF Chain
<1>5. ASSUME NEW ss \in Seq(SentState), NEW means, NEW base \in Nat,
             Stands(ss, base, es, typed, means)
      PROVE  Stands(ss, base, g, typed + 1, means)
  <2> SUFFICES ASSUME NEW i \in 1 .. Len(ss)
               PROVE  /\ base <= ss[i].events /\ ss[i].events <= base + Len(g)
                      /\ ss[i].num \in DOMAIN means
                      /\ means[ss[i].num] = Amount(ss[i].events, base, g, typed + 1)
    BY DEF Stands
  <2>1. /\ base <= ss[i].events /\ ss[i].events <= base + Len(es) /\ ss[i].num \in DOMAIN means
        /\ means[ss[i].num] = Amount(ss[i].events, base, es, typed)
    BY <1>5 DEF Stands
  <2>2. ss[i].events \in Nat /\ ss[i].events < base + Len(g) /\ ss[i].events <= base + Len(g)
    BY <2>1, <1>1, <1>3, StatesOf
  <2>3. Amount(ss[i].events, base, g, typed + 1) = Amount(ss[i].events, base, es, typed)
    <3>1. CASE ss[i].events < base + Len(es)
      <4>1. (ss[i].events - base) + 1 \in 1 .. Len(es)
        BY <3>1, <2>1, <2>2, <1>1, SMTT(40)
      <4> QED BY <4>1, <3>1, <2>2, <1>3 DEF Amount
    <3>2. CASE ~ (ss[i].events < base + Len(es))
      <4>1. (ss[i].events - base) + 1 = Len(es) + 1
        BY <3>2, <2>1, <2>2, <1>1
      <4>2. Amount(ss[i].events, base, g, typed + 1) = (typed + 1) - 1
        BY <4>1, <2>2, <1>2, <1>3 DEF Amount
      <4> QED BY <4>2, <3>2 DEF Amount
    <3> QED BY <3>1, <3>2
  <2> QED BY <2>1, <2>2, <2>3
<1>6. QED
  BY <1>4, <1>5 DEF g, e

\* Fewer states, and more numbers, change nothing about what states stand for.
LEMMA StandsAmong ==
  ASSUME NEW ss, NEW some, NEW base, NEW es, NEW all, NEW means, NEW means2,
         Stands(ss, base, es, all, means), Among(some, ss),
         DOMAIN means \subseteq DOMAIN means2, \A n \in DOMAIN means : means2[n] = means[n]
  PROVE  Stands(some, base, es, all, means2)
BY DEF Stands, Among

\* The states from a number on, which is there, begin with it.
LEMMA DropHeld ==
  ASSUME NEW ss \in Seq(SentState), Ordered(ss), NEW num \in Nat,
         NEW i \in 1 .. Len(ss), ss[i].num = num
  PROVE  LET kept == DropBefore(ss, num)
         IN  /\ kept \in Seq(SentState) /\ kept # <<>>
             /\ kept[1].num = num /\ Ordered(kept) /\ Among(kept, ss)
             /\ kept[Len(kept)] = ss[Len(ss)]
<1> DEFINE kept == DropBefore(ss, num)
           from == From(ss, num)
<1>1. /\ Len(ss) \in Nat
      /\ \A j \in 1 .. Len(ss) : ss[j].num \in Nat /\ ss[j].events \in Nat
  BY StatesOf
<1>2. /\ kept \in Seq(SentState) /\ kept # <<>>
      /\ from \in 1 .. Len(ss) + 1 /\ Len(kept) = (Len(ss) + 1) - from
      /\ \A j \in 1 .. Len(kept) : kept[j] = ss[(from + j) - 1]
      /\ kept[1].num >= num
      /\ kept[Len(kept)] = ss[Len(ss)]
  <2>1. ss[i].num >= num
    BY <1>1
  <2> QED BY <2>1, DropBeforeFits
<1>3. \A j \in 1 .. from - 1 : ss[j].num < num
  BY FromFits
<1> HIDE DEF kept, from
<1>4. from <= i /\ from \in 1 .. Len(ss)
  <2>1. ~ (i \in 1 .. from - 1)
    BY <1>1, <1>3
  <2> QED BY <2>1, <1>1, <1>2, SMTT(60)
<1>5. kept[1].num = num
  <2>1. ss[from].num <= ss[i].num
    BY <1>1, <1>4 DEF Ordered
  <2>2. 1 \in 1 .. Len(kept) /\ kept[1] = ss[(from + 1) - 1] /\ (from + 1) - 1 = from
    BY <1>1, <1>2, <1>4
  <2> QED BY <2>1, <2>2, <1>1, <1>2, <1>4
<1>6. \A j \in 1 .. Len(kept) : (from + j) - 1 \in 1 .. Len(ss)
  BY <1>1, <1>2, <1>4
<1>7. Ordered(kept)
  <2> SUFFICES ASSUME NEW a \in 1 .. Len(kept), NEW b \in 1 .. Len(kept), a < b
               PROVE  kept[a].num <= kept[b].num /\ kept[a].events <= kept[b].events
    BY DEF Ordered
  <2>1. (from + a) - 1 < (from + b) - 1
    BY <1>4
  <2> QED BY <2>1, <1>2, <1>6 DEF Ordered
<1>8. Among(kept, ss)
  BY <1>2, <1>6 DEF Among
<1>9. QED
  BY <1>2, <1>5, <1>7, <1>8 DEF kept

\* What a cull leaves, and where: the front stays, and when a state goes the
\* last one is in the place of the one before it.
LEMMA CullHeld ==
  ASSUME NEW ss \in Seq(SentState), ss # <<>>
  PROVE  LET rest == Cull(ss)
         IN  /\ Among(rest, ss) /\ (Ordered(ss) => Ordered(rest))
             /\ rest[1] = ss[1]
             /\ \/ rest = ss
                \/ Len(rest) = Len(ss) - 1 /\ rest[Len(rest)] = ss[Len(ss)]
<1>1. /\ Len(ss) \in Nat \ {0}
      /\ \A i \in 1 .. Len(ss) : ss[i].num \in Nat /\ ss[i].events \in Nat /\ ss[i] \in SentState
  BY StatesOf, EmptySeq
<1>2. CASE Len(ss) <= MaxSentStates
  <2>1. Cull(ss) = ss
    BY <1>2, LenProperties, SenderAssumption DEF Cull
  <2> QED BY <2>1 DEF Among
<1>3. CASE Len(ss) > MaxSentStates
  <2> DEFINE k == (Len(ss) - CullBack) + 1
             a == SubSeq(ss, 1, k - 1)
             b == SubSeq(ss, k + 1, Len(ss))
             rest == a \o b
             at(i) == IF i < k THEN i ELSE i + 1
  <2>1. k \in 2 .. Len(ss) - 1
    BY <1>1, <1>3, SenderAssumption
  <2>2. Cull(ss) = rest
    BY <1>3 DEF Cull, RemoveAt
  <2> HIDE DEF k
  <2>3. /\ a \in Seq(SentState) /\ Len(a) = k - 1
        /\ \A i \in 1 .. k - 1 : a[i] = ss[i]
    <3>1. k - 1 \in 0 .. Len(ss)
      BY <1>1, <2>1
    <3> QED BY <3>1, PrefixFits
  <2>4. /\ b \in Seq(SentState) /\ Len(b) = Len(ss) - k
        /\ \A i \in 1 .. Len(ss) - k : b[i] = ss[k + i]
    <3>1. \A i \in k + 1 .. Len(ss) : ss[i] \in SentState
      BY <1>1, <2>1
    <3>2. k + 1 \in Int /\ Len(ss) \in Int
      BY <1>1, <2>1
    <3>3. /\ b \in Seq(SentState)
          /\ Len(b) = IF k + 1 <= Len(ss) THEN Len(ss) - (k + 1) + 1 ELSE 0
          /\ \A i \in 1 .. Len(ss) - (k + 1) + 1 : b[i] = ss[(k + 1) + i - 1]
      BY <3>1, <3>2, SubSeqProperties
    <3> QED BY <3>3, <1>1, <2>1
  <2> HIDE DEF a, b
  <2>5. /\ rest \in Seq(SentState) /\ Len(rest) = Len(a) + Len(b)
        /\ \A i \in 1 .. Len(a) + Len(b) : rest[i] = IF i <= Len(a) THEN a[i] ELSE b[i - Len(a)]
    BY <2>3, <2>4, ConcatProperties
  <2> HIDE DEF rest
  <2>6. Len(rest) = Len(ss) - 1 /\ Len(a) + Len(b) = Len(ss) - 1
    BY <1>1, <2>1, <2>3, <2>4, <2>5
  <2>7. ASSUME NEW i \in 1 .. Len(rest)
        PROVE  at(i) \in 1 .. Len(ss) /\ rest[i] = ss[at(i)]
    <3>1. CASE i < k
      BY <3>1, <1>1, <2>1, <2>3, <2>5, <2>6
    <3>2. CASE ~ (i < k)
      <4>1. /\ i - Len(a) \in 1 .. Len(ss) - k /\ k + (i - Len(a)) = i + 1
            /\ ~ (i <= Len(a)) /\ i + 1 \in 1 .. Len(ss)
        BY <3>2, <1>1, <2>1, <2>3, <2>6
      <4>2. rest[i] = b[i - Len(a)]
        BY <4>1, <2>5, <2>6
      <4>3. b[i - Len(a)] = ss[i + 1]
        BY <4>1, <2>4
      <4> QED BY <4>1, <4>2, <4>3, <3>2
    <3> QED BY <3>1, <3>2
  <2>8. Among(rest, ss)
    BY <2>7 DEF Among
  <2>9. ASSUME Ordered(ss) PROVE Ordered(rest)
    <3> SUFFICES ASSUME NEW i \in 1 .. Len(rest), NEW j \in 1 .. Len(rest), i < j
                 PROVE  rest[i].num <= rest[j].num /\ rest[i].events <= rest[j].events
      BY DEF Ordered
    <3>1. at(i) < at(j)
      BY <1>1, <2>1, <2>6
    <3>2. /\ at(i) \in 1 .. Len(ss) /\ at(j) \in 1 .. Len(ss)
          /\ rest[i] = ss[at(i)] /\ rest[j] = ss[at(j)]
      BY <2>7
    <3> HIDE DEF at
    <3> QED BY <3>1, <3>2, <2>9 DEF Ordered
  <2>10. rest[1] = ss[1]
    <3>1. 1 \in 1 .. Len(rest) /\ at(1) = 1
      BY <1>1, <2>1, <2>6
    <3> HIDE DEF at
    <3> QED BY <3>1, <2>7
  <2>11. rest[Len(rest)] = ss[Len(ss)]
    <3>1. Len(rest) \in 1 .. Len(rest) /\ at(Len(rest)) = Len(ss)
      BY <1>1, <2>1, <2>6
    <3> HIDE DEF at
    <3> QED BY <3>1, <2>7
  <2> QED BY <2>2, <2>6, <2>8, <2>9, <2>10, <2>11
<1>4. QED
  BY <1>1, <1>2, <1>3, SenderAssumption

\* A state with all of the input, under a number that is not lower.
LEMMA AppendHeld ==
  ASSUME NEW ss \in Seq(SentState), Ordered(ss), NEW s \in SentState,
         ss # <<>> => ss[Len(ss)].num <= s.num,
         NEW base, NEW es, NEW all, NEW means, Stands(ss, base, es, all, means),
         base <= s.events, s.events = base + Len(es),
         s.num \in DOMAIN means, means[s.num] = all
  PROVE  /\ Ordered(Append(ss, s)) /\ Stands(Append(ss, s), base, es, all, means)
         /\ Among(ss, Append(ss, s))
<1> DEFINE g == Append(ss, s)
<1>1. /\ Len(ss) \in Nat
      /\ \A i \in 1 .. Len(ss) : ss[i].num \in Nat /\ ss[i].events \in Nat
      /\ ss # <<>> => Len(ss) \in 1 .. Len(ss)
      /\ s.num \in Nat /\ s.events \in Nat
  BY StatesOf DEF SentState
<1>2. /\ Len(g) = Len(ss) + 1 /\ g[Len(ss) + 1] = s
      /\ \A i \in 1 .. Len(ss) : g[i] = ss[i]
  BY AppendProperties
<1> HIDE DEF g
<1>3. \A i \in 1 .. Len(g) : i = Len(ss) + 1 \/ i \in 1 .. Len(ss)
  BY <1>1, <1>2
<1>4. \A i \in 1 .. Len(ss) : ss[i].num <= s.num /\ ss[i].events <= s.events
  <2> SUFFICES ASSUME NEW i \in 1 .. Len(ss)
               PROVE  ss[i].num <= s.num /\ ss[i].events <= s.events
    OBVIOUS
  <2>1. ss # <<>> /\ ss[Len(ss)].num <= s.num /\ Len(ss) \in 1 .. Len(ss)
    BY <1>1, EmptySeq
  <2>2. ss[i].num <= ss[Len(ss)].num
    BY <2>1, <1>1 DEF Ordered
  <2>3. ss[i].events <= base + Len(es)
    BY DEF Stands
  <2> QED BY <2>1, <2>2, <2>3, <1>1
<1>5. Ordered(g)
  <2> SUFFICES ASSUME NEW i \in 1 .. Len(g), NEW j \in 1 .. Len(g), i < j
               PROVE  g[i].num <= g[j].num /\ g[i].events <= g[j].events
    BY DEF Ordered
  <2>1. i \in 1 .. Len(ss)
    BY <1>1, <1>2
  <2>2. CASE j = Len(ss) + 1
    BY <2>1, <2>2, <1>2, <1>4
  <2>3. CASE j \in 1 .. Len(ss)
    BY <2>1, <2>3, <1>2 DEF Ordered
  <2> QED BY <2>2, <2>3, <1>3
<1>6. Stands(g, base, es, all, means)
  <2> SUFFICES ASSUME NEW i \in 1 .. Len(g)
               PROVE  /\ base <= g[i].events /\ g[i].events <= base + Len(es)
                      /\ g[i].num \in DOMAIN means
                      /\ means[g[i].num] = Amount(g[i].events, base, es, all)
    BY DEF Stands
  <2>1. CASE i = Len(ss) + 1
    <3>1. g[i] = s
      BY <2>1, <1>2
    <3>2. ~ (s.events < base + Len(es)) /\ s.events <= base + Len(es)
      BY <1>1
    <3> QED BY <3>1, <3>2 DEF Amount
  <2>2. CASE i \in 1 .. Len(ss)
    BY <2>2, <1>2 DEF Stands
  <2> QED BY <2>1, <2>2, <1>3
<1>7. Among(ss, g)
  BY <1>1, <1>2 DEF Among
<1>8. QED
  BY <1>5, <1>6, <1>7 DEF g

\* calculateTimers() drops the events that the front counts, and no others.
LEMMA TrimHeld ==
  ASSUME Types, sent # <<>>, Ordered(sent), Chain(events, typed),
         Stands(sent, eventBase, events, typed, meant)
  PROVE  /\ TrimmedBase \in Nat /\ eventBase <= TrimmedBase /\ Trimmed \in Seq(Event)
         /\ TrimmedBase + Len(Trimmed) = Total /\ Total \in Nat
         /\ Chain(Trimmed, typed) /\ Stands(sent, TrimmedBase, Trimmed, typed, meant)
<1>1. /\ Len(sent) \in 1 .. Len(sent) /\ Len(sent) \in Nat /\ eventBase \in Nat
      /\ \A i \in 1 .. Len(sent) : sent[i].num \in Nat /\ sent[i].events \in Nat
      /\ events \in Seq(Event) /\ Len(events) \in Nat /\ sent \in Seq(SentState)
  BY StatesOf, EventsOf DEF Types
<1>2. eventBase <= sent[1].events /\ sent[1].events <= eventBase + Len(events)
  BY <1>1 DEF Stands
<1>3. TrimmedBase = sent[1].events
  BY <1>1, <1>2 DEF TrimmedBase, NatMax
<1>4. \A i \in 1 .. Len(sent) : sent[1].events <= sent[i].events
  BY <1>1 DEF Ordered
<1>5. /\ Trimmed \in Seq(Event) /\ Len(Trimmed) = (eventBase + Len(events)) - TrimmedBase
      /\ Chain(Trimmed, typed) /\ Stands(sent, TrimmedBase, Trimmed, typed, meant)
  <2> DEFINE to == sent[1].events
  <2>1. to \in Nat /\ eventBase <= to /\ to <= eventBase + Len(events) /\ TrimmedBase = to
    BY <1>1, <1>2, <1>3
  <2>2. Trimmed = SubSeq(events, (to - eventBase) + 1, Len(events))
    BY <1>3 DEF Trimmed
  <2>3. \A i \in 1 .. Len(sent) : to <= sent[i].events
    BY <1>4
  <2> HIDE DEF to
  <2>4. /\ Trimmed \in Seq(Event) /\ Len(Trimmed) = (eventBase + Len(events)) - to
        /\ Chain(Trimmed, typed)
    BY <2>1, <2>2, <1>1, SuffixStands
  <2>5. Stands(sent, to, Trimmed, typed, meant)
    BY <2>1, <2>2, <2>3, <1>1, SuffixStands
  <2> QED BY <2>1, <2>4, <2>5
<1>6. QED
  BY <1>1, <1>2, <1>3, <1>5 DEF Total

\* userDiff() has all of the input after what the state assumed stands for.
LEMMA DiffHeld ==
  ASSUME Types, sent # <<>>, Ordered(sent), Chain(events, typed),
         Stands(sent, eventBase, events, typed, meant),
         \A n \in DOMAIN meant : meant[n] \in Nat /\ meant[n] <= typed,
         NEW i \in 1 .. Len(sent)
  PROVE  /\ sent[i].num \in DOMAIN meant
         /\ Run(1, meant[sent[i].num]) \o Diff(sent[i].events) = Run(1, typed)
<1> DEFINE from == sent[i].events
           at == (NatMax(from, TrimmedBase) - TrimmedBase) + 1
           es == SubSeq(Trimmed, at, Len(Trimmed))
           before == meant[sent[i].num]
<1>1. /\ TrimmedBase \in Nat /\ Trimmed \in Seq(Event)
      /\ Chain(Trimmed, typed) /\ Stands(sent, TrimmedBase, Trimmed, typed, meant)
  BY TrimHeld
<1>2. /\ TrimmedBase <= from /\ from <= TrimmedBase + Len(Trimmed)
      /\ sent[i].num \in DOMAIN meant
      /\ before = Amount(from, TrimmedBase, Trimmed, typed)
  BY <1>1 DEF Stands
<1>3. from \in Nat /\ typed \in Nat /\ before \in Nat /\ before <= typed
  BY <1>2, StatesOf DEF Types
<1> HIDE DEF before, from
<1>4. at = (from - TrimmedBase) + 1
  BY <1>1, <1>2, <1>3 DEF NatMax
<1> HIDE DEF at
<1>5. /\ es \in Seq(Event) /\ Len(es) = (TrimmedBase + Len(Trimmed)) - from
      /\ \A j \in 1 .. Len(es) : es[j] = Trimmed[(from - TrimmedBase) + j]
      /\ Chain(es, typed)
  BY <1>1, <1>2, <1>3, <1>4, SuffixStands
<1>6. Diff(from) = IF es = <<>> THEN <<>> ELSE Run(es[1].first, es[Len(es)].last)
  BY DEF Diff, at
<1> HIDE DEF es
<1>7. Len(es) \in Nat /\ Len(Trimmed) \in Nat /\ \A j \in 1 .. Len(es) : es[j].first \in Nat
  BY <1>1, <1>5, EventsOf
<1>8. CASE es = <<>>
  <2>1. Len(es) = 0 /\ TrimmedBase + Len(Trimmed) \in Nat
    BY <1>1, <1>7, <1>8
  <2>2. ~ (from < TrimmedBase + Len(Trimmed))
    <3>1. (TrimmedBase + Len(Trimmed)) - from = 0
      BY <2>1, <1>5
    <3> QED BY <2>1, <3>1, <1>3
  <2>3. before = typed
    BY <2>2, <1>2 DEF Amount
  <2>4. Run(1, typed) \o <<>> = Run(1, typed)
    BY <1>3, RunLength, ConcatEmptySeq
  <2> QED BY <2>3, <2>4, <1>2, <1>6, <1>8 DEF from, before
<1>9. CASE es # <<>>
  <2>1. Len(es) > 0 /\ 1 \in 1 .. Len(es)
    BY <1>5, <1>7, <1>9, EmptySeq
  <2>2. from < TrimmedBase + Len(Trimmed)
    BY <2>1, <1>1, <1>3, <1>5, <1>7
  <2>3. before = es[1].first - 1
    BY <2>1, <2>2, <1>2, <1>5 DEF Amount
  <2>4. es[1].first = before + 1 /\ es[Len(es)].last = typed
    BY <2>1, <2>3, <1>5, <1>7, <1>9 DEF Chain
  <2>5. Run(1, before) \o Run(before + 1, typed) = Run(1, typed)
    BY <1>3, RunsJoin
  <2> QED BY <2>4, <2>5, <1>2, <1>6, <1>9 DEF from, before
<1>10. QED
  BY <1>8, <1>9

-----------------------------------------------------------------------------
(* What a packet keeps, whoever sends it *)

\* A packet from the front or the last state, with what the server lacks, or one
\* from a number to itself, which a server that has it never takes.
LEMMA PacketHeld ==
  ASSUME IInv, WireInv, NumbersRise, PacketsHeld, StatesHeld, NEW num \in Nat,
         \A n \in DOMAIN meant : num \in DOMAIN meant => meant[num] = typed,
         num <= Shutdown, \A n \in DOMAIN meant : num \notin DOMAIN meant => n <= num,
         typed' = typed, UNCHANGED <<states, acks>>,
         meant' = [n \in DOMAIN meant \cup {num} |-> IF n = num THEN typed ELSE meant[n]],
         NEW p, toServer' \subseteq toServer \cup {p}, p.new = num,
         NEW front \in DOMAIN states, p.throwaway = front,
         p.old = num \/ /\ p.old \in DOMAIN meant
                        /\ Run(1, meant[p.old]) \o p.diff = Run(1, typed)
  PROVE  NumbersRise' /\ PacketsHeld' /\ StatesHeld'
<1>1. /\ DOMAIN meant' = DOMAIN meant \cup {num} /\ meant'[num] = typed
      /\ \A n \in DOMAIN meant : meant'[n] = meant[n]
  OBVIOUS
<1>2. /\ DOMAIN meant \subseteq Nat /\ typed \in Nat /\ DOMAIN states \subseteq DOMAIN meant
      /\ \A n \in DOMAIN meant : meant[n] \in Nat
      /\ \A m \in toServer : m.new \in DOMAIN meant
  BY DEF IInv, Types, WireInv
<1> HIDE DEF IInv, WireInv
<1>3. NumbersRise'
  <2>1. ASSUME NEW n \in DOMAIN meant' PROVE n <= Shutdown /\ meant'[n] <= typed'
    <3>1. CASE n = num
      BY <3>1, <1>1, <1>2
    <3>2. CASE n # num
      BY <3>2, <1>1 DEF NumbersRise
    <3> QED BY <3>1, <3>2
  <2>2. ASSUME NEW n \in DOMAIN meant', NEW k \in DOMAIN meant', n <= k
        PROVE  meant'[n] <= meant'[k]
    <3>1. CASE n \in DOMAIN meant /\ k \in DOMAIN meant
      BY <3>1, <2>2, <1>1 DEF NumbersRise
    <3>2. CASE k = num
      BY <3>2, <2>1, <1>1
    <3>3. CASE k \in DOMAIN meant /\ n \notin DOMAIN meant
      <4>1. n = num /\ k <= num /\ k \in Nat
        BY <3>3, <1>1, <1>2
      <4>2. k = n
        BY <4>1, <2>2
      <4> QED BY <4>2, <3>3
    <3> QED BY <3>1, <3>2, <3>3, <1>1
  <2> QED BY <2>1, <2>2 DEF NumbersRise
<1>4. StatesHeld'
  BY <1>1, <1>2 DEF StatesHeld
<1>5. PacketsHeld'
  <2> SUFFICES ASSUME NEW m \in toServer'
               PROVE  /\ m.old \in DOMAIN meant'
                      /\ m.old # m.new => Run(1, meant'[m.old]) \o m.diff = Run(1, meant'[m.new])
                      /\ \E n \in DOMAIN states' : m.throwaway <= n
    BY DEF PacketsHeld
  <2>1. CASE m \in toServer
    BY <2>1, <1>1, <1>2 DEF PacketsHeld
  <2>2. CASE m = p
    <3>1. front <= front
      BY <1>2
    <3> QED BY <2>2, <3>1, <1>1
  <2> QED BY <2>1, <2>2
<1>6. QED
  BY <1>3, <1>4, <1>5

-----------------------------------------------------------------------------
(* tick() *)

\* The numbers tick() sends under: a new one, the shutdown's, or the last again.
Numbered(num) ==
  \/ ~shutdown /\ num = NewNum /\ num < Shutdown
  \/ shutdown /\ num = Shutdown
  \/ ~shutdown /\ num = LastSent.num /\ Total = LastSent.events

LEMMA NumberHeld ==
  ASSUME IInv, WireInv, NumbersRise, MemoryHeld, up, NEW num, Numbered(num)
  PROVE  /\ num \in Nat /\ num <= Shutdown /\ LastSent.num <= num
         /\ num \in DOMAIN meant => meant[num] = typed
         /\ num \notin DOMAIN meant => \A n \in DOMAIN meant : n <= num
<1>1. /\ sent \in Seq(SentState) /\ sent # <<>> /\ stateFloor \in Nat
      /\ DOMAIN meant \subseteq Nat
  BY DEF IInv, Types, MemoryInv
<1>2. Len(sent) \in 1 .. Len(sent) /\ LastSent.num \in Nat
  BY <1>1, StatesOf DEF LastSent
<1>3. LastSent.num \in DOMAIN meant
  BY <1>2 DEF MemoryHeld, Stands, LastSent
<1>4. Shutdown \in Nat
  BY SenderAssumption
<1>5. CASE ~shutdown /\ num = NewNum /\ num < Shutdown
  <2>1. num \in Nat /\ num > LastSent.num /\ num >= stateFloor
    BY <1>1, <1>2, <1>5 DEF NewNum, NatMax
  <2>2. \A n \in DOMAIN meant : n \in Given
    BY <1>5 DEF IInv, EndInv, Given
  <2>3. \A n \in DOMAIN meant : n \in Nat /\ (n <= LastSent.num \/ n < stateFloor)
    BY <2>2, <1>1, <1>5 DEF IInv, MemoryInv
  <2>4. \A n \in DOMAIN meant : n < num
    BY <2>1, <2>3, <1>1, <1>2
  <2>5. num \notin DOMAIN meant
    BY <2>1, <2>4
  <2> QED BY <2>1, <2>4, <2>5, <1>1, <1>2, <1>4, <1>5
<1>6. CASE shutdown /\ num = Shutdown
  BY <1>3, <1>4, <1>6 DEF IInv, EndInv, NumbersRise
<1>7. CASE ~shutdown /\ num = LastSent.num /\ Total = LastSent.events
  BY <1>2, <1>3, <1>7 DEF IInv, MemoryInv, NumbersRise
<1>8. QED
  BY <1>5, <1>6, <1>7 DEF Numbered

\* What sendInstruction() does, whether or not the state is one more.
LEMMA InstructionHeld ==
  ASSUME IInv, WireInv, HeldInv, up, NEW num, Numbered(num), NEW assumed, NEW diff,
         SendInstruction(assumed, num, diff),
         sent'[1] = sent[1], typed' = typed, UNCHANGED <<up, states, acks>>,
         Readable(disk') => disk'.front = sent[1].num,
         \/ sent'[assumed].num = num
         \/ /\ sent'[assumed].num \in DOMAIN meant
            /\ Run(1, meant[sent'[assumed].num]) \o diff = Run(1, typed)
  PROVE  /\ NumbersRise' /\ PacketsHeld' /\ StatesHeld' /\ FrontsKept'
         /\ DOMAIN meant' = DOMAIN meant \cup {num} /\ meant'[num] = typed
         /\ \A n \in DOMAIN meant : meant'[n] = meant[n]
<1> DEFINE p == [old |-> sent'[assumed].num, new |-> num, throwaway |-> ThrowAway, diff |-> diff]
           front == sent[1].num
<1>1. /\ toServer' \subseteq toServer \cup {p}
      /\ meant' = [n \in DOMAIN meant \cup {num} |-> IF n = num THEN typed ELSE meant[n]]
  BY DEF SendInstruction, Send
<1>2. /\ num \in Nat /\ num <= Shutdown
      /\ num \in DOMAIN meant => meant[num] = typed
      /\ num \notin DOMAIN meant => \A n \in DOMAIN meant : n <= num
  BY NumberHeld DEF HeldInv
<1>3. Kept(front) /\ front \in Nat
  <2>1. sent \in Seq(SentState) /\ sent # <<>>
    BY DEF IInv, Types, MemoryInv
  <2>2. 1 \in 1 .. Len(sent)
    BY <2>1, StatesOf
  <2> QED BY <2>1, <2>2, StatesOf DEF HeldInv, FrontsKept
<1>4. p.new = num /\ p.throwaway = front /\ p.old = sent'[assumed].num /\ p.diff = diff
  BY DEF ThrowAway
<1> HIDE DEF p
<1>5. NumbersRise' /\ PacketsHeld' /\ StatesHeld'
  <2>1. front \in DOMAIN states
    BY <1>3 DEF Kept
  <2> HIDE DEF front
  <2>2. NumbersRise /\ PacketsHeld /\ StatesHeld
    BY DEF HeldInv
  <2> QED BY <2>1, <2>2, <1>1, <1>2, <1>4, PacketHeld
<1>6. Kept(front)'
  <2>1. front' = front
    OBVIOUS
  <2>2. \A m \in toServer' : m.throwaway <= front
    BY <1>1, <1>3, <1>4 DEF Kept
  <2> HIDE DEF front
  <2> QED BY <2>1, <2>2, <1>3 DEF Kept
<1>7. FrontsKept'
  BY <1>6 DEF FrontsKept, Kept
<1>8. QED
  BY <1>1, <1>2, <1>5, <1>7

\* Memory after a tick that adds no state.
LEMMA SameStatesHeld ==
  ASSUME IInv, MemoryHeld, JournalHeld, BothHeld, up,
         UNCHANGED <<up, sent, disk, typed>>, eventBase' = TrimmedBase, events' = Trimmed,
         DOMAIN meant \subseteq DOMAIN meant', \A n \in DOMAIN meant : meant'[n] = meant[n]
  PROVE  MemoryHeld' /\ JournalHeld' /\ BothHeld'
<1>1. Types /\ sent # <<>> /\ sent \in Seq(SentState) /\ disk \in Journal
  BY DEF IInv, Types, MemoryInv
<1>2. /\ Chain(events, typed) /\ Ordered(sent) /\ Stands(sent, eventBase, events, typed, meant)
  BY DEF MemoryHeld
<1>3. /\ TrimmedBase \in Nat /\ eventBase <= TrimmedBase
      /\ Chain(Trimmed, typed) /\ Stands(sent, TrimmedBase, Trimmed, typed, meant)
  BY <1>1, <1>2, TrimHeld
<1>4. \A ss : Among(ss, ss)
  BY DEF Among
<1>5. Stands(sent, TrimmedBase, Trimmed, typed, meant')
  BY <1>3, <1>4, StandsAmong
<1>6. MemoryHeld'
  BY <1>2, <1>3, <1>5 DEF MemoryHeld
<1>7. ASSUME Readable(disk) PROVE Whole(disk, typed, meant')
  <2>1. Whole(disk, typed, meant)
    BY <1>7 DEF JournalHeld
  <2>2. Stands(disk.sent, disk.base, disk.events, typed, meant')
    BY <2>1, <1>4, StandsAmong DEF Whole
  <2> QED BY <2>1, <2>2 DEF Whole
<1>8. JournalHeld'
  BY <1>7 DEF JournalHeld
<1>9. BothHeld'
  <2>1. disk.base \in Nat /\ eventBase \in Nat
    BY <1>1 DEF Journal, Types
  <2> QED BY <2>1, <1>3 DEF BothHeld, Covers
<1>10. QED
  BY <1>6, <1>8, <1>9

\* Memory and journal after addSentState().
LEMMA AddedHeld ==
  ASSUME IInv, WireInv, HeldInv, up, NEW num, Numbered(num), AddSentState(num),
         UNCHANGED <<up, shutdown, typed>>, eventBase' = TrimmedBase, events' = Trimmed,
         DOMAIN meant' = DOMAIN meant \cup {num}, meant'[num] = typed,
         \A n \in DOMAIN meant : meant'[n] = meant[n]
  PROVE  MemoryHeld' /\ JournalHeld' /\ BothHeld'
<1> DEFINE state == [num |-> num, events |-> Total]
           longer == Append(sent, state)
<1>1. /\ Types /\ sent # <<>> /\ sent \in Seq(SentState) /\ disk \in Journal
      /\ stateReserved \in Nat /\ eventBase \in Nat /\ DOMAIN meant \subseteq Nat
  BY DEF IInv, Types, MemoryInv
<1>2. /\ Chain(events, typed) /\ Ordered(sent) /\ Stands(sent, eventBase, events, typed, meant)
  BY DEF HeldInv, MemoryHeld
<1>3. /\ TrimmedBase \in Nat /\ eventBase <= TrimmedBase /\ Trimmed \in Seq(Event)
      /\ TrimmedBase + Len(Trimmed) = Total /\ Total \in Nat
      /\ Chain(Trimmed, typed) /\ Stands(sent, TrimmedBase, Trimmed, typed, meant)
  BY <1>1, <1>2, TrimHeld
<1>4. num \in Nat /\ sent[Len(sent)].num <= num
  BY NumberHeld DEF HeldInv, LastSent
<1>5. state \in SentState /\ state.num = num /\ state.events = Total
  BY <1>3, <1>4 DEF SentState
<1> HIDE DEF state
<1>6. \A ss : Among(ss, ss)
  BY DEF Among
<1>7. \A ss, base, es : Stands(ss, base, es, typed, meant) => Stands(ss, base, es, typed, meant')
  BY <1>6, StandsAmong
<1>8. TrimmedBase <= Total
  <2>1. Len(Trimmed) \in Nat
    BY <1>3, EventsOf
  <2> QED BY <2>1, <1>3
<1>9. /\ Ordered(longer) /\ Stands(longer, TrimmedBase, Trimmed, typed, meant')
      /\ Among(sent, longer) /\ longer \in Seq(SentState) /\ longer # <<>>
  <2>1. Stands(sent, TrimmedBase, Trimmed, typed, meant')
    BY <1>3, <1>7
  <2>2. longer \in Seq(SentState) /\ longer # <<>>
    BY <1>1, <1>5, AppendFits
  <2>3. num \in DOMAIN meant'
    OBVIOUS
  <2> QED BY <2>1, <2>2, <2>3, <1>1, <1>2, <1>3, <1>4, <1>5, <1>8, AppendHeld
<1>10. sent' = Cull(longer)
  BY DEF AddSentState, state
<1>11. longer[1] = sent[1] /\ longer[Len(longer)] = state /\ Len(longer) = Len(sent) + 1
  <2>1. 1 \in 1 .. Len(sent)
    BY <1>1, StatesOf
  <2> QED BY <2>1, <1>1, <1>5, AppendFits
<1> HIDE DEF longer
<1>12. Among(sent', longer) /\ Ordered(sent') /\ sent'[1] = sent[1]
  BY <1>9, <1>10, <1>11, CullHeld
<1>13. MemoryHeld'
  <2>1. Stands(sent', TrimmedBase, Trimmed, typed, meant')
    BY <1>9, <1>12, StandsAmong
  <2> QED BY <2>1, <1>3, <1>12 DEF MemoryHeld
<1>14. CASE shutdown
  <2>1. ~Readable(disk')
    BY <1>14 DEF AddSentState, Journaled, NoJournal, Readable
  <2> QED BY <2>1, <1>13 DEF JournalHeld, BothHeld
<1>15. CASE ~shutdown
  <2> DEFINE renewed == num # Shutdown /\ num >= stateReserved
             more == Reserve(stateReserved, sent)
             rewrite == Snapshot(more, TrimmedBase, Trimmed, sent)
             journal == IF renewed THEN rewrite ELSE disk
  <2>1. disk' = [journal EXCEPT !.sent = Append(@, state)]
    BY <1>15 DEF AddSentState, Journaled, state
  <2>2. Sorted(sent) /\ more \in Nat
    BY <1>1, <1>15, ReserveFits DEF IInv, MemoryInv
  <2>3. /\ rewrite \in Journal /\ rewrite.base = TrimmedBase /\ rewrite.events = Trimmed
        /\ rewrite.sent = sent /\ rewrite.front = sent[1].num
    BY <2>2, <1>1, <1>3, SnapshotFits
  <2> HIDE DEF more, rewrite
  <2>4. /\ Whole(rewrite, typed, meant') /\ Covers(rewrite, TrimmedBase, sent)
    <3>1. 1 \in 1 .. Len(sent) /\ sent[1].num = rewrite.front
      BY <2>3, <1>1, StatesOf
    <3>2. Stands(sent, TrimmedBase, Trimmed, typed, meant')
      BY <1>3, <1>7
    <3>3. \E i \in 1 .. Len(rewrite.sent) : rewrite.sent[i].num = rewrite.front
      BY <3>1, <2>3
    <3> QED BY <3>2, <3>3, <2>3, <1>2, <1>3, <1>6 DEF Whole, Covers
  <2>5. /\ journal \in Journal
        /\ Readable(journal) =>
             /\ Whole(journal, typed, meant') /\ Covers(journal, TrimmedBase, sent)
             /\ journal.sent # <<>> /\ journal.sent[Len(journal.sent)] = LastSent
             /\ journal.base + Len(journal.events) = Total
    <3>1. CASE renewed
      BY <3>1, <2>3, <2>4, <1>1, <1>3 DEF LastSent
    <3>2. CASE ~renewed
      <4>1. journal = disk
        BY <3>2
      <4> HIDE DEF journal
      <4> SUFFICES ASSUME Readable(disk)
                   PROVE  /\ Whole(disk, typed, meant') /\ Covers(disk, TrimmedBase, sent)
                          /\ disk.sent # <<>> /\ disk.sent[Len(disk.sent)] = LastSent
                          /\ disk.base + Len(disk.events) = Total
        BY <4>1, <1>1
      <4>2. Whole(disk, typed, meant) /\ Covers(disk, eventBase, sent)
        BY DEF HeldInv, JournalHeld, BothHeld
      <4>3. Whole(disk, typed, meant')
        BY <4>2, <1>7 DEF Whole
      <4>4. Covers(disk, TrimmedBase, sent)
        <5>1. disk.base \in Nat
          BY <1>1 DEF Journal
        <5> QED BY <5>1, <4>2, <1>1, <1>3 DEF Covers
      <4> QED BY <4>3, <4>4 DEF IInv, SameInv
    <3> QED BY <3>1, <3>2
  <2> HIDE DEF journal, renewed
  <2>6. /\ journal.sent \in Seq(SentState) /\ journal.base \in Nat
        /\ disk'.sent = Append(journal.sent, state)
        /\ disk'.reserved = journal.reserved /\ disk'.front = journal.front
        /\ disk'.base = journal.base /\ disk'.events = journal.events
    BY <2>1, <2>5 DEF Journal
  <2> SUFFICES ASSUME Readable(disk')
               PROVE  Whole(disk', typed, meant') /\ Covers(disk', TrimmedBase, sent')
    BY <1>13 DEF JournalHeld, BothHeld
  <2>7. /\ Whole(journal, typed, meant') /\ Covers(journal, TrimmedBase, sent)
        /\ journal.sent[Len(journal.sent)] = LastSent
        /\ journal.base + Len(journal.events) = Total
    BY <2>5, <2>6 DEF Readable
  <2>8. /\ Ordered(disk'.sent) /\ Among(journal.sent, disk'.sent)
        /\ Stands(disk'.sent, disk'.base, disk'.events, typed, meant')
    <3>1. journal.base <= Total
      BY <2>6, <2>7, <1>1, <1>3 DEF Covers
    <3>2. journal.sent[Len(journal.sent)].num <= state.num
      BY <2>7, <1>4, <1>5 DEF LastSent
    <3>3. state.num \in DOMAIN meant' /\ meant'[state.num] = typed
      BY <1>5
    <3> QED BY <3>1, <3>2, <3>3, <2>6, <2>7, <1>5, AppendHeld DEF Whole
  <2>9. Whole(disk', typed, meant')
    <3>1. PICK i \in 1 .. Len(journal.sent) : journal.sent[i].num = journal.front
      BY <2>7 DEF Whole
    <3>2. \E j \in 1 .. Len(disk'.sent) : disk'.sent[j].num = disk'.front
      BY <3>1, <2>6, <2>8 DEF Among
    <3> QED BY <3>2, <2>6, <2>7, <2>8 DEF Whole
  <2>10. Among(sent', disk'.sent)
    <3>1. /\ Len(disk'.sent) = Len(journal.sent) + 1 /\ Len(journal.sent) \in Nat
          /\ disk'.sent[Len(disk'.sent)] = state
      BY <2>6, <1>5, AppendFits, StatesOf
    <3>2. ASSUME NEW i \in 1 .. Len(longer)
          PROVE  \E j \in 1 .. Len(disk'.sent) : longer[i] = disk'.sent[j]
      <4>1. CASE i = Len(sent) + 1
        <5>1. longer[i] = disk'.sent[Len(disk'.sent)]
          BY <4>1, <3>1, <1>11
        <5> QED BY <5>1, <3>1
      <4>2. CASE i # Len(sent) + 1
        <5>1. i \in 1 .. Len(sent) /\ longer[i] = sent[i]
          BY <4>2, <1>1, <1>5, <1>11, AppendFits, StatesOf DEF longer
        <5> QED BY <5>1, <2>7, <2>8 DEF Covers, Among
      <4> QED BY <4>1, <4>2
    <3> QED BY <3>2, <1>12 DEF Among
  <2>11. Covers(disk', TrimmedBase, sent')
    BY <2>6, <2>7, <2>10, <1>12 DEF Covers
  <2> QED BY <2>9, <2>11
<1>16. QED
  BY <1>14, <1>15

\* The state assumed, in the place where it was: it is still there, or the one
\* added is.
LEMMA PlacesHeld ==
  ASSUME sent \in Seq(SentState), sent # <<>>, Total \in Nat, NEW assumed \in Assumable,
         NEW num \in Nat, AddSentState(num)
  PROVE  sent'[1] = sent[1] /\ (sent'[assumed] = sent[assumed] \/ sent'[assumed].num = num)
<1> DEFINE state == [num |-> num, events |-> Total]
           longer == Append(sent, state)
<1>1. Len(sent) \in Nat /\ Len(sent) \in 1 .. Len(sent) /\ 1 \in 1 .. Len(sent)
  BY StatesOf
<1>2. state \in SentState /\ state.num = num
  BY DEF SentState
<1> HIDE DEF state
<1>3. /\ longer \in Seq(SentState) /\ longer # <<>> /\ Len(longer) = Len(sent) + 1
      /\ longer[Len(longer)] = state /\ \A i \in 1 .. Len(sent) : longer[i] = sent[i]
  BY <1>2, AppendFits
<1>4. sent' = Cull(longer)
  BY DEF AddSentState, state
<1> HIDE DEF longer
<1>5. /\ sent'[1] = longer[1]
      /\ \/ sent' = longer
         \/ Len(sent') = Len(longer) - 1 /\ sent'[Len(sent')] = longer[Len(longer)]
  BY <1>3, <1>4, CullHeld
<1>6. sent'[1] = sent[1]
  BY <1>1, <1>3, <1>5
<1>7. assumed = 1 \/ assumed = Len(sent)
  BY DEF Assumable
<1>8. CASE assumed = 1
  BY <1>6, <1>8
<1>9. CASE assumed = Len(sent)
  <2>1. CASE sent' = longer
    BY <2>1, <1>1, <1>3, <1>9
  <2>2. CASE Len(sent') = Len(longer) - 1 /\ sent'[Len(sent')] = longer[Len(longer)]
    <3>1. Len(sent') = Len(sent)
      BY <2>2, <1>1, <1>3
    <3>2. sent'[assumed] = state
      BY <3>1, <2>2, <1>3, <1>9
    <3> QED BY <3>2, <1>2, <1>6
  <2> QED BY <2>1, <2>2, <1>5
<1>10. QED
  BY <1>6, <1>7, <1>8, <1>9

LEMMA TickHeld ==
  ASSUME IInv, WireInv, HeldInv, Tick
  PROVE  HeldInv'
<1>1. /\ up /\ UNCHANGED <<up, shutdown, typed, states, acks>>
      /\ eventBase' = TrimmedBase /\ events' = Trimmed
      /\ \/ \E assumed \in Assumable : SendEmptyAck(assumed) \/ SendToReceiver(assumed)
         \/ NothingDue
  BY DEF Tick, server
<1>2. /\ sent \in Seq(SentState) /\ sent # <<>> /\ Types /\ Made(sent, Total)
      /\ Ordered(sent) /\ Chain(events, typed)
      /\ Stands(sent, eventBase, events, typed, meant)
      /\ NumbersRise /\ MemoryHeld /\ JournalHeld /\ BothHeld
  BY <1>1 DEF IInv, Types, MemoryInv, HeldInv, MemoryHeld
<1>3. /\ Total \in Nat /\ Total = TrimmedBase + Len(Trimmed)
      /\ \A n \in DOMAIN meant : meant[n] \in Nat /\ meant[n] <= typed
  BY <1>2, TrimHeld DEF WireInv, NumbersRise
<1>4. CASE NothingDue
  <2>1. UNCHANGED <<sent, disk, toServer, meant>>
    BY <1>4 DEF NothingDue
  <2>2. MemoryHeld' /\ JournalHeld' /\ BothHeld'
    BY <2>1, <1>1, <1>2, SameStatesHeld
  <2>3. NumbersRise' /\ PacketsHeld' /\ StatesHeld' /\ FrontsKept'
    BY <2>1, <1>1 DEF HeldInv, NumbersRise, PacketsHeld, StatesHeld, FrontsKept, Kept
  <2> QED BY <2>2, <2>3 DEF HeldInv
<1>5. ASSUME NEW num, Numbered(num), NEW assumed \in Assumable, NEW diff,
             SendInstruction(assumed, num, diff),
             AddSentState(num) \/ UNCHANGED <<sent, disk>>,
             Run(1, meant[sent[assumed].num]) \o diff = Run(1, typed)
      PROVE  HeldInv'
  <2>1. meant' = [n \in DOMAIN meant \cup {num} |-> IF n = num THEN typed ELSE meant[n]]
    BY <1>5 DEF SendInstruction
  <2>2. num \in Nat /\ (num \in DOMAIN meant => meant[num] = typed)
    BY <1>1, <1>2, <1>5, NumberHeld
  <2>3. /\ DOMAIN meant' = DOMAIN meant \cup {num} /\ meant'[num] = typed
        /\ \A n \in DOMAIN meant : meant'[n] = meant[n]
    BY <2>1, <2>2
  <2>4. MemoryHeld' /\ JournalHeld' /\ BothHeld'
    <3>1. CASE AddSentState(num)
      BY <3>1, <2>3, <1>1, <1>5, AddedHeld
    <3>2. CASE UNCHANGED <<sent, disk>>
      BY <3>2, <2>3, <1>1, <1>2, SameStatesHeld
    <3> QED BY <3>1, <3>2, <1>5
  <2>5. sent'[1] = sent[1] /\ (sent'[assumed] = sent[assumed] \/ sent'[assumed].num = num)
    <3>1. CASE AddSentState(num)
      BY <3>1, <2>2, <1>2, <1>3, <1>5, PlacesHeld
    <3>2. CASE UNCHANGED <<sent, disk>>
      BY <3>2
    <3> QED BY <3>1, <3>2, <1>5
  <2>6. sent[assumed].num \in DOMAIN meant
    BY <1>2, <1>5, AssumableFits DEF Stands
  <2>7. Readable(disk') => disk'.front = sent[1].num
    BY <2>4, <2>5, <1>1 DEF BothHeld, Covers
  <2>8. NumbersRise' /\ PacketsHeld' /\ StatesHeld' /\ FrontsKept'
    <3>1. \/ sent'[assumed].num = num
          \/ /\ sent'[assumed].num \in DOMAIN meant
             /\ Run(1, meant[sent'[assumed].num]) \o diff = Run(1, typed)
      BY <2>5, <2>6, <1>5
    <3> QED BY <3>1, <2>5, <2>7, <1>1, <1>5, InstructionHeld
  <2> QED BY <2>4, <2>8 DEF HeldInv
<1>6. ASSUME NEW assumed \in Assumable, SendEmptyAck(assumed)
      PROVE  HeldInv'
  <2>1. Numbered(NewNum)
    BY <1>6 DEF SendEmptyAck, Numbered, NewNum
  <2>2. assumed \in 1 .. Len(sent) /\ Total = sent[assumed].events
    BY <1>2, <1>6, AssumableFits DEF SendEmptyAck
  <2>3. meant[sent[assumed].num] = typed
    <3>1. meant[sent[assumed].num] = Amount(Total, eventBase, events, typed)
      BY <2>2, <1>2 DEF Stands
    <3>2. ~ (Total < eventBase + Len(events))
      BY <1>3 DEF Total
    <3> QED BY <3>1, <3>2 DEF Amount
  <2>4. Run(1, typed) \o <<>> = Run(1, typed)
    <3>1. typed \in Nat
      BY <1>2 DEF Types
    <3> QED BY <3>1, RunLength, ConcatEmptySeq
  <2> QED BY <2>1, <2>3, <2>4, <1>5, <1>6 DEF SendEmptyAck
<1>7. ASSUME NEW assumed \in Assumable, SendToReceiver(assumed)
      PROVE  HeldInv'
  <2> DEFINE again == Total = LastSent.events /\ (shutdown => LastSent.num = Shutdown)
             num == IF again THEN LastSent.num ELSE NewNum
  <2>1. /\ num = LastSent.num => UNCHANGED <<sent, disk>>
        /\ num # LastSent.num => (num < Shutdown \/ shutdown) /\ AddSentState(num)
        /\ SendInstruction(assumed, num, Diff(sent[assumed].events))
    BY <1>7 DEF SendToReceiver
  <2>2. Run(1, meant[sent[assumed].num]) \o Diff(sent[assumed].events) = Run(1, typed)
    <3>1. assumed \in 1 .. Len(sent)
      BY <1>2, AssumableFits
    <3> QED BY <3>1, <1>2, <1>3, DiffHeld
  <2>3. Numbered(num)
    <3>1. CASE again
      BY <3>1 DEF Numbered
    <3>2. CASE ~again
      <4>1. num = NewNum
        BY <3>2
      <4>2. ~shutdown => NewNum > LastSent.num /\ LastSent.num \in Nat
        <5>1. LastSent.num \in Nat /\ stateFloor \in Nat
          BY <1>2, StatesOf DEF LastSent, Types
        <5> QED BY <5>1 DEF NewNum, NatMax
      <4>3. CASE shutdown
        BY <4>1, <4>3 DEF Numbered, NewNum
      <4>4. CASE ~shutdown
        <5>1. num # LastSent.num
          BY <4>1, <4>2, <4>4
        <5> QED BY <5>1, <4>1, <4>4, <2>1 DEF Numbered
      <4> QED BY <4>3, <4>4
    <3> QED BY <3>1, <3>2
  <2> HIDE DEF num
  <2> QED BY <2>1, <2>2, <2>3, <1>5
<1>8. QED
  BY <1>1, <1>4, <1>6, <1>7

-----------------------------------------------------------------------------
(* The other actions *)

LEMMA InitHeld == Init => HeldInv
<1> SUFFICES ASSUME Init PROVE HeldInv
  OBVIOUS
<1> DEFINE e == [first |-> 1, last |-> 1, resize |-> TRUE]
           z == [num |-> 0, events |-> 0]
<1>1. /\ events = <<e>> /\ eventBase = 0 /\ sent = <<z>> /\ typed = 1
      /\ e.first = 1 /\ e.last = 1 /\ z.num = 0 /\ z.events = 0
  BY DEF Init
<1> HIDE DEF e, z
<1>2. /\ Len(events) = 1 /\ events[1] = e /\ Len(sent) = 1 /\ sent[1] = z
  BY <1>1
<1>3. /\ meant = [n \in {0} |-> 0] /\ toServer = {} /\ states = [n \in {0} |-> <<>>] /\ acks = {0}
      /\ disk = Snapshot(SeqBlock, 0, events, sent)
  BY DEF Init
<1>4. /\ disk.base = 0 /\ disk.events = events /\ disk.sent = sent /\ disk.front = 0
  BY <1>1, <1>2, <1>3 DEF Snapshot
<1>5. /\ DOMAIN meant = {0} /\ meant[0] = 0 /\ DOMAIN states = {0} /\ states[0] = <<>>
  BY <1>3
<1>6. Chain(events, typed) /\ Ordered(sent)
  BY <1>1, <1>2 DEF Chain, Ordered
<1>7. Stands(sent, 0, events, typed, meant)
  <2>1. Amount(0, 0, events, typed) = 0
    BY <1>1, <1>2 DEF Amount
  <2> QED BY <2>1, <1>1, <1>2, <1>5 DEF Stands
<1>8. Among(sent, sent)
  BY DEF Among
<1>9. NumbersRise
  BY <1>1, <1>5, SenderAssumption DEF NumbersRise
<1>10. MemoryHeld /\ JournalHeld /\ BothHeld
  <2>1. eventBase = 0 /\ disk.base = 0 /\ disk.base <= eventBase
    BY <1>1, <1>4
  <2>2. sent[1].num = disk.front
    BY <1>1, <1>2, <1>4
  <2>3. \E i \in 1 .. Len(disk.sent) : disk.sent[i].num = disk.front
    <3>1. 1 \in 1 .. Len(disk.sent) /\ disk.sent[1].num = disk.front
      BY <2>2, <1>2, <1>4, SMTT(60)
    <3> QED BY <3>1
  <2>4. Whole(disk, typed, meant)
    BY <2>1, <2>3, <1>4, <1>6, <1>7 DEF Whole
  <2>5. Covers(disk, eventBase, sent)
    BY <2>1, <2>2, <1>4, <1>8 DEF Covers
  <2>6. MemoryHeld
    BY <2>1, <1>6, <1>7 DEF MemoryHeld
  <2> QED BY <2>4, <2>5, <2>6 DEF JournalHeld, BothHeld
<1>11. Run(1, 0) = <<>>
  <2>1. (0 + 1) - 1 = 0
    OBVIOUS
  <2>2. Run(1, 0) \in Seq(Nat) /\ Len(Run(1, 0)) = 0
    BY RunLength
  <2> QED BY <2>2, EmptySeq
<1>12. PacketsHeld /\ StatesHeld
  BY <1>3, <1>5, <1>11 DEF PacketsHeld, StatesHeld
<1>13. FrontsKept
  BY <1>1, <1>2, <1>3, <1>4, <1>5 DEF FrontsKept, Kept
<1>14. QED
  BY <1>9, <1>10, <1>12, <1>13 DEF HeldInv

\* What the client does without a packet or a number leaves those alone.
LEMMA QuietHeld ==
  ASSUME HeldInv, typed \in Nat, typed' \in Nat, typed <= typed', WireInv,
         UNCHANGED <<meant, toServer, states, acks>>
  PROVE  NumbersRise' /\ PacketsHeld' /\ StatesHeld'
<1>1. NumbersRise'
  BY DEF HeldInv, NumbersRise, WireInv
<1>2. PacketsHeld' /\ StatesHeld'
  BY DEF HeldInv, PacketsHeld, StatesHeld
<1>3. QED
  BY <1>1, <1>2

LEMMA TypeHeld ==
  ASSUME IInv, WireInv, HeldInv, NEW isResize \in BOOLEAN, Type(isResize)
  PROVE  HeldInv'
<1> DEFINE grow == CanGrow /\ ~isResize
<1>1. /\ up /\ ~shutdown /\ typed' = typed + 1
      /\ UNCHANGED <<up, eventBase, sent, meant, toServer, states, acks>>
      /\ grow => events' = Grown(events) /\ disk' = [disk EXCEPT !.events = Grown(@)]
      /\ ~grow => /\ events' = Append(events, Input(isResize))
                  /\ disk' = [disk EXCEPT !.events = Append(@, Input(isResize))]
  BY DEF Type, MayType, Journaled, server
<1>2. /\ typed \in Nat /\ typed <= typed' /\ typed' \in Nat
      /\ events \in Seq(Event) /\ eventBase \in Nat /\ sent \in Seq(SentState) /\ sent # <<>>
      /\ disk \in Journal /\ disk.events \in Seq(Event) /\ disk.sent \in Seq(SentState)
      /\ disk.base \in Nat
  BY <1>1 DEF IInv, Types, MemoryInv, Journal
<1>3. /\ Chain(events, typed) /\ Ordered(sent) /\ Stands(sent, eventBase, events, typed, meant)
  BY <1>1 DEF HeldInv, MemoryHeld
<1>4. /\ disk'.events = IF grow THEN Grown(disk.events) ELSE Append(disk.events, Input(isResize))
      /\ disk'.reserved = disk.reserved /\ disk'.front = disk.front
      /\ disk'.base = disk.base /\ disk'.sent = disk.sent
  BY <1>1, <1>2 DEF Journal
<1>5. grow => events # <<>> /\ LastSent.events < Total
  <2>1. Len(sent) \in 1 .. Len(sent) /\ LastSent.events \in Nat /\ Total \in Nat
    BY <1>2, StatesOf, EventsOf DEF LastSent, Total
  <2> QED BY <2>1 DEF CanGrow
<1> HIDE DEF grow
\* No state counts an event that grows, since the last one does not.
<1>6. ASSUME grow, NEW ss \in Seq(SentState), ss # <<>>, Ordered(ss),
             ss[Len(ss)].events = LastSent.events
      PROVE  \A i \in 1 .. Len(ss) : ss[i].events < Total
  <2>1. /\ Len(ss) \in 1 .. Len(ss) /\ \A i \in 1 .. Len(ss) : ss[i].events \in Nat
        /\ Total \in Nat
    <3>1. Len(ss) \in 1 .. Len(ss) /\ \A i \in 1 .. Len(ss) : ss[i].events \in Nat
      BY <1>6, StatesOf
    <3>2. Total \in Nat
      BY <1>2, EventsOf DEF Total
    <3> QED BY <3>1, <3>2
  <2>2. \A i \in 1 .. Len(ss) : ss[i].events <= ss[Len(ss)].events
    BY <2>1, <1>6 DEF Ordered
  <2> QED BY <2>1, <2>2, <1>5, <1>6
<1>7. Chain(events', typed') /\ Stands(sent, eventBase, events', typed', meant)
  <2>1. CASE grow
    <3>1. \A i \in 1 .. Len(sent) : sent[i].events < eventBase + Len(events)
      BY <2>1, <1>2, <1>3, <1>6 DEF LastSent, Total
    <3>2. events' = Grown(events) /\ typed' = typed + 1 /\ events # <<>>
      BY <2>1, <1>1, <1>5
    <3>3. Chain(Grown(events), typed + 1)
      BY <3>2, <1>2, <1>3, GrownStands
    <3>4. Stands(sent, eventBase, Grown(events), typed + 1, meant)
      BY <3>1, <3>2, <1>2, <1>3, GrownStands
    <3> QED BY <3>2, <3>3, <3>4
  <2>2. CASE ~grow
    <3> DEFINE g == Append(events, Input(isResize))
    <3>1. events' = g /\ typed' = typed + 1
      BY <2>2, <1>1
    <3>2. Chain(g, typed + 1)
      BY <1>2, <1>3, AppendStands
    <3>3. Stands(sent, eventBase, g, typed + 1, meant)
      BY <1>2, <1>3, AppendStands
    <3> QED BY <3>1, <3>2, <3>3
  <2> QED BY <2>1, <2>2
<1>8. ASSUME Readable(disk) PROVE Whole(disk', typed', meant)
  <2>1. /\ Chain(disk.events, typed) /\ Ordered(disk.sent)
        /\ Stands(disk.sent, disk.base, disk.events, typed, meant)
        /\ \E i \in 1 .. Len(disk.sent) : disk.sent[i].num = disk.front
    BY <1>8 DEF HeldInv, JournalHeld, Whole
  <2>2. /\ disk.base <= eventBase /\ disk.base + Len(disk.events) = Total
        /\ disk.sent # <<>> /\ disk.sent[Len(disk.sent)] = LastSent
    BY <1>1, <1>8 DEF HeldInv, BothHeld, Covers, IInv, SameInv
  <2>3. /\ Chain(disk'.events, typed')
        /\ Stands(disk.sent, disk.base, disk'.events, typed', meant)
    <3>1. CASE grow
      <4>1. disk.events # <<>>
        <5>1. Len(events) \in Nat \ {0} /\ Len(disk.events) \in Nat
          BY <3>1, <1>2, <1>5, EventsOf, EmptySeq
        <5>2. Len(disk.events) > 0
          BY <5>1, <2>2, <1>2 DEF Total
        <5> QED BY <5>2, <1>2, EmptySeq
      <4>2. \A i \in 1 .. Len(disk.sent) : disk.sent[i].events < disk.base + Len(disk.events)
        BY <3>1, <2>1, <2>2, <1>2, <1>6
      <4>3. disk'.events = Grown(disk.events) /\ typed' = typed + 1
        BY <3>1, <1>1, <1>4
      <4>4. Chain(Grown(disk.events), typed + 1)
        BY <4>1, <2>1, <1>2, GrownStands
      <4>5. Stands(disk.sent, disk.base, Grown(disk.events), typed + 1, meant)
        BY <4>1, <4>2, <2>1, <1>2, GrownStands
      <4> QED BY <4>3, <4>4, <4>5
    <3>2. CASE ~grow
      <4> DEFINE g == Append(disk.events, Input(isResize))
      <4>1. disk'.events = g /\ typed' = typed + 1
        BY <3>2, <1>1, <1>4
      <4>2. Chain(g, typed + 1)
        BY <2>1, <1>2, AppendStands
      <4>3. Stands(disk.sent, disk.base, g, typed + 1, meant)
        BY <2>1, <1>2, AppendStands
      <4> QED BY <4>1, <4>2, <4>3
    <3> QED BY <3>1, <3>2
  <2> QED BY <2>1, <2>3, <1>4 DEF Whole
<1>9. MemoryHeld' /\ JournalHeld'
  BY <1>1, <1>3, <1>4, <1>7, <1>8 DEF MemoryHeld, JournalHeld, Readable
<1>10. BothHeld' /\ FrontsKept'
  BY <1>1, <1>4 DEF HeldInv, BothHeld, Covers, FrontsKept, Kept, Readable
<1>11. NumbersRise' /\ PacketsHeld' /\ StatesHeld'
  BY <1>1, <1>2, QuietHeld
<1>12. QED
  BY <1>9, <1>10, <1>11 DEF HeldInv

LEMMA ProcessAcknowledgmentHeld ==
  ASSUME IInv, WireInv, HeldInv, NEW num \in acks, ProcessAcknowledgment(num)
  PROVE  HeldInv'
<1>1. /\ up /\ sent[1].num < num /\ sent' = DropBefore(sent, num)
      /\ disk' = Journaled([disk EXCEPT !.front = num])
      /\ UNCHANGED <<up, events, eventBase, shutdown, typed, meant, toServer, states, acks>>
  BY DEF ProcessAcknowledgment, KeepFrom, RecordFront, history, server
<1>2. PICK i \in 2 .. Len(sent) : sent[i].num = num
  BY DEF ProcessAcknowledgment
<1>3. /\ sent \in Seq(SentState) /\ sent # <<>> /\ disk \in Journal /\ typed \in Nat
      /\ Ordered(sent) /\ Chain(events, typed) /\ Stands(sent, eventBase, events, typed, meant)
  BY <1>1 DEF IInv, Types, MemoryInv, HeldInv, MemoryHeld
<1>4. i \in 1 .. Len(sent) /\ num \in Nat /\ sent[1].num \in Nat
  BY <1>2, <1>3, StatesOf
<1>5. /\ sent' # <<>> /\ sent'[1].num = num /\ Ordered(sent') /\ Among(sent', sent)
  BY <1>1, <1>2, <1>3, <1>4, DropHeld
<1>6. MemoryHeld'
  <2>1. Stands(sent', eventBase, events, typed, meant)
    BY <1>3, <1>5, StandsAmong
  <2> QED BY <2>1, <1>1, <1>3, <1>5 DEF MemoryHeld
<1>7. Kept(num)
  <2>1. Kept(sent[1].num)
    BY <1>1 DEF HeldInv, FrontsKept
  <2>2. sent[1].num <= num /\ num \in DOMAIN states
    BY <2>1, <1>1, <1>4 DEF Kept
  <2>3. \A m \in toServer : m.throwaway <= num
    <3>1. \A m \in toServer : m.throwaway \in Nat /\ m.throwaway <= sent[1].num
      BY <2>1 DEF Kept, WireInv, Instruction
    <3> QED BY <3>1, <2>2, <1>4
  <2>4. \A n \in acks : n >= num => n \in DOMAIN states
    <3>1. \A n \in acks : n \in Nat
      BY DEF IInv, Types, WireInv
    <3> QED BY <3>1, <2>1, <2>2, <1>4 DEF Kept
  <2> QED BY <2>2, <2>3, <2>4 DEF Kept
<1>8. Readable(disk') => disk' = [disk EXCEPT !.front = num] /\ Readable(disk)
  <2>1. CASE shutdown
    BY <2>1, <1>1 DEF Journaled, NoJournal, Readable
  <2>2. CASE ~shutdown
    BY <2>2, <1>1, <1>3 DEF Journaled, Journal, Readable
  <2> QED BY <2>1, <2>2
<1>9. ASSUME Readable(disk')
      PROVE  Whole(disk', typed, meant) /\ Covers(disk', eventBase, sent') /\ disk'.front = num
  <2>1. Whole(disk, typed, meant) /\ Covers(disk, eventBase, sent)
    BY <1>1, <1>8, <1>9 DEF HeldInv, JournalHeld, BothHeld
  <2>2. /\ disk'.front = num /\ disk'.base = disk.base /\ disk'.events = disk.events
        /\ disk'.sent = disk.sent
    BY <1>3, <1>8, <1>9 DEF Journal
  <2>3. Among(sent', disk.sent)
    BY <2>1, <1>5, ZenonT(60) DEF Covers, Among
  <2>4. \E j \in 1 .. Len(disk.sent) : disk.sent[j].num = num
    BY <2>1, <1>2, <1>4 DEF Covers, Among
  <2> QED BY <2>1, <2>2, <2>3, <2>4, <1>5 DEF Whole, Covers
<1>10. JournalHeld' /\ BothHeld'
  BY <1>1, <1>9 DEF JournalHeld, BothHeld
<1>11. FrontsKept'
  BY <1>1, <1>5, <1>7, <1>9 DEF FrontsKept, Kept
<1>12. NumbersRise' /\ PacketsHeld' /\ StatesHeld'
  BY <1>1, <1>3, QuietHeld
<1>13. QED
  BY <1>6, <1>10, <1>11, <1>12 DEF HeldInv

LEMMA BeginShutdownHeld ==
  ASSUME IInv, WireInv, HeldInv, BeginShutdown
  PROVE  HeldInv'
<1>1. /\ ~Readable(disk')
      /\ UNCHANGED <<up, events, eventBase, sent, typed, meant, toServer, states, acks>>
  BY DEF BeginShutdown, history, server, NoJournal, Readable
<1>2. NumbersRise' /\ PacketsHeld' /\ StatesHeld'
  BY <1>1, QuietHeld DEF IInv, Types
<1>3. MemoryHeld' /\ JournalHeld' /\ BothHeld' /\ FrontsKept'
  BY <1>1 DEF HeldInv, MemoryHeld, JournalHeld, BothHeld, FrontsKept, Kept
<1>4. QED
  BY <1>2, <1>3 DEF HeldInv

LEMMA RewriteHeld ==
  ASSUME IInv, WireInv, HeldInv, Rewrite
  PROVE  HeldInv'
<1>1. /\ up /\ disk' = Snapshot(stateReserved', eventBase, events, sent)
      /\ UNCHANGED <<up, events, eventBase, sent, typed, meant, toServer, states, acks>>
  BY DEF Rewrite, history, server
<1>2. /\ disk'.base = eventBase /\ disk'.events = events /\ disk'.sent = sent
      /\ disk'.front = sent[1].num
  BY <1>1 DEF Snapshot
<1>3. sent \in Seq(SentState) /\ sent # <<>> /\ typed \in Nat /\ eventBase <= eventBase
  BY <1>1 DEF IInv, Types, MemoryInv
<1>4. 1 \in 1 .. Len(sent)
  BY <1>3, StatesOf
<1>5. Whole(disk', typed, meant)
  BY <1>1, <1>2, <1>4 DEF HeldInv, MemoryHeld, Whole
<1>6. Covers(disk', eventBase, sent)
  BY <1>2, <1>3 DEF Covers, Among
<1>7. MemoryHeld' /\ JournalHeld' /\ BothHeld'
  BY <1>1, <1>5, <1>6 DEF HeldInv, MemoryHeld, JournalHeld, BothHeld
<1>8. FrontsKept'
  BY <1>1, <1>2 DEF HeldInv, FrontsKept, Kept
<1>9. NumbersRise' /\ PacketsHeld' /\ StatesHeld'
  BY <1>1, <1>3, QuietHeld
<1>10. QED
  BY <1>7, <1>8, <1>9 DEF HeldInv

LEMMA StopHeld ==
  ASSUME IInv, WireInv, HeldInv, Stop
  PROVE  HeldInv'
<1>1. up' = FALSE /\ UNCHANGED <<disk, typed, meant, toServer, states, acks>>
  BY DEF Stop, Forget, history, server
<1>2. NumbersRise' /\ PacketsHeld' /\ StatesHeld'
  BY <1>1, QuietHeld DEF IInv, Types
<1>3. MemoryHeld' /\ JournalHeld' /\ BothHeld' /\ FrontsKept'
  BY <1>1 DEF HeldInv, MemoryHeld, JournalHeld, BothHeld, FrontsKept, Kept
<1>4. QED
  BY <1>2, <1>3 DEF HeldInv

\* A restart begins with the states of the journal from its front on.
LEMMA RestoredHeld ==
  ASSUME Types, JournalHeld, Readable(disk)
  PROVE  LET ss == RestoredSent(disk)
         IN  /\ ss \in Seq(SentState) /\ ss # <<>> /\ ss[1].num = disk.front
             /\ Ordered(ss) /\ Stands(ss, disk.base, disk.events, typed, meant)
<1> DEFINE kept == DropBefore(disk.sent, disk.front)
<1>1. disk.sent \in Seq(SentState) /\ disk.front \in Nat
  BY DEF Types, Journal
<1>2. /\ Ordered(disk.sent) /\ Stands(disk.sent, disk.base, disk.events, typed, meant)
      /\ \E i \in 1 .. Len(disk.sent) : disk.sent[i].num = disk.front
  BY DEF JournalHeld, Whole
<1>3. /\ kept \in Seq(SentState) /\ kept # <<>> /\ kept[1].num = disk.front
      /\ Ordered(kept) /\ Among(kept, disk.sent)
  BY <1>1, <1>2, DropHeld
<1>4. RestoredSent(disk) = kept
  BY <1>3 DEF RestoredSent
<1> HIDE DEF kept
<1>5. Stands(kept, disk.base, disk.events, typed, meant)
  BY <1>2, <1>3, StandsAmong
<1>6. QED
  BY <1>3, <1>4, <1>5

LEMMA ResumeHeld ==
  ASSUME IInv, WireInv, HeldInv, Resume
  PROVE  HeldInv'
<1>1. /\ Readable(disk) /\ up' = TRUE /\ typed' = typed + 1
      /\ eventBase' = disk.base /\ events' = Append(disk.events, Input(TRUE))
      /\ sent' = RestoredSent(disk)
      /\ disk' = Snapshot(stateReserved', eventBase', events', sent')
      /\ UNCHANGED <<meant, toServer, states, acks>>
  BY DEF Resume, server
<1>2. /\ Types /\ typed \in Nat /\ typed' \in Nat /\ typed <= typed'
      /\ disk.events \in Seq(Event) /\ disk.base \in Nat
  BY <1>1 DEF IInv, Types, Journal
<1>3. /\ sent' \in Seq(SentState) /\ sent' # <<>> /\ sent'[1].num = disk.front
      /\ Ordered(sent') /\ Stands(sent', disk.base, disk.events, typed, meant)
  BY <1>1, <1>2, RestoredHeld DEF HeldInv
<1>4. Chain(disk.events, typed)
  BY <1>1 DEF HeldInv, JournalHeld, Whole
<1> DEFINE es == Append(disk.events, Input(TRUE))
<1>5. Chain(es, typed + 1)
  BY <1>2, <1>4, AppendStands
<1>6. Stands(sent', disk.base, es, typed + 1, meant)
  BY <1>2, <1>3, <1>4, AppendStands
<1> HIDE DEF es
<1>7. MemoryHeld'
  BY <1>1, <1>3, <1>5, <1>6 DEF MemoryHeld, es
<1>8. /\ disk'.base = disk.base /\ disk'.events = es /\ disk'.sent = sent'
      /\ disk'.front = sent'[1].num
  BY <1>1 DEF Snapshot, es
<1>9. 1 \in 1 .. Len(sent')
  BY <1>3, StatesOf
<1>10. Whole(disk', typed', meant')
  <2>1. \E i \in 1 .. Len(sent') : sent'[i].num = disk'.front
    BY <1>8, <1>9
  <2> QED BY <2>1, <1>1, <1>3, <1>5, <1>6, <1>8 DEF Whole
<1>11. Covers(disk', eventBase', sent')
  <2>1. \A ss : Among(ss, ss)
    BY DEF Among
  <2>2. disk'.base <= eventBase'
    <3>1. disk'.base = disk.base /\ eventBase' = disk.base
      BY <1>1, <1>8
    <3>2. \A b \in Nat : b <= b
      OBVIOUS
    <3> QED BY <3>1, <3>2, <1>2
  <2> QED BY <2>1, <2>2, <1>8 DEF Covers
<1>12. JournalHeld' /\ BothHeld'
  BY <1>10, <1>11 DEF JournalHeld, BothHeld
<1>13. FrontsKept'
  BY <1>1, <1>3, <1>8 DEF HeldInv, FrontsKept, Kept
<1>14. NumbersRise' /\ PacketsHeld' /\ StatesHeld'
  BY <1>1, <1>2, QuietHeld
<1>15. QED
  BY <1>7, <1>12, <1>13, <1>14 DEF HeldInv

\* What the server takes: a new state with the input its number stands for,
\* while it forgets nothing it needs.
LEMMA ReceiveHeld ==
  ASSUME IInv, WireInv, HeldInv, NEW m \in toServer, Receive(m)
  PROVE  HeldInv'
<1> DEFINE kept == {k \in DOMAIN states : k >= m.throwaway}
<1>1. /\ m.new \notin DOMAIN states /\ m.old \in DOMAIN states
      /\ states' = [n \in kept \cup {m.new} |->
                      IF n = m.new THEN states[m.old] \o m.diff ELSE states[n]]
      /\ acks' = acks \cup {Newest(states')}
      /\ UNCHANGED <<up, events, eventBase, sent, disk, typed, meant, toServer>>
  BY DEF Receive, client, history
<1>2. /\ DOMAIN states \subseteq Nat /\ m.new \in Nat /\ m.throwaway \in Nat
      /\ \A q \in toServer : q.throwaway \in Nat
      /\ acks \subseteq Nat
  BY DEF IInv, Types, WireInv, Instruction
<1>3. DOMAIN states' = kept \cup {m.new}
  BY <1>1
<1>4. \A n \in DOMAIN states : n >= m.throwaway => n \in DOMAIN states' /\ states'[n] = states[n]
  BY <1>1, <1>3
<1>5. StatesHeld'
  <2>1. states[m.old] \o m.diff = Run(1, meant[m.new])
    BY <1>1 DEF HeldInv, StatesHeld, PacketsHeld
  <2>2. states'[m.new] = Run(1, meant[m.new])
    BY <2>1, <1>1
  <2>3. \A n \in kept : states'[n] = Run(1, meant[n])
    BY <1>1 DEF HeldInv, StatesHeld
  <2> QED BY <2>2, <2>3, <1>1, <1>3 DEF StatesHeld
<1>6. PacketsHeld'
  <2> SUFFICES ASSUME NEW q \in toServer
               PROVE  \E n \in DOMAIN states' : q.throwaway <= n
    BY <1>1 DEF HeldInv, PacketsHeld
  <2>1. PICK n \in DOMAIN states : q.throwaway <= n
    BY DEF HeldInv, PacketsHeld
  <2>2. PICK k \in DOMAIN states : m.throwaway <= k
    BY DEF HeldInv, PacketsHeld
  <2>3. n \in Nat /\ k \in Nat /\ q.throwaway \in Nat /\ m.throwaway \in Nat
    BY <1>2
  <2>4. CASE n >= m.throwaway
    BY <2>1, <2>4, <1>4
  <2>5. CASE ~ (n >= m.throwaway)
    <3>1. q.throwaway <= k /\ k >= m.throwaway
      BY <2>1, <2>2, <2>3, <2>5
    <3> QED BY <3>1, <1>4
  <2> QED BY <2>4, <2>5
<1>7. Newest(states') \in DOMAIN states'
  <2>1. PICK b \in Nat : \A n \in DOMAIN states : n <= b
    BY DEF WireInv
  <2>2. b + m.new \in Nat /\ \A n \in DOMAIN states' : n <= b + m.new
    BY <2>1, <1>2, <1>3
  <2>3. DOMAIN states' \subseteq Nat /\ DOMAIN states' # {}
    BY <1>2, <1>3
  <2>4. \E x \in DOMAIN states' : \A k \in DOMAIN states' : k <= x
    BY <2>2, <2>3, Greatest
  <2> QED BY <2>4 DEF Newest
<1>8. ASSUME NEW front \in Nat, Kept(front) PROVE Kept(front)'
  <2>1. front >= m.throwaway
    BY <1>2, <1>8 DEF Kept
  <2>2. front \in DOMAIN states'
    BY <2>1, <1>4, <1>8 DEF Kept
  <2>3. ASSUME NEW n \in acks', n >= front PROVE n \in DOMAIN states'
    <3>1. CASE n \in acks
      <4>1. n \in DOMAIN states /\ n \in Nat
        BY <3>1, <2>3, <1>2, <1>8 DEF Kept
      <4>2. n >= m.throwaway
        BY <4>1, <2>1, <2>3, <1>2
      <4> QED BY <4>1, <4>2, <1>4
    <3>2. CASE n = Newest(states')
      BY <3>2, <1>7
    <3> QED BY <3>1, <3>2, <1>1
  <2> QED BY <2>2, <2>3, <1>1, <1>8 DEF Kept
<1>9. FrontsKept'
  <2>1. up => sent[1].num \in Nat
    BY StatesOf DEF IInv, Types, MemoryInv
  <2>2. disk.front \in Nat
    BY DEF IInv, Types, Journal
  <2>3. up => Kept(sent[1].num)'
    <3>1. up => Kept(sent[1].num)
      BY DEF HeldInv, FrontsKept
    <3> QED BY <3>1, <2>1, <1>1, <1>8 DEF Kept
  <2>4. Readable(disk) => Kept(disk.front)'
    <3>1. Readable(disk) => Kept(disk.front)
      BY DEF HeldInv, FrontsKept
    <3> QED BY <3>1, <2>2, <1>1, <1>8 DEF Kept
  <2> QED BY <2>3, <2>4, <1>1 DEF FrontsKept
<1>10. NumbersRise' /\ MemoryHeld' /\ JournalHeld' /\ BothHeld'
  BY <1>1 DEF HeldInv, NumbersRise, MemoryHeld, JournalHeld, BothHeld
<1>11. QED
  BY <1>5, <1>6, <1>9, <1>10 DEF HeldInv

LEMMA NextHeld ==
  ASSUME IInv, WireInv, UncutHeld, [Next]_vars
  PROVE  UncutHeld'
<1> SUFFICES ASSUME ~cut' PROVE HeldInv'
  BY DEF UncutHeld
<1>1. ~cut
  BY DEF Next, Type, Tick, ProcessAcknowledgment, BeginShutdown, Rewrite, Stop, StopInRewrite,
         Resume, Receive, vars, past
<1>2. HeldInv
  BY <1>1 DEF UncutHeld
<1>3. ASSUME NEW isResize \in BOOLEAN, Type(isResize)
      PROVE  HeldInv'
  BY <1>2, <1>3, TypeHeld
<1>4. CASE Tick
  BY <1>2, <1>4, TickHeld
<1>5. ASSUME NEW num \in acks, ProcessAcknowledgment(num)
      PROVE  HeldInv'
  BY <1>2, <1>5, ProcessAcknowledgmentHeld
<1>6. CASE BeginShutdown
  BY <1>2, <1>6, BeginShutdownHeld
<1>7. CASE Rewrite
  BY <1>2, <1>7, RewriteHeld
<1>8. CASE Stop
  BY <1>2, <1>8, StopHeld
<1>9. CASE StopInRewrite
  BY <1>9 DEF StopInRewrite
<1>10. CASE Resume
  BY <1>2, <1>10, ResumeHeld
<1>11. ASSUME NEW m \in toServer, Receive(m)
       PROVE  HeldInv'
  BY <1>2, <1>11, ReceiveHeld
<1>12. CASE UNCHANGED vars
  <2>1. UNCHANGED <<up, events, eventBase, sent, disk, typed, meant, toServer, states, acks>>
    BY <1>12 DEF vars, client, history, server
  <2> QED BY <2>1, <1>2 DEF HeldInv, NumbersRise, MemoryHeld, JournalHeld, BothHeld,
             PacketsHeld, StatesHeld, FrontsKept, Kept
<1>13. QED
  BY <1>3, <1>4, <1>5, <1>6, <1>7, <1>8, <1>9, <1>10, <1>11, <1>12 DEF Next

-----------------------------------------------------------------------------
(* What the invariant says of the server's newest state *)

LEMMA NewestFits ==
  ASSUME IInv, WireInv, DOMAIN states # {}
  PROVE  Newest(states) \in DOMAIN states /\ \A n \in DOMAIN states : n <= Newest(states)
<1>1. PICK b \in Nat : \A n \in DOMAIN states : n <= b
  BY DEF WireInv
<1>2. DOMAIN states \subseteq Nat
  BY DEF IInv, Types, WireInv
<1>3. \E x \in DOMAIN states : \A k \in DOMAIN states : k <= x
  BY <1>1, <1>2, Greatest
<1>4. QED
  BY <1>3 DEF Newest

\* A front that is kept and whose number stands for the input is held.
LEMMA HeldByFits ==
  ASSUME HeldInv, NEW ss \in Seq(SentState), ss # <<>>, NEW base, NEW es,
         Stands(ss, base, es, typed, meant), Kept(ss[1].num)
  PROVE  HeldByServer(ss, base, es)
<1>1. 1 \in 1 .. Len(ss)
  BY StatesOf
<1>2. /\ base <= ss[1].events /\ ss[1].events <= base + Len(es)
      /\ meant[ss[1].num] = InputBefore(ss[1].events, base, es)
  BY <1>1 DEF Stands, Amount, InputBefore
<1>3. states[ss[1].num] = Run(1, meant[ss[1].num])
  BY DEF HeldInv, StatesHeld, Kept
<1>4. QED
  BY <1>2, <1>3 DEF HeldByServer, Kept

\* The newest state has the most, and a state taken in never makes it less.
LEMMA ReceiveStep ==
  ASSUME IInv, WireInv, HeldInv, IInv', WireInv', HeldInv',
         NEW m \in toServer, Receive(m)
  PROVE  LET before == states[Newest(states)]
             after == states'[Newest(states')]
         IN  \/ after = before
             \/ \E n \in Len(before) + 1 .. typed : after = Run(1, n)
<1>1. /\ m.new \notin DOMAIN states /\ m.old \in DOMAIN states /\ UNCHANGED <<typed, meant>>
      /\ states' = [n \in {k \in DOMAIN states : k >= m.throwaway} \cup {m.new} |->
                      IF n = m.new THEN states[m.old] \o m.diff ELSE states[n]]
  BY DEF Receive, history
<1> DEFINE old == Newest(states)
           new == Newest(states')
<1>2. old \in DOMAIN states /\ \A n \in DOMAIN states : n <= old
  BY <1>1, NewestFits
<1>3. new \in DOMAIN states' /\ \A n \in DOMAIN states' : n <= new
  <2>1. DOMAIN states' # {}
    BY <1>1
  <2>2. PICK b \in Nat : \A n \in DOMAIN states' : n <= b
    BY DEF WireInv
  <2>3. DOMAIN states' \subseteq Nat
    BY DEF IInv, Types, WireInv
  <2>4. \E x \in DOMAIN states' : \A k \in DOMAIN states' : k <= x
    BY <2>1, <2>2, <2>3, Greatest
  <2> QED BY <2>4 DEF Newest
<1> HIDE DEF old, new
<1>4. /\ old \in Nat /\ new \in Nat /\ m.throwaway \in Nat
      /\ old \in DOMAIN meant /\ new \in DOMAIN meant
      /\ meant[old] \in Nat /\ meant[new] \in Nat /\ typed \in Nat
  BY <1>1, <1>2, <1>3 DEF IInv, Types, WireInv, Instruction
<1>5. old >= m.throwaway /\ old <= new
  <2>1. PICK n \in DOMAIN states : m.throwaway <= n
    BY DEF HeldInv, PacketsHeld
  <2>2. n \in Nat /\ n <= old
    BY <2>1, <1>2 DEF IInv, Types, WireInv
  <2>3. old >= m.throwaway
    BY <2>1, <2>2, <1>4
  <2>4. old \in DOMAIN states'
    BY <2>3, <1>1, <1>2
  <2> QED BY <2>3, <2>4, <1>3
<1>6. /\ states[old] = Run(1, meant[old]) /\ Len(states[old]) = meant[old]
      /\ states'[new] = Run(1, meant[new])
  BY <1>1, <1>2, <1>3, <1>4, RunLength DEF HeldInv, StatesHeld
<1>7. meant[old] <= meant[new] /\ meant[new] <= typed
  BY <1>4, <1>5 DEF HeldInv, NumbersRise
<1>8. CASE meant[old] = meant[new]
  BY <1>6, <1>8 DEF old, new
<1>9. CASE meant[old] # meant[new]
  <2>1. meant[new] \in Len(states[old]) + 1 .. typed
    BY <1>4, <1>6, <1>7, <1>9
  <2> QED BY <2>1, <1>6 DEF old, new
<1>10. QED
  BY <1>8, <1>9

-----------------------------------------------------------------------------
(* The theorems *)

\* The server's states, the packets and the acknowledgments keep to the numbers
\* given away, whatever is cut.
LEMMA WireHolds == Spec => []WireInv
<1>1. WireInv /\ IInv /\ [Next]_vars => WireInv'
  BY NextWire
<1>2. QED
  BY InitWire, Invariance, <1>1, PTL DEF Spec

\* What a state number stands for is the same in memory, in the journal, in
\* packets and at the server, and the server keeps the front of each, unless
\* rewriteJournal() was cut short once (tick(), processAcknowledgment(), resume()).
THEOREM InputHeld == Spec => []UncutHeld
<1>1. Init => UncutHeld
  BY InitHeld DEF UncutHeld
<1>2. IInv /\ WireInv /\ UncutHeld /\ [Next]_vars => UncutHeld'
  BY NextHeld
<1>3. QED
  BY <1>1, <1>2, WireHolds, Invariance, PTL DEF Spec

\* Each of the server's states is the user's input up to some point, through
\* retransmissions, culls, events that grow, and restarts from a whole journal
\* (userDiff(), addSentState(), write(), readJournal()).
THEOREM InputArrivesInOrder == Spec => [](~cut => ServerInputIsTyped)
<1>1. IInv /\ WireInv /\ UncutHeld => (~cut => ServerInputIsTyped)
  <2> SUFFICES ASSUME IInv, WireInv, HeldInv, NEW n \in DOMAIN states
               PROVE  Len(states[n]) <= typed /\ states[n] = Run(1, Len(states[n]))
    BY DEF UncutHeld, ServerInputIsTyped
  <2>1. states[n] = Run(1, meant[n]) /\ meant[n] \in Nat /\ meant[n] <= typed
    BY DEF HeldInv, StatesHeld, NumbersRise, WireInv
  <2>2. Len(states[n]) = meant[n]
    BY <2>1, RunLength
  <2> QED BY <2>1, <2>2
<1>2. QED
  BY <1>1, Invariance, WireHolds, InputHeld, PTL

\* The client never lets go of a state, or of the input since it, before the
\* server acknowledged a later one that it still has (processAcknowledgment(),
\* calculateTimers(), sendInstruction()'s throwaway number).
THEOREM FrontIsHeld == Spec => [](~cut => FrontHeld)
<1>1. IInv /\ UncutHeld => (~cut => FrontHeld)
  <2> SUFFICES ASSUME IInv, HeldInv, up PROVE HeldByServer(sent, eventBase, events)
    BY DEF UncutHeld, FrontHeld
  <2>1. /\ sent \in Seq(SentState) /\ sent # <<>> /\ Kept(sent[1].num)
        /\ Stands(sent, eventBase, events, typed, meant)
    BY DEF IInv, Types, MemoryInv, HeldInv, MemoryHeld, FrontsKept
  <2> QED BY <2>1, HeldByFits
<1>2. QED
  BY <1>1, Invariance, InputHeld, PTL

\* Nor does the journal: a start of the app after any end of it, but one in the
\* middle of rewriteJournal(), goes on from a state the server has.
THEOREM RestartIsHeld == Spec => [](~cut => RestartHeld)
<1>1. IInv /\ UncutHeld => (~cut => RestartHeld)
  <2> SUFFICES ASSUME IInv, HeldInv, Readable(disk)
               PROVE  HeldByServer(RestoredSent(disk), disk.base, disk.events)
    BY DEF UncutHeld, RestartHeld
  <2> DEFINE ss == RestoredSent(disk)
  <2>1. Types /\ JournalHeld /\ Kept(disk.front)
    BY DEF IInv, HeldInv, FrontsKept
  <2>2. /\ ss \in Seq(SentState) /\ ss # <<>> /\ ss[1].num = disk.front
        /\ Stands(ss, disk.base, disk.events, typed, meant)
    BY <2>1, RestoredHeld
  <2> HIDE DEF ss
  <2>3. HeldByServer(ss, disk.base, disk.events)
    BY <2>1, <2>2, HeldByFits
  <2> QED BY <2>3 DEF ss
<1>2. QED
  BY <1>1, Invariance, InputHeld, PTL

\* When tick() finds the shutdown acknowledged, the server has all of the input.
THEOREM EndIsDelivered == Spec => [](~cut => ShutdownDeliversAll)
<1>1. IInv /\ WireInv /\ UncutHeld => (~cut => ShutdownDeliversAll)
  <2> SUFFICES ASSUME IInv, WireInv, HeldInv, up, sent[1].num = Shutdown
               PROVE  states[Newest(states)] = Run(1, typed)
    BY DEF UncutHeld, ShutdownDeliversAll
  <2>1. Shutdown \in DOMAIN states
    BY DEF HeldInv, FrontsKept, Kept
  <2>2. Newest(states) \in DOMAIN states /\ Shutdown <= Newest(states)
    BY <2>1, NewestFits
  <2>3. Newest(states) \in DOMAIN meant /\ Newest(states) \in Nat
    BY <2>2 DEF IInv, Types, WireInv
  <2>4. Newest(states) = Shutdown
    BY <2>2, <2>3, SenderAssumption DEF HeldInv, NumbersRise
  <2>5. meant[Shutdown] = typed
    BY <2>3, <2>4 DEF IInv, EndInv
  <2> QED BY <2>2, <2>4, <2>5 DEF HeldInv, StatesHeld
<1>2. QED
  BY <1>1, Invariance, WireHolds, InputHeld, PTL

\* MoshSender implements MoshInput when the app is not killed in the middle of
\* rewriteJournal(): every step types an input, gives the server's program more
\* of what was typed, or changes neither (sendToReceiver(), resume()).
THEOREM SenderImplements == ASSUME ~KillInRewrite PROVE Spec => Implements
<1>1. Init => Contract!Init
  <2> SUFFICES ASSUME Init PROVE typed = 1 /\ states[Newest(states)] = <<>>
    BY DEF Contract!Init
  <2>1. typed = 1 /\ states = [n \in {0} |-> <<>>]
    BY DEF Init
  <2>2. DOMAIN states = {0} /\ states[0] = <<>>
    BY <2>1
  <2>3. Newest(states) = 0
    BY <2>2 DEF Newest
  <2> QED BY <2>1, <2>2, <2>3
<1>2. Init => ~cut
  BY DEF Init
<1>3. ~cut /\ [Next]_vars => ~cut'
  BY DEF Next, Type, Tick, ProcessAcknowledgment, BeginShutdown, Rewrite, Stop, StopInRewrite,
         Resume, Receive, vars, past
<1>4. /\ IInv /\ WireInv /\ UncutHeld /\ ~cut /\ IInv' /\ WireInv' /\ UncutHeld' /\ ~cut'
      /\ [Next]_vars
      => [Contract!Next]_Contract!vars
  <2> SUFFICES ASSUME IInv, WireInv, HeldInv, IInv', WireInv', HeldInv', [Next]_vars
               PROVE  [Contract!Next]_Contract!vars
    BY DEF UncutHeld
  <2>1. ASSUME UNCHANGED states, typed' = typed + 1 \/ typed' = typed
        PROVE  [Contract!Next]_Contract!vars
    BY <2>1 DEF Contract!Next, Contract!Type, Contract!vars
  <2>2. ASSUME NEW isResize \in BOOLEAN, Type(isResize)
        PROVE  [Contract!Next]_Contract!vars
    BY <2>1, <2>2 DEF Type, server
  <2>3. CASE Tick
    BY <2>1, <2>3 DEF Tick, server
  <2>4. ASSUME NEW num \in acks, ProcessAcknowledgment(num)
        PROVE  [Contract!Next]_Contract!vars
    BY <2>1, <2>4 DEF ProcessAcknowledgment, server, history
  <2>5. CASE BeginShutdown
    BY <2>1, <2>5 DEF BeginShutdown, server, history
  <2>6. CASE Rewrite
    BY <2>1, <2>6 DEF Rewrite, server, history
  <2>7. CASE Stop
    BY <2>1, <2>7 DEF Stop, Forget, server, history
  <2>8. CASE StopInRewrite
    BY <2>8 DEF StopInRewrite
  <2>9. CASE Resume
    BY <2>1, <2>9 DEF Resume, server
  <2>10. ASSUME NEW m \in toServer, Receive(m)
         PROVE  [Contract!Next]_Contract!vars
    <3>1. typed' = typed
      BY <2>10 DEF Receive, history
    <3>2. \/ states'[Newest(states')] = states[Newest(states)]
          \/ \E n \in Len(states[Newest(states)]) + 1 .. typed :
               states'[Newest(states')] = Run(1, n)
      BY <2>10, ReceiveStep
    <3> QED BY <3>1, <3>2 DEF Contract!Next, Contract!Deliver, Contract!vars, Contract!Run, Run
  <2>11. CASE UNCHANGED vars
    BY <2>1, <2>11 DEF vars, server, history
  <2> QED
    BY <2>2, <2>3, <2>4, <2>5, <2>6, <2>7, <2>8, <2>9, <2>10, <2>11 DEF Next
<1>5. QED
  BY <1>1, <1>2, <1>3, <1>4, Invariance, WireHolds, InputHeld, PTL
     DEF Spec, Implements, Contract!Spec
=============================================================================
