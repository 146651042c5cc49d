-------------------------- MODULE MoshSenderProofs --------------------------
(***************************************************************************)
(* Proofs about MoshSender: its types, and that a state number never comes *)
(* to stand for another input (NumbersFresh), for every size of the queue, *)
(* of the blocks of numbers, and of what the bounds bound, with the app    *)
(* ending anywhere, in the middle of rewriteJournal() too.                 *)
(*                                                                         *)
(* A number is fresh when it is above the last state sent and not below    *)
(* the floor a restart begins with.  For the floor to work, the journal    *)
(* has to reserve every number given away, or to have the state it was     *)
(* given to among its T records: right after a restart the reservation may *)
(* equal the floor, so the first number taken is not below it.             *)
(***************************************************************************)
EXTENDS MoshSender, SequenceTheorems, WellFoundedInduction, TLAPS

Sorted(ss) == \A i, j \in 1 .. Len(ss) : i < j => ss[i].num < ss[j].num

\* Every state counts events that were made.
Made(ss, total) == \A i \in 1 .. Len(ss) : ss[i].events <= total

\* All numbers but the one of the shutdown.
Given == DOMAIN meant \ {Shutdown}

Types ==
  /\ up \in BOOLEAN /\ shutdown \in BOOLEAN
  /\ events \in Seq(Event) /\ eventBase \in Nat
  /\ sent \in Seq(SentState)
  /\ stateReserved \in Nat /\ stateFloor \in Nat
  /\ typed \in Nat
  /\ disk \in Journal
  /\ DOMAIN meant \subseteq Nat

\* The states in memory, against the input and the numbers given away.
MemoryInv ==
  up =>
    /\ sent # <<>>
    /\ Made(sent, Total)
    /\ LastSent.events = Total => LastSent.num \in DOMAIN meant /\ meant[LastSent.num] = typed
    /\ stateFloor <= stateReserved
    /\ ~shutdown => Sorted(sent) /\ \A n \in Given : n <= LastSent.num \/ n < stateFloor

\* Once the session is being ended nothing is typed, and nothing resumed.
EndInv ==
  /\ shutdown => up /\ ~Readable(disk)
  /\ Shutdown \in DOMAIN meant =>
       ~Readable(disk) /\ (up => shutdown /\ meant[Shutdown] = typed)

\* What a restart would go on from.
JournalInv ==
  Readable(disk) =>
    /\ Sorted(disk.sent)
    /\ disk.sent # <<>> => disk.front <= disk.sent[Len(disk.sent)].num
    /\ Made(disk.sent, disk.base + Len(disk.events))
    /\ \A n \in Given :
         \/ n < disk.reserved
         \/ disk.sent # <<>> /\ n <= disk.sent[Len(disk.sent)].num

\* The journal of a running session, against its memory.
SameInv ==
  up /\ Readable(disk) =>
    /\ disk.reserved = stateReserved
    /\ disk.sent # <<>> /\ disk.sent[Len(disk.sent)] = LastSent
    /\ disk.base + Len(disk.events) = Total

IInv == Types /\ MemoryInv /\ EndInv /\ JournalInv /\ SameInv

-----------------------------------------------------------------------------
(* Sequences of states *)

\* A set of naturals that has a member has a least one.
LEMMA Least ==
  ASSUME NEW T, T \subseteq Nat, T # {}
  PROVE  \E x \in T : \A y \in T : x <= y
<1> DEFINE R == {p \in Nat \X Nat : p[1] < p[2]}
<1>1. IsWellFoundedOn(R, Nat)
  BY NatLessThanWellFounded DEF OpToRel
<1>2. PICK x \in T : \A y \in T : ~ (<<y, x>> \in R)
  BY <1>1, WFMin
<1>3. SUFFICES ASSUME NEW y \in T PROVE x <= y
  OBVIOUS
<1>4. x \in Nat /\ y \in Nat /\ ~ (<<y, x>> \in R)
  BY <1>2
<1>5. QED
  BY <1>4

\* What a sequence of states is made of.
LEMMA StatesOf ==
  ASSUME NEW ss \in Seq(SentState)
  PROVE  /\ Len(ss) \in Nat
         /\ \A i \in 1 .. Len(ss) : ss[i] \in SentState /\ ss[i].num \in Nat /\ ss[i].events \in Nat
         /\ ss # <<>> => Len(ss) \in 1 .. Len(ss)
<1>1. Len(ss) \in Nat /\ \A i \in 1 .. Len(ss) : ss[i] \in SentState
  OBVIOUS
<1>2. \A s \in SentState : s.num \in Nat /\ s.events \in Nat
  BY DEF SentState
<1>3. ss # <<>> => Len(ss) \in Nat \ {0}
  BY EmptySeq
<1>4. QED
  BY <1>1, <1>2, <1>3

\* From() finds a place: the first state not below the number, or the end.
LEMMA FromFits ==
  ASSUME NEW ss \in Seq(SentState), NEW num \in Nat
  PROVE  /\ From(ss, num) \in 1 .. Len(ss) + 1
         /\ \A j \in 1 .. From(ss, num) - 1 : ss[j].num < num
         /\ From(ss, num) <= Len(ss) => ss[From(ss, num)].num >= num
<1> DEFINE T == {i \in 1 .. Len(ss) + 1 : i <= Len(ss) => ss[i].num >= num}
<1>1. Len(ss) \in Nat /\ \A i \in 1 .. Len(ss) : ss[i].num \in Nat
  BY StatesOf
<1>2. T \subseteq Nat /\ Len(ss) + 1 \in T
  BY <1>1
<1>3. PICK i \in T : \A y \in T : i <= y
  BY <1>2, Least
<1>4. i \in 1 .. Len(ss) + 1 /\ (i <= Len(ss) => ss[i].num >= num)
  OBVIOUS
<1>5. ASSUME NEW j \in 1 .. i - 1 PROVE ss[j].num < num
  <2>1. j \in 1 .. Len(ss) /\ j < i
    BY <1>1, <1>4
  <2>2. j \notin T
    BY <2>1, <1>3, <1>1
  <2> QED BY <2>1, <2>2, <1>1
<1> HIDE DEF T
<1>6. QED
  BY <1>4, <1>5 DEF From

\* DropBefore() leaves the end of the sequence.
LEMMA DropBeforeFits ==
  ASSUME NEW ss \in Seq(SentState), NEW num \in Nat
  PROVE  LET kept == DropBefore(ss, num)
             from == From(ss, num)
         IN  /\ kept \in Seq(SentState)
             /\ from \in 1 .. Len(ss) + 1
             /\ Len(kept) = (Len(ss) + 1) - from
             /\ \A i \in 1 .. Len(kept) : kept[i] = ss[(from + i) - 1]
             /\ kept # <<>> => kept[1].num >= num
             /\ kept # <<>> => kept[Len(kept)] = ss[Len(ss)]
             /\ (\E i \in 1 .. Len(ss) : ss[i].num >= num) => kept # <<>>
             /\ Sorted(ss) => Sorted(kept)
             /\ \A total : Made(ss, total) => Made(kept, total)
<1> DEFINE from == From(ss, num)
           kept == DropBefore(ss, num)
<1>1. Len(ss) \in Nat /\ \A i \in 1 .. Len(ss) : ss[i].num \in Nat /\ ss[i] \in SentState
  BY StatesOf
<1>2. /\ from \in 1 .. Len(ss) + 1
      /\ \A j \in 1 .. from - 1 : ss[j].num < num
      /\ from <= Len(ss) => ss[from].num >= num
  BY FromFits
<1> HIDE DEF from
<1>3. \A i \in from .. Len(ss) : ss[i] \in SentState
  BY <1>1, <1>2
<1>4. /\ kept \in Seq(SentState)
      /\ Len(kept) = IF from <= Len(ss) THEN Len(ss) - from + 1 ELSE 0
      /\ \A i \in 1 .. Len(ss) - from + 1 : kept[i] = ss[from + i - 1]
  BY <1>1, <1>2, <1>3, SubSeqProperties DEF DropBefore, from
<1> HIDE DEF kept
<1>5. /\ Len(kept) = (Len(ss) + 1) - from
      /\ \A i \in 1 .. Len(kept) : kept[i] = ss[(from + i) - 1] /\ (from + i) - 1 \in 1 .. Len(ss)
  BY <1>1, <1>2, <1>4
<1>6. kept # <<>> => Len(kept) > 0
  BY <1>4, EmptySeq
<1>7. kept # <<>> => kept[1].num >= num /\ kept[Len(kept)] = ss[Len(ss)]
  BY <1>1, <1>2, <1>5, <1>6
<1>8. ASSUME NEW i \in 1 .. Len(ss), ss[i].num >= num PROVE kept # <<>>
  <2>1. from <= i
    BY <1>1, <1>2, <1>8
  <2>2. Len(kept) > 0
    BY <1>1, <1>2, <1>5, <2>1
  <2> QED BY <2>2, EmptySeq
<1>9. ASSUME Sorted(ss) PROVE Sorted(kept)
  <2> SUFFICES ASSUME NEW i \in 1 .. Len(kept), NEW j \in 1 .. Len(kept), i < j
               PROVE  kept[i].num < kept[j].num
    BY DEF Sorted
  <2>1. (from + i) - 1 < (from + j) - 1
    BY <1>1, <1>2, <1>5
  <2>2. ss[(from + i) - 1].num < ss[(from + j) - 1].num
    BY <1>5, <1>9, <2>1 DEF Sorted
  <2> QED BY <1>5, <2>2
<1>10. ASSUME NEW total, Made(ss, total) PROVE Made(kept, total)
  BY <1>5, <1>10 DEF Made
<1>11. QED
  BY <1>2, <1>4, <1>5, <1>7, <1>8, <1>9, <1>10 DEF from, kept

\* A sequence cut after some of its states.
LEMMA PrefixFits ==
  ASSUME NEW S, NEW ss \in Seq(S), NEW n \in 0 .. Len(ss)
  PROVE  LET cutOff == SubSeq(ss, 1, n)
         IN  /\ cutOff \in Seq(S)
             /\ Len(cutOff) = n
             /\ \A i \in 1 .. n : cutOff[i] = ss[i]
             /\ cutOff # <<>> => n > 0
<1>1. Len(ss) \in Nat /\ \A i \in 1 .. n : ss[i] \in S
  BY ElementOfSeq, LenProperties
<1>2. /\ SubSeq(ss, 1, n) \in Seq(S)
      /\ Len(SubSeq(ss, 1, n)) = IF 1 <= n THEN n - 1 + 1 ELSE 0
      /\ \A i \in 1 .. n - 1 + 1 : SubSeq(ss, 1, n)[i] = ss[1 + i - 1]
  BY <1>1, SubSeqProperties
<1>3. SubSeq(ss, 1, n) # <<>> => n > 0
  BY <1>1, SubSeqEmpty
<1>4. QED
  BY <1>1, <1>2, <1>3

\* A state with a higher number is put at the end.
LEMMA AppendFits ==
  ASSUME NEW ss \in Seq(SentState), NEW s \in SentState
  PROVE  LET longer == Append(ss, s)
         IN  /\ longer \in Seq(SentState) /\ longer # <<>>
             /\ Len(longer) = Len(ss) + 1
             /\ longer[Len(longer)] = s
             /\ \A i \in 1 .. Len(ss) : longer[i] = ss[i]
             /\ Sorted(ss) /\ (ss # <<>> => ss[Len(ss)].num < s.num) => Sorted(longer)
             /\ \A total : Made(ss, total) /\ s.events <= total => Made(longer, total)
<1> DEFINE longer == Append(ss, s)
<1>1. Len(ss) \in Nat /\ \A i \in 1 .. Len(ss) : ss[i].num \in Nat
  BY StatesOf
<1>2. s.num \in Nat
  BY DEF SentState
<1>3. /\ longer \in Seq(SentState) /\ longer # <<>>
      /\ Len(longer) = Len(ss) + 1
      /\ longer[Len(ss) + 1] = s
      /\ \A i \in 1 .. Len(ss) : longer[i] = ss[i]
  BY AppendProperties
<1> HIDE DEF longer
<1>4. ASSUME Sorted(ss), ss # <<>> => ss[Len(ss)].num < s.num PROVE Sorted(longer)
  <2> SUFFICES ASSUME NEW i \in 1 .. Len(longer), NEW j \in 1 .. Len(longer), i < j
               PROVE  longer[i].num < longer[j].num
    BY DEF Sorted
  <2>1. i \in 1 .. Len(ss) /\ longer[i] = ss[i]
    BY <1>1, <1>3
  <2>2. CASE j \in 1 .. Len(ss)
    BY <2>1, <2>2, <1>3, <1>4 DEF Sorted
  <2>3. CASE j = Len(ss) + 1
    <3>1. ss[i].num <= ss[Len(ss)].num
      BY <2>1, <1>1, <1>4 DEF Sorted
    <3>2. ss # <<>>
      BY <2>1, <1>1, EmptySeq
    <3> QED BY <2>1, <2>3, <3>1, <3>2, <1>1, <1>2, <1>3, <1>4
  <2> QED BY <2>2, <2>3, <1>1, <1>3
<1>5. ASSUME NEW total, Made(ss, total), s.events <= total PROVE Made(longer, total)
  <2> SUFFICES ASSUME NEW i \in 1 .. Len(longer) PROVE longer[i].events <= total
    BY DEF Made
  <2> QED BY <1>1, <1>3, <1>5 DEF Made
<1>6. QED
  BY <1>3, <1>4, <1>5 DEF longer

\* A cull takes a state between the front and the last.
LEMMA CullFits ==
  ASSUME NEW ss \in Seq(SentState), ss # <<>>
  PROVE  LET rest == Cull(ss)
         IN  /\ rest \in Seq(SentState) /\ rest # <<>>
             /\ Len(ss) - 1 <= Len(rest)
             /\ rest[Len(rest)] = ss[Len(ss)]
             /\ Sorted(ss) => Sorted(rest)
             /\ \A total : Made(ss, total) => Made(rest, total)
<1>1. CASE Len(ss) <= MaxSentStates
  <2>1. Cull(ss) = ss
    BY <1>1, LenProperties, SenderAssumption DEF Cull
  <2> QED BY <2>1, LenProperties
<1>2. CASE Len(ss) > MaxSentStates
  <2> DEFINE k == (Len(ss) - CullBack) + 1
             a == SubSeq(ss, 1, k - 1)
             b == SubSeq(ss, k + 1, Len(ss))
             rest == a \o b
  <2>1. Len(ss) \in Nat /\ \A i \in 1 .. Len(ss) : ss[i].num \in Nat /\ ss[i] \in SentState
    BY StatesOf
  <2>2. k \in 1 .. Len(ss) - 1
    BY <1>2, <2>1, SenderAssumption
  <2>3. Cull(ss) = rest
    BY <1>2 DEF Cull, RemoveAt
  <2> HIDE DEF k
  <2>4. /\ a \in Seq(SentState) /\ Len(a) = k - 1
        /\ \A i \in 1 .. k - 1 : a[i] = ss[i]
    <3>1. k - 1 \in 0 .. Len(ss)
      BY <2>1, <2>2
    <3> QED BY <3>1, PrefixFits
  <2>5. /\ b \in Seq(SentState) /\ Len(b) = Len(ss) - k
        /\ \A i \in 1 .. Len(ss) - k : b[i] = ss[k + i]
    <3>1. \A i \in k + 1 .. Len(ss) : ss[i] \in SentState
      BY <2>1, <2>2
    <3>2. k + 1 \in Int /\ Len(ss) \in Int
      BY <2>1, <2>2
    <3>3. /\ b \in Seq(SentState)
          /\ Len(b) = IF k + 1 <= Len(ss) THEN Len(ss) - (k + 1) + 1 ELSE 0
          /\ \A i \in 1 .. Len(ss) - (k + 1) + 1 : b[i] = ss[(k + 1) + i - 1]
      BY <3>1, <3>2, SubSeqProperties
    <3> QED BY <3>3, <2>1, <2>2
  <2> HIDE DEF a, b
  <2>6. /\ rest \in Seq(SentState) /\ Len(rest) = Len(ss) - 1
        /\ \A i \in 1 .. Len(ss) - 1 : rest[i] = IF i < k THEN ss[i] ELSE ss[i + 1]
    <3>1. /\ rest \in Seq(SentState) /\ Len(rest) = Len(a) + Len(b)
          /\ \A i \in 1 .. Len(a) + Len(b) : rest[i] = IF i <= Len(a) THEN a[i] ELSE b[i - Len(a)]
      BY <2>4, <2>5, ConcatProperties
    <3> HIDE DEF rest
    <3>2. Len(a) + Len(b) = Len(ss) - 1
      BY <2>1, <2>2, <2>4, <2>5
    <3>3. ASSUME NEW i \in 1 .. Len(ss) - 1 PROVE rest[i] = IF i < k THEN ss[i] ELSE ss[i + 1]
      <4>1. CASE i < k
        BY <4>1, <3>1, <3>2, <2>1, <2>2, <2>4
      <4>2. CASE i >= k
        <5>1. /\ i - Len(a) \in 1 .. Len(ss) - k /\ k + (i - Len(a)) = i + 1
              /\ ~ (i <= Len(a)) /\ ~ (i < k)
          BY <4>2, <2>1, <2>2, <2>4
        <5>2. rest[i] = b[i - Len(a)]
          BY <3>1, <3>2, <5>1
        <5>3. b[i - Len(a)] = ss[k + (i - Len(a))]
          BY <2>5, <5>1
        <5> QED BY <5>1, <5>2, <5>3
      <4> QED BY <4>1, <4>2, <2>1, <2>2
    <3> QED BY <3>1, <3>2, <3>3
  <2> HIDE DEF rest
  <2>7. rest # <<>> /\ rest[Len(rest)] = ss[Len(ss)]
    BY <2>1, <2>2, <2>6, EmptySeq
  <2>8. ASSUME Sorted(ss) PROVE Sorted(rest)
    <3> SUFFICES ASSUME NEW i \in 1 .. Len(rest), NEW j \in 1 .. Len(rest), i < j
                 PROVE  rest[i].num < rest[j].num
      BY DEF Sorted
    <3> DEFINE at(x) == IF x < k THEN x ELSE x + 1
    <3>1. /\ at(i) \in 1 .. Len(ss) /\ at(j) \in 1 .. Len(ss) /\ at(i) < at(j)
          /\ rest[i] = ss[at(i)] /\ rest[j] = ss[at(j)]
      BY <2>1, <2>2, <2>6
    <3> HIDE DEF at
    <3> QED BY <3>1, <2>8 DEF Sorted
  <2>9. ASSUME NEW total, Made(ss, total) PROVE Made(rest, total)
    BY <2>1, <2>2, <2>6, <2>9 DEF Made
  <2>10. Len(ss) - 1 <= Len(rest)
    BY <2>1, <2>6
  <2> QED BY <2>3, <2>6, <2>7, <2>8, <2>9, <2>10
<1>3. QED
  BY <1>1, <1>2, LenProperties, SenderAssumption

\* Events grow in place, or by one more.
LEMMA EventsFit ==
  ASSUME NEW es \in Seq(Event), NEW isResize \in BOOLEAN, typed \in Nat
  PROVE  /\ Append(es, Input(isResize)) \in Seq(Event)
         /\ Len(Append(es, Input(isResize))) = Len(es) + 1
         /\ Grown(es) \in Seq(Event)
         /\ Len(Grown(es)) = Len(es)
<1>1. Input(isResize) \in Event
  BY DEF Input, Event
<1>2. /\ Append(es, Input(isResize)) \in Seq(Event)
      /\ Len(Append(es, Input(isResize))) = Len(es) + 1
  BY <1>1, AppendProperties
<1>3. es \in [1 .. Len(es) -> Event] /\ Len(es) \in Nat
  BY LenProperties
<1>4. \A e \in Event : [e EXCEPT !.last = typed + 1] \in Event
  BY DEF Event
<1>5. Grown(es) \in [1 .. Len(es) -> Event]
  BY <1>3, <1>4 DEF Grown
<1>6. Grown(es) \in Seq(Event) /\ Len(Grown(es)) = Len(es)
  BY <1>3, <1>5
<1>7. QED
  BY <1>2, <1>6

\* Dropping the events the server has leaves the count of all of them.
LEMMA TrimFits ==
  ASSUME Types, sent # <<>>, Made(sent, Total)
  PROVE  /\ TrimmedBase \in Nat
         /\ Trimmed \in Seq(Event)
         /\ Len(Trimmed) \in Nat
         /\ TrimmedBase + Len(Trimmed) = Total
<1>1. Len(events) \in Nat /\ \A i \in 1 .. Len(events) : events[i] \in Event
  BY DEF Types
<1>2. sent[1].events \in Nat /\ sent[1].events <= Total
  BY StatesOf DEF Types, Made
<1>3. TrimmedBase \in Nat /\ eventBase <= TrimmedBase /\ TrimmedBase <= Total
  BY <1>1, <1>2 DEF TrimmedBase, NatMax, Types, Total
<1> DEFINE from == (TrimmedBase - eventBase) + 1
<1>4. from \in 1 .. Len(events) + 1
  BY <1>1, <1>3 DEF Types, Total
<1>5. /\ SubSeq(events, from, Len(events)) \in Seq(Event)
      /\ Len(SubSeq(events, from, Len(events))) =
           IF from <= Len(events) THEN Len(events) - from + 1 ELSE 0
  <2>1. \A i \in from .. Len(events) : events[i] \in Event
    BY <1>1, <1>4
  <2>2. from \in Int /\ Len(events) \in Int
    BY <1>1, <1>4
  <2> HIDE DEF from
  <2> QED BY <2>1, <2>2, SubSeqProperties
<1>6. QED
  BY <1>1, <1>3, <1>4, <1>5 DEF Trimmed, Types, Total

\* A reservation is never given back, and covers the last state.
LEMMA ReserveFits ==
  ASSUME NEW reserved \in Nat, NEW ss \in Seq(SentState), ss # <<>>
  PROVE  /\ Reserve(reserved, ss) \in Nat
         /\ Reserve(reserved, ss) >= reserved
         /\ Reserve(reserved, ss) > ss[Len(ss)].num
<1>1. ss[Len(ss)].num \in Nat
  BY StatesOf
<1>2. QED
  BY <1>1, SenderAssumption DEF Reserve, NatMax

-----------------------------------------------------------------------------
(* The invariant, one lemma per action *)

LEMMA InitIInv == Init => IInv
<1> SUFFICES ASSUME Init PROVE IInv
  OBVIOUS
<1> DEFINE e == [first |-> 1, last |-> 1, resize |-> TRUE]
           z == [num |-> 0, events |-> 0]
<1>1. e \in Event /\ z \in SentState
  BY DEF Event, SentState
<1>2. events = <<e>> /\ sent = <<z>> /\ sent[1] = z /\ Len(sent) = 1 /\ Len(events) = 1
  BY DEF Init
<1>3. events \in Seq(Event) /\ sent \in Seq(SentState) /\ sent # <<>>
  BY <1>1, <1>2
<1>4. sent[1].num = 0 /\ sent[1].events = 0
  BY <1>2
<1>5. disk = [reserved |-> SeqBlock, front |-> 0, base |-> 0, events |-> events, sent |-> sent]
  BY <1>4 DEF Init, Snapshot
<1>6. /\ up = TRUE /\ typed = 1 /\ eventBase = 0 /\ stateReserved = SeqBlock /\ stateFloor = 0
      /\ shutdown = FALSE /\ meant = [n \in {0} |-> 0]
  BY DEF Init
<1>7. DOMAIN meant = {0} /\ SeqBlock \in Nat
  BY <1>6, SenderAssumption
<1>8. Types
  <2>1. disk \in Journal
    BY <1>3, <1>5, <1>7 DEF Journal
  <2>2. eventBase \in Nat /\ stateFloor \in Nat /\ stateReserved \in Nat /\ typed \in Nat
    BY <1>6, <1>7
  <2>3. up \in BOOLEAN /\ shutdown \in BOOLEAN
    BY <1>6
  <2>4. DOMAIN meant \subseteq Nat
    BY <1>7
  <2> QED BY <2>1, <2>2, <2>3, <2>4, <1>3 DEF Types
<1>9. Sorted(sent) /\ Made(sent, 1) /\ Total = 1
  BY <1>2, <1>4, <1>6 DEF Sorted, Made, Total
<1>10. MemoryInv
  BY <1>2, <1>3, <1>4, <1>6, <1>7, <1>9 DEF MemoryInv, LastSent, Given
<1>11. JournalInv
  BY <1>2, <1>3, <1>4, <1>5, <1>6, <1>7, <1>9 DEF JournalInv, Given
<1>12. SameInv
  BY <1>2, <1>3, <1>5, <1>6, <1>9 DEF SameInv, LastSent
<1>13. EndInv
  BY <1>6, <1>7, SenderAssumption DEF EndInv
<1>14. QED
  BY <1>8, <1>10, <1>11, <1>12, <1>13 DEF IInv

LEMMA TypeStep ==
  ASSUME IInv, NEW isResize \in BOOLEAN, Type(isResize)
  PROVE  IInv'
<1> USE DEF IInv
<1> DEFINE grow == CanGrow /\ ~isResize
<1>1. /\ up /\ ~shutdown /\ typed' = typed + 1
      /\ UNCHANGED <<up, eventBase, sent, stateReserved, stateFloor, shutdown, meant>>
      /\ grow => events' = Grown(events) /\ disk' = [disk EXCEPT !.events = Grown(@)]
      /\ ~grow => /\ events' = Append(events, Input(isResize))
                  /\ disk' = [disk EXCEPT !.events = Append(@, Input(isResize))]
  BY DEF Type, MayType, Journaled
<1>2. disk.events \in Seq(Event) /\ events \in Seq(Event) /\ typed \in Nat
  BY DEF Types, Journal
<1> DEFINE more == IF grow THEN 0 ELSE 1
<1>3. /\ events' \in Seq(Event) /\ Len(events') = Len(events) + more
      /\ disk'.events \in Seq(Event) /\ Len(disk'.events) = Len(disk.events) + more
  <2>1. CASE grow
    <3>1. disk'.events = Grown(disk.events)
      BY <2>1, <1>1 DEF Types, Journal
    <3> QED BY <3>1, <2>1, <1>1, <1>2, EventsFit
  <2>2. CASE ~grow
    <3>1. disk'.events = Append(disk.events, Input(isResize))
      BY <2>2, <1>1 DEF Types, Journal
    <3> QED BY <3>1, <2>2, <1>1, <1>2, EventsFit
  <2> QED BY <2>1, <2>2
<1>0. more \in {0, 1}
  OBVIOUS
<1> HIDE DEF more
<1>4. /\ disk' \in Journal
      /\ disk'.reserved = disk.reserved /\ disk'.front = disk.front
      /\ disk'.base = disk.base /\ disk'.sent = disk.sent
  BY <1>1, <1>3 DEF Types, Journal
<1>5. Types'
  BY <1>1, <1>3, <1>4 DEF Types
<1>6. Len(events) \in Nat /\ Len(disk.events) \in Nat /\ Total' = Total + more
  BY <1>0, <1>1, <1>2, <1>3 DEF Total, Types
<1>7. sent # <<>> /\ \A i \in 1 .. Len(sent) : sent[i].events \in Nat /\ sent[i].events <= Total
  BY <1>1, StatesOf DEF MemoryInv, Made, Types
<1>8. Made(sent, Total') /\ LastSent.events < Total'
  <2>1. grow => Total > LastSent.events
    BY DEF CanGrow
  <2>2. Total \in Nat
    BY <1>6 DEF Total, Types
  <2>3. LastSent.events \in Nat /\ LastSent.events <= Total
    BY <1>7, StatesOf DEF LastSent, Types
  <2>4. LastSent.events < Total'
    <3>1. grow => more = 0
      BY DEF more
    <3>2. ~grow => more = 1
      BY DEF more
    <3> QED BY <3>1, <3>2, <2>1, <2>2, <2>3, <1>6
  <2>5. Total <= Total' /\ Total' \in Nat
    BY <2>2, <1>0, <1>6
  <2>6. Made(sent, Total')
    BY <2>2, <2>5, <1>7 DEF Made
  <2> QED BY <2>4, <2>6
<1>9. MemoryInv'
  <2>1. LastSent' = LastSent /\ Given' = Given
    BY <1>1 DEF LastSent, Given
  <2>2. LastSent.events \in Nat
    BY <1>7, StatesOf DEF LastSent, Types
  <2>3. ~ (LastSent.events = Total')
    BY <2>2, <1>6, <1>8, <1>0 DEF Total, Types
  <2> QED BY <2>1, <2>3, <1>1, <1>7, <1>8 DEF MemoryInv
<1>10. EndInv' /\ (Readable(disk') <=> Readable(disk))
  BY <1>1, <1>4 DEF EndInv, Readable
<1>11. SameInv'
  <2> SUFFICES ASSUME up, Readable(disk) PROVE SameInv'
    BY <1>1, <1>10 DEF SameInv
  <2>1. disk.base \in Nat
    BY DEF Types, Journal
  <2>2. disk.base + Len(disk.events) = Total
    BY DEF SameInv
  <2>3. disk'.base + Len(disk'.events) = Total'
    BY <2>1, <2>2, <1>0, <1>3, <1>4, <1>6
  <2>4. LastSent' = LastSent
    BY <1>1 DEF LastSent
  <2> QED BY <2>3, <2>4, <1>1, <1>4 DEF SameInv
<1>12. JournalInv'
  <2> SUFFICES ASSUME Readable(disk) PROVE JournalInv'
    BY <1>10 DEF JournalInv
  <2>1. Made(disk.sent, disk.base + Len(disk.events))
    BY DEF JournalInv
  <2>2. \A i \in 1 .. Len(disk.sent) : disk.sent[i].events \in Nat
    BY StatesOf DEF Types, Journal
  <2>3. disk.base \in Nat
    BY DEF Types, Journal
  <2>4. Made(disk.sent, disk.base + Len(disk'.events))
    <3>1. disk.base + Len(disk.events) <= disk.base + Len(disk'.events)
      BY <2>3, <1>3, <1>6, <1>0
    <3>2. Len(disk'.events) \in Nat
      BY <1>3, <1>6, <1>0
    <3> QED BY <3>1, <3>2, <2>1, <2>2, <2>3, <1>6, SMTT(40) DEF Made
  <2> QED BY <2>4, <1>1, <1>4 DEF JournalInv, Given
<1>13. QED
  BY <1>5, <1>9, <1>10, <1>11, <1>12

\* What a snapshot of the memory gives a restart.
LEMMA SnapshotFits ==
  ASSUME NEW reserved \in Nat, NEW base \in Nat, NEW es \in Seq(Event),
         NEW ss \in Seq(SentState), ss # <<>>, Sorted(ss)
  PROVE  LET d == Snapshot(reserved, base, es, ss)
         IN  /\ d \in Journal
             /\ d.reserved = reserved /\ d.base = base /\ d.events = es /\ d.sent = ss
             /\ d.front = ss[1].num /\ d.front <= ss[Len(ss)].num
             /\ \A i \in 1 .. Len(ss) : d.front <= ss[i].num
<1>1. Len(ss) \in 1 .. Len(ss) /\ \A i \in 1 .. Len(ss) : ss[i].num \in Nat
  BY StatesOf
<1>2. \A i \in 1 .. Len(ss) : ss[1].num <= ss[i].num
  BY <1>1 DEF Sorted
<1>3. QED
  BY <1>1, <1>2 DEF Snapshot, Journal

\* A packet without a new number: nothing is sent, or the last state again.
LEMMA KeepStep ==
  ASSUME IInv, up,
         UNCHANGED <<up, sent, stateReserved, stateFloor, shutdown, typed, disk>>,
         eventBase' = TrimmedBase, events' = Trimmed,
         \/ meant' = meant
         \/ /\ meant' = [n \in DOMAIN meant \cup {LastSent.num} |->
                            IF n = LastSent.num THEN typed ELSE meant[n]]
            /\ \/ shutdown /\ LastSent.num = Shutdown
               \/ ~shutdown /\ Total = LastSent.events
  PROVE  IInv'
<1> USE DEF IInv
<1>1. sent # <<>> /\ Made(sent, Total)
  BY DEF MemoryInv
<1>2. /\ TrimmedBase \in Nat /\ Trimmed \in Seq(Event) /\ Total' = Total
  BY <1>1, TrimFits DEF Total
<1>3. LastSent' = LastSent /\ LastSent.num \in Nat
  BY <1>1, StatesOf DEF LastSent, Types
<1>4. DOMAIN meant' \subseteq Nat /\ Given' = Given
  BY <1>3 DEF Types, Given, MemoryInv
<1>5. Types'
  BY <1>2, <1>4 DEF Types
<1>6. MemoryInv'
  BY <1>2, <1>3, <1>4 DEF MemoryInv
<1>7. EndInv'
  BY <1>3 DEF EndInv, MemoryInv
<1>8. JournalInv'
  BY <1>4 DEF JournalInv
<1>9. SameInv'
  BY <1>2, <1>3 DEF SameInv
<1>10. QED
  BY <1>5, <1>6, <1>7, <1>8, <1>9

\* Memory and journal after a state under a new number, while the session goes on.
LEMMA NewStateStep ==
  ASSUME IInv, up, ~shutdown, NEW num, num = NewNum, num < Shutdown,
         UNCHANGED <<up, stateFloor, shutdown, typed>>,
         eventBase' = TrimmedBase, events' = Trimmed,
         AddSentState(num),
         meant' = [n \in DOMAIN meant \cup {num} |-> IF n = num THEN typed ELSE meant[n]]
  PROVE  IInv' /\ num \notin DOMAIN meant
<1> USE DEF IInv
<1> DEFINE state == [num |-> num, events |-> Total]
<1>1. sent # <<>> /\ Made(sent, Total) /\ Sorted(sent) /\ sent \in Seq(SentState)
  BY DEF MemoryInv, Types
<1>2. /\ TrimmedBase \in Nat /\ Trimmed \in Seq(Event) /\ Total' = Total
      /\ TrimmedBase + Len(Trimmed) = Total /\ Total \in Nat
  BY <1>1, TrimFits DEF Total
<1>3. LastSent.num \in Nat /\ stateFloor \in Nat /\ stateReserved \in Nat
  BY <1>1, StatesOf DEF LastSent, Types
<1>4. num \in Nat /\ num > LastSent.num /\ num >= stateFloor
  BY <1>3 DEF NewNum, NatMax
<1>5. \A n \in Given : n < num
  <2>1. \A n \in Given : n \in Nat /\ (n <= LastSent.num \/ n < stateFloor)
    BY DEF MemoryInv, Given, Types
  <2> QED BY <2>1, <1>3, <1>4
<1>6. num \notin DOMAIN meant
  BY <1>4, <1>5, SenderAssumption DEF Given
<1>7. /\ DOMAIN meant' = DOMAIN meant \cup {num} /\ Given' = Given \cup {num}
      /\ meant'[num] = typed
  BY <1>4, SenderAssumption DEF Given
<1>8. state \in SentState /\ state.num = num /\ state.events = Total
  BY <1>2, <1>4 DEF SentState
<1> HIDE DEF state
<1> DEFINE longer == Append(sent, state)
<1>9. /\ longer \in Seq(SentState) /\ longer # <<>> /\ longer[Len(longer)] = state
      /\ Sorted(longer) /\ Made(longer, Total)
  <2>1. sent[Len(sent)].num < state.num
    BY <1>4, <1>8 DEF LastSent
  <2>2. state.events <= Total
    BY <1>2, <1>8
  <2> QED BY <2>1, <2>2, <1>1, <1>8, AppendFits
<1> HIDE DEF longer
<1>10. sent' = Cull(longer)
  BY DEF AddSentState, longer, state
<1>11. /\ sent' \in Seq(SentState) /\ sent' # <<>> /\ LastSent' = state
       /\ Sorted(sent') /\ Made(sent', Total)
  BY <1>9, <1>10, CullFits DEF LastSent
<1> DEFINE renewed == num >= stateReserved
           more == Reserve(stateReserved, sent)
           rewrite == Snapshot(more, TrimmedBase, Trimmed, sent)
           journal == IF renewed THEN rewrite ELSE disk
<1>12. /\ stateReserved' = IF renewed THEN rewrite.reserved ELSE stateReserved
       /\ disk' = [journal EXCEPT !.sent = Append(@, state)]
  <2>1. num # Shutdown
    BY <1>4, SenderAssumption
  <2>2. CASE renewed
    BY <2>1, <2>2 DEF AddSentState, Journaled, state
  <2>3. CASE ~renewed
    BY <2>1, <2>3 DEF AddSentState, Journaled, state
  <2> QED BY <2>2, <2>3
<1>13. /\ more \in Nat /\ more >= stateReserved
  BY <1>1, <1>3, ReserveFits
<1>14. /\ rewrite \in Journal /\ rewrite.reserved = more /\ rewrite.sent = sent
       /\ rewrite.base = TrimmedBase /\ rewrite.events = Trimmed
       /\ rewrite.front <= LastSent.num
  BY <1>1, <1>2, <1>13, SnapshotFits DEF LastSent
<1> HIDE DEF more, rewrite
<1>15. /\ journal \in Journal
       /\ Readable(journal) =>
            /\ journal.reserved = stateReserved'
            /\ journal.sent # <<>> /\ journal.sent[Len(journal.sent)] = LastSent
            /\ Sorted(journal.sent) /\ Made(journal.sent, Total)
            /\ journal.front <= LastSent.num
            /\ journal.base + Len(journal.events) = Total
  <2>1. CASE renewed
    BY <2>1, <1>1, <1>2, <1>12, <1>14 DEF LastSent
  <2>2. CASE ~renewed
    BY <2>2, <1>12 DEF Types, SameInv, JournalInv
  <2> QED BY <2>1, <2>2
<1>16. stateReserved' \in Nat /\ stateReserved' >= stateReserved
  BY <1>3, <1>12, <1>13, <1>14
<1> HIDE DEF journal, renewed
<1>17. /\ journal.sent \in Seq(SentState) /\ journal.reserved \in Nat /\ journal.front \in Nat
  BY <1>15 DEF Journal
<1>18. /\ disk'.sent = Append(journal.sent, state)
       /\ disk'.reserved = journal.reserved /\ disk'.front = journal.front
       /\ disk'.base = journal.base /\ disk'.events = journal.events
  BY <1>12, <1>15 DEF Journal
<1>19. /\ disk'.sent \in Seq(SentState) /\ disk'.sent # <<>>
       /\ disk'.sent[Len(disk'.sent)] = state
  BY <1>8, <1>17, <1>18, AppendFits
<1>20. disk' \in Journal
  <2>1. journal.front \in Nat /\ journal.base \in Nat /\ journal.events \in Seq(Event)
    BY <1>15 DEF Journal
  <2>2. disk' = [reserved |-> journal.reserved, front |-> journal.front, base |-> journal.base,
                 events |-> journal.events, sent |-> disk'.sent]
    BY <1>12, <1>15, <1>18 DEF Journal
  <2> QED BY <2>1, <2>2, <1>17, <1>19 DEF Journal
<1>21. Readable(disk') => Readable(journal)
  BY <1>18 DEF Readable
<1>22. Types'
  <2>1. DOMAIN meant' \subseteq Nat
    BY <1>4, <1>7 DEF Types
  <2> QED BY <2>1, <1>2, <1>11, <1>16, <1>20 DEF Types
<1>23. MemoryInv'
  <2>1. \A n \in Given' : n <= LastSent'.num
    BY <1>4, <1>5, <1>7, <1>8, <1>11 DEF Types, Given
  <2>2. stateFloor <= stateReserved'
    BY <1>3, <1>16 DEF MemoryInv
  <2> QED BY <2>1, <2>2, <1>2, <1>7, <1>8, <1>11 DEF MemoryInv
<1>24. EndInv'
  <2>1. Shutdown \notin DOMAIN meant'
    BY <1>4, <1>7, SenderAssumption DEF EndInv
  <2> QED BY <2>1 DEF EndInv
<1>25. JournalInv'
  <2> SUFFICES ASSUME Readable(journal) PROVE JournalInv'
    BY <1>21 DEF JournalInv
  <2>1. journal.sent[Len(journal.sent)].num < state.num /\ state.events <= Total
    BY <1>2, <1>4, <1>8, <1>15
  <2>2. Sorted(disk'.sent) /\ Made(disk'.sent, Total)
    BY <2>1, <1>8, <1>15, <1>17, <1>18, AppendFits
  <2>3. disk'.front <= disk'.sent[Len(disk'.sent)].num
    BY <1>3, <1>4, <1>8, <1>15, <1>17, <1>18, <1>19
  <2>4. \A n \in Given' : n <= disk'.sent[Len(disk'.sent)].num
    BY <1>4, <1>5, <1>7, <1>8, <1>19 DEF Types, Given
  <2>5. disk'.base + Len(disk'.events) = Total
    BY <1>15, <1>18
  <2> QED BY <2>2, <2>3, <2>4, <2>5, <1>19 DEF JournalInv
<1>26. SameInv'
  BY <1>2, <1>11, <1>15, <1>18, <1>19, <1>21 DEF SameInv
<1>27. QED
  BY <1>6, <1>22, <1>23, <1>24, <1>25, <1>26

\* The shutdown's state, under its one number.
LEMMA ShutdownStateStep ==
  ASSUME IInv, up, shutdown,
         UNCHANGED <<up, stateFloor, shutdown, typed>>,
         eventBase' = TrimmedBase, events' = Trimmed,
         AddSentState(Shutdown),
         meant' = [n \in DOMAIN meant \cup {Shutdown} |->
                     IF n = Shutdown THEN typed ELSE meant[n]]
  PROVE  IInv'
<1> USE DEF IInv
<1> DEFINE state == [num |-> Shutdown, events |-> Total]
           longer == Append(sent, state)
<1>1. sent # <<>> /\ Made(sent, Total) /\ sent \in Seq(SentState)
  BY DEF MemoryInv, Types
<1>2. /\ TrimmedBase \in Nat /\ Trimmed \in Seq(Event) /\ Total' = Total
      /\ Total \in Nat
  BY <1>1, TrimFits DEF Total
<1>3. state \in SentState /\ state.num = Shutdown /\ state.events = Total /\ Total <= Total
  BY <1>2, SenderAssumption DEF SentState
<1> HIDE DEF state
<1>4. /\ longer \in Seq(SentState) /\ longer # <<>> /\ longer[Len(longer)] = state
      /\ Made(longer, Total)
  BY <1>1, <1>3, AppendFits
<1> HIDE DEF longer
<1>5. /\ sent' = Cull(longer) /\ disk' = NoJournal /\ stateReserved' = stateReserved
  BY DEF AddSentState, Journaled, longer, state
<1>6. sent' \in Seq(SentState) /\ sent' # <<>> /\ LastSent' = state /\ Made(sent', Total)
  BY <1>4, <1>5, CullFits DEF LastSent
<1>7. disk' \in Journal /\ ~Readable(disk')
  BY <1>5 DEF NoJournal, Journal, Readable
<1>8. /\ DOMAIN meant' \subseteq Nat /\ Shutdown \in DOMAIN meant' /\ meant'[Shutdown] = typed
  BY SenderAssumption DEF Types
<1>9. Types'
  BY <1>2, <1>5, <1>6, <1>7, <1>8 DEF Types
<1>10. MemoryInv'
  BY <1>2, <1>3, <1>5, <1>6, <1>8 DEF MemoryInv
<1>11. EndInv' /\ JournalInv' /\ SameInv'
  BY <1>7, <1>8 DEF EndInv, JournalInv, SameInv
<1>12. QED
  BY <1>9, <1>10, <1>11

\* A tick keeps the invariant, and what every number stands for.
LEMMA TickStep ==
  ASSUME IInv, Tick
  PROVE  IInv' /\ \A n \in DOMAIN meant : meant'[n] = meant[n]
<1> USE DEF IInv
<1>1. /\ up /\ UNCHANGED <<up, stateFloor, shutdown, typed>>
      /\ eventBase' = TrimmedBase /\ events' = Trimmed
      /\ \/ \E assumed \in Assumable : SendEmptyAck(assumed) \/ SendToReceiver(assumed)
         \/ NothingDue
  BY DEF Tick
<1>2. CASE NothingDue
  BY <1>1, <1>2, KeepStep DEF NothingDue
<1> DEFINE Means(num) ==
             meant' = [n \in DOMAIN meant \cup {num} |-> IF n = num THEN typed ELSE meant[n]]
<1>3. ASSUME AddSentState(NewNum), NewNum < Shutdown \/ shutdown, Means(NewNum)
      PROVE  IInv' /\ \A n \in DOMAIN meant : meant'[n] = meant[n]
  <2>1. CASE shutdown
    <3>1. NewNum = Shutdown
      BY <2>1 DEF NewNum
    <3>2. IInv'
      BY <2>1, <3>1, <1>1, <1>3, ShutdownStateStep
    <3>3. Shutdown \in DOMAIN meant => meant[Shutdown] = typed
      BY <1>1 DEF EndInv
    <3> QED BY <3>1, <3>2, <3>3, <1>3
  <2>2. CASE ~shutdown
    <3>1. IInv' /\ NewNum \notin DOMAIN meant
      BY <2>2, <1>1, <1>3, NewStateStep
    <3> QED BY <3>1, <1>3
  <2> QED BY <2>1, <2>2
<1>4. ASSUME UNCHANGED <<sent, stateReserved, disk>>, Means(LastSent.num),
             \/ shutdown /\ LastSent.num = Shutdown
             \/ ~shutdown /\ Total = LastSent.events
      PROVE  IInv' /\ \A n \in DOMAIN meant : meant'[n] = meant[n]
  <2>1. IInv'
    BY <1>1, <1>4, KeepStep
  <2>2. LastSent.num \in DOMAIN meant => meant[LastSent.num] = typed
    BY <1>1, <1>4 DEF EndInv, MemoryInv
  <2> QED BY <2>1, <2>2, <1>4
<1>5. ASSUME NEW assumed, SendEmptyAck(assumed)
      PROVE  IInv' /\ \A n \in DOMAIN meant : meant'[n] = meant[n]
  BY <1>3, <1>5 DEF SendEmptyAck, SendInstruction
<1>6. ASSUME NEW assumed, SendToReceiver(assumed)
      PROVE  IInv' /\ \A n \in DOMAIN meant : meant'[n] = meant[n]
  <2> DEFINE again == Total = LastSent.events /\ (shutdown => LastSent.num = Shutdown)
             num == IF again THEN LastSent.num ELSE NewNum
  <2>1. /\ num = LastSent.num => UNCHANGED <<sent, stateReserved, disk>>
        /\ num # LastSent.num => (num < Shutdown \/ shutdown) /\ AddSentState(num)
        /\ Means(num)
    BY <1>6 DEF SendToReceiver, SendInstruction
  <2>2. CASE num # LastSent.num
    <3>1. num = NewNum
      BY <2>2
    <3> QED BY <3>1, <2>1, <2>2, <1>3
  <2>3. CASE num = LastSent.num
    <3>1. \/ shutdown /\ LastSent.num = Shutdown
          \/ ~shutdown /\ Total = LastSent.events
      <4>1. CASE again
        BY <4>1
      <4>2. CASE ~again
        <5>1. LastSent.num = NewNum
          BY <4>2, <2>3
        <5>2. sent # <<>>
          BY <1>1 DEF MemoryInv
        <5>3. LastSent.num \in Nat /\ stateFloor \in Nat
          BY <5>2, StatesOf DEF LastSent, Types
        <5>4. ~shutdown => NewNum > LastSent.num
          BY <5>3 DEF NewNum, NatMax
        <5> QED BY <5>1, <5>3, <5>4 DEF NewNum
      <4> QED BY <4>1, <4>2
    <3> QED BY <3>1, <2>1, <2>3, <1>4
  <2> QED BY <2>2, <2>3
<1>7. QED
  BY <1>1, <1>2, <1>5, <1>6 DEF NothingDue

LEMMA ProcessAcknowledgmentStep ==
  ASSUME IInv, NEW num, ProcessAcknowledgment(num)
  PROVE  IInv'
<1> USE DEF IInv
<1>1. /\ up /\ sent' = DropBefore(sent, num)
      /\ disk' = Journaled([disk EXCEPT !.front = num])
      /\ UNCHANGED <<up, events, eventBase, stateReserved, stateFloor, shutdown, typed, meant>>
  BY DEF ProcessAcknowledgment, KeepFrom, RecordFront, history
<1>2. PICK i \in 2 .. Len(sent) : sent[i].num = num
  BY DEF ProcessAcknowledgment
<1>3. sent \in Seq(SentState) /\ sent # <<>>
  BY <1>1 DEF Types, MemoryInv
<1>4. /\ Len(sent) \in 1 .. Len(sent) /\ i \in 1 .. Len(sent)
      /\ num \in Nat /\ sent[i].num >= num
  BY <1>2, <1>3, StatesOf
<1>5. /\ sent' \in Seq(SentState) /\ sent' # <<>> /\ LastSent' = LastSent
      /\ Sorted(sent) => Sorted(sent')
      /\ \A total : Made(sent, total) => Made(sent', total)
  BY <1>1, <1>3, <1>4, DropBeforeFits DEF LastSent
<1>6. Total' = Total /\ Given' = Given
  BY <1>1 DEF Total, Given
<1>7. Sorted(sent) => num <= LastSent.num
  BY <1>2, <1>3, <1>4, StatesOf DEF Sorted, LastSent
<1>8. MemoryInv'
  BY <1>1, <1>5, <1>6 DEF MemoryInv
<1>9. CASE shutdown
  <2>1. disk' \in Journal /\ ~Readable(disk')
    BY <1>1, <1>9 DEF Journaled, NoJournal, Journal, Readable
  <2> QED BY <2>1, <1>1, <1>5, <1>8 DEF Types, EndInv, JournalInv, SameInv
<1>10. CASE ~shutdown
  <2>1. disk' = [disk EXCEPT !.front = num]
    BY <1>1, <1>10 DEF Journaled
  <2>2. /\ disk' \in Journal /\ disk'.front = num /\ disk'.reserved = disk.reserved
        /\ disk'.base = disk.base /\ disk'.events = disk.events /\ disk'.sent = disk.sent
    BY <2>1, <1>4 DEF Types, Journal
  <2>3. num <= LastSent.num
    BY <1>1, <1>7, <1>10 DEF MemoryInv
  <2>4. Types' /\ EndInv'
    BY <2>2, <1>1, <1>5 DEF Types, EndInv, Readable
  <2>5. JournalInv' /\ SameInv'
    BY <2>2, <2>3, <1>1, <1>5, <1>6 DEF JournalInv, SameInv, Readable
  <2> QED BY <2>4, <2>5, <1>8
<1>11. QED
  BY <1>9, <1>10

LEMMA BeginShutdownStep ==
  ASSUME IInv, BeginShutdown
  PROVE  IInv'
<1> USE DEF IInv
<1>1. /\ up /\ ~shutdown /\ shutdown' = TRUE /\ disk' = NoJournal
      /\ UNCHANGED <<up, events, eventBase, sent, stateReserved, stateFloor, typed, meant>>
  BY DEF BeginShutdown, history
<1>2. disk' \in Journal /\ ~Readable(disk')
  BY <1>1 DEF NoJournal, Journal, Readable
<1>3. LastSent' = LastSent /\ Total' = Total
  BY <1>1 DEF LastSent, Total
<1>4. Types'
  BY <1>1, <1>2 DEF Types
<1>5. MemoryInv'
  BY <1>1, <1>3 DEF MemoryInv
<1>6. EndInv' /\ JournalInv' /\ SameInv'
  BY <1>1, <1>2 DEF EndInv, JournalInv, SameInv
<1>7. QED
  BY <1>4, <1>5, <1>6

LEMMA RewriteStep ==
  ASSUME IInv, Rewrite
  PROVE  IInv'
<1> USE DEF IInv
<1>1. /\ up /\ ~shutdown /\ stateReserved' = Reserve(stateReserved, sent)
      /\ disk' = Snapshot(stateReserved', eventBase, events, sent)
      /\ UNCHANGED <<up, events, eventBase, sent, stateFloor, shutdown, typed, meant>>
  BY DEF Rewrite, history
<1>2. sent \in Seq(SentState) /\ sent # <<>> /\ Sorted(sent) /\ Made(sent, Total)
  BY <1>1 DEF Types, MemoryInv
<1>3. /\ stateReserved' \in Nat /\ stateReserved' >= stateReserved
      /\ stateReserved' > LastSent.num
  BY <1>1, <1>2, ReserveFits DEF Types, LastSent
<1>4. /\ disk' \in Journal /\ disk'.reserved = stateReserved' /\ disk'.base = eventBase
      /\ disk'.events = events /\ disk'.sent = sent /\ disk'.front <= LastSent.num
  BY <1>1, <1>2, <1>3, SnapshotFits DEF Types, LastSent
<1>5. LastSent' = LastSent /\ Total' = Total /\ Given' = Given
  BY <1>1 DEF LastSent, Total, Given
<1>6. Types'
  BY <1>1, <1>3, <1>4 DEF Types
<1>7. stateFloor <= stateReserved'
  BY <1>1, <1>3 DEF MemoryInv, Types
<1>8. MemoryInv'
  BY <1>1, <1>5, <1>7 DEF MemoryInv
<1>9. EndInv'
  BY <1>1 DEF EndInv
<1>10. \A n \in Given : n < stateReserved'
  <2>1. \A n \in Given : n \in Nat /\ (n <= LastSent.num \/ n < stateFloor)
    BY <1>1 DEF MemoryInv, Given, Types
  <2>2. LastSent.num \in Nat /\ stateFloor \in Nat
    BY <1>2, StatesOf DEF LastSent, Types
  <2> QED BY <2>1, <2>2, <1>3, <1>7
<1>11. JournalInv'
  BY <1>2, <1>4, <1>5, <1>10 DEF JournalInv, LastSent, Total
<1>12. SameInv'
  BY <1>1, <1>2, <1>4, <1>5 DEF SameInv, LastSent, Total
<1>13. QED
  BY <1>6, <1>8, <1>9, <1>11, <1>12

\* Nothing of the memory is left.
LEMMA ForgetFits ==
  ASSUME IInv, Forget, disk' \in Journal,
         Readable(disk') => JournalInv' /\ Shutdown \notin DOMAIN meant
  PROVE  IInv'
<1> USE DEF IInv
<1>1. /\ up' = FALSE /\ events' = <<>> /\ eventBase' = 0 /\ sent' = <<>>
      /\ stateReserved' = 0 /\ stateFloor' = 0 /\ shutdown' = FALSE
      /\ typed' = typed /\ meant' = meant
  BY DEF Forget, history
<1>2. events' \in Seq(Event) /\ sent' \in Seq(SentState)
  BY <1>1, EmptySeq
<1>3. up' \in BOOLEAN /\ shutdown' \in BOOLEAN
  BY <1>1
<1>4. Types'
  BY <1>1, <1>2, <1>3 DEF Types
<1>5. MemoryInv' /\ SameInv'
  BY <1>1 DEF MemoryInv, SameInv
<1>6. EndInv'
  BY <1>1 DEF EndInv
<1>7. JournalInv'
  BY DEF JournalInv
<1>8. QED
  BY <1>4, <1>5, <1>6, <1>7

LEMMA StopStep ==
  ASSUME IInv, Stop
  PROVE  IInv'
<1>1. Forget /\ disk' = disk /\ meant' = meant
  BY DEF Stop, Forget, history
<1>2. disk' \in Journal
  BY <1>1 DEF IInv, Types
<1>3. Readable(disk') => JournalInv' /\ Shutdown \notin DOMAIN meant
  BY <1>1 DEF IInv, EndInv, JournalInv, Given, Readable
<1>4. QED
  BY <1>1, <1>2, <1>3, ForgetFits

LEMMA StopInRewriteStep ==
  ASSUME IInv, StopInRewrite
  PROVE  IInv'
<1> DEFINE reserved == Reserve(stateReserved, sent)
           d == Snapshot(reserved, eventBase, events, sent)
<1>1. /\ up /\ ~shutdown /\ Forget /\ meant' = meant
      /\ disk' = NoJournal \/ disk' \in Cut(d)
  BY DEF StopInRewrite, Forget, history
<1>2. /\ sent \in Seq(SentState) /\ sent # <<>> /\ Sorted(sent) /\ Made(sent, Total)
      /\ events \in Seq(Event) /\ eventBase \in Nat
  BY <1>1 DEF IInv, Types, MemoryInv
<1>3. reserved \in Nat /\ reserved >= stateReserved /\ reserved > LastSent.num
  BY <1>2, ReserveFits DEF IInv, Types, LastSent
<1> HIDE DEF reserved
<1>4. /\ d \in Journal /\ d.reserved = reserved /\ d.base = eventBase
      /\ d.events = events /\ d.sent = sent
      /\ \A i \in 1 .. Len(sent) : d.front <= sent[i].num
  BY <1>2, <1>3, SnapshotFits
<1> HIDE DEF d
<1>5. \A n \in Given : n < reserved
  <2>1. \A n \in Given : n \in Nat /\ (n <= LastSent.num \/ n < stateFloor)
    BY <1>1 DEF IInv, MemoryInv, Given, Types
  <2>2. LastSent.num \in Nat /\ stateFloor \in Nat /\ stateFloor <= stateReserved /\ stateReserved \in Nat
    BY <1>1, <1>2, StatesOf DEF LastSent, IInv, Types, MemoryInv
  <2> QED BY <2>1, <2>2, <1>3
<1>6. Shutdown \notin DOMAIN meant
  BY <1>1 DEF IInv, EndInv
<1>7. CASE disk' = NoJournal
  <2>1. disk' \in Journal /\ ~Readable(disk')
    BY <1>7 DEF NoJournal, Journal, Readable
  <2> QED BY <2>1, <1>1, ForgetFits
<1>8. CASE /\ disk' \in Journal /\ disk'.reserved = reserved
           /\ disk'.sent = <<>>
  <2>1. Sorted(<<>>) /\ \A total : Made(<<>>, total)
    BY DEF Sorted, Made
  <2>2. JournalInv'
    BY <2>1, <1>1, <1>5, <1>8 DEF JournalInv, Given
  <2> QED BY <2>2, <1>1, <1>6, <1>8, ForgetFits
<1>9. ASSUME NEW n \in 0 .. Len(sent), disk' = [d EXCEPT !.sent = SubSeq(@, 1, n)]
      PROVE  IInv'
  <2> DEFINE ss == SubSeq(sent, 1, n)
  <2>1. /\ ss \in Seq(SentState) /\ Len(ss) = n /\ \A i \in 1 .. n : ss[i] = sent[i]
        /\ ss # <<>> => n > 0
    BY <1>2, PrefixFits
  <2> HIDE DEF ss
  <2>2. /\ disk' \in Journal /\ disk'.sent = ss /\ disk'.reserved = reserved
        /\ disk'.front = d.front /\ disk'.base = eventBase /\ disk'.events = events
    BY <2>1, <1>4, <1>9 DEF Journal, ss
  <2>3. Len(sent) \in Nat /\ \A i \in 1 .. n : i \in 1 .. Len(sent)
    BY <1>2
  <2>4. Sorted(ss) /\ Made(ss, Total)
    <3>1. \A i \in 1 .. n : ss[i].events <= Total
      BY <2>1, <2>3, <1>2 DEF Made
    <3>2. \A i, j \in 1 .. n : i < j => ss[i].num < ss[j].num
      BY <2>1, <2>3, <1>2 DEF Sorted
    <3> QED BY <3>1, <3>2, <2>1 DEF Sorted, Made
  <2>5. ss # <<>> => d.front <= ss[Len(ss)].num
    BY <2>1, <2>3, <1>4
  <2>6. JournalInv'
    BY <2>2, <2>4, <2>5, <1>1, <1>5 DEF JournalInv, Given, Total
  <2> QED BY <2>2, <2>6, <1>1, <1>6, ForgetFits
<1>10. CASE disk' \in Cut(d)
  <2>1. CASE disk' = [d EXCEPT !.base = 0, !.events = <<>>, !.sent = <<>>]
    <3>1. disk' \in Journal /\ disk'.reserved = reserved /\ disk'.sent = <<>>
      BY <2>1, <1>4, EmptySeq DEF Journal
    <3> QED BY <3>1, <1>8
  <2>2. ASSUME NEW n \in 0 .. Len(events),
               disk' = [d EXCEPT !.events = SubSeq(@, 1, n), !.sent = <<>>]
        PROVE  IInv'
    <3>1. SubSeq(events, 1, n) \in Seq(Event)
      BY <1>2, PrefixFits
    <3>2. disk' \in Journal /\ disk'.reserved = reserved /\ disk'.sent = <<>>
      BY <2>2, <3>1, <1>4, EmptySeq DEF Journal
    <3> QED BY <3>2, <1>8
  <2> QED BY <2>1, <2>2, <1>4, <1>9, <1>10 DEF Cut
<1>11. QED
  BY <1>1, <1>7, <1>10

\* What a restart begins with.
LEMMA RestoredFits ==
  ASSUME Types, JournalInv, Readable(disk)
  PROVE  LET ss == RestoredSent(disk)
         IN  /\ ss \in Seq(SentState) /\ ss # <<>> /\ Sorted(ss)
             /\ Made(ss, disk.base + Len(disk.events))
             /\ \A n \in Given : n <= ss[Len(ss)].num \/ n < disk.reserved
<1> DEFINE kept == DropBefore(disk.sent, disk.front)
           made == [num |-> disk.front, events |-> disk.base]
           longer == <<made>> \o kept
<1>1. /\ disk.sent \in Seq(SentState) /\ disk.front \in Nat /\ disk.base \in Nat
      /\ disk.events \in Seq(Event) /\ Len(disk.events) \in Nat
  BY DEF Types, Journal
<1>2. /\ kept \in Seq(SentState) /\ Sorted(kept) /\ Made(kept, disk.base + Len(disk.events))
      /\ kept # <<>> => kept[1].num >= disk.front /\ kept[Len(kept)] = disk.sent[Len(disk.sent)]
      /\ (\E i \in 1 .. Len(disk.sent) : disk.sent[i].num >= disk.front) => kept # <<>>
  BY <1>1, DropBeforeFits DEF JournalInv
<1>3. disk.sent # <<>> => kept # <<>>
  <2> SUFFICES ASSUME disk.sent # <<>> PROVE kept # <<>>
    OBVIOUS
  <2>1. /\ Len(disk.sent) \in 1 .. Len(disk.sent)
        /\ disk.sent[Len(disk.sent)].num \in Nat
        /\ disk.front <= disk.sent[Len(disk.sent)].num
    BY <1>1, StatesOf DEF JournalInv
  <2> QED BY <2>1, <1>1, <1>2
<1> HIDE DEF kept
<1>4. \A n \in Given : n < disk.reserved \/ (kept # <<>> /\ n <= kept[Len(kept)].num)
  <2>1. \A n \in Given :
          n < disk.reserved \/ (disk.sent # <<>> /\ n <= disk.sent[Len(disk.sent)].num)
    BY DEF JournalInv
  <2> QED BY <2>1, <1>2, <1>3
<1>5. CASE kept = <<>> \/ kept[1].num # disk.front
  <2>1. made \in SentState /\ made.num = disk.front /\ made.events = disk.base
    BY <1>1 DEF SentState
  <2> HIDE DEF made
  <2>2. RestoredSent(disk) = longer
    BY <1>5 DEF RestoredSent, kept, made
  <2>3. <<made>> \in Seq(SentState) /\ Len(<<made>>) = 1 /\ <<made>>[1] = made
    BY <2>1
  <2>4. /\ Len(kept) \in Nat
        /\ \A i \in 1 .. Len(kept) : kept[i].num \in Nat /\ kept[i].events \in Nat
        /\ kept # <<>> => Len(kept) \in 1 .. Len(kept)
        /\ kept = <<>> => Len(kept) = 0
    BY <1>2, StatesOf, EmptySeq
  <2>5. /\ longer \in Seq(SentState) /\ Len(longer) = Len(kept) + 1
        /\ longer[1] = made
        /\ \A i \in 2 .. Len(kept) + 1 : longer[i] = kept[i - 1]
    <3>1. /\ longer \in Seq(SentState) /\ Len(longer) = 1 + Len(kept)
          /\ \A i \in 1 .. 1 + Len(kept) :
               longer[i] = IF i <= 1 THEN <<made>>[i] ELSE kept[i - 1]
      BY <2>3, <1>2, ConcatProperties
    <3> HIDE DEF longer
    <3> QED BY <3>1, <2>3, <2>4
  <2> HIDE DEF longer
  <2>6. longer # <<>>
    BY <2>4, <2>5, EmptySeq
  <2>7. \A i \in 1 .. Len(kept) : disk.front < kept[i].num
    <3>1. kept # <<>> => kept[1].num > disk.front /\ kept[1].num \in Nat
      BY <2>4, <1>1, <1>2, <1>5
    <3> QED BY <3>1, <2>4, <1>1, <1>2 DEF Sorted
  <2>8. Sorted(longer)
    <3> SUFFICES ASSUME NEW i \in 1 .. Len(longer), NEW j \in 1 .. Len(longer), i < j
                 PROVE  longer[i].num < longer[j].num
      BY DEF Sorted
    <3>1. j - 1 \in 1 .. Len(kept) /\ longer[j] = kept[j - 1]
      BY <2>4, <2>5
    <3>2. CASE i = 1
      BY <3>1, <3>2, <2>1, <2>5, <2>7
    <3>3. CASE i # 1
      <4>1. i - 1 \in 1 .. Len(kept) /\ longer[i] = kept[i - 1] /\ i - 1 < j - 1
        BY <3>3, <2>4, <2>5
      <4> QED BY <4>1, <3>1, <1>2 DEF Sorted
    <3> QED BY <3>2, <3>3
  <2>9. Made(longer, disk.base + Len(disk.events))
    <3> SUFFICES ASSUME NEW i \in 1 .. Len(longer)
                 PROVE  longer[i].events <= disk.base + Len(disk.events)
      BY DEF Made
    <3>1. CASE i = 1
      BY <3>1, <2>1, <2>5, <1>1
    <3>2. CASE i # 1
      <4>1. i - 1 \in 1 .. Len(kept) /\ longer[i] = kept[i - 1]
        BY <3>2, <2>4, <2>5
      <4> QED BY <4>1, <1>2 DEF Made
    <3> QED BY <3>1, <3>2
  <2>10. kept # <<>> => longer[Len(longer)] = kept[Len(kept)]
    BY <2>4, <2>5
  <2> QED BY <2>2, <2>5, <2>6, <2>8, <2>9, <2>10, <1>4
<1>6. CASE ~ (kept = <<>> \/ kept[1].num # disk.front)
  <2>1. RestoredSent(disk) = kept
    BY <1>6 DEF RestoredSent, kept
  <2> QED BY <2>1, <1>2, <1>4, <1>6
<1>7. QED
  BY <1>5, <1>6

LEMMA ResumeStep ==
  ASSUME IInv, Resume
  PROVE  IInv'
<1> USE DEF IInv
<1>1. /\ ~up /\ Readable(disk) /\ up' = TRUE /\ typed' = typed + 1
      /\ eventBase' = disk.base /\ events' = Append(disk.events, Input(TRUE))
      /\ sent' = RestoredSent(disk) /\ stateFloor' = disk.reserved
      /\ stateReserved' = Reserve(disk.reserved, sent')
      /\ disk' = Snapshot(stateReserved', eventBase', events', sent')
      /\ UNCHANGED <<shutdown, meant>>
  BY DEF Resume, FloorAfter
<1>2. /\ disk.events \in Seq(Event) /\ disk.base \in Nat /\ disk.reserved \in Nat
      /\ Len(disk.events) \in Nat /\ typed \in Nat
  BY DEF Types, Journal
<1>3. events' \in Seq(Event) /\ Len(events') = Len(disk.events) + 1
  BY <1>1, <1>2, EventsFit
<1>4. /\ sent' \in Seq(SentState) /\ sent' # <<>> /\ Sorted(sent')
      /\ Made(sent', disk.base + Len(disk.events))
      /\ \A n \in Given : n <= LastSent'.num \/ n < disk.reserved
  BY <1>1, RestoredFits DEF LastSent
<1>5. Total' = disk.base + Len(disk.events) + 1
  BY <1>1, <1>2, <1>3, SMTT(40) DEF Total
<1>6. LastSent'.events \in Nat /\ LastSent'.num \in Nat /\ LastSent'.events < Total'
  <2>1. /\ Len(sent') \in 1 .. Len(sent') /\ sent'[Len(sent')].events \in Nat
        /\ sent'[Len(sent')].num \in Nat
    BY <1>4, StatesOf
  <2>2. sent'[Len(sent')].events <= disk.base + Len(disk.events)
    BY <2>1, <1>4 DEF Made
  <2> QED BY <2>1, <2>2, <1>2, <1>5 DEF LastSent
<1>7. Made(sent', Total')
  <2>1. \A i \in 1 .. Len(sent') : sent'[i].events \in Nat
    BY <1>4, StatesOf
  <2> QED BY <2>1, <1>2, <1>4, <1>5 DEF Made
<1>8. /\ stateReserved' \in Nat /\ stateReserved' >= disk.reserved
      /\ stateReserved' > LastSent'.num
  BY <1>1, <1>2, <1>4, ReserveFits DEF LastSent
<1>9. /\ disk' \in Journal /\ disk'.reserved = stateReserved' /\ disk'.base = disk.base
      /\ disk'.events = events' /\ disk'.sent = sent' /\ disk'.front <= LastSent'.num
  <2> DEFINE dd == Snapshot(stateReserved', eventBase', events', sent')
  <2>1. /\ dd \in Journal
        /\ dd.reserved = stateReserved' /\ dd.base = eventBase' /\ dd.events = events'
        /\ dd.sent = sent' /\ dd.front <= sent'[Len(sent')].num
    <3>1. eventBase' \in Nat
      BY <1>1, <1>2
    <3> QED BY <3>1, <1>3, <1>4, <1>8, SnapshotFits
  <2> QED BY <2>1, <1>1 DEF LastSent
<1>10. ~shutdown' /\ Given' = Given
  BY <1>1 DEF EndInv, Given
<1>11. Types'
  <2>1. up' \in BOOLEAN /\ shutdown' \in BOOLEAN
    BY <1>1 DEF Types
  <2>2. /\ eventBase' \in Nat /\ stateFloor' \in Nat /\ typed' \in Nat
    BY <1>1, <1>2
  <2>3. DOMAIN meant' \subseteq Nat
    BY <1>1 DEF Types
  <2>4. events' \in Seq(Event) /\ sent' \in Seq(SentState) /\ stateReserved' \in Nat /\ disk' \in Journal
    BY <1>3, <1>4, <1>8, <1>9
  <2> HIDE DEF IInv
  <2> QED BY <2>1, <2>2, <2>3, <2>4 DEF Types
<1>12. MemoryInv'
  <2>1. ~ (LastSent'.events = Total')
    BY <1>2, <1>5, <1>6
  <2>2. stateFloor' <= stateReserved' /\ \A n \in Given' : n <= LastSent'.num \/ n < stateFloor'
    BY <1>1, <1>4, <1>8, <1>10
  <2>3. sent' # <<>> /\ Made(sent', Total') /\ Sorted(sent')
    BY <1>4, <1>7
  <2> HIDE DEF IInv
  <2> QED BY <2>1, <2>2, <2>3 DEF MemoryInv
<1>13. EndInv'
  BY <1>1, <1>10 DEF EndInv
<1>14. disk'.base + Len(disk'.events) = Total'
  <2>1. disk'.base = disk.base /\ Len(disk'.events) = Len(disk.events) + 1
    BY <1>3, <1>9
  <2> QED BY <2>1, <1>2, <1>5
<1>15. \A n \in Given : n < disk'.reserved
  <2>1. \A n \in Given : n \in Nat
    BY DEF Given, Types
  <2> QED BY <2>1, <1>2, <1>4, <1>6, <1>8, <1>9
<1>16. JournalInv'
  BY <1>4, <1>7, <1>9, <1>10, <1>14, <1>15 DEF JournalInv, LastSent
<1>17. SameInv'
  BY <1>4, <1>9, <1>14 DEF SameInv, LastSent
<1>18. QED
  BY <1>11, <1>12, <1>13, <1>16, <1>17

\* What the server does changes nothing the invariant is about.
LEMMA ElsewhereStep ==
  ASSUME IInv, UNCHANGED <<up, client, disk, history>>
  PROVE  IInv' /\ meant' = meant
<1>1. UNCHANGED <<up, events, eventBase, sent, stateReserved, stateFloor, shutdown,
                  disk, typed, meant>>
  BY DEF client, history
<1>2. Types' /\ Total' = Total /\ LastSent' = LastSent /\ Given' = Given
  BY <1>1 DEF IInv, Types, Total, LastSent, Given
<1>3. MemoryInv' /\ EndInv'
  BY <1>1, <1>2 DEF IInv, MemoryInv, EndInv
<1>4. JournalInv' /\ SameInv'
  BY <1>1, <1>2 DEF IInv, JournalInv, SameInv
<1>5. QED
  BY <1>1, <1>2, <1>3, <1>4 DEF IInv

LEMMA NextStep ==
  ASSUME IInv, [Next]_vars
  PROVE  IInv' /\ \A n \in DOMAIN meant : meant'[n] = meant[n]
<1>1. ASSUME NEW isResize \in BOOLEAN, Type(isResize)
      PROVE  IInv' /\ meant' = meant
  BY <1>1, TypeStep DEF Type
<1>2. CASE Tick
  BY <1>2, TickStep
<1>3. ASSUME NEW num \in acks, ProcessAcknowledgment(num)
      PROVE  IInv' /\ meant' = meant
  BY <1>3, ProcessAcknowledgmentStep DEF ProcessAcknowledgment, history
<1>4. CASE BeginShutdown
  BY <1>4, BeginShutdownStep DEF BeginShutdown, history
<1>5. CASE Rewrite
  BY <1>5, RewriteStep DEF Rewrite, history
<1>6. CASE Stop
  BY <1>6, StopStep DEF Stop, Forget, history
<1>7. CASE StopInRewrite
  BY <1>7, StopInRewriteStep DEF StopInRewrite, Forget, history
<1>8. CASE Resume
  BY <1>8, ResumeStep DEF Resume
<1>9. ASSUME NEW m \in toServer, Receive(m)
      PROVE  IInv' /\ meant' = meant
  BY <1>9, ElsewhereStep DEF Receive
<1>10. CASE UNCHANGED vars
  BY <1>10, ElsewhereStep DEF vars
<1>11. QED
  BY <1>1, <1>2, <1>3, <1>4, <1>5, <1>6, <1>7, <1>8, <1>9, <1>10 DEF Next

-----------------------------------------------------------------------------
(* The types of what is on the way and at the server *)

\* What TypeOK says besides Types, and where the server's numbers come from.
WireInv ==
  /\ finished \in BOOLEAN /\ cut \in BOOLEAN /\ tries \in Nat /\ stops \in Nat
  /\ \A n \in DOMAIN meant : meant[n] \in Nat
  /\ \A m \in toServer : m \in Instruction /\ m.new \in DOMAIN meant
  /\ DOMAIN states \subseteq DOMAIN meant
  /\ \E b \in Nat : \A n \in DOMAIN states : n <= b
  /\ \A n \in DOMAIN states : states[n] \in Seq(Nat)
  /\ acks \subseteq DOMAIN meant

\* A bounded set of naturals that has a member has a greatest one.
LEMMA Greatest ==
  ASSUME NEW T, T \subseteq Nat, T # {}, NEW b \in Nat, \A n \in T : n <= b
  PROVE  \E x \in T : \A y \in T : y <= x
<1> DEFINE Above == {x \in Nat : \A n \in T : n <= x}
<1>1. PICK x \in Above : \A y \in Above : x <= y
  <2>1. Above \subseteq Nat
    OBVIOUS
  <2>2. b \in Above
    OBVIOUS
  <2> HIDE DEF Above
  <2> QED BY <2>1, <2>2, Least
<1>2. x \in Nat /\ \A n \in T : n <= x
  OBVIOUS
<1>3. x \in T
  <2> SUFFICES ASSUME x \notin T PROVE FALSE
    OBVIOUS
  <2>1. \A n \in T : n \in Nat /\ n < x
    BY <1>2
  <2>2. PICK n \in T : TRUE
    OBVIOUS
  <2>3. x - 1 \in Nat
    BY <2>1, <2>2, <1>2
  <2>4. \A k \in T : k <= x - 1
    BY <2>1, <1>2
  <2>5. x - 1 \in Above
    BY <2>3, <2>4
  <2> QED BY <2>5, <1>1, <1>2
<1>4. QED
  BY <1>2, <1>3

LEMMA RunFits ==
  ASSUME NEW a \in Nat, NEW b \in Nat
  PROVE  Run(a, b) \in Seq(Nat)
<1> DEFINE n == IF (b + 1) - a > 0 THEN (b + 1) - a ELSE 0
<1>1. n \in Nat /\ 1 .. (b + 1) - a = 1 .. n
  OBVIOUS
<1> HIDE DEF n
<1>2. \A i \in 1 .. n : (a + i) - 1 \in Nat
  BY <1>1
<1>3. Run(a, b) \in [1 .. n -> Nat]
  BY <1>1, <1>2 DEF Run
<1>4. QED
  BY <1>1, <1>3

\* The place of the state assumed stays one after a state is added.
LEMMA AssumableFits ==
  ASSUME sent \in Seq(SentState), sent # <<>>, NEW assumed \in Assumable
  PROVE  assumed \in 1 .. Len(sent) /\ sent[assumed].events \in Nat
<1>1. Len(sent) \in 1 .. Len(sent) /\ Len(sent) \in Nat
  BY StatesOf
<1>2. assumed \in 1 .. Len(sent)
  BY <1>1 DEF Assumable
<1>3. QED
  BY <1>2, StatesOf

LEMMA DiffFits ==
  ASSUME Types, sent # <<>>, Made(sent, Total), NEW from \in Nat
  PROVE  Diff(from) \in Seq(Nat)
<1> DEFINE at == (NatMax(from, TrimmedBase) - TrimmedBase) + 1
           es == SubSeq(Trimmed, at, Len(Trimmed))
<1>1. TrimmedBase \in Nat /\ Trimmed \in Seq(Event) /\ Len(Trimmed) \in Nat
  BY TrimFits
<1>2. at \in Nat \ {0}
  BY <1>1 DEF NatMax
<1>3. Diff(from) = IF es = <<>> THEN <<>> ELSE Run(es[1].first, es[Len(es)].last)
  BY DEF Diff
<1> HIDE DEF at
<1>4. es \in Seq(Event)
  <2>1. \A i \in at .. Len(Trimmed) : Trimmed[i] \in Event
    BY <1>1, <1>2
  <2>2. at \in Int /\ Len(Trimmed) \in Int
    BY <1>1, <1>2
  <2> QED BY <2>1, <2>2, SubSeqProperties
<1> HIDE DEF es
<1>5. CASE es = <<>>
  BY <1>3, <1>5, EmptySeq
<1>6. CASE es # <<>>
  <2>1. Len(es) \in Nat \ {0}
    BY <1>4, <1>6, EmptySeq
  <2>2. es[1] \in Event /\ es[Len(es)] \in Event
    BY <2>1, <1>4
  <2>3. es[1].first \in Nat /\ es[Len(es)].last \in Nat
    BY <2>2 DEF Event
  <2> QED BY <2>3, <1>3, <1>6, RunFits
<1>7. QED
  BY <1>5, <1>6

\* What a packet is made of, and what goes with it.
LEMMA PacketStep ==
  ASSUME Types, WireInv, NEW assumed \in Nat, assumed \in 1 .. Len(sent'),
         sent' \in Seq(SentState), NEW num \in Nat, NEW diff \in Seq(Nat),
         SendInstruction(assumed, num, diff)
  PROVE  /\ tries' \in Nat /\ DOMAIN meant \subseteq DOMAIN meant'
         /\ \A n \in DOMAIN meant' : meant'[n] \in Nat
         /\ \A m \in toServer' : m \in Instruction /\ m.new \in DOMAIN meant'
<1> DEFINE p == [old |-> sent'[assumed].num, new |-> num, throwaway |-> ThrowAway, diff |-> diff]
<1>1. /\ toServer' \subseteq toServer \cup {p}
      /\ tries' = IF num = Shutdown THEN tries + 1 ELSE tries
      /\ meant' = [n \in DOMAIN meant \cup {num} |-> IF n = num THEN typed ELSE meant[n]]
  BY DEF SendInstruction, Send
<1>2. tries' \in Nat
  BY <1>1 DEF WireInv
<1>3. /\ DOMAIN meant' = DOMAIN meant \cup {num}
      /\ \A n \in DOMAIN meant' : meant'[n] \in Nat
  BY <1>1 DEF WireInv, Types
<1>4. sent'[assumed].num \in Nat /\ ThrowAway \in Nat
  <2>1. Len(sent') \in Nat /\ 1 \in 1 .. Len(sent')
    BY StatesOf
  <2> QED BY <2>1, StatesOf DEF ThrowAway
<1>5. p \in Instruction /\ p.new = num
  BY <1>4 DEF Instruction
<1> HIDE DEF p
<1>6. \A m \in toServer' : m \in Instruction /\ m.new \in DOMAIN meant'
  BY <1>1, <1>3, <1>5 DEF WireInv
<1>7. QED
  BY <1>2, <1>3, <1>6

LEMMA TickWireStep ==
  ASSUME IInv, WireInv, Tick
  PROVE  WireInv'
<1>1. /\ up /\ UNCHANGED <<cut, stops, states, acks>>
      /\ \/ \E assumed \in Assumable : SendEmptyAck(assumed) \/ SendToReceiver(assumed)
         \/ NothingDue
  BY DEF Tick, past, server
<1>2. finished' \in BOOLEAN
  BY DEF Tick
<1>3. /\ sent \in Seq(SentState) /\ sent # <<>> /\ Types /\ Made(sent, Total)
      /\ Total \in Nat /\ stateFloor \in Nat /\ Len(sent) \in Nat
      /\ LastSent.num \in Nat
  <2>1. sent \in Seq(SentState) /\ sent # <<>> /\ Types /\ Made(sent, Total)
    BY <1>1 DEF IInv, Types, MemoryInv
  <2>2. Total \in Nat
    BY LenProperties DEF IInv, Types, Total
  <2> QED BY <2>1, <2>2, StatesOf DEF Types, LastSent
<1>4. NewNum \in Nat
  BY <1>3, SenderAssumption DEF NewNum, NatMax
<1>5. ASSUME NEW num \in Nat, AddSentState(num)
      PROVE  sent' \in Seq(SentState) /\ Len(sent) <= Len(sent')
  <2> DEFINE state == [num |-> num, events |-> Total]
  <2>1. state \in SentState
    BY <1>3 DEF SentState
  <2>2. sent' = Cull(Append(sent, state))
    BY <1>5 DEF AddSentState
  <2> HIDE DEF state
  <2>3. /\ Append(sent, state) \in Seq(SentState) /\ Append(sent, state) # <<>>
        /\ Len(Append(sent, state)) = Len(sent) + 1
    BY <2>1, <1>3, AppendFits
  <2>4. sent' \in Seq(SentState) /\ (Len(sent) + 1) - 1 <= Len(sent')
    BY <2>2, <2>3, CullFits
  <2> QED BY <2>4, <1>3
<1> DEFINE Goal == /\ tries' \in Nat /\ DOMAIN meant \subseteq DOMAIN meant'
                   /\ \A n \in DOMAIN meant' : meant'[n] \in Nat
                   /\ \A m \in toServer' : m \in Instruction /\ m.new \in DOMAIN meant'
<1>6. CASE NothingDue
  <2>1. Goal
    BY <1>6 DEF NothingDue, WireInv
  <2> QED BY <2>1, <1>1, <1>2 DEF WireInv
<1>7. ASSUME NEW assumed \in Assumable, SendEmptyAck(assumed)
      PROVE  Goal
  <2>1. assumed \in 1 .. Len(sent)
    BY <1>3, AssumableFits
  <2>2. sent' \in Seq(SentState) /\ Len(sent) <= Len(sent')
    BY <1>4, <1>5, <1>7 DEF SendEmptyAck
  <2>3. assumed \in Nat /\ assumed \in 1 .. Len(sent')
    BY <2>1, <2>2, <1>3, LenProperties
  <2>4. <<>> \in Seq(Nat)
    BY EmptySeq
  <2> QED BY <2>2, <2>3, <2>4, <1>3, <1>4, <1>7, PacketStep DEF SendEmptyAck
<1>8. ASSUME NEW assumed \in Assumable, SendToReceiver(assumed)
      PROVE  Goal
  <2> DEFINE again == Total = LastSent.events /\ (shutdown => LastSent.num = Shutdown)
             num == IF again THEN LastSent.num ELSE NewNum
  <2>1. num \in Nat
    BY <1>3, <1>4
  <2>2. /\ num = LastSent.num => sent' = sent
        /\ num # LastSent.num => AddSentState(num)
        /\ SendInstruction(assumed, num, Diff(sent[assumed].events))
    BY <1>8 DEF SendToReceiver
  <2> HIDE DEF num
  <2>3. assumed \in 1 .. Len(sent) /\ sent[assumed].events \in Nat
    BY <1>3, AssumableFits
  <2>4. sent' \in Seq(SentState) /\ Len(sent) <= Len(sent')
    BY <2>1, <2>2, <1>3, <1>5
  <2>5. assumed \in Nat /\ assumed \in 1 .. Len(sent')
    BY <2>3, <2>4, <1>3, LenProperties
  <2>6. Diff(sent[assumed].events) \in Seq(Nat)
    BY <2>3, <1>3, DiffFits
  <2> QED BY <2>1, <2>2, <2>4, <2>5, <2>6, <1>3, PacketStep
<1>9. CASE \E assumed \in Assumable : SendEmptyAck(assumed) \/ SendToReceiver(assumed)
  <2>1. Goal
    BY <1>7, <1>8, <1>9
  <2> QED BY <2>1, <1>1, <1>2 DEF WireInv
<1>10. QED
  BY <1>1, <1>6, <1>9

LEMMA ReceiveWireStep ==
  ASSUME IInv, WireInv, NEW m \in toServer, Receive(m)
  PROVE  WireInv'
<1> DEFINE kept == {k \in DOMAIN states : k >= m.throwaway}
<1>1. /\ m.old \in DOMAIN states
      /\ states' = [n \in kept \cup {m.new} |->
                      IF n = m.new THEN states[m.old] \o m.diff ELSE states[n]]
      /\ acks' = acks \cup {Newest(states')}
      /\ UNCHANGED <<finished, tries, cut, stops, meant, toServer>>
  BY DEF Receive, client, past, history
<1>2. m.new \in Nat /\ m.diff \in Seq(Nat) /\ m.new \in DOMAIN meant
  BY DEF WireInv, Instruction
<1>3. DOMAIN states' = kept \cup {m.new} /\ kept \subseteq DOMAIN states
  BY <1>1
<1>4. DOMAIN states' \subseteq DOMAIN meant /\ DOMAIN states' \subseteq Nat
  BY <1>2, <1>3 DEF WireInv, IInv, Types
<1>5. \A n \in DOMAIN states' : states'[n] \in Seq(Nat)
  <2>1. states[m.old] \o m.diff \in Seq(Nat)
    BY <1>1, <1>2, ConcatProperties DEF WireInv
  <2> QED BY <2>1, <1>1, <1>3 DEF WireInv
<1>6. PICK b \in Nat : \A n \in DOMAIN states' : n <= b
  <2>1. PICK b \in Nat : \A n \in DOMAIN states : n <= b
    BY DEF WireInv
  <2>2. b + m.new \in Nat
    BY <1>2
  <2>3. \A n \in DOMAIN states' : n <= b + m.new
    BY <2>1, <1>2, <1>3, <1>4
  <2> QED BY <2>2, <2>3
<1>7. Newest(states') \in DOMAIN states'
  <2>1. DOMAIN states' # {}
    BY <1>3
  <2>2. \E x \in DOMAIN states' : \A k \in DOMAIN states' : k <= x
    BY <2>1, <1>4, <1>6, Greatest
  <2> QED BY <2>2 DEF Newest
<1>8. acks' \subseteq DOMAIN meant'
  BY <1>1, <1>4, <1>7 DEF WireInv
<1>9. \E bb \in Nat : \A n \in DOMAIN states' : n <= bb
  BY <1>6
<1>10. QED
  BY <1>1, <1>4, <1>5, <1>8, <1>9 DEF WireInv

LEMMA InitWire == Init => WireInv
<1> SUFFICES ASSUME Init PROVE WireInv
  OBVIOUS
<1>1. /\ finished = FALSE /\ cut = FALSE /\ tries = 0 /\ stops = 0
      /\ meant = [n \in {0} |-> 0] /\ toServer = {}
      /\ states = [n \in {0} |-> <<>>] /\ acks = {0}
  BY DEF Init
<1>2. DOMAIN meant = {0} /\ meant[0] = 0 /\ DOMAIN states = {0} /\ states[0] = <<>>
  BY <1>1
<1>3. \E b \in Nat : \A n \in DOMAIN states : n <= b
  BY <1>2, 0 \in Nat
<1>4. \A n \in DOMAIN states : states[n] \in Seq(Nat)
  BY <1>2, EmptySeq
<1>5. finished \in BOOLEAN /\ cut \in BOOLEAN /\ tries \in Nat /\ stops \in Nat
  BY <1>1
<1>6. QED
  BY <1>1, <1>2, <1>3, <1>4, <1>5 DEF WireInv

LEMMA NextWire ==
  ASSUME IInv, WireInv, [Next]_vars
  PROVE  WireInv'
<1>1. ASSUME UNCHANGED <<meant, toServer, states, acks>>,
             finished' \in BOOLEAN, cut' \in BOOLEAN, tries' \in Nat, stops' \in Nat
      PROVE  WireInv'
  BY <1>1 DEF WireInv
<1>2. ASSUME NEW isResize \in BOOLEAN, Type(isResize)
      PROVE  WireInv'
  BY <1>1, <1>2 DEF Type, past, server, WireInv
<1>3. CASE Tick
  BY <1>3, TickWireStep
<1>4. ASSUME NEW num \in acks, ProcessAcknowledgment(num)
      PROVE  WireInv'
  BY <1>1, <1>4 DEF ProcessAcknowledgment, past, server, history, WireInv
<1>5. CASE BeginShutdown
  BY <1>1, <1>5 DEF BeginShutdown, past, server, history, WireInv
<1>6. CASE Rewrite
  BY <1>1, <1>6 DEF Rewrite, past, server, history, WireInv
<1>7. ASSUME Forget, cut' \in BOOLEAN
      PROVE  WireInv'
  <2>1. UNCHANGED <<meant, toServer, states, acks>> /\ finished' = FALSE /\ tries' = 0 /\ stops' = stops + 1
    BY <1>7 DEF Forget, server, history
  <2>2. finished' \in BOOLEAN /\ tries' \in Nat
    BY <2>1
  <2>3. stops' \in Nat
    BY <2>1 DEF WireInv
  <2> HIDE DEF WireInv
  <2> QED BY <2>1, <2>2, <2>3, <1>1, <1>7
<1>8. CASE Stop
  BY <1>7, <1>8 DEF Stop, WireInv
<1>9. CASE StopInRewrite
  BY <1>7, <1>9 DEF StopInRewrite
<1>10. CASE Resume
  BY <1>1, <1>10 DEF Resume, past, server, WireInv
<1>11. ASSUME NEW m \in toServer, Receive(m)
       PROVE  WireInv'
  BY <1>11, ReceiveWireStep
<1>12. CASE UNCHANGED vars
  BY <1>1, <1>12 DEF vars, client, past, server, history, WireInv
<1>13. QED
  BY <1>2, <1>3, <1>4, <1>5, <1>6, <1>8, <1>9, <1>10, <1>11, <1>12 DEF Next

-----------------------------------------------------------------------------
(* The theorems *)


\* The invariant holds whatever the network does and wherever the app ends:
\* in particular every number given away is below the journal's reservation or
\* not above the last state the journal has (rewriteJournal(), addSentState()).
THEOREM Invariance == Spec => []IInv
<1>1. IInv /\ [Next]_vars => IInv'
  BY NextStep
<1>2. QED
  BY InitIInv, <1>1, PTL DEF Spec

\* A state number never comes to stand for another input, not for a state sent
\* again, the shutdown's, or one sent after a restart (addSentState(), resume()).
THEOREM NeverReused == Spec => NumbersFresh
<1>1. IInv /\ [Next]_vars => [\A n \in DOMAIN meant : meant'[n] = meant[n]]_vars
  BY NextStep
<1>2. QED
  BY Invariance, <1>1, PTL DEF Spec, NumbersFresh

\* Every variable keeps its type; in particular the server only ever
\* acknowledges numbers the client gave away.
THEOREM TypeCorrect == Spec => []TypeOK
<1>1. WireInv /\ IInv /\ [Next]_vars => WireInv'
  BY NextWire
<1>2. IInv /\ WireInv => TypeOK
  <2> SUFFICES ASSUME IInv, WireInv PROVE TypeOK
    OBVIOUS
  <2>1. DOMAIN states \subseteq Nat
    BY DEF IInv, Types, WireInv
  <2>2. up => sent # <<>>
    BY DEF IInv, MemoryInv
  <2> QED BY <2>1, <2>2 DEF IInv, Types, WireInv, TypeOK
<1>3. Spec => []WireInv
  BY InitWire, Invariance, <1>1, PTL DEF Spec
<1>4. QED
  BY <1>2, <1>3, Invariance, PTL
=============================================================================
