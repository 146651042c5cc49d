-------------------------- MODULE MoshReceiverProofs --------------------------
(***************************************************************************)
(* Proofs about MoshReceiver, for every number of states, packets and      *)
(* restarts and every height of the screen: the terminal gets to the very  *)
(* screen the server had, what the server sends changes from and what was  *)
(* acknowledged is always there, also after restarts, and the lines of the *)
(* scrollback are in order as long as no change left any out.              *)
(*                                                                         *)
(* The screens are computed by recursive functions along the parents of    *)
(* the states.  A parent's number is below its child's in every reachable  *)
(* state, but the functions are not defined by that; each is first shown   *)
(* to exist, by a function that is not recursive, and then unfolded.       *)
(***************************************************************************)
EXTENDS MoshReceiver, FiniteSetTheorems, SequenceTheorems, WellFoundedInduction, TLAPS

-----------------------------------------------------------------------------
(* The inductive invariant *)

\* States are the server's, at its screens, and their changes are made for the
\* screens of their parents.
Fits(ss, screens) ==
  \A n \in DOMAIN ss :
    /\ n \in DOMAIN screens
    /\ ss[n] \in ReceivedState
    /\ ss[n].to = screens[n]
    /\ ss[n].parent # NoParent =>
         /\ ss[n].parent \in DOMAIN screens
         /\ ss[n].parent < n
         /\ ss[n].from = screens[ss[n].parent]

\* The server's states go forward, and it has what it sends changes from.
ServerFits ==
  /\ DOMAIN truth \subseteq (0 .. MaxNum) \cup {Shutdown} /\ 0 \in DOMAIN truth
  /\ \A n \in DOMAIN truth : truth[n] \in Nat
  /\ \A k, n \in DOMAIN truth : k <= n => truth[k] <= truth[n]
  /\ held # {} /\ held \subseteq DOMAIN truth
  /\ acks \subseteq DOMAIN truth /\ \A num \in acks : Oldest <= num

\* A packet is made of the server's screens, and throws away nothing that the
\* server may still send changes from.
PacketFits(m) ==
  /\ m \in Packet
  /\ m.old \in DOMAIN truth /\ m.new \in DOMAIN truth /\ m.old < m.new
  /\ m.from = truth[m.old] /\ m.to = truth[m.new]
  /\ m.throwaway <= Oldest

\* The app has in memory what is in the journal, and its mirror is at the
\* newest state.
ClientFits ==
  /\ up \in BOOLEAN /\ finished \in BOOLEAN /\ cut \in BOOLEAN /\ leapt \in BOOLEAN
  /\ latest \in Nat /\ shownScroll \in Nat /\ mirror \in Nat /\ stops \in Nat
  /\ Fits(known, truth) /\ Fits(disk.states, truth) /\ disk.latest \in DOMAIN truth
  /\ up => known = disk.states /\ latest = disk.latest /\ mirror = truth[latest]
  /\ ~up => output = <<>> /\ terminal.screen = 0 /\ terminal.scrollback = <<>>

\* The screen the terminal has when the i-th change on its way arrives.
Before(screen, queue, i) == IF i = 1 THEN screen ELSE queue[i - 1].to

\* Each change on its way is made for the screen it will meet.
QueueFits(screen, queue) ==
  \A i \in 1 .. Len(queue) :
    /\ queue[i].from <= queue[i].to
    /\ queue[i].replace => queue[i].screen = queue[i].from
    /\ ~queue[i].replace => Before(screen, queue, i) = queue[i].from

\* And the last one gets the terminal to where the mirror is.
OutputFits ==
  /\ output \in Seq(Output)
  /\ terminal.screen \in Nat /\ terminal.scrollback \in Seq(Nat)
  /\ QueueFits(terminal.screen, output)
  /\ up => mirror = Before(terminal.screen, output, Len(output) + 1)

\* What was acknowledged is in the journal, with all its steps.
AckedHeld ==
  ~cut => \A num \in acks \cup {Oldest, disk.latest} :
            Reached(disk.states, num) /\ num <= disk.latest

\* While no change left lines out, a state has scrolled what is off its screen.
Scrolled(ss) == \A n \in DOMAIN ss : ss[n].scroll = Top(ss[n].to)

\* And a change skips at least what the terminal has beyond its base.
SkipFits(screen, change) ==
  /\ ~Leaps(change)
  /\ Top(screen) <= change.skip + Top(change.from)
  /\ Top(screen) <= Top(change.to)

SkipsFit(screen, queue) == \A i \in 1 .. Len(queue) : SkipFits(Before(screen, queue, i), queue[i])

Rising(lines) == \A i, j \in 1 .. Len(lines) : i < j => lines[i] < lines[j]

UpTo(lines, n) == \A i \in 1 .. Len(lines) : lines[i] <= n

LinesFit ==
  ~leapt =>
    /\ Scrolled(known) /\ Scrolled(disk.states)
    /\ up => shownScroll = Top(truth[latest])
    /\ SkipsFit(terminal.screen, output)
    /\ Rising(terminal.scrollback) /\ UpTo(terminal.scrollback, Top(terminal.screen))

IInv ==
  /\ ServerFits
  /\ \A m \in toClient : PacketFits(m)
  /\ ClientFits
  /\ OutputFits
  /\ AckedHeld
  /\ LinesFit

-----------------------------------------------------------------------------
(* Recursion along the parents *)

\* States have parents that are numbers, below their own.
Tree(ss) ==
  \A n \in DOMAIN ss : /\ n \in Nat /\ ss[n].parent \in Nat
                       /\ ss[n].parent # NoParent => ss[n].parent < n

\* Some of a set of numbers is the smallest.
LEMMA Least ==
  ASSUME NEW T \in SUBSET Nat, T # {}
  PROVE  \E x \in T : \A y \in T : x <= y
<1> DEFINE R == {p \in Nat \X Nat : p[1] < p[2]}
<1>1. IsWellFoundedOn(R, Nat)
  BY NatLessThanWellFounded DEF OpToRel
<1>2. PICK x \in T : \A y \in T : ~ (<<y, x>> \in R)
  BY <1>1, WFMin
<1>3. SUFFICES ASSUME NEW y \in T PROVE x <= y
  OBVIOUS
<1>4. x \in Nat /\ y \in Nat /\ ~ (<<y, x>> \in R)
  BY <1>2
<1> QED
  BY <1>4

\* A state is reached when it is there and its parent, if any, is reached.
LEMMA ReachedIs ==
  ASSUME NEW ss, Tree(ss), NEW num \in Nat
  PROVE  Reached(ss, num) <=>
           /\ num \in DOMAIN ss
           /\ ss[num].parent = NoParent \/ Reached(ss, ss[num].parent)
<1> DEFINE Closed(P) == \A k \in P : ss[k].parent = NoParent \/ ss[k].parent \in P
           Good(n) == \E P \in SUBSET DOMAIN ss : n \in P /\ Closed(P)
           good == [n \in Nat |-> Good(n)]
           Body(f) == [n \in Nat |-> n \in DOMAIN ss /\ (ss[n].parent = NoParent \/ f[ss[n].parent])]
           reached == CHOOSE f : f = Body(f)
<1>1. \A n \in DOMAIN ss : ss[n].parent \in Nat
  BY DEF Tree
<1>2. ASSUME NEW n \in Nat
      PROVE  Good(n) <=> n \in DOMAIN ss /\ (ss[n].parent = NoParent \/ Good(ss[n].parent))
  <2>1. ASSUME Good(n)
        PROVE  n \in DOMAIN ss /\ (ss[n].parent = NoParent \/ Good(ss[n].parent))
    BY <2>1
  <2>2. ASSUME n \in DOMAIN ss, ss[n].parent = NoParent
        PROVE  Good(n)
    <3>1. {n} \in SUBSET DOMAIN ss /\ n \in {n} /\ Closed({n})
      BY <2>2
    <3> QED
      BY <3>1
  <2>3. ASSUME n \in DOMAIN ss, Good(ss[n].parent)
        PROVE  Good(n)
    <3>1. PICK P \in SUBSET DOMAIN ss : ss[n].parent \in P /\ Closed(P)
      BY <2>3
    <3>2. P \cup {n} \in SUBSET DOMAIN ss /\ n \in P \cup {n} /\ Closed(P \cup {n})
      BY <2>3, <3>1
    <3> QED
      BY <3>2
  <2> QED
    BY <2>1, <2>2, <2>3
<1> HIDE DEF Good
<1>3. good = Body(good)
  <2>1. ASSUME NEW n \in Nat
        PROVE  good[n] = (n \in DOMAIN ss /\ (ss[n].parent = NoParent \/ good[ss[n].parent]))
    <3>1. good[n] = Good(n)
      OBVIOUS
    <3>2. CASE n \in DOMAIN ss
      <4>1. good[ss[n].parent] = Good(ss[n].parent)
        BY <1>1, <3>2
      <4>2. Good(n) = (n \in DOMAIN ss /\ (ss[n].parent = NoParent \/ Good(ss[n].parent)))
        BY <1>2 DEF Good
      <4> QED
        BY <3>1, <4>1, <4>2
    <3>3. CASE n \notin DOMAIN ss
      <4>1. Good(n) = FALSE
        BY <1>2, <3>3 DEF Good
      <4> QED
        BY <3>1, <3>3, <4>1
    <3> QED
      BY <3>2, <3>3
  <2>2. good = [n \in Nat |-> good[n]]
    OBVIOUS
  <2> HIDE DEF good
  <2>3. [n \in Nat |-> good[n]] = Body(good)
    BY <2>1
  <2> QED
    BY <2>2, <2>3
<1> HIDE DEF good, Body
<1>4. reached = Body(reached)
  BY <1>3
<1>5. \A n : Reached(ss, n) = reached[n]
  BY DEF Reached, reached, Body
<1> HIDE DEF reached
<1>6. reached[num] = (num \in DOMAIN ss /\ (ss[num].parent = NoParent \/ reached[ss[num].parent]))
  BY <1>4 DEF Body
<1> QED
  BY <1>5, <1>6

\* A state is reached from the states that stay when it is a root, or its parent
\* stays and is the first of them or itself reached that way.
LEMMA ThroughKeptIs ==
  ASSUME NEW ss, Tree(ss), NEW num \in Nat, NEW n \in DOMAIN ss
  PROVE  ThroughKept(ss, n, num) <=>
           \/ ss[n].parent = NoParent
           \/ /\ ss[n].parent \in DOMAIN ss /\ ss[n].parent >= num
              /\ ss[n].parent = num \/ ThroughKept(ss, ss[n].parent, num)
<1> DEFINE Closed(P) == \A k \in P : ss[k].parent = NoParent \/ k = num \/ ss[k].parent \in P
           There == {k \in DOMAIN ss : k >= num}
           Good(k) == \E P \in SUBSET There : k \in P /\ Closed(P)
           good == [k \in Nat |-> Good(k)]
           Rest(f, k) == ss[k].parent = NoParent \/ k = num \/ f[ss[k].parent]
           Body(f) == [k \in Nat |->
                         /\ k \in DOMAIN ss /\ k >= num
                         /\ ss[k].parent = NoParent \/ k = num \/ f[ss[k].parent]]
           stays == CHOOSE f : f = Body(f)
<1>1. \A k \in DOMAIN ss : ss[k].parent \in Nat
  BY DEF Tree
<1>2. ASSUME NEW k \in Nat
      PROVE  Good(k) <=> k \in There /\ (ss[k].parent = NoParent \/ k = num \/ Good(ss[k].parent))
  <2>1. ASSUME Good(k)
        PROVE  k \in There /\ (ss[k].parent = NoParent \/ k = num \/ Good(ss[k].parent))
    BY <2>1
  <2>2. ASSUME k \in There, ss[k].parent = NoParent \/ k = num
        PROVE  Good(k)
    <3>1. {k} \in SUBSET There /\ k \in {k} /\ Closed({k})
      BY <2>2
    <3> QED
      BY <3>1
  <2>3. ASSUME k \in There, Good(ss[k].parent)
        PROVE  Good(k)
    <3>1. PICK P \in SUBSET There : ss[k].parent \in P /\ Closed(P)
      BY <2>3
    <3>2. P \cup {k} \in SUBSET There /\ k \in P \cup {k} /\ Closed(P \cup {k})
      BY <2>3, <3>1
    <3> QED
      BY <3>2
  <2> QED
    BY <2>1, <2>2, <2>3
<1> HIDE DEF Good
<1>3. good = Body(good)
  <2>1. ASSUME NEW k \in Nat
        PROVE  good[k] = (/\ k \in DOMAIN ss /\ k >= num
                          /\ ss[k].parent = NoParent \/ k = num \/ good[ss[k].parent])
    <3>1. good[k] = Good(k)
      OBVIOUS
    <3>2. CASE k \in DOMAIN ss
      <4>1. good[ss[k].parent] = Good(ss[k].parent)
        BY <1>1, <3>2
      <4>2. Good(k) = (/\ k \in DOMAIN ss /\ k >= num
                       /\ ss[k].parent = NoParent \/ k = num \/ Good(ss[k].parent))
        BY <1>2 DEF Good
      <4> QED
        BY <3>1, <4>1, <4>2
    <3>3. CASE k \notin DOMAIN ss
      <4>1. Good(k) = FALSE
        BY <1>2, <3>3 DEF Good
      <4> QED
        BY <3>1, <3>3, <4>1
    <3> QED
      BY <3>2, <3>3
  <2>2. good = [k \in Nat |-> good[k]]
    OBVIOUS
  <2> HIDE DEF good
  <2>3. [k \in Nat |-> good[k]] = Body(good)
    BY <2>1
  <2> QED
    BY <2>2, <2>3
<1> HIDE DEF good, Body
<1>4. stays = Body(stays)
  BY <1>3
<1>5. \A k : ThroughKept(ss, k, num) = (ss[k].parent = NoParent \/ stays[ss[k].parent])
  BY DEF ThroughKept, stays, Body
<1> HIDE DEF stays
<1>6. \A k \in Nat : stays[k] = (/\ k \in DOMAIN ss /\ k >= num
                                 /\ ss[k].parent = NoParent \/ k = num \/ stays[ss[k].parent])
  BY <1>4 DEF Body
<1>7. ss[n].parent \in Nat
  BY <1>1
<1> QED
  BY <1>5, <1>6, <1>7

\* What is said of all states reached by going on from parents to children.
LEMMA ReachedAll ==
  ASSUME NEW ss, Tree(ss), NEW S,
         \A n \in DOMAIN ss : Reached(ss, n) /\ (ss[n].parent = NoParent \/ ss[n].parent \in S) => n \in S
  PROVE  \A n \in Nat : Reached(ss, n) => n \in S
<1> DEFINE T == {n \in Nat : Reached(ss, n) /\ n \notin S}
<1> SUFFICES ASSUME T # {}
             PROVE  FALSE
  OBVIOUS
<1>1. PICK n \in T : \A k \in T : n <= k
  BY Least
<1>2. n \in DOMAIN ss /\ (ss[n].parent = NoParent \/ Reached(ss, ss[n].parent))
  BY ReachedIs
<1>3. ss[n].parent # NoParent /\ ss[n].parent \notin S
  BY <1>2
<1>4. ss[n].parent \in T /\ ss[n].parent < n
  BY <1>2, <1>3 DEF Tree
<1> QED
  BY <1>1, <1>4

\* When changes are made for the screens of the parents, the screen drawn along
\* the way to a state that is reached is its own.
LEMMA ScreenAtIs ==
  ASSUME NEW ss, Tree(ss),
         \A n \in DOMAIN ss : /\ ss[n].from \in Nat
                              /\ ss[n].parent \in DOMAIN ss => ss[n].from = ss[ss[n].parent].to,
         NEW num \in Nat, Reached(ss, num)
  PROVE  ScreenAt(ss, num) = ss[num].to
<1> DEFINE screen == [n \in Nat |-> IF Reached(ss, n) THEN ss[n].to ELSE Garbled]
           Body(f) == [n \in Nat |-> IF n \notin DOMAIN ss THEN Garbled
                                     ELSE IF ss[n].parent = NoParent THEN ss[n].to
                                     ELSE Draw(f[ss[n].parent], ss[n])]
           drawn == CHOOSE f : f = Body(f)
<1>1. screen = Body(screen)
  <2>1. ASSUME NEW n \in Nat
        PROVE  screen[n] = IF n \notin DOMAIN ss THEN Garbled
                           ELSE IF ss[n].parent = NoParent THEN ss[n].to
                           ELSE Draw(screen[ss[n].parent], ss[n])
    <3>1. Reached(ss, n) <=> n \in DOMAIN ss /\ (ss[n].parent = NoParent \/ Reached(ss, ss[n].parent))
      BY ReachedIs
    <3>2. screen[n] = IF Reached(ss, n) THEN ss[n].to ELSE Garbled
      OBVIOUS
    <3>3. CASE n \notin DOMAIN ss \/ ss[n].parent = NoParent
      BY <3>1, <3>2, <3>3
    <3>4. CASE n \in DOMAIN ss /\ ss[n].parent # NoParent
      <4> DEFINE p == ss[n].parent
      <4>1. p \in Nat /\ ss[n].from \in Nat
        BY <3>4 DEF Tree
      <4>2. screen[p] = IF Reached(ss, p) THEN ss[p].to ELSE Garbled
        BY <4>1
      <4>3. Reached(ss, p) => p \in DOMAIN ss
        BY <4>1, ReachedIs
      <4>4. Draw(screen[p], ss[n]) = IF Reached(ss, p) THEN ss[n].to ELSE Garbled
        <5>1. CASE Reached(ss, p)
          <6>1. ss[n].from = ss[p].to
            BY <3>4, <4>3, <5>1
          <6> QED
            BY <4>2, <5>1, <6>1 DEF Draw
        <5>2. CASE ~Reached(ss, p)
          <6>1. screen[p] # ss[n].from
            BY <4>1, <4>2, <5>2 DEF Garbled
          <6> QED
            BY <5>2, <6>1 DEF Draw
        <5> QED
          BY <5>1, <5>2
      <4> HIDE DEF screen
      <4> QED
        BY <3>1, <3>2, <3>4, <4>4
    <3> QED
      BY <3>3, <3>4
  <2>2. screen = [n \in Nat |-> screen[n]]
    OBVIOUS
  <2> HIDE DEF screen
  <2>3. [n \in Nat |-> screen[n]] = Body(screen)
    BY <2>1
  <2> QED
    BY <2>2, <2>3
<1> HIDE DEF screen, Body
<1>2. drawn = Body(drawn)
  BY <1>1
<1>3. ScreenAt(ss, num) = drawn[num]
  BY DEF ScreenAt, drawn, Body
<1> HIDE DEF drawn
<1>4. \A n \in DOMAIN ss : drawn[n] = IF ss[n].parent = NoParent THEN ss[n].to
                                      ELSE Draw(drawn[ss[n].parent], ss[n])
  BY <1>2 DEF Body, Tree
<1> DEFINE S == {n \in DOMAIN ss : drawn[n] = ss[n].to}
<1>5. \A n \in DOMAIN ss : Reached(ss, n) /\ (ss[n].parent = NoParent \/ ss[n].parent \in S) => n \in S
  BY <1>4 DEF Draw
<1> HIDE DEF S
<1>6. num \in S
  BY <1>5, ReachedAll
<1> QED
  BY <1>3, <1>6 DEF S

-----------------------------------------------------------------------------
(* The server's numbers and screens *)

\* The oldest state the server sends changes from.
LEMMA OldestIs ==
  ASSUME held \subseteq Nat, held # {}
  PROVE  Oldest \in held /\ \A k \in held : Oldest <= k
<1>1. \E n \in held : \A k \in held : n <= k
  BY Least
<1> QED
  BY <1>1 DEF Oldest

\* Its newest state.
LEMMA NewestIs ==
  ASSUME ServerFits
  PROVE  Newest \in DOMAIN truth /\ \A k \in DOMAIN truth : k <= Newest
<1> DEFINE T == {Shutdown - n : n \in DOMAIN truth}
<1>1. DOMAIN truth \subseteq 0 .. Shutdown /\ DOMAIN truth # {}
  BY ReceiverAssumption DEF ServerFits
<1>2. T \in SUBSET Nat /\ T # {}
  BY <1>1, ReceiverAssumption
<1>3. PICK x \in T : \A y \in T : x <= y
  BY <1>2, Least
<1>4. PICK n \in DOMAIN truth : x = Shutdown - n
  BY <1>3
<1>5. \A k \in DOMAIN truth : k <= n
  <2> SUFFICES ASSUME NEW k \in DOMAIN truth
               PROVE  k <= n
    OBVIOUS
  <2>1. x <= Shutdown - k
    BY <1>3
  <2>2. k \in Int /\ n \in Int /\ Shutdown \in Int
    BY <1>1, ReceiverAssumption
  <2> QED
    BY <2>1, <2>2, <1>4
<1> QED
  BY <1>5 DEF Newest

\* The numbers and what they are not.
LEMMA Numbers ==
  ASSUME ServerFits
  PROVE  /\ \A n \in DOMAIN truth : n \in Nat /\ n # NoParent /\ n <= Shutdown /\ truth[n] \in Nat
         /\ held \subseteq Nat /\ held # {} /\ held \subseteq DOMAIN truth
         /\ acks \subseteq DOMAIN truth
         /\ Oldest \in held /\ Oldest \in Nat /\ \A k \in held : Oldest <= k
<1>1. \A n \in DOMAIN truth : n \in Nat /\ n # NoParent /\ n <= Shutdown /\ truth[n] \in Nat
  BY ReceiverAssumption DEF ServerFits
<1>2. held \subseteq Nat /\ held # {} /\ held \subseteq DOMAIN truth /\ acks \subseteq DOMAIN truth
  BY <1>1 DEF ServerFits
<1> QED
  BY <1>1, <1>2, OldestIs

\* Fewer lines are off a screen than were printed, and more as more are.
LEMMA TopIs ==
  ASSUME NEW j \in Nat, NEW k \in Nat, j <= k
  PROVE  Top(j) \in Nat /\ Top(j) <= j /\ Top(j) <= Top(k)
BY ReceiverAssumption DEF Top

\* The lines changes scroll off.
LEMMA ScrolledOffIs ==
  ASSUME NEW screen, NEW change, change.from \in Nat, change.to \in Nat, change.from <= change.to
  PROVE  LET lines == ScrolledOff(screen, change)
         IN  /\ lines \in Seq(Nat)
             /\ Len(lines) = IF screen = change.from /\ Top(change.to) < change.from
                             THEN Top(change.to) - Top(change.from) ELSE 0
             /\ \A i \in 1 .. Len(lines) : lines[i] = Top(change.from) + i
<1> DEFINE n == Top(change.to) - Top(change.from)
           off == [i \in 1 .. n |-> Top(change.from) + i]
<1>1. n \in Nat /\ Top(change.from) \in Nat
  BY TopIs
<1>2. off \in Seq(Nat) /\ Len(off) = n /\ \A i \in 1 .. n : off[i] = Top(change.from) + i
  <2> HIDE DEF n
  <2> QED
    BY <1>1
<1>3. <<>> \in Seq(Nat) /\ Len(<<>>) = 0
  OBVIOUS
<1>4. ScrolledOff(screen, change) =
        IF screen = change.from /\ Top(change.to) < change.from THEN off ELSE <<>>
  BY DEF ScrolledOff
<1> HIDE DEF off
<1>5. CASE screen = change.from /\ Top(change.to) < change.from
  BY <1>1, <1>2, <1>4, <1>5
<1>6. CASE ~(screen = change.from /\ Top(change.to) < change.from)
  BY <1>3, <1>4, <1>6
<1> QED
  BY <1>5, <1>6

-----------------------------------------------------------------------------
(* Received states *)

LEMMA FitsTree ==
  ASSUME ServerFits, NEW ss, Fits(ss, truth)
  PROVE  /\ Tree(ss)
         /\ \A n \in DOMAIN ss :
              /\ n \in DOMAIN truth /\ n \in Nat /\ ss[n].to = truth[n]
              /\ ss[n].parent \in Nat /\ ss[n].from \in Nat /\ ss[n].scroll \in Nat
              /\ ss[n].parent \in DOMAIN ss => ss[n].from = ss[ss[n].parent].to
<1>1. \A n \in DOMAIN ss :
        /\ n \in DOMAIN truth /\ n \in Nat /\ n # NoParent /\ ss[n].to = truth[n]
        /\ ss[n].parent \in Nat /\ ss[n].from \in Nat /\ ss[n].scroll \in Nat
  BY Numbers DEF Fits, ReceivedState, Screen
<1>2. Tree(ss)
  BY <1>1 DEF Tree, Fits
<1>3. ASSUME NEW n \in DOMAIN ss, ss[n].parent \in DOMAIN ss
      PROVE  ss[n].from = ss[ss[n].parent].to
  BY <1>1, <1>3 DEF Fits
<1> QED
  BY <1>1, <1>2, <1>3

\* The screen the app draws for a state it can reach is the server's.
LEMMA ScreenIs ==
  ASSUME ServerFits, NEW ss, Fits(ss, truth), NEW num \in Nat, Reached(ss, num)
  PROVE  num \in DOMAIN ss /\ num \in DOMAIN truth /\ ScreenAt(ss, num) = truth[num]
<1>1. Tree(ss) /\ num \in DOMAIN ss
  BY FitsTree, ReachedIs
<1>2. ScreenAt(ss, num) = ss[num].to
  BY <1>1, FitsTree, ScreenAtIs
<1> QED
  BY <1>1, <1>2, FitsTree

\* One more state leaves the others reached.
LEMMA WithReached ==
  ASSUME NEW ss, Tree(ss), NEW num \in Nat, num \notin DOMAIN ss, NEW state,
         state.parent \in Nat, state.parent # NoParent => state.parent < num
  PROVE  LET more == With(ss, num, state)
         IN  /\ DOMAIN more = DOMAIN ss \cup {num}
             /\ \A n \in DOMAIN ss : more[n] = ss[n]
             /\ more[num] = state
             /\ Tree(more)
             /\ \A n \in Nat : Reached(ss, n) => Reached(more, n)
             /\ state.parent = NoParent \/ Reached(ss, state.parent) => Reached(more, num)
<1> DEFINE more == With(ss, num, state)
<1>1. /\ DOMAIN more = DOMAIN ss \cup {num}
      /\ \A n \in DOMAIN ss : more[n] = ss[n]
      /\ more[num] = state
  BY DEF With
<1> HIDE DEF more
<1>2. Tree(more)
  <2> SUFFICES ASSUME NEW n \in DOMAIN more
               PROVE  /\ n \in Nat /\ more[n].parent \in Nat
                      /\ more[n].parent # NoParent => more[n].parent < n
    BY DEF Tree
  <2>1. CASE n = num
    BY <1>1, <2>1
  <2>2. CASE n \in DOMAIN ss
    BY <1>1, <2>2 DEF Tree
  <2> QED
    BY <1>1, <2>1, <2>2
<1> DEFINE S == {n \in Nat : Reached(more, n)}
<1>3. \A n \in DOMAIN ss : Reached(ss, n) /\ (ss[n].parent = NoParent \/ ss[n].parent \in S) => n \in S
  BY <1>1, <1>2, ReachedIs DEF Tree
<1>4. \A n \in Nat : Reached(ss, n) => n \in S
  <2> HIDE DEF S
  <2> QED
    BY <1>3, ReachedAll
<1>5. state.parent = NoParent \/ Reached(ss, state.parent) => Reached(more, num)
  BY <1>1, <1>2, <1>4, ReachedIs
<1> QED
  BY <1>1, <1>2, <1>4, <1>5 DEF more

\* Throwing states away leaves states that fit, and all that are reached from the
\* given one on are still reached.
LEMMA ThrowAwayFits ==
  ASSUME ServerFits, NEW ss, Fits(ss, truth), NEW num \in Nat
  PROVE  LET kept == ThrowAwayUntil(ss, num)
         IN  /\ DOMAIN kept \subseteq DOMAIN ss
             /\ Fits(kept, truth)
             /\ Scrolled(ss) => Scrolled(kept)
             /\ \A n \in Nat : Reached(ss, n) /\ num <= n => Reached(kept, n)
<1> DEFINE kept == ThrowAwayUntil(ss, num)
           Stays(n) == ThroughKept(ss, n, num) /\ n # num
<1>1. Tree(ss)
  BY FitsTree
<1>2. \A n : n \in DOMAIN kept <=>
        n \in DOMAIN ss /\ n >= num /\ (Reached(ss, n) \/ (n # num /\ ThroughKept(ss, n, num)))
  BY DEF ThrowAwayUntil
<1>3. ASSUME NEW n \in DOMAIN kept
      PROVE  kept[n] = IF Stays(n) THEN ss[n]
                       ELSE [ss[n] EXCEPT !.to = ScreenAt(ss, n), !.parent = NoParent]
  BY DEF ThrowAwayUntil
<1> HIDE DEF kept
<1>4. ASSUME NEW n \in DOMAIN kept
      PROVE  /\ Stays(n) => kept[n] = ss[n]
             /\ ~Stays(n) => /\ kept[n].parent = NoParent /\ kept[n].to = truth[n]
                             /\ kept[n].scroll = ss[n].scroll /\ kept[n] \in ReceivedState
             /\ n \in DOMAIN ss /\ n \in DOMAIN truth /\ ss[n].to = truth[n]
  <2>1. n \in DOMAIN ss /\ n \in Nat /\ n \in DOMAIN truth /\ ss[n].to = truth[n] /\ truth[n] \in Nat
    BY <1>2, FitsTree, Numbers
  <2>2. CASE Stays(n)
    BY <1>3, <2>1, <2>2
  <2>3. CASE ~Stays(n)
    <3>1. Reached(ss, n)
      BY <1>2, <2>3
    <3>2. ScreenAt(ss, n) = truth[n]
      BY <2>1, <3>1, ScreenIs
    <3>3. kept[n] = [ss[n] EXCEPT !.to = truth[n], !.parent = NoParent]
      BY <1>3, <2>3, <3>2
    <3>4. ss[n] \in ReceivedState
      BY <2>1 DEF Fits
    <3>5. /\ kept[n].parent = NoParent /\ kept[n].to = truth[n]
          /\ kept[n].scroll = ss[n].scroll /\ kept[n] \in ReceivedState
      BY <2>1, <3>3, <3>4, ReceiverAssumption DEF ReceivedState, Screen
    <3> QED
      BY <2>1, <2>3, <3>5
  <2> QED
    BY <2>2, <2>3
<1>5. Fits(kept, truth)
  <2> SUFFICES ASSUME NEW n \in DOMAIN kept
               PROVE  /\ n \in DOMAIN truth
                      /\ kept[n] \in ReceivedState
                      /\ kept[n].to = truth[n]
                      /\ kept[n].parent # NoParent =>
                           /\ kept[n].parent \in DOMAIN truth
                           /\ kept[n].parent < n
                           /\ kept[n].from = truth[kept[n].parent]
    BY DEF Fits
  <2>1. CASE Stays(n)
    BY <1>4, <2>1 DEF Fits
  <2>2. CASE ~Stays(n)
    BY <1>4, <2>2
  <2> QED
    BY <2>1, <2>2
<1>6. Scrolled(ss) => Scrolled(kept)
  <2> SUFFICES ASSUME Scrolled(ss), NEW n \in DOMAIN kept
               PROVE  kept[n].scroll = Top(kept[n].to)
    BY DEF Scrolled
  <2>1. ss[n].scroll = Top(ss[n].to)
    BY <1>4 DEF Scrolled
  <2> QED
    BY <1>4, <2>1
<1>7. \A n \in Nat : Reached(ss, n) /\ num <= n => Reached(kept, n)
  <2> DEFINE S == {n \in Nat : num <= n => Reached(kept, n)}
  <2>1. Tree(kept)
    BY <1>5, FitsTree
  <2>2. ASSUME NEW n \in DOMAIN ss, Reached(ss, n), ss[n].parent = NoParent \/ ss[n].parent \in S
        PROVE  n \in S
    <3> SUFFICES ASSUME num <= n
                 PROVE  Reached(kept, n)
      BY <1>1 DEF Tree
    <3>1. n \in Nat /\ n \in DOMAIN kept
      BY <1>1, <1>2, <2>2 DEF Tree
    <3>2. CASE ~Stays(n) \/ ss[n].parent = NoParent
      <4>1. kept[n].parent = NoParent
        BY <1>4, <3>1, <3>2
      <4> QED
        BY <2>1, <3>1, <4>1, ReachedIs
    <3>3. CASE Stays(n) /\ ss[n].parent # NoParent
      <4>1. ss[n].parent >= num
        BY <1>1, <3>3, ThroughKeptIs
      <4>2. ss[n].parent \in Nat /\ Reached(kept, ss[n].parent)
        BY <1>1, <2>2, <3>3, <4>1 DEF Tree
      <4> QED
        BY <1>4, <2>1, <3>1, <3>3, <4>2, ReachedIs
    <3> QED
      BY <3>2, <3>3
  <2> HIDE DEF S
  <2>3. \A n \in Nat : Reached(ss, n) => n \in S
    BY <1>1, <2>2, ReachedAll
  <2> QED
    BY <2>3 DEF S
<1> QED
  BY <1>2, <1>5, <1>6, <1>7 DEF kept

-----------------------------------------------------------------------------
(* The steps *)

LEMMA Starts == Init => IInv
<1> SUFFICES ASSUME Init
             PROVE  IInv
  OBVIOUS
<1> DEFINE root == [parent |-> NoParent, from |-> 0, to |-> 0, scroll |-> 0]
<1>1. /\ DOMAIN known = {0} /\ known[0] = root /\ disk.states = known /\ disk.latest = 0
      /\ DOMAIN truth = {0} /\ truth[0] = 0 /\ held = {0} /\ toClient = {} /\ acks = {}
  BY DEF Init
<1>2. /\ up = TRUE /\ finished = FALSE /\ cut = FALSE /\ leapt = FALSE /\ latest = 0
      /\ shownScroll = 0 /\ mirror = 0 /\ stops = 0 /\ output = <<>>
      /\ terminal.screen = 0 /\ terminal.scrollback = <<>>
  BY DEF Init
<1>3. ServerFits
  BY <1>1, ReceiverAssumption DEF ServerFits
<1>4. Fits(known, truth)
  <2>1. root \in ReceivedState
    BY ReceiverAssumption DEF ReceivedState, Screen
  <2> QED
    BY <1>1, <2>1 DEF Fits
<1>5. ClientFits
  BY <1>1, <1>2, <1>4 DEF ClientFits
<1>6. OutputFits
  BY <1>2 DEF OutputFits, QueueFits, Before
<1>7. Oldest = 0 /\ Reached(known, 0)
  <2>1. Oldest = 0
    BY <1>1, <1>3, Numbers
  <2>2. Reached(known, 0)
    BY <1>1, <1>3, <1>4, FitsTree, ReachedIs
  <2> QED
    BY <2>1, <2>2
<1>8. AckedHeld
  BY <1>1, <1>7 DEF AckedHeld
<1>9. LinesFit
  <2>1. Top(0) = 0
    BY ReceiverAssumption DEF Top
  <2> QED
    BY <1>1, <1>2, <2>1 DEF LinesFit, Scrolled, SkipsFit, Rising, UpTo
<1> QED
  BY <1>1, <1>3, <1>5, <1>6, <1>8, <1>9 DEF IInv

\* What the app makes of changes it applies.
LEMMA Applied ==
  ASSUME IInv, up, NEW m \in toClient, Applies(m)
  PROVE  LET state == NewState(m)
             more == With(known, m.new, state)
         IN  /\ Start(m) = m.from /\ Draw(Start(m), m) = m.to
             /\ state \in ReceivedState /\ Fits(more, truth)
             /\ \A n \in Nat : Reached(known, n) => Reached(more, n)
             /\ ~cut => Reached(more, m.new)
             /\ SkipLines(m.old) \in Nat
             /\ ~leapt => shownScroll <= SkipLines(m.old) + Top(m.from)
             /\ ~leapt /\ ~Leaps(m) => Scrolled(more) /\ state.scroll = Top(m.to)
<1> DEFINE state == NewState(m)
           more == With(known, m.new, state)
           off == ScrolledOff(m.from, m)
<1>1. /\ m \in Packet /\ m.old \in DOMAIN truth /\ m.new \in DOMAIN truth /\ m.old < m.new
      /\ m.from = truth[m.old] /\ m.to = truth[m.new]
  BY DEF IInv, PacketFits
<1>2. ServerFits /\ Fits(known, truth) /\ known = disk.states /\ latest = disk.latest
      /\ mirror = truth[latest] /\ shownScroll \in Nat
  BY DEF IInv, ClientFits
<1>3. /\ m.new > latest /\ m.new \notin DOMAIN known /\ m.old \in DOMAIN known
      /\ m.old # latest => Reached(known, m.old)
  BY DEF Applies
<1>4. /\ m.old \in Nat /\ m.old # NoParent /\ m.new \in Nat /\ m.new # NoParent
      /\ m.from \in Nat /\ m.to \in Nat /\ m.from <= m.to
  BY <1>1, <1>2, Numbers DEF ServerFits
<1>5. Tree(known) /\ known[m.old].to = truth[m.old] /\ known[m.old].scroll \in Nat
  BY <1>2, <1>3, FitsTree
<1>6. Start(m) = m.from
  BY <1>1, <1>2, <1>3, <1>4, ScreenIs DEF Start
<1>7. Draw(Start(m), m) = m.to
  BY <1>6 DEF Draw
<1>8. /\ off \in Seq(Nat) /\ Len(off) \in Nat
      /\ Len(off) = IF Top(m.to) < m.from THEN Top(m.to) - Top(m.from) ELSE 0
  BY <1>4, ScrolledOffIs
<1>9. state = [parent |-> m.old, from |-> m.from, to |-> m.to,
               scroll |-> known[m.old].scroll + Len(off)]
  BY <1>6 DEF NewState
<1> HIDE DEF off
<1>10. state \in ReceivedState
  BY <1>4, <1>5, <1>8, <1>9 DEF ReceivedState, Screen
<1>11. /\ state.parent = m.old /\ state.from = m.from /\ state.to = m.to
       /\ state.scroll = known[m.old].scroll + Len(off)
  BY <1>9
<1> HIDE DEF state
<1>12. /\ DOMAIN more = DOMAIN known \cup {m.new}
       /\ \A n \in DOMAIN known : more[n] = known[n]
       /\ more[m.new] = state
       /\ \A n \in Nat : Reached(known, n) => Reached(more, n)
       /\ Reached(known, m.old) => Reached(more, m.new)
  <2>1. Tree(known) /\ m.new \in Nat /\ m.new \notin DOMAIN known /\ state.parent \in Nat
        /\ (state.parent # NoParent => state.parent < m.new)
    BY <1>1, <1>3, <1>4, <1>5, <1>11
  <2>2. /\ DOMAIN more = DOMAIN known \cup {m.new}
        /\ \A n \in DOMAIN known : more[n] = known[n]
        /\ more[m.new] = state
        /\ \A n \in Nat : Reached(known, n) => Reached(more, n)
        /\ state.parent = NoParent \/ Reached(known, state.parent) => Reached(more, m.new)
    BY <2>1, WithReached
  <2> QED
    BY <1>11, <2>2
<1> HIDE DEF more
<1>13. Fits(more, truth)
  <2> SUFFICES ASSUME NEW n \in DOMAIN more
               PROVE  /\ n \in DOMAIN truth
                      /\ more[n] \in ReceivedState
                      /\ more[n].to = truth[n]
                      /\ more[n].parent # NoParent =>
                           /\ more[n].parent \in DOMAIN truth
                           /\ more[n].parent < n
                           /\ more[n].from = truth[more[n].parent]
    BY DEF Fits
  <2>1. CASE n = m.new
    BY <1>1, <1>10, <1>11, <1>12, <2>1
  <2>2. CASE n \in DOMAIN known
    BY <1>2, <1>12, <2>2 DEF Fits
  <2> QED
    BY <1>12, <2>1, <2>2
<1>14. ~cut => Reached(more, m.new)
  <2>1. ~cut => Reached(known, latest)
    BY <1>2 DEF IInv, AckedHeld
  <2> QED
    BY <1>3, <1>12, <2>1
<1>15. SkipLines(m.old) \in Nat /\ shownScroll <= SkipLines(m.old) + known[m.old].scroll
  BY <1>2, <1>5 DEF SkipLines
<1>16. ~leapt => Scrolled(known) /\ known[m.old].scroll = Top(m.from)
  <2>1. ~leapt => Scrolled(known)
    BY DEF IInv, LinesFit
  <2> QED
    BY <1>1, <1>3, <1>5, <2>1 DEF Scrolled
<1>17. ~leapt /\ ~Leaps(m) => state.scroll = Top(m.to)
  <2> SUFFICES ASSUME ~leapt, ~Leaps(m)
               PROVE  state.scroll = Top(m.to)
    OBVIOUS
  <2>1. Top(m.from) \in Nat /\ Top(m.to) \in Nat /\ Top(m.from) <= Top(m.to)
    BY <1>4, TopIs
  <2>2. ~(Len(off) < Top(m.to) - Top(m.from))
    BY DEF Leaps, off
  <2> QED
    BY <1>8, <1>11, <1>16, <2>1, <2>2
<1>18. ~leapt /\ ~Leaps(m) => Scrolled(more)
  BY <1>11, <1>12, <1>16, <1>17 DEF Scrolled
<1> QED
  BY <1>6, <1>7, <1>10, <1>12, <1>13, <1>14, <1>15, <1>16, <1>17, <1>18 DEF state, more

\* A change is put on its way.
LEMMA Queued ==
  ASSUME NEW screen, NEW queue \in Seq(Output), QueueFits(screen, queue), NEW o \in Output,
         o.from <= o.to, o.replace => o.screen = o.from,
         ~o.replace => Before(screen, queue, Len(queue) + 1) = o.from
  PROVE  LET more == Append(queue, o)
         IN  /\ more \in Seq(Output) /\ QueueFits(screen, more)
             /\ Before(screen, more, Len(more) + 1) = o.to
             /\ SkipsFit(screen, queue) /\ SkipFits(Before(screen, queue, Len(queue) + 1), o)
                => SkipsFit(screen, more)
<1> DEFINE more == Append(queue, o)
<1>1. /\ more \in Seq(Output) /\ Len(more) = Len(queue) + 1 /\ Len(queue) \in Nat
      /\ more[Len(queue) + 1] = o /\ \A i \in 1 .. Len(queue) : more[i] = queue[i]
  OBVIOUS
<1> HIDE DEF more
<1>2. \A i \in 1 .. Len(queue) + 1 : Before(screen, more, i) = Before(screen, queue, i)
  BY <1>1 DEF Before
<1>3. Before(screen, more, Len(more) + 1) = o.to
  BY <1>1 DEF Before
<1>4. ASSUME NEW i \in 1 .. Len(more)
      PROVE  \/ i \in 1 .. Len(queue) /\ more[i] = queue[i] /\ Before(screen, more, i) = Before(screen, queue, i)
             \/ i = Len(queue) + 1 /\ more[i] = o /\ Before(screen, more, i) = Before(screen, queue, Len(queue) + 1)
  BY <1>1, <1>2
<1>5. QueueFits(screen, more)
  BY <1>4 DEF QueueFits
<1>6. SkipsFit(screen, queue) /\ SkipFits(Before(screen, queue, Len(queue) + 1), o) => SkipsFit(screen, more)
  BY <1>4 DEF SkipsFit
<1> QED
  BY <1>1, <1>3, <1>5, <1>6 DEF more

\* The first change is shown.
LEMMA Unqueued ==
  ASSUME NEW screen, NEW queue \in Seq(Output), queue # <<>>, QueueFits(screen, queue)
  PROVE  LET rest == Tail(queue)
             to == queue[1].to
         IN  /\ rest \in Seq(Output) /\ queue[1] \in Output /\ QueueFits(to, rest)
             /\ Before(to, rest, Len(rest) + 1) = Before(screen, queue, Len(queue) + 1)
             /\ SkipsFit(screen, queue) => SkipsFit(to, rest) /\ SkipFits(screen, queue[1])
             /\ queue[1].from <= queue[1].to
             /\ queue[1].replace => queue[1].screen = queue[1].from
             /\ ~queue[1].replace => screen = queue[1].from
<1> DEFINE rest == Tail(queue)
           to == queue[1].to
<1>1. /\ rest \in Seq(Output) /\ Len(queue) = Len(rest) + 1 /\ Len(rest) \in Nat
      /\ \A i \in 1 .. Len(rest) : rest[i] = queue[i + 1]
      /\ queue[1] \in Output
  OBVIOUS
<1> HIDE DEF rest
<1>2. \A i \in 1 .. Len(rest) + 1 : Before(to, rest, i) = Before(screen, queue, i + 1)
  BY <1>1 DEF Before
<1>3. Before(screen, queue, 1) = screen
  BY DEF Before
<1>4. QueueFits(to, rest)
  BY <1>1, <1>2 DEF QueueFits
<1>5. SkipsFit(screen, queue) => SkipsFit(to, rest) /\ SkipFits(screen, queue[1])
  BY <1>1, <1>2, <1>3 DEF SkipsFit
<1>6. /\ queue[1].from <= queue[1].to
      /\ queue[1].replace => queue[1].screen = queue[1].from
      /\ ~queue[1].replace => screen = queue[1].from
  BY <1>1, <1>3 DEF QueueFits
<1> QED
  BY <1>1, <1>2, <1>4, <1>5, <1>6 DEF rest

\* A packet arrives.
LEMMA ReceiveStep ==
  ASSUME IInv, NEW m \in toClient, Receive(m)
  PROVE  IInv'
<1> DEFINE more == IF Applies(m) THEN With(known, m.new, NewState(m)) ELSE known
           newest == IF Applies(m) THEN m.new ELSE latest
           o == [replace |-> Replaces(m), screen |-> Start(m), from |-> m.from,
                 to |-> m.to, skip |-> SkipLines(m.old)]
<1>1. /\ m \in Packet /\ m.old \in DOMAIN truth /\ m.new \in DOMAIN truth /\ m.old < m.new
      /\ m.from = truth[m.old] /\ m.to = truth[m.new] /\ m.throwaway <= Oldest
  BY DEF IInv, PacketFits
<1>2. /\ ServerFits /\ Fits(known, truth) /\ known = disk.states /\ latest = disk.latest
      /\ latest \in DOMAIN truth /\ mirror = truth[latest] /\ shownScroll \in Nat /\ up
  BY DEF IInv, ClientFits, Receive
<1>3. UNCHANGED <<up, finished, terminal, stops, cut, truth, held, toClient, acks>>
  BY DEF Receive, server
<1>4. /\ known' = IF Trims(more, m.throwaway) THEN ThrowAwayUntil(more, m.throwaway) ELSE more
      /\ latest' = newest
      /\ disk' = [states |-> known', latest |-> newest]
      /\ leapt' = (leapt \/ (Applies(m) /\ Leaps(m)))
      /\ Applies(m) => /\ mirror' = Draw(Start(m), m)
                       /\ shownScroll' = IF NewState(m).scroll > shownScroll
                                         THEN NewState(m).scroll ELSE shownScroll
                       /\ output' = Append(output, o)
      /\ ~Applies(m) => UNCHANGED <<mirror, shownScroll, output>>
  BY DEF Receive, ReceiveInstruction
<1> HIDE DEF o
<1>5. Applies(m) =>
        /\ Start(m) = m.from /\ Draw(Start(m), m) = m.to
        /\ NewState(m) \in ReceivedState /\ Fits(more, truth)
        /\ \A n \in Nat : Reached(known, n) => Reached(more, n)
        /\ ~cut => Reached(more, m.new)
        /\ SkipLines(m.old) \in Nat
        /\ ~leapt => shownScroll <= SkipLines(m.old) + Top(m.from)
        /\ ~leapt /\ ~Leaps(m) => Scrolled(more) /\ NewState(m).scroll = Top(m.to)
  BY <1>2, Applied
<1>6. ~Applies(m) => more = known /\ newest = latest
  OBVIOUS
<1>7. newest \in DOMAIN truth /\ newest \in Nat /\ latest \in Nat /\ latest <= newest
      /\ m.throwaway \in Nat
  <2>1. m.throwaway \in Nat
    BY <1>1 DEF Packet
  <2> QED
    BY <1>1, <1>2, <2>1, Numbers DEF Applies
<1> HIDE DEF more, newest
<1>8. /\ Fits(more, truth) /\ \A n \in Nat : Reached(known, n) => Reached(more, n)
      /\ ~leapt' => Scrolled(more)
      /\ ~cut => Reached(more, newest)
  <2>1. CASE Applies(m)
    <3>1. newest = m.new
      BY <2>1 DEF newest
    <3> QED
      BY <1>4, <1>5, <2>1, <3>1
  <2>2. CASE ~Applies(m)
    <3>1. ~leapt => Scrolled(known)
      BY DEF IInv, LinesFit
    <3>2. ~cut => Reached(known, latest)
      BY <1>2 DEF IInv, AckedHeld
    <3> QED
      BY <1>2, <1>4, <1>6, <2>2, <3>1, <3>2
  <2> QED
    BY <2>1, <2>2
<1>9. /\ Fits(known', truth) /\ \A n \in Nat : Reached(more, n) /\ m.throwaway <= n => Reached(known', n)
      /\ ~leapt' => Scrolled(known')
  BY <1>2, <1>4, <1>7, <1>8, ThrowAwayFits
<1>10. disk'.states = known' /\ disk'.latest = newest
  BY <1>4
<1>11. Oldest' = Oldest
  BY <1>3 DEF Oldest
<1>12. ServerFits'
  BY <1>2, <1>3, <1>11 DEF ServerFits
<1>13. \A p \in toClient' : PacketFits(p)'
  BY <1>3, <1>11 DEF IInv, PacketFits
<1>14. mirror' = truth[newest] /\ mirror' \in Nat
  BY <1>1, <1>2, <1>4, <1>5, <1>7, Numbers DEF newest
<1>15. shownScroll' \in Nat
  BY <1>2, <1>4, <1>5 DEF ReceivedState
<1>16. ClientFits'
  <2>1. leapt' \in BOOLEAN
    BY <1>4 DEF IInv, ClientFits
  <2> QED
    BY <1>2, <1>3, <1>4, <1>7, <1>9, <1>10, <1>14, <1>15, <2>1 DEF IInv, ClientFits
<1>17. OutputFits' /\ (~leapt' => SkipsFit(terminal'.screen, output'))
  <2>1. OutputFits /\ (~leapt => SkipsFit(terminal.screen, output))
    BY DEF IInv, LinesFit
  <2>2. CASE ~Applies(m)
    <3>1. output' = output /\ mirror' = mirror /\ terminal' = terminal /\ up' = up /\ (~leapt' => ~leapt)
      BY <1>3, <1>4, <2>2
    <3> QED
      BY <2>1, <3>1 DEF OutputFits
  <2>3. CASE Applies(m)
    <3>1. m.from \in Nat /\ m.to \in Nat /\ m.from <= m.to
      BY <1>1, <1>2, Numbers DEF ServerFits
    <3>2. /\ o \in Output /\ o.from = m.from /\ o.to = m.to /\ o.skip = SkipLines(m.old)
          /\ o.replace = (m.old # latest) /\ o.screen = m.from
      BY <1>5, <2>3, <3>1 DEF o, Output, Screen, Replaces
    <3>3. mirror = Before(terminal.screen, output, Len(output) + 1)
      BY <1>2, <2>1 DEF OutputFits
    <3>4. ~o.replace => mirror = o.from
      BY <1>1, <1>2, <3>2
    <3>5. output' = Append(output, o) /\ terminal' = terminal /\ up' = up /\ mirror' = m.to
      BY <1>3, <1>4, <1>5, <2>3
    <3>6. ~leapt' => SkipFits(mirror, o)
      <4> SUFFICES ASSUME ~leapt'
                   PROVE  SkipFits(mirror, o)
        OBVIOUS
      <4>1. ~leapt /\ ~Leaps(m) /\ shownScroll <= SkipLines(m.old) + Top(m.from)
        BY <1>4, <1>5, <2>3
      <4>2. shownScroll = Top(mirror)
        BY <1>2, <4>1 DEF IInv, LinesFit
      <4>3. ~Leaps(o)
        BY <3>2, <4>1 DEF Leaps, ScrolledOff
      <4>4. Top(mirror) <= Top(o.to)
        <5>1. mirror \in Nat /\ mirror <= m.to
          BY <1>1, <1>2, <2>3, Numbers DEF ServerFits, Applies
        <5> QED
          BY <3>1, <3>2, <5>1, TopIs
      <4> QED
        BY <3>1, <3>2, <4>1, <4>2, <4>3, <4>4 DEF SkipFits
    <3>7. /\ output' \in Seq(Output) /\ QueueFits(terminal.screen, output')
          /\ Before(terminal.screen, output', Len(output') + 1) = o.to
          /\ ~leapt' => SkipsFit(terminal.screen, output')
      <4>1. ~leapt' => ~leapt
        BY <1>4
      <4> QED
        BY <2>1, <3>1, <3>2, <3>3, <3>4, <3>5, <3>6, <4>1, Queued DEF OutputFits
    <3> QED
      BY <2>1, <3>2, <3>5, <3>7 DEF OutputFits
  <2> QED
    BY <2>2, <2>3
<1>18. AckedHeld'
  <2> SUFFICES ASSUME ~cut, NEW num \in acks \cup {Oldest, newest}
               PROVE  Reached(known', num) /\ num <= newest
    BY <1>3, <1>10, <1>11 DEF AckedHeld
  <2>1. \A n \in acks \cup {Oldest} : n \in Nat /\ Oldest <= n /\ Reached(known, n) /\ n <= latest
    BY <1>2, Numbers DEF IInv, AckedHeld, ServerFits
  <2>2. Oldest \in Nat
    BY <1>2, Numbers
  <2>3. num \in Nat /\ Oldest <= num /\ num <= newest /\ Reached(more, num)
    BY <1>7, <1>8, <2>1, <2>2
  <2>4. m.throwaway <= num
    BY <1>1, <1>7, <2>2, <2>3
  <2> QED
    BY <1>9, <2>3, <2>4
<1>19. LinesFit'
  <2> SUFFICES ASSUME ~leapt'
               PROVE  LinesFit'
    BY DEF LinesFit
  <2>1. ~leapt /\ (Applies(m) => ~Leaps(m))
    BY <1>4
  <2>2. shownScroll = Top(truth[latest])
    BY <1>2, <2>1 DEF IInv, LinesFit
  <2>3. shownScroll' = Top(truth[newest])
    <3>1. CASE ~Applies(m)
      BY <1>4, <1>6, <2>2, <3>1
    <3>2. CASE Applies(m)
      <4>1. newest = m.new /\ truth[latest] \in Nat /\ truth[m.new] \in Nat /\ truth[latest] <= truth[m.new]
        BY <1>1, <1>2, <1>7, <3>2, Numbers DEF ServerFits, newest
      <4>2. Top(truth[latest]) \in Nat /\ Top(truth[m.new]) \in Nat /\ Top(truth[latest]) <= Top(truth[m.new])
        BY <4>1, TopIs
      <4>3. NewState(m).scroll = Top(truth[m.new])
        BY <1>1, <1>5, <2>1, <3>2
      <4> QED
        BY <1>4, <2>2, <3>2, <4>1, <4>2, <4>3
    <3> QED
      BY <3>1, <3>2
  <2>4. /\ Rising(terminal.scrollback) /\ UpTo(terminal.scrollback, Top(terminal.screen))
    BY <2>1 DEF IInv, LinesFit
  <2> QED
    BY <1>3, <1>4, <1>9, <1>10, <1>17, <2>3, <2>4 DEF LinesFit
<1> QED
  BY <1>12, <1>13, <1>16, <1>17, <1>18, <1>19 DEF IInv

\* The app acknowledges its newest state, which is in the journal.
LEMMA AcknowledgeStep ==
  ASSUME IInv, Acknowledge
  PROVE  IInv'
<1>1. /\ ServerFits /\ latest = disk.latest /\ latest \in DOMAIN truth
  BY DEF IInv, ClientFits, Acknowledge
<1>2. /\ acks' = {num \in acks \cup {latest} : num > Oldest}
      /\ finished' = (latest = Shutdown)
      /\ UNCHANGED <<up, known, latest, shownScroll, mirror, output, disk, terminal,
                     stops, cut, leapt, truth, held, toClient>>
  BY DEF Acknowledge, history, server
<1>3. Oldest' = Oldest
  BY <1>2 DEF Oldest
<1>4. ServerFits'
  <2>1. Oldest \in Nat /\ acks' \subseteq DOMAIN truth /\ \A n \in DOMAIN truth : n \in Nat
    BY <1>1, <1>2, Numbers
  <2>2. \A num \in acks' : Oldest <= num
    BY <1>2, <2>1
  <2> QED
    BY <1>1, <1>2, <1>3, <2>1, <2>2 DEF ServerFits
<1>5. \A p \in toClient' : PacketFits(p)'
  BY <1>2, <1>3 DEF IInv, PacketFits
<1>6. ClientFits'
  BY <1>2 DEF IInv, ClientFits
<1>7. OutputFits' /\ LinesFit'
  BY <1>2 DEF IInv, OutputFits, LinesFit
<1>8. AckedHeld'
  BY <1>1, <1>2, <1>3 DEF IInv, AckedHeld
<1> QED
  BY <1>4, <1>5, <1>6, <1>7, <1>8 DEF IInv

\* What is left of a sequence when the first of it are skipped.
LEMMA Rest ==
  ASSUME NEW off \in Seq(Nat), NEW skip \in Nat
  PROVE  LET new == SubSeq(off, skip + 1, Len(off))
         IN  /\ new \in Seq(Nat) /\ Len(new) \in Nat
             /\ \A i \in 1 .. Len(new) : skip + i \in 1 .. Len(off) /\ new[i] = off[skip + i]
<1> DEFINE new == SubSeq(off, skip + 1, Len(off))
<1>1. /\ skip + 1 \in Int /\ Len(off) \in Int /\ Len(off) \in Nat
      /\ \A i \in skip + 1 .. Len(off) : off[i] \in Nat
  OBVIOUS
<1>2. /\ new \in Seq(Nat)
      /\ Len(new) = IF skip + 1 <= Len(off) THEN Len(off) - (skip + 1) + 1 ELSE 0
      /\ \A i \in 1 .. Len(off) - (skip + 1) + 1 : new[i] = off[(skip + 1) + i - 1]
  BY <1>1, SubSeqProperties
<1> HIDE DEF new
<1>3. Len(new) \in Nat
  BY <1>2
<1>4. ASSUME NEW i \in 1 .. Len(new)
      PROVE  skip + i \in 1 .. Len(off) /\ new[i] = off[skip + i]
  <2>1. skip + 1 <= Len(off) /\ Len(new) = Len(off) - skip
    BY <1>1, <1>2
  <2>2. i \in 1 .. Len(off) - (skip + 1) + 1 /\ (skip + 1) + i - 1 = skip + i
    BY <1>1, <2>1
  <2> QED
    BY <1>1, <1>2, <2>1, <2>2
<1> QED
  BY <1>2, <1>3, <1>4 DEF new

\* Lines that follow one another, from at most the next one on, go on in order.
LEMMA GoOn ==
  ASSUME NEW lines \in Seq(Nat), NEW off \in Seq(Nat), NEW skip \in Nat,
         NEW base \in Nat, NEW old \in Nat, NEW top \in Nat,
         Rising(lines), UpTo(lines, old), old <= top, old <= skip + base,
         \A i \in 1 .. Len(off) : off[i] = base + i,
         base + Len(off) <= top
  PROVE  LET more == lines \o SubSeq(off, skip + 1, Len(off))
         IN  Rising(more) /\ UpTo(more, top)
<1> DEFINE new == SubSeq(off, skip + 1, Len(off))
           more == lines \o new
<1>1. /\ new \in Seq(Nat) /\ Len(new) \in Nat
      /\ \A i \in 1 .. Len(new) : skip + i \in 1 .. Len(off) /\ new[i] = off[skip + i]
  BY Rest
<1> HIDE DEF new
<1>2. /\ Len(lines) \in Nat /\ Len(more) = Len(lines) + Len(new)
      /\ \A i \in 1 .. Len(lines) : more[i] = lines[i]
      /\ \A i \in Len(lines) + 1 .. Len(lines) + Len(new) : more[i] = new[i - Len(lines)]
  BY <1>1, SMTT(60)
<1> HIDE DEF more
<1>3. \A i \in 1 .. Len(lines) : more[i] \in Nat /\ more[i] <= old
  <2>1. \A i \in 1 .. Len(lines) : lines[i] \in Nat
    OBVIOUS
  <2> QED
    BY <1>2, <2>1 DEF UpTo
<1>4. ASSUME NEW i \in Len(lines) + 1 .. Len(lines) + Len(new)
      PROVE  /\ more[i] = base + skip + (i - Len(lines))
             /\ old < more[i] /\ more[i] <= top
  <2> DEFINE k == i - Len(lines)
  <2>1. k \in 1 .. Len(new) /\ more[i] = new[k]
    BY <1>1, <1>2
  <2>2. skip + k \in 1 .. Len(off) /\ more[i] = off[skip + k]
    BY <1>1, <2>1
  <2>3. more[i] = base + (skip + k) /\ k \in Nat /\ 1 <= k /\ skip + k <= Len(off) /\ Len(off) \in Nat
    BY <1>1, <2>1, <2>2, SMTT(60)
  <2> HIDE DEF k
  <2>4. more[i] = base + skip + k /\ old < more[i] /\ more[i] <= top
    BY <2>3
  <2> QED
    BY <2>4 DEF k
<1>5. \A i \in 1 .. Len(more) :
        i \in Nat /\ (i \in 1 .. Len(lines) \/ i \in Len(lines) + 1 .. Len(lines) + Len(new))
  BY <1>1, <1>2
<1>6. UpTo(more, top)
  <2> SUFFICES ASSUME NEW i \in 1 .. Len(more)
               PROVE  more[i] <= top
    BY DEF UpTo
  <2>1. CASE i \in 1 .. Len(lines)
    BY <1>3, <2>1
  <2>2. CASE i \in Len(lines) + 1 .. Len(lines) + Len(new)
    BY <1>4, <2>2
  <2> QED
    BY <1>5, <2>1, <2>2
<1>7. Rising(more)
  <2> SUFFICES ASSUME NEW i \in 1 .. Len(more), NEW j \in 1 .. Len(more), i < j
               PROVE  more[i] < more[j]
    BY DEF Rising
  <2>1. CASE j \in 1 .. Len(lines)
    <3>1. i \in 1 .. Len(lines)
      BY <1>2, <1>5, <2>1
    <3> QED
      BY <1>2, <2>1, <3>1 DEF Rising
  <2>2. CASE i \in 1 .. Len(lines) /\ j \in Len(lines) + 1 .. Len(lines) + Len(new)
    <3>1. more[i] \in Nat /\ more[i] <= old /\ old < more[j] /\ more[j] = base + skip + (j - Len(lines))
      BY <1>3, <1>4, <2>2
    <3>2. more[j] \in Int
      BY <1>2, <1>5, <3>1
    <3> QED
      BY <3>1, <3>2
  <2>3. CASE i \in Len(lines) + 1 .. Len(lines) + Len(new) /\ j \in Len(lines) + 1 .. Len(lines) + Len(new)
    <3>1. /\ more[i] = base + skip + (i - Len(lines))
          /\ more[j] = base + skip + (j - Len(lines))
      BY <1>4, <2>3
    <3> QED
      BY <1>2, <1>5, <3>1
  <2>4. i \in Len(lines) + 1 .. Len(lines) + Len(new) => j \in Len(lines) + 1 .. Len(lines) + Len(new)
    BY <1>1, <1>2, <1>5
  <2> QED
    BY <1>5, <2>1, <2>2, <2>3, <2>4
<1> QED
  BY <1>6, <1>7 DEF more, new

\* The user's thread shows the first change on its way.
LEMMA ShowStep ==
  ASSUME IInv, Show
  PROVE  IInv'
<1> DEFINE o == output[1]
           start == IF o.replace THEN o.screen ELSE terminal.screen
           off == ScrolledOff(start, o)
           new == SubSeq(off, o.skip + 1, Len(off))
           lines == terminal.scrollback
           more == lines \o new
<1>1. output # <<>> /\ Head(output) = o
  BY DEF Show
<1>2. /\ terminal' = [screen |-> Draw(start, o), scrollback |-> more]
      /\ output' = Tail(output)
      /\ UNCHANGED <<up, known, latest, shownScroll, mirror, finished, disk,
                     stops, cut, leapt, truth, held, toClient, acks>>
  BY <1>1 DEF Show, history, server
<1>3. /\ output \in Seq(Output) /\ QueueFits(terminal.screen, output)
      /\ terminal.screen \in Nat /\ lines \in Seq(Nat)
      /\ up => mirror = Before(terminal.screen, output, Len(output) + 1)
  BY DEF IInv, OutputFits
<1>4. /\ Tail(output) \in Seq(Output) /\ o \in Output /\ QueueFits(o.to, Tail(output))
      /\ Before(o.to, Tail(output), Len(Tail(output)) + 1)
           = Before(terminal.screen, output, Len(output) + 1)
      /\ SkipsFit(terminal.screen, output) => SkipsFit(o.to, Tail(output)) /\ SkipFits(terminal.screen, o)
  BY <1>1, <1>3, Unqueued
<1>5. /\ o.from \in Nat /\ o.to \in Nat /\ o.skip \in Nat
      /\ o.from <= o.to
      /\ o.replace => o.screen = o.from
      /\ ~o.replace => terminal.screen = o.from
  BY <1>1, <1>3, <1>4, Unqueued DEF Output, Screen
<1>6. start = o.from
  BY <1>5
<1>7. /\ off \in Seq(Nat) /\ Len(off) \in Nat
      /\ Len(off) = IF Top(o.to) < o.from THEN Top(o.to) - Top(o.from) ELSE 0
      /\ \A i \in 1 .. Len(off) : off[i] = Top(o.from) + i
  BY <1>5, <1>6, ScrolledOffIs
<1> HIDE DEF off, start, o, lines
<1>8. new \in Seq(Nat)
  BY <1>5, <1>7, Rest
<1> HIDE DEF new
<1>9. more \in Seq(Nat)
  BY <1>3, <1>8
<1>10. terminal'.screen = o.to /\ terminal'.scrollback = more
  BY <1>2, <1>6 DEF Draw
<1>11. OutputFits'
  BY <1>2, <1>3, <1>4, <1>5, <1>9, <1>10 DEF OutputFits
<1>12. up
  BY <1>1 DEF IInv, ClientFits
<1>13. ClientFits'
  BY <1>2, <1>12 DEF IInv, ClientFits
<1>14. Oldest' = Oldest
  BY <1>2 DEF Oldest
<1>15. ServerFits' /\ AckedHeld' /\ \A p \in toClient' : PacketFits(p)'
  BY <1>2, <1>14 DEF IInv, ServerFits, AckedHeld, PacketFits
<1>16. LinesFit'
  <2> SUFFICES ASSUME ~leapt
               PROVE  SkipsFit(o.to, Tail(output)) /\ Rising(more) /\ UpTo(more, Top(o.to))
    BY <1>2, <1>10 DEF IInv, LinesFit
  <2>1. /\ SkipsFit(terminal.screen, output) /\ Rising(lines) /\ UpTo(lines, Top(terminal.screen))
    BY DEF IInv, LinesFit, lines
  <2>2. /\ SkipsFit(o.to, Tail(output))
        /\ Top(terminal.screen) <= o.skip + Top(o.from) /\ Top(terminal.screen) <= Top(o.to)
    BY <1>4, <2>1 DEF SkipFits
  <2>3. Top(o.from) \in Nat /\ Top(o.to) \in Nat /\ Top(o.from) <= Top(o.to)
    BY <1>5, TopIs
  <2>4. Top(terminal.screen) \in Nat
    BY <1>3, TopIs
  <2>5. Top(o.from) + Len(off) <= Top(o.to)
    BY <1>7, <2>3
  <2>6. Rising(more) /\ UpTo(more, Top(o.to))
    BY <1>3, <1>5, <1>7, <2>1, <2>2, <2>3, <2>4, <2>5, GoOn DEF lines, new
  <2> QED
    BY <2>2, <2>6
<1> QED
  BY <1>11, <1>13, <1>15, <1>16 DEF IInv

\* The app ends, with its memory and its terminal, and leaves a journal.
LEMMA ForgetStep ==
  ASSUME IInv, Forget, Fits(disk'.states, truth), disk'.latest \in DOMAIN truth,
         cut' \in BOOLEAN, leapt' \in BOOLEAN, ~leapt' => Scrolled(disk'.states),
         ~cut' => \A num \in acks \cup {Oldest, disk'.latest} :
                    Reached(disk'.states, num) /\ num <= disk'.latest
  PROVE  IInv'
<1>1. /\ up' = FALSE /\ known' = <<>> /\ latest' = 0 /\ shownScroll' = 0 /\ mirror' = 0 /\ output' = <<>>
      /\ terminal'.screen = 0 /\ terminal'.scrollback = <<>> /\ stops' = stops + 1
      /\ UNCHANGED <<finished, truth, held, toClient, acks>>
  BY DEF Forget, server
<1>2. Oldest' = Oldest
  BY <1>1 DEF Oldest
<1>3. ServerFits' /\ \A p \in toClient' : PacketFits(p)'
  BY <1>1, <1>2 DEF IInv, ServerFits, PacketFits
<1>4. DOMAIN known' = {}
  <2>1. DOMAIN <<>> = {}
    OBVIOUS
  <2> QED
    BY <1>1, <2>1
<1>5. ClientFits'
  <2>1. Fits(known', truth') /\ Fits(disk'.states, truth')
    BY <1>1, <1>4 DEF Fits
  <2>2. disk'.latest \in DOMAIN truth' /\ finished' \in BOOLEAN /\ stops' \in Nat
    BY <1>1 DEF IInv, ClientFits
  <2> QED
    BY <1>1, <2>1, <2>2 DEF ClientFits
<1>6. output' \in Seq(Output) /\ Len(output') = 0 /\ terminal'.scrollback \in Seq(Nat)
      /\ Len(terminal'.scrollback) = 0
  BY <1>1
<1>7. OutputFits'
  BY <1>1, <1>6 DEF OutputFits, QueueFits
<1>8. AckedHeld'
  BY <1>1, <1>2 DEF AckedHeld
<1>9. LinesFit'
  BY <1>1, <1>4, <1>6 DEF LinesFit, Scrolled, SkipsFit, Rising, UpTo
<1> QED
  BY <1>3, <1>5, <1>7, <1>8, <1>9 DEF IInv

LEMMA StopStep ==
  ASSUME IInv, Stop
  PROVE  IInv'
<1>1. Forget /\ disk' = disk /\ cut' = cut /\ leapt' = leapt
  BY DEF Stop
<1>2. /\ Fits(disk.states, truth) /\ disk.latest \in DOMAIN truth
      /\ cut \in BOOLEAN /\ leapt \in BOOLEAN /\ (~leapt => Scrolled(disk.states))
      /\ ~cut => \A num \in acks \cup {Oldest, disk.latest} :
                   Reached(disk.states, num) /\ num <= disk.latest
  BY DEF IInv, ClientFits, AckedHeld, LinesFit
<1> QED
  BY <1>1, <1>2, ForgetStep

\* The S record of a state is written, and the L record is not.
LEMMA StopInReceiveStep ==
  ASSUME IInv, NEW m \in toClient, StopInReceive(m)
  PROVE  IInv'
<1> DEFINE more == With(known, m.new, NewState(m))
<1>1. /\ Forget /\ Applies(m) /\ up /\ disk' = [disk EXCEPT !.states = With(@, m.new, NewState(m))]
      /\ leapt' = (leapt \/ Leaps(m)) /\ cut' = cut
  BY DEF StopInReceive, CanStop
<1>2. known = disk.states /\ disk.latest \in DOMAIN truth /\ cut \in BOOLEAN /\ leapt \in BOOLEAN
  BY <1>1 DEF IInv, ClientFits
<1>3. /\ Fits(more, truth) /\ \A n \in Nat : Reached(known, n) => Reached(more, n)
      /\ ~leapt /\ ~Leaps(m) => Scrolled(more)
  BY <1>1, Applied
<1>4. \A num \in acks \cup {Oldest, disk.latest} : num \in Nat
  BY <1>2, Numbers DEF IInv
<1>5. ~cut => \A num \in acks \cup {Oldest, disk.latest} : Reached(more, num) /\ num <= disk.latest
  BY <1>2, <1>3, <1>4 DEF IInv, AckedHeld
<1>6. disk'.latest = disk.latest /\ (disk'.states = more \/ disk'.states = disk.states)
  BY <1>1, <1>2
<1>7. /\ Fits(disk.states, truth) /\ (~leapt => Scrolled(disk.states))
      /\ ~cut => \A num \in acks \cup {Oldest, disk.latest} :
                   Reached(disk.states, num) /\ num <= disk.latest
  BY DEF IInv, ClientFits, AckedHeld, LinesFit
<1> HIDE DEF more
<1>8. /\ Fits(disk'.states, truth) /\ (~leapt' => Scrolled(disk'.states)) /\ leapt' \in BOOLEAN
      /\ ~cut' => \A num \in acks \cup {Oldest, disk'.latest} :
                    Reached(disk'.states, num) /\ num <= disk'.latest
  BY <1>1, <1>2, <1>3, <1>5, <1>6, <1>7
<1> QED
  BY <1>1, <1>2, <1>6, <1>8, ForgetStep

\* Of a journal that is cut some states are left.
LEMMA StopInRewriteStep ==
  ASSUME IInv, StopInRewrite
  PROVE  IInv'
<1>1. Forget /\ cut' = TRUE /\ leapt' = leapt
  BY DEF StopInRewrite
<1>2. PICK num \in {0} \cup {n + 1 : n \in DOMAIN known} :
        disk' = [states |-> Restrict(known, {n \in DOMAIN known : n < num}), latest |-> 0]
  BY DEF StopInRewrite
<1> DEFINE part == Restrict(known, {n \in DOMAIN known : n < num})
<1>3. DOMAIN part \subseteq DOMAIN known /\ \A n \in DOMAIN part : part[n] = known[n]
  BY DEF Restrict
<1>4. disk'.states = part /\ disk'.latest = 0
  BY <1>2
<1> HIDE DEF part
<1>5. Fits(part, truth) /\ (~leapt => Scrolled(part)) /\ leapt \in BOOLEAN
  BY <1>3 DEF IInv, ClientFits, LinesFit, Fits, Scrolled
<1>6. 0 \in DOMAIN truth
  BY DEF IInv, ServerFits
<1> QED
  BY <1>1, <1>4, <1>5, <1>6, ForgetStep

\* The app starts from the journal, and the terminal from the newest state.
LEMMA ResumeStep ==
  ASSUME IInv, Resume
  PROVE  IInv'
<1> DEFINE num == disk.latest
           o == [replace |-> TRUE, screen |-> mirror', from |-> mirror', to |-> mirror', skip |-> 0]
<1>1. /\ ~up /\ Resumable(disk)
      /\ up' = TRUE /\ known' = disk.states /\ latest' = num
      /\ shownScroll' = disk.states[num].scroll
      /\ mirror' = ScreenAt(disk.states, num)
      /\ output' = <<o>>
      /\ UNCHANGED <<finished, disk, terminal, stops, cut, leapt, truth, held, toClient, acks>>
  BY DEF Resume, history, server
<1>2. /\ ServerFits /\ Fits(disk.states, truth) /\ num \in DOMAIN truth
      /\ output = <<>> /\ terminal.screen = 0 /\ terminal.scrollback = <<>>
  BY <1>1 DEF IInv, ClientFits
<1>3. num \in Nat /\ truth[num] \in Nat
  BY <1>2, Numbers
<1>4. Reached(disk.states, num)
  BY <1>1 DEF Resumable
<1>5. num \in DOMAIN disk.states /\ mirror' = truth[num]
  BY <1>1, <1>2, <1>3, <1>4, ScreenIs
<1>6. shownScroll' \in Nat
  BY <1>1, <1>2, <1>5, FitsTree
<1>7. Oldest' = Oldest
  BY <1>1 DEF Oldest
<1>8. ServerFits' /\ (\A p \in toClient' : PacketFits(p)') /\ AckedHeld'
  BY <1>1, <1>7 DEF IInv, ServerFits, PacketFits, AckedHeld
<1>9. ClientFits'
  BY <1>1, <1>2, <1>3, <1>5, <1>6 DEF IInv, ClientFits
<1>10. o \in Output /\ o.replace = TRUE /\ o.screen = truth[num] /\ o.from = truth[num]
       /\ o.to = truth[num] /\ o.skip = 0
  BY <1>3, <1>5 DEF Output, Screen
<1> HIDE DEF o
<1>11. output' \in Seq(Output) /\ Len(output') = 1 /\ output'[1] = o
  BY <1>1, <1>10
<1>12. OutputFits'
  BY <1>1, <1>3, <1>5, <1>10, <1>11 DEF IInv, OutputFits, QueueFits, Before
<1>13. LinesFit'
  <2> SUFFICES ASSUME ~leapt
               PROVE  LinesFit'
    BY <1>1 DEF LinesFit
  <2>1. Scrolled(disk.states)
    BY DEF IInv, LinesFit
  <2>2. shownScroll' = Top(truth[num])
    BY <1>1, <1>2, <1>5, <2>1, FitsTree DEF Scrolled
  <2>3. SkipFits(terminal.screen, o)
    <3>1. Top(0) = 0 /\ Top(truth[num]) \in Nat
      BY <1>3, TopIs, ReceiverAssumption DEF Top
    <3>2. o.from \in Nat /\ o.to \in Nat /\ o.from <= o.to
      BY <1>3, <1>10
    <3>3. ~Leaps(o)
      <4>1. Len(ScrolledOff(o.from, o)) \in Nat
        BY <3>2, ScrolledOffIs
      <4> QED
        BY <1>10, <3>1, <4>1 DEF Leaps
    <3> QED
      BY <1>2, <1>10, <3>1, <3>3 DEF SkipFits
  <2>4. SkipsFit(terminal.screen, output')
    BY <1>11, <2>3 DEF SkipsFit, Before
  <2>5. Rising(terminal.scrollback) /\ UpTo(terminal.scrollback, Top(terminal.screen))
    BY DEF IInv, LinesFit
  <2> QED
    BY <1>1, <2>1, <2>2, <2>4, <2>5 DEF LinesFit
<1> QED
  BY <1>8, <1>9, <1>12, <1>13 DEF IInv

\* More of the server's states leave those fitting that did.
LEMMA FitsMore ==
  ASSUME NEW ss, NEW t, NEW u, Fits(ss, t), DOMAIN t \subseteq DOMAIN u,
         \A n \in DOMAIN t : u[n] = t[n]
  PROVE  Fits(ss, u)
<1> SUFFICES ASSUME NEW n \in DOMAIN ss
             PROVE  /\ n \in DOMAIN u
                    /\ ss[n] \in ReceivedState
                    /\ ss[n].to = u[n]
                    /\ ss[n].parent # NoParent =>
                         /\ ss[n].parent \in DOMAIN u
                         /\ ss[n].parent < n
                         /\ ss[n].from = u[ss[n].parent]
  BY DEF Fits
<1> QED
  BY DEF Fits

\* The server sends its newest state again, or a new one.
LEMMA ServerSendStep ==
  ASSUME IInv, NEW assumed \in held, NEW num \in {Newest, Newest + 1, Shutdown},
         ServerSend(assumed, num)
  PROVE  IInv'
<1> DEFINE m == [old |-> assumed, new |-> num, from |-> truth[assumed], to |-> truth'[num],
                 throwaway |-> Oldest]
<1>1. /\ num = Newest => assumed # Newest
      /\ num = Newest + 1 => num <= MaxNum
      /\ truth' = IF num = Newest THEN truth ELSE With(truth, num, truth[Newest] + Printed)
      /\ held' = held \cup {num}
      /\ \A p \in toClient' : p \in toClient \/ p = m
      /\ UNCHANGED <<up, known, latest, shownScroll, mirror, output, finished, disk, terminal,
                     stops, cut, leapt, acks>>
  BY DEF ServerSend, Send, client, history
<1> HIDE DEF m
<1>2. ServerFits
  BY DEF IInv
<1>3. Newest \in DOMAIN truth /\ \A k \in DOMAIN truth : k <= Newest
  BY <1>2, NewestIs
<1>4. \A n \in DOMAIN truth : n \in Nat /\ n # NoParent /\ n <= Shutdown /\ truth[n] \in Nat
  BY <1>2, Numbers
<1>5. /\ num \in Nat /\ num \in (0 .. MaxNum) \cup {Shutdown}
      /\ Newest \in Nat /\ Newest <= num
      /\ num # Newest => Newest < num /\ num \notin DOMAIN truth
  <2>1. num \in Nat /\ num \in (0 .. MaxNum) \cup {Shutdown}
    BY <1>1, <1>2, <1>3, <1>4, ReceiverAssumption DEF ServerFits
  <2>2. Newest \in Nat /\ Newest <= num
    BY <1>3, <1>4, ReceiverAssumption
  <2>3. ASSUME num # Newest
        PROVE  Newest < num /\ num \notin DOMAIN truth
    <3>1. Newest < num
      BY <2>1, <2>2, <2>3
    <3>2. ASSUME num \in DOMAIN truth
          PROVE  FALSE
      <4>1. num <= Newest
        BY <1>3, <3>2
      <4> QED
        BY <2>1, <2>2, <3>1, <4>1
    <3> QED
      BY <3>1, <3>2
  <2> QED
    BY <2>1, <2>2, <2>3
<1>6. Printed \in Nat
  BY ReceiverAssumption DEF Printed
<1>7. /\ DOMAIN truth' = DOMAIN truth \cup {num}
      /\ \A k \in DOMAIN truth : truth'[k] = truth[k]
      /\ truth'[num] \in Nat /\ truth[Newest] <= truth'[num]
  <2>1. CASE num = Newest
    BY <1>1, <1>3, <1>4, <2>1
  <2>2. CASE num # Newest
    <3>1. truth' = With(truth, num, truth[Newest] + Printed)
      BY <1>1, <2>2
    <3>2. num \notin DOMAIN truth
      BY <1>5, <2>2
    <3>3. /\ DOMAIN truth' = DOMAIN truth \cup {num}
          /\ \A k \in DOMAIN truth : truth'[k] = truth[k]
          /\ truth'[num] = truth[Newest] + Printed
      <4>1. truth' = [n \in DOMAIN truth \cup {num} |->
                        IF n = num THEN truth[Newest] + Printed ELSE truth[n]]
        BY <3>1 DEF With
      <4> QED
        BY <3>2, <4>1
    <3> QED
      BY <1>3, <1>4, <1>6, <3>3
  <2> QED
    BY <2>1, <2>2
<1>8. \A k \in DOMAIN truth : k <= num /\ truth[k] <= truth'[num]
  <2> SUFFICES ASSUME NEW k \in DOMAIN truth
               PROVE  k <= num /\ truth[k] <= truth'[num]
    OBVIOUS
  <2>1. k <= Newest /\ k \in Nat
    BY <1>3, <1>4
  <2>2. truth[k] <= truth[Newest]
    BY <1>2, <1>3, <2>1 DEF ServerFits
  <2> QED
    BY <1>3, <1>4, <1>5, <1>7, <2>1, <2>2
<1>9. Oldest' = Oldest /\ Oldest \in Nat
  <2>1. /\ held \subseteq Nat /\ held # {} /\ held \subseteq DOMAIN truth
        /\ Oldest \in held /\ Oldest \in Nat /\ \A k \in held : Oldest <= k
    BY <1>2, Numbers
  <2>2. held' \subseteq Nat /\ held' # {} /\ Oldest \in held' /\ \A k \in held' : Oldest <= k
    BY <1>1, <1>5, <1>8, <2>1
  <2>3. Oldest' \in held' /\ \A k \in held' : Oldest' <= k
    BY <2>2, Least DEF Oldest
  <2>4. Oldest' \in Nat /\ Oldest' <= Oldest /\ Oldest <= Oldest'
    BY <2>2, <2>3
  <2> QED
    BY <2>1, <2>4
<1>10. ServerFits'
  <2>1. DOMAIN truth' \subseteq (0 .. MaxNum) \cup {Shutdown} /\ 0 \in DOMAIN truth'
    BY <1>2, <1>5, <1>7 DEF ServerFits
  <2>2. \A n \in DOMAIN truth' : truth'[n] \in Nat
    BY <1>4, <1>7
  <2>3. ASSUME NEW k \in DOMAIN truth', NEW n \in DOMAIN truth', k <= n
        PROVE  truth'[k] <= truth'[n]
    <3>1. CASE k \in DOMAIN truth /\ n \in DOMAIN truth
      BY <1>2, <1>7, <2>3, <3>1 DEF ServerFits
    <3>2. CASE n = num
      <4>1. CASE k = num
        BY <1>7, <3>2, <4>1
      <4>2. CASE k \in DOMAIN truth
        BY <1>7, <1>8, <3>2, <4>2
      <4> QED
        BY <1>7, <4>1, <4>2
    <3>3. CASE k = num /\ n \in DOMAIN truth
      <4>1. n = num
        BY <1>4, <1>5, <1>8, <2>3, <3>3
      <4> QED
        BY <1>7, <3>3, <4>1
    <3> QED
      BY <1>7, <3>1, <3>2, <3>3
  <2>4. held' # {} /\ held' \subseteq DOMAIN truth'
    BY <1>1, <1>2, <1>7 DEF ServerFits
  <2>5. acks' \subseteq DOMAIN truth' /\ \A n \in acks' : Oldest' <= n
    BY <1>1, <1>2, <1>7, <1>9 DEF ServerFits
  <2> QED
    BY <2>1, <2>2, <2>3, <2>4, <2>5 DEF ServerFits
<1>11. ASSUME NEW p \in toClient'
       PROVE  PacketFits(p)'
  <2>1. CASE p \in toClient
    BY <1>7, <1>9, <2>1 DEF IInv, PacketFits
  <2>2. CASE p = m
    <3>1. assumed \in DOMAIN truth /\ assumed \in Nat /\ truth[assumed] \in Nat
      BY <1>2, <1>4 DEF ServerFits
    <3>2. assumed < num
      <4>1. assumed <= Newest /\ Newest \in Nat
        BY <1>3, <1>5, <3>1
      <4>2. CASE num = Newest
        BY <1>1, <3>1, <4>1, <4>2
      <4>3. CASE num # Newest
        <5>1. Newest < num /\ num \in Nat
          BY <1>5, <4>3
        <5> QED
          BY <3>1, <4>1, <5>1
      <4> QED
        BY <4>2, <4>3
    <3>3. /\ m \in Packet /\ m.old = assumed /\ m.new = num /\ m.from = truth[assumed]
          /\ m.to = truth'[num] /\ m.throwaway = Oldest
      BY <1>5, <1>7, <1>9, <3>1 DEF m, Packet, Screen
    <3> QED
      BY <1>7, <1>9, <2>2, <3>1, <3>2, <3>3 DEF PacketFits
  <2> QED
    BY <1>1, <2>1, <2>2
<1>12. ClientFits'
  <2>1. Fits(known, truth') /\ Fits(disk.states, truth')
    BY <1>7, FitsMore DEF IInv, ClientFits
  <2>2. disk.latest \in DOMAIN truth' /\ (up => truth'[latest] = truth[latest])
    BY <1>7 DEF IInv, ClientFits
  <2> QED
    BY <1>1, <2>1, <2>2 DEF IInv, ClientFits
<1>13. OutputFits'
  BY <1>1 DEF IInv, OutputFits
<1>14. AckedHeld'
  BY <1>1, <1>9 DEF IInv, AckedHeld
<1>15. LinesFit'
  <2>1. up => truth'[latest] = truth[latest]
    BY <1>7 DEF IInv, ClientFits
  <2> QED
    BY <1>1, <2>1 DEF IInv, LinesFit
<1> QED
  BY <1>10, <1>11, <1>12, <1>13, <1>14, <1>15 DEF IInv

\* The server hears of a state the app has, and forgets those before it.
LEMMA ServerHearStep ==
  ASSUME IInv, NEW num \in acks, ServerHear(num)
  PROVE  IInv'
<1>1. /\ num \in held /\ Oldest < num
      /\ held' = {n \in held : n >= num} /\ acks' = {n \in acks : n > num}
      /\ UNCHANGED <<up, known, latest, shownScroll, mirror, output, finished, disk, terminal,
                     stops, cut, leapt, truth, toClient>>
  BY DEF ServerHear, client, history
<1>2. ServerFits /\ held \subseteq Nat /\ Oldest \in Nat /\ num \in Nat
  BY <1>1, Numbers DEF IInv
<1>3. Oldest' = num
  <2>1. ASSUME NEW k \in held'
        PROVE  k \in Nat /\ num <= k
    <3>1. k \in held /\ k >= num
      BY <1>1
    <3>2. k \in Nat
      BY <1>2, <3>1
    <3> QED
      BY <1>2, <3>1, <3>2
  <2>2. num \in held'
    <3>1. num >= num
      BY <1>2
    <3> QED
      BY <1>1, <3>1
  <2>3. held' \subseteq Nat /\ \A k \in held' : num <= k
    BY <2>1
  <2>4. Oldest' \in held' /\ \A k \in held' : Oldest' <= k
    BY <2>2, <2>3, Least DEF Oldest
  <2>5. Oldest' \in Nat /\ Oldest' <= num /\ num <= Oldest'
    BY <2>2, <2>3, <2>4
  <2> QED
    BY <1>2, <2>5
<1>4. ServerFits'
  <2>1. held' # {} /\ held' \subseteq DOMAIN truth
    <3>1. num >= num
      BY <1>2
    <3>2. num \in held'
      BY <1>1, <3>1
    <3>3. held' \subseteq held /\ held \subseteq DOMAIN truth
      BY <1>1, <1>2 DEF ServerFits
    <3> QED
      BY <3>2, <3>3
  <2>2. acks' \subseteq DOMAIN truth /\ \A n \in acks' : num <= n
    <3>1. acks \subseteq DOMAIN truth
      BY <1>2 DEF ServerFits
    <3>2. acks' \subseteq acks
      BY <1>1
    <3>3. ASSUME NEW n \in acks'
          PROVE  num <= n
      <4>1. n > num /\ n \in DOMAIN truth
        BY <1>1, <3>1, <3>2
      <4>2. n \in Nat
        BY <1>2, <4>1, Numbers
      <4> QED
        BY <1>2, <4>1, <4>2
    <3> QED
      BY <3>1, <3>2, <3>3
  <2> QED
    BY <1>1, <1>2, <1>3, <2>1, <2>2 DEF ServerFits
<1>5. ASSUME NEW p \in toClient'
      PROVE  PacketFits(p)'
  <2>1. PacketFits(p) /\ p.throwaway \in Nat
    BY <1>1 DEF IInv, PacketFits, Packet
  <2>2. p.throwaway <= num
    BY <1>1, <1>2, <2>1 DEF PacketFits
  <2> QED
    BY <1>1, <1>3, <2>1, <2>2 DEF PacketFits
<1>6. ClientFits' /\ OutputFits' /\ LinesFit'
  BY <1>1 DEF IInv, ClientFits, OutputFits, LinesFit
<1>7. AckedHeld'
  BY <1>1, <1>3 DEF IInv, AckedHeld
<1> QED
  BY <1>4, <1>5, <1>6, <1>7 DEF IInv

LEMMA NextStep ==
  ASSUME IInv, [Next]_vars
  PROVE  IInv'
<1>1. ASSUME NEW m \in toClient, Receive(m) PROVE IInv'
  BY <1>1, ReceiveStep
<1>2. ASSUME NEW m \in toClient, StopInReceive(m) PROVE IInv'
  BY <1>2, StopInReceiveStep
<1>3. CASE Acknowledge
  BY <1>3, AcknowledgeStep
<1>4. CASE Show
  BY <1>4, ShowStep
<1>5. CASE Stop
  BY <1>5, StopStep
<1>6. CASE StopInRewrite
  BY <1>6, StopInRewriteStep
<1>7. CASE Resume
  BY <1>7, ResumeStep
<1>8. ASSUME NEW assumed \in held, NEW num \in {Newest, Newest + 1, Shutdown}, ServerSend(assumed, num)
      PROVE  IInv'
  BY <1>8, ServerSendStep
<1>9. ASSUME NEW num \in acks, ServerHear(num) PROVE IInv'
  BY <1>9, ServerHearStep
<1>10. CASE UNCHANGED vars
  <2>1. UNCHANGED <<up, known, latest, shownScroll, mirror, output, finished, disk, terminal,
                    stops, cut, leapt, truth, held, toClient, acks>>
    BY <1>10 DEF vars, client, history, server
  <2>2. Oldest' = Oldest
    BY <2>1 DEF Oldest
  <2> QED
    BY <2>1, <2>2 DEF IInv, ServerFits, PacketFits, ClientFits, OutputFits, AckedHeld, LinesFit
<1> QED
  BY <1>1, <1>2, <1>3, <1>4, <1>5, <1>6, <1>7, <1>8, <1>9, <1>10 DEF Next

\* IInv is inductive.
THEOREM Invariance == Spec => []IInv
<1>1. Init => IInv
  BY Starts
<1>2. IInv /\ [Next]_vars => IInv'
  BY NextStep
<1> QED
  BY <1>1, <1>2, PTL DEF Spec

-----------------------------------------------------------------------------
(* What follows *)

\* The app's states, the output and the packets are what they are taken for, and
\* the server has every state it counts on (moshclient.h, ReceivedState, Output).
THEOREM TypesHold == Spec => []TypeOK
<1>1. ASSUME IInv
      PROVE  TypeOK
  <2>1. /\ \A n \in DOMAIN truth : n \in Nat /\ truth[n] \in Screen
        /\ held # {} /\ held \subseteq DOMAIN truth /\ acks \subseteq DOMAIN truth
    BY <1>1, Numbers DEF IInv, Screen
  <2>2. States(known) /\ States(disk.states)
    <3>1. ASSUME NEW ss, Fits(ss, truth)
          PROVE  States(ss)
      BY <2>1, <3>1 DEF Fits, States
    <3> QED
      BY <1>1, <3>1 DEF IInv, ClientFits
  <2>3. /\ up \in BOOLEAN /\ finished \in BOOLEAN /\ cut \in BOOLEAN /\ leapt \in BOOLEAN
        /\ latest \in Nat /\ shownScroll \in Nat /\ stops \in Nat /\ mirror \in Screen
        /\ disk.latest \in DOMAIN truth
    BY <1>1 DEF IInv, ClientFits, Screen
  <2>4. /\ terminal.screen \in Screen /\ terminal.scrollback \in Seq(Nat)
        /\ output \in Seq(Output)
    BY <1>1 DEF IInv, OutputFits, Screen
  <2>5. \A m \in toClient : m \in Packet
    BY <1>1 DEF IInv, PacketFits
  <2>6. disk.latest \in Nat /\ DOMAIN truth \subseteq Nat
    BY <2>1, <2>3
  <2> QED
    BY <2>1, <2>2, <2>3, <2>4, <2>5, <2>6 DEF TypeOK
<1> QED
  BY <1>1, Invariance, PTL

\* When each change on its way is made for the screen it will meet, the screen
\* they get the terminal to is the last one's.
LEMMA DrainedIs ==
  ASSUME output \in Seq(Output), QueueFits(terminal.screen, output)
  PROVE  Drained = Before(terminal.screen, output, Len(output) + 1)
<1> DEFINE start == terminal.screen
           Step(f, i) == IF i = 0 THEN start
                         ELSE Draw(IF output[i].replace THEN output[i].screen ELSE f[i - 1], output[i])
           Body(f) == [i \in 0 .. Len(output) |-> Step(f, i)]
           at == [i \in 0 .. Len(output) |-> Before(start, output, i + 1)]
           drained == CHOOSE f : f = Body(f)
<1>1. Len(output) \in Nat
  OBVIOUS
<1>2. ASSUME NEW f, NEW i \in 0 .. Len(output),
             i = 0 \/ f[i - 1] = Before(start, output, i)
      PROVE  Step(f, i) = Before(start, output, i + 1)
  <2>1. CASE i = 0
    BY <2>1 DEF Before
  <2>2. CASE i # 0
    <3>1. i \in 1 .. Len(output) /\ i + 1 # 1 /\ (i + 1) - 1 = i
      BY <1>1, <2>2
    <3>2. Before(start, output, i + 1) = output[i].to
      BY <3>1 DEF Before
    <3>3. (IF output[i].replace THEN output[i].screen ELSE f[i - 1]) = output[i].from
      BY <1>2, <2>2, <3>1 DEF QueueFits
    <3> QED
      BY <2>2, <3>2, <3>3 DEF Draw
  <2> QED
    BY <2>1, <2>2
<1> HIDE DEF Step
<1>3. at = Body(at)
  <2>1. ASSUME NEW i \in 0 .. Len(output)
        PROVE  at[i] = Step(at, i)
    <3>1. at[i] = Before(start, output, i + 1)
      OBVIOUS
    <3>2. i = 0 \/ at[i - 1] = Before(start, output, i)
      <4>1. ASSUME i # 0
            PROVE  i - 1 \in 0 .. Len(output) /\ (i - 1) + 1 = i
        BY <1>1, <4>1
      <4> QED
        BY <4>1
    <3> HIDE DEF at
    <3> QED
      BY <1>2, <3>1, <3>2
  <2>2. at = [i \in 0 .. Len(output) |-> at[i]]
    OBVIOUS
  <2> HIDE DEF at
  <2>3. [i \in 0 .. Len(output) |-> at[i]] = Body(at)
    BY <2>1
  <2> QED
    BY <2>2, <2>3
<1> HIDE DEF at
<1>4. drained = Body(drained)
  <2> HIDE DEF Body
  <2> QED
    BY <1>3
<1>5. Drained = drained[Len(output)]
  BY DEF Drained, drained, Body, Step
<1> HIDE DEF drained
<1>6. \A i \in 0 .. Len(output) : drained[i] = Step(drained, i)
  BY <1>4
<1> DEFINE T == {i \in 0 .. Len(output) : drained[i] # Before(start, output, i + 1)}
<1>7. T = {}
  <2> SUFFICES ASSUME T # {}
               PROVE  FALSE
    OBVIOUS
  <2>1. T \in SUBSET Nat
    BY <1>1
  <2>2. PICK i \in T : \A k \in T : i <= k
    BY <2>1, Least
  <2>3. i \in 0 .. Len(output) /\ drained[i] # Before(start, output, i + 1)
    BY <2>2
  <2>4. i = 0 \/ drained[i - 1] = Before(start, output, i)
    <3> SUFFICES ASSUME i # 0
                 PROVE  drained[i - 1] = Before(start, output, i)
      OBVIOUS
    <3>1. i - 1 \in 0 .. Len(output) /\ (i - 1) + 1 = i /\ ~(i <= i - 1)
      BY <1>1, <2>3
    <3>2. i - 1 \notin T
      BY <2>2, <3>1
    <3> QED
      BY <3>1, <3>2
  <2> QED
    BY <1>2, <1>6, <2>3, <2>4
<1>8. Len(output) \in 0 .. Len(output)
  BY <1>1
<1> QED
  BY <1>5, <1>7, <1>8

\* The terminal gets to the screen the server had at the newest state, and the
\* mirror is at it (moshclient.cpp, applyDiff(), takeOutput(), resume()).
THEOREM TerminalIsTheServers == Spec => []TerminalFollows
<1>1. ASSUME IInv, up
      PROVE  Drained = truth[latest] /\ mirror = truth[latest]
  <2>1. mirror = truth[latest]
    BY <1>1 DEF IInv, ClientFits
  <2>2. mirror = Before(terminal.screen, output, Len(output) + 1)
    BY <1>1 DEF IInv, OutputFits
  <2>3. Drained = Before(terminal.screen, output, Len(output) + 1)
    BY <1>1, DrainedIs DEF IInv, OutputFits
  <2> QED
    BY <2>1, <2>2, <2>3
<1>2. IInv => TerminalFollows
  BY <1>1 DEF TerminalFollows
<1> QED
  BY <1>2, Invariance, PTL

\* The state the server falls back to is one the app can apply changes to, also
\* after a restart (moshclient.cpp, throwAwayUntil(), readJournal()).
THEOREM FrontHeld == Spec => []ServerFrontHeld
<1>1. ASSUME IInv, ~cut
      PROVE  Reached(disk.states, Oldest) /\ (up => Reached(known, Oldest))
  <2>1. Reached(disk.states, Oldest)
    BY <1>1 DEF IInv, AckedHeld
  <2> QED
    BY <1>1, <2>1 DEF IInv, ClientFits
<1>2. IInv => ServerFrontHeld
  BY <1>1 DEF ServerFrontHeld
<1> QED
  BY <1>2, Invariance, PTL

\* A restart finds the newest state in the journal, and it is none before those
\* that were acknowledged (moshclient.cpp, applyDiff(), readJournal()).
THEOREM AcknowledgedSurvives == Spec => []AckedSurvives
<1>1. ASSUME IInv, ~cut
      PROVE  Resumable(disk) /\ \A num \in acks \cup {Oldest} : num <= disk.latest
  BY <1>1 DEF IInv, AckedHeld, Resumable
<1>2. IInv => AckedSurvives
  BY <1>1 DEF AckedSurvives
<1> QED
  BY <1>2, Invariance, PTL

\* The scrollback and the screen below it have each line once and in order, as
\* long as no change left any out (moshclient.cpp, applyDiff(), skipLines).
THEOREM InOrder == Spec => []LinesInOrder
<1> DEFINE screen == terminal.screen
           off == [i \in 1 .. screen - Top(screen) |-> Top(screen) + i]
           shown == terminal.scrollback \o off
<1>1. ASSUME IInv, ~leapt
      PROVE  \A i \in 1 .. Len(shown) - 1 : shown[i] < shown[i + 1]
  <2>1. /\ screen \in Nat /\ terminal.scrollback \in Seq(Nat)
        /\ Rising(terminal.scrollback) /\ UpTo(terminal.scrollback, Top(screen))
    BY <1>1 DEF IInv, OutputFits, LinesFit
  <2>2. Top(screen) \in Nat /\ Top(screen) <= screen
    BY <2>1, TopIs
  <2> DEFINE n == screen - Top(screen)
  <2>3. n \in Nat /\ Top(screen) + n = screen
    BY <2>1, <2>2
  <2>4. off \in Seq(Nat) /\ Len(off) = n /\ \A i \in 1 .. Len(off) : off[i] = Top(screen) + i
    <3> HIDE DEF n
    <3>1. off = [i \in 1 .. n |-> Top(screen) + i]
      BY DEF n
    <3> HIDE DEF off
    <3> QED
      BY <2>2, <2>3, <3>1
  <2> HIDE DEF off, n
  <2>5. SubSeq(off, 0 + 1, Len(off)) = off
    BY <2>4
  <2>6. Rising(terminal.scrollback \o SubSeq(off, 0 + 1, Len(off)))
    <3> DEFINE top == Top(screen)
               lines == terminal.scrollback
    <3>1. /\ lines \in Seq(Nat) /\ off \in Seq(Nat) /\ 0 \in Nat
          /\ top \in Nat /\ screen \in Nat
          /\ Rising(lines) /\ UpTo(lines, top) /\ top <= screen /\ top <= 0 + top
          /\ \A i \in 1 .. Len(off) : off[i] = top + i
          /\ top + Len(off) <= screen
      BY <2>1, <2>2, <2>3, <2>4
    <3> HIDE DEF top, lines
    <3>2. Rising(lines \o SubSeq(off, 0 + 1, Len(off)))
      BY <3>1, GoOn
    <3> QED
      BY <3>2 DEF lines
  <2>7. Rising(shown)
    BY <2>5, <2>6
  <2>8. Len(shown) \in Nat
    BY <2>1, <2>4
  <2> HIDE DEF shown
  <2>9. \A i \in 1 .. Len(shown) - 1 : i \in 1 .. Len(shown) /\ i + 1 \in 1 .. Len(shown) /\ i < i + 1
    BY <2>8
  <2> QED
    BY <2>7, <2>9 DEF Rising
<1>2. IInv => LinesInOrder
  BY <1>1 DEF LinesInOrder
<1> QED
  BY <1>2, Invariance, PTL
=============================================================================
