-------------------------- MODULE MoshNoncesProofs --------------------------
(***************************************************************************)
(* Proofs about MoshNonces, for every block size and every bound: a nonce  *)
(* is never used twice, whenever the app is killed and whichever journal   *)
(* writes fail.                                                            *)
(***************************************************************************)
EXTENDS MoshNonces, TLAPS

\* While a client runs, all it or an earlier one sent lies below the next
\* number, which TypeOK has within what is reserved in memory.
MemoryCovers == up => \A n \in used : n < nextSeq

\* What the file reserves is what memory reserves, or nothing at all.
FileAgrees == up => disk.q \in {0, seqReserved}

\* Stronger than ReservationCovers, which only asks it of a whole journal.
FileCovers == disk.q > 0 => \A n \in used : n < disk.q

IInv == TypeOK /\ MemoryCovers /\ FileAgrees /\ FileCovers

\* A reservation is never given back, and always leaves room for a packet.
LEMMA ReservationGrows ==
  ASSUME NEW next \in Nat, NEW reserved \in Nat
  PROVE  /\ Reservation(next, reserved) \in Nat
         /\ Reservation(next, reserved) >= reserved
         /\ Reservation(next, reserved) > next
  BY SeqBlockAssumption DEF Reservation

LEMMA InitIInv == Init => IInv
  BY SeqBlockAssumption
  DEF Init, IInv, TypeOK, PCs, MemoryCovers, FileAgrees, FileCovers

LEMMA NextIInv == IInv /\ [Next]_vars => IInv'
<1> SUFFICES ASSUME IInv, [Next]_vars
             PROVE  IInv'
  OBVIOUS
<1> USE DEF IInv, TypeOK, PCs, MemoryCovers, FileAgrees, FileCovers
<1>1. CASE SendPacket
  <2>1. nextSeq < seqReserved
    BY <1>1 DEF SendPacket, MustReserve
  <2>2. up /\ nextSeq' = nextSeq + 1 /\ used' = used \cup {nextSeq}
    BY <1>1 DEF SendPacket
  <2>3. UNCHANGED <<up, pc, seqReserved, disk>>
    BY <1>1 DEF SendPacket
  <2> QED BY <2>1, <2>2, <2>3
<1>2. CASE BeginRewrite
  <2>1. up /\ seqReserved' = Reservation(nextSeq, seqReserved)
    BY <1>2 DEF BeginRewrite
  <2>2. seqReserved' \in Nat /\ nextSeq <= seqReserved'
    BY <2>1, ReservationGrows
  <2>3. UNCHANGED <<up, nextSeq, used>> /\ disk' = Empty /\ pc' = "emptied"
    BY <1>2 DEF BeginRewrite
  <2> QED BY <2>1, <2>2, <2>3 DEF Empty
<1>3. CASE WriteReservation
  <2>1. disk' \in [q : Nat, whole : BOOLEAN] /\ disk'.q \in {disk.q, seqReserved}
    BY <1>3 DEF WriteReservation
  <2>2. UNCHANGED <<up, nextSeq, seqReserved, used>> /\ pc' = "reserved" /\ up
    BY <1>3 DEF WriteReservation
  <2> QED BY <2>1, <2>2
<1>4. CASE FinishRewrite
  <2>1. disk' \in [q : Nat, whole : BOOLEAN] /\ disk'.q = disk.q
    BY <1>4 DEF FinishRewrite
  <2>2. UNCHANGED <<up, nextSeq, seqReserved, used>> /\ pc' = "loop"
    BY <1>4 DEF FinishRewrite
  <2> QED BY <2>1, <2>2
<1>5. CASE Stop
  <2>1. /\ up' = FALSE /\ pc' = "loop" /\ nextSeq' = 0 /\ seqReserved' = 0
        /\ UNCHANGED <<disk, used>>
    BY <1>5 DEF Stop
  <2>2. seqReserved' \in Nat /\ nextSeq' \in 0 .. seqReserved'
    BY <2>1, 0 \in 0 .. 0
  <2>3. MemoryCovers' /\ FileAgrees' /\ FileCovers'
    BY <2>1
  <2> QED BY <2>1, <2>2, <2>3
<1>6. CASE Resume
  <2>1. disk.q \in Nat /\ disk.q > 0 /\ nextSeq' = disk.q
    BY <1>6 DEF Resume, Readable, ResumeAt
  <2>2. seqReserved' = Reservation(disk.q, disk.q)
    BY <1>6 DEF Resume, ResumeAt
  <2>3. seqReserved' \in Nat /\ nextSeq' <= seqReserved'
    BY <2>1, <2>2, ReservationGrows
  <2>4. up' = TRUE /\ used' = used /\ disk' = Empty /\ pc' = "emptied"
    BY <1>6 DEF Resume
  <2> QED BY <2>1, <2>3, <2>4 DEF Empty
<1>7. CASE ResumeFails
  BY <1>7 DEF ResumeFails, Empty
<1>8. CASE UNCHANGED vars
  BY <1>8 DEF vars
<1> QED
  BY <1>1, <1>2, <1>3, <1>4, <1>5, <1>6, <1>7, <1>8 DEF Next

\* IInv is an invariant of the specification.
THEOREM Invariance == Spec => []IInv
  BY InitIInv, NextIInv, PTL DEF Spec

\* The variables keep their types.
THEOREM TypeCorrect == Spec => []TypeOK
<1>1. IInv => TypeOK
  BY DEF IInv
<1> QED BY <1>1, Invariance, PTL

\* A journal that a restart would accept reserves above every nonce used, at
\* each step of its rewrite.
THEOREM ReservationCoversAlways == Spec => []ReservationCovers
<1>1. IInv => ReservationCovers
  BY DEF IInv, FileCovers, ReservationCovers, Readable
<1> QED BY <1>1, Invariance, PTL

\* No nonce is used twice under one key (sendPacket()).
THEOREM NoncesAreFresh == Spec => NonceFresh
<1>1. IInv /\ [Next]_vars => [(up /\ up' /\ nextSeq' # nextSeq) => nextSeq \notin used]_vars
  <2> SUFFICES ASSUME IInv, up
               PROVE  nextSeq \notin used
    OBVIOUS
  <2> QED BY DEF IInv, TypeOK, MemoryCovers
<1> QED BY <1>1, Invariance, PTL DEF Spec, NonceFresh
=============================================================================
