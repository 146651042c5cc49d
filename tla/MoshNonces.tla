----------------------------- MODULE MoshNonces -----------------------------
(***************************************************************************)
(* The packet numbers of a mosh session (src/src/moshclient.cpp).          *)
(*                                                                         *)
(* Every datagram is encrypted with AES-OCB under one session key that     *)
(* lives as long as the session, across restarts of the app, so a nonce    *)
(* must never come twice.  The client does not write the nonce down for    *)
(* each packet: it reserves a block of numbers in its journal ('Q' record) *)
(* and goes on above the reservation after a restart.  This module has the *)
(* journal's rewrite record by record, with the app killed, or a write     *)
(* failing unnoticed, between any two of them.                             *)
(***************************************************************************)
EXTENDS Naturals

CONSTANTS
  SeqBlock,     \* numbers reserved at a time, 1 << 16 in rewriteJournal()
  MaxSeq        \* bound: no packet is numbered above this, and no restart
                \* goes on from above it

ASSUME SeqBlockAssumption == SeqBlock \in Nat \ {0}
ASSUME MaxSeqAssumption == MaxSeq \in Nat

VARIABLES
  up,           \* a MoshClient drives the session
  pc,           \* where the worker thread is, see PCs
  nextSeq,      \* m_nextSeq
  seqReserved,  \* m_seqReserved
  disk,         \* the journal file: its 'Q' record, 0 when there is none, and
                \* whether the other records resume() needs are in it
  used          \* history: the nonces of the packets sent under this key

vars == <<up, pc, nextSeq, seqReserved, disk, used>>

\* In the poll loop; in rewriteJournal() with the file emptied; in it past 'Q'.
PCs == {"loop", "emptied", "reserved"}

Empty == [q |-> 0, whole |-> FALSE]

\* The result of readJournal(): what a restart needs is all there.
Readable(d) == d.q > 0 /\ d.whole

TypeOK ==
  /\ up \in BOOLEAN
  /\ pc \in PCs
  /\ seqReserved \in Nat
  /\ nextSeq \in 0 .. seqReserved
  /\ disk \in [q : Nat, whole : BOOLEAN]
  /\ used \in SUBSET Nat

-----------------------------------------------------------------------------
LateRewrite(next, reserved) == next > reserved
\* sendPacket(): the reservation is used up, so a new one is made first.
MustReserve(next, reserved) == next >= reserved

\* rewriteJournal(): what it reserves.
Reservation(next, reserved) ==
  IF reserved > next + SeqBlock THEN reserved ELSE next + SeqBlock

\* start() and setJournal(): a new session with its first reservation made.
Init ==
  /\ up = TRUE
  /\ pc = "loop"
  /\ nextSeq = 0
  /\ seqReserved = SeqBlock
  /\ disk = [q |-> SeqBlock, whole |-> TRUE]
  /\ used = {}

\* sendPacket() with numbers left in the reservation.
SendPacket ==
  /\ up /\ pc = "loop" /\ nextSeq <= MaxSeq
  /\ ~MustReserve(nextSeq, seqReserved)
  /\ used' = used \cup {nextSeq}
  /\ nextSeq' = nextSeq + 1
  /\ UNCHANGED <<up, pc, seqReserved, disk>>

\* rewriteJournal(), first half: the file is emptied and a block reserved in
\* memory.  sendPacket() comes here when the reservation is used up, and
\* addSentState(), throwAwayUntil() and setJournalNote() at any time.
BeginRewrite ==
  /\ up /\ pc = "loop"
  /\ seqReserved' = Reservation(nextSeq, seqReserved)
  /\ disk' = Empty
  /\ pc' = "emptied"
  /\ UNCHANGED <<up, nextSeq, used>>

\* The 'Q' record goes out, unless the write fails, which nothing checks.
WriteReservation ==
  /\ up /\ pc = "emptied"
  /\ \/ disk' = [disk EXCEPT !.q = seqReserved]
     \/ disk' = disk
  /\ pc' = "reserved"
  /\ UNCHANGED <<up, nextSeq, seqReserved, used>>

\* So do the records after it.
FinishRewrite ==
  /\ up /\ pc = "reserved"
  /\ \E written \in BOOLEAN : disk' = [disk EXCEPT !.whole = written]
  /\ pc' = "loop"
  /\ UNCHANGED <<up, nextSeq, seqReserved, used>>

\* The app quits leaving the session running, or is killed.
Stop ==
  /\ up
  /\ up' = FALSE
  /\ pc' = "loop" /\ nextSeq' = 0 /\ seqReserved' = 0
  /\ UNCHANGED <<disk, used>>

ResumeAtReservationMinusOne(d) == d.q - 1
\* resume(): any number below the reservation may have gone out before.
ResumeAt(d) == d.q

\* resume(): reads the journal, then setJournal() starts it over.
Resume ==
  /\ ~up /\ Readable(disk) /\ ResumeAt(disk) <= MaxSeq
  /\ up' = TRUE
  /\ nextSeq' = ResumeAt(disk)
  /\ seqReserved' = Reservation(ResumeAt(disk), disk.q)
  /\ disk' = Empty
  /\ pc' = "emptied"
  /\ UNCHANGED used

\* A journal that cannot be read is removed, and its key never used again.
ResumeFails ==
  /\ ~up /\ ~Readable(disk) /\ disk # Empty
  /\ disk' = Empty
  /\ UNCHANGED <<up, pc, nextSeq, seqReserved, used>>

Next ==
  \/ SendPacket \/ BeginRewrite \/ WriteReservation \/ FinishRewrite
  \/ Stop \/ Resume \/ ResumeFails

Spec == Init /\ [][Next]_vars

-----------------------------------------------------------------------------
\* At every instant, also in the middle of a rewrite, a journal a restart
\* would accept reserves above every nonce that has gone out: killing the app
\* now cannot make the next start repeat one.
ReservationCovers == Readable(disk) => \A n \in used : n < disk.q

\* No packet is encrypted with a nonce that another packet had, in this life
\* of the app or an earlier one (moshclient.cpp, sendPacket(): "A nonce must
\* never come twice").
NonceFresh == [][(up /\ up' /\ nextSeq' # nextSeq) => nextSeq \notin used]_vars
=============================================================================
