----------------------------- MODULE PacketFifo -----------------------------
(***************************************************************************)
(* What the sensor data pipe promises to the two threads that use it: a    *)
(* bounded first-in first-out channel.  The packets are numbered in the    *)
(* order in which they are written; the receiver gets packet 1, 2, 3, ...  *)
(* until it stops, and the sender is never more than Capacity packets      *)
(* ahead of it.  The channel loses nothing; the receiver may discard the   *)
(* next packets, a batch at a time, as PgRun does when it cannot insert.   *)
(***************************************************************************)
EXTENDS Naturals, Sequences

CONSTANTS TotalPackets, \* how many packets there are to send
          Capacity,     \* how far the sender may be ahead
          Batch         \* how many packets may be discarded at once

VARIABLES sent,      \* number of packets written so far
          passed,    \* number of packets received or discarded so far
          delivered, \* the packets received, in order
          discarded, \* the packets discarded
          stopped    \* the receiver has left

fifoVars == <<sent, passed, delivered, discarded, stopped>>

FifoInit ==
  sent = 0 /\ passed = 0 /\ delivered = <<>> /\ discarded = {} /\ stopped = FALSE

Send ==
  /\ sent < TotalPackets
  /\ sent - passed < Capacity
  /\ sent' = sent + 1
  /\ UNCHANGED <<passed, delivered, discarded, stopped>>

Deliver ==
  /\ ~stopped
  /\ passed < sent
  /\ passed' = passed + 1
  /\ delivered' = Append(delivered, passed + 1)
  /\ UNCHANGED <<sent, discarded, stopped>>

Discard(n) ==
  /\ ~stopped
  /\ passed + n <= sent
  /\ passed' = passed + n
  /\ discarded' = discarded \cup (passed + 1 .. passed + n)
  /\ UNCHANGED <<sent, delivered, stopped>>

Stop ==
  /\ ~stopped
  /\ stopped' = TRUE
  /\ UNCHANGED <<sent, passed, delivered, discarded>>

Receive == Deliver \/ \E n \in 1 .. Batch : Discard(n)

FifoNext == Send \/ Receive \/ Stop

FifoSafety == FifoInit /\ [][FifoNext]_fifoVars

(* As long as the receiver is there, both sides keep going.                *)
FifoSpec == /\ FifoSafety
            /\ WF_fifoVars(~stopped /\ Send)
            /\ WF_fifoVars(Receive)
=============================================================================
