------------------------------- MODULE BatchBag -------------------------------
(***************************************************************************)
(* What the pool of a full sync promises, without channel, workers or      *)
(* gauges: a batch that is pushed waits until it is begun, at most         *)
(* Parallel of them at a time, and what is begun ends once, processed or   *)
(* failed.  SyncWorkerPool implements this specification.                  *)
(***************************************************************************)
EXTENDS Naturals

CONSTANT Parallel     \* batches processed at a time

VARIABLES pushed,     \* batches handed over so far
          waiting,    \* of these, the ones not begun
          busy,       \* being processed
          succeeded,  \* processed
          spoilt      \* failed

bagVars == <<pushed, waiting, busy, succeeded, spoilt>>

BagInit == pushed = 0 /\ waiting = 0 /\ busy = 0 /\ succeeded = 0 /\ spoilt = 0

Push ==
  /\ pushed' = pushed + 1 /\ waiting' = waiting + 1
  /\ UNCHANGED <<busy, succeeded, spoilt>>

Begin ==
  /\ waiting > 0 /\ busy < Parallel
  /\ waiting' = waiting - 1 /\ busy' = busy + 1
  /\ UNCHANGED <<pushed, succeeded, spoilt>>

End ==
  /\ busy > 0
  /\ busy' = busy - 1
  /\ \/ succeeded' = succeeded + 1 /\ UNCHANGED spoilt
     \/ spoilt' = spoilt + 1 /\ UNCHANGED succeeded
  /\ UNCHANGED <<pushed, waiting>>

BagNext == Push \/ Begin \/ End

BagSpec == BagInit /\ [][BagNext]_bagVars

-----------------------------------------------------------------------------
(* Every batch waits, is being processed, or has ended, and no more than Parallel are
   being processed. *)
BagTypeOK ==
  /\ pushed \in Nat /\ waiting \in Nat /\ busy \in 0..Parallel
  /\ succeeded \in Nat /\ spoilt \in Nat
AllAccounted == pushed = waiting + busy + succeeded + spoilt
=============================================================================
