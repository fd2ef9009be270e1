---------------------------- MODULE LatestValue -----------------------------
(***************************************************************************)
(* What the engine-to-UI snapshot channel promises: an atomic register     *)
(* that keeps only its latest value. A write replaces the value; a read    *)
(* returns the value of that instant. Values are audio block numbers.      *)
(***************************************************************************)
EXTENDS Naturals

CONSTANT MaxBlocks  \* bound on the number of blocks written

VARIABLES
  latest, \* the value of the register: the last block published, 0 for none
  seen    \* the value the reader's last read returned

registerVars == <<latest, seen>>

RegisterInit ==
  /\ latest = 0
  /\ seen = 0

Write ==
  /\ latest < MaxBlocks
  /\ latest' = latest + 1
  /\ UNCHANGED seen

Read ==
  /\ seen' = latest
  /\ UNCHANGED latest

RegisterNext == Write \/ Read

RegisterSpec == RegisterInit /\ [][RegisterNext]_registerVars
=============================================================================
