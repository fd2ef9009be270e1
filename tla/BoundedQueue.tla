---------------------------- MODULE BoundedQueue ----------------------------
(***************************************************************************)
(* What a single-producer single-consumer queue of ARPBOX promises         *)
(* (engine/graph/SpscFifo.h): items come out once and in the order they    *)
(* were accepted; a push is refused, and the refusal counted, exactly when *)
(* Room items are still waiting or still lent to the consumer, because the *)
(* consumer gives its slots back only when it has finished a whole drain.  *)
(***************************************************************************)
EXTENDS Naturals, Sequences

CONSTANTS
  Items,      \* the values that travel (commands, events, notes, pointers)
  Room,       \* how many items fit
  MaxRefused  \* bound on the counted refusals

VARIABLES
  queue,      \* items accepted and not yet handed to the consumer
  lent,       \* items handed over in the drain in progress
  refused     \* pushes refused so far

absVars == <<queue, lent, refused>>

AbsInit ==
  /\ queue = << >>
  /\ lent = 0
  /\ refused = 0

Accept(item) ==
  /\ Len(queue) + lent < Room
  /\ queue' = Append(queue, item)
  /\ UNCHANGED <<lent, refused>>

Refuse ==
  /\ Len(queue) + lent = Room
  /\ refused < MaxRefused
  /\ refused' = refused + 1
  /\ UNCHANGED <<queue, lent>>

Take ==
  /\ queue # << >>
  /\ queue' = Tail(queue)
  /\ lent' = lent + 1
  /\ UNCHANGED refused

Release ==
  /\ lent > 0
  /\ lent' = 0
  /\ UNCHANGED <<queue, refused>>

AbsNext ==
  \/ \E item \in Items : Accept(item)
  \/ Refuse
  \/ Take
  \/ Release

AbsSpec == AbsInit /\ [][AbsNext]_absVars
=============================================================================
