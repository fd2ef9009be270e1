-------------------------- MODULE MCStepEvaluation ---------------------------
(* Patterns whose gate, conditions and probabilities repeat out of step with *)
(* each other: a run of PRE longer than the chain that is followed, after a  *)
(* step that may fail; a euclidean gate with cycles; a divided gate with     *)
(* FILL, micro-timing, swing and ratchets; a cycle without an anchor; no     *)
(* gate at all; no note in the pool.                                         *)
EXTENDS StepEvaluation

Held(division, values) ==
  Lane(Len(values), division,
       [k \in 0 .. MaxSteps - 1 |-> values[1 + (k % Len(values))]])

Pattern(gateLane, cond, prob, pool) ==
  [gate |-> gateLane, cond |-> Held(1, cond), prob |-> Held(1, prob), pool |-> pool,
   modA |-> Held(3, <<0, 100>>), pitch |-> Held(2, <<0, 1, -4>>), oct |-> Held(5, <<0, -1>>),
   len |-> Held(4, <<50, 120>>), vel |-> Held(1, <<100, 3>>),
   micro |-> Held(1, <<50, 0, -50>>), ratchet |-> Held(1, <<1>>), swing |-> 66, ramp |-> 0]

Triad == <<60, 64, 67>>
Leap == <<55, 36>>
C(kind) == Condition(kind)

LongRun ==
  Pattern(Held(1, <<1>>), <<C("none")>> \o [k \in 1 .. 9 |-> C("pre")],
          <<50>> \o [k \in 1 .. 9 |-> 100], Triad)

MCBase == Lane(4, 2, [k \in 0 .. MaxSteps - 1 |-> k % 2])

Euclidean ==
  Pattern(ApplyToGateLane(StoredParams(8, 3, 1), MCBase),
          <<C("notPre"), Cycle(2, 2), C("first"), C("nei")>>, <<50, 100>>, Leap)

Divided ==
  [Pattern(Held(2, <<1, 0, 1>>), <<C("fill"), C("pre"), C("notFill"), C("notPre"), C("notFirst")>>,
           <<100>>, Triad)
   EXCEPT !.micro = Held(1, <<50, -50, 0>>), !.swing = 75, !.ramp = -50,
          !.ratchet = Held(1, <<3, 8, 1>>), !.prob = Held(1, <<100, 50, 0, 100>>)]

Loose ==
  [Pattern(Held(1, <<1, 1, 0>>), <<C("pre"), C("pre"), C("notPre"), C("pre")>>, <<100, 50>>, Leap)
   EXCEPT !.micro = Held(1, <<0, 50, -50>>), !.swing = 66, !.ramp = 100,
          !.ratchet = Held(1, <<2, 5>>)]

Mute == Pattern(Held(1, <<0, 0>>), <<C("notPre")>>, <<100>>, Triad)
Hollow == Pattern(Held(1, <<1>>), <<C("notPre")>>, <<100>>, << >>)

MCPatterns == {LongRun, Euclidean, Divided, Loose, Mute, Hollow}
MCFirst == -9
MCTables == {<<"up", 0>>, <<"outsideIn", 3>>, <<"spiral", 3>>, <<"randomNoRepeat", 2>>}
MCRolls == {<<-4, 0>>, <<0, 0>>, <<1, 0>>, <<1, 2>>, <<5, 0>>}
MCEuclid == [steps : {0, 1, 5, 8, 12}, pulses : {0, 1, 3, 8, 11}, rotate : {-9, -1, 0, 3}]
=============================================================================
