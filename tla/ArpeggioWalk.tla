---------------------------- MODULE ArpeggioWalk -----------------------------
(***************************************************************************)
(* What the step logic promises, as a hardware arpeggiator would do it:    *)
(* with a memory. It keeps its place in the gate cycle, counts loops and   *)
(* pool notes as it goes, and remembers whether the last gated step        *)
(* sounded. Going back over a step undoes the counting; what sounded       *)
(* before is then no longer known, nor after the FILL pad has moved.       *)
(***************************************************************************)
EXTENDS StepLogic

VARIABLES
  d,       \* the pattern, or Nothing
  index,   \* the step to come, of the whole timeline
  phase,   \* its place in the gate cycle
  loop,    \* completed cycles
  cursor,  \* gated steps so far
  fill,    \* the FILL pad is held
  heard,   \* the last gated step sounded
  age,     \* gated steps since one that did not look back; MaxPreChainDepth: unknown
  plain,   \* the last gated steps that all were PRE, at most MaxPreChainDepth
  sound    \* the note of the last step, or Silent

walkVars == <<d, index, phase, loop, cursor, fill, heard, age, plain, sound>>

Nothing == [period |-> 0]
Silent == -1000

Next1(count) == Clamped(count + 1, 0, MaxPreChainDepth)

(* The pool as a ladder: above its last note comes its first an octave       *)
(* higher, below its first the last an octave lower. A degree is a rung.     *)
Climb(pool, degree) ==
  LET rung[k \in Int] ==
        CASE k < 0 -> rung[k + Len(pool)] - 12
          [] k \in 0 .. Len(pool) - 1 -> pool[k + 1]
          [] k >= Len(pool) -> rung[k - Len(pool)] + 12
  IN  rung[degree]

(* What PRE may take for the result of the last gated step: what was heard,  *)
(* as long as the memory is sure of it; failure, in a run of PRE too long to *)
(* follow; anything otherwise.                                               *)
Previous ==
  IF age < MaxPreChainDepth THEN {heard}
  ELSE IF plain = MaxPreChainDepth THEN {FALSE}
  ELSE BOOLEAN

Meets(cond, previous) ==
  CASE cond.kind = "none" -> TRUE
    [] cond.kind = "first" -> loop = 0
    [] cond.kind = "notFirst" -> loop # 0
    [] cond.kind = "cycle" -> (loop - (cond.a - 1)) % cond.b = 0
    [] cond.kind = "fill" -> fill
    [] cond.kind = "notFill" -> ~ fill
    [] cond.kind = "pre" -> previous
    [] cond.kind = "notPre" -> ~ previous
    [] cond.kind = "nei" -> LaneValueAt(d.modA, index) >= Threshold
    [] cond.kind = "notNei" -> LaneValueAt(d.modA, index) < Threshold

Note ==
  Climb(d.pool, d.order[1 + (cursor % Len(d.order))] + LaneValueAt(d.pitch, index))
    + 12 * LaneValueAt(d.oct, index)

-----------------------------------------------------------------------------
WalkInit ==
  /\ d = Nothing
  /\ index = 0 /\ phase = 0 /\ loop = 0 /\ cursor = 0
  /\ fill = FALSE
  /\ heard = FALSE /\ age = MaxPreChainDepth /\ plain = 0
  /\ sound = Silent

Adopt ==
  /\ d = Nothing /\ d' # Nothing
  /\ UNCHANGED <<index, phase, loop, cursor, fill, heard, age, plain, sound>>

Forward ==
  LET cond == LaneValueAt(d.cond, index)
      gated == IsGatedPhase(d.gate, phase)
  IN  /\ d # Nothing
      /\ index' = index + 1
      /\ phase' = (phase + 1) % Period(d.gate)
      /\ loop' = IF phase' = 0 THEN loop + 1 ELSE loop
      /\ cursor' = IF gated THEN cursor + 1 ELSE cursor
      /\ \E previous \in Previous :
           sound' = IF /\ gated /\ Meets(cond, previous) /\ d.pool # << >>
                       /\ PercentPasses(LaneValueAt(d.prob, index), <<index, 0>> \in d.rolls)
                    THEN Note ELSE Silent
      /\ IF gated
         THEN /\ heard' = (sound' # Silent)
              /\ age' = IF cond.kind \in {"pre", "notPre"} THEN Next1(age) ELSE 0
              /\ plain' = IF cond.kind = "pre" THEN Next1(plain) ELSE 0
         ELSE UNCHANGED <<heard, age, plain>>
      /\ UNCHANGED <<d, fill>>

Backward ==
  /\ d # Nothing
  /\ index' = index - 1
  /\ phase' = (phase - 1) % Period(d.gate)
  /\ loop' = IF phase = 0 THEN loop - 1 ELSE loop
  /\ cursor' = IF IsGatedPhase(d.gate, phase') THEN cursor - 1 ELSE cursor
  /\ heard' = FALSE /\ age' = MaxPreChainDepth /\ plain' = 0
  /\ sound' = Silent
  /\ UNCHANGED <<d, fill>>

MoveFill ==
  /\ fill' = ~ fill
  /\ age' = MaxPreChainDepth
  /\ UNCHANGED <<d, index, phase, loop, cursor, heard, plain, sound>>

WalkNext == Adopt \/ Forward \/ Backward \/ MoveFill

WalkSpec == WalkInit /\ [][WalkNext]_walkVars
=============================================================================
