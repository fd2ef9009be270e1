-------------------------- MODULE AudioEngineProofs --------------------------
(***************************************************************************)
(* For any devices, rates, ceiling, window and start of the millisecond    *)
(* counter: the engine reopens devices a bounded number of times per       *)
(* window and gives up only then, is never left above the ceiling, and     *)
(* neither annotation of the status line (clamp, banner) goes untrue. The  *)
(* triple buffer it hands to the panel is an atomic register, for any      *)
(* number of blocks: the slots keep one owner each, no frame is torn, none *)
(* goes back in time.                                                      *)
(***************************************************************************)
EXTENDS AudioEngine, EngineSnapshotBuffer, FiniteSetTheorems, TLAPS

-----------------------------------------------------------------------------
(* The setup: device, ceiling and banner. *)

(* A device is none, or has a positive rate. *)
DeviceOK ==
  device # NoDevice =>
    /\ device = [name |-> device.name, rate |-> device.rate, open |-> device.open]
    /\ device.name \in Devices
    /\ device.rate \in Nat \ {0}

(* What goes wrong with the ceiling or the clamp goes wrong only until the   *)
(* broadcast that is queued then has been handled.                           *)
SetupInv ==
  /\ DeviceOK
  /\ ~ changeDue /\ IsOpen(device) => device.rate <= Ceiling
  /\ clamp # NoClamp => refusedSampleRate = 0
  /\ clamp # NoClamp /\ ~ changeDue /\ IsOpen(device) => ClampStillApplies(device, clamp)

(* Until the setup is changed, the open device is the one the banner names.  *)
BannerInv ==
  currentDeviceStatus = "fellBack" /\ ~ selected /\ message # "verdict" /\ device # NoDevice
    => device.name = fallbackDeviceName

LEMMA OpeningIsDevice ==
  ASSUME NEW names \in SUBSET Devices, NEW d \in Openings(names), d # NoDevice
  PROVE  /\ d = [name |-> d.name, rate |-> d.rate, open |-> d.open]
         /\ d.name \in names /\ d.rate \in Offered[d.name] /\ d.rate \in Nat \ {0}
<1>1. PICK n \in names : \E r \in Offered[n] : d = At(n, r)
  BY DEF Openings
<1>2. PICK r \in Offered[n] : d = At(n, r)
  BY <1>1
<1>3. d.name = n /\ d.rate = r /\ d.open = TRUE
  BY <1>2 DEF At
<1>4. r \in Nat \ {0}
  BY OfferedAssumption
<1> QED
  BY <1>2, <1>3, <1>4 DEF At

(* Whatever enforcing the ceiling comes to: the device keeps its name and is  *)
(* within the ceiling, a clamp is recorded only for what was reached, and a   *)
(* clamp in force goes only with its device or its rate.                      *)
LEMMA EnforcedFacts ==
  ASSUME NEW d, NEW c, NEW refused,
         d # NoDevice =>
           /\ d = [name |-> d.name, rate |-> d.rate, open |-> d.open]
           /\ d.name \in Devices /\ d.rate \in Nat \ {0},
         c # NoClamp => refused = 0,
         NEW e \in EnforceSampleRateCeiling(d, c, refused)
  PROVE  /\ e.device # NoDevice =>
              /\ e.device = [name |-> e.device.name, rate |-> e.device.rate,
                             open |-> e.device.open]
              /\ e.device.name = d.name /\ e.device.name \in Devices
              /\ e.device.rate \in Nat \ {0}
              /\ d # NoDevice
         /\ IsOpen(e.device) => e.device.rate <= Ceiling
         /\ e.clamp # NoClamp => e.refused = 0
         /\ e.clamp # NoClamp /\ IsOpen(e.device) => ClampStillApplies(e.device, e.clamp)
         /\ c # NoClamp /\ e.clamp = NoClamp =>
              ~ (IsOpen(e.device) /\ ClampStillApplies(e.device, c))
<1>1. CASE ~ IsOpen(d)
  <2>1. e = Result(d, NoClamp, refused, FALSE, FALSE, FALSE)
    BY <1>1 DEF EnforceSampleRateCeiling
  <2>2. e.device = d /\ e.clamp = NoClamp
    BY <2>1 DEF Result
  <2> QED
    BY <1>1, <2>2
<1>2. CASE IsOpen(d) /\ d.rate <= Ceiling
  <2>1. e = Result(d, KeptClamp(d, c), 0, FALSE, FALSE, FALSE)
    BY <1>2 DEF EnforceSampleRateCeiling
  <2>2. e.device = d /\ e.clamp = KeptClamp(d, c) /\ e.refused = 0
    BY <2>1 DEF Result
  <2> QED
    BY <1>2, <2>2 DEF KeptClamp, IsOpen
<1>3. CASE IsOpen(d) /\ ~ (d.rate <= Ceiling)
  <2> DEFINE asked == \E r \in Offered[d.name] : r <= Ceiling
             Landings == IF asked THEN Openings({d.name}) ELSE {d}
  <2>1. PICK after \in Landings :
          e = IF IsOpen(after) /\ after.rate <= Ceiling
              THEN Result(after, [from |-> d.rate, to |-> after.rate, name |-> after.name],
                          0, asked, TRUE, TRUE)
              ELSE Result(NoDevice, NoClamp, d.rate, asked, asked /\ after # NoDevice, TRUE)
    BY <1>3 DEF EnforceSampleRateCeiling
  <2>2. CASE IsOpen(after) /\ after.rate <= Ceiling
    <3>1. /\ e.device = after /\ e.refused = 0
          /\ e.clamp = [from |-> d.rate, to |-> after.rate, name |-> after.name]
      BY <2>1, <2>2 DEF Result
    <3>2. d # NoDevice /\ after # NoDevice
      BY <1>3, <2>2 DEF IsOpen
    <3>3. asked /\ after \in Openings({d.name})
      BY <1>3, <2>2
    <3>4. /\ after = [name |-> after.name, rate |-> after.rate, open |-> after.open]
          /\ after.name = d.name /\ after.rate \in Nat \ {0}
      BY <3>2, <3>3, OpeningIsDevice
    <3>5. e.clamp.to = after.rate /\ e.clamp.name = after.name
      BY <3>1
    <3>6. e.clamp.from = d.rate /\ NoClamp.from = 0
      BY <3>1 DEF NoClamp
    <3>7. e.clamp # NoClamp
      BY <3>2, <3>6
    <3>8. ClampStillApplies(e.device, e.clamp)
      BY <3>1, <3>5, <3>7 DEF ClampStillApplies
    <3> QED
      BY <3>1, <3>2, <3>4, <3>7, <3>8, <2>2
  <2>3. CASE ~ (IsOpen(after) /\ after.rate <= Ceiling)
    <3>1. e.device = NoDevice /\ e.clamp = NoClamp
      BY <2>1, <2>3 DEF Result
    <3> QED
      BY <3>1 DEF IsOpen
  <2> QED
    BY <2>2, <2>3
<1> QED
  BY <1>1, <1>2, <1>3

(* An opening is a device the enforcement may be given. *)
LEMMA OpeningsAreDevices ==
  ASSUME NEW d \in Openings(Devices)
  PROVE  d # NoDevice =>
           /\ d = [name |-> d.name, rate |-> d.rate, open |-> d.open]
           /\ d.name \in Devices /\ d.rate \in Nat \ {0}
  BY OpeningIsDevice

LEMMA InitSetup == Init => SetupInv /\ BannerInv
<1> SUFFICES ASSUME Init PROVE SetupInv /\ BannerInv
  OBVIOUS
<1>1. PICK d \in Openings(Devices) : \E e \in EnforceSampleRateCeiling(d, NoClamp, 0) :
        /\ device = e.device
        /\ clamp = e.clamp
        /\ refusedSampleRate = e.refused
        /\ currentDeviceStatus = IF e.device # NoDevice THEN "ok" ELSE "dead"
  BY DEF Init
<1>2. PICK e \in EnforceSampleRateCeiling(d, NoClamp, 0) :
        /\ device = e.device
        /\ clamp = e.clamp
        /\ refusedSampleRate = e.refused
        /\ currentDeviceStatus = IF e.device # NoDevice THEN "ok" ELSE "dead"
  BY <1>1
<1>3. SetupInv
  BY <1>2, OpeningsAreDevices, EnforcedFacts DEF SetupInv, DeviceOK
<1>4. BannerInv
  BY <1>2 DEF BannerInv
<1> QED
  BY <1>3, <1>4

(* The steps that are about the setup, and what they may do to it; every     *)
(* other step leaves the device, the clamp and the banner alone.             *)
LEMMA SetupSteps ==
  ASSUME [Next]_vars
  PROVE  \/ \E lost \in BOOLEAN : AudioDeviceError(lost)
         \/ SelectDevice \/ HandleAsyncUpdate \/ Reopen \/ Verdict \/ ChangeListenerCallback
         \/ UNCHANGED <<managerVars, ceilingVars, statusVars, selected, message>>
<1>1. CASE TriggerAsyncUpdate
  BY <1>1 DEF TriggerAsyncUpdate
<1>2. CASE SimulateDeviceLoss
  BY <1>2 DEF SimulateDeviceLoss
<1>3. CASE Tick
  BY <1>3 DEF Tick
<1>4. CASE UNCHANGED vars
  BY <1>4 DEF vars
<1> QED
  BY <1>1, <1>2, <1>3, <1>4 DEF Next, DeviceThread, MessageLoop

LEMMA NextSetup == SetupInv /\ [Next]_vars => SetupInv'
<1> SUFFICES ASSUME SetupInv, [Next]_vars PROVE SetupInv'
  OBVIOUS
<1> USE DEF SetupInv, DeviceOK
<1>1. ASSUME NEW lost \in BOOLEAN, AudioDeviceError(lost) PROVE SetupInv'
  <2>1. UNCHANGED <<changeDue, clamp, refusedSampleRate>>
    BY <1>1 DEF AudioDeviceError, ceilingVars
  <2>2. CASE ~ lost
    BY <1>1, <2>1, <2>2 DEF AudioDeviceError, IsOpen, ClampStillApplies
  <2>3. CASE lost
    <3>1. device # NoDevice /\ device' = [device EXCEPT !.open = FALSE]
      BY <1>1, <2>3 DEF AudioDeviceError, IsOpen
    <3>2. device' = [name |-> device.name, rate |-> device.rate, open |-> FALSE]
      BY <3>1
    <3>3. device'.name = device.name /\ device'.rate = device.rate /\ device'.open = FALSE
      BY <3>2
    <3> QED
      BY <2>1, <3>1, <3>2, <3>3 DEF IsOpen
  <2> QED
    BY <2>2, <2>3
<1>2. CASE SelectDevice
  <2>1. device' \in Openings(Devices) /\ changeDue' = TRUE
        /\ UNCHANGED <<clamp, refusedSampleRate>>
    BY <1>2 DEF SelectDevice, ceilingVars
  <2> QED
    BY <2>1, OpeningsAreDevices
<1>3. CASE HandleAsyncUpdate \/ Verdict
  BY <1>3 DEF HandleAsyncUpdate, Verdict, managerVars, ceilingVars, IsOpen, ClampStillApplies
<1>4. CASE Reopen
  <2>1. PICK d \in Openings(Devices) :
          \E e \in EnforceSampleRateCeiling(d, clamp, refusedSampleRate) :
            device' = e.device /\ clamp' = e.clamp /\ refusedSampleRate' = e.refused
    BY <1>4 DEF Reopen
  <2>2. changeDue' = TRUE
    BY <1>4 DEF Reopen
  <2> QED
    BY <2>1, <2>2, OpeningsAreDevices, EnforcedFacts
<1>5. CASE ChangeListenerCallback
  <2>1. PICK e \in EnforceSampleRateCeiling(device, clamp, refusedSampleRate) :
          device' = e.device /\ clamp' = e.clamp /\ refusedSampleRate' = e.refused
    BY <1>5 DEF ChangeListenerCallback
  <2> QED
    BY <2>1, EnforcedFacts
<1>6. CASE UNCHANGED <<managerVars, ceilingVars, statusVars, selected, message>>
  BY <1>6 DEF managerVars, ceilingVars, IsOpen, ClampStillApplies
<1> QED
  BY <1>1, <1>2, <1>3, <1>4, <1>5, <1>6, SetupSteps

LEMMA NextBanner == SetupInv /\ BannerInv /\ [Next]_vars => BannerInv'
<1> SUFFICES ASSUME SetupInv, BannerInv, [Next]_vars PROVE BannerInv'
  OBVIOUS
<1>1. ASSUME NEW lost \in BOOLEAN, AudioDeviceError(lost) PROVE BannerInv'
  <2>1. UNCHANGED <<statusVars, selected, message>>
    BY <1>1 DEF AudioDeviceError
  <2>2. device' # NoDevice => device # NoDevice /\ device'.name = device.name
    BY <1>1 DEF AudioDeviceError, IsOpen, SetupInv, DeviceOK
  <2> QED
    BY <2>1, <2>2 DEF BannerInv, statusVars
<1>2. CASE SelectDevice
  BY <1>2 DEF SelectDevice, BannerInv
<1>3. CASE HandleAsyncUpdate
  BY <1>3 DEF HandleAsyncUpdate, BannerInv, managerVars
<1>4. CASE Reopen
  BY <1>4 DEF Reopen, BannerInv
<1>5. CASE Verdict
  BY <1>5 DEF Verdict, BannerInv, managerVars
<1>6. CASE ChangeListenerCallback
  <2>1. PICK e \in EnforceSampleRateCeiling(device, clamp, refusedSampleRate) :
          /\ device' = e.device
          /\ currentDeviceStatus' = IF e.acted /\ e.device = NoDevice THEN "dead"
                                    ELSE IF Reselected(e.device) THEN "ok"
                                    ELSE currentDeviceStatus
    BY <1>6 DEF ChangeListenerCallback
  <2>2. e.device # NoDevice => e.device.name = device.name /\ device # NoDevice
    BY EnforcedFacts DEF SetupInv, DeviceOK
  <2>3. UNCHANGED <<fallbackDeviceName, selected, message>>
    BY <1>6 DEF ChangeListenerCallback
  <2> QED
    BY <2>1, <2>2, <2>3 DEF BannerInv
<1>7. CASE UNCHANGED <<managerVars, ceilingVars, statusVars, selected, message>>
  BY <1>7 DEF BannerInv, managerVars, statusVars
<1> QED
  BY <1>1, <1>2, <1>3, <1>4, <1>5, <1>6, <1>7, SetupSteps
(* The engine is never left running above the ceiling, for any set of        *)
(* devices, rates, refusals and failures.                                    *)
THEOREM NeverAboveCeiling == Spec => []WithinCeiling
<1>1. SetupInv => WithinCeiling
  BY DEF SetupInv, WithinCeiling, quiet
<1> QED
  BY InitSetup, NextSetup, <1>1, PTL DEF Spec

(* The clamp annotation is true, never live together with a refusal, and     *)
(* outlives the broadcast the clamp causes.                                  *)
THEOREM ClampNeverLies == Spec => ClampIsTrue
<1>1. SetupInv => /\ clamp # NoClamp => refusedSampleRate = 0
                  /\ clamp # NoClamp /\ quiet /\ IsOpen(device) => ClampStillApplies(device, clamp)
  BY DEF SetupInv, quiet
<1>2. SetupInv /\ [Next]_vars
        => [clamp # NoClamp /\ clamp' = NoClamp =>
              ~ (IsOpen(device') /\ ClampStillApplies(device', clamp))]_vars
  <2> SUFFICES ASSUME SetupInv, [Next]_vars, clamp # NoClamp, clamp' = NoClamp
               PROVE  ~ (IsOpen(device') /\ ClampStillApplies(device', clamp))
    OBVIOUS
  <2>1. CASE Reopen
    <3>1. PICK d \in Openings(Devices) :
            \E e \in EnforceSampleRateCeiling(d, clamp, refusedSampleRate) :
              device' = e.device /\ clamp' = e.clamp
      BY <2>1 DEF Reopen
    <3>2. PICK e \in EnforceSampleRateCeiling(d, clamp, refusedSampleRate) :
            device' = e.device /\ clamp' = e.clamp
      BY <3>1
    <3> QED
      BY <3>2, OpeningsAreDevices, EnforcedFacts DEF SetupInv
  <2>2. CASE ChangeListenerCallback
    <3>1. PICK e \in EnforceSampleRateCeiling(device, clamp, refusedSampleRate) :
            device' = e.device /\ clamp' = e.clamp
      BY <2>2 DEF ChangeListenerCallback
    <3> QED
      BY <3>1, EnforcedFacts DEF SetupInv, DeviceOK
  <2>3. ASSUME NEW lost \in BOOLEAN, AudioDeviceError(lost) PROVE FALSE
    BY <2>3 DEF AudioDeviceError, ceilingVars
  <2>4. CASE SelectDevice \/ HandleAsyncUpdate \/ Verdict
    BY <2>4 DEF SelectDevice, HandleAsyncUpdate, Verdict, ceilingVars
  <2>5. CASE UNCHANGED <<managerVars, ceilingVars, statusVars, selected, message>>
    BY <2>5 DEF ceilingVars
  <2> QED
    BY <2>1, <2>2, <2>3, <2>4, <2>5, SetupSteps
<1> QED
  BY InitSetup, NextSetup, <1>1, <1>2, PTL DEF Spec, ClampIsTrue

(* The banner of a fallback goes back to ok only after the setup was changed *)
(* since: the fallback's own broadcast never clears it (issue #10).          *)
THEOREM BannerSurvivesItsBroadcast == Spec => BannerStays
<1>1. SetupInv /\ BannerInv /\ [Next]_vars
        => [currentDeviceStatus = "fellBack" /\ currentDeviceStatus' = "ok" => selected]_vars
  <2> SUFFICES ASSUME SetupInv, BannerInv, [Next]_vars,
                      currentDeviceStatus = "fellBack", currentDeviceStatus' = "ok"
               PROVE  selected
    OBVIOUS
  <2>1. CASE ChangeListenerCallback
    <3>1. PICK e \in EnforceSampleRateCeiling(device, clamp, refusedSampleRate) :
            currentDeviceStatus' = IF e.acted /\ e.device = NoDevice THEN "dead"
                                   ELSE IF Reselected(e.device) THEN "ok"
                                   ELSE currentDeviceStatus
      BY <2>1 DEF ChangeListenerCallback
    <3>2. Reselected(e.device)
      BY <3>1
    <3>3. e.device # NoDevice /\ e.device.name # fallbackDeviceName
      BY <3>2 DEF Reselected, IsOpen
    <3>4. e.device # NoDevice => e.device.name = device.name /\ device # NoDevice
      BY EnforcedFacts DEF SetupInv, DeviceOK
    <3> QED
      BY <2>1, <3>3, <3>4 DEF BannerInv, ChangeListenerCallback
  <2>2. ASSUME NEW lost \in BOOLEAN, AudioDeviceError(lost) PROVE FALSE
    BY <2>2 DEF AudioDeviceError, statusVars
  <2>3. CASE SelectDevice \/ Reopen \/ Verdict
    BY <2>3 DEF SelectDevice, Reopen, Verdict, statusVars
  <2>4. CASE HandleAsyncUpdate
    BY <2>4 DEF HandleAsyncUpdate
  <2>5. CASE UNCHANGED <<managerVars, ceilingVars, statusVars, selected, message>>
    BY <2>5 DEF statusVars
  <2> QED
    BY <2>1, <2>2, <2>3, <2>4, <2>5, SetupSteps
<1> QED
  BY InitSetup, NextSetup, NextBanner, <1>1, PTL DEF Spec, BannerStays

-----------------------------------------------------------------------------
(* The fallback window. *)

(* The reopens of the window that is open are the last attemptsInWindow, and *)
(* the first of these opened it. The windows before it lie a whole Window    *)
(* further back, and none of them had more than MaxAttempts.                 *)
First == Len(reopens) - attemptsInWindow + 1

HistoryOK ==
  /\ now \in 0 .. Horizon /\ counterAtStart \in 0 .. Modulus - 1
  /\ reopens \in Seq(Nat)
  /\ \A i \in DOMAIN reopens : reopens[i] <= now
  /\ \A i, j \in DOMAIN reopens : i <= j => reopens[i] <= reopens[j]

WindowOK ==
  IF windowActive
  THEN /\ attemptsInWindow \in 1 .. MaxAttempts
       /\ attemptsInWindow <= Len(reopens)
       /\ windowStart = (counterAtStart + reopens[First]) % Modulus
       /\ First > MaxAttempts => reopens[First] - reopens[First - MaxAttempts] >= Window
  ELSE attemptsInWindow = 0 /\ reopens = << >>

ChurnInv == HistoryOK /\ WindowOK /\ ChurnBounded

(* What the program takes for the time from a to b: the difference, modulo m, *)
(* of the readings of a counter that was at c at first and wraps at m.        *)
Elapsed(m, c, a, b) == (((c + b) % m) + m - ((c + a) % m)) % m

(* It is the time, if that is less than one turn. *)
LEMMA WrappedDifference ==
  ASSUME NEW m \in Nat \ {0}, NEW c \in Nat, NEW a \in Nat, NEW b \in Nat,
         a <= b, b - a < m
  PROVE  Elapsed(m, c, a, b) = b - a
<1> DEFINE x == (c + a) \div m
           y == (c + b) \div m
           p == (c + a) % m
           q == (c + b) % m
<1>1. /\ x \in Int /\ p \in 0 .. m - 1 /\ c + a = m * x + p
      /\ y \in Int /\ q \in 0 .. m - 1 /\ c + b = m * y + q
  OBVIOUS
<1>2. m * y - m * x = (b - a) + p - q
  BY <1>1
<1>6. Elapsed(m, c, a, b) = (q + m - p) % m
  BY DEF Elapsed
<1> HIDE DEF x, y, p, q
<1>3. y - x \in {0, 1}
  <2>1. m * (y - x) = (b - a) + p - q
    BY <1>1, <1>2
  <2>2. m * (y - x) < 2 * m /\ m * (y - x) > - m
    BY <2>1, <1>1
  <2>3. y - x < 2
    <3>1. SUFFICES ASSUME y - x >= 2 PROVE FALSE
      BY <1>1
    <3>2. m * (y - x) >= m * 2
      BY <3>1, <1>1
    <3> QED
      BY <3>2, <2>2, <1>1
  <2>4. y - x > -1
    <3>1. SUFFICES ASSUME y - x <= -1 PROVE FALSE
      BY <1>1
    <3>2. m * (y - x) <= m * (-1)
      BY <3>1, <1>1
    <3> QED
      BY <3>2, <2>2, <1>1
  <2> QED
    BY <2>3, <2>4, <1>1
<1>4. CASE y - x = 0
  <2>1. q - p = b - a
    BY <1>1, <1>2, <1>4
  <2>2. q + m - p = m + (b - a)
    BY <2>1, <1>1
  <2>3. (m + (b - a)) % m = b - a
    BY b - a \in 0 .. m - 1
  <2>4. (q + m - p) % m = b - a
    BY <2>2, <2>3
  <2> QED
    BY <2>4, <1>6
<1>5. CASE y - x = 1
  <2>1. y = x + 1
    BY <1>5, <1>1
  <2>2. m * y = m * x + m
    BY <2>1, <1>1
  <2>3. q + m - p = b - a
    BY <2>2, <1>1, <1>2
  <2>4. (b - a) % m = b - a
    BY b - a \in 0 .. m - 1
  <2>5. (q + m - p) % m = b - a
    BY <2>3, <2>4
  <2> QED
    BY <2>5, <1>6
<1> QED
  BY <1>3, <1>4, <1>5

(* So the counter tells the age of a window exactly, whatever it read when   *)
(* the program started.                                                      *)
LEMMA AgeOfWindow ==
  ASSUME ChurnInv, windowActive
  PROVE  /\ First \in DOMAIN reopens /\ reopens[First] \in Nat /\ reopens[First] <= now
         /\ (Counter + Modulus - windowStart) % Modulus = now - reopens[First]
<1>1. First \in DOMAIN reopens /\ reopens[First] \in Nat /\ reopens[First] <= now
  BY DEF ChurnInv, HistoryOK, WindowOK, First
<1>2. /\ Modulus \in Nat \ {0} /\ counterAtStart \in Nat /\ now \in Nat
      /\ now - reopens[First] < Modulus
  BY <1>1, ModulusAssumption DEF ChurnInv, HistoryOK
<1>3. windowStart = (counterAtStart + reopens[First]) % Modulus
  BY DEF ChurnInv, WindowOK
<1> HIDE DEF First
<1>5. reopens[First] \in Nat
  BY <1>1
<1>4. Elapsed(Modulus, counterAtStart, reopens[First], now) = now - reopens[First]
  BY <1>1, <1>2, <1>5, WrappedDifference
<1>6. (Counter + Modulus - windowStart) % Modulus
        = Elapsed(Modulus, counterAtStart, reopens[First], now)
  BY <1>3 DEF Counter, Elapsed
<1> QED
  BY <1>1, <1>4, <1>6

LEMMA InitChurn == Init => ChurnInv
  BY ModulusAssumption, StartsAssumption
     DEF Init, ChurnInv, HistoryOK, WindowOK, ChurnBounded

(* Only an update that finds the device gone touches the window and the      *)
(* history, and only a tick the clock.                                       *)
LEMMA WindowSteps ==
  ASSUME [Next]_vars
  PROVE  \/ HandleAsyncUpdate
         \/ Tick
         \/ UNCHANGED <<windowVars, clockVars, reopens>>
<1>1. ASSUME NEW lost \in BOOLEAN, AudioDeviceError(lost)
      PROVE  UNCHANGED <<windowVars, clockVars, reopens>>
  BY <1>1 DEF AudioDeviceError
<1>2. CASE TriggerAsyncUpdate \/ SimulateDeviceLoss \/ SelectDevice
  BY <1>2 DEF TriggerAsyncUpdate, SimulateDeviceLoss, SelectDevice
<1>3. CASE Reopen \/ Verdict \/ ChangeListenerCallback
  BY <1>3 DEF Reopen, Verdict, ChangeListenerCallback
<1>4. CASE UNCHANGED vars
  BY <1>4 DEF vars
<1> QED
  BY <1>1, <1>2, <1>3, <1>4 DEF Next, DeviceThread, MessageLoop

(* The arithmetic of indices: entry n + 1 is the last of a window that began *)
(* at f, and the entry 2 * m - 1 before it comes m before f or earlier.      *)
LEMMA TwoWindowsBack ==
  ASSUME NEW m \in Nat \ {0}, NEW n \in Nat, NEW a \in 1 .. m, NEW f, f = n + 2 - a,
         NEW i \in 1 .. n + 1, i + 2 * m - 1 = n + 1
  PROVE  f \in 1 .. n + 1 /\ f > m /\ f - m \in 1 .. n + 1 /\ i <= f - m
OBVIOUS

LEMMA SpanCoversGap ==
  ASSUME NEW p \in Nat, NEW q \in Nat, NEW r \in Nat, NEW s \in Nat, NEW w \in Nat,
         q - r >= w, q <= p, s <= r
  PROVE  p - s >= w
OBVIOUS

LEMMA TopOfInterval ==
  ASSUME NEW n \in Nat, NEW k \in 1 .. n + 1
  PROVE  k <= n \/ k = n + 1
OBVIOUS

(* An attempt is recorded at the present time, as the last of the window it  *)
(* falls in: the one that is open, or one it opens.                          *)
LEMMA AttemptChurn ==
  ASSUME ChurnInv, HandleAsyncUpdate, reopens' = Append(reopens, now), Attempts < MaxAttempts,
         windowActive', attemptsInWindow' = Attempts + 1,
         windowStart' = IF NeedsWindow THEN Counter ELSE windowStart
  PROVE  ChurnInv'
<1> DEFINE n == Len(reopens)
<1>1. /\ now' = now /\ counterAtStart' = counterAtStart
      /\ now \in 0 .. Horizon /\ counterAtStart \in 0 .. Modulus - 1
  BY DEF HandleAsyncUpdate, clockVars, ChurnInv, HistoryOK
<1>2. /\ reopens \in Seq(Nat) /\ n \in Nat /\ DOMAIN reopens = 1 .. n
      /\ now \in Nat
      /\ reopens' \in Seq(Nat) /\ Len(reopens') = n + 1 /\ DOMAIN reopens' = 1 .. n + 1
      /\ \A i \in 1 .. n : reopens'[i] = reopens[i] /\ reopens[i] \in Nat
      /\ reopens'[n + 1] = now
  BY <1>1, ModulusAssumption DEF ChurnInv, HistoryOK
<1> HIDE DEF n
<1>3. HistoryOK'
  BY <1>1, <1>2 DEF ChurnInv, HistoryOK
<1>4. MaxAttempts \in Nat \ {0} /\ Window \in Nat \ {0}
  BY WindowAssumption
<1>7. 2 * MaxAttempts = MaxAttempts + MaxAttempts
  BY <1>4
<1>5. WindowOK'
  <2>1. CASE NeedsWindow
    <3>1. attemptsInWindow' = 1 /\ First' = n + 1
      BY <2>1, <1>2 DEF Attempts, First
    <3>2. windowStart' = (counterAtStart' + reopens'[First']) % Modulus
      BY <2>1, <3>1, <1>1, <1>2 DEF Counter
    <3>3. ASSUME First' > MaxAttempts
          PROVE  reopens'[First'] - reopens'[First' - MaxAttempts] >= Window
      <4>1. windowActive
        BY <3>1, <3>3, <1>2, <1>4 DEF ChurnInv, WindowOK, n
      <4>2. now - reopens[First] >= Window /\ First \in 1 .. n
        BY <4>1, <2>1, <1>2, AgeOfWindow DEF NeedsWindow
      <4>3. n + 1 - MaxAttempts \in 1 .. n /\ n + 1 - MaxAttempts <= First
        BY <4>1, <3>1, <3>3, <1>2, <1>4 DEF ChurnInv, WindowOK, First, n
      <4>4. reopens[n + 1 - MaxAttempts] <= reopens[First]
        BY <4>2, <4>3, <1>2 DEF ChurnInv, HistoryOK
      <4>5. reopens[First] \in Nat /\ reopens[n + 1 - MaxAttempts] \in Nat /\ now \in Nat
        BY <4>2, <4>3, <1>2
      <4>6. now - reopens[n + 1 - MaxAttempts] >= Window
        BY <4>2, <4>4, <4>5, <1>4
      <4>7. reopens'[n + 1] = now /\ reopens'[n + 1 - MaxAttempts] = reopens[n + 1 - MaxAttempts]
        BY <4>3, <1>2
      <4>8. reopens'[First'] = now /\ reopens'[First' - MaxAttempts] = reopens[n + 1 - MaxAttempts]
        <5>1. First' = n + 1
          BY <3>1
        <5>2. First' - MaxAttempts = n + 1 - MaxAttempts
          BY <5>1, <1>2, <1>4
        <5>3. reopens'[First'] = now
          BY <4>7, <5>1
        <5> QED
          BY <4>7, <5>2, <5>3
      <4> QED
        BY <4>6, <4>8
    <3> QED
      BY <3>1, <3>2, <3>3, <1>2, <1>4 DEF WindowOK
  <2>2. CASE ~ NeedsWindow
    <3>1. windowActive /\ attemptsInWindow' = attemptsInWindow + 1 /\ attemptsInWindow < MaxAttempts
          /\ windowStart' = windowStart
      BY <2>2 DEF NeedsWindow, Attempts
    <3>2. attemptsInWindow \in 1 .. MaxAttempts /\ attemptsInWindow <= n
      BY <3>1 DEF ChurnInv, WindowOK, n
    <3>3. First' = First /\ First \in 1 .. n
      BY <3>1, <3>2, <1>2, <1>4 DEF First, n
    <3>4. reopens'[First] = reopens[First]
      BY <3>3, <1>2
    <3>5. windowStart' = (counterAtStart' + reopens'[First']) % Modulus
      BY <3>1, <3>3, <3>4, <1>1 DEF ChurnInv, WindowOK
    <3>6. First > MaxAttempts => reopens'[First] - reopens'[First - MaxAttempts] >= Window
      <4>1. First > MaxAttempts => First - MaxAttempts \in 1 .. n
        BY <3>3, <1>2, <1>4
      <4> QED
        BY <4>1, <3>1, <3>4, <1>2 DEF ChurnInv, WindowOK
    <3> QED
      <4>1. attemptsInWindow' \in 1 .. MaxAttempts /\ attemptsInWindow' <= Len(reopens')
        BY <3>1, <3>2, <1>2, <1>4
      <4>2. First' > MaxAttempts => reopens'[First'] - reopens'[First' - MaxAttempts] >= Window
        BY <3>3, <3>6
      <4> QED
        BY <4>1, <4>2, <3>5 DEF WindowOK
  <2> QED
    BY <2>1, <2>2
<1>6. ChurnBounded'
  <2>1. SUFFICES ASSUME NEW i \in 1 .. n + 1, i + 2 * MaxAttempts - 1 \in 1 .. n + 1
                 PROVE  reopens'[i + 2 * MaxAttempts - 1] - reopens'[i] >= Window
    BY <1>2 DEF ChurnBounded
  <2> DEFINE last == i + 2 * MaxAttempts - 1
  <2>4. last = ((i + MaxAttempts) + MaxAttempts) - 1 /\ last \in 1 .. n + 1 /\ i \in Nat
    BY <2>1, <1>2, <1>4, <1>7
  <2> HIDE DEF last
  <2>2. CASE last <= n
    <3>1. i \in 1 .. n /\ last \in 1 .. n
      BY <2>4, <2>2, <1>2, <1>4
    <3> QED
      BY <3>1, <1>2 DEF ChurnInv, ChurnBounded, last
  <2>3. CASE last = n + 1
    <3>1. windowActive' /\ attemptsInWindow' \in 1 .. MaxAttempts
          /\ First' = n + 2 - attemptsInWindow'
      BY <1>2, <1>5 DEF WindowOK, First
    <3>2. First' \in 1 .. n + 1 /\ First' > MaxAttempts /\ First' - MaxAttempts \in 1 .. n + 1
          /\ i <= First' - MaxAttempts
      <4>1. i + 2 * MaxAttempts - 1 = n + 1
        BY <2>3 DEF last
      <4>2. n \in Nat /\ attemptsInWindow' \in 1 .. MaxAttempts /\ MaxAttempts \in Nat \ {0}
        BY <3>1, <1>2, <1>4
      <4> QED
        BY <4>1, <4>2, <3>1, <2>1, TwoWindowsBack
    <3>3. reopens'[First'] - reopens'[First' - MaxAttempts] >= Window
      BY <3>1, <3>2, <1>5 DEF WindowOK
    <3>7. \A j, k \in 1 .. n + 1 : j <= k => reopens'[j] <= reopens'[k]
      BY <1>2, <1>3 DEF HistoryOK
    <3>8. n + 1 \in 1 .. n + 1 /\ First' <= n + 1
      BY <3>2, <1>2
    <3>4. reopens'[First'] <= reopens'[n + 1] /\ reopens'[i] <= reopens'[First' - MaxAttempts]
      BY <3>2, <3>7, <3>8, <2>1
    <3>5. /\ reopens'[First'] \in Nat /\ reopens'[n + 1] \in Nat
          /\ reopens'[i] \in Nat /\ reopens'[First' - MaxAttempts] \in Nat
      BY <3>2, <2>1, <1>2
    <3>6. reopens'[n + 1] - reopens'[i] >= Window
      BY <3>3, <3>4, <3>5, <1>4, SpanCoversGap
    <3> QED
      BY <3>6, <2>3 DEF last
  <2>5. last <= n \/ last = n + 1
    BY <2>4, <1>2, TopOfInterval
  <2> QED
    BY <2>2, <2>3, <2>5
<1> QED
  BY <1>3, <1>5, <1>6 DEF ChurnInv

LEMMA NextChurn == ChurnInv /\ [Next]_vars => ChurnInv'
<1> SUFFICES ASSUME ChurnInv, [Next]_vars PROVE ChurnInv'
  OBVIOUS
<1>1. CASE HandleAsyncUpdate
  <2>1. CASE DeviceGone /\ Attempts < MaxAttempts
    <3>1. /\ reopens' = Append(reopens, now) /\ windowActive' = TRUE
          /\ attemptsInWindow' = Attempts + 1
          /\ windowStart' = IF NeedsWindow THEN Counter ELSE windowStart
      <4>1. ~ (Attempts >= MaxAttempts)
        BY <2>1, WindowAssumption DEF Attempts, ChurnInv, WindowOK
      <4> QED
        BY <4>1, <2>1, <1>1 DEF HandleAsyncUpdate
    <3> QED
      BY <3>1, <2>1, <1>1, AttemptChurn
  <2>2. CASE DeviceGone /\ ~ (Attempts < MaxAttempts)
    <3>1. Attempts >= MaxAttempts
      BY <2>2, WindowAssumption DEF Attempts, ChurnInv, WindowOK
    <3>2. ~ NeedsWindow /\ windowActive
      BY <3>1, WindowAssumption DEF Attempts, NeedsWindow
    <3>3. UNCHANGED <<windowStart, attemptsInWindow, reopens, clockVars>> /\ windowActive' = TRUE
      BY <3>1, <3>2, <2>2, <1>1 DEF HandleAsyncUpdate, Attempts
    <3> QED
      BY <3>2, <3>3 DEF ChurnInv, HistoryOK, WindowOK, First, ChurnBounded, clockVars
  <2>3. CASE ~ DeviceGone
    <3>1. UNCHANGED <<windowVars, reopens, clockVars>>
      BY <2>3, <1>1 DEF HandleAsyncUpdate
    <3> QED
      BY <3>1 DEF ChurnInv, HistoryOK, WindowOK, First, ChurnBounded, clockVars, windowVars
  <2> QED
    BY <2>1, <2>2, <2>3
<1>2. CASE Tick
  <2>1. now < Horizon /\ now' = now + 1 /\ UNCHANGED <<windowVars, counterAtStart, reopens>>
    BY <1>2 DEF Tick
  <2>2. HistoryOK'
    BY <2>1, ModulusAssumption DEF ChurnInv, HistoryOK
  <2> QED
    BY <2>1, <2>2 DEF ChurnInv, WindowOK, First, ChurnBounded, windowVars
<1>3. CASE UNCHANGED <<windowVars, clockVars, reopens>>
  BY <1>3 DEF ChurnInv, HistoryOK, WindowOK, First, ChurnBounded, clockVars, windowVars
<1> QED
  BY <1>1, <1>2, <1>3, WindowSteps

(* However often and in whatever rhythm its devices fail, the engine reopens *)
(* fewer than 2 * MaxAttempts times in any span as long as a window, and the *)
(* wrap of the millisecond counter does not change that.                     *)
THEOREM ChurnIsBounded == Spec => []ChurnBounded
<1>1. ChurnInv => ChurnBounded
  BY DEF ChurnInv
<1> QED
  BY InitChurn, NextChurn, <1>1, PTL DEF Spec

(* A loss goes unanswered only when MaxAttempts devices have been reopened   *)
(* within the last window.                                                   *)
THEOREM GivesUpOnlyInChurn == Spec => GivesUpOnlyWhenChurning
<1> DEFINE Recent == {i \in DOMAIN reopens : now - reopens[i] < Window}
<1>1. ChurnInv /\ [Next]_vars
        => [DeviceGone /\ asyncDue /\ ~ asyncDue' /\ message' = "idle" =>
              Cardinality(Recent) >= MaxAttempts]_vars
  <2> SUFFICES ASSUME ChurnInv, [Next]_vars, DeviceGone, asyncDue, ~ asyncDue', message' = "idle"
               PROVE  Cardinality(Recent) >= MaxAttempts
    OBVIOUS
  <2>1. HandleAsyncUpdate
    <3>1. ASSUME NEW lost \in BOOLEAN, AudioDeviceError(lost) PROVE asyncDue' = asyncDue
      BY <3>1 DEF AudioDeviceError
    <3>2. CASE TriggerAsyncUpdate \/ SimulateDeviceLoss \/ SelectDevice
      BY <3>2 DEF TriggerAsyncUpdate, SimulateDeviceLoss, SelectDevice
    <3>3. CASE Reopen \/ Verdict \/ ChangeListenerCallback \/ Tick
      BY <3>3 DEF Reopen, Verdict, ChangeListenerCallback, Tick, latchVars
    <3>4. CASE UNCHANGED vars
      BY <3>4 DEF vars, latchVars
    <3> QED
      BY <3>1, <3>2, <3>3, <3>4 DEF Next, DeviceThread, MessageLoop
  <2>2. Attempts >= MaxAttempts
    BY <2>1 DEF HandleAsyncUpdate
  <2>3. /\ MaxAttempts \in Nat \ {0} /\ Window \in Nat \ {0}
        /\ ~ NeedsWindow /\ windowActive /\ attemptsInWindow = MaxAttempts
    BY <2>2, WindowAssumption DEF Attempts, NeedsWindow, ChurnInv, WindowOK
  <2>4. now - reopens[First] < Window /\ First \in DOMAIN reopens /\ now \in Nat
    BY <2>3, AgeOfWindow, ModulusAssumption DEF NeedsWindow, ChurnInv, HistoryOK
  <2>5. /\ Len(reopens) \in Nat /\ DOMAIN reopens = 1 .. Len(reopens)
        /\ \A i \in DOMAIN reopens : reopens[i] \in Nat
    BY DEF ChurnInv, HistoryOK
  <2>6. First .. Len(reopens) \subseteq Recent
    <3> SUFFICES ASSUME NEW i \in First .. Len(reopens) PROVE i \in Recent
      OBVIOUS
    <3>1. i \in DOMAIN reopens /\ First <= i
      BY <2>4, <2>5
    <3>2. reopens[First] <= reopens[i]
      BY <3>1, <2>4 DEF ChurnInv, HistoryOK
    <3> QED
      BY <3>1, <3>2, <2>3, <2>4, <2>5
  <2>7. IsFiniteSet(First .. Len(reopens))
        /\ Cardinality(First .. Len(reopens)) = MaxAttempts
    <3>1. First \in Int /\ Len(reopens) \in Int /\ ~ (First > Len(reopens))
          /\ Len(reopens) - First + 1 = MaxAttempts
      BY <2>3, <2>4, <2>5 DEF First
    <3> QED
      BY <3>1, FS_Interval
  <2>8. IsFiniteSet(Recent)
    <3>1. IsFiniteSet(1 .. Len(reopens)) /\ Recent \in SUBSET (1 .. Len(reopens))
      BY <2>5, FS_Interval
    <3> QED
      BY <3>1, FS_Subset
  <2>9. Cardinality(Recent) \in Nat /\ MaxAttempts <= Cardinality(Recent)
    BY <2>6, <2>7, <2>8, FS_Subset, FS_CardinalityType
  <2> QED
    BY <2>9, <2>3
<1> QED
  BY InitChurn, NextChurn, <1>1, PTL DEF Spec, GivesUpOnlyWhenChurning

-----------------------------------------------------------------------------
(* The triple buffer that carries a snapshot of each block to the panel. *)


(* What each party finds in the slot it owns. The reader's slot and the     *)
(* middle one are always whole, which needs the three slots to be distinct; *)
(* that the last committed block is in one of the two needs the fresh bit.  *)
Owners ==
  /\ writeSlot # readSlot
  /\ writeSlot # ready.index
  /\ readSlot # ready.index

Contents ==
  /\ slots[readSlot][1] = slots[readSlot][2]
  /\ slots[readSlot][1] <= committed
  /\ slots[ready.index][1] = slots[ready.index][2]
  /\ NothingMissed

WriterProgress ==
  /\ writer # "idle" => blockCounter >= 1 /\ slots[writeSlot][1] = blockCounter
  /\ writer = "second" => slots[writeSlot][2] = blockCounter

ReaderProgress ==
  /\ reader = "swapping" => ready.fresh
  /\ reader \in {"first", "second"} => loaded[1] = slots[readSlot][1]
  /\ reader = "second" => loaded[2] = slots[readSlot][2]
  /\ loaded[1] <= slots[readSlot][1]
  /\ loaded[2] <= slots[readSlot][2]

IInv == TypeOK /\ Owners /\ Contents /\ WriterProgress /\ ReaderProgress

(* The register view of the initial state, and the invariant, hold at start. *)
LEMMA InitIInv == BufferInit => IInv
  BY MaxBlocksAssumption
     DEF BufferInit, IInv, TypeOK, Owners, Contents, WriterProgress, ReaderProgress,
         NothingMissed, committed, SlotIndex, Empty

(* Storing half a snapshot disturbs the writer's own slot only. *)
LEMMA WriteIInv ==
  ASSUME IInv, WriteFirstHalf \/ WriteSecondHalf
  PROVE  /\ IInv'
         /\ slots'[readSlot] = slots[readSlot]
         /\ slots'[ready.index] = slots[ready.index]
         /\ committed' = committed
<1> USE MaxBlocksAssumption
    DEF IInv, TypeOK, Owners, Contents, WriterProgress, ReaderProgress,
        NothingMissed, committed, SlotIndex
<1>1. CASE WriteFirstHalf
  BY <1>1 DEF WriteFirstHalf
<1>2. CASE WriteSecondHalf
  BY <1>2 DEF WriteSecondHalf
<1> QED
  BY <1>1, <1>2

(* Every step of either thread preserves the invariant. *)
LEMMA NextIInv == IInv /\ [BufferNext]_bufferVars => IInv'
<1> SUFFICES ASSUME IInv, [BufferNext]_bufferVars PROVE IInv'
  OBVIOUS
<1>1. CASE WriteFirstHalf \/ WriteSecondHalf
  BY <1>1, WriteIInv
<1> USE MaxBlocksAssumption
    DEF IInv, TypeOK, Owners, Contents, WriterProgress, ReaderProgress,
        NothingMissed, committed, SlotIndex
<1>2. CASE Commit
  BY <1>2 DEF Commit
<1>3. CASE ReadStale
  BY <1>3 DEF ReadStale
<1>4. CASE ReadFresh
  BY <1>4 DEF ReadFresh
<1>5. CASE ReadExchange
  BY <1>5 DEF ReadExchange
<1>6. CASE UseFirstHalf
  BY <1>6 DEF UseFirstHalf
<1>7. CASE UseSecondHalf
  BY <1>7 DEF UseSecondHalf
<1>8. CASE FrameDone
  BY <1>8 DEF FrameDone
<1>9. CASE UNCHANGED bufferVars
  BY <1>9 DEF bufferVars
<1> QED
  BY <1>1, <1>2, <1>3, <1>4, <1>5, <1>6, <1>7, <1>8, <1>9 DEF BufferNext, Audio, Frame

(* The invariant holds in every reachable state. *)
LEMMA InvariantHolds == BufferSpec => []IInv
  BY InitIInv, NextIInv, PTL DEF BufferSpec

(* Every variable of the buffer stays in its range. *)
THEOREM TypeCorrect == BufferSpec => []TypeOK
<1>1. IInv => TypeOK
  BY DEF IInv
<1> QED
  BY InvariantHolds, <1>1, PTL

(* The writer's, the reader's and the middle slot are always a permutation. *)
THEOREM OneOwnerEach == BufferSpec => []SingleOwner
<1>1. IInv => SingleOwner
  BY DEF IInv, TypeOK, Owners, SingleOwner, SlotIndex
<1> QED
  BY InvariantHolds, <1>1, PTL

(* No frame shows half of one block's snapshot and half of another's. *)
THEOREM NoTearing == BufferSpec => []NeverTorn
<1>1. IInv => NeverTorn
  BY DEF IInv, Contents, ReaderProgress, NeverTorn
<1> QED
  BY InvariantHolds, <1>1, PTL

(* Frames never go back in time. *)
THEOREM Monotonic == BufferSpec => NeverBackwards
<1>1. IInv /\ [BufferNext]_bufferVars
        => [\A half \in 1 .. 2 : loaded'[half] >= loaded[half]]_bufferVars
  <2> SUFFICES ASSUME IInv, BufferNext
               PROVE  \A half \in 1 .. 2 : loaded'[half] >= loaded[half]
    OBVIOUS
  <2> USE DEF IInv, TypeOK, ReaderProgress, SlotIndex
  <2>1. CASE UseFirstHalf
    BY <2>1 DEF UseFirstHalf
  <2>2. CASE UseSecondHalf
    BY <2>2 DEF UseSecondHalf
  <2>3. CASE ~ (UseFirstHalf \/ UseSecondHalf)
    <3>1. loaded' = loaded
      BY <2>3 DEF BufferNext, Audio, Frame, WriteFirstHalf, WriteSecondHalf, Commit,
                  ReadStale, ReadFresh, ReadExchange, FrameDone
    <3> QED
      BY <3>1
  <2> QED
    BY <2>1, <2>2, <2>3
<1> QED
  BY InvariantHolds, <1>1, PTL DEF BufferSpec, NeverBackwards
 
(* The initial state of the buffer is that of the register. *)
LEMMA InitMaps == BufferInit => Register!RegisterInit
  BY DEF BufferInit, Register!RegisterInit, committed, Empty, SlotIndex

(* Every step of the buffer is a write, a read or a stutter of the register. *)
LEMMA StepMaps ==
  IInv /\ [BufferNext]_bufferVars => [Register!RegisterNext]_(Register!registerVars)
<1> SUFFICES ASSUME IInv, [BufferNext]_bufferVars
             PROVE  Register!RegisterNext \/ UNCHANGED Register!registerVars
  OBVIOUS
<1> USE DEF Register!RegisterNext, Register!registerVars
<1>1. CASE WriteFirstHalf \/ WriteSecondHalf
  <2>1. readSlot' = readSlot
    BY <1>1 DEF WriteFirstHalf, WriteSecondHalf
  <2> QED
    BY <1>1, <2>1, WriteIInv
<1> USE MaxBlocksAssumption DEF IInv, TypeOK, SlotIndex, committed
<1>2. CASE Commit
  BY <1>2 DEF Commit, WriterProgress, Register!Write
<1>3. CASE ReadExchange
  BY <1>3 DEF ReadExchange, ReaderProgress, Contents, NothingMissed, Register!Read
<1>4. CASE ReadStale \/ ReadFresh \/ UseFirstHalf \/ UseSecondHalf \/ FrameDone
  BY <1>4 DEF ReadStale, ReadFresh, UseFirstHalf, UseSecondHalf, FrameDone
<1>5. CASE UNCHANGED bufferVars
  BY <1>5 DEF bufferVars
<1> QED
  BY <1>1, <1>2, <1>3, <1>4, <1>5 DEF BufferNext, Audio, Frame

(* A read that returns has the latest value, even if it adopted nothing.    *)
LEMMA ReadsLatest ==
  IInv /\ [BufferNext]_bufferVars => [ReadReturns => Register!Read]_bufferVars
<1> SUFFICES ASSUME IInv, BufferNext, ReadReturns PROVE Register!Read
  OBVIOUS
<1> USE DEF IInv, TypeOK, Owners, Contents, ReaderProgress, NothingMissed, committed,
            SlotIndex, ReadReturns, Register!Read
<1>1. CASE ReadStale
  BY <1>1 DEF ReadStale
<1>2. CASE ReadExchange
  BY <1>2 DEF ReadExchange
<1>3. ReadStale \/ ReadExchange
  BY DEF BufferNext, Audio, Frame, WriteFirstHalf, WriteSecondHalf, Commit, ReadFresh,
         UseFirstHalf, UseSecondHalf, FrameDone
<1> QED
  BY <1>1, <1>2, <1>3

(* The triple buffer implements the atomic register. *)
THEOREM BufferIsRegister == BufferSpec => ImplementsRegister
<1>1. BufferInit => Register!RegisterInit
  BY InitMaps
<1>2. IInv /\ [BufferNext]_bufferVars => [Register!RegisterNext]_(Register!registerVars)
  BY StepMaps
<1>3. IInv /\ [BufferNext]_bufferVars => [ReadReturns => Register!Read]_bufferVars
  BY ReadsLatest
<1> QED
  BY InvariantHolds, <1>1, <1>2, <1>3, PTL
     DEF BufferSpec, ImplementsRegister, Register!RegisterSpec
=============================================================================
