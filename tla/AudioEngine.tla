---------------------------- MODULE AudioEngine -----------------------------
(***************************************************************************)
(* app/AudioEngine: keeping an audio device open. A device error is        *)
(* latched by the device thread and answered later on the message thread   *)
(* by reopening the system default, a bounded number of times per window;  *)
(* every open or change of the setup is held to a ceiling on the sample    *)
(* rate; the outcome is a status level the UI shows as a banner.           *)
(*                                                                         *)
(* The device manager is a library. What it does is a choice: an open may  *)
(* fail or land on any rate the device offers, a request for a rate may be *)
(* refused, and each change of the setup is broadcast later, once for any  *)
(* number of changes. A device that starts runs audioDeviceAboutToStart.   *)
(***************************************************************************)
EXTENDS Naturals, Sequences, FiniteSets, FiniteSetsExt

CONSTANTS
  Devices,      \* device names
  Offered,      \* Offered[d]: the sample rates device d offers
  NoDevice,     \* nullptr
  Ceiling,      \* kMaxSupportedSampleRate
  MaxAttempts,  \* kMaxFallbackAttempts
  Window,       \* kFallbackWindowMs, in ticks
  Modulus,      \* the millisecond counter wraps here
  Starts,       \* what it may read when the program starts
  Horizon,      \* bound on the time
  MaxErrors,    \* bound on the errors and simulated losses
  MaxSelections \* bound on the changes of device by the user or the library

ASSUME OfferedAssumption == \A d \in Devices : Offered[d] \subseteq Nat \ {0}
ASSUME WindowAssumption == MaxAttempts \in Nat \ {0} /\ Window \in Nat \ {0}
\* No device stays healthy for the 49 days after which the counter repeats.
ASSUME ModulusAssumption == Modulus \in Nat /\ Horizon \in Nat /\ Modulus > Horizon
ASSUME StartsAssumption == Starts \subseteq 0 .. Modulus - 1

VARIABLES
  device,                  \* NoDevice or [name, rate, open]
  changeDue,               \* a broadcast of the device manager is queued
  deviceErrored, simulatedLoss,
  raising,                 \* the device thread has latched, not yet triggered
  asyncDue,                \* handleAsyncUpdate is queued
  message,                 \* message thread: "idle", "reopen", "verdict"
  windowActive, windowStart, attemptsInWindow,
  currentDeviceStatus, fallbackDeviceName,
  clamp,                   \* NoClamp or [from, to, name]
  refusedSampleRate,       \* 0: none
  now, counterAtStart,
  reopens,                 \* history: the time each fallback began
  selected,                \* history: the setup was changed since the last reopen
  errors, selections

managerVars == <<device, changeDue>>
latchVars == <<deviceErrored, simulatedLoss, raising, asyncDue>>
windowVars == <<windowActive, windowStart, attemptsInWindow>>
statusVars == <<currentDeviceStatus, fallbackDeviceName>>
ceilingVars == <<clamp, refusedSampleRate>>
clockVars == <<now, counterAtStart>>
boundVars == <<errors, selections>>
vars == <<managerVars, latchVars, message, windowVars, statusVars, ceilingVars,
          clockVars, reopens, selected, boundVars>>

NoClamp == [from |-> 0, to |-> 0, name |-> NoDevice]

IsOpen(d) == d # NoDevice /\ d.open

At(name, rate) == [name |-> name, rate |-> rate, open |-> TRUE]

(* What an attempt to open a device may come to. *)
Openings(names) ==
  {NoDevice} \union UNION {{At(d, r) : r \in Offered[d]} : d \in names}

(* getMillisecondCounter. *)
Counter == (counterAtStart + now) % Modulus

-----------------------------------------------------------------------------
(* enforceSampleRateCeiling on device d with clamp record c: the results it  *)
(* may have. asked: setAudioDeviceSetup was called, which broadcasts;        *)
(* started: a device started; acted: the value returned.                     *)

Result(d, c, refused, asked, started, acted) ==
  [device |-> d, clamp |-> c, refused |-> refused, asked |-> asked,
   started |-> started, acted |-> acted]

ClampStillApplies(d, c) == c # NoClamp /\ d.name = c.name /\ d.rate = c.to

(* Fault in KeptClamp: a compliant rate is taken for an unclamped device. *)
KeptClampNever(d, c) == NoClamp

KeptClamp(d, c) == IF ClampStillApplies(d, c) THEN c ELSE NoClamp

EnforceSampleRateCeiling(d, c, refused) ==
  LET asked == \E r \in Offered[d.name] : r <= Ceiling
      (* One attempt, and the driver has the last word. *)
      Landings == IF asked THEN Openings({d.name}) ELSE {d}
  IN  CASE ~ IsOpen(d) -> {Result(d, NoClamp, refused, FALSE, FALSE, FALSE)}
        [] IsOpen(d) /\ d.rate <= Ceiling ->
             {Result(d, KeptClamp(d, c), 0, FALSE, FALSE, FALSE)}
        [] OTHER ->
             {IF IsOpen(after) /\ after.rate <= Ceiling
              THEN Result(after, [from |-> d.rate, to |-> after.rate, name |-> after.name],
                          0, asked, TRUE, TRUE)
              ELSE Result(NoDevice, NoClamp, d.rate, asked, asked /\ after # NoDevice, TRUE) :
                after \in Landings}

(* The constructor: the saved or the default device, held to the ceiling,    *)
(* then the observers. Enabling the MIDI inputs may already broadcast.       *)
Init ==
  /\ \E d \in Openings(Devices) : \E e \in EnforceSampleRateCeiling(d, NoClamp, 0) :
       /\ device = e.device
       /\ clamp = e.clamp
       /\ refusedSampleRate = e.refused
       /\ currentDeviceStatus = IF e.device # NoDevice THEN "ok" ELSE "dead"
  /\ changeDue \in BOOLEAN
  /\ deviceErrored = FALSE /\ simulatedLoss = FALSE /\ raising = FALSE /\ asyncDue = FALSE
  /\ message = "idle"
  /\ windowActive = FALSE /\ windowStart = 0 /\ attemptsInWindow = 0
  /\ fallbackDeviceName = NoDevice
  /\ now = 0
  /\ counterAtStart \in Starts
  /\ reopens = << >>
  /\ selected = FALSE
  /\ errors = 0 /\ selections = 0

-----------------------------------------------------------------------------
(* The device thread. *)

(* audioDeviceError: the device is gone, or has had a transient error.       *)
AudioDeviceError(lost) ==
  /\ errors < MaxErrors
  /\ ~ raising
  /\ lost => IsOpen(device)
  /\ device' = IF lost THEN [device EXCEPT !.open = FALSE] ELSE device
  /\ deviceErrored' = TRUE
  /\ raising' = TRUE
  /\ errors' = errors + 1
  /\ UNCHANGED <<changeDue, simulatedLoss, asyncDue, message, windowVars, statusVars,
                 ceilingVars, clockVars, reopens, selected, selections>>

TriggerAsyncUpdate ==
  /\ raising
  /\ raising' = FALSE
  /\ asyncDue' = TRUE
  /\ UNCHANGED <<managerVars, deviceErrored, simulatedLoss, message, windowVars,
                 statusVars, ceilingVars, clockVars, reopens, selected, boundVars>>

-----------------------------------------------------------------------------
(* The message thread. *)

SimulateDeviceLoss ==
  /\ message = "idle"
  /\ errors < MaxErrors
  /\ simulatedLoss' = TRUE
  /\ asyncDue' = TRUE
  /\ errors' = errors + 1
  /\ UNCHANGED <<managerVars, deviceErrored, raising, message, windowVars, statusVars,
                 ceilingVars, clockVars, reopens, selected, selections>>

(* The user, or the library on its own, changes the setup; it may fail.      *)
SelectDevice ==
  /\ message = "idle"
  /\ selections < MaxSelections
  /\ device' \in Openings(Devices)
  /\ deviceErrored' = (deviceErrored /\ device' = NoDevice)
  /\ changeDue' = TRUE
  /\ selected' = TRUE
  /\ selections' = selections + 1
  /\ UNCHANGED <<simulatedLoss, raising, asyncDue, message, windowVars, statusVars,
                 ceilingVars, clockVars, reopens, errors>>

(* Fault in NeedsWindow: a start of zero means that no window is open. *)
NeedsWindowSentinel ==
  windowStart = 0 \/ (Counter + Modulus - windowStart) % Modulus >= Window

(* No window is open, or it has elapsed. *)
NeedsWindow ==
  ~ windowActive \/ (Counter + Modulus - windowStart) % Modulus >= Window

(* Fault in Attempts: a new window inherits the attempts of the old one. *)
AttemptsKept == attemptsInWindow

Attempts == IF NeedsWindow THEN 0 ELSE attemptsInWindow

(* Fault in DeviceGone: a device that is there but closed counts as healthy. *)
DeviceGoneIfNull == simulatedLoss \/ (deviceErrored /\ device = NoDevice)

(* A loss reported: by the debug panel, or by the device and still so. *)
DeviceGone == simulatedLoss \/ (deviceErrored /\ ~ IsOpen(device))

(* handleAsyncUpdate up to performFallback, if it comes to that. A transient *)
(* error, or a latch that a restart has cleared, changes nothing.            *)
HandleAsyncUpdate ==
  /\ message = "idle"
  /\ asyncDue
  /\ asyncDue' = FALSE
  /\ simulatedLoss' = FALSE
  /\ deviceErrored' = FALSE
  /\ IF DeviceGone
     THEN /\ windowActive' = TRUE
          /\ windowStart' = IF NeedsWindow THEN Counter ELSE windowStart
          /\ IF Attempts >= MaxAttempts
             THEN /\ attemptsInWindow' = Attempts
                  /\ currentDeviceStatus' = "dead"
                  /\ UNCHANGED <<message, reopens>>
             ELSE /\ attemptsInWindow' = Attempts + 1
                  /\ message' = "reopen"
                  /\ reopens' = Append(reopens, now)
                  /\ UNCHANGED currentDeviceStatus
     ELSE UNCHANGED <<windowVars, currentDeviceStatus, message, reopens>>
  /\ UNCHANGED <<managerVars, raising, fallbackDeviceName, ceilingVars, clockVars,
                 selected, boundVars>>

(* performFallback: the system default, held to the ceiling. *)
Reopen ==
  /\ message = "reopen"
  /\ message' = "verdict"
  /\ \E d \in Openings(Devices) :
       \E e \in EnforceSampleRateCeiling(d, clamp, refusedSampleRate) :
         /\ device' = e.device
         /\ clamp' = e.clamp
         /\ refusedSampleRate' = e.refused
         /\ deviceErrored' = (deviceErrored /\ d = NoDevice)
  /\ changeDue' = TRUE
  /\ selected' = FALSE
  /\ UNCHANGED <<simulatedLoss, raising, asyncDue, windowVars, statusVars, clockVars,
                 reopens, boundVars>>

(* Fault in Verdict: the device the fallback landed on is not remembered. *)
VerdictForgetsName ==
  /\ message = "verdict"
  /\ message' = "idle"
  /\ currentDeviceStatus' = IF IsOpen(device) THEN "fellBack" ELSE "dead"
  /\ UNCHANGED <<managerVars, latchVars, windowVars, fallbackDeviceName, ceilingVars,
                 clockVars, reopens, selected, boundVars>>

(* performFallback, the rest: what the device came to decides the status.    *)
Verdict ==
  /\ message = "verdict"
  /\ message' = "idle"
  /\ IF IsOpen(device)
     THEN currentDeviceStatus' = "fellBack" /\ fallbackDeviceName' = device.name
     ELSE currentDeviceStatus' = "dead" /\ UNCHANGED fallbackDeviceName
  /\ UNCHANGED <<managerVars, latchVars, windowVars, ceilingVars, clockVars, reopens,
                 selected, boundVars>>

(* The banner goes only from fellBack, for another device that is open. *)
Reselected(d) ==
  currentDeviceStatus = "fellBack" /\ IsOpen(d) /\ d.name # fallbackDeviceName

(* Fault in ChangeListenerCallback: the ceiling is left to the other paths. *)
ChangeUnenforced ==
  /\ message = "idle"
  /\ changeDue
  /\ changeDue' = FALSE
  /\ currentDeviceStatus' = IF Reselected(device) THEN "ok" ELSE currentDeviceStatus
  /\ UNCHANGED <<device, ceilingVars, latchVars, message, windowVars, fallbackDeviceName,
                 clockVars, reopens, selected, boundVars>>

ChangeListenerCallback ==
  /\ message = "idle"
  /\ changeDue
  /\ \E e \in EnforceSampleRateCeiling(device, clamp, refusedSampleRate) :
       /\ device' = e.device
       /\ clamp' = e.clamp
       /\ refusedSampleRate' = e.refused
       /\ changeDue' = e.asked
       /\ deviceErrored' = (deviceErrored /\ ~ e.started)
       /\ currentDeviceStatus' =
            IF e.acted /\ e.device = NoDevice THEN "dead"
            ELSE IF Reselected(e.device) THEN "ok"
            ELSE currentDeviceStatus
  /\ UNCHANGED <<simulatedLoss, raising, asyncDue, message, windowVars,
                 fallbackDeviceName, clockVars, reopens, selected, boundVars>>

Tick ==
  /\ now < Horizon
  /\ now' = now + 1
  /\ UNCHANGED <<managerVars, latchVars, message, windowVars, statusVars, ceilingVars,
                 counterAtStart, reopens, selected, boundVars>>

-----------------------------------------------------------------------------
DeviceThread == (\E lost \in BOOLEAN : AudioDeviceError(lost)) \/ TriggerAsyncUpdate

MessageLoop == HandleAsyncUpdate \/ Reopen \/ Verdict \/ ChangeListenerCallback

Next == DeviceThread \/ SimulateDeviceLoss \/ SelectDevice \/ MessageLoop \/ Tick

Spec == Init /\ [][Next]_vars

(* An error callback returns, and the message loop delivers what is queued.  *)
FairSpec ==
  /\ Spec
  /\ WF_vars(TriggerAsyncUpdate)
  /\ WF_vars(HandleAsyncUpdate) /\ WF_vars(Reopen) /\ WF_vars(Verdict)
  /\ WF_vars(ChangeListenerCallback)

-----------------------------------------------------------------------------
(* Properties *)

(* A device that keeps failing cannot make the engine reopen devices without *)
(* end: fewer than twice MaxAttempts times in any span as long as a window.  *)
ChurnBounded ==
  \A i \in DOMAIN reopens :
    i + 2 * MaxAttempts - 1 \in DOMAIN reopens
      => reopens[i + 2 * MaxAttempts - 1] - reopens[i] >= Window

(* A loss goes unanswered only while the engine is cooling down: it has      *)
(* reopened MaxAttempts times within the last window.                        *)
GivesUpOnlyWhenChurning ==
  [][DeviceGone /\ asyncDue /\ ~ asyncDue' /\ message' = "idle" =>
       Cardinality({i \in DOMAIN reopens : now - reopens[i] < Window}) >= MaxAttempts]_vars

quiet == message = "idle" /\ ~ changeDue

(* The engine is never left running above the ceiling, whichever path opened *)
(* the device and wherever a driver lands when asked for another rate.       *)
WithinCeiling == quiet /\ IsOpen(device) => device.rate <= Ceiling

(* The clamp annotation is true, never live together with a refusal, and     *)
(* outlives the broadcast that the clamp itself causes: it goes only when    *)
(* its device, or its rate, does (issue #68).                                *)
ClampIsTrue ==
  /\ [](clamp # NoClamp => refusedSampleRate = 0)
  /\ [](clamp # NoClamp /\ quiet /\ IsOpen(device) => ClampStillApplies(device, clamp))
  /\ [][clamp # NoClamp /\ clamp' = NoClamp =>
          ~ (IsOpen(device') /\ ClampStillApplies(device', clamp))]_vars

(* The fallback's own broadcast does not clear its banner: it goes back to   *)
(* ok only after the setup was changed since the fallback (issue #10).       *)
BannerStays ==
  [][currentDeviceStatus = "fellBack" /\ currentDeviceStatus' = "ok" => selected]_vars

(* A device lost while it was open is replaced, or the engine says that it   *)
(* is dead, even if the loss comes in the middle of another fallback.        *)
LossIsAnswered ==
  (device # NoDevice /\ ~ IsOpen(device)) ~> (IsOpen(device) \/ currentDeviceStatus = "dead")

(* DeviceStatus.h: dead means "No usable output device (silence)".           *)
DeadMeansSilent ==
  quiet /\ ~ asyncDue /\ currentDeviceStatus = "dead" => ~ IsOpen(device)
=============================================================================
