-------------------------- MODULE PluginScanProofs --------------------------
(***************************************************************************)
(* For any plug-ins, formats, search paths and older files, any number of  *)
(* sessions, scans and failures: what scanning promises of the quarantine, *)
(* of the saved list and of a cancel.                                      *)
(***************************************************************************)
EXTENDS PluginScan, FiniteSetTheorems, TLAPS

Busy == worker \in {"loading", "loaded"}

(* The thread, the panel and the pedal agree.                                *)
ThreadShape ==
  /\ ui \in {"down", "joined"} => worker = "idle"
  /\ scanForceKilled => ui = "joined"
  /\ Busy => current \in Plugins /\ current \in pedalFile.entries
  /\ ~ Busy /\ ui # "joined" => current = NoPlugin
  /\ worker \in {"check", "next", "loading", "loaded"} => format \in Formats
  /\ worker = "format" => format \in 1 .. NumFormats + 1

(* Why BlacklistQuiet holds: the pedal names nothing that is not on the      *)
(* blacklist already, but for the file being loaded, and a scanner is made   *)
(* between two files.                                                        *)
PedalCovered == ui # "down" => pedalFile.entries \subseteq blacklist \union {current}

(* Why CancelStops holds: a cancel is never unheard, and one file at most is *)
(* between the check and the load.                                           *)
CancelHeard ==
  /\ cancelled => shouldExit
  /\ begunSince <= 1
  /\ ~ cancelled => begunSince = 0
  /\ begunSince = 1 => worker # "next"

(* ... and none is heard that was not made.                                  *)
NoFalseCancel ==
  ~ cancelled =>
    /\ worker # "idle" => ~ shouldExit
    /\ worker \notin {"idle", "launched"} => ~ cancelRequested

(* What an uncancelled scan has seen so far.                                 *)
Seen == types \union blacklist \union Duds
ScanComplete ==
  ~ cancelled =>
    /\ worker \in {"format", "check", "next", "loading", "loaded"} =>
         \A f \in Formats : f < format => FilesOf[f] \subseteq Seen
    /\ worker \in {"check", "next", "loading"} =>
         FilesOf[format] \ todo \subseteq Seen \union {current}
    /\ worker = "loaded" => FilesOf[format] \ todo \subseteq Seen
    /\ worker = "scanned" => \A f \in Formats : FilesOf[f] \subseteq Seen

(* Why BankedNeverLost holds: memory has all the file has, except for types  *)
(* after the worker was killed.                                              *)
MemoryCovers ==
  ui # "down" =>
    /\ listFile.blacklist \subseteq blacklist
    /\ ~ scanForceKilled => listFile.types \subseteq types

(* Why QuarantineHolds holds: a killer stays in the pedal until a start puts *)
(* it on the blacklist, and an older quarantine is in the file or on it.     *)
KillerKept ==
  killer # NoPlugin =>
    IF ui = "down" \/ scanForceKilled THEN killer \in pedalFile.entries
                                      ELSE killer \in blacklist

LegacyKept ==
  /\ migration = "failed" => ~ listFile.exists
  /\ migration = "done" /\ listFile.exists =>
       legacy.list.blacklist \subseteq listFile.blacklist
  /\ migration = "done" /\ ui # "down" => legacy.list.blacklist \subseteq blacklist

IInv ==
  /\ Ranges /\ ThreadShape /\ PedalCovered
  /\ CancelHeard /\ NoFalseCancel /\ ScanComplete
  /\ MemoryCovers /\ KillerKept /\ LegacyKept

(* What the two files can hold, and what a save or an entry leaves in them.  *)
LEMMA ContentFacts ==
  /\ \A c \in Content :
       /\ c.types \subseteq Plugins /\ c.blacklist \subseteq Plugins
       /\ ~ c.exists => c.types = {} /\ c.blacklist = {}
  /\ \A found, bad \in SUBSET Plugins :
       [exists |-> TRUE, types |-> found, blacklist |-> bad] \in Content
<1>1. \A found, bad \in SUBSET Plugins :
        [exists |-> TRUE, types |-> found, blacklist |-> bad] \in Content
  BY DEF Content
<1>2. ASSUME NEW c \in Content
      PROVE  /\ c.types \subseteq Plugins /\ c.blacklist \subseteq Plugins
             /\ ~ c.exists => c.types = {} /\ c.blacklist = {}
  <2>1. CASE c = NoList
    BY <2>1 DEF NoList
  <2>2. CASE c # NoList
    BY <1>2, <2>2 DEF Content
  <2> QED
    BY <2>1, <2>2
<1> QED
  BY <1>1, <1>2

(* The same of the pedal. *)
LEMMA PedalFacts ==
  /\ \A d \in Pedal :
       /\ d.entries \subseteq Plugins
       /\ ~ d.exists => d.entries = {}
       /\ d.exists => \A p : [d EXCEPT !.entries = @ \ {p}] \in Pedal
  /\ \A named \in SUBSET Plugins : [exists |-> TRUE, entries |-> named] \in Pedal
<1>1. \A named \in SUBSET Plugins : [exists |-> TRUE, entries |-> named] \in Pedal
  BY DEF Pedal
<1>2. ASSUME NEW d \in Pedal
      PROVE  /\ d.entries \subseteq Plugins
             /\ ~ d.exists => d.entries = {}
             /\ d.exists => \A p : [d EXCEPT !.entries = @ \ {p}] \in Pedal
  <2>1. CASE d = NoPedal
    BY <2>1 DEF NoPedal
  <2>2. CASE d # NoPedal
    BY <1>2, <2>2 DEF Pedal
  <2> QED
    BY <2>1, <2>2
<1> QED
  BY <1>1, <1>2

(* A set of plug-ins has a size. *)
LEMMA TypesFinite == \A found \in SUBSET Plugins : Cardinality(found) \in Nat
  BY ScanAssumption, FS_Subset, FS_CardinalityType

(* Every variable stays in its range.                                        *)
LEMMA RangesNext == IInv /\ [Next]_vars => Ranges'
<1> SUFFICES ASSUME IInv, [Next]_vars PROVE Ranges'
  OBVIOUS
<1> USE ScanAssumption DEF IInv, Ranges, WorkerStep, vars, diskVars, listVars,
        loopVars, flagVars, quietVars, panelVars, boundVars, historyVars
<1>1. CASE Launch
  BY <1>1, ContentFacts, PedalFacts DEF Launch, Migrated, Restored, May
<1>2. CASE StartPluginScan
  BY <1>2, TypesFinite DEF StartPluginScan
<1>3. CASE FrameFinishes
  BY <1>3, ContentFacts DEF FrameFinishes, Save, May
<1>4. CASE FrameCounts
  BY <1>4, TypesFinite DEF FrameCounts
<1>5. CASE FrameSaves
  BY <1>5, ContentFacts DEF FrameSaves, Save, May
<1>6. CASE JoinTimesOut
  BY <1>6 DEF JoinTimesOut, Inside
<1>7. CASE Shutdown
  BY <1>7, ContentFacts DEF Shutdown, Save, May, Exits
<1>8. CASE Crash
  BY <1>8 DEF Crash, Inside, Exits
<1>9. CASE NextFormat
  BY <1>9, PedalFacts DEF NextFormat, ThreadShape, Formats
<1>10. CASE CheckCancel
  BY <1>10 DEF CheckCancel, ThreadShape, Formats
<1>11. ASSUME NEW p \in Plugins, BeginFile(p) PROVE Ranges'
  BY <1>11, PedalFacts DEF BeginFile
<1>12. CASE LoadFile
  BY <1>12 DEF LoadFile, ThreadShape, Busy, Inside
<1>13. CASE EndFile
  BY <1>13, PedalFacts DEF EndFile, ThreadShape, Busy
<1>14. CASE CancelScan \/ Elapse \/ Quit \/ JoinEnds \/ ScanAll \/ NoMoreFormats \/
          (\E p \in Plugins : SkipKnown(p)) \/ StopRunning \/ FlagFinished
          \/ ThreadEnds \/ UNCHANGED vars
  BY <1>14 DEF CancelScan, Elapse, Quit, JoinEnds, ScanAll, NoMoreFormats,
     SkipKnown, StopRunning, FlagFinished, ThreadEnds
<1> QED
  BY <1>1, <1>2, <1>3, <1>4, <1>5, <1>6, <1>7, <1>8, <1>9, <1>10, <1>11, <1>12,
     <1>13, <1>14 DEF Next, Frame, Worker

(* The thread, the panel and the pedal agree after every step.               *)
LEMMA ThreadShapeNext == IInv /\ [Next]_vars => ThreadShape'
<1> SUFFICES ASSUME IInv, [Next]_vars PROVE ThreadShape'
  OBVIOUS
<1> USE ScanAssumption DEF IInv, ThreadShape, Save, Ranges, Busy, Formats,
        WorkerStep, vars, diskVars, listVars, loopVars, flagVars, quietVars,
        panelVars, boundVars, historyVars
<1>1. CASE Launch
  BY <1>1 DEF Launch
<1>2. CASE JoinTimesOut
  BY <1>2 DEF JoinTimesOut
<1>3. CASE Shutdown
  BY <1>3 DEF Shutdown, Exits
<1>4. CASE Crash
  BY <1>4 DEF Crash, Exits
<1>5. CASE ScanAll
  BY <1>5 DEF ScanAll
<1>6. CASE NextFormat
  BY <1>6 DEF NextFormat
<1>7. CASE CheckCancel
  BY <1>7 DEF CheckCancel, shouldCancel
<1>8. ASSUME NEW p \in Plugins, BeginFile(p) PROVE ThreadShape'
  BY <1>8 DEF BeginFile
<1>9. CASE EndFile
  BY <1>9 DEF EndFile
<1>10. CASE ThreadEnds
  BY <1>10 DEF ThreadEnds
<1>11. CASE StartPluginScan \/ CancelScan \/ FrameFinishes \/ FrameCounts \/
          FrameSaves \/ Elapse \/ Quit \/ JoinEnds \/ NoMoreFormats \/
          (\E p \in Plugins : SkipKnown(p)) \/ LoadFile \/ StopRunning \/
          FlagFinished \/ UNCHANGED vars
  BY <1>11 DEF StartPluginScan, CancelScan, FrameFinishes, FrameCounts, FrameSaves,
     Elapse, Quit, JoinEnds, NoMoreFormats, SkipKnown, LoadFile, StopRunning,
     FlagFinished
<1> QED
  BY <1>1, <1>2, <1>3, <1>4, <1>5, <1>6, <1>7, <1>8, <1>9, <1>10, <1>11 DEF Next,
     Frame, Worker

(* The pedal names only what is quarantined, and the file being loaded.      *)
LEMMA PedalCoveredNext == IInv /\ [Next]_vars => PedalCovered'
<1> SUFFICES ASSUME IInv, [Next]_vars PROVE PedalCovered'
  OBVIOUS
<1> USE ScanAssumption DEF IInv, PedalCovered, Save, ThreadShape, Ranges, Busy,
        WorkerStep, vars, diskVars, listVars, loopVars, flagVars, quietVars,
        panelVars, boundVars, historyVars
<1>1. CASE Launch
  BY <1>1, PedalFacts DEF Launch, Restored
<1>2. CASE Shutdown
  BY <1>2 DEF Shutdown, Exits
<1>3. CASE Crash
  BY <1>3 DEF Crash, Exits
<1>4. ASSUME NEW p \in Plugins, BeginFile(p) PROVE PedalCovered'
  BY <1>4, PedalFacts DEF BeginFile
<1>5. CASE EndFile
  BY <1>5, PedalFacts DEF EndFile
<1>6. CASE StartPluginScan \/ CancelScan \/ FrameFinishes \/ FrameCounts \/
          FrameSaves \/ Elapse \/ Quit \/ JoinEnds \/ JoinTimesOut \/
          ScanAll \/ NextFormat \/ NoMoreFormats \/ CheckCancel \/
          (\E p \in Plugins : SkipKnown(p)) \/ LoadFile \/ StopRunning \/
          FlagFinished \/ ThreadEnds \/ UNCHANGED vars
  BY <1>6 DEF StartPluginScan, CancelScan, FrameFinishes, FrameCounts, FrameSaves,
     Elapse, Quit, JoinEnds, JoinTimesOut, ScanAll, NextFormat, NoMoreFormats,
     CheckCancel, SkipKnown, LoadFile, StopRunning, FlagFinished, ThreadEnds
<1> QED
  BY <1>1, <1>2, <1>3, <1>4, <1>5, <1>6 DEF Next, Frame, Worker

(* A cancel is heard at the next check.                                      *)
LEMMA CancelHeardNext == IInv /\ [Next]_vars => CancelHeard'
<1> SUFFICES ASSUME IInv, [Next]_vars PROVE CancelHeard'
  OBVIOUS
<1> USE ScanAssumption DEF IInv, CancelHeard, ThreadShape, Ranges, shouldCancel,
        WorkerStep, vars, diskVars, listVars, loopVars, flagVars, quietVars,
        panelVars, boundVars, historyVars
<1>1. CASE CancelScan
  BY <1>1 DEF CancelScan
<1>2. CASE Shutdown
  BY <1>2 DEF Shutdown, Exits
<1>3. CASE Crash
  BY <1>3 DEF Crash, Exits
<1>4. CASE CheckCancel
  BY <1>4 DEF CheckCancel
<1>5. ASSUME NEW p \in Plugins, BeginFile(p) PROVE CancelHeard'
  BY <1>5 DEF BeginFile
<1>6. CASE Launch \/ StartPluginScan \/ FrameFinishes \/ FrameCounts \/ FrameSaves \/
          Elapse \/ Quit \/ JoinEnds \/ JoinTimesOut \/ ScanAll \/
          NextFormat \/ NoMoreFormats \/ (\E p \in Plugins : SkipKnown(p))
          \/ LoadFile \/ EndFile \/ StopRunning \/ FlagFinished \/
          ThreadEnds \/ UNCHANGED vars
  BY <1>6 DEF Launch, StartPluginScan, FrameFinishes, FrameCounts, FrameSaves,
     Elapse, Quit, JoinEnds, JoinTimesOut, ScanAll, NextFormat, NoMoreFormats,
     SkipKnown, LoadFile, EndFile, StopRunning, FlagFinished, ThreadEnds
<1> QED
  BY <1>1, <1>2, <1>3, <1>4, <1>5, <1>6 DEF Next, Frame, Worker

(* Only a cancel of this scan is heard.                                      *)
LEMMA NoFalseCancelNext == IInv /\ [Next]_vars => NoFalseCancel'
<1> SUFFICES ASSUME IInv, [Next]_vars PROVE NoFalseCancel'
  OBVIOUS
<1> USE ScanAssumption DEF IInv, NoFalseCancel, ThreadShape, WorkerStep, vars,
        diskVars, listVars, loopVars, flagVars, quietVars, panelVars, boundVars,
        historyVars
<1>1. CASE StartPluginScan
  BY <1>1 DEF StartPluginScan
<1>2. CASE Shutdown
  BY <1>2 DEF Shutdown, Exits
<1>3. CASE Crash
  BY <1>3 DEF Crash, Exits
<1>4. CASE ScanAll
  BY <1>4 DEF ScanAll
<1>5. CASE Launch \/ CancelScan \/ FrameFinishes \/ FrameCounts \/ FrameSaves \/
          Elapse \/ Quit \/ JoinEnds \/ JoinTimesOut \/ NextFormat \/
          NoMoreFormats \/ CheckCancel \/
          (\E p \in Plugins : SkipKnown(p)) \/
          (\E p \in Plugins : BeginFile(p)) \/ LoadFile \/ EndFile \/
          StopRunning \/ FlagFinished \/ ThreadEnds \/ UNCHANGED vars
  BY <1>5 DEF Launch, CancelScan, FrameFinishes, FrameCounts, FrameSaves, Elapse,
     Quit, JoinEnds, JoinTimesOut, NextFormat, NoMoreFormats, CheckCancel,
     SkipKnown, BeginFile, LoadFile, EndFile, StopRunning, FlagFinished, ThreadEnds
<1> QED
  BY <1>1, <1>2, <1>3, <1>4, <1>5 DEF Next, Frame, Worker

(* An uncancelled scan has looked at every file it has passed.               *)
LEMMA ScanCompleteNext == IInv /\ [Next]_vars => ScanComplete'
<1> SUFFICES ASSUME IInv, [Next]_vars PROVE ScanComplete'
  OBVIOUS
<1> USE ScanAssumption DEF IInv, ScanComplete, NoFalseCancel, ThreadShape, Ranges,
        Busy, Formats, Seen, shouldCancel, WorkerStep, vars, diskVars, listVars,
        loopVars, flagVars, quietVars, panelVars, boundVars, historyVars
<1>1. CASE Shutdown
  BY <1>1 DEF Shutdown, Exits
<1>2. CASE Crash
  BY <1>2 DEF Crash, Exits
<1>3. CASE NextFormat
  BY <1>3 DEF NextFormat
<1>4. CASE NoMoreFormats
  BY <1>4 DEF NoMoreFormats
<1>5. CASE CheckCancel
  BY <1>5 DEF CheckCancel
<1>6. ASSUME NEW p \in Plugins, SkipKnown(p) PROVE ScanComplete'
  BY <1>6 DEF SkipKnown, NextFiles
<1>7. ASSUME NEW p \in Plugins, BeginFile(p) PROVE ScanComplete'
  BY <1>7 DEF BeginFile
<1>8. CASE LoadFile
  BY <1>8 DEF LoadFile, Inside
<1>9. CASE EndFile
  BY <1>9 DEF EndFile
<1>10. CASE Launch \/ StartPluginScan \/ CancelScan \/ FrameFinishes \/ FrameCounts \/
          FrameSaves \/ Elapse \/ Quit \/ JoinEnds \/ JoinTimesOut \/
          ScanAll \/ StopRunning \/ FlagFinished \/ ThreadEnds \/
          UNCHANGED vars
  BY <1>10 DEF Launch, StartPluginScan, CancelScan, FrameFinishes, FrameCounts,
     FrameSaves, Elapse, Quit, JoinEnds, JoinTimesOut, ScanAll, StopRunning,
     FlagFinished, ThreadEnds
<1> QED
  BY <1>1, <1>2, <1>3, <1>4, <1>5, <1>6, <1>7, <1>8, <1>9, <1>10 DEF Next, Frame,
     Worker

(* Memory has whatever the saved list has.                                   *)
LEMMA MemoryCoversNext == IInv /\ [Next]_vars => MemoryCovers'
<1> SUFFICES ASSUME IInv, [Next]_vars PROVE MemoryCovers'
  OBVIOUS
<1> USE ScanAssumption DEF IInv, MemoryCovers, ThreadShape, Ranges, WorkerStep,
        vars, diskVars, listVars, loopVars, flagVars, quietVars, panelVars,
        boundVars, historyVars
<1>1. CASE Launch
  BY <1>1 DEF Launch, Restored
<1>2. CASE FrameFinishes
  BY <1>2 DEF FrameFinishes, Save
<1>3. CASE FrameSaves
  BY <1>3 DEF FrameSaves, Save
<1>4. CASE Shutdown
  BY <1>4 DEF Shutdown, Exits
<1>5. CASE Crash
  BY <1>5 DEF Crash, Exits
<1>6. CASE StartPluginScan \/ CancelScan \/ FrameCounts \/ Elapse \/ Quit \/ JoinEnds
          \/ JoinTimesOut \/ ScanAll \/ NextFormat \/ NoMoreFormats \/
          CheckCancel \/ (\E p \in Plugins : SkipKnown(p)) \/
          (\E p \in Plugins : BeginFile(p)) \/ LoadFile \/ EndFile \/
          StopRunning \/ FlagFinished \/ ThreadEnds \/ UNCHANGED vars
  BY <1>6 DEF StartPluginScan, CancelScan, FrameCounts, Elapse, Quit, JoinEnds,
     JoinTimesOut, ScanAll, NextFormat, NoMoreFormats, CheckCancel, SkipKnown,
     BeginFile, LoadFile, EndFile, StopRunning, FlagFinished, ThreadEnds
<1> QED
  BY <1>1, <1>2, <1>3, <1>4, <1>5, <1>6 DEF Next, Frame, Worker

(* What ended the last session is named on disk until it is quarantined.     *)
LEMMA KillerKeptNext == IInv /\ [Next]_vars => KillerKept'
<1> SUFFICES ASSUME IInv, [Next]_vars PROVE KillerKept'
  OBVIOUS
<1> USE ScanAssumption DEF IInv, KillerKept, ThreadShape, Ranges, Busy, Inside,
        WorkerStep, vars, diskVars, listVars, loopVars, flagVars, quietVars,
        panelVars, boundVars, historyVars
<1>1. CASE Launch
  BY <1>1, PedalFacts DEF Launch, Migrated, Restored
<1>2. CASE JoinTimesOut
  BY <1>2 DEF JoinTimesOut
<1>3. CASE Shutdown
  BY <1>3 DEF Shutdown, Exits, Save
<1>4. CASE Crash
  BY <1>4 DEF Crash, Exits
<1>5. ASSUME NEW p \in Plugins, BeginFile(p) PROVE KillerKept'
  BY <1>5 DEF BeginFile
<1>6. CASE EndFile
  BY <1>6 DEF EndFile
<1>7. CASE StartPluginScan \/ CancelScan \/ FrameFinishes \/ FrameCounts \/
          FrameSaves \/ Elapse \/ Quit \/ JoinEnds \/ ScanAll \/
          NextFormat \/ NoMoreFormats \/ CheckCancel \/
          (\E p \in Plugins : SkipKnown(p)) \/ LoadFile \/ StopRunning \/
          FlagFinished \/ ThreadEnds \/ UNCHANGED vars
  BY <1>7 DEF StartPluginScan, CancelScan, FrameFinishes, FrameCounts, FrameSaves,
     Elapse, Quit, JoinEnds, ScanAll, NextFormat, NoMoreFormats, CheckCancel,
     SkipKnown, LoadFile, StopRunning, FlagFinished, ThreadEnds
<1> QED
  BY <1>1, <1>2, <1>3, <1>4, <1>5, <1>6, <1>7 DEF Next, Frame, Worker

(* The quarantine of the older release survives what follows its migration.  *)
LEMMA LegacyKeptNext == IInv /\ [Next]_vars => LegacyKept'
<1> SUFFICES ASSUME IInv, [Next]_vars PROVE LegacyKept'
  OBVIOUS
<1> USE ScanAssumption DEF IInv, LegacyKept, MemoryCovers, ThreadShape, Ranges,
        WorkerStep, vars, diskVars, listVars, loopVars, flagVars, quietVars,
        panelVars, boundVars, historyVars
<1>1. CASE Launch
  BY <1>1, ContentFacts DEF Launch, Migrated, Restored
<1>2. CASE FrameFinishes
  BY <1>2 DEF FrameFinishes, Save
<1>3. CASE FrameSaves
  BY <1>3 DEF FrameSaves, Save
<1>4. CASE Shutdown
  BY <1>4 DEF Shutdown, Exits, Save
<1>5. CASE Crash
  BY <1>5 DEF Crash, Exits
<1>6. CASE StartPluginScan \/ CancelScan \/ FrameCounts \/ Elapse \/ Quit \/ JoinEnds
          \/ JoinTimesOut \/ ScanAll \/ NextFormat \/ NoMoreFormats \/
          CheckCancel \/ (\E p \in Plugins : SkipKnown(p)) \/
          (\E p \in Plugins : BeginFile(p)) \/ LoadFile \/ EndFile \/
          StopRunning \/ FlagFinished \/ ThreadEnds \/ UNCHANGED vars
  BY <1>6 DEF StartPluginScan, CancelScan, FrameCounts, Elapse, Quit, JoinEnds,
     JoinTimesOut, ScanAll, NextFormat, NoMoreFormats, CheckCancel, SkipKnown,
     BeginFile, LoadFile, EndFile, StopRunning, FlagFinished, ThreadEnds
<1> QED
  BY <1>1, <1>2, <1>3, <1>4, <1>5, <1>6 DEF Next, Frame, Worker

(* The invariant holds at the first launch: no list yet, no pedal, no        *)
(* thread.                                                                   *)
LEMMA InitIInv == Init => IInv
<1> SUFFICES ASSUME Init PROVE IInv
  OBVIOUS
<1> USE ScanAssumption DEF Init, IInv
<1>1. legacy \in [list : Content, pedal : Pedal]
  OBVIOUS
<1>2. NoList \in Content /\ NoPedal \in Pedal
  BY DEF Content, Pedal
<1>3. Ranges
  BY <1>1, <1>2 DEF Ranges
<1> QED
  BY <1>3 DEF ThreadShape, PedalCovered, CancelHeard, NoFalseCancel, ScanComplete,
              MemoryCovers, KillerKept, LegacyKept, Busy, NoList, NoPedal

(* Together the parts are inductive. *)
LEMMA NextIInv == IInv /\ [Next]_vars => IInv'
  BY RangesNext, ThreadShapeNext, PedalCoveredNext, CancelHeardNext, NoFalseCancelNext,
     ScanCompleteNext, MemoryCoversNext, KillerKeptNext, LegacyKeptNext DEF IInv

(* The invariant holds throughout. *)
LEMMA Invariance == Spec => []IInv
  BY InitIInv, NextIInv, PTL DEF Spec

(* Every variable but the Boolean flags stays in its range.                  *)
THEOREM TypeCorrect == Spec => []Ranges
<1>1. IInv => Ranges
  BY DEF IInv
<1> QED
  BY Invariance, <1>1, PTL

(* A plug-in known to be bad is never entered: not the one whose load ended  *)
(* the last session, nor one on the saved or on the older release's list.    *)
THEOREM QuarantineKept == Spec => []QuarantineHolds
<1>1. IInv => QuarantineHolds
  BY ScanAssumption DEF IInv, QuarantineHolds, Inside, Busy, Ranges, ThreadShape,
                        MemoryCovers, KillerKept, LegacyKept
<1> QED
  BY Invariance, <1>1, PTL

(* However many files there are, at most one is begun after a cancel.        *)
THEOREM CancelAlwaysLands == Spec => []CancelStops
<1>1. IInv => CancelStops
  BY DEF IInv, CancelHeard, CancelStops
<1> QED
  BY Invariance, <1>1, PTL

(* A scan that nobody cancelled has looked at every file of every format.    *)
THEOREM ScanSeesEverything == Spec => []UncancelledIsComplete
<1>1. IInv => UncancelledIsComplete
  BY DEF IInv, ScanComplete, Seen, UncancelledIsComplete
<1> QED
  BY Invariance, <1>1, PTL

(* No step of the program takes a type or a quarantine out of the saved      *)
(* list.                                                                     *)
THEOREM BankedStays == Spec => BankedNeverLost
<1>1. ASSUME IInv, [Next]_vars
      PROVE  [/\ listFile.types \subseteq listFile'.types
              /\ listFile.blacklist \subseteq listFile'.blacklist]_vars
  <2> USE <1>1 DEF IInv, Ranges, ThreadShape, MemoryCovers
  <2>1. CASE Launch
    BY <2>1, ContentFacts DEF Launch, Migrated
  <2>2. CASE Frame
    BY <2>2 DEF Frame, FrameFinishes, FrameCounts, FrameSaves, Save, diskVars
  <2>3. CASE Shutdown
    BY <2>3 DEF Shutdown, Save, diskVars
  <2>4. CASE StartPluginScan \/ CancelScan \/ Elapse \/ Quit \/ JoinEnds \/ JoinTimesOut
    BY <2>4 DEF StartPluginScan, CancelScan, Elapse, Quit, JoinEnds, JoinTimesOut, diskVars
  <2>5. CASE Crash
    BY <2>5 DEF Crash, diskVars
  <2>6. CASE Worker
    BY <2>6 DEF Worker, WorkerStep, ScanAll, NextFormat, NoMoreFormats, CheckCancel,
                SkipKnown, BeginFile, LoadFile, EndFile, StopRunning, FlagFinished,
                ThreadEnds
  <2> QED
    BY <2>1, <2>2, <2>3, <2>4, <2>5, <2>6 DEF Next
<1> QED
  BY Invariance, <1>1, PTL DEF Spec, BankedNeverLost

(* While a scan runs, nothing changes the blacklist that a save may be       *)
(* reading, although each format's scanner applies the pedal again.          *)
THEOREM SavesReadAQuietList == Spec => BlacklistQuiet
<1>1. ASSUME IInv, [Next]_vars
      PROVE  [ui' # "down" /\ worker # "idle" => blacklist' = blacklist]_vars
  <2> USE <1>1 DEF IInv, Ranges, ThreadShape, PedalCovered, Busy
  <2>1. CASE Launch \/ Shutdown \/ Crash
    BY <2>1 DEF Launch, Shutdown, Crash, Exits
  <2>2. CASE StartPluginScan \/ CancelScan \/ Frame \/ Elapse \/ Quit \/ JoinEnds
             \/ JoinTimesOut
    BY <2>2 DEF StartPluginScan, CancelScan, Frame, FrameFinishes, FrameCounts, FrameSaves,
                Elapse, Quit, JoinEnds, JoinTimesOut, listVars
  <2>3. CASE NextFormat
    BY <2>3, ScanAssumption, PedalFacts DEF NextFormat, WorkerStep
  <2>4. CASE Worker /\ ~ NextFormat
    BY <2>4 DEF Worker, ScanAll, NoMoreFormats, CheckCancel, SkipKnown, BeginFile, LoadFile,
                EndFile, StopRunning, FlagFinished, ThreadEnds, listVars
  <2> QED
    BY <2>1, <2>2, <2>3, <2>4 DEF Next
<1> QED
  BY Invariance, <1>1, PTL DEF Spec, BlacklistQuiet
=============================================================================
