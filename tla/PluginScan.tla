----------------------------- MODULE PluginScan -----------------------------
(***************************************************************************)
(* Scanning for plug-ins inside the program itself, and surviving the      *)
(* plug-ins that crash or hang it: hosting/PluginManager.cpp on its worker *)
(* thread, the scan panel of app/DebugPanel.cpp that starts, cancels and   *)
(* saves on the message thread, and the start and shutdown of app/Main.cpp.*)
(*                                                                         *)
(* A session is one run of the program. What survives it is two files, the *)
(* plug-in list and the dead man's pedal, and the files of an older        *)
(* release in another directory. A plug-in stands for its file and for the *)
(* one type found in it.                                                   *)
(***************************************************************************)
EXTENDS Integers, FiniteSets

CONSTANTS
  Plugins,         \* every plug-in file on the machine
  NoPlugin,
  NumFormats,      \* formats registered, scanned one after the other
  FilesOf,         \* per format, the files its search path holds
  Crashers,        \* plug-ins that crash the program when they are loaded
  Hangers,         \* plug-ins whose load never returns
  Duds,            \* files in which no plug-in is found
  LegacySettings,  \* what the older release may have left behind
  MaxSessions, MaxScans, MaxFailures, MaxKills
                   \* bounds: launches, scans, failed writes, deaths of the
                   \* process that no plug-in caused

Formats == 1 .. NumFormats
NoList == [exists |-> FALSE, types |-> {}, blacklist |-> {}]
NoPedal == [exists |-> FALSE, entries |-> {}]
Content ==
  {NoList} \union [exists : {TRUE}, types : SUBSET Plugins, blacklist : SUBSET Plugins]
Pedal == {NoPedal} \union [exists : {TRUE}, entries : SUBSET Plugins]

ASSUME ScanAssumption ==
  /\ NoPlugin \notin Plugins
  /\ IsFiniteSet(Plugins)
  /\ NumFormats \in Nat
  /\ FilesOf \in [Formats -> SUBSET Plugins]
  /\ {Crashers, Hangers, Duds} \subseteq SUBSET Plugins
  /\ LegacySettings \subseteq [list : Content, pedal : Pedal]
  /\ MaxSessions \in Nat /\ MaxScans \in Nat
  /\ MaxFailures \in Nat /\ MaxKills \in Nat

VARIABLES
  legacy,       \* the older release's files: read, never written
  listFile,     \* plugin-list.xml
  pedalFile,    \* plugin-deadmanspedal
  ui,           \* "down", "open", "saving", "joining" or "joined"
  types, blacklist,  \* the KnownPluginList in memory
  worker,       \* where the scan thread is; "idle" is no thread
  format, todo, current,  \* its loop: format, files left, file being scanned
  cancelRequested,   \* PluginManager's latch
  shouldExit,        \* the thread's own exit flag
  scanRunning, scanJustFinished,
  scanEnabled,       \* the scan button; the cancel button is the opposite
  lastSavedTypeCount, liveCount, intervalElapsed, lastPersistFailed,
  scanForceKilled,
  sessions, scans, failures, kills,  \* bounds used up
  killer,       \* history: the plug-in whose load ended the last session
  offenders,    \* history: every plug-in whose load ended a session
  cancelled,    \* history: this scan has been cancelled
  begunSince,   \* history: files begun since then
  migration     \* history: the list of the older release is "done", "failed"
                \* to be copied at this launch, or "blocked" by a later save

diskVars == <<legacy, listFile, pedalFile>>
listVars == <<types, blacklist>>
loopVars == <<worker, format, todo, current>>
flagVars == <<cancelRequested, shouldExit, scanRunning, scanJustFinished>>
quietVars == <<cancelRequested, scanRunning, scanJustFinished, begunSince>>
panelVars == <<scanEnabled, lastSavedTypeCount, liveCount,
               intervalElapsed, lastPersistFailed, scanForceKilled>>
boundVars == <<sessions, scans, failures, kills>>
historyVars == <<killer, offenders, cancelled, begunSince, migration>>
vars == <<diskVars, ui, listVars, loopVars, flagVars, panelVars, boundVars, historyVars>>

Init ==
  /\ legacy \in LegacySettings
  /\ listFile = NoList /\ pedalFile = NoPedal
  /\ ui = "down"
  /\ types = {} /\ blacklist = {}
  /\ worker = "idle" /\ format = 0 /\ todo = {} /\ current = NoPlugin
  /\ cancelRequested = FALSE /\ shouldExit = FALSE
  /\ scanRunning = FALSE /\ scanJustFinished = FALSE
  /\ scanEnabled = TRUE
  /\ lastSavedTypeCount = 0 /\ liveCount = 0
  /\ intervalElapsed = FALSE /\ lastPersistFailed = FALSE
  /\ scanForceKilled = FALSE
  /\ sessions = 0 /\ scans = 0 /\ failures = 0 /\ kills = 0
  /\ killer = NoPlugin /\ offenders = {}
  /\ cancelled = FALSE /\ begunSince = 0 /\ migration = "done"

-----------------------------------------------------------------------------
(* The worker is inside a plug-in: a blacklisted one is never entered.       *)
Inside(p) == worker = "loading" /\ current = p /\ p \notin blacklist

(* Whatever a process keeps in memory, as the next one will find it.         *)
Exits ==
  /\ ui' = "down"
  /\ types' = {} /\ blacklist' = {}
  /\ worker' = "idle" /\ format' = 0 /\ todo' = {} /\ current' = NoPlugin
  /\ cancelRequested' = FALSE /\ shouldExit' = FALSE
  /\ scanRunning' = FALSE /\ scanJustFinished' = FALSE
  /\ scanEnabled' = TRUE
  /\ lastSavedTypeCount' = 0 /\ liveCount' = 0
  /\ intervalElapsed' = FALSE /\ lastPersistFailed' = FALSE
  /\ scanForceKilled' = FALSE
  /\ cancelled' = FALSE /\ begunSince' = 0

(* Something fails, as long as the bound allows.                             *)
May(succeed) ==
  /\ succeed \/ failures < MaxFailures
  /\ failures' = IF succeed THEN failures ELSE failures + 1

(* PluginManager::save: the file is replaced whole or left as it was.        *)
Save(succeed) ==
  /\ May(succeed)
  /\ IF succeed
     THEN /\ listFile' = [exists |-> TRUE, types |-> types, blacklist |-> blacklist]
          /\ migration' = IF migration = "failed" THEN "blocked" ELSE migration
     ELSE UNCHANGED <<listFile, migration>>
  /\ UNCHANGED <<legacy, pedalFile>>

-----------------------------------------------------------------------------
(* Start *)

(* Faults, each one slip away from the code; the mutation runs put one in    *)
(* the place of the definition it is named after. Migrated: what a failed    *)
(* copy leaves behind stays.                                                 *)
MigratedInPart(file, old, succeed) ==
  IF old.exists /\ ~ file.exists
  THEN IF succeed THEN old ELSE [file EXCEPT !.exists = TRUE]
  ELSE file

(* migrateLegacySettingsIfNeeded, for one file: only a gap is filled, and    *)
(* what a failed copy leaves is deleted again.                               *)
Migrated(file, old, succeed) ==
  IF old.exists /\ ~ file.exists /\ succeed THEN old ELSE file

(* Fault in Restored: the pedal is left to the next scan.                    *)
RestoredListOnly(list, pedal) == [types |-> list.types, blacklist |-> list.blacklist]

(* restore: the list, then the plug-ins the pedal names.                     *)
Restored(list, pedal) ==
  [types |-> list.types, blacklist |-> list.blacklist \union pedal.entries]

(* The constructor migrates, then main restores; nothing else runs yet.      *)
Launch ==
  /\ ui = "down"
  /\ sessions < MaxSessions
  /\ sessions' = sessions + 1
  /\ \E listCopied, pedalCopied \in BOOLEAN :
       /\ May(listCopied /\ pedalCopied)
       /\ listFile' = Migrated(listFile, legacy.list, listCopied)
       /\ pedalFile' = Migrated(pedalFile, legacy.pedal, pedalCopied)
       /\ migration' = IF legacy.list.exists /\ ~ listFile.exists /\ ~ listCopied THEN "failed"
                       ELSE IF migration = "blocked" THEN "blocked" ELSE "done"
  /\ \E list \in {Restored(listFile', pedalFile')} :
       types' = list.types /\ blacklist' = list.blacklist
  /\ ui' = "open"
  /\ UNCHANGED <<legacy, loopVars, flagVars, panelVars, scans, kills, killer, offenders,
                 cancelled, begunSince>>

-----------------------------------------------------------------------------
(* The message thread *)

(* startPluginScan. Its early return, when the last thread is still ending,  *)
(* changes nothing.                                                          *)
StartPluginScan ==
  /\ ui = "open"
  /\ scanEnabled
  /\ worker = "idle"
  /\ scans < MaxScans
  /\ scans' = scans + 1
  /\ scanRunning' = TRUE /\ scanJustFinished' = FALSE
  /\ lastSavedTypeCount' = Cardinality(types)
  /\ intervalElapsed' = FALSE /\ lastPersistFailed' = FALSE
  /\ scanEnabled' = FALSE
  /\ worker' = "launched" /\ shouldExit' = FALSE
  /\ cancelled' = FALSE /\ begunSince' = 0
  /\ UNCHANGED <<diskVars, ui, listVars, format, todo, current, cancelRequested,
                 liveCount, scanForceKilled, sessions, failures, kills, killer, offenders,
                 migration>>

(* Fault in CancelScan: only the manager's latch is set.                     *)
CancelScanLatchOnly ==
  /\ ui = "open"
  /\ ~ scanEnabled
  /\ cancelRequested' = TRUE
  /\ cancelled' = TRUE
  /\ UNCHANGED <<diskVars, ui, listVars, loopVars, shouldExit, scanRunning,
                 scanJustFinished, panelVars, boundVars, killer, offenders, begunSince,
                 migration>>

(* The cancel button: both channels.                                         *)
CancelScan ==
  /\ ui = "open"
  /\ ~ scanEnabled
  /\ cancelRequested' = TRUE
  /\ shouldExit' = TRUE
  /\ cancelled' = TRUE
  /\ UNCHANGED <<diskVars, ui, listVars, loopVars, scanRunning, scanJustFinished,
                 panelVars, boundVars, killer, offenders, begunSince, migration>>

(* A frame finds the scan finished: save, and enable the button again.       *)
FrameFinishes ==
  /\ ui = "open"
  /\ scanJustFinished
  /\ scanJustFinished' = FALSE
  /\ \E succeed \in BOOLEAN :
       /\ Save(succeed)
       /\ lastPersistFailed' = ~ succeed
  /\ scanEnabled' = TRUE
  /\ UNCHANGED <<ui, listVars, loopVars, cancelRequested, shouldExit, scanRunning,
                 lastSavedTypeCount, liveCount, intervalElapsed, scanForceKilled,
                 sessions, scans, kills, killer, offenders, cancelled, begunSince>>

(* Fault in ThrottleOpen: a coarser gate.                                    *)
ThrottleOpenCoarse == Cardinality(types) - lastSavedTypeCount >= 2 /\ intervalElapsed

(* The throttle of the saves in the middle of a scan, in types and in time.  *)
kScanSaveTypeGrowth == 1
ThrottleOpen ==
  Cardinality(types) - lastSavedTypeCount >= kScanSaveTypeGrowth /\ intervalElapsed

(* A frame finds the scan running and the throttle open: it has counted the  *)
(* types, and will save while the worker scans on.                           *)
FrameCounts ==
  /\ ui = "open"
  /\ ~ scanJustFinished /\ scanRunning
  /\ ThrottleOpen
  /\ liveCount' = Cardinality(types)
  /\ ui' = "saving"
  /\ UNCHANGED <<diskVars, listVars, loopVars, flagVars, scanEnabled,
                 lastSavedTypeCount, intervalElapsed, lastPersistFailed,
                 scanForceKilled, boundVars, historyVars>>

(* The rest of that frame. The time floor always advances, the count only    *)
(* when the types were written.                                              *)
FrameSaves ==
  /\ ui = "saving"
  /\ ui' = "open"
  /\ intervalElapsed' = FALSE
  /\ \E succeed \in BOOLEAN :
       /\ Save(succeed)
       /\ lastPersistFailed' = ~ succeed
       /\ lastSavedTypeCount' = IF succeed THEN liveCount ELSE lastSavedTypeCount
  /\ liveCount' = 0
  /\ UNCHANGED <<listVars, loopVars, flagVars, scanEnabled, scanForceKilled, sessions,
                 scans, kills, killer, offenders, cancelled, begunSince>>

(* A second has passed since the last save of this scan.                     *)
Elapse ==
  /\ scanRunning /\ ~ intervalElapsed
  /\ intervalElapsed' = TRUE
  /\ UNCHANGED <<diskVars, ui, listVars, loopVars, flagVars, scanEnabled,
                 lastSavedTypeCount, liveCount, lastPersistFailed, scanForceKilled,
                 boundVars, historyVars>>

(* The window closes: the panel's destructor asks the worker to stop and     *)
(* waits; no frame and no click comes any more.                              *)
Quit ==
  /\ ui = "open"
  /\ ui' = "joining"
  /\ shouldExit' = TRUE
  /\ cancelled' = TRUE
  /\ UNCHANGED <<diskVars, listVars, loopVars, cancelRequested, scanRunning,
                 scanJustFinished, panelVars, boundVars, killer, offenders, begunSince,
                 migration>>

JoinEnds ==
  /\ ui = "joining"
  /\ worker = "idle"
  /\ ui' = "joined"
  /\ UNCHANGED <<diskVars, listVars, loopVars, flagVars, panelVars, boundVars, historyVars>>

(* Five seconds inside one plug-in: the thread is killed, and the list may   *)
(* be left in any state.                                                     *)
JoinTimesOut ==
  /\ ui = "joining"
  /\ worker = "loading"
  /\ ui' = "joined"
  /\ scanForceKilled' = TRUE
  /\ worker' = "idle"
  /\ types' \in SUBSET types
  /\ killer' = IF Inside(current) THEN current ELSE NoPlugin
  /\ offenders' = offenders \union ({killer'} \ {NoPlugin})
  /\ UNCHANGED <<diskVars, blacklist, format, todo, current, flagVars, scanEnabled,
                 lastSavedTypeCount, liveCount, intervalElapsed, lastPersistFailed,
                 boundVars, cancelled, begunSince, migration>>

(* Fault in Shutdown: it saves whatever became of the worker.                *)
ShutdownAlwaysSaves ==
  /\ ui = "joined"
  /\ \E succeed \in BOOLEAN : Save(succeed)
  /\ killer' = IF scanForceKilled THEN killer ELSE NoPlugin
  /\ Exits
  /\ UNCHANGED <<sessions, scans, kills, offenders>>

(* The rest of shutdown: save, unless the worker was killed.                 *)
Shutdown ==
  /\ ui = "joined"
  /\ IF scanForceKilled
     THEN UNCHANGED <<diskVars, failures, migration, killer>>
     ELSE /\ \E succeed \in BOOLEAN : Save(succeed)
          /\ killer' = NoPlugin
  /\ Exits
  /\ UNCHANGED <<sessions, scans, kills, offenders>>

(* The process dies: of the plug-in it is loading, or for another reason.    *)
Crash ==
  /\ ui # "down"
  /\ \/ Inside(current) /\ current \in Crashers /\ UNCHANGED kills
     \/ kills < MaxKills /\ kills' = kills + 1
  /\ killer' = IF Inside(current) THEN current ELSE NoPlugin
  /\ offenders' = offenders \union ({killer'} \ {NoPlugin})
  /\ Exits
  /\ UNCHANGED <<diskVars, sessions, scans, failures, migration>>

-----------------------------------------------------------------------------
(* The worker thread, which never touches the panel or the plug-in list's    *)
(* file.                                                                     *)
WorkerStep(from, to) ==
  /\ worker = from /\ worker' = to
  /\ UNCHANGED <<legacy, listFile, ui, shouldExit, panelVars, boundVars, killer,
                 offenders, cancelled, migration>>

shouldCancel == cancelRequested \/ shouldExit

(* Fault in ScanAll: the latch of an earlier scan stays.                     *)
ScanAllKeepsLatch ==
  /\ WorkerStep("launched", "format")
  /\ format' = 1
  /\ UNCHANGED <<pedalFile, listVars, todo, current, quietVars>>

(* scanAll: a cancel left over from an earlier scan is cleared, once.        *)
ScanAll ==
  /\ WorkerStep("launched", "format")
  /\ format' = 1
  /\ cancelRequested' = FALSE
  /\ UNCHANGED <<pedalFile, listVars, todo, current, scanRunning, scanJustFinished,
                 begunSince>>

(* The head of the loop over the formats.                                    *)
NextFormat ==
  /\ WorkerStep("format", "check")
  /\ format <= NumFormats /\ ~ shouldCancel
  /\ todo' = FilesOf[format]
  /\ blacklist' = blacklist \union pedalFile.entries
  /\ UNCHANGED <<pedalFile, types, format, current, quietVars>>

NoMoreFormats ==
  /\ WorkerStep("format", "scanned")
  /\ format > NumFormats \/ shouldCancel
  /\ UNCHANGED <<pedalFile, listVars, format, todo, current, quietVars>>

(* The head of the loop over the files.                                      *)
CheckCancel ==
  /\ IF shouldCancel \/ todo = {}
     THEN WorkerStep("check", "format") /\ format' = format + 1 /\ todo' = {}
     ELSE WorkerStep("check", "next") /\ UNCHANGED <<format, todo>>
  /\ UNCHANGED <<pedalFile, listVars, current, quietVars>>

(* JUCE's PluginDirectoryScanner takes the files the pedal names first.      *)
NextFiles == IF todo \intersect pedalFile.entries # {}
             THEN todo \intersect pedalFile.entries ELSE todo

(* A file that is listed and up to date is passed over.                      *)
SkipKnown(p) ==
  /\ WorkerStep("next", "check")
  /\ p \in NextFiles \intersect types
  /\ todo' = todo \ {p}
  /\ UNCHANGED <<pedalFile, listVars, format, current, quietVars>>

(* Any other is entered in the pedal, then loaded.                           *)
BeginFile(p) ==
  /\ WorkerStep("next", "loading")
  /\ p \in NextFiles \ types
  /\ current' = p
  /\ todo' = todo \ {p}
  /\ pedalFile' = [exists |-> TRUE, entries |-> pedalFile.entries \union {p}]
  /\ begunSince' = begunSince + (IF cancelled THEN 1 ELSE 0)
  /\ UNCHANGED <<listVars, format, cancelRequested, scanRunning, scanJustFinished>>

(* KnownPluginList::scanAndAddFile: a blacklisted file is not loaded; the    *)
(* load of any other adds its type, if it has one and ever returns.          *)
LoadFile ==
  /\ WorkerStep("loading", "loaded")
  /\ Inside(current) => current \notin Crashers \union Hangers
  /\ types' = IF Inside(current) /\ current \notin Duds THEN types \union {current} ELSE types
  /\ UNCHANGED <<pedalFile, blacklist, format, todo, current, quietVars>>

(* The load came back, so the pedal entry is taken out: that of a            *)
(* blacklisted plug-in as well.                                              *)
EndFile ==
  /\ WorkerStep("loaded", "check")
  /\ pedalFile' = [pedalFile EXCEPT !.entries = @ \ {current}]
  /\ current' = NoPlugin
  /\ UNCHANGED <<listVars, format, todo, quietVars>>

(* The end of runPluginScan: not running first, then finished.               *)
StopRunning ==
  /\ WorkerStep("scanned", "finished")
  /\ scanRunning' = FALSE
  /\ UNCHANGED <<pedalFile, listVars, format, todo, current, cancelRequested,
                 scanJustFinished, begunSince>>

FlagFinished ==
  /\ WorkerStep("finished", "ending")
  /\ scanJustFinished' = TRUE
  /\ UNCHANGED <<pedalFile, listVars, format, todo, current, cancelRequested,
                 scanRunning, begunSince>>

ThreadEnds ==
  /\ WorkerStep("ending", "idle")
  /\ format' = 0
  /\ UNCHANGED <<pedalFile, listVars, todo, current, quietVars>>

Worker ==
  \/ ScanAll \/ NextFormat \/ NoMoreFormats \/ CheckCancel
  \/ \E p \in Plugins : SkipKnown(p) \/ BeginFile(p)
  \/ LoadFile \/ EndFile \/ StopRunning \/ FlagFinished \/ ThreadEnds

Frame == FrameFinishes \/ FrameCounts \/ FrameSaves

Next ==
  \/ Launch \/ StartPluginScan \/ CancelScan \/ Frame \/ Elapse
  \/ Quit \/ JoinEnds \/ JoinTimesOut \/ Shutdown \/ Crash
  \/ Worker

Spec == Init /\ [][Next]_vars

(* Frames keep coming while the window is open, the clock runs, and the      *)
(* worker is scheduled; a load that hangs is not a step of the worker.       *)
FairSpec == Spec /\ WF_vars(Frame) /\ WF_vars(Elapse) /\ WF_vars(Worker)

-----------------------------------------------------------------------------
(* Properties *)

(* Every variable stays in its range.                                        *)
Ranges ==
  /\ legacy \in [list : Content, pedal : Pedal]
  /\ listFile \in Content /\ pedalFile \in Pedal
  /\ ui \in {"down", "open", "saving", "joining", "joined"}
  /\ types \subseteq Plugins /\ blacklist \subseteq Plugins
  /\ worker \in {"idle", "launched", "format", "check", "next", "loading", "loaded",
                 "scanned", "finished", "ending"}
  /\ format \in 0 .. NumFormats + 1
  /\ todo \subseteq Plugins /\ current \in Plugins \union {NoPlugin}
  /\ lastSavedTypeCount \in Nat /\ liveCount \in Nat /\ begunSince \in Nat
  /\ sessions \in Nat /\ scans \in Nat /\ failures \in Nat /\ kills \in Nat
  /\ killer \in Plugins \union {NoPlugin} /\ offenders \subseteq Plugins
  /\ migration \in {"done", "failed", "blocked"}

Flags ==
  {cancelRequested, shouldExit, scanRunning, scanJustFinished, scanEnabled,
   intervalElapsed, lastPersistFailed, scanForceKilled, cancelled} \subseteq BOOLEAN

TypeOK == Ranges /\ Flags

(* A plug-in is kept out of the program once it is known to be bad: the one  *)
(* whose load ended the last session, those the saved list has quarantined,  *)
(* and those of the older release's list, unless that could not be copied.   *)
QuarantineHolds ==
  \A p \in {killer} \union listFile.blacklist
            \union (IF migration = "done" THEN legacy.list.blacklist ELSE {}) : ~ Inside(p)

(* Nothing a save has banked is ever lost again, whichever saves fail,       *)
(* wherever the program crashes or the worker is killed.                     *)
BankedNeverLost ==
  [][/\ listFile.types \subseteq listFile'.types
     /\ listFile.blacklist \subseteq listFile'.blacklist]_vars

(* The save in the middle of a scan reads the blacklist without a lock. No   *)
(* step of the worker may change it, although each format's scanner applies  *)
(* the pedal again.                                                          *)
BlacklistQuiet == [][ui' # "down" /\ worker # "idle" => blacklist' = blacklist]_vars

(* A cancel always lands, at file granularity, wherever the worker was: at   *)
(* most one file is begun after it.                                          *)
CancelStops == begunSince <= 1

(* A scan that nobody cancelled has looked at every file of every format: an *)
(* old cancel does not cut it short.                                         *)
UncancelledIsComplete ==
  worker = "scanned" /\ ~ cancelled =>
    \A f \in Formats : FilesOf[f] \subseteq types \union blacklist \union Duds

(* While a scan is running, even one stuck in a plug-in, every type found    *)
(* since the last save is soon banked, or the panel shows that saving fails. *)
BankedOrTold ==
  \A p \in Plugins :
    scanRunning /\ ui \in {"open", "saving"} /\ p \in types
       /\ Cardinality(types) > lastSavedTypeCount
      ~> p \in listFile.types \/ lastPersistFailed \/ ui \notin {"open", "saving"}

(* "a known-bad plugin stays blacklisted across launches"                    *)
(* (PluginManager.cpp:201): one that crashed the program is not loaded again. *)
KnownBadStaysOut == \A p \in offenders \intersect Crashers : ~ Inside(p)

(* "on failure delete the partial dest and let the next launch retry         *)
(* cleanly" (PluginManager.cpp:262): when the program is down after a launch *)
(* that could not copy the list, nothing is in the way of the next one.      *)
MigrationRetries == ui = "down" /\ migration # "done" => ~ listFile.exists

=============================================================================
