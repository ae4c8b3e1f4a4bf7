------------------------------ MODULE ConfigFile ------------------------------
(***************************************************************************)
(* The agent's config file: config.Save and config.Load, and who calls     *)
(* them: zenstier enroll, the start of the daemon, and UpdateGroups, which *)
(* paho runs in a goroutine per message. A file is an inode with a         *)
(* content, a name leads to an inode; what Save writes is abstracted to    *)
(* whether it is all there. The process may crash at any step, and the     *)
(* host, which loses what was not synced.                                  *)
(***************************************************************************)
EXTENDS Naturals, FiniteSets

CONSTANTS
  Savers,      \* calls of Save under way at once
  Inodes,
  ConfigCrashLimit,
  NoFile

ASSUME ConfigAssumption ==
  /\ ConfigCrashLimit \in Nat /\ NoFile \notin Inodes
  /\ IsFiniteSet(Savers) /\ IsFiniteSet(Inodes)
  /\ Cardinality(Inodes) >= Cardinality(Savers) + 1

VARIABLES
  configName,  \* the inode of config.yaml
  tmpName,     \* the inode of config.yaml.tmp
  content,     \* per inode: "empty", "written" or "synced"
  saver,       \* per call: the step it is at, and the inode it has open
  daemon,      \* "off", "up", or "stuck" if the file does not load
  configCrashes,
  \* history
  overlapped   \* whether two calls of Save ever ran at once

configVars ==
  <<configName, tmpName, content, saver, daemon, configCrashes, overlapped>>
nameVars == <<configName, tmpName>>

Files == Inodes \cup {NoFile}
NotSaving == [step |-> "idle", file |-> NoFile]
SaveSteps == {"open", "remove", "reopen", "write", "sync", "close", "rename"}

ConfigTypeOK ==
  /\ configName \in Files /\ tmpName \in Files
  /\ content \in [Inodes -> {"empty", "written", "synced"}]
  /\ saver \in [Savers -> [step : SaveSteps \cup {"idle"}, file : Files]]
  /\ daemon \in {"off", "up", "stuck"}
  /\ configCrashes \in 0..ConfigCrashLimit /\ overlapped \in BOOLEAN

ConfigInit ==
  /\ configName = NoFile /\ tmpName = NoFile
  /\ content = [i \in Inodes |-> "empty"]
  /\ saver = [k \in Savers |-> NotSaving]
  /\ daemon = "off" /\ configCrashes = 0 /\ overlapped = FALSE

-----------------------------------------------------------------------------
(* Save.                                                                   *)

Saving(k) == saver[k].step # "idle"
SaverAt(k, step) == saver[k].step = step
SaverGoes(k, step) == saver' = [saver EXCEPT ![k].step = step]
SaverEnds(k) == saver' = [saver EXCEPT ![k] = NotSaving]

\* zenstier enroll, which refuses to overwrite a file without --force; and, in
\* the daemon, UpdateGroups.
MayEnroll == daemon # "up" /\ (configName = NoFile \/ daemon = "stuck")
StartSave(k) ==
  /\ ~Saving(k)
  /\ daemon = "up" \/ (MayEnroll /\ \A other \in Savers : ~Saving(other))
  /\ SaverGoes(k, "open")
  /\ overlapped' = (overlapped \/ \E other \in Savers : Saving(other))
  /\ UNCHANGED <<nameVars, content, daemon, configCrashes>>

Free == {i \in Inodes : /\ i \notin {configName, tmpName}
                        /\ \A k \in Savers : saver[k].file # i}

CreateTmp(k) ==
  \E i \in Free :
    /\ tmpName' = i
    /\ content' = [content EXCEPT ![i] = "empty"]
    /\ saver' = [saver EXCEPT ![k] = [step |-> "write", file |-> i]]

\* O_EXCL: the file of a call that crashed, or of another call, is removed.
OpenTmp(k) ==
  /\ SaverAt(k, "open")
  /\ IF tmpName = NoFile THEN CreateTmp(k)
     ELSE SaverGoes(k, "remove") /\ UNCHANGED <<tmpName, content>>
  /\ UNCHANGED <<configName, daemon, configCrashes, overlapped>>

RemoveLeftover(k) ==
  /\ SaverAt(k, "remove")
  /\ tmpName' = NoFile
  /\ SaverGoes(k, "reopen")
  /\ UNCHANGED <<configName, content, daemon, configCrashes, overlapped>>

ReopenTmp(k) ==
  /\ SaverAt(k, "reopen")
  /\ IF tmpName = NoFile THEN CreateTmp(k)
     ELSE SaverEnds(k) /\ UNCHANGED <<tmpName, content>>
  /\ UNCHANGED <<configName, daemon, configCrashes, overlapped>>

WriteTmp(k) ==
  /\ SaverAt(k, "write")
  /\ content' = [content EXCEPT ![saver[k].file] = "written"]
  /\ SaverGoes(k, "sync")
  /\ UNCHANGED <<nameVars, daemon, configCrashes, overlapped>>

\* Mutated: the file is not synced before it is renamed.
SyncTmpLater(k) ==
  /\ SaverAt(k, "sync")
  /\ SaverGoes(k, "close")
  /\ UNCHANGED <<nameVars, content, daemon, configCrashes, overlapped>>

SyncTmp(k) ==
  /\ SaverAt(k, "sync")
  /\ content' = [content EXCEPT ![saver[k].file] = "synced"]
  /\ SaverGoes(k, "close")
  /\ UNCHANGED <<nameVars, daemon, configCrashes, overlapped>>

CloseTmp(k) ==
  /\ SaverAt(k, "close")
  /\ saver' = [saver EXCEPT ![k] = [step |-> "rename", file |-> NoFile]]
  /\ UNCHANGED <<nameVars, content, daemon, configCrashes, overlapped>>

\* Whatever file has the name by now.
RenameTmp(k) ==
  /\ SaverAt(k, "rename")
  /\ configName' = IF tmpName = NoFile THEN configName ELSE tmpName
  /\ tmpName' = NoFile
  /\ SaverEnds(k)
  /\ UNCHANGED <<content, daemon, configCrashes, overlapped>>

\* An error of write, sync or close.
FailSave(k) ==
  /\ saver[k].step \in {"write", "sync", "close"}
  /\ tmpName' = NoFile
  /\ SaverEnds(k)
  /\ UNCHANGED <<configName, content, daemon, configCrashes, overlapped>>

SaveStep(k) ==
  \/ OpenTmp(k) \/ RemoveLeftover(k) \/ ReopenTmp(k) \/ WriteTmp(k) \/ SyncTmp(k)
  \/ CloseTmp(k) \/ RenameTmp(k) \/ FailSave(k)

-----------------------------------------------------------------------------
(* The processes.                                                          *)

\* Load: an empty file has no device_id.
Loads == configName # NoFile /\ content[configName] # "empty"

StartDaemon ==
  /\ daemon # "up" /\ configName # NoFile
  /\ daemon' = IF Loads THEN "up" ELSE "stuck"
  /\ UNCHANGED <<nameVars, content, saver, configCrashes, overlapped>>

CrashConfig(lost) ==
  /\ configCrashes < ConfigCrashLimit
  /\ configCrashes' = configCrashes + 1
  /\ daemon' = "off"
  /\ saver' = [k \in Savers |-> NotSaving]
  /\ content' = [i \in Inodes |-> IF i \in lost THEN "empty" ELSE content[i]]
  /\ UNCHANGED <<nameVars, overlapped>>

ConfigNext ==
  \/ \E k \in Savers : StartSave(k) \/ SaveStep(k)
  \/ StartDaemon
  \/ \E lost \in SUBSET {i \in Inodes : content[i] = "written"} : CrashConfig(lost)

ConfigSpec == ConfigInit /\ [][ConfigNext]_configVars

-----------------------------------------------------------------------------
(* Properties.                                                             *)

\* While calls of Save do not overlap, the config file is absent or whole,
\* whichever call fails and whenever the agent or its host crashes: what a call
\* has not finished never comes to bear the name (Save).
WholeUnlessOverlapped ==
  ~overlapped /\ configName # NoFile => content[configName] # "empty"

\* config.go:146, "Save writes the config atomically": the file is never seen,
\* nor found after a crash, without its contents.
SavedAtomically == configName # NoFile => content[configName] # "empty"
=============================================================================
