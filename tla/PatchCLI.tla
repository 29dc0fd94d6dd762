------------------------------ MODULE PatchCLI ------------------------------
(***************************************************************************)
(* The launcher patches a command line program (PatchService.swift): it    *)
(* copies the user's binary into a directory of its own, signs it, puts a  *)
(* wrapper script next to it, keeps the binary as .original and turns the  *)
(* user's command into a link to the wrapper.  Any step may fail, which    *)
(* runs rollbackCLI, and the launcher may die between any two steps.       *)
(* cleanEnvironment (LauncherAppState.swift) undoes a patch;               *)
(* PatchedAppHealthService and AppDetectionService read what is there.     *)
(*                                                                         *)
(* A binary is its version.  isRunningWorkflow admits one patch or cleanup *)
(* at a time.  copyItem and removeItem do the whole of what they do, or    *)
(* nothing.                                                                *)
(***************************************************************************)
EXTENDS Integers

CONSTANTS
  MaxVersion,  \* bound: versions of the program the user installs
  MaxCrashes,  \* bound: deaths of the launcher
  None         \* no file

ASSUME PatchAssumption == MaxVersion \in Nat \ {0} /\ MaxCrashes \in Nat /\ None \notin Nat

VARIABLES
  user,      \* the user's command: no file, a binary, a link to the vendor's
             \* binary or to the wrapper
  vendor,    \* the vendor's binary the command may be a link to
  backup,    \* .original
  real,      \* the copy in the launcher's directory
  signed,    \* it was signed with the entitlements
  dylib,     \* libAntigravityTun.dylib is in the directory
  wrapper,   \* the wrapper script is
  metadata,  \* target version of the newest patch metadata
  pc,        \* what the workflow does next
  captured,  \* capturedVersion
  source,    \* resolvedSource: the version of the binary it points to
  wrapperCreated, symlinkReplaced,  \* what rollbackCLI must undo
  result,    \* how the last workflow ended
  before,    \* history: the command when the last patch began
  lost,      \* history: a restore from .original failed
  stripped,  \* history: codesign was asked to remove the copy's signature,
             \* and not yet seen to sign it again
  installed, \* history: the newest version the user installed
  crashes    \* deaths of the launcher so far

commandVars == <<user, vendor>>
dirVars   == <<real, signed, dylib, wrapper>>
localVars == <<captured, source, wrapperCreated, symlinkReplaced>>
history   == <<before, lost, stripped, installed, crashes>>
vars == <<commandVars, backup, dirVars, metadata, pc, localVars, result, history>>

Versions == 1 .. MaxVersion
Script   == 0               \* what the wrapper is where a binary is wanted

NoCommand   == [kind |-> "none", version |-> None]
Binary(v)   == [kind |-> "file", version |-> v]
VendorLink  == [kind |-> "vendor", version |-> None]
WrapperLink == [kind |-> "wrapper", version |-> None]

Init ==
  /\ \/ user = Binary(1) /\ vendor = None
     \/ user = VendorLink /\ vendor = 1
  /\ backup = None /\ metadata = None
  /\ real = None /\ signed = FALSE /\ dylib = FALSE /\ wrapper = FALSE
  /\ pc = "idle" /\ captured = None /\ source = None
  /\ wrapperCreated = FALSE /\ symlinkReplaced = FALSE
  /\ result = "none" /\ before = NoCommand /\ lost = FALSE
  /\ stripped = FALSE /\ installed = 1 /\ crashes = 0

-----------------------------------------------------------------------------
(* fileExists follows a link.                                              *)
CommandExists ==
  \/ user.kind \in {"file", "vendor"}
  \/ user.kind = "wrapper" /\ wrapper

DetectedThroughLink ==   \* mutant: the wrapper is run for its version
  IF user.kind = "wrapper" THEN Script
  ELSE IF user.kind = "vendor" THEN vendor ELSE user.version

(* detectCLIBinary: of a link, the binary beside its target when it has    *)
(* the name of the launcher's copy, else .original, else the target.       *)
DetectedVersion ==
  CASE user.kind = "file" -> user.version
    [] user.kind = "wrapper" /\ real # None -> real
    [] OTHER -> IF backup # None THEN backup
                ELSE IF user.kind = "vendor" THEN vendor ELSE None

(* resolvedSource.                                                         *)
ResolvedSource ==
  CASE user.kind = "file"   -> user.version
    [] user.kind = "vendor" -> vendor
    [] OTHER -> IF backup # None THEN backup ELSE Script

Begin ==
  /\ pc = "idle" /\ CommandExists
  /\ pc' = "copyReal" /\ result' = "none"
  /\ captured' = DetectedVersion /\ source' = ResolvedSource
  /\ wrapperCreated' = FALSE /\ symlinkReplaced' = FALSE
  /\ before' = user /\ lost' = FALSE
  /\ UNCHANGED <<commandVars, backup, dirVars, metadata, stripped, installed, crashes>>

(* The guard of preparePatchedBundle: nothing was detected.                *)
BeginFails ==
  /\ pc = "idle" /\ ~CommandExists /\ result' = "missing"
  /\ UNCHANGED <<commandVars, backup, dirVars, metadata, pc, localVars, history>>

(* mutant: a copy that is used again is taken to be signed *)
CopyRealOnce ==
  /\ pc = "copyReal"
  /\ pc' = IF real # None /\ dylib THEN "removeWrapper" ELSE "copyDylib"
  /\ real' = IF real # None THEN real ELSE source
  /\ signed' = (signed /\ real # None)
  /\ UNCHANGED <<commandVars, backup, dylib, wrapper, metadata, localVars, result, history>>

(* Steps 1 and 2: a copy left by an earlier patch is used again.           *)
CopyReal ==
  /\ pc = "copyReal" /\ pc' = "copyDylib"
  /\ real' = IF real # None THEN real ELSE source
  /\ signed' = (signed /\ real # None)
  /\ UNCHANGED <<commandVars, backup, dylib, wrapper, metadata, localVars, result, history>>

(* Steps 3 to 5.                                                           *)
CopyDylib ==
  /\ pc = "copyDylib" /\ pc' = "sign"
  /\ dylib' = TRUE
  /\ UNCHANGED <<commandVars, backup, real, signed, wrapper, metadata, localVars, result, history>>

(* signSingleBinary, whether or not the copy is new: the old signature is  *)
(* removed first, with try?, and then the binary signed.                   *)
Unsign ==
  /\ pc = "sign" /\ pc' = "resign"
  /\ signed' \in {signed, FALSE} /\ stripped' = TRUE
  /\ UNCHANGED <<commandVars, backup, real, dylib, wrapper, metadata, localVars, result,
                 before, lost, installed, crashes>>

Sign ==
  /\ pc = "resign" /\ pc' = "removeWrapper"
  /\ signed' = TRUE /\ stripped' = FALSE
  /\ UNCHANGED <<commandVars, backup, real, dylib, wrapper, metadata, localVars, result,
                 before, lost, installed, crashes>>

RemoveWrapper ==
  /\ pc = "removeWrapper" /\ pc' = "writeWrapper"
  /\ wrapper' = FALSE
  /\ UNCHANGED <<commandVars, backup, real, signed, dylib, metadata, localVars, result, history>>

WriteWrapper ==
  /\ pc = "writeWrapper" /\ pc' = "backup"
  /\ wrapper' = TRUE /\ wrapperCreated' = TRUE
  /\ UNCHANGED <<commandVars, backup, real, signed, dylib, metadata,
                 captured, source, symlinkReplaced, result, history>>

(* What step 8 copies to .original when there is none.                     *)
BackupSource ==
  CASE user.kind = "file"   -> user.version
    [] user.kind = "vendor" -> vendor
    [] OTHER -> IF source # Script THEN source ELSE None

(* mutant: .original is not made, nor looked for *)
BackupSkipped ==
  /\ pc = "backup" /\ pc' = "unlink"
  /\ UNCHANGED <<commandVars, backup, dirVars, metadata, localVars, result, history>>

(* The backup, and the guard before the destructive step.                  *)
Backup ==
  /\ pc = "backup"
  /\ backup' = IF backup = None THEN BackupSource ELSE backup
  /\ pc' = IF backup' # None THEN "unlink" ELSE "rollback"
  /\ UNCHANGED <<commandVars, dirVars, metadata, localVars, result, history>>

ReplacedWhenLinked(step) == step = "link"   \* mutant: set behind the new link

(* symlinkReplaced is set as soon as the command is removed.               *)
ReplacedAfter(step) == symlinkReplaced \/ step = "unlink"

Unlink ==
  /\ pc = "unlink" /\ pc' = "link"
  /\ user' = NoCommand /\ symlinkReplaced' = ReplacedAfter("unlink")
  /\ UNCHANGED <<vendor, backup, dirVars, metadata, captured, source, wrapperCreated, result, history>>

Link ==
  /\ pc = "link" /\ pc' = "metadata"
  /\ user' = WrapperLink /\ symlinkReplaced' = ReplacedAfter("link")
  /\ UNCHANGED <<vendor, backup, dirVars, metadata, captured, source, wrapperCreated, result, history>>

Persist ==
  /\ pc = "metadata" /\ pc' = "idle"
  /\ metadata' = captured /\ result' = "ok"
  /\ UNCHANGED <<commandVars, backup, dirVars, localVars, history>>

Patching == {"copyReal", "copyDylib", "sign", "resign", "removeWrapper",
             "writeWrapper", "backup", "unlink", "link", "metadata"}

(* A step throws.                                                          *)
Fail ==
  /\ pc \in Patching /\ pc' = "rollback"
  /\ UNCHANGED <<commandVars, backup, dirVars, metadata, localVars, result, history>>

Undoing == {"rollback", "rollbackCommand", "rollbackRestore", "rollbackDirectory"}

DirectoryGone ==
  real' = None /\ signed' = FALSE /\ dylib' = FALSE /\ wrapper' = FALSE /\ stripped' = FALSE

(* copyItem from .original, which does not overwrite; it may fail.         *)
Restore ==
  \/ backup # None /\ user = NoCommand /\ user' = Binary(backup) /\ UNCHANGED lost
  \/ lost' = TRUE /\ UNCHANGED user

(* rollbackCLI: each of its operations is a try?, and the next follows     *)
(* whatever came of it.                                                    *)
RollbackWrapper ==
  /\ pc = "rollback"
  /\ pc' = IF symlinkReplaced THEN "rollbackCommand" ELSE "rollbackDirectory"
  /\ (wrapperCreated /\ wrapper' = FALSE) \/ UNCHANGED wrapper
  /\ UNCHANGED <<commandVars, backup, real, signed, dylib, metadata, localVars, result, history>>

RollbackCommand ==
  /\ pc = "rollbackCommand" /\ pc' = "rollbackRestore"
  /\ user' \in {user, NoCommand}
  /\ UNCHANGED <<vendor, backup, dirVars, metadata, localVars, result, history>>

RollbackRestore ==
  /\ pc = "rollbackRestore" /\ pc' = "rollbackDirectory" /\ Restore
  /\ UNCHANGED <<vendor, backup, dirVars, metadata, localVars, result,
                 before, stripped, installed, crashes>>

RollbackDirectory ==
  /\ pc = "rollbackDirectory" /\ pc' = "idle" /\ result' = "failed"
  /\ DirectoryGone \/ UNCHANGED <<dirVars, stripped>>
  /\ UNCHANGED <<commandVars, backup, metadata, localVars, before, lost, installed, crashes>>

-----------------------------------------------------------------------------
(* cleanEnvironment: the directory, then the command.                      *)
CleanDirectory ==
  /\ pc = "idle" /\ pc' = "cleanCommand" /\ result' = "none"
  /\ DirectoryGone
  /\ UNCHANGED <<commandVars, backup, metadata, localVars, before, lost, installed, crashes>>

CleanCommand ==
  /\ pc = "cleanCommand"
  /\ IF backup = None THEN pc' = "idle" /\ result' = "cleaned" /\ UNCHANGED user
                      ELSE pc' = "cleanRestore" /\ user' = NoCommand /\ UNCHANGED result
  /\ UNCHANGED <<vendor, backup, dirVars, metadata, localVars, history>>

CleanRestore ==
  /\ pc = "cleanRestore" /\ pc' = "idle" /\ Restore
  /\ result' = IF user'.kind = "file" THEN "cleaned" ELSE "uncleaned"
  /\ UNCHANGED <<vendor, backup, dirVars, metadata, localVars, before, stripped, installed, crashes>>

(* removeItem throws.                                                      *)
CleanFails ==
  /\ \/ pc = "idle" /\ real # None
     \/ pc = "cleanCommand" /\ backup # None /\ user.kind # "none"
  /\ pc' = "idle" /\ result' = "uncleaned"
  /\ UNCHANGED <<commandVars, backup, dirVars, metadata, localVars, history>>

(* The launcher dies between two steps.                                    *)
Crash ==
  /\ pc # "idle" /\ crashes < MaxCrashes
  /\ pc' = "idle" /\ result' = "crashed" /\ crashes' = crashes + 1
  /\ UNCHANGED <<commandVars, backup, dirVars, metadata, localVars,
                 before, lost, stripped, installed>>

(* The user installs the next version, or the same one again, in place of  *)
(* the command or behind a link.                                           *)
Install(v) ==
  /\ pc = "idle" /\ v \in {installed, installed + 1} \cap Versions
  /\ installed' = v /\ result' = "none"
  /\ \/ user' = Binary(v) /\ UNCHANGED vendor
     \/ vendor' = v /\ user' = VendorLink
  /\ UNCHANGED <<backup, dirVars, metadata, pc, localVars, before, lost, stripped, crashes>>

Next ==
  \/ Begin \/ BeginFails \/ CopyReal \/ CopyDylib \/ Unsign \/ Sign \/ RemoveWrapper
  \/ WriteWrapper \/ Backup \/ Unlink \/ Link \/ Persist \/ Fail
  \/ RollbackWrapper \/ RollbackCommand \/ RollbackRestore \/ RollbackDirectory
  \/ CleanDirectory \/ CleanCommand \/ CleanRestore \/ CleanFails \/ Crash
  \/ \E v \in Versions : Install(v)

Spec == Init /\ [][Next]_vars

-----------------------------------------------------------------------------
(* PatchedAppHealthService.evaluateCLI.                                    *)
Ready ==
  /\ CommandExists /\ wrapper /\ real # None /\ dylib
  /\ metadata # None /\ metadata = DetectedVersion

Commands == {NoCommand, VendorLink, WrapperLink} \cup {Binary(v) : v \in Versions}
Maybe    == Versions \cup {None}

TypeOK ==
  /\ user \in Commands /\ before \in Commands
  /\ vendor \in Maybe /\ backup \in Maybe /\ real \in Maybe
  /\ metadata \in Maybe /\ captured \in Maybe /\ source \in Maybe
  /\ signed \in BOOLEAN /\ dylib \in BOOLEAN /\ wrapper \in BOOLEAN
  /\ wrapperCreated \in BOOLEAN /\ symlinkReplaced \in BOOLEAN
  /\ lost \in BOOLEAN /\ stripped \in BOOLEAN
  /\ pc \in Patching \cup Undoing \cup {"idle", "cleanCommand", "cleanRestore"}
  /\ result \in {"none", "missing", "ok", "failed", "cleaned", "uncleaned", "crashed"}
  /\ installed \in Versions /\ crashes \in 0 .. MaxCrashes

(* Wherever the launcher dies and whichever step fails, a binary as the    *)
(* vendor made it remains: the command itself, the one it is a link to, or *)
(* .original.                                                              *)
OriginalNeverLost == user.kind = "file" \/ vendor # None \/ backup # None

(* A command that leads to the wrapper can be taken back: .original is     *)
(* there for rollbackCLI and cleanEnvironment.                             *)
LinkHasBackup == user.kind = "wrapper" => backup # None

(* A patch that fails leaves a command that runs, when it ran without the  *)
(* wrapper before and .original could be copied.                           *)
FailedPatchKeepsCommand ==
  result = "failed" /\ before.kind \in {"file", "vendor"} /\ ~lost
    => user.kind \in {"file", "vendor"}

(* What the launcher calls ready starts: behind a patch that ended well    *)
(* always, and behind any other history of deaths, failures and copies     *)
(* used again unless codesign was stopped between its two calls, when the  *)
(* wrapper of the patch before leads to a binary without a signature.      *)
ReadyRuns ==
  Ready /\ user.kind = "wrapper" /\ ~signed => stripped /\ result # "ok"

(* "Always preserve the real binary as .original" (step 8): the binary the *)
(* command was before a patch is in .original after it.                    *)
BinaryPreserved ==
  result = "ok" /\ before.kind = "file" => backup = before.version
=============================================================================
