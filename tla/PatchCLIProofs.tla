--------------------------- MODULE PatchCLIProofs ---------------------------
(***************************************************************************)
(* Theorems about PatchCLI for any number of versions the user installs    *)
(* and of deaths of the launcher.  One fact carries most of the argument:  *)
(* .original, once made, stays, and each step that takes the command away  *)
(* or undoes a removal comes only behind it (BackupInv).  The others say   *)
(* what the workflow in flight may rely on (WorkInv) and what the          *)
(* launcher's directory can look like behind a death (DirInv).             *)
(***************************************************************************)
EXTENDS PatchCLI, TLAPS

(* .original is there where the command is not as its vendor made it.      *)
BackupInv ==
  /\ LinkHasBackup /\ OriginalNeverLost
  /\ user.kind = "vendor" => vendor # None
  /\ symlinkReplaced => backup # None
  /\ pc \in {"unlink", "link", "metadata", "cleanRestore"} => backup # None

(* The patch in flight knows a binary to copy, and until the command is    *)
(* removed it is the one the patch found.  A rollback that got as far as   *)
(* the directory has put the command back, or lost it.                     *)
WorkInv ==
  /\ pc \in Patching => source \in Versions
  /\ pc \in Patching \cup Undoing /\ ~symlinkReplaced => user = before
  /\ pc \in {"link", "metadata", "rollbackCommand", "rollbackRestore"} => symlinkReplaced
  /\ pc = "rollbackDirectory" /\ symlinkReplaced /\ ~lost => user.kind = "file"
  /\ pc # "idle" => result = "none"

(* A wrapper stands only next to a copy that was signed, and that lost its *)
(* signature to codesign alone.                                            *)
DirInv ==
  /\ wrapper => real # None /\ (signed \/ stripped)
  /\ pc \in {"copyDylib", "sign", "resign", "removeWrapper", "writeWrapper"} => real # None
  /\ pc \in {"removeWrapper", "writeWrapper", "backup", "unlink", "link", "metadata"} => signed
  /\ result = "ok" => signed

PatchInv == TypeOK /\ BackupInv /\ WorkInv /\ DirInv /\ FailedPatchKeepsCommand

(* Binaries are named; links are not.                                      *)
LEMMA CommandFacts ==
  /\ None \notin Versions /\ Versions \subseteq Nat /\ Script \notin Versions
  /\ \A c \in Commands :
       /\ c.kind \in {"none", "file", "vendor", "wrapper"}
       /\ c.kind = "file" => c.version \in Versions
  /\ NoCommand \in Commands /\ NoCommand.kind = "none"
  /\ WrapperLink \in Commands /\ WrapperLink.kind = "wrapper"
  /\ VendorLink \in Commands /\ VendorLink.kind = "vendor"
  /\ \A v \in Versions : Binary(v) \in Commands /\ Binary(v).kind = "file" /\ Binary(v).version = v
<1>1. None \notin Versions /\ Versions \subseteq Nat /\ Script \notin Versions
  BY PatchAssumption DEF Versions, Script
<1>2. /\ NoCommand \in Commands /\ NoCommand.kind = "none"
      /\ WrapperLink \in Commands /\ WrapperLink.kind = "wrapper"
      /\ VendorLink \in Commands /\ VendorLink.kind = "vendor"
  BY DEF Commands, NoCommand, WrapperLink, VendorLink
<1>3. \A v \in Versions : Binary(v) \in Commands /\ Binary(v).kind = "file" /\ Binary(v).version = v
  BY DEF Commands, Binary
<1>4. \A c \in Commands : \/ c \in {NoCommand, VendorLink, WrapperLink}
                         \/ \E v \in Versions : c = Binary(v)
  BY DEF Commands
<1> QED
  BY <1>1, <1>2, <1>3, <1>4

LEMMA InitInv == Init => PatchInv
<1> SUFFICES ASSUME Init PROVE PatchInv
  OBVIOUS
<1>1. 1 \in Versions /\ user \in Commands
  BY PatchAssumption, CommandFacts DEF Init, Versions
<1>2. TypeOK
  <2>1. vendor \in Maybe /\ None \in Maybe /\ NoCommand \in Commands
    BY <1>1, CommandFacts DEF Init, Maybe
  <2>2. crashes \in 0 .. MaxCrashes
    BY PatchAssumption DEF Init
  <2> QED
    BY <1>1, <2>1, <2>2 DEF Init, TypeOK
<1>3. BackupInv /\ WorkInv /\ DirInv /\ FailedPatchKeepsCommand
  BY <1>1, CommandFacts DEF Init, BackupInv, LinkHasBackup, OriginalNeverLost, WorkInv, DirInv,
     FailedPatchKeepsCommand, Patching, Undoing
<1> QED
  BY <1>2, <1>3 DEF PatchInv

(* What a patch finds when it begins.                                      *)
LEMMA BeginFinds ==
  ASSUME PatchInv, CommandExists
  PROVE  DetectedVersion \in Maybe /\ ResolvedSource \in Versions
<1> USE CommandFacts DEF PatchInv, TypeOK, BackupInv, LinkHasBackup, CommandExists, Maybe
<1>1. user.kind \in {"file", "vendor", "wrapper"}
  OBVIOUS
<1>2. CASE user.kind = "file"
  BY <1>2 DEF DetectedVersion, ResolvedSource
<1>3. CASE user.kind = "vendor"
  BY <1>3 DEF DetectedVersion, ResolvedSource
<1>4. CASE user.kind = "wrapper"
  BY <1>4 DEF DetectedVersion, ResolvedSource
<1> QED
  BY <1>1, <1>2, <1>3, <1>4

LEMMA NextInv == PatchInv /\ [Next]_vars => PatchInv'
<1> SUFFICES ASSUME PatchInv, [Next]_vars PROVE PatchInv'
  OBVIOUS
<1> USE CommandFacts DEF PatchInv, commandVars, dirVars, localVars, history, Patching, Undoing
<1>1. CASE Begin
  <2>0. /\ user.kind # "none" /\ captured' \in Maybe /\ source' \in Versions
    BY <1>1, BeginFinds DEF Begin, CommandExists
  <2>1. TypeOK'
    BY <1>1, <2>0 DEF Begin, TypeOK, WorkInv, Maybe
  <2>2. BackupInv'
    BY <1>1, <2>0 DEF Begin, TypeOK, BackupInv, WorkInv, LinkHasBackup, OriginalNeverLost, Maybe
  <2>3. WorkInv'
    BY <1>1, <2>0 DEF Begin, TypeOK, BackupInv, WorkInv, Maybe
  <2>4. DirInv'
    BY <1>1, <2>0 DEF Begin, TypeOK, DirInv, WorkInv
  <2>5. FailedPatchKeepsCommand'
    BY <1>1, <2>0 DEF Begin, TypeOK, WorkInv, FailedPatchKeepsCommand, Maybe
  <2> QED
    BY <2>1, <2>2, <2>3, <2>4, <2>5
<1>2. CASE BeginFails
  <2>1. TypeOK'
    BY <1>2 DEF BeginFails, TypeOK, WorkInv, Maybe
  <2>2. BackupInv'
    BY <1>2 DEF BeginFails, TypeOK, BackupInv, WorkInv, LinkHasBackup, OriginalNeverLost, Maybe
  <2>3. WorkInv'
    BY <1>2 DEF BeginFails, TypeOK, BackupInv, WorkInv, Maybe
  <2>4. DirInv'
    BY <1>2 DEF BeginFails, TypeOK, DirInv, WorkInv
  <2>5. FailedPatchKeepsCommand'
    BY <1>2 DEF BeginFails, TypeOK, WorkInv, FailedPatchKeepsCommand, Maybe
  <2> QED
    BY <2>1, <2>2, <2>3, <2>4, <2>5
<1>3. CASE CopyReal
  <2>1. TypeOK'
    BY <1>3 DEF CopyReal, TypeOK, WorkInv, Maybe
  <2>2. BackupInv'
    BY <1>3 DEF CopyReal, TypeOK, BackupInv, WorkInv, LinkHasBackup, OriginalNeverLost, Maybe
  <2>3. WorkInv'
    BY <1>3 DEF CopyReal, TypeOK, BackupInv, WorkInv, Maybe
  <2>4. DirInv'
    BY <1>3 DEF CopyReal, TypeOK, DirInv, WorkInv
  <2>5. FailedPatchKeepsCommand'
    BY <1>3 DEF CopyReal, TypeOK, WorkInv, FailedPatchKeepsCommand, Maybe
  <2> QED
    BY <2>1, <2>2, <2>3, <2>4, <2>5
<1>4. CASE CopyDylib
  <2>1. TypeOK'
    BY <1>4 DEF CopyDylib, TypeOK, WorkInv, Maybe
  <2>2. BackupInv'
    BY <1>4 DEF CopyDylib, TypeOK, BackupInv, WorkInv, LinkHasBackup, OriginalNeverLost, Maybe
  <2>3. WorkInv'
    BY <1>4 DEF CopyDylib, TypeOK, BackupInv, WorkInv, Maybe
  <2>4. DirInv'
    BY <1>4 DEF CopyDylib, TypeOK, DirInv, WorkInv
  <2>5. FailedPatchKeepsCommand'
    BY <1>4 DEF CopyDylib, TypeOK, WorkInv, FailedPatchKeepsCommand, Maybe
  <2> QED
    BY <2>1, <2>2, <2>3, <2>4, <2>5
<1>5. CASE Unsign
  <2>1. TypeOK'
    BY <1>5 DEF Unsign, TypeOK, WorkInv, Maybe
  <2>2. BackupInv'
    BY <1>5 DEF Unsign, TypeOK, BackupInv, WorkInv, LinkHasBackup, OriginalNeverLost, Maybe
  <2>3. WorkInv'
    BY <1>5 DEF Unsign, TypeOK, BackupInv, WorkInv, Maybe
  <2>4. DirInv'
    BY <1>5 DEF Unsign, TypeOK, DirInv, WorkInv
  <2>5. FailedPatchKeepsCommand'
    BY <1>5 DEF Unsign, TypeOK, WorkInv, FailedPatchKeepsCommand, Maybe
  <2> QED
    BY <2>1, <2>2, <2>3, <2>4, <2>5
<1>6. CASE Sign
  <2>1. TypeOK'
    BY <1>6 DEF Sign, TypeOK, WorkInv, Maybe
  <2>2. BackupInv'
    BY <1>6 DEF Sign, TypeOK, BackupInv, WorkInv, LinkHasBackup, OriginalNeverLost, Maybe
  <2>3. WorkInv'
    BY <1>6 DEF Sign, TypeOK, BackupInv, WorkInv, Maybe
  <2>4. DirInv'
    BY <1>6 DEF Sign, TypeOK, DirInv, WorkInv
  <2>5. FailedPatchKeepsCommand'
    BY <1>6 DEF Sign, TypeOK, WorkInv, FailedPatchKeepsCommand, Maybe
  <2> QED
    BY <2>1, <2>2, <2>3, <2>4, <2>5
<1>7. CASE RemoveWrapper
  <2>1. TypeOK'
    BY <1>7 DEF RemoveWrapper, TypeOK, WorkInv, Maybe
  <2>2. BackupInv'
    BY <1>7 DEF RemoveWrapper, TypeOK, BackupInv, WorkInv, LinkHasBackup, OriginalNeverLost, Maybe
  <2>3. WorkInv'
    BY <1>7 DEF RemoveWrapper, TypeOK, BackupInv, WorkInv, Maybe
  <2>4. DirInv'
    BY <1>7 DEF RemoveWrapper, TypeOK, DirInv, WorkInv
  <2>5. FailedPatchKeepsCommand'
    BY <1>7 DEF RemoveWrapper, TypeOK, WorkInv, FailedPatchKeepsCommand, Maybe
  <2> QED
    BY <2>1, <2>2, <2>3, <2>4, <2>5
<1>8. CASE WriteWrapper
  <2>1. TypeOK'
    BY <1>8 DEF WriteWrapper, TypeOK, WorkInv, Maybe
  <2>2. BackupInv'
    BY <1>8 DEF WriteWrapper, TypeOK, BackupInv, WorkInv, LinkHasBackup, OriginalNeverLost, Maybe
  <2>3. WorkInv'
    BY <1>8 DEF WriteWrapper, TypeOK, BackupInv, WorkInv, Maybe
  <2>4. DirInv'
    BY <1>8 DEF WriteWrapper, TypeOK, DirInv, WorkInv
  <2>5. FailedPatchKeepsCommand'
    BY <1>8 DEF WriteWrapper, TypeOK, WorkInv, FailedPatchKeepsCommand, Maybe
  <2> QED
    BY <2>1, <2>2, <2>3, <2>4, <2>5
<1>9. CASE Backup
  <2>1. TypeOK'
    BY <1>9 DEF Backup, BackupSource, TypeOK, WorkInv, Maybe
  <2>2. BackupInv'
    BY <1>9 DEF Backup, BackupSource, TypeOK, BackupInv, WorkInv, LinkHasBackup, OriginalNeverLost, Maybe
  <2>3. WorkInv'
    BY <1>9 DEF Backup, BackupSource, TypeOK, BackupInv, WorkInv, Maybe
  <2>4. DirInv'
    BY <1>9 DEF Backup, BackupSource, TypeOK, DirInv, WorkInv
  <2>5. FailedPatchKeepsCommand'
    BY <1>9 DEF Backup, BackupSource, TypeOK, WorkInv, FailedPatchKeepsCommand, Maybe
  <2> QED
    BY <2>1, <2>2, <2>3, <2>4, <2>5
<1>10. CASE Unlink
  <2>1. TypeOK'
    BY <1>10 DEF Unlink, ReplacedAfter, TypeOK, WorkInv, Maybe
  <2>2. BackupInv'
    BY <1>10 DEF Unlink, ReplacedAfter, TypeOK, BackupInv, WorkInv, LinkHasBackup, OriginalNeverLost, Maybe
  <2>3. WorkInv'
    BY <1>10 DEF Unlink, ReplacedAfter, TypeOK, BackupInv, WorkInv, Maybe
  <2>4. DirInv'
    BY <1>10 DEF Unlink, ReplacedAfter, TypeOK, DirInv, WorkInv
  <2>5. FailedPatchKeepsCommand'
    BY <1>10 DEF Unlink, ReplacedAfter, TypeOK, WorkInv, FailedPatchKeepsCommand, Maybe
  <2> QED
    BY <2>1, <2>2, <2>3, <2>4, <2>5
<1>11. CASE Link
  <2>1. TypeOK'
    BY <1>11 DEF Link, ReplacedAfter, TypeOK, WorkInv, Maybe
  <2>2. BackupInv'
    BY <1>11 DEF Link, ReplacedAfter, TypeOK, BackupInv, WorkInv, LinkHasBackup, OriginalNeverLost, Maybe
  <2>3. WorkInv'
    BY <1>11 DEF Link, ReplacedAfter, TypeOK, BackupInv, WorkInv, Maybe
  <2>4. DirInv'
    BY <1>11 DEF Link, ReplacedAfter, TypeOK, DirInv, WorkInv
  <2>5. FailedPatchKeepsCommand'
    BY <1>11 DEF Link, ReplacedAfter, TypeOK, WorkInv, FailedPatchKeepsCommand, Maybe
  <2> QED
    BY <2>1, <2>2, <2>3, <2>4, <2>5
<1>12. CASE Persist
  <2>1. TypeOK'
    BY <1>12 DEF Persist, TypeOK, WorkInv, Maybe
  <2>2. BackupInv'
    BY <1>12 DEF Persist, TypeOK, BackupInv, WorkInv, LinkHasBackup, OriginalNeverLost, Maybe
  <2>3. WorkInv'
    BY <1>12 DEF Persist, TypeOK, BackupInv, WorkInv, Maybe
  <2>4. DirInv'
    BY <1>12 DEF Persist, TypeOK, DirInv, WorkInv
  <2>5. FailedPatchKeepsCommand'
    BY <1>12 DEF Persist, TypeOK, WorkInv, FailedPatchKeepsCommand, Maybe
  <2> QED
    BY <2>1, <2>2, <2>3, <2>4, <2>5
<1>13. CASE Fail
  <2>1. TypeOK'
    BY <1>13 DEF Fail, TypeOK, WorkInv, Maybe
  <2>2. BackupInv'
    BY <1>13 DEF Fail, TypeOK, BackupInv, WorkInv, LinkHasBackup, OriginalNeverLost, Maybe
  <2>3. WorkInv'
    BY <1>13 DEF Fail, TypeOK, BackupInv, WorkInv, Maybe
  <2>4. DirInv'
    BY <1>13 DEF Fail, TypeOK, DirInv, WorkInv
  <2>5. FailedPatchKeepsCommand'
    BY <1>13 DEF Fail, TypeOK, WorkInv, FailedPatchKeepsCommand, Maybe
  <2> QED
    BY <2>1, <2>2, <2>3, <2>4, <2>5
<1>14. CASE RollbackWrapper
  <2>1. TypeOK'
    <3>1. wrapper' \in BOOLEAN
      BY <1>14 DEF RollbackWrapper, TypeOK
    <3>2. pc' \in Undoing
      BY <1>14 DEF RollbackWrapper
    <3> QED
      BY <1>14, <3>1, <3>2 DEF RollbackWrapper, TypeOK
  <2>2. BackupInv'
    BY <1>14 DEF RollbackWrapper, TypeOK, BackupInv, WorkInv, LinkHasBackup, OriginalNeverLost, Maybe
  <2>3. WorkInv'
    BY <1>14 DEF RollbackWrapper, TypeOK, BackupInv, WorkInv, Maybe
  <2>4. DirInv'
    BY <1>14 DEF RollbackWrapper, TypeOK, DirInv, WorkInv
  <2>5. FailedPatchKeepsCommand'
    BY <1>14 DEF RollbackWrapper, TypeOK, WorkInv, FailedPatchKeepsCommand, Maybe
  <2> QED
    BY <2>1, <2>2, <2>3, <2>4, <2>5
<1>15. CASE RollbackCommand
  <2>1. TypeOK'
    BY <1>15 DEF RollbackCommand, TypeOK, WorkInv, Maybe
  <2>2. BackupInv'
    BY <1>15 DEF RollbackCommand, TypeOK, BackupInv, WorkInv, LinkHasBackup, OriginalNeverLost, Maybe
  <2>3. WorkInv'
    BY <1>15 DEF RollbackCommand, TypeOK, BackupInv, WorkInv, Maybe
  <2>4. DirInv'
    BY <1>15 DEF RollbackCommand, TypeOK, DirInv, WorkInv
  <2>5. FailedPatchKeepsCommand'
    BY <1>15 DEF RollbackCommand, TypeOK, WorkInv, FailedPatchKeepsCommand, Maybe
  <2> QED
    BY <2>1, <2>2, <2>3, <2>4, <2>5
<1>16. CASE RollbackRestore
  <2>1. TypeOK'
    BY <1>16 DEF RollbackRestore, Restore, TypeOK, WorkInv, Maybe
  <2>2. BackupInv'
    BY <1>16 DEF RollbackRestore, Restore, TypeOK, BackupInv, WorkInv, LinkHasBackup, OriginalNeverLost, Maybe
  <2>3. WorkInv'
    BY <1>16 DEF RollbackRestore, Restore, TypeOK, BackupInv, WorkInv, Maybe
  <2>4. DirInv'
    BY <1>16 DEF RollbackRestore, Restore, TypeOK, DirInv, WorkInv
  <2>5. FailedPatchKeepsCommand'
    BY <1>16 DEF RollbackRestore, Restore, TypeOK, WorkInv, FailedPatchKeepsCommand, Maybe
  <2> QED
    BY <2>1, <2>2, <2>3, <2>4, <2>5
<1>17. CASE RollbackDirectory
  <2>1. TypeOK'
    <3>1. /\ real' \in Maybe /\ signed' \in BOOLEAN /\ dylib' \in BOOLEAN
          /\ wrapper' \in BOOLEAN /\ stripped' \in BOOLEAN
      BY <1>17 DEF RollbackDirectory, DirectoryGone, TypeOK, Maybe
    <3> QED
      BY <1>17, <3>1 DEF RollbackDirectory, TypeOK
  <2>2. BackupInv'
    BY <1>17 DEF RollbackDirectory, DirectoryGone, TypeOK, BackupInv, WorkInv, LinkHasBackup, OriginalNeverLost, Maybe
  <2>3. WorkInv'
    BY <1>17 DEF RollbackDirectory, DirectoryGone, TypeOK, BackupInv, WorkInv, Maybe
  <2>4. DirInv'
    BY <1>17 DEF RollbackDirectory, DirectoryGone, TypeOK, DirInv, WorkInv
  <2>5. FailedPatchKeepsCommand'
    BY <1>17 DEF RollbackDirectory, DirectoryGone, TypeOK, WorkInv, FailedPatchKeepsCommand, Maybe
  <2> QED
    BY <2>1, <2>2, <2>3, <2>4, <2>5
<1>18. CASE CleanDirectory
  <2>1. TypeOK'
    BY <1>18 DEF CleanDirectory, DirectoryGone, TypeOK, WorkInv, Maybe
  <2>2. BackupInv'
    BY <1>18 DEF CleanDirectory, DirectoryGone, TypeOK, BackupInv, WorkInv, LinkHasBackup, OriginalNeverLost, Maybe
  <2>3. WorkInv'
    BY <1>18 DEF CleanDirectory, DirectoryGone, TypeOK, BackupInv, WorkInv, Maybe
  <2>4. DirInv'
    BY <1>18 DEF CleanDirectory, DirectoryGone, TypeOK, DirInv, WorkInv
  <2>5. FailedPatchKeepsCommand'
    BY <1>18 DEF CleanDirectory, DirectoryGone, TypeOK, WorkInv, FailedPatchKeepsCommand, Maybe
  <2> QED
    BY <2>1, <2>2, <2>3, <2>4, <2>5
<1>19. CASE CleanCommand
  <2>1. TypeOK'
    BY <1>19 DEF CleanCommand, TypeOK, WorkInv, Maybe
  <2>2. BackupInv'
    BY <1>19 DEF CleanCommand, TypeOK, BackupInv, WorkInv, LinkHasBackup, OriginalNeverLost, Maybe
  <2>3. WorkInv'
    BY <1>19 DEF CleanCommand, TypeOK, BackupInv, WorkInv, Maybe
  <2>4. DirInv'
    BY <1>19 DEF CleanCommand, TypeOK, DirInv, WorkInv
  <2>5. FailedPatchKeepsCommand'
    BY <1>19 DEF CleanCommand, TypeOK, WorkInv, FailedPatchKeepsCommand, Maybe
  <2> QED
    BY <2>1, <2>2, <2>3, <2>4, <2>5
<1>20. CASE CleanRestore
  <2>1. TypeOK'
    <3>1. user' \in Commands /\ lost' \in BOOLEAN
      BY <1>20 DEF CleanRestore, Restore, TypeOK, Maybe
    <3> QED
      BY <1>20, <3>1 DEF CleanRestore, TypeOK
  <2>2. BackupInv'
    BY <1>20 DEF CleanRestore, Restore, TypeOK, BackupInv, WorkInv, LinkHasBackup, OriginalNeverLost, Maybe
  <2>3. WorkInv'
    BY <1>20 DEF CleanRestore, Restore, TypeOK, BackupInv, WorkInv, Maybe
  <2>4. DirInv'
    BY <1>20 DEF CleanRestore, Restore, TypeOK, DirInv, WorkInv
  <2>5. FailedPatchKeepsCommand'
    BY <1>20 DEF CleanRestore, Restore, TypeOK, WorkInv, FailedPatchKeepsCommand, Maybe
  <2> QED
    BY <2>1, <2>2, <2>3, <2>4, <2>5
<1>21. CASE CleanFails
  <2>1. TypeOK'
    BY <1>21 DEF CleanFails, TypeOK, WorkInv, Maybe
  <2>2. BackupInv'
    BY <1>21 DEF CleanFails, TypeOK, BackupInv, WorkInv, LinkHasBackup, OriginalNeverLost, Maybe
  <2>3. WorkInv'
    BY <1>21 DEF CleanFails, TypeOK, BackupInv, WorkInv, Maybe
  <2>4. DirInv'
    BY <1>21 DEF CleanFails, TypeOK, DirInv, WorkInv
  <2>5. FailedPatchKeepsCommand'
    BY <1>21 DEF CleanFails, TypeOK, WorkInv, FailedPatchKeepsCommand, Maybe
  <2> QED
    BY <2>1, <2>2, <2>3, <2>4, <2>5
<1>22. CASE Crash
  <2>1. TypeOK'
    BY <1>22, PatchAssumption DEF Crash, TypeOK, WorkInv, Maybe
  <2>2. BackupInv'
    BY <1>22 DEF Crash, TypeOK, BackupInv, WorkInv, LinkHasBackup, OriginalNeverLost, Maybe
  <2>3. WorkInv'
    BY <1>22 DEF Crash, TypeOK, BackupInv, WorkInv, Maybe
  <2>4. DirInv'
    BY <1>22 DEF Crash, TypeOK, DirInv, WorkInv
  <2>5. FailedPatchKeepsCommand'
    BY <1>22 DEF Crash, TypeOK, WorkInv, FailedPatchKeepsCommand, Maybe
  <2> QED
    BY <2>1, <2>2, <2>3, <2>4, <2>5
<1>23. ASSUME NEW v \in Versions, Install(v) PROVE PatchInv'
  <2>1. TypeOK'
    BY <1>23 DEF Install, TypeOK, WorkInv, Maybe
  <2>2. BackupInv'
    BY <1>23 DEF Install, TypeOK, BackupInv, WorkInv, LinkHasBackup, OriginalNeverLost, Maybe
  <2>3. WorkInv'
    BY <1>23 DEF Install, TypeOK, BackupInv, WorkInv, Maybe
  <2>4. DirInv'
    BY <1>23 DEF Install, TypeOK, DirInv, WorkInv
  <2>5. FailedPatchKeepsCommand'
    BY <1>23 DEF Install, TypeOK, WorkInv, FailedPatchKeepsCommand, Maybe
  <2> QED
    BY <2>1, <2>2, <2>3, <2>4, <2>5
<1>24. CASE UNCHANGED vars
  <2>1. TypeOK'
    BY <1>24 DEF vars, TypeOK, WorkInv, Maybe
  <2>2. BackupInv'
    BY <1>24 DEF vars, TypeOK, BackupInv, WorkInv, LinkHasBackup, OriginalNeverLost, Maybe
  <2>3. WorkInv'
    BY <1>24 DEF vars, TypeOK, BackupInv, WorkInv, Maybe
  <2>4. DirInv'
    BY <1>24 DEF vars, TypeOK, DirInv, WorkInv
  <2>5. FailedPatchKeepsCommand'
    BY <1>24 DEF vars, TypeOK, WorkInv, FailedPatchKeepsCommand, Maybe
  <2> QED
    BY <2>1, <2>2, <2>3, <2>4, <2>5
<1> QED
  BY <1>1, <1>2, <1>3, <1>4, <1>5, <1>6, <1>7, <1>8, <1>9, <1>10, <1>11, <1>12, <1>13, <1>14, <1>15, <1>16, <1>17, <1>18, <1>19, <1>20, <1>21, <1>22, <1>23, <1>24 DEF Next

-----------------------------------------------------------------------------
LEMMA SpecInv == Spec => []PatchInv
BY InitInv, NextInv, PTL DEF Spec

(* Every file of the launcher holds a version or is not there, the         *)
(* workflow is at one of its steps, the counters stay in their bounds.     *)
THEOREM TypeCorrect == Spec => []TypeOK
<1>1. PatchInv => TypeOK
  BY DEF PatchInv
<1> QED
  BY SpecInv, <1>1, PTL

(* patchCLI, rollbackCLI and cleanEnvironment: whichever step fails and    *)
(* wherever the launcher dies, in any number of patches, cleanups,         *)
(* installations and deaths, a binary as the vendor made it remains.       *)
THEOREM OriginalNeverLostCorrect == Spec => []OriginalNeverLost
<1>1. PatchInv => OriginalNeverLost
  BY DEF PatchInv, BackupInv
<1> QED
  BY SpecInv, <1>1, PTL

(* The guard before the destructive step of patchCLI: a command that leads *)
(* to the wrapper has its .original.                                       *)
THEOREM LinkHasBackupCorrect == Spec => []LinkHasBackup
<1>1. PatchInv => LinkHasBackup
  BY DEF PatchInv, BackupInv
<1> QED
  BY SpecInv, <1>1, PTL

(* rollbackCLI: a failed patch leaves a command that runs where one was,   *)
(* if .original could be copied.                                           *)
THEOREM FailedPatchCorrect == Spec => []FailedPatchKeepsCommand
<1>1. PatchInv => FailedPatchKeepsCommand
  BY DEF PatchInv
<1> QED
  BY SpecInv, <1>1, PTL

(* evaluateCLI: behind any deaths and failures and any reuse of an earlier *)
(* copy, what the launcher calls ready is signed, unless codesign was      *)
(* stopped between its two calls; behind a patch that ended well, always.  *)
THEOREM ReadyRunsCorrect == Spec => []ReadyRuns
<1>1. PatchInv => ReadyRuns
  BY DEF PatchInv, DirInv, ReadyRuns, Ready
<1> QED
  BY SpecInv, <1>1, PTL
=============================================================================
