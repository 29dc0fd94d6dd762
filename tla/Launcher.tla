------------------------------ MODULE Launcher ------------------------------
(***************************************************************************)
(* The launcher patches an application bundle (LauncherAppState.swift,     *)
(* PatchService.swift, PatchVerificationService.swift): a copy is made     *)
(* beside the original, gets the library and an Info.plist that loads it,  *)
(* and is signed.  The steps run on a global queue.  All but the first ask *)
(* FileSystemPaths.activeApp, a global, which application they are about,  *)
(* and the main thread goes on: the menu bar selects another application,  *)
(* and every refresh makes each application the active one for a moment.   *)
(*                                                                         *)
(* Applications are bundles here; PatchCLI has the command line programs,  *)
(* whose paths are computed once.  removeItem removes all or nothing, and  *)
(* the metadata of a patch, which no step of a patch reads, is left out.   *)
(***************************************************************************)
CONSTANTS
  Apps,  \* the applications
  None   \* no bundle, no application

VARIABLES
  selected,   \* selectedApp
  activeApp,  \* FileSystemPaths.activeApp
  visited,    \* previous, while the main thread looks at the status of an application
  isRunningWorkflow,
  pc,         \* what the workflow does next
  destination,
  bundle,     \* the patched bundle of an application
  result      \* how the last workflow ended

mainVars == <<selected, activeApp, visited>>
vars == <<mainVars, isRunningWorkflow, pc, destination, bundle, result>>

(* What is in a bundle: the original it is a copy of (None when there is   *)
(* no whole copy), the library, the environment, and a signature of it all.*)
Bundle(of, dylib, plist, signed) ==
  [of |-> of, dylib |-> dylib, plist |-> plist, signed |-> signed]

Whole(app) == bundle[app] = Bundle(app, TRUE, TRUE, TRUE)

Init ==
  /\ selected \in Apps /\ activeApp = selected /\ visited = None
  /\ isRunningWorkflow = FALSE /\ pc = "idle" /\ destination = None /\ result = "none"
  /\ \E patched \in SUBSET Apps :
       bundle = [a \in Apps |-> IF a \in patched THEN Bundle(a, TRUE, TRUE, TRUE) ELSE None]

-----------------------------------------------------------------------------
(* The main thread.  selectedApp is set whether or not a workflow runs.    *)
Select(app) ==
  /\ visited = None /\ app # selected
  /\ selected' = app /\ activeApp' = app
  /\ UNCHANGED <<visited, isRunningWorkflow, pc, destination, bundle, result>>

(* One turn of the loop of refreshAllAppStatuses, and its defer.           *)
Visit(app) ==
  /\ visited = None
  /\ visited' = activeApp /\ activeApp' = app
  /\ UNCHANGED <<selected, isRunningWorkflow, pc, destination, bundle, result>>

Leave ==
  /\ visited # None
  /\ activeApp' = visited /\ visited' = None
  /\ UNCHANGED <<selected, isRunningWorkflow, pc, destination, bundle, result>>

(* patchOnly and cleanEnvironment.                                         *)
Begin(step) ==
  /\ visited = None /\ ~isRunningWorkflow
  /\ isRunningWorkflow' = TRUE /\ pc' = step /\ result' = "none"
  /\ UNCHANGED <<mainVars, destination, bundle>>

End(outcome) ==
  /\ pc' = "idle" /\ isRunningWorkflow' = FALSE /\ result' = outcome

(* No proxy, no room on the disk, or no application; the migration of data *)
(* may fail as well.                                                       *)
Check ==
  /\ pc = "check"
  /\ \/ pc' = "remove" /\ UNCHANGED <<isRunningWorkflow, result>>
     \/ End("refused")
  /\ UNCHANGED <<mainVars, destination, bundle>>

-----------------------------------------------------------------------------
(* preparePatchedBundle, step by step.                                     *)
Step(from, to) ==
  /\ pc = from /\ pc' = to
  /\ UNCHANGED <<mainVars, isRunningWorkflow, result>>

RemoveOld ==
  /\ Step("remove", "copy")
  /\ destination' = activeApp /\ bundle' = [bundle EXCEPT ![activeApp] = None]

(* removeItem throws before the steps that are rolled back.                *)
RemoveFails ==
  /\ pc = "remove" /\ End("refused")
  /\ UNCHANGED <<mainVars, destination, bundle>>

Copy ==
  /\ Step("copy", "embed") /\ UNCHANGED destination
  /\ bundle' = [bundle EXCEPT ![destination] = Bundle(activeApp, FALSE, FALSE, FALSE)]

CopyFails ==
  /\ Step("copy", "rollback") /\ UNCHANGED destination
  /\ bundle' = [bundle EXCEPT ![destination] = Bundle(None, FALSE, FALSE, FALSE)]

(* createDirectory makes the directories of a bundle that is not there.    *)
EmbedRuntimeAssets ==
  /\ Step("embed", "plist") /\ UNCHANGED destination
  /\ bundle' = [bundle EXCEPT ![activeApp] =
       IF @ = None THEN Bundle(None, TRUE, FALSE, FALSE)
                   ELSE Bundle(@.of, TRUE, @.plist, @.signed /\ @.dylib)]

Copied(app) == bundle[app] # None /\ bundle[app].of # None

RewriteInfoPlist ==
  /\ Copied(activeApp) /\ Step("plist", "sign") /\ UNCHANGED destination
  /\ bundle' = [bundle EXCEPT ![activeApp].plist = TRUE,
                              ![activeApp].signed = @ /\ bundle[activeApp].plist]

ResignBundle ==
  /\ Copied(activeApp) /\ Step("sign", "verify") /\ UNCHANGED destination
  /\ bundle' = [bundle EXCEPT ![activeApp].signed = TRUE]

(* A step throws, for what it finds or for want of anything it needs.      *)
Fail ==
  /\ \E from \in {"embed", "plist", "sign"} : Step(from, "rollback")
  /\ UNCHANGED <<destination, bundle>>

(* rollbackPatchedBundleIfNeeded.                                          *)
Rollback ==
  /\ pc = "rollback"
  /\ \/ bundle' = [bundle EXCEPT ![activeApp] = None] /\ End("failed")
     \/ bundle[activeApp] # None /\ UNCHANGED bundle /\ End("rollbackFailed")
  /\ UNCHANGED <<mainVars, destination>>

(* verifyPatchedResult.  It may refuse a bundle for its helpers or for     *)
(* what codesign says of it as well; nothing is rolled back behind it.     *)
Verify ==
  /\ pc = "verify"
  /\ \/ /\ Copied(activeApp) /\ bundle[activeApp].dylib
        /\ bundle[activeApp].plist /\ bundle[activeApp].signed
        /\ End("ok")
     \/ End("unverified")
  /\ UNCHANGED <<mainVars, destination, bundle>>

(* cleanEnvironment.                                                       *)
Clean ==
  /\ pc = "clean"
  /\ \/ bundle' = [bundle EXCEPT ![activeApp] = None] /\ End("cleaned")
     \/ bundle[activeApp] # None /\ UNCHANGED bundle /\ End("refused")
  /\ UNCHANGED <<mainVars, destination>>

Next ==
  \/ \E app \in Apps : Select(app) \/ Visit(app)
  \/ Leave
  \/ \E step \in {"check", "clean"} : Begin(step)
  \/ Check \/ RemoveOld \/ RemoveFails \/ Copy \/ CopyFails \/ EmbedRuntimeAssets
  \/ RewriteInfoPlist \/ ResignBundle \/ Fail \/ Rollback \/ Verify \/ Clean

Spec == Init /\ [][Next]_vars

-----------------------------------------------------------------------------
(* "A failure rolls the patched bundle back, to avoid leaving something    *)
(* half made" (launcher/README.md:26).                                     *)
FailedPatchLeavesNothingHalfMade ==
  result = "failed" => bundle[destination] = None \/ Whole(destination)
=============================================================================
