--------------------------------- MODULE Hooks ---------------------------------
(***************************************************************************)
(* The two clients of nCodeHook, dllmain.cpp:45: the hooks on Leeyes' own  *)
(* methods and those on the shell folders.  The bootstrap installs the     *)
(* former before the entry point of Leeyes, so no folder is bound until    *)
(* InitializeLeeyesInternalHooks has returned.  What that leaves behind in *)
(* the page of trampolines, freed ones included, is what the shell folders *)
(* are hooked with.                                                        *)
(***************************************************************************)
EXTENDS InternalHooks, ShellFolders

\* The methods of Leeyes are none of shell32, nor is one pointer used for both; and classes of
\* folder that share GetDisplayNameOf share QueryInterface too.
ASSUME ClientAssumption ==
  /\ \A class \in Classes, target \in BatchHooks \union TraceHooks :
       /\ GetDisplayNameOf[class] # Method(target) /\ QueryInterface[class] # target
       /\ GetDisplayNameOfHook # HookOf(target)
  /\ \A c, d \in Classes : GetDisplayNameOf[c] = GetDisplayNameOf[d] => QueryInterface[c] = QueryInterface[d]

vars == <<codeVars, internalVars, shellVars>>

TypeOK == CodeTypeOK /\ InternalTypeOK /\ ShellTypeOK

Init == CodeInit /\ InternalInit /\ ShellInit

Next ==
  \/ InternalNext /\ UNCHANGED shellVars
  \/ Done /\ ShellNext /\ UNCHANGED internalVars

Spec == Init /\ [][Next]_vars

--------------------------------------------------------------------------------
(* Properties.                                                                *)

\* However the two clients of the page fail, undo and hook again, code never jumps to a hook
\* whose pointer leads elsewhere than back to it: a trampoline filled for another function would
\* run that one on its stack.  Nor to one whose pointer is null, which sends the next call of a
\* method to address 0 or answers a folder with E_FAIL, save a method that removeHook could not
\* make writable, whose pointer its client has cleared all the same.
HookReachesOriginal == MethodsReach /\ FoldersReach
================================================================================
