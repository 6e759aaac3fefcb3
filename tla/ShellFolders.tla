----------------------------- MODULE ShellFolders ------------------------------
(***************************************************************************)
(* Shell32 of dllmain.cpp: SHBindToParentHook hooks IShellFolder's         *)
(* GetDisplayNameOf, slot 11 of the vtable, of every class of folder it    *)
(* meets, always with the same GetDisplayNameOfHook.  The hook finds the   *)
(* original again by the QueryInterface pointer, slot 0, of the class.     *)
(*                                                                         *)
(* The pointers of CodeHook are the entries of gGetDisplayNameOfFPtrMap.   *)
(* Threads bind and ask for names at the same time.  SHBindToParentHook    *)
(* looks up, hooks and inserts with gMutex held, and GetDisplayNameOfHook  *)
(* looks up with gMutex held: each of these is one step.  A thread may     *)
(* already be in the hook when the entry is made, and a class of folder    *)
(* may be used without having been bound.                                  *)
(***************************************************************************)
EXTENDS CodeHook

CONSTANTS
  Threads,
  Classes,                           \* the vtables of IShellFolder in the process
  QueryInterface, GetDisplayNameOf,  \* slots 0 and 11 of each
  GetDisplayNameOfHook,
  E_FAIL

ASSUME ShellAssumption ==
  /\ Classes # {}
  /\ QueryInterface \in [Classes -> Clients] /\ GetDisplayNameOf \in [Classes -> Functions]
  /\ GetDisplayNameOfHook \in Hooks /\ E_FAIL \notin Functions \union Hooks

VARIABLES
  keys,    \* the keys of gGetDisplayNameOfFPtrMap, those with a null pointer included
  bound,   \* history: the classes SHBindToParentHook has seen
  thread   \* each thread's call of GetDisplayNameOf, and what has answered it

shellVars == <<keys, bound, thread>>

ShellTypeOK ==
  /\ keys \subseteq Clients /\ bound \subseteq Classes
  /\ thread \in [Threads -> [at : {"idle", "hook", "original", "returned"}, class : Classes,
                             orig_func : Trampolines \union {Null},
                             answer : Functions \union Hooks \union {E_FAIL}]]

ShellInit ==
  /\ keys = {} /\ bound = {}
  /\ thread \in [Threads -> [at : {"idle"}, class : {CHOOSE c \in Classes : TRUE},
                             orig_func : {Null}, answer : {E_FAIL}]]

\* The pointer of the entry receives whatever createHook returns.
HookName(class) ==
  \/ CreateHook(QueryInterface[class], GetDisplayNameOf[class], GetDisplayNameOfHook)
  \/ RefuseHook(QueryInterface[class], GetDisplayNameOf[class])

\* The map is not searched before the method is hooked.
MSHBindToParent(class) ==
  /\ bound' = bound \union {class}
  /\ LET key_func == QueryInterface[class]
     IN keys' = keys \union {key_func} /\ HookName(class)
  /\ UNCHANGED thread

SHBindToParent(class) ==
  /\ bound' = bound \union {class}
  /\ LET key_func == QueryInterface[class]
     IN IF key_func \in keys
          THEN UNCHANGED <<codeVars, keys>>
          ELSE keys' = keys \union {key_func} /\ HookName(class)
  /\ UNCHANGED thread

\* Any part of the process calls the method of a folder.
Call(t, class) ==
  /\ thread[t].at = "idle"
  /\ thread' = [thread EXCEPT ![t] = IF code[GetDisplayNameOf[class]] = Null
       THEN [at |-> "returned", class |-> class, orig_func |-> Null, answer |-> GetDisplayNameOf[class]]
       ELSE [at |-> "hook", class |-> class, orig_func |-> Null, answer |-> E_FAIL]]
  /\ UNCHANGED <<codeVars, keys, bound>>

\* The hook takes the trampoline of whatever was hooked, without the class.
MLookup(t) ==
  /\ thread[t].at = "hook"
  /\ \E tr \in Trampolines \ freeTrampolines_ :
       thread' = [thread EXCEPT ![t].at = "original", ![t].orig_func = tr]
  /\ UNCHANGED <<codeVars, keys, bound>>

Lookup(t) ==
  /\ thread[t].at = "hook"
  /\ LET orig_func == pointer[QueryInterface[thread[t].class]]
     IN thread' = [thread EXCEPT ![t].orig_func = orig_func,
                     ![t].at = IF orig_func = Null THEN "returned" ELSE "original"]
  /\ UNCHANGED <<codeVars, keys, bound>>

\* CallOrigDisplayNameOf, whose exceptions become E_FAIL.
CallOrig(t) ==
  /\ thread[t].at = "original"
  /\ thread' = [thread EXCEPT ![t].at = "returned", ![t].answer = copy[thread[t].orig_func]]
  /\ UNCHANGED <<codeVars, keys, bound>>

Return(t) ==
  /\ thread[t].at = "returned"
  /\ thread' = [thread EXCEPT ![t].at = "idle", ![t].orig_func = Null, ![t].answer = E_FAIL]
  /\ UNCHANGED <<codeVars, keys, bound>>

ShellNext ==
  \/ \E class \in Classes : SHBindToParent(class)
  \/ \E t \in Threads : Lookup(t) \/ CallOrig(t) \/ Return(t) \/ \E class \in Classes : Call(t, class)

--------------------------------------------------------------------------------
(* Properties.                                                                *)

\* A folder's name is never given by the method of another class: the trampoline that the
\* shared hook finds is the one of the method it was entered from.
OwnMethod ==
  \A t \in Threads : thread[t].at = "returned" /\ thread[t].answer # E_FAIL =>
    thread[t].answer = GetDisplayNameOf[thread[t].class]

\* A class of folder that was bound, and whose method jumps to the hook, finds its own
\* original under its key.
FoldersReach ==
  \A class \in bound : code[GetDisplayNameOf[class]] # Null =>
    Reaches(QueryInterface[class], GetDisplayNameOf[class])
================================================================================
