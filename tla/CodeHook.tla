------------------------------- MODULE CodeHook --------------------------------
(***************************************************************************)
(* NCodeHook: inline hooks.  createHook overwrites the first instructions  *)
(* of a function with a jump to a hook and returns a trampoline that holds *)
(* them; its clients keep the trampoline in a pointer through which the    *)
(* hook reaches the original function.  The object is shared: Hooks        *)
(* composes two clients of the one nCodeHook.                              *)
(***************************************************************************)
EXTENDS Naturals, FiniteSetsExt

CONSTANTS
  Functions,        \* functions of the process that may be hooked
  Refusals,         \* those that createHook may fail to decode or to make writable
  Hooks,
  Trampolines,      \* addresses; 4096 / MaxTotalTrampolineSize of them
  Clients,          \* the pointers that receive what createHook returns
  Null

ASSUME HookAssumption ==
  /\ Refusals \subseteq Functions /\ Trampolines \subseteq Nat
  /\ Null \notin Hooks /\ Null \notin Trampolines /\ Null \notin Functions

VARIABLES
  code,             \* what each function begins with: the jump to a hook, or Null
  copy,             \* each trampoline: the function whose first instructions it holds, or
                    \* the hook if they were the jump to it
  freeTrampolines_,
  hookedFunctions_, \* the items of the map, which is keyed by HookFunc
  pointer,          \* each client's original pointer
  unremoved         \* history: the functions that removeHook failed to make writable

codeVars == <<code, copy, freeTrampolines_, hookedFunctions_, pointer, unremoved>>

Items == [OriginalFunc : Functions, HookFunc : Hooks, Trampoline : Trampolines]

CodeTypeOK ==
  /\ code \in [Functions -> Hooks \union {Null}]
  /\ copy \in [Trampolines -> Functions \union Hooks \union {Null}]
  /\ freeTrampolines_ \subseteq Trampolines
  /\ hookedFunctions_ \subseteq Items
  /\ pointer \in [Clients -> Trampolines \union {Null}]
  /\ unremoved \subseteq Functions

CodeInit ==
  /\ code = [f \in Functions |-> Null]
  /\ copy = [tr \in Trampolines |-> Null]
  /\ freeTrampolines_ = Trampolines
  /\ hookedFunctions_ = {}
  /\ pointer = [c \in Clients |-> Null] /\ unremoved = {}

Recorded(f) == { item \in hookedFunctions_ : item.OriginalFunc = f }
ItemsOf(hooks) == { item \in hookedFunctions_ : item.HookFunc \in hooks }

\* getMinOffset: the first instructions can be moved, the jump of a hook cannot.
getMinOffset(f) == code[f] = Null

getFreeTrampoline == Min(freeTrampolines_)

\* The first two arguments of the item in the wrong order.
MPatch(f, h) ==
  /\ copy' = [copy EXCEPT ![getFreeTrampoline] = IF code[f] = Null THEN f ELSE code[f]]
  /\ freeTrampolines_' = freeTrampolines_ \ {getFreeTrampoline}
  /\ code' = [code EXCEPT ![f] = h]
  /\ hookedFunctions_' =
       hookedFunctions_ \union {[OriginalFunc |-> h, HookFunc |-> f, Trampoline |-> getFreeTrampoline]}

\* The rest of createHook.  insert keeps an item that has the same key.
Patch(f, h) ==
  /\ copy' = [copy EXCEPT ![getFreeTrampoline] = IF code[f] = Null THEN f ELSE code[f]]
  /\ freeTrampolines_' = freeTrampolines_ \ {getFreeTrampoline}
  /\ code' = [code EXCEPT ![f] = h]
  /\ hookedFunctions_' = IF ItemsOf({h}) # {} THEN hookedFunctions_
       ELSE hookedFunctions_ \union {[OriginalFunc |-> f, HookFunc |-> h, Trampoline |-> getFreeTrampoline]}

\* createHook returns the trampoline that the function has got already, or patches it.  The
\* result is assigned to the pointer of a client.  Without a free trampoline it throws.
CreateHook(c, f, h) ==
  \/ /\ Recorded(f) # {}
     /\ \E item \in Recorded(f) : pointer' = [pointer EXCEPT ![c] = item.Trampoline]
     /\ UNCHANGED <<code, copy, freeTrampolines_, hookedFunctions_, unremoved>>
  \/ /\ Recorded(f) = {} /\ getMinOffset(f) /\ freeTrampolines_ # {}
     /\ Patch(f, h)
     /\ pointer' = [pointer EXCEPT ![c] = getFreeTrampoline]
     /\ UNCHANGED unremoved

\* createHook returns null, which is assigned all the same.
RefuseHook(c, f) ==
  /\ Recorded(f) = {} /\ (getMinOffset(f) => f \in Refusals)
  /\ pointer' = [pointer EXCEPT ![c] = Null]
  /\ UNCHANGED <<code, copy, freeTrampolines_, hookedFunctions_, unremoved>>

\* The trampolines are freed without putting the instructions back.
MRestore(items) ==
  /\ hookedFunctions_' = hookedFunctions_ \ items
  /\ freeTrampolines_' = freeTrampolines_ \union { item.Trampoline : item \in items }
  /\ UNCHANGED code

Restore(items) ==
  /\ code' = [f \in Functions |-> IF \E item \in items : item.OriginalFunc = f THEN Null ELSE code[f]]
  /\ hookedFunctions_' = hookedFunctions_ \ items
  /\ freeTrampolines_' = freeTrampolines_ \union { item.Trampoline : item \in items }

\* removeHook of some hooks in turn by a client that then clears its pointers without a
\* look at what removeHook returned: a function that cannot be made writable stays hooked.
RemoveHook(hooks, clients) ==
  /\ \E failed \in SUBSET { item \in ItemsOf(hooks) : item.OriginalFunc \in Refusals } :
       /\ Restore(ItemsOf(hooks) \ failed)
       /\ unremoved' = unremoved \union { item.OriginalFunc : item \in failed }
  /\ pointer' = [c \in Clients |-> IF c \in clients THEN Null ELSE pointer[c]]
  /\ UNCHANGED copy

\* A client's pointer leads to a function's own instructions: to a trampoline that is in
\* use and that was filled from this function before it was patched.
Reaches(c, f) == pointer[c] \in Trampolines \ freeTrampolines_ /\ copy[pointer[c]] = f

================================================================================
