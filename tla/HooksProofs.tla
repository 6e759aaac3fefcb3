------------------------------ MODULE HooksProofs ------------------------------
(***************************************************************************)
(* Proofs about Hooks, for any image, classes of folder, threads and page  *)
(* of trampolines: whatever fails, the way from a hook to its original is  *)
(* kept, the two features are whole or absent, and a folder is answered by *)
(* its own method.                                                         *)
(***************************************************************************)
EXTENDS Hooks, WellFoundedInduction, TLAPS

AllTargets == BatchHooks \union TraceHooks

\* Distinct methods and hooks have distinct names, and none is Null.
LEMMA Names ==
  /\ \A t, u \in AllTargets : (Method(t) = Method(u) => t = u) /\ (HookOf(t) = HookOf(u) => t = u)
  /\ \A t \in AllTargets : Method(t) \in Functions /\ Method(t) \in Refusals /\ HookOf(t) \in Hooks /\ t \in Clients
  /\ Null \notin Functions \union Hooks \union Trampolines
BY InternalAssumption, HookAssumption DEF AllTargets, Method, HookOf

\* Every item of the map owns its trampoline, which leads to the function that it is about.
ItemInv ==
  \A item \in hookedFunctions_ :
    /\ item.Trampoline \notin freeTrampolines_ /\ copy[item.Trampoline] = item.OriginalFunc
    /\ code[item.OriginalFunc] # Null
    /\ \A other \in hookedFunctions_ :
         item.Trampoline = other.Trampoline \/ item.OriginalFunc = other.OriginalFunc => item = other
    /\ \A t \in AllTargets : item.OriginalFunc = Method(t) <=> item.HookFunc = HookOf(t)

Owns(c, f) == \E item \in hookedFunctions_ : item.OriginalFunc = f /\ item.Trampoline = pointer[c]

\* A hooked method's pointer is the trampoline of an item about it; that of a method which
\* removeHook has failed on is null.
HookedOwn == \A t \in hooked : Owns(t, Method(t))
UnremovedNull == \A t \in AllTargets : Method(t) \in unremoved => pointer[t] = Null
MethodInv == HookedOwn /\ UnremovedNull

\* A folder's method is hooked once its class has a key, and leads back for good; until the
\* installation is over no folder is bound and none is called.
FolderInv ==
  /\ \A class \in Classes : code[GetDisplayNameOf[class]] # Null =>
       Done /\ QueryInterface[class] \in keys /\ Reaches(QueryInterface[class], GetDisplayNameOf[class])
  /\ \A t \in Threads : LET own == GetDisplayNameOf[thread[t].class] IN
       /\ thread[t].at # "idle" => Done
       /\ thread[t].at = "hook" => code[own] # Null
       /\ thread[t].at = "original" =>
            thread[t].orig_func \in Trampolines \ freeTrampolines_ /\ copy[thread[t].orig_func] = own
       /\ thread[t].at = "returned" => thread[t].answer \in {own, E_FAIL}

\* How far the installation is.
BatchStep == {"start", "resolve", "dispatch"}
Untried(targetSet) == \A t \in targetSet : t \notin hooked /\ Method(t) \notin unremoved

StepInv ==
  /\ at \in BatchStep => Untried(BatchHooks) /\ ~batchInstalled
  /\ at = "drain" =>
       /\ "fileChangeDispatch" \in hooked /\ Untried({"changeQueueDrain"}) /\ ~batchInstalled
       /\ gLeeyesInternalFullResync
  /\ at \notin BatchStep \union {"drain"} =>
       IF batchInstalled THEN BatchHooks \subseteq hooked /\ gLeeyesInternalFullResync
                         ELSE BatchHooks \intersect hooked = {}
  /\ at # "done" => ~worker /\ \A t \in TraceHooks : Method(t) \notin unremoved
  /\ at \in BatchStep \union {"drain", "afterBatch", "refresh"} => Untried(TraceHooks)
  /\ at \in {"changing", "change", "layoutRefresh", "layoutUpdate", "startTrace"} => "refresh" \in hooked
  /\ at \in {"change", "layoutRefresh", "layoutUpdate", "startTrace"} => "changing" \in hooked
  /\ at \in {"layoutRefresh", "layoutUpdate", "startTrace"} => "change" \in hooked
  /\ FeaturesWhole

CodeInv == CodeTypeOK /\ ItemInv

IInv == TypeOK /\ ItemInv /\ MethodInv /\ FolderInv /\ StepInv

--------------------------------------------------------------------------------
(* CodeHook.                                                                  *)

Less == {ss \in Nat \X Nat : ss[1] < ss[2]}

LEMMA Smallest == ASSUME NEW S \in SUBSET Nat, S # {} PROVE \E x \in S : \A y \in S : x <= y
<1>1. IsWellFoundedOn(Less, Nat)
  BY NatLessThanWellFounded DEF OpToRel, Less
<1>2. PICK x \in S : \A y \in S : ~(<<y, x>> \in Less)
  BY <1>1, WFMin
<1>3. SUFFICES ASSUME NEW y \in S, ~(x <= y) PROVE FALSE
  OBVIOUS
<1>4. <<y, x>> \in Nat \X Nat /\ <<y, x>>[1] = y /\ <<y, x>>[2] = x /\ y < x
  BY <1>3
<1> QED BY <1>2, <1>4 DEF Less

\* The page hands out one of its free trampolines.
LEMMA FreeTrampoline ==
  ASSUME CodeTypeOK, freeTrampolines_ # {}
  PROVE  getFreeTrampoline \in freeTrampolines_
<1>1. freeTrampolines_ \subseteq Nat
  BY HookAssumption DEF CodeTypeOK
<1>2. \E x \in freeTrampolines_ : \A y \in freeTrampolines_ : x <= y
  BY <1>1, Smallest
<1> QED BY <1>2 DEF getFreeTrampoline, Min

\* What createHook leaves behind when it does not return null.
LEMMA CreateFacts ==
  ASSUME CodeInv, NEW c \in Clients, NEW f \in Functions, NEW h \in Hooks, CreateHook(c, f, h),
         \A t \in AllTargets : f = Method(t) <=> h = HookOf(t)
  PROVE  /\ CodeInv' /\ Reaches(c, f)' /\ code'[f] # Null /\ unremoved' = unremoved
         /\ \A d \in Clients : d # c => pointer'[d] = pointer[d]
         /\ \A g \in Functions : g # f => code'[g] = code[g]
         /\ freeTrampolines_' \subseteq freeTrampolines_
         /\ \A tr \in Trampolines \ freeTrampolines_ : copy'[tr] = copy[tr]
         /\ hookedFunctions_ \subseteq hookedFunctions_'
         /\ (\E t \in AllTargets : f = Method(t)) => Owns(c, f)'
<1> USE DEF CodeInv
<1>1. CASE Recorded(f) # {}
  <2>1. PICK item \in Recorded(f) : pointer' = [pointer EXCEPT ![c] = item.Trampoline]
    BY <1>1 DEF CreateHook
  <2>2. UNCHANGED <<code, copy, freeTrampolines_, hookedFunctions_, unremoved>>
    BY <1>1 DEF CreateHook
  <2>3. item \in hookedFunctions_ /\ item.OriginalFunc = f /\ item.Trampoline \in Trampolines
    BY <2>1 DEF Recorded, CodeTypeOK, Items
  <2>4. pointer'[c] = item.Trampoline /\ \A d \in Clients : d # c => pointer'[d] = pointer[d]
    BY <2>1 DEF CodeTypeOK
  <2>5. CodeTypeOK'
    BY <2>1, <2>2, <2>3 DEF CodeTypeOK
  <2>6. ItemInv'
    BY <2>2 DEF ItemInv
  <2>7. Reaches(c, f)' /\ code'[f] # Null /\ Owns(c, f)'
    BY <2>2, <2>3, <2>4 DEF Reaches, ItemInv, Owns
  <2> QED BY <2>2, <2>4, <2>5, <2>6, <2>7
<1>2. CASE Recorded(f) = {}
  <2> DEFINE tr == getFreeTrampoline
             item == [OriginalFunc |-> f, HookFunc |-> h, Trampoline |-> tr]
  <2>1. /\ code[f] = Null /\ freeTrampolines_ # {} /\ Patch(f, h)
        /\ pointer' = [pointer EXCEPT ![c] = tr] /\ UNCHANGED unremoved
    BY <1>2 DEF CreateHook, getMinOffset
  <2>2. tr \in freeTrampolines_ /\ tr \in Trampolines
    BY <2>1, FreeTrampoline DEF CodeTypeOK
  <2>3. item \in Items
    BY <2>2 DEF Items
  <2> HIDE DEF tr
  <2>4. /\ copy' = [copy EXCEPT ![tr] = f] /\ freeTrampolines_' = freeTrampolines_ \ {tr}
        /\ code' = [code EXCEPT ![f] = h]
        /\ hookedFunctions_' = IF ItemsOf({h}) # {} THEN hookedFunctions_ ELSE hookedFunctions_ \union {item}
    BY <2>1 DEF Patch, tr
  <2> HIDE DEF item
  <2>5. /\ pointer'[c] = tr /\ \A d \in Clients : d # c => pointer'[d] = pointer[d]
        /\ copy'[tr] = f /\ \A x \in Trampolines : x # tr => copy'[x] = copy[x]
        /\ code'[f] = h /\ \A g \in Functions : g # f => code'[g] = code[g]
    BY <2>1, <2>2, <2>4 DEF CodeTypeOK
  <2>6. h # Null
    BY HookAssumption
  <2>7. CodeTypeOK'
    <3>1. hookedFunctions_' \subseteq Items
      BY <2>3, <2>4 DEF CodeTypeOK
    <3>2. code' \in [Functions -> Hooks \union {Null}] /\ copy' \in [Trampolines -> Functions \union Hooks \union {Null}]
      BY <2>2, <2>4 DEF CodeTypeOK
    <3>3. pointer' \in [Clients -> Trampolines \union {Null}]
      BY <2>1, <2>2 DEF CodeTypeOK
    <3> QED BY <2>1, <2>4, <3>1, <3>2, <3>3 DEF CodeTypeOK
  <2>8. ItemInv'
    <3>1. item.OriginalFunc = f /\ item.HookFunc = h /\ item.Trampoline = tr
      BY DEF item
    <3>2. \A old \in hookedFunctions_ : old.Trampoline # tr /\ old.OriginalFunc # f
                                         /\ old.Trampoline \in Trampolines /\ old.OriginalFunc \in Functions
      BY <1>2, <2>2 DEF ItemInv, Recorded, CodeTypeOK, Items
    <3>3. hookedFunctions_' \subseteq hookedFunctions_ \union {item}
      BY <2>4
    <3> SUFFICES ASSUME NEW i \in hookedFunctions_' PROVE
           /\ i.Trampoline \notin freeTrampolines_' /\ copy'[i.Trampoline] = i.OriginalFunc
           /\ code'[i.OriginalFunc] # Null
           /\ \A other \in hookedFunctions_' :
                i.Trampoline = other.Trampoline \/ i.OriginalFunc = other.OriginalFunc => i = other
           /\ \A t \in AllTargets : i.OriginalFunc = Method(t) <=> i.HookFunc = HookOf(t)
      BY DEF ItemInv
    <3>4. CASE i = item
      BY <2>4, <2>5, <2>6, <3>1, <3>2, <3>3, <3>4
    <3>5. CASE i \in hookedFunctions_
      BY <2>4, <2>5, <3>1, <3>2, <3>3, <3>5 DEF ItemInv
    <3> QED BY <3>3, <3>4, <3>5
  <2>9. Reaches(c, f)'
    BY <2>2, <2>4, <2>5 DEF Reaches
  <2>10. ASSUME NEW t \in AllTargets, f = Method(t) PROVE Owns(c, f)'
    <3>1. h = HookOf(t)
      BY <2>10
    <3>2. \A old \in hookedFunctions_ : old.HookFunc # h
      BY <1>2, <2>10, <3>1 DEF Recorded, ItemInv
    <3>3. ItemsOf({h}) = {}
      BY <3>2 DEF ItemsOf
    <3>4. item \in hookedFunctions_' /\ item.OriginalFunc = f /\ item.Trampoline = pointer'[c]
      BY <2>4, <2>5, <3>3 DEF item
    <3> QED BY <3>4 DEF Owns
  <2> QED BY <2>1, <2>2, <2>4, <2>5, <2>6, <2>7, <2>8, <2>9, <2>10
<1> QED BY <1>1, <1>2

\* createHook returns null: only the pointer of the client changes.
LEMMA RefuseFacts ==
  ASSUME CodeInv, NEW c \in Clients, NEW f \in Functions, RefuseHook(c, f)
  PROVE  /\ CodeInv' /\ UNCHANGED <<code, copy, freeTrampolines_, hookedFunctions_, unremoved>>
         /\ pointer'[c] = Null /\ \A d \in Clients : d # c => pointer'[d] = pointer[d]
         /\ Recorded(f) = {}
<1>1. pointer' = [pointer EXCEPT ![c] = Null] /\ UNCHANGED <<code, copy, freeTrampolines_, hookedFunctions_, unremoved>>
  BY DEF RefuseHook
<1>2. CodeTypeOK' /\ pointer'[c] = Null /\ \A d \in Clients : d # c => pointer'[d] = pointer[d]
  BY <1>1 DEF CodeInv, CodeTypeOK
<1>3. ItemInv'
  BY <1>1 DEF CodeInv, ItemInv
<1> QED BY <1>1, <1>2, <1>3 DEF CodeInv, RefuseHook

--------------------------------------------------------------------------------
(* InternalHooks.                                                             *)

LEMMA CreateTarget ==
  ASSUME CodeInv, MethodInv, NEW t \in AllTargets, Create(t), Method(t) \notin unremoved
  PROVE  /\ CodeInv' /\ MethodInv' /\ hooked' = hooked \union {t} /\ unremoved' = unremoved
         /\ \A class \in Classes : code'[GetDisplayNameOf[class]] = code[GetDisplayNameOf[class]]
<1> DEFINE f == Method(t)
           h == HookOf(t)
<1>1. t \in Clients /\ f \in Functions /\ h \in Hooks /\ CreateHook(t, f, h)
      /\ \A u \in AllTargets : f = Method(u) <=> h = HookOf(u)
  BY Names DEF Create
<1> HIDE DEF f, h
<1>2. /\ CodeInv' /\ code'[f] # Null /\ unremoved' = unremoved
      /\ \A d \in Clients : d # t => pointer'[d] = pointer[d]
      /\ \A g \in Functions : g # f => code'[g] = code[g]
      /\ hookedFunctions_ \subseteq hookedFunctions_'
      /\ (\E u \in AllTargets : f = Method(u)) => Owns(t, f)'
  BY <1>1, CreateFacts
<1>3. Owns(t, f)'
  BY <1>2 DEF f
<1>4. hooked' = hooked \union {t}
  <2>1. \A u \in AllTargets : u # t => Method(u) # f /\ Method(u) \in Functions
    BY Names DEF f
  <2>2. \A u \in AllTargets : u # t => code'[Method(u)] = code[Method(u)]
    BY <1>2, <2>1
  <2> QED BY <1>2, <2>2 DEF hooked, AllTargets, f
<1>5. HookedOwn'
  <2> SUFFICES ASSUME NEW u \in hooked' PROVE Owns(u, Method(u))'
    BY DEF HookedOwn
  <2>1. CASE u = t
    BY <1>3, <2>1 DEF f
  <2>2. CASE u # t
    <3>1. u \in hooked /\ u \in Clients
      BY <1>4, <2>2, Names DEF hooked, AllTargets
    <3>2. PICK item \in hookedFunctions_ : item.OriginalFunc = Method(u) /\ item.Trampoline = pointer[u]
      BY <3>1 DEF MethodInv, HookedOwn, Owns
    <3>3. item \in hookedFunctions_' /\ pointer'[u] = pointer[u]
      BY <1>2, <2>2, <3>1
    <3> QED BY <3>2, <3>3 DEF Owns
  <2> QED BY <2>1, <2>2
<1>6. \A class \in Classes : code'[GetDisplayNameOf[class]] = code[GetDisplayNameOf[class]]
  BY <1>2, ShellAssumption, ClientAssumption DEF f, AllTargets
<1>7. UnremovedNull'
  <2> SUFFICES ASSUME NEW u \in AllTargets, Method(u) \in unremoved PROVE pointer'[u] = Null
    BY <1>2 DEF UnremovedNull
  <2>1. u # t /\ u \in Clients /\ pointer[u] = Null
    BY Names DEF MethodInv, UnremovedNull
  <2> QED BY <1>2, <2>1
<1> QED BY <1>2, <1>4, <1>5, <1>6, <1>7 DEF MethodInv

LEMMA RefuseTarget ==
  ASSUME CodeInv, MethodInv, NEW t \in AllTargets, Refuse(t)
  PROVE  CodeInv' /\ MethodInv' /\ hooked' = hooked /\ UNCHANGED <<code, unremoved>>
<1>1. /\ CodeInv' /\ UNCHANGED <<code, copy, freeTrampolines_, hookedFunctions_, unremoved>>
      /\ pointer'[t] = Null /\ \A d \in Clients : d # t => pointer'[d] = pointer[d]
      /\ Recorded(Method(t)) = {}
  BY Names, RefuseFacts DEF Refuse
<1>2. hooked' = hooked
  BY <1>1 DEF hooked
<1>3. HookedOwn'
  <2> SUFFICES ASSUME NEW u \in hooked PROVE Owns(u, Method(u))'
    BY <1>2 DEF HookedOwn
  <2>1. PICK item \in hookedFunctions_ : item.OriginalFunc = Method(u) /\ item.Trampoline = pointer[u]
    BY DEF MethodInv, HookedOwn, Owns
  <2>2. u # t
    BY <1>1, <2>1 DEF Recorded
  <2>3. u \in Clients
    BY Names DEF hooked, AllTargets
  <2> QED BY <1>1, <2>1, <2>2, <2>3 DEF Owns
<1>4. UnremovedNull'
  <2> SUFFICES ASSUME NEW u \in AllTargets, Method(u) \in unremoved PROVE pointer'[u] = Null
    BY <1>1 DEF UnremovedNull
  <2>1. u \in Clients /\ pointer[u] = Null
    BY Names DEF MethodInv, UnremovedNull
  <2> QED BY <1>1, <2>1
<1> QED BY <1>1, <1>2, <1>3, <1>4 DEF MethodInv

\* Whatever removeHook fails on, no other feature loses a trampoline, and no pointer to one that
\* may be freed is left.
LEMMA RemoveTargets ==
  ASSUME CodeInv, MethodInv, NEW which \in SUBSET AllTargets, RemoveHooks(which)
  PROVE  /\ CodeInv' /\ MethodInv' /\ hooked' = hooked \ which
         /\ \A g \in Functions : code[g] = Null => code'[g] = Null
         /\ \A t \in AllTargets \ which : Method(t) \in unremoved' => Method(t) \in unremoved
<1> USE DEF CodeInv
<1> DEFINE hooks == { HookOf(t) : t \in { w \in which : pointer[w] # Null } }
           removed == ItemsOf(hooks)
<1>1. RemoveHook(hooks, which)
  BY DEF RemoveHooks
<1>2. PICK failed \in SUBSET { item \in removed : item.OriginalFunc \in Refusals } :
        /\ Restore(removed \ failed)
        /\ unremoved' = unremoved \union { item.OriginalFunc : item \in failed }
  BY <1>1 DEF RemoveHook
<1>3. pointer' = [c \in Clients |-> IF c \in which THEN Null ELSE pointer[c]] /\ UNCHANGED copy
  BY <1>1 DEF RemoveHook
<1> DEFINE gone == removed \ failed
<1>4. /\ code' = [f \in Functions |-> IF \E item \in gone : item.OriginalFunc = f THEN Null ELSE code[f]]
      /\ hookedFunctions_' = hookedFunctions_ \ gone
      /\ freeTrampolines_' = freeTrampolines_ \union { item.Trampoline : item \in gone }
  BY <1>2 DEF Restore
<1>5. \A item \in removed : item \in hookedFunctions_ /\ \E t \in which : item.OriginalFunc = Method(t)
  BY Names DEF ItemsOf, ItemInv
<1>6. \A item \in hookedFunctions_ : item.OriginalFunc \in Functions /\ item.Trampoline \in Trampolines
  BY DEF CodeTypeOK, Items
<1>7. \A t \in hooked \intersect which : \E item \in removed : item.OriginalFunc = Method(t)
  <2> SUFFICES ASSUME NEW t \in hooked \intersect which PROVE \E item \in removed : item.OriginalFunc = Method(t)
    OBVIOUS
  <2>1. PICK item \in hookedFunctions_ : item.OriginalFunc = Method(t) /\ item.Trampoline = pointer[t]
    BY DEF MethodInv, HookedOwn, Owns
  <2>2. pointer[t] # Null /\ item.HookFunc = HookOf(t)
    BY <1>6, <2>1, HookAssumption DEF ItemInv
  <2> QED BY <2>1, <2>2 DEF ItemsOf
<1> HIDE DEF hooks, removed
<1>8. gone \subseteq hookedFunctions_ /\ failed \subseteq removed
  BY <1>5
<1> HIDE DEF gone
<1>9. \A i \in hookedFunctions_' : \A item \in gone : item.Trampoline # i.Trampoline /\ item.OriginalFunc # i.OriginalFunc
  BY <1>4, <1>8 DEF ItemInv
<1>10. CodeTypeOK'
  <2>1. code' \in [Functions -> Hooks \union {Null}] /\ freeTrampolines_' \subseteq Trampolines
        /\ hookedFunctions_' \subseteq Items
    BY <1>4, <1>6, <1>8 DEF CodeTypeOK
  <2>2. pointer' \in [Clients -> Trampolines \union {Null}]
    BY <1>3 DEF CodeTypeOK
  <2>3. unremoved' \subseteq Functions
    BY <1>2, <1>5, <1>6, <1>8 DEF CodeTypeOK
  <2> QED BY <1>3, <2>1, <2>2, <2>3 DEF CodeTypeOK
<1>11. ItemInv'
  <2> SUFFICES ASSUME NEW i \in hookedFunctions_' PROVE
         /\ i.Trampoline \notin freeTrampolines_' /\ copy'[i.Trampoline] = i.OriginalFunc
         /\ code'[i.OriginalFunc] # Null
         /\ \A other \in hookedFunctions_' :
              i.Trampoline = other.Trampoline \/ i.OriginalFunc = other.OriginalFunc => i = other
         /\ \A t \in AllTargets : i.OriginalFunc = Method(t) <=> i.HookFunc = HookOf(t)
    BY DEF ItemInv
  <2>1. i \in hookedFunctions_
    BY <1>4
  <2>2. i.Trampoline \notin freeTrampolines_' /\ code'[i.OriginalFunc] = code[i.OriginalFunc]
    BY <1>4, <1>6, <1>9, <2>1 DEF ItemInv
  <2> QED BY <1>3, <1>4, <2>1, <2>2 DEF ItemInv
<1>12. hooked' = hooked \ which
  <2>1. ASSUME NEW t \in hooked' PROVE t \in hooked /\ t \notin which
    <3>1. t \in AllTargets /\ Method(t) \in Functions /\ code'[Method(t)] # Null /\ Method(t) \notin unremoved'
      BY <2>1, Names DEF hooked, AllTargets
    <3>2. t \in hooked
      BY <1>2, <1>4, <3>1 DEF hooked, AllTargets
    <3>3. \A item \in removed : item.OriginalFunc # Method(t)
      BY <1>2, <1>4, <3>1 DEF gone
    <3> QED BY <1>7, <3>2, <3>3
  <2>2. ASSUME NEW t \in hooked, t \notin which PROVE t \in hooked'
    <3>1. t \in AllTargets /\ Method(t) \in Functions /\ code[Method(t)] # Null /\ Method(t) \notin unremoved
      BY <2>2, Names DEF hooked, AllTargets
    <3>2. \A item \in removed : item.OriginalFunc # Method(t)
      BY <1>5, <2>2, <3>1, Names
    <3>3. code'[Method(t)] # Null /\ Method(t) \notin unremoved'
      BY <1>2, <1>4, <1>8, <3>1, <3>2 DEF gone
    <3> QED BY <3>1, <3>3 DEF hooked, AllTargets
  <2> QED BY <2>1, <2>2
<1>13. HookedOwn'
  <2> SUFFICES ASSUME NEW t \in hooked, t \notin which PROVE Owns(t, Method(t))'
    BY <1>12 DEF HookedOwn
  <2>1. PICK item \in hookedFunctions_ : item.OriginalFunc = Method(t) /\ item.Trampoline = pointer[t]
    BY DEF MethodInv, HookedOwn, Owns
  <2>2. t \in AllTargets /\ t \in Clients
    BY Names DEF hooked, AllTargets
  <2>3. item \notin removed
    BY <1>5, <2>1, <2>2, Names
  <2>4. item \in hookedFunctions_' /\ pointer'[t] = pointer[t]
    BY <1>3, <1>4, <2>2, <2>3 DEF gone
  <2> QED BY <2>1, <2>4 DEF Owns
<1>14. \A g \in Functions : code[g] = Null => code'[g] = Null
  BY <1>4
<1>15. \A t \in AllTargets \ which : Method(t) \in unremoved' => Method(t) \in unremoved
  BY <1>2, <1>5, <1>8, Names
<1>16. UnremovedNull'
  <2> SUFFICES ASSUME NEW t \in AllTargets, Method(t) \in unremoved' PROVE pointer'[t] = Null
    BY DEF UnremovedNull
  <2>1. t \in Clients
    BY Names
  <2>2. CASE t \in which
    BY <1>3, <2>1, <2>2
  <2>3. CASE t \notin which
    BY <1>3, <1>15, <2>1, <2>3 DEF MethodInv, UnremovedNull
  <2> QED BY <2>2, <2>3
<1> QED BY <1>10, <1>11, <1>12, <1>13, <1>14, <1>15, <1>16 DEF MethodInv

\* Until the installation is over, a step of it concerns no folder.
LEMMA FolderKept ==
  ASSUME FolderInv, ~Done, UNCHANGED shellVars,
         \A class \in Classes : code[GetDisplayNameOf[class]] = Null => code'[GetDisplayNameOf[class]] = Null
  PROVE  FolderInv'
<1>1. \A class \in Classes : code'[GetDisplayNameOf[class]] = Null
  BY DEF FolderInv
<1>2. UNCHANGED thread /\ \A t \in Threads : thread[t].at = "idle"
  BY DEF FolderInv, shellVars
<1> QED BY <1>1, <1>2 DEF FolderInv

\* What a step of the installation must show for the invariant, apart from its control.
HookStep ==
  /\ CodeInv' /\ MethodInv'
  /\ \A class \in Classes : code[GetDisplayNameOf[class]] = Null => code'[GetDisplayNameOf[class]] = Null

LEMMA NoHook == ASSUME CodeInv, MethodInv, UNCHANGED codeVars
                PROVE  HookStep /\ hooked' = hooked /\ unremoved' = unremoved
<1>1. CodeInv'
  BY DEF CodeInv, CodeTypeOK, ItemInv, codeVars
<1>2. hooked' = hooked /\ unremoved' = unremoved /\ code' = code
  BY DEF hooked, codeVars
<1>3. MethodInv'
  BY <1>2 DEF MethodInv, HookedOwn, UnremovedNull, Owns, codeVars
<1> QED BY <1>1, <1>2, <1>3 DEF HookStep

LEMMA CreateStep == ASSUME CodeInv, MethodInv, NEW t \in AllTargets, Create(t), Method(t) \notin unremoved
                    PROVE  HookStep /\ hooked' = hooked \union {t} /\ unremoved' = unremoved
BY CreateTarget DEF HookStep

LEMMA RefuseStep == ASSUME CodeInv, MethodInv, NEW t \in AllTargets, Refuse(t)
                    PROVE  HookStep /\ hooked' = hooked /\ unremoved' = unremoved
BY RefuseTarget DEF HookStep

LEMMA RemoveStep ==
  ASSUME CodeInv, MethodInv, NEW which \in SUBSET AllTargets, RemoveHooks(which)
  PROVE  /\ HookStep /\ hooked' = hooked \ which
         /\ \A t \in AllTargets \ which : Method(t) \in unremoved' => Method(t) \in unremoved
BY RemoveTargets, ShellAssumption DEF HookStep

LEMMA InternalTypes == ASSUME InternalTypeOK, InternalNext PROVE InternalTypeOK'
<1>a. /\ at # "start" /\ at # "done" => gInitializationState = 1
      /\ at \in Steps /\ targets \subseteq Targets /\ image.anchors \subseteq Targets
      /\ gLeeyesInternalFullResync \in BOOLEAN /\ batchInstalled \in BOOLEAN /\ worker \in BOOLEAN
  BY InternalAssumption DEF InternalTypeOK
<1>b. UNCHANGED given /\ targets' \subseteq Targets
  BY <1>a DEF InternalNext, Initialize, ResolveTargets, HookDispatch, HookDrain, AfterBatch, InstallPassThroughHooks,
              HookRequired, HookOptional, StartTrace
<1>c. gLeeyesInternalFullResync' \in BOOLEAN /\ batchInstalled' \in BOOLEAN /\ worker' \in BOOLEAN
  BY <1>a DEF InternalNext, Initialize, ResolveTargets, HookDispatch, HookDrain, BatchFails, AfterBatch,
              InstallPassThroughHooks, HookRequired, HookOptional, StartTrace
<1>d. (\E step \in Steps \ {"start", "done"} : at' = step /\ gInitializationState' = 1)
      \/ (\E state \in 2 .. 7 : Finish(state))
  <2>1. BatchFails /\ at # "start" /\ at # "done" => (at' = "afterBatch" /\ gInitializationState' = 1) \/ Finish(4)
    BY <1>a DEF BatchFails, Go
  <2>2. \A state \in {4, 5} : TraceFails(state) => Finish(7) \/ Finish(state)
    BY DEF TraceFails
  <2> USE DEF Steps, Go
  <2>3. CASE Initialize
    BY <2>3 DEF Initialize
  <2>4. CASE ResolveTargets
    BY <1>a, <2>4 DEF ResolveTargets
  <2>5. CASE HookDispatch \/ HookDrain
    <3>1. (at' \in {"drain", "afterBatch"} /\ gInitializationState' = 1) \/ Finish(4)
      BY <1>a, <2>1, <2>5 DEF HookDispatch, HookDrain
    <3> QED BY <3>1
  <2>6. CASE AfterBatch
    BY <1>a, <2>6 DEF AfterBatch
  <2>7. CASE InstallPassThroughHooks \/ StartTrace
    <3>1. (at' \in {"changing", "change", "layoutRefresh", "layoutUpdate", "startTrace"} /\ gInitializationState' = 1)
          \/ Finish(4) \/ Finish(5) \/ Finish(6) \/ Finish(7)
      BY <1>a, <2>2, <2>7 DEF InstallPassThroughHooks, HookRequired, HookOptional, StartTrace
    <3> QED BY <3>1
  <2> QED BY <2>3, <2>4, <2>5, <2>6, <2>7 DEF InternalNext
<1> QED BY <1>b, <1>c, <1>d DEF InternalTypeOK, given, Finish, Steps

\* The installation keeps the steps and the hooks in accord.
LEMMA InternalSteps ==
  ASSUME CodeInv, MethodInv, InternalTypeOK, StepInv, InternalNext
  PROVE  HookStep /\ StepInv'
<1> USE DEF BatchStep, Untried, given, Finish, Go
<1>a. BatchHooks \subseteq AllTargets /\ TraceHooks \subseteq AllTargets
  BY DEF AllTargets
<1>b. BatchHooks = {"fileChangeDispatch", "changeQueueDrain"}
      /\ TraceHooks = {"refresh", "changing", "change", "layoutRefresh", "layoutUpdate"}
      /\ TraceTargets = {"refresh", "changing", "change"}
  BY DEF BatchHooks, TraceHooks, TraceTargets, LayoutTargets
<1>1. CASE Initialize
  <2>1. HookStep /\ hooked' = hooked /\ unremoved' = unremoved
    BY <1>1, NoHook DEF Initialize
  <2>2. StepInv'
    BY <1>1, <1>b, <2>1 DEF Initialize, StepInv, FeaturesWhole, Done, InternalTypeOK
  <2> QED BY <2>1, <2>2
<1>2. CASE ResolveTargets
  <2>1. HookStep /\ hooked' = hooked /\ unremoved' = unremoved
    BY <1>2, NoHook DEF ResolveTargets
  <2>2. StepInv'
    BY <1>2, <1>b, <2>1 DEF ResolveTargets, StepInv, FeaturesWhole, Done, InternalTypeOK
  <2> QED BY <2>1, <2>2
<1>3. CASE HookDispatch
  <2>1. CASE Create("fileChangeDispatch") /\ gLeeyesInternalFullResync' = TRUE /\ Go("drain")
    <3>1. HookStep /\ hooked' = hooked \union {"fileChangeDispatch"} /\ unremoved' = unremoved
      BY <1>3, <1>a, <1>b, <2>1, CreateStep DEF HookDispatch, StepInv
    <3>2. StepInv'
      BY <1>3, <1>b, <2>1, <3>1 DEF HookDispatch, StepInv, FeaturesWhole, Done
    <3> QED BY <3>1, <3>2
  <2>2. CASE BatchFails
    <3>1. /\ HookStep /\ hooked' = hooked \ BatchHooks
          /\ \A t \in TraceHooks : Method(t) \in unremoved' => Method(t) \in unremoved
      <4>1. \A t \in TraceHooks : t \in AllTargets \ BatchHooks
        BY <1>b DEF AllTargets
      <4> QED BY <1>a, <2>2, <4>1, RemoveStep DEF BatchFails
    <3>2. StepInv'
      BY <1>3, <1>b, <2>2, <3>1 DEF HookDispatch, BatchFails, StepInv, FeaturesWhole, Done
    <3> QED BY <3>1, <3>2
  <2> QED BY <1>3, <2>1, <2>2 DEF HookDispatch
<1>4. CASE HookDrain
  <2>1. CASE Create("changeQueueDrain") /\ batchInstalled' = TRUE /\ Go("afterBatch") /\ UNCHANGED gLeeyesInternalFullResync
    <3>1. HookStep /\ hooked' = hooked \union {"changeQueueDrain"} /\ unremoved' = unremoved
      BY <1>4, <1>a, <1>b, <2>1, CreateStep DEF HookDrain, StepInv
    <3>2. StepInv'
      BY <1>4, <1>b, <2>1, <3>1 DEF HookDrain, StepInv, FeaturesWhole, Done
    <3> QED BY <3>1, <3>2
  <2>2. CASE BatchFails /\ UNCHANGED batchInstalled
    <3>1. /\ HookStep /\ hooked' = hooked \ BatchHooks
          /\ \A t \in TraceHooks : Method(t) \in unremoved' => Method(t) \in unremoved
      <4>1. \A t \in TraceHooks : t \in AllTargets \ BatchHooks
        BY <1>b DEF AllTargets
      <4> QED BY <1>a, <2>2, <4>1, RemoveStep DEF BatchFails
    <3>2. StepInv'
      BY <1>4, <1>b, <2>2, <3>1 DEF HookDrain, BatchFails, StepInv, FeaturesWhole, Done
    <3> QED BY <3>1, <3>2
  <2> QED BY <1>4, <2>1, <2>2 DEF HookDrain
<1>5. CASE AfterBatch
  <2>1. HookStep /\ hooked' = hooked /\ unremoved' = unremoved
    BY <1>5, NoHook DEF AfterBatch
  <2>2. StepInv'
    BY <1>5, <1>b, <2>1 DEF AfterBatch, StepInv, FeaturesWhole, Done
  <2> QED BY <2>1, <2>2
<1>c. ASSUME NEW state \in {4, 5}, TraceFails(state), at \in {"refresh", "changing", "change", "startTrace"},
             UNCHANGED <<gLeeyesInternalFullResync, batchInstalled, worker>>
      PROVE  HookStep /\ StepInv'
  <2>1. HookStep /\ hooked' = hooked \ TraceHooks
    BY <1>a, <1>c, RemoveStep DEF TraceFails
  <2>2. StepInv'
    BY <1>b, <1>c, <2>1 DEF TraceFails, StepInv, FeaturesWhole, Done
  <2> QED BY <2>1, <2>2
<1>6. CASE InstallPassThroughHooks
  <2>1. ASSUME NEW target \in TraceTargets, NEW then \in {"changing", "change", "layoutRefresh"},
               <<target, then>> \in {<<"refresh", "changing">>, <<"changing", "change">>, <<"change", "layoutRefresh">>},
               HookRequired(target, then)
        PROVE  HookStep /\ StepInv'
    <3>1. CASE Create(target) /\ Go(then)
      <4>1. HookStep /\ hooked' = hooked \union {target} /\ unremoved' = unremoved
        BY <1>a, <1>b, <2>1, <3>1, CreateStep DEF HookRequired, StepInv
      <4>2. StepInv'
        BY <1>b, <2>1, <3>1, <4>1 DEF HookRequired, StepInv, FeaturesWhole, Done
      <4> QED BY <4>1, <4>2
    <3>2. CASE TraceFails(4)
      BY <1>b, <1>c, <2>1, <3>2 DEF HookRequired
    <3> QED BY <2>1, <3>1, <3>2 DEF HookRequired
  <2>2. ASSUME NEW target \in LayoutTargets, NEW then \in {"layoutUpdate", "startTrace"},
               HookOptional(target, then)
        PROVE  HookStep /\ StepInv'
    <3>1. /\ HookStep /\ hooked \subseteq hooked' /\ hooked' \subseteq hooked \union TraceHooks
          /\ unremoved' = unremoved
      <4>1. target \in AllTargets /\ target \in TraceHooks
        BY DEF AllTargets, TraceHooks
      <4>2. CASE Create(target)
        <5>1. Method(target) \notin unremoved
          BY <2>2, <4>1 DEF HookOptional, StepInv, LayoutTargets
        <5> QED BY <4>1, <4>2, <5>1, CreateStep
      <4>3. CASE Refuse(target)
        BY <4>1, <4>3, RefuseStep
      <4>4. CASE UNCHANGED codeVars
        BY <4>4, NoHook
      <4> QED BY <2>2, <4>2, <4>3, <4>4 DEF HookOptional
    <3>2. StepInv'
      BY <1>b, <2>2, <3>1 DEF HookOptional, StepInv, FeaturesWhole, Done, LayoutTargets
    <3> QED BY <3>1, <3>2
  <2> QED BY <1>6, <1>b, <2>1, <2>2 DEF InstallPassThroughHooks, LayoutTargets
<1>7. CASE StartTrace
  <2>1. CASE Finish(6) /\ worker' = TRUE /\ UNCHANGED codeVars
    <3>1. HookStep /\ hooked' = hooked /\ unremoved' = unremoved
      BY <2>1, NoHook
    <3>2. StepInv'
      BY <1>7, <1>b, <2>1, <3>1 DEF StartTrace, StepInv, FeaturesWhole, Done
    <3> QED BY <3>1, <3>2
  <2>2. CASE TraceFails(5) /\ UNCHANGED worker
    BY <1>7, <1>c, <2>2 DEF StartTrace
  <2> QED BY <1>7, <2>1, <2>2 DEF StartTrace
<1> QED BY <1>1, <1>2, <1>3, <1>4, <1>5, <1>6, <1>7 DEF InternalNext

LEMMA InternalInv == ASSUME IInv, InternalNext, UNCHANGED shellVars PROVE IInv'
<1>1. CodeInv /\ MethodInv /\ InternalTypeOK /\ StepInv /\ FolderInv /\ ShellTypeOK
  BY DEF IInv, TypeOK, CodeInv
<1>2. HookStep /\ StepInv'
  BY <1>1, InternalSteps
<1>3. ~Done
  BY DEF InternalNext, Initialize, ResolveTargets, HookDispatch, HookDrain, AfterBatch, InstallPassThroughHooks,
         HookRequired, HookOptional, StartTrace, Done
<1>4. FolderInv'
  BY <1>1, <1>2, <1>3, FolderKept DEF HookStep
<1>5. InternalTypeOK'
  BY <1>1, InternalTypes
<1>6. ShellTypeOK'
  BY <1>1 DEF ShellTypeOK, shellVars
<1> QED BY <1>2, <1>4, <1>5, <1>6 DEF IInv, TypeOK, HookStep, CodeInv

--------------------------------------------------------------------------------
(* ShellFolders.                                                              *)

\* A folder is hooked: the methods of Leeyes, their items and pointers are left alone.
LEMMA NamesApart ==
  ASSUME MethodInv, NEW class \in Classes, hookedFunctions_ \subseteq hookedFunctions_', UNCHANGED unremoved,
         \A d \in Clients : d # QueryInterface[class] => pointer'[d] = pointer[d],
         \A g \in Functions : g # GetDisplayNameOf[class] => code'[g] = code[g]
  PROVE  MethodInv' /\ hooked' = hooked
<1>1. \A t \in AllTargets : t \in Clients /\ t # QueryInterface[class] /\ Method(t) \in Functions
                            /\ Method(t) # GetDisplayNameOf[class]
  BY Names, ClientAssumption DEF AllTargets
<1>2. \A t \in AllTargets : pointer'[t] = pointer[t] /\ code'[Method(t)] = code[Method(t)]
  BY <1>1
<1>3. hooked' = hooked
  BY <1>2 DEF hooked, AllTargets
<1>4. \A t \in hooked : t \in AllTargets
  BY DEF hooked, AllTargets
<1>5. HookedOwn'
  BY <1>2, <1>3, <1>4 DEF MethodInv, HookedOwn, Owns
<1>6. UnremovedNull'
  BY <1>2 DEF MethodInv, UnremovedNull
<1> QED BY <1>3, <1>5, <1>6 DEF MethodInv

\* The other classes of folder keep their trampoline, and so do the calls on their way.
LEMMA FoldersApart ==
  ASSUME FolderInv, Done, Done', NEW class \in Classes, CodeTypeOK,
         QueryInterface[class] \notin keys, keys' = keys \union {QueryInterface[class]}, UNCHANGED thread,
         \A d \in Clients : d # QueryInterface[class] => pointer'[d] = pointer[d],
         \A g \in Functions : g # GetDisplayNameOf[class] => code'[g] = code[g],
         code[GetDisplayNameOf[class]] # Null => code'[GetDisplayNameOf[class]] # Null,
         code'[GetDisplayNameOf[class]] # Null => Reaches(QueryInterface[class], GetDisplayNameOf[class])',
         freeTrampolines_' \subseteq freeTrampolines_,
         \A tr \in Trampolines \ freeTrampolines_ : copy'[tr] = copy[tr],
         ShellTypeOK
  PROVE  FolderInv'
<1>1. ASSUME NEW d \in Classes, code'[GetDisplayNameOf[d]] # Null
      PROVE  QueryInterface[d] \in keys' /\ Reaches(QueryInterface[d], GetDisplayNameOf[d])'
  <2>1. QueryInterface[d] \in Clients /\ GetDisplayNameOf[d] \in Functions
    BY ShellAssumption
  <2>2. CASE GetDisplayNameOf[d] = GetDisplayNameOf[class]
    BY <1>1, <2>2, ClientAssumption
  <2>3. CASE GetDisplayNameOf[d] # GetDisplayNameOf[class]
    <3>1. QueryInterface[d] \in keys /\ Reaches(QueryInterface[d], GetDisplayNameOf[d])
      BY <1>1, <2>1, <2>3 DEF FolderInv
    <3>2. pointer'[QueryInterface[d]] = pointer[QueryInterface[d]]
      BY <2>1, <3>1
    <3> QED BY <3>1, <3>2 DEF Reaches
  <2> QED BY <2>2, <2>3
<1>2. ASSUME NEW t \in Threads
      PROVE  LET own == GetDisplayNameOf[thread[t].class] IN
               /\ thread[t].at = "hook" => code'[own] # Null
               /\ thread[t].at = "original" =>
                    thread[t].orig_func \in Trampolines \ freeTrampolines_' /\ copy'[thread[t].orig_func] = own
               /\ thread[t].at = "returned" => thread[t].answer \in {own, E_FAIL}
  <2> DEFINE own == GetDisplayNameOf[thread[t].class]
  <2>1. own \in Functions
    BY ShellAssumption DEF ShellTypeOK
  <2>2. /\ thread[t].at = "hook" => code[own] # Null
        /\ thread[t].at = "original" =>
             thread[t].orig_func \in Trampolines \ freeTrampolines_ /\ copy[thread[t].orig_func] = own
        /\ thread[t].at = "returned" => thread[t].answer \in {own, E_FAIL}
    BY DEF FolderInv
  <2>3. code[own] # Null => code'[own] # Null
    BY <2>1
  <2> QED BY <2>2, <2>3
<1> QED BY <1>1, <1>2 DEF FolderInv

LEMMA BindInv ==
  ASSUME IInv, Done, UNCHANGED internalVars, NEW class \in Classes, SHBindToParent(class)
  PROVE  IInv'
<1> DEFINE key == QueryInterface[class]
           f == GetDisplayNameOf[class]
<1>1. CodeInv /\ MethodInv /\ InternalTypeOK /\ StepInv /\ FolderInv /\ ShellTypeOK /\ CodeTypeOK
  BY DEF IInv, TypeOK, CodeInv
<1>2. key \in Clients /\ f \in Functions /\ GetDisplayNameOfHook \in Hooks
  BY ShellAssumption
<1>3. ShellTypeOK'
  BY <1>1, <1>2 DEF SHBindToParent, ShellTypeOK, HookName
<1>4. InternalTypeOK' /\ Done'
  BY <1>1 DEF InternalTypeOK, internalVars, Done
<1>5. ASSUME hooked' = hooked, unremoved' = unremoved PROVE StepInv'
  BY <1>1, <1>5 DEF StepInv, internalVars, Untried, FeaturesWhole, Done
<1> HIDE DEF key, f
<1>6. CASE key \in keys
  <2>1. UNCHANGED <<codeVars, keys, thread>>
    BY <1>6 DEF SHBindToParent, key
  <2>2. HookStep /\ hooked' = hooked /\ unremoved' = unremoved
    BY <1>1, <2>1, NoHook
  <2>3. FolderInv'
    BY <1>1, <1>4, <2>1 DEF FolderInv, Reaches, codeVars
  <2> QED BY <1>3, <1>4, <1>5, <2>2, <2>3 DEF IInv, TypeOK, HookStep, CodeInv
<1>7. CASE key \notin keys /\ CreateHook(key, f, GetDisplayNameOfHook)
  <2>1. keys' = keys \union {key} /\ UNCHANGED thread
    BY <1>7 DEF SHBindToParent, key
  <2>2. \A t \in AllTargets : f = Method(t) <=> GetDisplayNameOfHook = HookOf(t)
    BY ClientAssumption DEF f, AllTargets
  <2>3. /\ CodeInv' /\ Reaches(key, f)' /\ code'[f] # Null /\ unremoved' = unremoved
        /\ \A d \in Clients : d # key => pointer'[d] = pointer[d]
        /\ \A g \in Functions : g # f => code'[g] = code[g]
        /\ freeTrampolines_' \subseteq freeTrampolines_
        /\ \A tr \in Trampolines \ freeTrampolines_ : copy'[tr] = copy[tr]
        /\ hookedFunctions_ \subseteq hookedFunctions_'
    BY <1>1, <1>2, <1>7, <2>2, CreateFacts
  <2>4. MethodInv' /\ hooked' = hooked
    BY <1>1, <2>3, NamesApart DEF key, f
  <2>5. FolderInv'
    BY <1>1, <1>4, <1>7, <2>1, <2>3, FoldersApart DEF key, f
  <2> QED BY <1>3, <1>4, <1>5, <2>3, <2>4, <2>5 DEF IInv, TypeOK, CodeInv
<1>8. CASE key \notin keys /\ RefuseHook(key, f)
  <2>1. keys' = keys \union {key} /\ UNCHANGED thread
    BY <1>8 DEF SHBindToParent, key
  <2>2. /\ CodeInv' /\ UNCHANGED <<code, copy, freeTrampolines_, hookedFunctions_, unremoved>>
        /\ \A d \in Clients : d # key => pointer'[d] = pointer[d]
    BY <1>1, <1>2, <1>8, RefuseFacts
  <2>3. MethodInv' /\ hooked' = hooked
    BY <1>1, <2>2, NamesApart DEF key, f
  <2>4. code[f] = Null
    BY <1>1, <1>8 DEF FolderInv, key, f
  <2>5. FolderInv'
    BY <1>1, <1>4, <1>8, <2>1, <2>2, <2>4, FoldersApart DEF key, f
  <2> QED BY <1>3, <1>4, <1>5, <2>2, <2>3, <2>5 DEF IInv, TypeOK, CodeInv
<1> QED BY <1>6, <1>7, <1>8 DEF SHBindToParent, HookName, key, f

\* A call of GetDisplayNameOf leaves everything but its own thread alone.
LEMMA CallInv ==
  ASSUME IInv, Done, UNCHANGED internalVars, NEW t \in Threads,
         Lookup(t) \/ CallOrig(t) \/ Return(t) \/ \E class \in Classes : Call(t, class)
  PROVE  IInv'
<1>1. CodeInv /\ MethodInv /\ InternalTypeOK /\ StepInv /\ FolderInv /\ ShellTypeOK /\ CodeTypeOK
  BY DEF IInv, TypeOK, CodeInv
<1>2. UNCHANGED <<codeVars, keys, bound>>
  BY DEF Lookup, CallOrig, Return, Call
<1>3. HookStep /\ hooked' = hooked /\ unremoved' = unremoved
  BY <1>1, <1>2, NoHook
<1>4. StepInv' /\ InternalTypeOK' /\ Done'
  BY <1>1, <1>3 DEF StepInv, internalVars, Untried, FeaturesWhole, Done, InternalTypeOK
<1> DEFINE Right(th) == LET own == GetDisplayNameOf[th.class] IN
             /\ th.at = "hook" => code[own] # Null
             /\ th.at = "original" => th.orig_func \in Trampolines \ freeTrampolines_ /\ copy[th.orig_func] = own
             /\ th.at = "returned" => th.answer \in {own, E_FAIL}
           Typed == [at : {"idle", "hook", "original", "returned"}, class : Classes,
                     orig_func : Trampolines \union {Null},
                     answer : Functions \union Hooks \union {E_FAIL}]
<1>5. thread \in [Threads -> Typed] /\ Right(thread[t])
  BY <1>1 DEF ShellTypeOK, FolderInv
<1>6. \E th \in Typed : Right(th) /\ thread' = [thread EXCEPT ![t] = th]
  <2> DEFINE own == GetDisplayNameOf[thread[t].class]
  <2>1. thread[t] \in Typed /\ own \in Functions
    BY <1>5, ShellAssumption
  <2>2. CASE Lookup(t)
    <3> DEFINE orig == pointer[QueryInterface[thread[t].class]]
    <3>1. orig \in Trampolines \ freeTrampolines_ /\ copy[orig] = own /\ orig # Null
      BY <1>1, <1>5, <2>1, <2>2, HookAssumption DEF Lookup, FolderInv, Reaches
    <3>2. thread' = [thread EXCEPT ![t] = [thread[t] EXCEPT !.orig_func = orig, !.at = "original"]]
      BY <1>5, <2>1, <2>2, <3>1 DEF Lookup
    <3>3. [thread[t] EXCEPT !.orig_func = orig, !.at = "original"] \in Typed
      BY <2>1, <3>1
    <3>4. Right([thread[t] EXCEPT !.orig_func = orig, !.at = "original"])
      BY <2>1, <3>1
    <3> QED BY <3>2, <3>3, <3>4
  <2>3. CASE CallOrig(t)
    <3>1. copy[thread[t].orig_func] = own
      BY <1>5, <2>3 DEF CallOrig
    <3>2. thread' = [thread EXCEPT ![t] = [thread[t] EXCEPT !.at = "returned", !.answer = own]]
      BY <1>5, <2>1, <2>3, <3>1 DEF CallOrig
    <3>3. [thread[t] EXCEPT !.at = "returned", !.answer = own] \in Typed
      BY <2>1
    <3>4. Right([thread[t] EXCEPT !.at = "returned", !.answer = own])
      BY <2>1
    <3> QED BY <3>2, <3>3, <3>4
  <2>4. CASE Return(t)
    <3>1. thread' = [thread EXCEPT ![t] = [thread[t] EXCEPT !.at = "idle", !.orig_func = Null, !.answer = E_FAIL]]
      BY <1>5, <2>1, <2>4 DEF Return
    <3>2. [thread[t] EXCEPT !.at = "idle", !.orig_func = Null, !.answer = E_FAIL] \in Typed
      BY <2>1
    <3>3. Right([thread[t] EXCEPT !.at = "idle", !.orig_func = Null, !.answer = E_FAIL])
      BY <2>1
    <3> QED BY <3>1, <3>2, <3>3
  <2>5. ASSUME NEW class \in Classes, Call(t, class)
        PROVE  \E th \in Typed : Right(th) /\ thread' = [thread EXCEPT ![t] = th]
    <3>1. GetDisplayNameOf[class] \in Functions
      BY ShellAssumption
    <3>2. CASE code[GetDisplayNameOf[class]] = Null
      <4> DEFINE th == [at |-> "returned", class |-> class, orig_func |-> Null, answer |-> GetDisplayNameOf[class]]
      <4>1. thread' = [thread EXCEPT ![t] = th]
        BY <2>5, <3>2 DEF Call
      <4>2. th \in Typed /\ Right(th)
        BY <3>1
      <4> QED BY <4>1, <4>2
    <3>3. CASE code[GetDisplayNameOf[class]] # Null
      <4> DEFINE th == [at |-> "hook", class |-> class, orig_func |-> Null, answer |-> E_FAIL]
      <4>1. thread' = [thread EXCEPT ![t] = th]
        BY <2>5, <3>3 DEF Call
      <4>2. th \in Typed /\ Right(th)
        BY <3>3
      <4> QED BY <4>1, <4>2
    <3> QED BY <3>2, <3>3
  <2> QED BY <2>2, <2>3, <2>4, <2>5
<1>7. PICK th \in Typed : Right(th) /\ thread' = [thread EXCEPT ![t] = th]
  BY <1>6
<1> HIDE DEF Right, Typed
<1>8. thread' \in [Threads -> Typed]
  BY <1>5, <1>7
<1>9. ASSUME NEW u \in Threads PROVE Right(thread'[u])
  <2>1. Right(thread[u])
    BY <1>1 DEF FolderInv, Right
  <2>2. thread'[u] = IF u = t THEN th ELSE thread[u]
    BY <1>5, <1>7
  <2> QED BY <1>7, <2>1, <2>2
<1>10. FolderInv'
  <2>1. code' = code /\ copy' = copy /\ freeTrampolines_' = freeTrampolines_ /\ pointer' = pointer /\ keys' = keys
    BY <1>2 DEF codeVars
  <2> QED BY <1>1, <1>4, <1>9, <2>1 DEF FolderInv, Right, Reaches
<1>11. ShellTypeOK'
  BY <1>1, <1>2, <1>8 DEF ShellTypeOK, Typed
<1> QED BY <1>3, <1>4, <1>10, <1>11 DEF IInv, TypeOK, HookStep, CodeInv

--------------------------------------------------------------------------------
(* The theorems.                                                              *)

LEMMA InitInv == Init => IInv
<1> SUFFICES ASSUME Init PROVE IInv
  OBVIOUS
<1> USE DEF Init
<1>1. CodeTypeOK /\ \A f \in Functions : code[f] = Null
  BY DEF CodeInit, CodeTypeOK
<1>2. hooked = {} /\ unremoved = {}
  BY <1>1, Names DEF hooked, AllTargets, CodeInit
<1>3. ItemInv /\ MethodInv
  BY <1>2 DEF ItemInv, MethodInv, HookedOwn, UnremovedNull, CodeInit
<1>4. InternalTypeOK
  BY DEF InternalInit, InternalTypeOK, Steps
<1>5. (CHOOSE c \in Classes : TRUE) \in Classes
  BY ShellAssumption
<1>6. ShellTypeOK /\ \A t \in Threads : thread[t].at = "idle"
  BY <1>5 DEF ShellInit, ShellTypeOK
<1>7. FolderInv
  BY <1>1, <1>6, ShellAssumption DEF FolderInv
<1>8. StepInv
  BY <1>2 DEF InternalInit, StepInv, Untried, FeaturesWhole, Done, BatchStep
<1> QED BY <1>1, <1>3, <1>4, <1>6, <1>7, <1>8 DEF IInv, TypeOK

LEMMA NextInv == IInv /\ [Next]_vars => IInv'
<1> SUFFICES ASSUME IInv, [Next]_vars PROVE IInv'
  OBVIOUS
<1>1. CASE InternalNext /\ UNCHANGED shellVars
  BY <1>1, InternalInv
<1>2. CASE Done /\ ShellNext /\ UNCHANGED internalVars
  BY <1>2, BindInv, CallInv DEF ShellNext
<1>3. CASE UNCHANGED vars
  <2>1. CodeInv /\ MethodInv
    BY DEF IInv, TypeOK, CodeInv
  <2>2. HookStep /\ hooked' = hooked /\ unremoved' = unremoved
    BY <1>3, <2>1, NoHook DEF vars
  <2>3. StepInv' /\ InternalTypeOK' /\ ShellTypeOK' /\ FolderInv'
    BY <1>3, <2>2 DEF vars, internalVars, shellVars, codeVars, IInv, TypeOK, StepInv, Untried, FeaturesWhole, Done,
                      InternalTypeOK, ShellTypeOK, FolderInv, Reaches
  <2> QED BY <2>2, <2>3 DEF IInv, TypeOK, HookStep, CodeInv
<1> QED BY <1>1, <1>2, <1>3 DEF Next

LEMMA Inductive == Spec => []IInv
BY InitInv, NextInv, PTL DEF Spec

\* The state of the patched code, of the installation and of the folders is well-formed
\* (NCodeHook.cpp, hook_runtime.cpp, Shell32 of dllmain.cpp).
THEOREM TypeCorrect == Spec => []TypeOK
<1>1. IInv => TypeOK
  BY DEF IInv
<1> QED BY <1>1, Inductive, PTL

\* No method or folder is left with a jump to a hook whose pointer leads elsewhere than back to it,
\* in whatever order the two clients of the page of trampolines use it and whatever createHook
\* fails on; where removeHook has failed, the pointer of a method leads back or is null.
THEOREM HookReachesOriginalCorrect == Spec => []HookReachesOriginal
<1>1. IInv => HookReachesOriginal
  <2> SUFFICES ASSUME IInv PROVE HookReachesOriginal
    OBVIOUS
  <2>1. ASSUME NEW t \in hooked PROVE Reaches(t, Method(t))
    <3>1. PICK item \in hookedFunctions_ : item.OriginalFunc = Method(t) /\ item.Trampoline = pointer[t]
      BY DEF IInv, MethodInv, HookedOwn, Owns
    <3>2. item.Trampoline \in Trampolines
      BY DEF IInv, TypeOK, CodeTypeOK, Items
    <3> QED BY <3>1, <3>2 DEF IInv, ItemInv, Reaches
  <2>2. bound \subseteq Classes
    BY DEF IInv, TypeOK, ShellTypeOK
  <2>3. FoldersReach
    BY <2>2 DEF IInv, FolderInv, FoldersReach
  <2>4. ASSUME NEW t \in AllTargets, code[Method(t)] # Null
        PROVE  Reaches(t, Method(t)) \/ (Method(t) \in unremoved /\ pointer[t] = Null)
    <3>1. CASE Method(t) \in unremoved
      BY <3>1 DEF IInv, MethodInv, UnremovedNull
    <3>2. CASE Method(t) \notin unremoved
      BY <2>1, <2>4, <3>2 DEF hooked, AllTargets
    <3> QED BY <3>1, <3>2
  <2> QED BY <2>3, <2>4 DEF HookReachesOriginal, MethodsReach, AllTargets
<1> QED BY <1>1, Inductive, PTL

\* When InitializeLeeyesInternalHooks has returned, batching and tracing are each whole or
\* absent, and its state says which.
THEOREM FeaturesWholeCorrect == Spec => []FeaturesWhole
<1>1. IInv => FeaturesWhole
  BY DEF IInv, StepInv
<1> QED BY <1>1, Inductive, PTL

\* GetDisplayNameOfHook, which all classes of folder share, answers each by its own method.
THEOREM OwnMethodCorrect == Spec => []OwnMethod
<1>1. IInv => OwnMethod
  BY DEF IInv, FolderInv, OwnMethod
<1> QED BY <1>1, Inductive, PTL
================================================================================
