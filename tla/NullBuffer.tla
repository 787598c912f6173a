----------------------------- MODULE NullBuffer -----------------------------
(***************************************************************************)
(* Deferred reference counting, libhilti/memory_.c.  Locals of a program   *)
(* are not counted.  An object whose count is zero goes to the context's   *)
(* null buffer; at a safepoint the locals are counted for a moment, and    *)
(* what is in the buffer and still has no reference is destroyed.  The     *)
(* destructors release what the objects refer to, which adds to the buffer *)
(* that is being flushed.                                                  *)
(*                                                                         *)
(* An object is its address, which may be used again once it is freed.     *)
(* Left out: the growth of the buffer's array, values without a header.    *)
(***************************************************************************)
EXTENDS Integers, Sequences, FiniteSets

CONSTANTS
  Objs,      \* addresses of objects
  NumFields, \* the number of references that an object has
  Globals    \* references from outside: globals, containers of the runtime

ASSUME NullBufferAssumption ==
  /\ IsFiniteSet(Objs) /\ "none" \notin Objs
  /\ NumFields \in Nat
  /\ IsFiniteSet(Globals)

VARIABLES
  alloc,      \* the objects that are allocated
  ref_cnt,    \* object -> its count
  field,      \* object -> field -> object
  global,     \* global -> object
  locals,     \* the objects that locals refer to
  objs,       \* the null buffer
  flush_pos,  \* position in it while it is flushed; zero otherwise
  adapted,    \* the locals that are counted because of a safepoint
  dying,      \* destructors that are running: object, field to release next
  pc          \* "run" the program, "flush" the buffer, "post" safepoint

heap == <<alloc, field, global, locals>>
vars == <<heap, ref_cnt, objs, flush_pos, adapted, dying, pc>>

None == "none"
Fields == 1..NumFields
NoFields == [f \in Fields |-> None]

Init ==
  /\ alloc = {}
  /\ ref_cnt = [o \in Objs |-> 0]
  /\ field = [o \in Objs |-> NoFields]
  /\ global = [g \in Globals |-> None]
  /\ locals = {}
  /\ objs = <<>> /\ flush_pos = 0
  /\ adapted = {} /\ dying = <<>>
  /\ pc = "run"

-----------------------------------------------------------------------------
(* __hlt_object_ref and the count of __hlt_object_unref *)
Ref(counts, o) == IF o = None THEN counts ELSE [counts EXCEPT ![o] = @ + 1]
Unref(counts, o) == IF o = None THEN counts ELSE [counts EXCEPT ![o] = @ - 1]

(* _nullbuffer_index: zero if the object is not in the buffer *)
Index(o) ==
  LET at == {i \in DOMAIN objs : objs[i] = o}
  IN  IF at = {} THEN 0 ELSE CHOOSE i \in at : \A j \in at : i <= j

(* __hlt_memory_nullbuffer_add while the buffer is not flushed *)
Added(o) == IF Index(o) > 0 THEN objs ELSE Append(objs, o)

(* The buffer after __hlt_object_unref has set the counts to these *)
AddedIfZero(counts, o) == IF o # None /\ counts[o] = 0 THEN Added(o) ELSE objs

-----------------------------------------------------------------------------
(* __hlt_object_new *)
New(o) ==
  /\ pc = "run" /\ o \notin alloc
  /\ alloc' = alloc \cup {o}
  /\ ref_cnt' = [ref_cnt EXCEPT ![o] = 0]
  /\ field' = [field EXCEPT ![o] = NoFields]
  /\ objs' = Added(o)
  /\ locals' = locals \cup {o}
  /\ UNCHANGED <<global, flush_pos, adapted, dying, pc>>

(* __hlt_object_new_ref: the caller keeps the reference. *)
NewRef(o, g) ==
  /\ pc = "run" /\ o \notin alloc /\ global[g] = None
  /\ alloc' = alloc \cup {o}
  /\ ref_cnt' = [ref_cnt EXCEPT ![o] = 1]
  /\ field' = [field EXCEPT ![o] = NoFields]
  /\ global' = [global EXCEPT ![g] = o]
  /\ UNCHANGED <<locals, objs, flush_pos, adapted, dying, pc>>

(* Program code takes a reference from a field or from a global into a     *)
(* local, or a local goes out of scope; neither is counted.                *)
Load(v) ==
  /\ pc = "run"
  /\ \/ \E g \in Globals : v = global[g]
     \/ \E o \in locals, f \in Fields : v = field[o][f]
  /\ v # None /\ v \notin locals
  /\ locals' = locals \cup {v}
  /\ UNCHANGED <<alloc, field, global, ref_cnt, objs, flush_pos, adapted, dying, pc>>

Forget(o) ==
  /\ pc = "run" /\ o \in locals
  /\ locals' = locals \ {o}
  /\ UNCHANGED <<alloc, field, global, ref_cnt, objs, flush_pos, adapted, dying, pc>>

(* Fault: the new reference is not counted. *)
Assign_ForgetsNew(old, new) ==
  LET counts == Unref(ref_cnt, old)
  IN  /\ ref_cnt' = counts
      /\ objs' = AddedIfZero(counts, old)
      /\ UNCHANGED <<alloc, locals, flush_pos, adapted, dying, pc>>

(* GC_ASSIGN, and with None GC_CLEAR *)
Assign(old, new) ==
  LET counts == Unref(Ref(ref_cnt, new), old)
  IN  /\ ref_cnt' = counts
      /\ objs' = AddedIfZero(counts, old)
      /\ UNCHANGED <<alloc, locals, flush_pos, adapted, dying, pc>>

SetField(o, f, v) ==
  /\ pc = "run" /\ o \in locals /\ v \in locals \cup {None} /\ v # field[o][f]
  /\ Assign(field[o][f], v)
  /\ field' = [field EXCEPT ![o][f] = v]
  /\ UNCHANGED global

SetGlobal(g, v) ==
  /\ pc = "run" /\ v \in locals \cup {None} /\ v # global[g]
  /\ Assign(global[g], v)
  /\ global' = [global EXCEPT ![g] = v]
  /\ UNCHANGED field

(* Fault: the locals are not counted. *)
Adapt_Nothing == {}

(* The live values of llvmAdaptStackForSafepoint *)
Adapt == locals

(* llvmAdaptStackForSafepoint(true), then __hlt_memory_safepoint; without  *)
(* locals also __hlt_memory_nullbuffer_delete at the end of a context.     *)
Safepoint ==
  /\ pc = "run"
  /\ adapted' = Adapt
  /\ ref_cnt' = [o \in Objs |-> IF o \in Adapt THEN ref_cnt[o] + 1 ELSE ref_cnt[o]]
  /\ flush_pos' = 1
  /\ pc' = "flush"
  /\ UNCHANGED <<heap, objs, dying>>

-----------------------------------------------------------------------------
StillAlive(o) == ref_cnt[o] > 0

(* __hlt_memory_nullbuffer_flush: the loop *)
Flushing == pc = "flush" /\ dying = <<>>

FlushSkip ==
  /\ Flushing /\ flush_pos <= Len(objs)
  /\ objs[flush_pos] = None \/ StillAlive(objs[flush_pos])
  /\ flush_pos' = flush_pos + 1
  /\ UNCHANGED <<heap, ref_cnt, objs, adapted, dying, pc>>

FlushDestroy ==
  /\ Flushing /\ flush_pos <= Len(objs)
  /\ objs[flush_pos] # None /\ ~StillAlive(objs[flush_pos])
  /\ dying' = <<[obj |-> objs[flush_pos], f |-> 1]>>
  /\ UNCHANGED <<heap, ref_cnt, objs, flush_pos, adapted, pc>>

FlushDone ==
  /\ Flushing /\ flush_pos > Len(objs)
  /\ objs' = <<>>
  /\ flush_pos' = 0
  /\ pc' = "post"
  /\ UNCHANGED <<heap, ref_cnt, adapted, dying>>

Top == dying[Len(dying)]
Popped == SubSeq(dying, 1, Len(dying) - 1)

(* Fault: what the flush has passed already is left alone. *)
DestroyNow_NotPassed(o) == Index(o) = 0

(* __hlt_memory_nullbuffer_add during a flush: what is not in the buffer,  *)
(* or was passed already, is destroyed at once.                            *)
DestroyNow(o) == Index(o) < flush_pos

(* ti->obj_dtor: release the next field *)
DtorField ==
  /\ dying # <<>> /\ Top.f \in Fields
  /\ LET child == field[Top.obj][Top.f]
         on == Append(Popped, [Top EXCEPT !.f = @ + 1])
     IN  /\ ref_cnt' = Unref(ref_cnt, child)
         /\ field' = [field EXCEPT ![Top.obj][Top.f] = None]
         /\ dying' = IF child # None /\ ref_cnt'[child] = 0 /\ DestroyNow(child)
                       THEN Append(on, [obj |-> child, f |-> 1]) ELSE on
  /\ UNCHANGED <<alloc, global, locals, objs, flush_pos, adapted, pc>>

(* __hlt_free, in __hlt_memory_nullbuffer_add ... *)
FreeAtOnce ==
  /\ Len(dying) > 1 /\ Top.f \notin Fields
  /\ objs' = IF Index(Top.obj) > 0 THEN [objs EXCEPT ![Index(Top.obj)] = None] ELSE objs
  /\ alloc' = alloc \ {Top.obj}
  /\ dying' = Popped
  /\ UNCHANGED <<field, global, locals, ref_cnt, flush_pos, adapted, pc>>

(* ... and in __hlt_memory_nullbuffer_flush *)
FreeFlushed ==
  /\ Len(dying) = 1 /\ Top.f \notin Fields
  /\ alloc' = alloc \ {Top.obj}
  /\ dying' = <<>>
  /\ flush_pos' = flush_pos + 1
  /\ UNCHANGED <<field, global, locals, ref_cnt, objs, adapted, pc>>

(* llvmAdaptStackForSafepoint(false) *)
PostDtor(o) ==
  /\ pc = "post" /\ o \in adapted
  /\ adapted' = adapted \ {o}
  /\ ref_cnt' = Unref(ref_cnt, o)
  /\ objs' = AddedIfZero(ref_cnt', o)
  /\ UNCHANGED <<heap, flush_pos, dying, pc>>

SafepointDone ==
  /\ pc = "post" /\ adapted = {}
  /\ pc' = "run"
  /\ UNCHANGED <<heap, ref_cnt, objs, flush_pos, adapted, dying>>

-----------------------------------------------------------------------------
Next ==
  \/ \E o \in Objs : New(o) \/ Load(o) \/ Forget(o) \/ PostDtor(o)
  \/ \E o \in Objs, g \in Globals : NewRef(o, g)
  \/ \E o \in Objs, f \in Fields, v \in Objs \cup {None} : SetField(o, f, v)
  \/ \E g \in Globals, v \in Objs \cup {None} : SetGlobal(g, v)
  \/ Safepoint
  \/ FlushSkip \/ FlushDestroy \/ FlushDone
  \/ DtorField \/ FreeAtOnce \/ FreeFlushed
  \/ SafepointDone

Spec == Init /\ [][Next]_vars

-----------------------------------------------------------------------------
(* The types of the variables. *)
TypeOK ==
  /\ alloc \subseteq Objs
  /\ ref_cnt \in [Objs -> Nat]
  /\ field \in [Objs -> [Fields -> Objs \cup {None}]]
  /\ global \in [Globals -> Objs \cup {None}]
  /\ locals \subseteq Objs /\ adapted \subseteq Objs
  /\ objs \in Seq(Objs \cup {None})
  /\ flush_pos \in 0..(Len(objs) + 1)
  /\ dying \in Seq([obj : Objs, f : Nat])
  /\ pc \in {"run", "flush", "post"}

(* Every object's count is the number of references to it: from globals,   *)
(* from objects that are not freed yet and, during a safepoint, locals.    *)
CountsExact ==
  /\ TypeOK
  /\ \A o \in alloc :
       ref_cnt[o] = Cardinality({g \in Globals : global[g] = o})
                    + Cardinality({x \in alloc \X Fields : field[x[1]][x[2]] = o})
                    + (IF o \in adapted THEN 1 ELSE 0)

Pending == {objs[i] : i \in {i \in DOMAIN objs : i >= flush_pos}} \ {None}
Dying == {dying[i].obj : i \in DOMAIN dying}

(* Nothing refers to memory that was freed: no field, global or local, and *)
(* no entry that the flush has yet to look at; and no destructor runs      *)
(* twice on an object (memory_.c:674-699).                                 *)
NoDanglingReference ==
  /\ {global[g] : g \in Globals} \subseteq alloc \cup {None}
  /\ \A o \in alloc, f \in Fields : field[o][f] \in alloc \cup {None}
  /\ locals \subseteq alloc
  /\ Pending \subseteq alloc
  /\ Dying \subseteq alloc /\ Cardinality(Dying) = Len(dying)

(* An object without references is never forgotten: it is in the buffer,   *)
(* ahead of the flush, or being destroyed.                                 *)
UnreferencedIsPending ==
  \A o \in alloc : ref_cnt[o] = 0 => o \in Pending \cup Dying
=============================================================================
