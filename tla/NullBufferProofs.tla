-------------------------- MODULE NullBufferProofs ---------------------------
(***************************************************************************)
(* Proofs about deferred reference counting, for any number of objects,    *)
(* fields and globals: the counts are exact, nothing that is freed is ever *)
(* referred to, and nothing without a reference is forgotten.              *)
(***************************************************************************)
EXTENDS NullBuffer, TLAPS, FiniteSetTheorems, SequenceTheorems

GlobalRefs(o) == {g \in Globals : global[g] = o}
FieldRefs(o) == {x \in alloc \X Fields : field[x[1]][x[2]] = o}

(* What is true of the program, the flush and the end of a safepoint. *)
PhaseInv ==
  /\ pc = "run" => adapted = {}
  /\ pc # "flush" => dying = <<>> /\ flush_pos = 0
  /\ pc = "flush" => flush_pos >= 1 /\ adapted = locals
  /\ adapted \subseteq locals

(* No object is in the null buffer twice. *)
BufferInv ==
  \A i, j \in 1..Len(objs) : objs[i] = objs[j] /\ objs[i] # None => i = j

(* The destructors that are running: the first is that of the entry which  *)
(* the flush is at, the others are of objects that it has passed or never  *)
(* comes to.  All of them are of different objects without references, and *)
(* the fields that a destructor has passed are empty.                      *)
DyingInv ==
  /\ dying # <<>> => flush_pos <= Len(objs) /\ dying[1].obj = objs[flush_pos]
  /\ \A i \in 1..Len(dying) :
       /\ dying[i].obj \in alloc
       /\ ref_cnt[dying[i].obj] = 0
       /\ dying[i].f \in 1..(NumFields + 1)
       /\ \A f \in Fields : f < dying[i].f => field[dying[i].obj][f] = None
       /\ i > 1 => dying[i].obj \notin Pending
       /\ \A j \in 1..Len(dying) : dying[i].obj = dying[j].obj => i = j

(* Nothing refers to memory that was freed. *)
RefsInv ==
  /\ \A g \in Globals : global[g] \in alloc \cup {None}
  /\ \A o \in alloc, f \in Fields : field[o][f] \in alloc \cup {None}
  /\ locals \subseteq alloc
  /\ Pending \subseteq alloc

CountsInv ==
  \A o \in alloc :
    ref_cnt[o] = Cardinality(GlobalRefs(o)) + Cardinality(FieldRefs(o))
                 + (IF o \in adapted THEN 1 ELSE 0)

Inv ==
  /\ TypeOK
  /\ PhaseInv
  /\ BufferInv
  /\ DyingInv
  /\ RefsInv
  /\ CountsInv
  /\ UnreferencedIsPending

-----------------------------------------------------------------------------
(* References and counts *)

(* The assumptions on the constants, in the form that the proofs use. *)
LEMMA Assumed ==
  /\ IsFiniteSet(Objs) /\ IsFiniteSet(Globals) /\ None \notin Objs
  /\ NumFields \in Nat /\ IsFiniteSet(Fields)
BY NullBufferAssumption, FS_Interval DEF None, Fields

(* References can be counted. *)
LEMMA RefsFinite ==
  ASSUME TypeOK, NEW o
  PROVE  /\ IsFiniteSet(GlobalRefs(o)) /\ Cardinality(GlobalRefs(o)) \in Nat
         /\ IsFiniteSet(FieldRefs(o)) /\ Cardinality(FieldRefs(o)) \in Nat
<1>1. IsFiniteSet(alloc \X Fields)
  BY Assumed, FS_Subset, FS_Product DEF TypeOK
<1>2. GlobalRefs(o) \in SUBSET Globals /\ FieldRefs(o) \in SUBSET (alloc \X Fields)
  BY DEF GlobalRefs, FieldRefs
<1> QED BY <1>1, <1>2, Assumed, FS_Subset, FS_CardinalityType

(* An object whose count is zero is not referred to. *)
LEMMA ZeroMeansNone ==
  ASSUME TypeOK, CountsInv, NEW o \in alloc, ref_cnt[o] = 0
  PROVE  /\ \A g \in Globals : global[g] # o
         /\ \A p \in alloc, f \in Fields : field[p][f] # o
         /\ o \notin adapted
<1> DEFINE G == Cardinality(GlobalRefs(o))
           F == Cardinality(FieldRefs(o))
<1>1. G \in Nat /\ F \in Nat
  BY RefsFinite
<1>2. 0 = G + F + (IF o \in adapted THEN 1 ELSE 0)
  BY DEF CountsInv
<1> HIDE DEF G, F
<1>3. G = 0 /\ F = 0 /\ o \notin adapted
  BY <1>1, <1>2
<1>4. GlobalRefs(o) = {} /\ FieldRefs(o) = {}
  BY <1>3, RefsFinite, FS_EmptySet DEF G, F
<1>5. \A g \in Globals : global[g] # o
  BY <1>4 DEF GlobalRefs
<1>6. \A p \in alloc, f \in Fields : field[p][f] # o
  <2> SUFFICES ASSUME NEW p \in alloc, NEW f \in Fields, field[p][f] = o PROVE FALSE
    OBVIOUS
  <2>1. <<p, f>> \in FieldRefs(o)
    BY DEF FieldRefs
  <2> QED BY <2>1, <1>4
<1> QED BY <1>3, <1>5, <1>6

(* A field that changes moves one reference from one object to another. *)
LEMMA FieldMoves ==
  ASSUME TypeOK, NEW p \in alloc, NEW f \in Fields, NEW v,
         v # field[p][f], alloc' = alloc, field'[p][f] = v,
         \A q \in alloc, g \in Fields : q # p \/ g # f => field'[q][g] = field[q][g],
         NEW o
  PROVE  LET old == Cardinality(FieldRefs(o))
         IN  Cardinality(FieldRefs(o)') =
               IF o = v THEN old + 1 ELSE IF o = field[p][f] THEN old - 1 ELSE old
<1> DEFINE x0 == <<p, f>>
<1>1. /\ field'[p][f] = v
      /\ \A q \in alloc, g \in Fields : <<q, g>> # x0 => field'[q][g] = field[q][g]
  OBVIOUS
<1>2. x0 \in alloc \X Fields
  OBVIOUS
<1>3. \A x \in alloc \X Fields : x # x0 => field'[x[1]][x[2]] = field[x[1]][x[2]]
  BY <1>1
<1>4. field'[x0[1]][x0[2]] = v /\ field[x0[1]][x0[2]] = field[p][f]
  BY <1>1
<1>5. FieldRefs(o)' = {x \in alloc \X Fields : field'[x[1]][x[2]] = o}
  BY DEF FieldRefs
<1>6. FieldRefs(o) = {x \in alloc \X Fields : field[x[1]][x[2]] = o}
  BY DEF FieldRefs
<1> HIDE DEF x0
<1>7. CASE o = v
  <2>1. x0 \notin FieldRefs(o)
    BY <1>4, <1>6, <1>7
  <2>2. FieldRefs(o)' = FieldRefs(o) \cup {x0}
    BY <1>2, <1>3, <1>4, <1>5, <1>6, <1>7
  <2>3. IsFiniteSet(FieldRefs(o))
    BY RefsFinite
  <2>4. Cardinality(FieldRefs(o)') = Cardinality(FieldRefs(o)) + 1
    BY <2>1, <2>2, <2>3, FS_AddElement
  <2> QED BY <2>4, <1>7
<1>8. CASE o # v /\ o = field[p][f]
  <2>1. x0 \in FieldRefs(o)
    BY <1>2, <1>4, <1>6, <1>8
  <2>2. FieldRefs(o)' = FieldRefs(o) \ {x0}
    BY <1>3, <1>4, <1>5, <1>6, <1>8
  <2>3. IsFiniteSet(FieldRefs(o))
    BY RefsFinite
  <2>4. Cardinality(FieldRefs(o)') = Cardinality(FieldRefs(o)) - 1
    BY <2>1, <2>2, <2>3, FS_RemoveElement
  <2> QED BY <2>4, <1>8
<1>9. CASE o # v /\ o # field[p][f]
  <2>1. FieldRefs(o)' = FieldRefs(o)
    BY <1>3, <1>4, <1>5, <1>6, <1>9
  <2> QED BY <2>1, <1>9
<1> QED BY <1>7, <1>8, <1>9

(* So does a global. *)
LEMMA GlobalMoves ==
  ASSUME TypeOK, NEW h \in Globals, NEW v, v # global[h],
         global' = [global EXCEPT ![h] = v], NEW o
  PROVE  LET old == Cardinality(GlobalRefs(o))
         IN  Cardinality(GlobalRefs(o)') =
               IF o = v THEN old + 1 ELSE IF o = global[h] THEN old - 1 ELSE old
<1>1. global'[h] = v /\ \A g \in Globals : g # h => global'[g] = global[g]
  BY DEF TypeOK
<1>2. CASE o = v
  <2>1. h \notin GlobalRefs(o) /\ GlobalRefs(o)' = GlobalRefs(o) \cup {h}
    BY <1>1, <1>2 DEF GlobalRefs
  <2>2. IsFiniteSet(GlobalRefs(o))
    BY RefsFinite
  <2>3. Cardinality(GlobalRefs(o)') = Cardinality(GlobalRefs(o)) + 1
    BY <2>1, <2>2, FS_AddElement
  <2> QED BY <2>3, <1>2
<1>3. CASE o # v /\ o = global[h]
  <2>1. h \in GlobalRefs(o) /\ GlobalRefs(o)' = GlobalRefs(o) \ {h}
    BY <1>1, <1>3 DEF GlobalRefs
  <2>2. IsFiniteSet(GlobalRefs(o))
    BY RefsFinite
  <2>3. Cardinality(GlobalRefs(o)') = Cardinality(GlobalRefs(o)) - 1
    BY <2>1, <2>2, FS_RemoveElement
  <2> QED BY <2>3, <1>3
<1>4. CASE o # v /\ o # global[h]
  <2>1. GlobalRefs(o)' = GlobalRefs(o)
    BY <1>1, <1>4 DEF GlobalRefs
  <2> QED BY <2>1, <1>4
<1> QED BY <1>2, <1>3, <1>4

(* What GC_ASSIGN does to the counts. *)
LEMMA AssignCounts ==
  ASSUME TypeOK, NEW old \in Objs \cup {None}, NEW new \in Objs \cup {None},
         old # new, old # None => ref_cnt[old] # 0
  PROVE  /\ Unref(Ref(ref_cnt, new), old) \in [Objs -> Nat]
         /\ \A o \in Objs : Unref(Ref(ref_cnt, new), old)[o] =
              IF o = new THEN ref_cnt[o] + 1 ELSE IF o = old THEN ref_cnt[o] - 1 ELSE ref_cnt[o]
<1> DEFINE c == Ref(ref_cnt, new)
<1>1. /\ c \in [Objs -> Nat]
      /\ \A o \in Objs : c[o] = IF o = new THEN ref_cnt[o] + 1 ELSE ref_cnt[o]
  BY Assumed DEF TypeOK, Ref
<1> HIDE DEF c
<1>2. old # None => old \in Objs /\ c[old] = ref_cnt[old] /\ ref_cnt[old] \in Nat
  BY <1>1 DEF TypeOK
<1>3. Unref(c, old) \in [Objs -> Nat]
  BY <1>1, <1>2 DEF Unref
<1>4. \A o \in Objs : Unref(c, old)[o] = IF o = old THEN c[o] - 1 ELSE c[o]
  BY <1>1, Assumed DEF Unref
<1> QED BY <1>1, <1>2, <1>3, <1>4 DEF c

-----------------------------------------------------------------------------
(* The buffer *)

Ahead(s, p) == {s[i] : i \in {i \in 1..Len(s) : i >= p}} \ {None}
Distinct(s) == \A i, j \in 1..Len(s) : s[i] = s[j] /\ s[i] # None => i = j

(* What is pending, as a function of the buffer and the flush's position. *)
LEMMA PendingIs ==
  /\ objs \in Seq(Objs \cup {None}) => Pending = Ahead(objs, flush_pos)
  /\ objs' \in Seq(Objs \cup {None}) => Pending' = Ahead(objs', flush_pos')
  /\ BufferInv <=> Distinct(objs)
  /\ BufferInv' <=> Distinct(objs')
BY LenProperties DEF Pending, Ahead, BufferInv, Distinct

(* _nullbuffer_index finds the object if it is there. *)
LEMMA IndexFinds ==
  ASSUME TypeOK, BufferInv, NEW o \in Objs
  PROVE  \/ Index(o) = 0 /\ \A i \in 1..Len(objs) : objs[i] # o
         \/ /\ Index(o) \in 1..Len(objs) /\ objs[Index(o)] = o
            /\ \A i \in 1..Len(objs) : objs[i] = o => i = Index(o)
<1> DEFINE at == {i \in 1..Len(objs) : objs[i] = o}
<1>1. DOMAIN objs = 1..Len(objs)
  BY LenProperties DEF TypeOK
<1>2. Index(o) = IF at = {} THEN 0 ELSE CHOOSE i \in at : \A j \in at : i <= j
  BY <1>1 DEF Index
<1>3. CASE at = {}
  BY <1>2, <1>3
<1>4. CASE at # {}
  <2>1. PICK i \in 1..Len(objs) : objs[i] = o
    BY <1>4
  <2>2. at = {i}
    BY <2>1, Assumed DEF BufferInv
  <2>3. i \in at /\ \A j \in at : i <= j
    BY <2>1, <2>2
  <2>4. Index(o) = CHOOSE k \in at : \A j \in at : k <= j
    BY <1>2, <1>4
  <2>5. Index(o) \in at
    <3> HIDE DEF at
    <3> QED BY <2>3, <2>4
  <2>6. Index(o) = i
    BY <2>2, <2>5
  <2> QED BY <2>1, <2>2, <2>6
<1> QED BY <1>3, <1>4

(* Adding an object to a buffer that is not flushed. *)
LEMMA AddedIs ==
  ASSUME TypeOK, BufferInv, NEW o \in Objs
  PROVE  /\ Added(o) \in Seq(Objs \cup {None})
         /\ Distinct(Added(o))
         /\ Ahead(Added(o), 0) = Ahead(objs, 0) \cup {o}
<1> DEFINE L == Len(objs)
<1>0. objs \in Seq(Objs \cup {None}) /\ L \in Nat /\ o # None
  BY Assumed, LenProperties DEF TypeOK
<1>1. CASE Index(o) > 0
  <2>1. Added(o) = objs
    BY <1>1 DEF Added
  <2>2. PICK i \in 1..Len(objs) : objs[i] = o
    BY <1>1, IndexFinds
  <2>3. o \in Ahead(objs, 0)
    BY <1>0, <2>2 DEF Ahead
  <2> QED BY <1>0, <2>1, <2>3, PendingIs
<1>2. CASE ~ (Index(o) > 0)
  <2>1. Added(o) = Append(objs, o)
    BY <1>2 DEF Added
  <2>2. \A i \in 1..L : objs[i] # o
    BY <1>0, <1>2, IndexFinds
  <2>3. /\ Added(o) \in Seq(Objs \cup {None}) /\ Len(Added(o)) = L + 1
        /\ \A i \in 1..L : Added(o)[i] = objs[i]
        /\ Added(o)[L + 1] = o
    BY <1>0, <2>1, AppendProperties
  <2>4. \A i \in 1..(L + 1) : i \in 1..L \/ i = L + 1
    BY <1>0
  <2>5. Distinct(Added(o))
    <3>1. Distinct(objs)
      BY PendingIs
    <3> QED BY <2>2, <2>3, <2>4, <3>1 DEF Distinct
  <2>6. Ahead(Added(o), 0) = Ahead(objs, 0) \cup {o}
    <3>1. \A x : x \in Ahead(objs, 0) <=> x # None /\ \E i \in 1..L : objs[i] = x
      BY <1>0 DEF Ahead
    <3>2. \A x : x \in Ahead(Added(o), 0) <=> x # None /\ \E i \in 1..(L + 1) : Added(o)[i] = x
      BY <1>0, <2>3 DEF Ahead
    <3>3. \A x : x \in Ahead(Added(o), 0) <=> x \in Ahead(objs, 0) \/ x = o
      <4>1. L + 1 \in 1..(L + 1) /\ \A i \in 1..L : i \in 1..(L + 1)
        BY <1>0
      <4> QED BY <3>1, <3>2, <2>3, <2>4, <4>1, <1>0
    <3> QED BY <3>3
  <2> QED BY <2>3, <2>5, <2>6
<1> QED BY <1>1, <1>2

(* Releasing a reference outside of a flush. *)
LEMMA AddedIfZeroIs ==
  ASSUME TypeOK, BufferInv, flush_pos = 0, NEW o \in Objs \cup {None}, NEW counts,
         objs' = AddedIfZero(counts, o), flush_pos' = 0
  PROVE  /\ objs' \in Seq(Objs \cup {None})
         /\ BufferInv'
         /\ Pending' = IF o # None /\ counts[o] = 0 THEN Pending \cup {o} ELSE Pending
<1>1. objs \in Seq(Objs \cup {None})
  BY DEF TypeOK
<1>2. CASE o # None /\ counts[o] = 0
  <2>1. objs' = Added(o) /\ o \in Objs
    BY <1>2 DEF AddedIfZero
  <2>2. objs' \in Seq(Objs \cup {None}) /\ Distinct(objs') /\ Ahead(objs', 0) = Ahead(objs, 0) \cup {o}
    BY <2>1, AddedIs
  <2> QED BY <1>1, <1>2, <2>2, PendingIs
<1>3. CASE ~ (o # None /\ counts[o] = 0)
  <2>1. objs' = objs
    BY <1>3 DEF AddedIfZero
  <2> QED BY <1>1, <1>3, <2>1, PendingIs
<1> QED BY <1>2, <1>3

-----------------------------------------------------------------------------
(* The program's steps *)

(* Nothing is known of destructors where none runs. *)
LEMMA NoneDying == dying' = <<>> => DyingInv'
<1> SUFFICES ASSUME dying' = <<>> PROVE DyingInv'
  OBVIOUS
<1>1. Len(dying') = 0
  BY EmptySeq
<1> QED BY <1>1 DEF DyingInv

(* Nothing exists, so nothing can be wrong. *)
LEMMA InitInv == Init => Inv
<1> SUFFICES ASSUME Init PROVE Inv
  OBVIOUS
<1> USE DEF Init
<1>1. objs \in Seq(Objs \cup {None}) /\ Len(objs) = 0
      /\ dying \in Seq([obj : Objs, f : Nat]) /\ Len(dying) = 0
  BY EmptySeq
<1>2. TypeOK
  BY <1>1, Assumed DEF TypeOK, NoFields
<1>3. Pending = {} /\ BufferInv
  BY <1>1, PendingIs DEF Ahead, BufferInv
<1>4. PhaseInv /\ DyingInv /\ UnreferencedIsPending /\ CountsInv
  BY <1>1 DEF PhaseInv, DyingInv, UnreferencedIsPending, CountsInv
<1>5. RefsInv
  BY <1>3 DEF RefsInv
<1> QED BY <1>2, <1>3, <1>4, <1>5 DEF Inv

(* An address that is used for a new object was referred to by nothing. *)
LEMMA FreshObject ==
  ASSUME Inv, NEW o \in Objs, o \notin alloc,
         alloc' = alloc \cup {o}, field' = [field EXCEPT ![o] = NoFields]
  PROVE  /\ \A q \in Objs : FieldRefs(q)' = FieldRefs(q)
         /\ FieldRefs(o) = {} /\ GlobalRefs(o) = {}
         /\ alloc' \subseteq Objs
         /\ field' \in [Objs -> [Fields -> Objs \cup {None}]]
         /\ \A p \in alloc', f \in Fields : field'[p][f] \in alloc' \cup {None}
<1> USE DEF Inv
<1>1. /\ \A f \in Fields : field'[o][f] = None
      /\ \A p \in Objs : p # o => field'[p] = field[p]
      /\ field' \in [Objs -> [Fields -> Objs \cup {None}]]
  BY DEF TypeOK, NoFields
<1>2. ASSUME NEW q \in Objs PROVE FieldRefs(q)' = FieldRefs(q)
  <2>1. \A p \in alloc', f \in Fields :
          field'[p][f] = q <=> p \in alloc /\ field[p][f] = q
    BY <1>1, Assumed DEF TypeOK
  <2>2. FieldRefs(q)' = {x \in alloc' \X Fields : field'[x[1]][x[2]] = q}
    BY DEF FieldRefs
  <2>3. FieldRefs(q) = {x \in alloc' \X Fields : x[1] \in alloc /\ field[x[1]][x[2]] = q}
    BY DEF FieldRefs
  <2> QED BY <2>1, <2>2, <2>3
<1>3. FieldRefs(o) = {} /\ GlobalRefs(o) = {}
  BY Assumed DEF FieldRefs, GlobalRefs, RefsInv
<1>4. \A p \in alloc', f \in Fields : field'[p][f] \in alloc' \cup {None}
  BY <1>1 DEF RefsInv, TypeOK
<1> QED BY <1>1, <1>2, <1>3, <1>4 DEF TypeOK

(* __hlt_object_new puts the object into the buffer. *)
LEMMA NewStep ==
  ASSUME Inv, NEW o \in Objs, New(o)
  PROVE  Inv'
<1> USE DEF Inv
<1>1. /\ pc = "run" /\ pc' = "run" /\ o \notin alloc /\ alloc' = alloc \cup {o}
      /\ ref_cnt' = [ref_cnt EXCEPT ![o] = 0]
      /\ field' = [field EXCEPT ![o] = NoFields]
      /\ objs' = Added(o) /\ locals' = locals \cup {o}
      /\ global' = global /\ flush_pos' = flush_pos /\ adapted' = adapted /\ dying' = dying
  BY DEF New
<1>2. adapted = {} /\ dying = <<>> /\ flush_pos = 0
  BY <1>1 DEF PhaseInv
<1>3. /\ \A q \in Objs : FieldRefs(q)' = FieldRefs(q)
      /\ FieldRefs(o) = {} /\ GlobalRefs(o) = {}
      /\ alloc' \subseteq Objs
      /\ field' \in [Objs -> [Fields -> Objs \cup {None}]]
      /\ \A p \in alloc', f \in Fields : field'[p][f] \in alloc' \cup {None}
  BY <1>1, FreshObject
<1>4. objs' \in Seq(Objs \cup {None}) /\ BufferInv' /\ Pending' = Pending \cup {o}
  BY <1>1, <1>2, AddedIs, PendingIs DEF TypeOK
<1>5. TypeOK'
  <2>1. Len(objs') \in Nat
    BY <1>4, LenProperties
  <2>2. flush_pos' \in 0..(Len(objs') + 1)
    BY <2>1, <1>1, <1>2
  <2>3. ref_cnt' \in [Objs -> Nat] /\ locals' \subseteq Objs
    BY <1>1 DEF TypeOK
  <2> QED BY <1>1, <1>3, <1>4, <2>2, <2>3 DEF TypeOK
<1>6. PhaseInv' /\ DyingInv'
  BY <1>1, <1>2, NoneDying DEF PhaseInv
<1>7. RefsInv'
  BY <1>1, <1>3, <1>4 DEF RefsInv
<1>8. CountsInv'
  <2> SUFFICES ASSUME NEW q \in alloc'
               PROVE  ref_cnt'[q] = Cardinality(GlobalRefs(q)') + Cardinality(FieldRefs(q)')
                                    + (IF q \in adapted' THEN 1 ELSE 0)
    BY DEF CountsInv
  <2>1. q \in Objs /\ GlobalRefs(q)' = GlobalRefs(q) /\ FieldRefs(q)' = FieldRefs(q)
    BY <1>1, <1>3 DEF GlobalRefs
  <2>2. CASE q = o
    <3>1. ref_cnt'[q] = 0
      BY <2>2, <1>1 DEF TypeOK
    <3> QED BY <3>1, <2>1, <2>2, <1>1, <1>2, <1>3, FS_EmptySet
  <2>3. CASE q # o
    <3>1. q \in alloc /\ ref_cnt'[q] = ref_cnt[q]
      BY <2>3, <1>1 DEF TypeOK
    <3> QED BY <3>1, <2>1, <1>1 DEF CountsInv
  <2> QED BY <2>2, <2>3
<1>9. UnreferencedIsPending'
  BY <1>1, <1>4 DEF UnreferencedIsPending, Dying, TypeOK
<1> QED BY <1>4, <1>5, <1>6, <1>7, <1>8, <1>9

(* __hlt_object_new_ref: the reference is counted from the start. *)
LEMMA NewRefStep ==
  ASSUME Inv, NEW o \in Objs, NEW g \in Globals, NewRef(o, g)
  PROVE  Inv'
<1> USE DEF Inv
<1>1. /\ pc = "run" /\ pc' = "run" /\ o \notin alloc /\ global[g] = None
      /\ alloc' = alloc \cup {o}
      /\ ref_cnt' = [ref_cnt EXCEPT ![o] = 1]
      /\ field' = [field EXCEPT ![o] = NoFields]
      /\ global' = [global EXCEPT ![g] = o]
      /\ locals' = locals /\ objs' = objs /\ flush_pos' = flush_pos
      /\ adapted' = adapted /\ dying' = dying
  BY DEF NewRef
<1>2. adapted = {} /\ dying = <<>> /\ flush_pos = 0
  BY <1>1 DEF PhaseInv
<1>3. /\ \A q \in Objs : FieldRefs(q)' = FieldRefs(q)
      /\ FieldRefs(o) = {} /\ GlobalRefs(o) = {}
      /\ alloc' \subseteq Objs
      /\ field' \in [Objs -> [Fields -> Objs \cup {None}]]
      /\ \A p \in alloc', f \in Fields : field'[p][f] \in alloc' \cup {None}
  BY <1>1, FreshObject
<1>4. Pending' = Pending /\ BufferInv' /\ Dying' = Dying
  BY <1>1 DEF Pending, BufferInv, Dying
<1>5. TypeOK'
  <2>1. ref_cnt' \in [Objs -> Nat] /\ global' \in [Globals -> Objs \cup {None}]
    BY <1>1 DEF TypeOK
  <2> QED BY <1>1, <1>3, <2>1 DEF TypeOK
<1>6. PhaseInv' /\ DyingInv'
  BY <1>1, <1>2, NoneDying DEF PhaseInv
<1>7. RefsInv'
  BY <1>1, <1>3, <1>4 DEF RefsInv, TypeOK
<1>8. CountsInv'
  <2> SUFFICES ASSUME NEW q \in alloc'
               PROVE  ref_cnt'[q] = Cardinality(GlobalRefs(q)') + Cardinality(FieldRefs(q)')
                                    + (IF q \in adapted' THEN 1 ELSE 0)
    BY DEF CountsInv
  <2>1. q \in Objs /\ q # None /\ FieldRefs(q)' = FieldRefs(q)
    BY <1>3, Assumed
  <2>2. Cardinality(GlobalRefs(q)') = IF q = o THEN Cardinality(GlobalRefs(q)) + 1
                                      ELSE Cardinality(GlobalRefs(q))
    <3>1. o # global[g]
      BY <1>1, Assumed
    <3> QED BY <3>1, <2>1, <1>1, GlobalMoves
  <2>3. CASE q = o
    <3>1. ref_cnt'[q] = 1
      BY <2>3, <1>1 DEF TypeOK
    <3>2. Cardinality(GlobalRefs(q)') = 0 + 1 /\ Cardinality(FieldRefs(q)') = 0
      BY <2>1, <2>2, <2>3, <1>3, FS_EmptySet
    <3> QED BY <3>1, <3>2, <1>1, <1>2
  <2>4. CASE q # o
    <3>1. q \in alloc /\ ref_cnt'[q] = ref_cnt[q]
      BY <2>4, <1>1 DEF TypeOK
    <3> QED BY <3>1, <2>1, <2>2, <2>4, <1>1 DEF CountsInv
  <2> QED BY <2>3, <2>4
<1>9. UnreferencedIsPending'
  BY <1>1, <1>4 DEF UnreferencedIsPending, TypeOK
<1> QED BY <1>4, <1>5, <1>6, <1>7, <1>8, <1>9

(* Locals are not counted: what changes them changes no count. *)
LEMMA LocalsStep ==
  ASSUME Inv, NEW v \in Objs, Load(v) \/ Forget(v)
  PROVE  Inv'
<1> USE DEF Inv
<1>1. /\ pc = "run"
      /\ UNCHANGED <<alloc, field, global, ref_cnt, objs, flush_pos, adapted, dying, pc>>
  BY DEF Load, Forget
<1>2. locals' \subseteq alloc
  BY Assumed DEF Load, Forget, RefsInv, TypeOK
<1>3. \A q : GlobalRefs(q)' = GlobalRefs(q) /\ FieldRefs(q)' = FieldRefs(q)
  BY <1>1 DEF GlobalRefs, FieldRefs
<1>4. Pending' = Pending /\ Dying' = Dying
  BY <1>1 DEF Pending, Dying
<1>5. TypeOK'
  BY <1>1, <1>2 DEF TypeOK
<1>6. PhaseInv' /\ BufferInv' /\ DyingInv'
  BY <1>1, NoneDying DEF PhaseInv, BufferInv
<1>7. RefsInv'
  BY <1>1, <1>2, <1>4 DEF RefsInv
<1>8. CountsInv'
  BY <1>1, <1>3 DEF CountsInv
<1>9. UnreferencedIsPending'
  BY <1>1, <1>4 DEF UnreferencedIsPending
<1> QED BY <1>5, <1>6, <1>7, <1>8, <1>9

(* The references from globals and fields. *)
RefCount(o) == Cardinality(GlobalRefs(o)) + Cardinality(FieldRefs(o))

(* GC_ASSIGN on a reference that is now to new instead of old. *)
LEMMA AssignStep ==
  ASSUME Inv, pc = "run", NEW old \in alloc \cup {None}, NEW new \in alloc \cup {None},
         old # new, old # None => ref_cnt[old] # 0,
         Assign(old, new),
         field' \in [Objs -> [Fields -> Objs \cup {None}]],
         global' \in [Globals -> Objs \cup {None}],
         \A g \in Globals : global'[g] \in alloc \cup {None},
         \A o \in alloc, f \in Fields : field'[o][f] \in alloc \cup {None},
         \A q \in Objs : RefCount(q)' = IF q = new THEN RefCount(q) + 1
                                        ELSE IF q = old THEN RefCount(q) - 1 ELSE RefCount(q)
  PROVE  Inv'
<1> USE DEF Inv
<1>1. /\ ref_cnt' = Unref(Ref(ref_cnt, new), old)
      /\ objs' = AddedIfZero(ref_cnt', old)
      /\ alloc' = alloc /\ locals' = locals /\ flush_pos' = flush_pos
      /\ adapted' = adapted /\ dying' = dying /\ pc' = pc
  BY DEF Assign
<1>2. adapted = {} /\ dying = <<>> /\ flush_pos = 0
  BY DEF PhaseInv
<1>3. /\ ref_cnt' \in [Objs -> Nat]
      /\ \A o \in Objs : ref_cnt'[o] =
           IF o = new THEN ref_cnt[o] + 1 ELSE IF o = old THEN ref_cnt[o] - 1 ELSE ref_cnt[o]
  <2>1. old \in Objs \cup {None} /\ new \in Objs \cup {None}
    BY DEF TypeOK
  <2> HIDE DEF Inv
  <2>2. TypeOK
    BY DEF Inv
  <2>3. /\ Unref(Ref(ref_cnt, new), old) \in [Objs -> Nat]
        /\ \A o \in Objs : Unref(Ref(ref_cnt, new), old)[o] =
             IF o = new THEN ref_cnt[o] + 1 ELSE IF o = old THEN ref_cnt[o] - 1 ELSE ref_cnt[o]
    BY <2>1, <2>2, AssignCounts
  <2> QED BY <2>3, <1>1
<1>4. /\ objs' \in Seq(Objs \cup {None})
      /\ BufferInv'
      /\ Pending' = IF old # None /\ ref_cnt'[old] = 0 THEN Pending \cup {old} ELSE Pending
  BY <1>1, <1>2, AddedIfZeroIs DEF TypeOK
<1>5. TypeOK'
  <2>1. Len(objs') \in Nat
    BY <1>4, LenProperties
  <2>2. flush_pos' \in 0..(Len(objs') + 1)
    BY <2>1, <1>1, <1>2
  <2> QED BY <1>1, <1>3, <1>4, <2>2 DEF TypeOK
<1>6. PhaseInv' /\ DyingInv'
  BY <1>1, <1>2, NoneDying DEF PhaseInv
<1>7. RefsInv'
  BY <1>1, <1>4 DEF RefsInv
<1>8. CountsInv'
  <2> SUFFICES ASSUME NEW q \in alloc
               PROVE  ref_cnt'[q] = Cardinality(GlobalRefs(q)') + Cardinality(FieldRefs(q)')
                                    + (IF q \in adapted' THEN 1 ELSE 0)
    BY <1>1 DEF CountsInv
  <2>1. q \in Objs /\ RefCount(q) \in Nat
    BY RefsFinite DEF TypeOK, RefCount
  <2>2. ref_cnt[q] = RefCount(q) + 0
    BY <1>2 DEF CountsInv, RefCount
  <2>3. RefCount(q)' = IF q = new THEN RefCount(q) + 1
                       ELSE IF q = old THEN RefCount(q) - 1 ELSE RefCount(q)
    BY <2>1
  <2>4. ref_cnt'[q] = IF q = new THEN ref_cnt[q] + 1
                      ELSE IF q = old THEN ref_cnt[q] - 1 ELSE ref_cnt[q]
    BY <2>1, <1>3
  <2>5. ref_cnt'[q] = RefCount(q)' /\ ref_cnt'[q] \in Nat
    <3>1. ref_cnt'[q] \in Nat
      BY <2>1, <1>3
    <3> QED BY <3>1, <2>1, <2>2, <2>3, <2>4
  <2>6. ref_cnt'[q] = RefCount(q)' + 0
    BY <2>5
  <2> QED BY <2>6, <1>1, <1>2 DEF RefCount
<1>9. UnreferencedIsPending'
  <2> SUFFICES ASSUME NEW q \in alloc, ref_cnt'[q] = 0
               PROVE  q \in Pending'
    BY <1>1 DEF UnreferencedIsPending
  <2>1. q \in Objs /\ q # None /\ ref_cnt[q] \in Nat
    BY Assumed DEF TypeOK
  <2>2. q = old \/ ref_cnt[q] = 0
    BY <2>1, <1>3
  <2>3. ref_cnt[q] = 0 => q \in Pending
    <3>1. Dying = {}
      BY <1>2 DEF Dying
    <3> QED BY <3>1 DEF UnreferencedIsPending
  <2> QED BY <2>1, <2>2, <2>3, <1>4
<1> QED BY <1>4, <1>5, <1>6, <1>7, <1>8, <1>9

(* Assigning to a field. *)
LEMMA SetFieldStep ==
  ASSUME Inv, NEW o \in Objs, NEW f \in Fields, NEW v \in Objs \cup {None}, SetField(o, f, v)
  PROVE  Inv'
<1> USE DEF Inv
<1> DEFINE old == field[o][f]
<1>1. /\ pc = "run" /\ o \in alloc /\ v \in alloc \cup {None} /\ v # old
      /\ Assign(old, v) /\ field' = [field EXCEPT ![o][f] = v] /\ global' = global
      /\ alloc' = alloc
  BY DEF SetField, RefsInv, Assign
<1>2. old \in alloc \cup {None}
  BY <1>1 DEF RefsInv
<1>3. old # None => ref_cnt[old] # 0
  BY <1>1, <1>2, ZeroMeansNone
<1>4. /\ field' \in [Objs -> [Fields -> Objs \cup {None}]]
      /\ \A p \in alloc, h \in Fields : field'[p][h] \in alloc \cup {None}
  BY <1>1 DEF TypeOK, RefsInv
<1>5. /\ global' \in [Globals -> Objs \cup {None}]
      /\ \A g \in Globals : global'[g] \in alloc \cup {None}
  BY <1>1 DEF TypeOK, RefsInv
<1>6. ASSUME NEW q \in Objs
      PROVE  RefCount(q)' = IF q = v THEN RefCount(q) + 1
                            ELSE IF q = old THEN RefCount(q) - 1 ELSE RefCount(q)
  <2>1. GlobalRefs(q)' = GlobalRefs(q)
    BY <1>1 DEF GlobalRefs
  <2> DEFINE a == Cardinality(GlobalRefs(q))
             b == Cardinality(FieldRefs(q))
             d == Cardinality(FieldRefs(q)')
  <2>2. d = IF q = v THEN b + 1 ELSE IF q = old THEN b - 1 ELSE b
    <3>1. /\ field'[o][f] = v
          /\ \A p \in alloc, h \in Fields : p # o \/ h # f => field'[p][h] = field[p][h]
      BY <1>1 DEF TypeOK
    <3>2. TypeOK /\ o \in alloc /\ v # field[o][f] /\ alloc' = alloc
      BY <1>1
    <3> HIDE DEF Inv
    <3> QED BY <3>1, <3>2, FieldMoves
  <2>3. a \in Nat /\ b \in Nat
    BY RefsFinite
  <2>4. RefCount(q) = a + b /\ RefCount(q)' = a + d
    BY <2>1 DEF RefCount
  <2> HIDE DEF a, b, d, old
  <2> QED BY <2>2, <2>3, <2>4
<1> HIDE DEF old, Inv
<1> QED BY <1>1, <1>2, <1>3, <1>4, <1>5, <1>6, AssignStep

(* Assigning to a global. *)
LEMMA SetGlobalStep ==
  ASSUME Inv, NEW g \in Globals, NEW v \in Objs \cup {None}, SetGlobal(g, v)
  PROVE  Inv'
<1> USE DEF Inv
<1> DEFINE old == global[g]
<1>1. /\ pc = "run" /\ v \in alloc \cup {None} /\ v # old
      /\ Assign(old, v) /\ global' = [global EXCEPT ![g] = v] /\ field' = field
  BY DEF SetGlobal, RefsInv
<1>2. old \in alloc \cup {None}
  BY <1>1 DEF RefsInv
<1>3. old # None => ref_cnt[old] # 0
  BY <1>1, <1>2, ZeroMeansNone
<1>4. /\ field' \in [Objs -> [Fields -> Objs \cup {None}]]
      /\ \A p \in alloc, h \in Fields : field'[p][h] \in alloc \cup {None}
  BY <1>1 DEF TypeOK, RefsInv
<1>5. /\ global' \in [Globals -> Objs \cup {None}]
      /\ \A h \in Globals : global'[h] \in alloc \cup {None}
  BY <1>1 DEF TypeOK, RefsInv
<1>6. ASSUME NEW q \in Objs
      PROVE  RefCount(q)' = IF q = v THEN RefCount(q) + 1
                            ELSE IF q = old THEN RefCount(q) - 1 ELSE RefCount(q)
  <2>1. FieldRefs(q)' = FieldRefs(q)
    BY <1>1 DEF FieldRefs, Assign
  <2> DEFINE a == Cardinality(GlobalRefs(q))
             b == Cardinality(FieldRefs(q))
             c == Cardinality(GlobalRefs(q)')
  <2>2. c = IF q = v THEN a + 1 ELSE IF q = old THEN a - 1 ELSE a
    BY <1>1, GlobalMoves
  <2>3. a \in Nat /\ b \in Nat
    BY RefsFinite
  <2>4. RefCount(q) = a + b /\ RefCount(q)' = c + b
    BY <2>1 DEF RefCount
  <2> HIDE DEF a, b, c, old
  <2> QED BY <2>2, <2>3, <2>4
<1> HIDE DEF old, Inv
<1> QED BY <1>1, <1>2, <1>3, <1>4, <1>5, <1>6, AssignStep

-----------------------------------------------------------------------------
(* A safepoint *)

(* Counting the locals for a moment. *)
LEMMA SafepointStep ==
  ASSUME Inv, Safepoint
  PROVE  Inv'
<1> USE DEF Inv
<1>1. /\ pc = "run" /\ pc' = "flush" /\ adapted' = locals /\ flush_pos' = 1
      /\ ref_cnt' = [o \in Objs |-> IF o \in locals THEN ref_cnt[o] + 1 ELSE ref_cnt[o]]
      /\ alloc' = alloc /\ field' = field /\ global' = global /\ locals' = locals
      /\ objs' = objs /\ dying' = dying
  BY DEF Safepoint, Adapt, heap
<1>2. adapted = {} /\ dying = <<>> /\ flush_pos = 0
  BY <1>1 DEF PhaseInv
<1>3. Len(objs) \in Nat /\ objs \in Seq(Objs \cup {None})
  BY LenProperties DEF TypeOK
<1>4. TypeOK'
  BY <1>1, <1>3 DEF TypeOK
<1>5. Pending' = Pending /\ BufferInv'
  <2>1. Ahead(objs, 1) = Ahead(objs, 0)
    BY <1>3 DEF Ahead
  <2> QED BY <2>1, <1>1, <1>2, <1>3, PendingIs
<1>6. PhaseInv' /\ DyingInv'
  BY <1>1, <1>2, NoneDying DEF PhaseInv
<1>7. RefsInv'
  BY <1>1, <1>5 DEF RefsInv
<1>8. CountsInv'
  <2> SUFFICES ASSUME NEW q \in alloc
               PROVE  ref_cnt'[q] = Cardinality(GlobalRefs(q)') + Cardinality(FieldRefs(q)')
                                    + (IF q \in adapted' THEN 1 ELSE 0)
    BY <1>1 DEF CountsInv
  <2>1. GlobalRefs(q)' = GlobalRefs(q) /\ FieldRefs(q)' = FieldRefs(q)
    BY <1>1 DEF GlobalRefs, FieldRefs
  <2> DEFINE a == Cardinality(GlobalRefs(q))
             b == Cardinality(FieldRefs(q))
  <2>2. q \in Objs /\ a \in Nat /\ b \in Nat
    BY RefsFinite DEF TypeOK
  <2>3. ref_cnt[q] = a + b + 0
    BY <1>2 DEF CountsInv
  <2>4. ref_cnt'[q] = IF q \in locals THEN ref_cnt[q] + 1 ELSE ref_cnt[q]
    BY <2>2, <1>1
  <2>5. ref_cnt'[q] = a + b + (IF q \in locals THEN 1 ELSE 0)
    <3> HIDE DEF a, b
    <3> QED BY <2>2, <2>3, <2>4
  <2> QED BY <2>1, <2>5, <1>1
<1>9. UnreferencedIsPending'
  <2>1. \A q \in alloc : ref_cnt'[q] = 0 => ref_cnt[q] = 0
    BY <1>1 DEF TypeOK
  <2> QED BY <2>1, <1>1, <1>5 DEF UnreferencedIsPending, Dying
<1> QED BY <1>4, <1>5, <1>6, <1>7, <1>8, <1>9

(* A step of the safepoint that touches no reference and no count. *)
LEMMA SameRefs ==
  ASSUME Inv, UNCHANGED <<alloc, field, global, locals, ref_cnt, adapted>>
  PROVE  /\ CountsInv'
         /\ \A q : GlobalRefs(q)' = GlobalRefs(q) /\ FieldRefs(q)' = FieldRefs(q)
         /\ Pending' \subseteq alloc => RefsInv'
BY DEF Inv, CountsInv, GlobalRefs, FieldRefs, RefsInv

(* The flush passes an entry that has references again, or none at all. *)
LEMMA FlushSkipStep ==
  ASSUME Inv, FlushSkip
  PROVE  Inv'
<1>1. /\ pc = "flush" /\ dying = <<>> /\ flush_pos <= Len(objs)
      /\ objs[flush_pos] = None \/ ref_cnt[objs[flush_pos]] > 0
      /\ flush_pos' = flush_pos + 1
      /\ alloc' = alloc /\ field' = field /\ global' = global /\ locals' = locals
      /\ ref_cnt' = ref_cnt /\ objs' = objs /\ adapted' = adapted /\ dying' = dying /\ pc' = pc
  BY DEF FlushSkip, Flushing, StillAlive, heap
<1>2. objs \in Seq(Objs \cup {None}) /\ Len(objs) \in Nat /\ flush_pos \in Nat
  BY LenProperties DEF Inv, TypeOK
<1>3. /\ Pending = Ahead(objs, flush_pos) /\ Pending' = Ahead(objs, flush_pos + 1)
      /\ BufferInv'
  BY <1>1, <1>2, PendingIs DEF Inv
<1>4. Pending' \subseteq Pending
  BY <1>2, <1>3 DEF Ahead
<1>5. TypeOK'
  BY <1>1, <1>2 DEF Inv, TypeOK
<1>6. PhaseInv' /\ DyingInv'
  BY <1>1, <1>2, NoneDying DEF Inv, PhaseInv
<1>7. RefsInv' /\ CountsInv'
  BY <1>1, <1>4, SameRefs DEF Inv, RefsInv
<1>8. UnreferencedIsPending'
  <2> SUFFICES ASSUME NEW o \in alloc, ref_cnt[o] = 0 PROVE o \in Pending'
    BY <1>1 DEF UnreferencedIsPending
  <2>1. o \in Pending
    BY <1>1 DEF Inv, UnreferencedIsPending, Dying
  <2>2. PICK i \in 1..Len(objs) : i >= flush_pos /\ objs[i] = o /\ o # None
    BY <2>1, <1>3 DEF Ahead
  <2>3. i # flush_pos
    BY <2>2, <1>1
  <2>4. i >= flush_pos + 1
    BY <2>2, <2>3, <1>2
  <2> QED BY <2>2, <2>4, <1>3 DEF Ahead
<1> QED BY <1>3, <1>5, <1>6, <1>7, <1>8 DEF Inv

(* The flush starts to destroy an entry without references. *)
LEMMA FlushDestroyStep ==
  ASSUME Inv, FlushDestroy
  PROVE  Inv'
<1> DEFINE o == objs[flush_pos]
<1>1. /\ pc = "flush" /\ dying = <<>> /\ flush_pos <= Len(objs)
      /\ o # None /\ ~ (ref_cnt[o] > 0)
      /\ dying' = <<[obj |-> o, f |-> 1]>>
      /\ alloc' = alloc /\ field' = field /\ global' = global /\ locals' = locals
      /\ ref_cnt' = ref_cnt /\ objs' = objs /\ adapted' = adapted /\ pc' = pc
      /\ flush_pos' = flush_pos
  BY DEF FlushDestroy, Flushing, StillAlive, heap
<1>2. /\ objs \in Seq(Objs \cup {None}) /\ Len(objs) \in Nat
      /\ flush_pos \in 1..Len(objs)
  BY <1>1, LenProperties DEF Inv, TypeOK, PhaseInv
<1>3. o \in Objs
  BY <1>1, <1>2, ElementOfSeq
<1>4. Pending = Ahead(objs, flush_pos) /\ Pending' = Pending /\ BufferInv'
  BY <1>1, <1>2, PendingIs DEF Inv, Pending
<1>5. o \in alloc
  BY <1>1, <1>2, <1>4 DEF Ahead, Inv, RefsInv
<1>6. ref_cnt[o] = 0
  BY <1>1, <1>3 DEF Inv, TypeOK
<1> HIDE DEF o
<1>7. /\ dying' \in Seq([obj : Objs, f : Nat]) /\ Len(dying') = 1
      /\ dying'[1].obj = o /\ dying'[1].f = 1
  BY <1>1, <1>3
<1>8. TypeOK'
  BY <1>1, <1>7 DEF Inv, TypeOK
<1>9. PhaseInv'
  BY <1>1 DEF Inv, PhaseInv
<1>10. DyingInv'
  <2>1. /\ \A i \in 1..Len(dying') : i = 1
        /\ 1 \in 1..(NumFields + 1) /\ \A f \in Fields : ~ (f < 1)
    BY <1>7, Assumed DEF Fields
  <2> QED BY <2>1, <1>1, <1>5, <1>6, <1>7 DEF DyingInv, o
<1>11. RefsInv' /\ CountsInv'
  BY <1>1, <1>4, SameRefs DEF Inv, RefsInv
<1>12. UnreferencedIsPending'
  BY <1>1, <1>4 DEF Inv, UnreferencedIsPending, Dying
<1> QED BY <1>4, <1>8, <1>9, <1>10, <1>11, <1>12 DEF Inv

(* The end of the flush: everything in the buffer has been looked at. *)
LEMMA FlushDoneStep ==
  ASSUME Inv, FlushDone
  PROVE  Inv'
<1>1. /\ pc = "flush" /\ dying = <<>> /\ flush_pos > Len(objs)
      /\ objs' = <<>> /\ flush_pos' = 0 /\ pc' = "post"
      /\ alloc' = alloc /\ field' = field /\ global' = global /\ locals' = locals
      /\ ref_cnt' = ref_cnt /\ adapted' = adapted /\ dying' = dying
  BY DEF FlushDone, Flushing, heap
<1>2. /\ objs \in Seq(Objs \cup {None}) /\ Len(objs) \in Nat /\ flush_pos \in Nat
      /\ objs' \in Seq(Objs \cup {None}) /\ Len(objs') = 0
  BY <1>1, LenProperties, EmptySeq DEF Inv, TypeOK
<1>3. Pending = {} /\ Pending' = {} /\ BufferInv'
  BY <1>1, <1>2, PendingIs DEF Ahead, Distinct
<1>4. TypeOK'
  BY <1>1, <1>2 DEF Inv, TypeOK
<1>5. PhaseInv' /\ DyingInv'
  BY <1>1, NoneDying DEF Inv, PhaseInv
<1>6. RefsInv' /\ CountsInv'
  BY <1>1, <1>3, SameRefs
<1>7. UnreferencedIsPending'
  BY <1>1, <1>3 DEF Inv, UnreferencedIsPending, Dying
<1> QED BY <1>3, <1>4, <1>5, <1>6, <1>7 DEF Inv

(* A local is not counted any more. *)
LEMMA PostDtorStep ==
  ASSUME Inv, NEW o \in Objs, PostDtor(o)
  PROVE  Inv'
<1>1. /\ pc = "post" /\ o \in adapted /\ adapted' = adapted \ {o}
      /\ ref_cnt' = Unref(ref_cnt, o)
      /\ objs' = AddedIfZero(ref_cnt', o)
      /\ alloc' = alloc /\ field' = field /\ global' = global /\ locals' = locals
      /\ flush_pos' = flush_pos /\ dying' = dying /\ pc' = pc
  BY DEF PostDtor, heap
<1>2. /\ dying = <<>> /\ flush_pos = 0 /\ o \in alloc /\ o # None
      /\ adapted \subseteq locals /\ ref_cnt \in [Objs -> Nat] /\ alloc \subseteq Objs
  BY <1>1, Assumed DEF Inv, PhaseInv, RefsInv, TypeOK
<1>3. ref_cnt[o] # 0
  BY <1>1, <1>2, ZeroMeansNone DEF Inv
<1>4. /\ ref_cnt' \in [Objs -> Nat]
      /\ \A q \in Objs : ref_cnt'[q] = IF q = o THEN ref_cnt[q] - 1 ELSE ref_cnt[q]
  BY <1>1, <1>2, <1>3 DEF Unref
<1>5. /\ objs' \in Seq(Objs \cup {None}) /\ BufferInv'
      /\ Pending' = IF o # None /\ ref_cnt'[o] = 0 THEN Pending \cup {o} ELSE Pending
  BY <1>1, <1>2, AddedIfZeroIs DEF Inv
<1>6. TypeOK'
  <2>1. Len(objs') \in Nat
    BY <1>5, LenProperties
  <2>2. flush_pos' \in 0..(Len(objs') + 1)
    BY <2>1, <1>1, <1>2
  <2> QED BY <1>1, <1>4, <1>5, <2>2 DEF Inv, TypeOK
<1>7. PhaseInv' /\ DyingInv'
  BY <1>1, <1>2, NoneDying DEF PhaseInv
<1>8. RefsInv'
  BY <1>1, <1>2, <1>5 DEF Inv, RefsInv
<1>9. CountsInv'
  <2> SUFFICES ASSUME NEW q \in alloc
               PROVE  ref_cnt'[q] = Cardinality(GlobalRefs(q)') + Cardinality(FieldRefs(q)')
                                    + (IF q \in adapted' THEN 1 ELSE 0)
    BY <1>1 DEF CountsInv
  <2>1. GlobalRefs(q)' = GlobalRefs(q) /\ FieldRefs(q)' = FieldRefs(q)
    BY <1>1 DEF GlobalRefs, FieldRefs
  <2> DEFINE a == Cardinality(GlobalRefs(q))
             b == Cardinality(FieldRefs(q))
  <2>2. q \in Objs /\ a \in Nat /\ b \in Nat
    BY <1>2, RefsFinite DEF Inv
  <2>3. ref_cnt[q] = a + b + (IF q \in adapted THEN 1 ELSE 0)
    BY DEF Inv, CountsInv
  <2>4. ref_cnt'[q] = IF q = o THEN ref_cnt[q] - 1 ELSE ref_cnt[q]
    BY <2>2, <1>4
  <2>5. ref_cnt'[q] = a + b + (IF q \in adapted' THEN 1 ELSE 0)
    <3> HIDE DEF a, b
    <3>1. CASE q = o
      BY <3>1, <2>2, <2>3, <2>4, <1>1
    <3>2. CASE q # o
      BY <3>2, <2>3, <2>4, <1>1
    <3> QED BY <3>1, <3>2
  <2> QED BY <2>1, <2>5
<1>10. UnreferencedIsPending'
  <2> SUFFICES ASSUME NEW q \in alloc, ref_cnt'[q] = 0
               PROVE  q \in Pending'
    BY <1>1 DEF UnreferencedIsPending
  <2>1. q = o \/ ref_cnt[q] = 0
    BY <1>2, <1>4
  <2>2. ref_cnt[q] = 0 => q \in Pending
    BY <1>2 DEF Inv, UnreferencedIsPending, Dying
  <2> QED BY <2>1, <2>2, <1>2, <1>5
<1> QED BY <1>5, <1>6, <1>7, <1>8, <1>9, <1>10 DEF Inv

(* The program goes on. *)
LEMMA SafepointDoneStep ==
  ASSUME Inv, SafepointDone
  PROVE  Inv'
<1>1. /\ pc = "post" /\ adapted = {} /\ pc' = "run"
      /\ alloc' = alloc /\ field' = field /\ global' = global /\ locals' = locals
      /\ ref_cnt' = ref_cnt /\ objs' = objs /\ flush_pos' = flush_pos
      /\ adapted' = adapted /\ dying' = dying
  BY DEF SafepointDone, heap
<1>2. dying = <<>> /\ flush_pos = 0
  BY <1>1 DEF Inv, PhaseInv
<1>3. Pending' = Pending /\ Dying' = Dying /\ BufferInv'
  BY <1>1 DEF Inv, Pending, Dying, BufferInv
<1>4. TypeOK' /\ PhaseInv' /\ DyingInv'
  BY <1>1, <1>2, NoneDying DEF Inv, TypeOK, PhaseInv
<1>5. RefsInv' /\ CountsInv'
  BY <1>1, <1>3, SameRefs DEF Inv, RefsInv
<1>6. UnreferencedIsPending'
  BY <1>1, <1>3 DEF Inv, UnreferencedIsPending
<1> QED BY <1>3, <1>4, <1>5, <1>6 DEF Inv

-----------------------------------------------------------------------------
(* Destructors *)

DyingType == [obj : Objs, f : Nat]

(* Who is dying, as a function of the stack of destructors. *)
LEMMA DyingIs ==
  /\ dying \in Seq(DyingType) => \A o : o \in Dying <=> \E i \in 1..Len(dying) : dying[i].obj = o
  /\ dying' \in Seq(DyingType) => \A o : o \in Dying' <=> \E i \in 1..Len(dying') : dying'[i].obj = o
BY LenProperties DEF Dying

(* The destructor on top, and the ones below it. *)
LEMMA TopFacts ==
  ASSUME Inv, dying # <<>>
  PROVE  /\ dying \in Seq(DyingType) /\ Len(dying) \in Nat \ {0}
         /\ pc = "flush" /\ flush_pos \in 1..Len(objs) /\ adapted = locals
         /\ \A i \in 1..Len(dying) : dying[i] \in DyingType /\ dying[i].obj \in Objs /\ dying[i].f \in Nat
         /\ Top = dying[Len(dying)] /\ Top.obj \in alloc /\ Top.obj \in Objs /\ Top.obj # None
         /\ ref_cnt[Top.obj] = 0 /\ Top.f \in 1..(NumFields + 1)
         /\ Popped \in Seq(DyingType) /\ Len(Popped) = Len(dying) - 1
         /\ \A i \in 1..(Len(dying) - 1) : Popped[i] = dying[i]
<1> DEFINE n == Len(dying)
<1>1. dying \in Seq(DyingType)
  BY DEF Inv, TypeOK, DyingType
<1>2. n \in Nat \ {0}
  BY <1>1, EmptySeq
<1>3. \A i \in 1..n : dying[i] \in DyingType
  BY <1>1, ElementOfSeq
<1>4. \A i \in 1..n : dying[i].obj \in Objs /\ dying[i].f \in Nat
  BY <1>3 DEF DyingType
<1>5. n \in 1..n
  BY <1>2
<1>6. /\ pc = "flush" /\ flush_pos >= 1 /\ flush_pos <= Len(objs) /\ adapted = locals
      /\ Len(objs) \in Nat /\ flush_pos \in 0..(Len(objs) + 1)
  BY LenProperties DEF Inv, PhaseInv, DyingInv, TypeOK
<1>7. flush_pos \in 1..Len(objs)
  BY <1>6
<1>8. /\ Top = dying[n] /\ Top.obj \in alloc /\ Top.obj \in Objs /\ Top.obj # None
      /\ ref_cnt[Top.obj] = 0 /\ Top.f \in 1..(NumFields + 1)
  BY <1>4, <1>5, Assumed DEF Top, Inv, DyingInv
<1>9. /\ Popped \in Seq(DyingType) /\ Len(Popped) = n - 1
      /\ \A i \in 1..(n - 1) : Popped[i] = dying[i]
  <2>1. n - 1 \in Int /\ \A i \in 1..(n - 1) : i \in 1..n
    BY <1>2
  <2>2. \A i \in 1..(n - 1) : dying[i] \in DyingType
    BY <2>1, <1>3
  <2>3. /\ Popped \in Seq(DyingType)
        /\ Len(Popped) = IF 1 <= n - 1 THEN (n - 1) - 1 + 1 ELSE 0
        /\ \A i \in 1..((n - 1) - 1 + 1) : Popped[i] = dying[1 + i - 1]
    BY <2>1, <2>2, SubSeqProperties DEF Popped
  <2> HIDE DEF n
  <2>4. (n - 1) - 1 + 1 = n - 1 /\ \A i \in 1..(n - 1) : 1 + i - 1 = i
    BY <1>2
  <2>5. Len(Popped) = n - 1
    BY <1>2, <2>3
  <2> QED BY <2>3, <2>4, <2>5
<1> QED BY <1>1, <1>2, <1>3, <1>4, <1>6, <1>7, <1>8, <1>9

(* Freeing an object whose destructor is through: nothing refers to it,    *)
(* and it refers to nothing.                                               *)
LEMMA FreeTop ==
  ASSUME Inv, dying # <<>>, Top.f \notin Fields, alloc' = alloc \ {Top.obj},
         UNCHANGED <<field, global, locals, ref_cnt, adapted>>
  PROVE  /\ CountsInv'
         /\ Pending' \subseteq alloc' => RefsInv'
<1>1. /\ Top.obj \in alloc /\ ref_cnt[Top.obj] = 0 /\ Top.f \in 1..(NumFields + 1)
      /\ adapted = locals /\ Top = dying[Len(dying)] /\ Len(dying) \in 1..Len(dying)
  BY TopFacts
<1>2. /\ \A g \in Globals : global[g] # Top.obj
      /\ \A p \in alloc, f \in Fields : field[p][f] # Top.obj
      /\ Top.obj \notin locals
  BY <1>1, ZeroMeansNone DEF Inv
<1>3. \A f \in Fields : field[Top.obj][f] = None
  <2>1. Top.f = NumFields + 1
    BY <1>1, Assumed DEF Fields
  <2>2. \A f \in Fields : f < Top.f
    BY <2>1, Assumed DEF Fields
  <2> QED BY <2>2, <1>1 DEF Inv, DyingInv
<1>4. RefsInv /\ TypeOK
  BY DEF Inv
<1>5. CountsInv'
  <2> SUFFICES ASSUME NEW q \in alloc'
               PROVE  ref_cnt'[q] = Cardinality(GlobalRefs(q)') + Cardinality(FieldRefs(q)')
                                    + (IF q \in adapted' THEN 1 ELSE 0)
    BY DEF CountsInv
  <2>1. q \in alloc /\ q # None
    BY <1>4, Assumed DEF TypeOK
  <2>2. GlobalRefs(q)' = GlobalRefs(q)
    BY DEF GlobalRefs
  <2>3. FieldRefs(q)' = FieldRefs(q)
    <3>1. \A p \in alloc, f \in Fields : field[p][f] = q => p # Top.obj
      BY <1>3, <2>1
    <3>2. FieldRefs(q)' = {x \in (alloc \ {Top.obj}) \X Fields : field[x[1]][x[2]] = q}
      BY DEF FieldRefs
    <3> QED BY <3>1, <3>2 DEF FieldRefs
  <2> QED BY <2>1, <2>2, <2>3 DEF Inv, CountsInv
<1>6. Pending' \subseteq alloc' => RefsInv'
  BY <1>2, <1>4 DEF RefsInv
<1> QED BY <1>5, <1>6

(* An object that the flush has passed, or that was never in the buffer,   *)
(* is freed as soon as it is destroyed.                                    *)
LEMMA FreeAtOnceStep ==
  ASSUME Inv, FreeAtOnce
  PROVE  Inv'
<1> DEFINE n == Len(dying)
           o == Top.obj
<1>1. /\ n > 1 /\ Top.f \notin Fields
      /\ objs' = IF Index(o) > 0 THEN [objs EXCEPT ![Index(o)] = None] ELSE objs
      /\ alloc' = alloc \ {o} /\ dying' = Popped
      /\ field' = field /\ global' = global /\ locals' = locals /\ ref_cnt' = ref_cnt
      /\ flush_pos' = flush_pos /\ adapted' = adapted /\ pc' = pc
  BY DEF FreeAtOnce
<1>2. dying # <<>>
  BY <1>1, EmptySeq
<1>3. /\ dying \in Seq(DyingType) /\ n \in Nat \ {0}
      /\ pc = "flush" /\ flush_pos \in 1..Len(objs)
      /\ \A i \in 1..n : dying[i].obj \in Objs /\ dying[i].f \in Nat
      /\ Top = dying[n] /\ o \in alloc /\ o \in Objs /\ o # None
      /\ Popped \in Seq(DyingType) /\ Len(Popped) = n - 1
      /\ \A i \in 1..(n - 1) : Popped[i] = dying[i]
  BY <1>2, TopFacts
<1>4. /\ objs \in Seq(Objs \cup {None}) /\ Len(objs) \in Nat
      /\ TypeOK /\ BufferInv /\ DyingInv /\ PhaseInv
  BY LenProperties DEF Inv, TypeOK
<1>5. o \notin Pending
  BY <1>1, <1>3, <1>4 DEF DyingInv
<1>6. \A i \in 1..Len(objs) : i >= flush_pos => objs[i] # o
  <2>1. Pending = Ahead(objs, flush_pos)
    BY <1>4, PendingIs
  <2> QED BY <2>1, <1>3, <1>5 DEF Ahead
<1>7. /\ objs' \in Seq(Objs \cup {None}) /\ Len(objs') = Len(objs)
      /\ \A i \in 1..Len(objs) : i >= flush_pos => objs'[i] = objs[i]
      /\ \A i \in 1..Len(objs) : objs'[i] = None \/ objs'[i] = objs[i]
  <2>1. CASE Index(o) > 0
    <3>1. Index(o) \in 1..Len(objs) /\ objs[Index(o)] = o
      BY <2>1, <1>3, <1>4, IndexFinds
    <3>2. ~ (Index(o) >= flush_pos)
      BY <3>1, <1>6
    <3>3. objs' = [objs EXCEPT ![Index(o)] = None]
      BY <2>1, <1>1
    <3>4. /\ objs' \in Seq(Objs \cup {None}) /\ Len(objs') = Len(objs)
          /\ \A i \in 1..Len(objs) : objs'[i] = IF i = Index(o) THEN None ELSE objs[i]
      BY <3>1, <3>3, <1>4, ExceptSeq
    <3> QED BY <3>2, <3>4
  <2>2. CASE ~ (Index(o) > 0)
    BY <2>2, <1>1, <1>4
  <2> QED BY <2>1, <2>2
<1>8. Pending' = Pending
  <2>1. Ahead(objs', flush_pos) = Ahead(objs, flush_pos)
    BY <1>7 DEF Ahead
  <2> QED BY <2>1, <1>1, <1>4, <1>7, PendingIs
<1>9. BufferInv'
  BY <1>4, <1>7 DEF BufferInv
<1>10. TypeOK'
  BY <1>1, <1>3, <1>4, <1>7 DEF TypeOK, DyingType
<1>11. PhaseInv'
  BY <1>1, <1>3, <1>4 DEF PhaseInv
<1>12. /\ Len(dying') = n - 1 /\ \A i \in 1..(n - 1) : dying'[i] = dying[i]
       /\ \A i \in 1..(n - 1) : i \in 1..n /\ i # n
       /\ n \in 1..n /\ 1 \in 1..(n - 1)
  <2>1. /\ \A i \in 1..(n - 1) : i \in 1..n /\ i # n
        /\ n \in 1..n /\ 1 \in 1..(n - 1)
    <3> HIDE DEF n
    <3> QED BY <1>1, <1>3
  <2> QED BY <2>1, <1>1, <1>3
<1>13. \A i \in 1..(n - 1) : dying[i].obj # o
  BY <1>3, <1>4, <1>12 DEF DyingInv
<1>14. DyingInv'
  <2>1. dying'[1].obj = objs'[flush_pos'] /\ flush_pos' <= Len(objs')
    BY <1>1, <1>2, <1>3, <1>4, <1>7, <1>12 DEF DyingInv
  <2>2. ASSUME NEW i \in 1..(n - 1)
        PROVE  /\ dying'[i].obj \in alloc'
               /\ ref_cnt'[dying'[i].obj] = 0
               /\ dying'[i].f \in 1..(NumFields + 1)
               /\ \A f \in Fields : f < dying'[i].f => field'[dying'[i].obj][f] = None
               /\ i > 1 => dying'[i].obj \notin Pending'
               /\ \A j \in 1..(n - 1) : dying'[i].obj = dying'[j].obj => i = j
    <3>1. i \in 1..n /\ dying'[i] = dying[i] /\ dying[i].obj # o
      BY <1>12, <1>13
    <3>2. dying'[i].obj \in alloc' /\ ref_cnt'[dying'[i].obj] = 0 /\ dying'[i].f \in 1..(NumFields + 1)
      BY <3>1, <1>1, <1>4 DEF DyingInv
    <3>3. \A f \in Fields : f < dying'[i].f => field'[dying'[i].obj][f] = None
      BY <3>1, <1>1, <1>4 DEF DyingInv
    <3>4. i > 1 => dying'[i].obj \notin Pending'
      BY <3>1, <1>4, <1>8 DEF DyingInv
    <3>5. \A j \in 1..(n - 1) : dying'[i].obj = dying'[j].obj => i = j
      <4>1. \A j \in 1..n : dying[i].obj = dying[j].obj => i = j
        BY <3>1, <1>4 DEF DyingInv
      <4> QED BY <4>1, <3>1, <1>12
    <3> QED BY <3>2, <3>3, <3>4, <3>5
  <2> QED BY <2>1, <2>2, <1>12 DEF DyingInv
<1>15. RefsInv' /\ CountsInv'
  <2>1. Pending' \subseteq alloc'
    BY <1>1, <1>5, <1>8 DEF Inv, RefsInv
  <2> QED BY <2>1, <1>1, <1>2, FreeTop
<1>16. UnreferencedIsPending'
  <2> SUFFICES ASSUME NEW q \in alloc, q # o, ref_cnt[q] = 0
               PROVE  q \in Pending \cup Dying'
    BY <1>1, <1>8 DEF UnreferencedIsPending
  <2>1. CASE q \in Pending
    BY <2>1
  <2>2. CASE q \in Dying
    <3>1. PICK i \in 1..n : dying[i].obj = q
      BY <2>2, <1>3, DyingIs
    <3>2. i # n
      BY <3>1, <1>3
    <3>3. i \in 1..(n - 1)
      <4> HIDE DEF n
      <4> QED BY <3>2, <1>3
    <3> QED BY <3>1, <3>3, <1>1, <1>3, <1>12, DyingIs
  <2> QED BY <2>1, <2>2 DEF Inv, UnreferencedIsPending
<1> QED BY <1>9, <1>10, <1>11, <1>14, <1>15, <1>16 DEF Inv

(* The entry that the flush is at is freed last. *)
LEMMA FreeFlushedStep ==
  ASSUME Inv, FreeFlushed
  PROVE  Inv'
<1> DEFINE o == Top.obj
<1>1. /\ Len(dying) = 1 /\ Top.f \notin Fields
      /\ alloc' = alloc \ {o} /\ dying' = <<>> /\ flush_pos' = flush_pos + 1
      /\ field' = field /\ global' = global /\ locals' = locals /\ ref_cnt' = ref_cnt
      /\ objs' = objs /\ adapted' = adapted /\ pc' = pc
  BY DEF FreeFlushed
<1>2. dying # <<>>
  BY <1>1, EmptySeq
<1>3. /\ dying \in Seq(DyingType) /\ pc = "flush" /\ flush_pos \in 1..Len(objs)
      /\ o = dying[1].obj /\ o \in alloc /\ o # None
  BY <1>1, <1>2, TopFacts
<1>4. /\ objs \in Seq(Objs \cup {None}) /\ Len(objs) \in Nat
      /\ TypeOK /\ BufferInv /\ DyingInv /\ PhaseInv
  BY LenProperties DEF Inv, TypeOK
<1>5. o = objs[flush_pos]
  BY <1>2, <1>3, <1>4 DEF DyingInv
<1>6. Pending = Ahead(objs, flush_pos) /\ Pending' = Ahead(objs, flush_pos + 1)
  BY <1>1, <1>4, PendingIs
<1>7. Pending' \subseteq Pending /\ o \notin Pending'
  <2>1. Pending' \subseteq Pending
    BY <1>3, <1>6 DEF Ahead
  <2>2. \A i \in 1..Len(objs) : i >= flush_pos + 1 => objs[i] # o
    BY <1>3, <1>4, <1>5 DEF BufferInv
  <2> QED BY <2>1, <2>2, <1>6 DEF Ahead
<1>8. TypeOK'
  <2>1. dying' \in Seq(DyingType) /\ flush_pos' \in 0..(Len(objs') + 1)
    BY <1>1, <1>3, <1>4, EmptySeq
  <2> QED BY <2>1, <1>1, <1>4 DEF TypeOK, DyingType
<1>9. PhaseInv' /\ DyingInv' /\ BufferInv'
  BY <1>1, <1>3, <1>4, NoneDying DEF PhaseInv, BufferInv
<1>10. RefsInv' /\ CountsInv'
  <2>1. Pending' \subseteq alloc'
    BY <1>1, <1>7 DEF Inv, RefsInv
  <2> QED BY <2>1, <1>1, <1>2, FreeTop
<1>11. UnreferencedIsPending'
  <2> SUFFICES ASSUME NEW q \in alloc, q # o, ref_cnt[q] = 0
               PROVE  q \in Pending'
    BY <1>1 DEF UnreferencedIsPending
  <2>1. q \notin Dying
    <3>1. \A i \in 1..Len(dying) : i = 1
      BY <1>1
    <3> QED BY <3>1, <1>3, DyingIs
  <2>2. q \in Pending
    BY <2>1 DEF Inv, UnreferencedIsPending
  <2>3. PICK i \in 1..Len(objs) : i >= flush_pos /\ objs[i] = q /\ q # None
    BY <2>2, <1>6 DEF Ahead
  <2>4. i # flush_pos
    BY <2>3, <1>5
  <2>5. i >= flush_pos + 1
    BY <2>3, <2>4, <1>3
  <2> QED BY <2>3, <2>5, <1>6 DEF Ahead
<1> QED BY <1>8, <1>9, <1>10, <1>11 DEF Inv

(* A destructor releases a field: the object that it referred to is        *)
(* destroyed next if that was the last reference to it and the flush will  *)
(* not come to it.                                                         *)
LEMMA DtorFieldStep ==
  ASSUME Inv, DtorField
  PROVE  Inv'
<1> DEFINE n == Len(dying)
           o == Top.obj
           k == Top.f
           child == field[o][k]
           on == Append(Popped, [Top EXCEPT !.f = @ + 1])
           push == child # None /\ ref_cnt'[child] = 0 /\ DestroyNow(child)
<1>1. /\ dying # <<>> /\ k \in Fields /\ ref_cnt' = Unref(ref_cnt, child)
      /\ field' = [field EXCEPT ![o][k] = None]
      /\ dying' = IF push THEN Append(on, [obj |-> child, f |-> 1]) ELSE on
      /\ alloc' = alloc /\ global' = global /\ locals' = locals /\ objs' = objs
      /\ flush_pos' = flush_pos /\ adapted' = adapted /\ pc' = pc
  BY DEF DtorField
<1>2. /\ dying \in Seq(DyingType) /\ n \in Nat \ {0}
      /\ pc = "flush" /\ flush_pos \in 1..Len(objs) /\ adapted = locals
      /\ \A i \in 1..n : dying[i] \in DyingType /\ dying[i].obj \in Objs /\ dying[i].f \in Nat
      /\ Top = dying[n] /\ o \in alloc /\ o \in Objs /\ o # None
      /\ Popped \in Seq(DyingType) /\ Len(Popped) = n - 1
      /\ \A i \in 1..(n - 1) : Popped[i] = dying[i]
  BY <1>1, TopFacts
<1>3. /\ objs \in Seq(Objs \cup {None}) /\ Len(objs) \in Nat
      /\ TypeOK /\ BufferInv /\ DyingInv /\ PhaseInv /\ RefsInv /\ CountsInv
      /\ UnreferencedIsPending
  BY LenProperties DEF Inv, TypeOK
<1>4. n \in 1..n /\ 1 \in 1..n /\ \A i \in 1..n : i \in 1..(n - 1) \/ i = n
  <2> HIDE DEF n
  <2> QED BY <1>2
<1>5. k \in Nat /\ k + 1 \in Nat /\ k + 1 \in 1..(NumFields + 1)
  <2> HIDE DEF k
  <2> QED BY <1>1, Assumed DEF Fields
<1>6. /\ on \in Seq(DyingType) /\ Len(on) = n
      /\ \A i \in 1..(n - 1) : on[i] = dying[i]
      /\ on[n].obj = o /\ on[n].f = k + 1
  <2> DEFINE top == [Top EXCEPT !.f = @ + 1]
  <2>1. top \in DyingType /\ top.obj = o /\ top.f = k + 1
    BY <1>2, <1>4, <1>5 DEF DyingType
  <2> HIDE DEF top
  <2>2. on \in Seq(DyingType) /\ Len(on) = Len(Popped) + 1
        /\ (\A i \in 1..Len(Popped) : on[i] = Popped[i]) /\ on[Len(Popped) + 1] = top
    BY <2>1, <1>2, AppendProperties DEF top
  <2>3. Len(Popped) + 1 = n
    <3> HIDE DEF n
    <3> QED BY <1>2
  <2> QED BY <2>1, <2>2, <2>3, <1>2
<1>7. \A i \in 1..n : on[i].obj = dying[i].obj
  BY <1>2, <1>4, <1>6
<1>8. /\ field' \in [Objs -> [Fields -> Objs \cup {None}]]
      /\ field'[o][k] = None
      /\ \A q \in Objs, g \in Fields : q # o \/ g # k => field'[q][g] = field[q][g]
  BY <1>1, <1>2, <1>3 DEF TypeOK
<1>9. /\ child \in alloc \cup {None}
      /\ child # None => /\ child \in alloc /\ child \in Objs /\ ref_cnt[child] # 0
                         /\ \A i \in 1..n : dying[i].obj # child
  <2>1. child \in alloc \cup {None} /\ alloc \subseteq Objs
    BY <1>1, <1>2, <1>3 DEF RefsInv, TypeOK
  <2>2. child # None => ref_cnt[child] # 0
    BY <2>1, <1>1, <1>2, <1>3, ZeroMeansNone
  <2> QED BY <2>1, <2>2, <1>3 DEF DyingInv
<1>10. /\ ref_cnt' \in [Objs -> Nat]
       /\ \A q \in Objs : ref_cnt'[q] = IF q = child THEN ref_cnt[q] - 1 ELSE ref_cnt[q]
  <2> HIDE DEF child
  <2>1. CASE child = None
    BY <2>1, <1>1, <1>3, Assumed DEF Unref, TypeOK
  <2>2. CASE child # None
    <3>1. ref_cnt' = [ref_cnt EXCEPT ![child] = @ - 1] /\ child \in Objs /\ ref_cnt[child] # 0
      BY <2>2, <1>1, <1>9 DEF Unref
    <3>2. ref_cnt[child] \in Nat /\ ref_cnt[child] - 1 \in Nat
      BY <3>1, <1>3 DEF TypeOK
    <3> QED BY <3>1, <3>2, <1>3 DEF TypeOK
  <2> QED BY <2>1, <2>2
<1>11. Pending' = Pending /\ BufferInv'
  BY <1>1, <1>3 DEF Pending, BufferInv
<1>12. CountsInv'
  <2> SUFFICES ASSUME NEW q \in alloc
               PROVE  ref_cnt'[q] = Cardinality(GlobalRefs(q)') + Cardinality(FieldRefs(q)')
                                    + (IF q \in adapted THEN 1 ELSE 0)
    BY <1>1 DEF CountsInv
  <2> DEFINE G == Cardinality(GlobalRefs(q))
             F == Cardinality(FieldRefs(q))
             A == IF q \in adapted THEN 1 ELSE 0
  <2>1. q \in Objs /\ q # None /\ ref_cnt[q] \in Nat /\ G \in Nat /\ F \in Nat /\ A \in Nat
    BY <1>3, Assumed, RefsFinite DEF TypeOK
  <2>2. ref_cnt[q] = G + F + A
    BY <1>3 DEF CountsInv
  <2>3. GlobalRefs(q)' = GlobalRefs(q)
    BY <1>1 DEF GlobalRefs
  <2>4. CASE child = None
    <3>1. \A p \in alloc, g \in Fields : field'[p][g] = field[p][g]
      BY <2>4, <1>3, <1>8 DEF TypeOK
    <3>2. FieldRefs(q)' = FieldRefs(q)
      BY <3>1, <1>1 DEF FieldRefs
    <3>3. ref_cnt'[q] = ref_cnt[q]
      BY <2>1, <2>4, <1>10
    <3> QED BY <3>2, <3>3, <2>2, <2>3
  <2>5. CASE child # None
    <3>1. \A p \in alloc, g \in Fields : p # o \/ g # k => field'[p][g] = field[p][g]
      BY <1>3, <1>8 DEF TypeOK
    <3>2. Cardinality(FieldRefs(q)') = IF q = None THEN F + 1 ELSE IF q = child THEN F - 1 ELSE F
      <4>1. PICK p0 \in alloc, f0 \in Fields : p0 = o /\ f0 = k
        BY <1>1, <1>2
      <4>2. /\ None # field[p0][f0] /\ field'[p0][f0] = None /\ field[p0][f0] = child
            /\ \A p \in alloc, g \in Fields : p # p0 \/ g # f0 => field'[p][g] = field[p][g]
        BY <4>1, <3>1, <2>5, <1>8
      <4>3. alloc' = alloc /\ TypeOK
        BY <1>1, <1>3
      <4> HIDE DEF o, k, child
      <4> QED BY <4>2, <4>3, FieldMoves
    <3>3. Cardinality(FieldRefs(q)') = IF q = child THEN F - 1 ELSE F
      BY <3>2, <2>1
    <3>4. ref_cnt'[q] = IF q = child THEN ref_cnt[q] - 1 ELSE ref_cnt[q]
      BY <2>1, <1>10
    <3>5. Cardinality(GlobalRefs(q)') = G
      BY <2>3
    <3> HIDE DEF G, F, A, child
    <3>6. ref_cnt'[q] = G + Cardinality(FieldRefs(q)') + A
      <4>1. CASE q = child
        <5>1. Cardinality(FieldRefs(q)') = F - 1 /\ ref_cnt'[q] = G + F + A - 1
          <6>1. Cardinality(FieldRefs(q)') = F - 1
            BY <4>1, <3>3
          <6>2. ref_cnt'[q] = ref_cnt[q] - 1
            BY <4>1, <3>4
          <6> QED BY <6>1, <6>2, <2>1, <2>2
        <5>2. G + F + A - 1 = G + (F - 1) + A
          BY <2>1
        <5> QED BY <5>1, <5>2
      <4>2. CASE q # child
        BY <4>2, <3>3, <3>4, <2>2
      <4> QED BY <4>1, <4>2
    <3> QED BY <3>5, <3>6 DEF A
  <2> QED BY <2>4, <2>5
<1>13. RefsInv'
  <2>1. \A p \in alloc, g \in Fields : field'[p][g] \in alloc \cup {None}
    <3> SUFFICES ASSUME NEW p \in alloc, NEW g \in Fields
                 PROVE  field'[p][g] \in alloc \cup {None}
      OBVIOUS
    <3>1. p \in Objs /\ field[p][g] \in alloc \cup {None}
      BY <1>3 DEF RefsInv, TypeOK
    <3>2. CASE p = o /\ g = k
      BY <3>2, <1>8
    <3>3. CASE p # o \/ g # k
      BY <3>1, <3>3, <1>8
    <3> QED BY <3>2, <3>3
  <2> QED BY <2>1, <1>1, <1>3, <1>11 DEF RefsInv
<1>14. PhaseInv'
  BY <1>1, <1>2, <1>3 DEF PhaseInv
<1>15. ASSUME NEW i \in 1..n
       PROVE  /\ on[i].obj \in alloc /\ ref_cnt'[on[i].obj] = 0
              /\ on[i].f \in 1..(NumFields + 1)
              /\ \A g \in Fields : g < on[i].f => field'[on[i].obj][g] = None
              /\ i > 1 => on[i].obj \notin Pending
              /\ \A j \in 1..n : on[i].obj = on[j].obj => i = j
              /\ child # None => on[i].obj # child
  <2>1. /\ on[i].obj = dying[i].obj /\ dying[i].obj \in alloc /\ dying[i].obj \in Objs
        /\ ref_cnt[dying[i].obj] = 0 /\ dying[i].f \in 1..(NumFields + 1)
        /\ i > 1 => dying[i].obj \notin Pending
        /\ \A j \in 1..n : dying[i].obj = dying[j].obj => i = j
    BY <1>2, <1>3, <1>7 DEF DyingInv
  <2>2. child # None => dying[i].obj # child
    BY <1>9
  <2>3. ref_cnt'[dying[i].obj] = 0
    <3>1. dying[i].obj # child
      BY <2>1, <2>2, Assumed
    <3> QED BY <2>1, <3>1, <1>10
  <2>4. on[i].f \in 1..(NumFields + 1)
    BY <2>1, <1>4, <1>5, <1>6
  <2>5. ASSUME NEW g \in Fields, g < on[i].f
        PROVE  field'[dying[i].obj][g] = None
    <3>1. CASE dying[i].obj = o /\ g = k
      BY <3>1, <1>8
    <3>2. CASE ~ (dying[i].obj = o /\ g = k)
      <4>1. field'[dying[i].obj][g] = field[dying[i].obj][g]
        BY <3>2, <2>1, <1>8
      <4>2. g < dying[i].f
        <5>1. CASE i = n
          <6>1. dying[i].obj = o /\ dying[i].f = k /\ on[i].f = k + 1
            BY <5>1, <1>2, <1>6
          <6>2. g # k /\ g < k + 1 /\ g \in Nat
            <7>1. g # k
              BY <6>1, <3>2
            <7>2. g < k + 1
              BY <6>1, <2>5
            <7>3. g \in Nat
              BY Assumed DEF Fields
            <7> QED BY <7>1, <7>2, <7>3
          <6> HIDE DEF k, on
          <6>3. g < k
            BY <6>2, <1>5
          <6> QED BY <6>1, <6>3
        <5>2. CASE i # n
          BY <5>2, <2>5, <1>4, <1>6
        <5> QED BY <5>1, <5>2
      <4>3. \A h \in Fields : h < dying[i].f => field[dying[i].obj][h] = None
        BY <1>3 DEF DyingInv
      <4> QED BY <4>1, <4>2, <4>3
    <3> QED BY <3>1, <3>2
  <2>6. \A j \in 1..n : on[j].obj = dying[j].obj
    BY <1>7
  <2> QED BY <2>1, <2>2, <2>3, <2>4, <2>5, <2>6
<1>16. on[1].obj = objs[flush_pos] /\ flush_pos <= Len(objs)
  BY <1>1, <1>2, <1>3, <1>4, <1>7 DEF DyingInv
<1>17. ASSUME NEW q \in alloc, ref_cnt'[q] = 0, q # child
       PROVE  q \in Pending \/ \E i \in 1..n : on[i].obj = q
  <2>1. ref_cnt[q] = 0
    BY <1>3, <1>10, <1>17 DEF TypeOK
  <2>2. CASE q \in Dying
    <3>1. PICK i \in 1..n : dying[i].obj = q
      BY <2>2, <1>2, DyingIs
    <3> QED BY <3>1, <1>7
  <2> QED BY <2>1, <2>2, <1>3 DEF UnreferencedIsPending
<1> HIDE DEF child, on
<1>18. CASE push
  <2> DEFINE c == [obj |-> child, f |-> 1]
             m == n + 1
  <2>1. child # None /\ child \in alloc /\ child \in Objs /\ ref_cnt'[child] = 0 /\ DestroyNow(child)
    BY <1>18, <1>9
  <2>2. c \in DyingType /\ c.obj = child /\ c.f = 1
    BY <2>1 DEF DyingType
  <2>3. dying' = Append(on, c)
    BY <1>1, <1>18
  <2> HIDE DEF c
  <2>4. /\ dying' \in Seq(DyingType) /\ Len(dying') = m
        /\ (\A i \in 1..n : dying'[i] = on[i]) /\ dying'[m] = c
    BY <2>2, <2>3, <1>6, AppendProperties
  <2>5. m \in 1..m /\ m > 1 /\ (\A i \in 1..m : i \in 1..n \/ i = m) /\ (\A i \in 1..n : i \in 1..m /\ i # m)
    <3> HIDE DEF n
    <3> QED BY <1>2
  <2>6. child \notin Pending
    <3>1. Index(child) < flush_pos
      BY <2>1 DEF DestroyNow
    <3>2. \A i \in 1..Len(objs) : objs[i] = child => i = Index(child)
      BY <2>1, <1>3, IndexFinds
    <3>3. \A i \in 1..Len(objs) : i >= flush_pos => objs[i] # child
      <4> SUFFICES ASSUME NEW i \in 1..Len(objs), i >= flush_pos, objs[i] = child PROVE FALSE
        OBVIOUS
      <4>1. i < flush_pos
        BY <3>1, <3>2
      <4> QED BY <4>1, <1>2, <1>3
    <3> QED BY <3>3, <1>3, PendingIs DEF Ahead
  <2>7. TypeOK'
    BY <2>4, <1>1, <1>3, <1>8, <1>10 DEF TypeOK, DyingType
  <2>8. DyingInv'
    <3>1. dying'[1].obj = objs'[flush_pos'] /\ flush_pos' <= Len(objs')
      BY <2>4, <1>1, <1>4, <1>16
    <3>2. ASSUME NEW i \in 1..m
          PROVE  /\ dying'[i].obj \in alloc'
                 /\ ref_cnt'[dying'[i].obj] = 0
                 /\ dying'[i].f \in 1..(NumFields + 1)
                 /\ \A f \in Fields : f < dying'[i].f => field'[dying'[i].obj][f] = None
                 /\ i > 1 => dying'[i].obj \notin Pending'
                 /\ \A j \in 1..m : dying'[i].obj = dying'[j].obj => i = j
      <4>1. CASE i = m
        <5>1. dying'[i].obj = child /\ dying'[i].f = 1
          BY <4>1, <2>2, <2>4
        <5>2. 1 \in 1..(NumFields + 1) /\ \A f \in Fields : ~ (f < 1)
          BY Assumed DEF Fields
        <5>3. \A j \in 1..m : dying'[j].obj = child => j = m
          BY <2>1, <2>4, <2>5, <1>15
        <5> QED BY <5>1, <5>2, <5>3, <4>1, <2>1, <2>6, <1>1, <1>11
      <4>2. CASE i # m
        <5>1. i \in 1..n /\ dying'[i] = on[i]
          BY <4>2, <2>4, <2>5
        <5>2. \A j \in 1..m : dying'[i].obj = dying'[j].obj => i = j
          <6> SUFFICES ASSUME NEW j \in 1..m, dying'[i].obj = dying'[j].obj PROVE i = j
            OBVIOUS
          <6>1. CASE j = m
            BY <6>1, <5>1, <2>1, <2>2, <2>4, <1>15
          <6>2. CASE j # m
            BY <6>2, <5>1, <2>4, <2>5, <1>15
          <6> QED BY <6>1, <6>2
        <5>3. /\ on[i].obj \in alloc /\ ref_cnt'[on[i].obj] = 0
              /\ on[i].f \in 1..(NumFields + 1)
              /\ \A g \in Fields : g < on[i].f => field'[on[i].obj][g] = None
              /\ i > 1 => on[i].obj \notin Pending
          BY <5>1, <1>15
        <5> QED BY <5>1, <5>2, <5>3, <1>1, <1>11
      <4> QED BY <4>1, <4>2
    <3> QED BY <3>1, <3>2, <2>4 DEF DyingInv
  <2>9. UnreferencedIsPending'
    <3> SUFFICES ASSUME NEW q \in alloc, ref_cnt'[q] = 0
                 PROVE  q \in Pending \cup Dying'
      BY <1>1, <1>11 DEF UnreferencedIsPending
    <3>1. CASE q = child
      <4>1. dying'[m].obj = q
        BY <3>1, <2>2, <2>4
      <4> QED BY <4>1, <2>4, <2>5, DyingIs
    <3>2. CASE q # child /\ q \notin Pending
      <4>1. PICK i \in 1..n : on[i].obj = q
        BY <3>2, <1>17
      <4>2. i \in 1..m /\ dying'[i].obj = q
        BY <4>1, <2>4, <2>5
      <4> QED BY <4>2, <2>4, DyingIs
    <3> QED BY <3>1, <3>2
  <2> QED BY <2>7, <2>8, <2>9, <1>11, <1>12, <1>13, <1>14 DEF Inv
<1>19. CASE ~push
  <2>1. dying' = on /\ Len(dying') = n
    BY <1>1, <1>6, <1>19
  <2>2. TypeOK'
    BY <2>1, <1>1, <1>3, <1>6, <1>8, <1>10 DEF TypeOK, DyingType
  <2>3. DyingInv'
    <3>1. dying'[1].obj = objs'[flush_pos'] /\ flush_pos' <= Len(objs')
      BY <2>1, <1>1, <1>16
    <3>2. ASSUME NEW i \in 1..n
          PROVE  /\ dying'[i].obj \in alloc'
                 /\ ref_cnt'[dying'[i].obj] = 0
                 /\ dying'[i].f \in 1..(NumFields + 1)
                 /\ \A f \in Fields : f < dying'[i].f => field'[dying'[i].obj][f] = None
                 /\ i > 1 => dying'[i].obj \notin Pending'
                 /\ \A j \in 1..n : dying'[i].obj = dying'[j].obj => i = j
      BY <2>1, <1>1, <1>11, <1>15
    <3> QED BY <3>1, <3>2, <2>1 DEF DyingInv
  <2>4. UnreferencedIsPending'
    <3> SUFFICES ASSUME NEW q \in alloc, ref_cnt'[q] = 0
                 PROVE  q \in Pending \cup Dying'
      BY <1>1, <1>11 DEF UnreferencedIsPending
    <3>1. CASE q = child
      <4>1. q \in Objs /\ q # None
        BY <1>3, Assumed DEF TypeOK
      <4>2. ~ (Index(q) < flush_pos)
        BY <3>1, <4>1, <1>19 DEF DestroyNow
      <4>3. Index(q) \in 1..Len(objs) /\ objs[Index(q)] = q /\ Index(q) >= flush_pos
        BY <4>1, <4>2, <1>2, <1>3, IndexFinds
      <4> QED BY <4>1, <4>3, <1>3, PendingIs DEF Ahead
    <3>2. CASE q # child /\ q \notin Pending
      <4>1. PICK i \in 1..n : on[i].obj = q
        BY <3>2, <1>17
      <4> QED BY <4>1, <2>1, <1>6, DyingIs
    <3> QED BY <3>1, <3>2
  <2> QED BY <2>2, <2>3, <2>4, <1>11, <1>12, <1>13, <1>14 DEF Inv
<1> QED BY <1>18, <1>19

-----------------------------------------------------------------------------
(* The theorems *)

(* Every step keeps the invariant. *)
LEMMA NextInv ==
  ASSUME Inv, [Next]_vars
  PROVE  Inv'
<1>1. ASSUME NEW o \in Objs, New(o) PROVE Inv'
  BY <1>1, NewStep
<1>2. ASSUME NEW o \in Objs, Load(o) \/ Forget(o) PROVE Inv'
  BY <1>2, LocalsStep
<1>3. ASSUME NEW o \in Objs, PostDtor(o) PROVE Inv'
  BY <1>3, PostDtorStep
<1>4. ASSUME NEW o \in Objs, NEW g \in Globals, NewRef(o, g) PROVE Inv'
  BY <1>4, NewRefStep
<1>5. ASSUME NEW o \in Objs, NEW f \in Fields, NEW v \in Objs \cup {None}, SetField(o, f, v)
      PROVE  Inv'
  BY <1>5, SetFieldStep
<1>6. ASSUME NEW g \in Globals, NEW v \in Objs \cup {None}, SetGlobal(g, v) PROVE Inv'
  BY <1>6, SetGlobalStep
<1>7. CASE Safepoint
  BY <1>7, SafepointStep
<1>8. CASE FlushSkip
  BY <1>8, FlushSkipStep
<1>9. CASE FlushDestroy
  BY <1>9, FlushDestroyStep
<1>10. CASE FlushDone
  BY <1>10, FlushDoneStep
<1>11. CASE DtorField
  BY <1>11, DtorFieldStep
<1>12. CASE FreeAtOnce
  BY <1>12, FreeAtOnceStep
<1>13. CASE FreeFlushed
  BY <1>13, FreeFlushedStep
<1>14. CASE SafepointDone
  BY <1>14, SafepointDoneStep
<1>15. CASE UNCHANGED vars
  <2> USE <1>15 DEF vars, heap
  <2>1. Pending' = Pending /\ Dying' = Dying
    BY DEF Pending, Dying
  <2>2. TypeOK' /\ PhaseInv' /\ BufferInv'
    BY DEF Inv, TypeOK, PhaseInv, BufferInv
  <2>3. DyingInv'
    BY <2>1 DEF Inv, DyingInv
  <2>4. RefsInv' /\ UnreferencedIsPending'
    BY <2>1 DEF Inv, RefsInv, UnreferencedIsPending
  <2>5. CountsInv'
    BY DEF Inv, CountsInv, GlobalRefs, FieldRefs
  <2> QED BY <2>2, <2>3, <2>4, <2>5 DEF Inv
<1> QED BY <1>1, <1>2, <1>3, <1>4, <1>5, <1>6, <1>7, <1>8, <1>9, <1>10, <1>11, <1>12, <1>13,
           <1>14, <1>15 DEF Next

(* The inductive invariant holds in every behaviour. *)
LEMMA Invariant == Spec => []Inv
<1>1. Init => Inv
  BY InitInv
<1>2. Inv /\ [Next]_vars => Inv'
  BY NextInv
<1> QED BY <1>1, <1>2, PTL DEF Spec

(* A stack of destructors of different objects is as long as the set of    *)
(* the objects is large.                                                   *)
LEMMA DyingCounted ==
  ASSUME Inv
  PROVE  Cardinality(Dying) = Len(dying)
<1> DEFINE n == Len(dying)
<1>1. dying \in Seq(DyingType) /\ n \in Nat
  BY LenProperties DEF Inv, TypeOK, DyingType
<1>2. PICK b : b = [i \in 1..n |-> dying[i].obj]
  OBVIOUS
<1>3. \A o : o \in Dying <=> \E i \in 1..n : dying[i].obj = o
  BY <1>1, DyingIs
<1>4. \A i, j \in 1..n : dying[i].obj = dying[j].obj => i = j
  BY DEF Inv, DyingInv
<1>5. ExistsBijection(1..n, Dying)
  <2>1. b \in [1..n -> Dying]
    BY <1>2, <1>3
  <2>2. b \in Injection(1..n, Dying)
    BY <2>1, <1>2, <1>4 DEF Injection, IsInjective
  <2>3. b \in Surjection(1..n, Dying)
    BY <2>1, <1>2, <1>3 DEF Surjection
  <2> QED BY <2>2, <2>3 DEF ExistsBijection, Bijection
<1>6. IsFiniteSet(1..n) /\ Cardinality(1..n) = n
  BY <1>1, FS_Interval
<1> HIDE DEF n
<1> QED BY <1>5, <1>6, FS_Bijection DEF n

(* Every count is the number of references, whatever the program does and  *)
(* however destructors and safepoints interleave with it.                  *)
THEOREM CountsAreExact == Spec => []CountsExact
<1>1. Inv => CountsExact
  BY DEF Inv, CountsInv, CountsExact, GlobalRefs, FieldRefs
<1> QED BY <1>1, Invariant, PTL

(* What is freed is referred to by nothing: no field, global or local, no  *)
(* entry ahead of the flush; and no destructor runs twice on an object.    *)
THEOREM FreedIsForgotten == Spec => []NoDanglingReference
<1>1. Inv => NoDanglingReference
  <2> SUFFICES ASSUME Inv PROVE NoDanglingReference
    OBVIOUS
  <2>1. {global[g] : g \in Globals} \subseteq alloc \cup {None}
    BY DEF Inv, RefsInv
  <2>2. Dying \subseteq alloc
    BY DyingIs DEF Inv, TypeOK, DyingType, DyingInv
  <2> QED BY <2>1, <2>2, DyingCounted DEF Inv, RefsInv, NoDanglingReference
<1> QED BY <1>1, Invariant, PTL

(* An object without references is in the buffer, ahead of the flush, or   *)
(* its destructor is running.                                              *)
THEOREM NoneForgotten == Spec => []UnreferencedIsPending
<1>1. Inv => UnreferencedIsPending
  BY DEF Inv
<1> QED BY <1>1, Invariant, PTL
=============================================================================
