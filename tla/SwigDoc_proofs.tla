--------------------------- MODULE SwigDoc_proofs ---------------------------
(***************************************************************************)
(* For every directory, and whatever is asked in whatever order.           *)
(***************************************************************************)
EXTENDS SwigDoc, SequenceTheorems, WellFoundedInduction, TLAPS

(***************************************************************************)
(* The objects have the types that Python's code relies on, and _refs has  *)
(* each object that has a refid by that refid, and no other.               *)
(***************************************************************************)
Fields == {"cls", "refid", "name", "given", "what", "parsed", "error", "members", "inCategory", "dict"}

DictionaryOK(n, dict) == \A path \in DOMAIN dict : dict[path] \in {Duplicate} \cup 1 .. n

ObjectOK(n, object) ==
  /\ DOMAIN object = Fields /\ object = [f \in Fields |-> object[f]]
  /\ object.name \in Seq(STRING)
  /\ object.members \in Seq(0 .. n)
  /\ \A cat \in DOMAIN object.inCategory : object.inCategory[cat] \in Seq(1 .. n)
  /\ \A cat \in DOMAIN object.dict : DictionaryOK(n, object.dict[cat])

ObjectsOK(seq) ==
  /\ \E S : seq \in Seq(S)
  /\ Len(seq) \in Nat \ {0}
  /\ \A o \in 1 .. Len(seq) : ObjectOK(Len(seq), seq[o])

RefsOK(seq, map) ==
  /\ NoRef \notin DOMAIN map
  /\ \A refid \in DOMAIN map : map[refid] \in 1 .. Len(seq) /\ seq[map[refid]].refid = refid
  /\ \A o \in 1 .. Len(seq) :
        seq[o].refid # NoRef => seq[o].refid \in DOMAIN map /\ map[seq[o].refid] = o

HeapOK(heap) ==
  /\ heap = [objs |-> heap.objs, refs |-> heap.refs, broken |-> heap.broken]
  /\ ObjectsOK(heap.objs)
  /\ RefsOK(heap.objs, heap.refs)

\* an object stays what it is, and a parse that an exception has left remains noted
SameObject(a, b) ==
  b.cls = a.cls /\ b.refid = a.refid /\ b.name = a.name /\ b.given = a.given /\ b.what = a.what

Extends(heap, more) ==
  /\ heap.broken \subseteq more.broken
  /\ Len(heap.objs) <= Len(more.objs)
  /\ \A o \in 1 .. Len(heap.objs) : SameObject(heap.objs[o], more.objs[o])

IsObject(heap, o) == o \in 1 .. Len(heap.objs)

Kept(heap, after) == HeapOK(after) /\ Extends(heap, after)

\* what an operation leaves behind
Outcome(heap, done) ==
  /\ done = [heap |-> done.heap, raised |-> done.raised, value |-> done.value]
  /\ done.raised # Nothing => done.value = <<>>
  /\ Kept(heap, done.heap)

-----------------------------------------------------------------------------
LEMMA ElementAt == ASSUME NEW S, NEW s, s \in Seq(S), NEW i, i \in DOMAIN s PROVE s[i] \in S
OBVIOUS

LEMMA Places == ASSUME NEW S, NEW s \in Seq(S) PROVE Len(s) \in Nat /\ DOMAIN s = 1 .. Len(s)
OBVIOUS

LEMMA SeqWider == ASSUME NEW S, NEW T, S \subseteq T, NEW s, s \in Seq(S) PROVE s \in Seq(T)
OBVIOUS

LEMMA RangeWider ==
  ASSUME NEW a \in Nat, NEW b \in Nat, a <= b, NEW s, s \in Seq(1 .. a)
  PROVE  s \in Seq(1 .. b)
<1>1. 1 .. a \subseteq 1 .. b
  OBVIOUS
<1> QED
  BY <1>1, SeqWider

\* What counts 1 .. n also counts 1 .. m, if that is more.
LEMMA MoreObjects ==
  ASSUME NEW n \in Nat, NEW m \in Nat, n <= m, NEW object, ObjectOK(n, object)
  PROVE  ObjectOK(m, object)
<1>1. 0 .. n \subseteq 0 .. m /\ 1 .. n \subseteq 1 .. m
  OBVIOUS
<1>2. object.members \in Seq(0 .. m)
  BY <1>1, SeqWider DEF ObjectOK
<1>3. ASSUME NEW cat \in DOMAIN object.inCategory
      PROVE  object.inCategory[cat] \in Seq(1 .. m)
  BY <1>1, RangeWider DEF ObjectOK
<1>4. \A cat \in DOMAIN object.dict : DictionaryOK(m, object.dict[cat])
  BY <1>1 DEF ObjectOK, DictionaryOK
<1> QED
  BY <1>2, <1>3, <1>4 DEF ObjectOK

LEMMA ExtendsItself == ASSUME NEW heap, Len(heap.objs) \in Nat PROVE Extends(heap, heap)
BY DEF Extends, SameObject

LEMMA ExtendsOn ==
  ASSUME NEW a, NEW b, NEW c, Extends(a, b), Extends(b, c),
         Len(a.objs) \in Nat, Len(b.objs) \in Nat, Len(c.objs) \in Nat
  PROVE  Extends(a, c)
<1>1. \A o \in 1 .. Len(a.objs) : o \in 1 .. Len(b.objs)
  BY DEF Extends
<1> QED
  BY <1>1 DEF Extends, SameObject

\* An object may be replaced by one that is what it is.
WithObject(heap, o, object, after) == after = [heap EXCEPT !.objs = [heap.objs EXCEPT ![o] = object]]

LEMMA Replaced ==
  ASSUME NEW heap, HeapOK(heap), NEW o, IsObject(heap, o),
         NEW object, ObjectOK(Len(heap.objs), object), SameObject(heap.objs[o], object),
         NEW after, WithObject(heap, o, object, after)
  PROVE  HeapOK(after) /\ Extends(heap, after) /\ Len(after.objs) = Len(heap.objs)
<1> DEFINE n == Len(heap.objs)
           seq == [heap.objs EXCEPT ![o] = object]
<1>1. n \in Nat \ {0} /\ DOMAIN heap.objs = 1 .. n
  BY DEF HeapOK, ObjectsOK
<1>2. PICK S : heap.objs \in Seq(S)
  BY DEF HeapOK, ObjectsOK
<1>3. seq \in Seq(S \cup {object}) /\ Len(seq) = n
  <2>1. heap.objs \in Seq(S \cup {object})
    BY <1>2
  <2> QED
    BY <2>1, <1>1 DEF IsObject
<1>4. \A p \in 1 .. n : seq[p] = IF p = o THEN object ELSE heap.objs[p]
  BY <1>1 DEF IsObject
<1>5. after.objs = seq /\ after.refs = heap.refs /\ after.broken = heap.broken
      /\ after = [objs |-> after.objs, refs |-> after.refs, broken |-> after.broken]
  BY DEF HeapOK, WithObject
<1> HIDE DEF seq
<1>6. ObjectsOK(seq)
  <2>1. \A p \in 1 .. n : ObjectOK(n, seq[p])
    BY <1>4 DEF HeapOK, ObjectsOK
  <2> QED
    BY <1>1, <1>3, <2>1 DEF ObjectsOK
<1>7. \A p \in 1 .. n : SameObject(heap.objs[p], seq[p])
  BY <1>4 DEF SameObject
<1>8. RefsOK(seq, heap.refs)
  <2>1. \A p \in 1 .. n : seq[p].refid = heap.objs[p].refid
    BY <1>7 DEF SameObject
  <2>2. RefsOK(heap.objs, heap.refs)
    BY DEF HeapOK
  <2> HIDE DEF n
  <2>3. Len(seq) = n /\ Len(heap.objs) = n
    BY <1>3 DEF n
  <2>4. \A refid \in DOMAIN heap.refs : heap.refs[refid] \in 1 .. n /\ seq[heap.refs[refid]].refid = refid
    BY <2>1, <2>2, <2>3 DEF RefsOK
  <2>5. \A p \in 1 .. n :
          seq[p].refid # NoRef => seq[p].refid \in DOMAIN heap.refs /\ heap.refs[seq[p].refid] = p
    BY <2>1, <2>2, <2>3 DEF RefsOK
  <2> QED
    BY <2>2, <2>3, <2>4, <2>5 DEF RefsOK
<1>9. HeapOK(after)
  BY <1>5, <1>6, <1>8 DEF HeapOK
<1>10. Extends(heap, after)
  <2>1. \A p \in 1 .. n : SameObject(heap.objs[p], after.objs[p])
    BY <1>5, <1>7
  <2>2. n <= Len(after.objs) /\ after.broken = heap.broken
    BY <1>1, <1>3, <1>5
  <2> QED
    BY <2>1, <2>2 DEF Extends
<1> QED
  BY <1>3, <1>5, <1>9, <1>10

\* An object may be made if there is none of its refid.
OneMoreObject(heap, object, after) ==
  after = [heap EXCEPT !.objs = Append(heap.objs, object),
                       !.refs = IF object.refid = NoRef THEN heap.refs
                                ELSE Put(heap.refs, object.refid, Len(heap.objs) + 1)]

LEMMA Appended ==
  ASSUME NEW heap, HeapOK(heap), NEW object, ObjectOK(Len(heap.objs), object),
         object.refid = NoRef \/ object.refid \notin DOMAIN heap.refs,
         NEW after, OneMoreObject(heap, object, after)
  PROVE  HeapOK(after) /\ Extends(heap, after) /\ Len(after.objs) = Len(heap.objs) + 1
<1> DEFINE n == Len(heap.objs)
           seq == Append(heap.objs, object)
           map == IF object.refid = NoRef THEN heap.refs ELSE Put(heap.refs, object.refid, n + 1)
<1>1. n \in Nat \ {0} /\ DOMAIN heap.objs = 1 .. n
  BY DEF HeapOK, ObjectsOK
<1>2. PICK S : heap.objs \in Seq(S)
  BY DEF HeapOK, ObjectsOK
<1>3. seq \in Seq(S \cup {object}) /\ Len(seq) = n + 1
  <2>1. heap.objs \in Seq(S \cup {object})
    BY <1>2
  <2> QED
    BY <2>1
<1>4. (\A p \in 1 .. n : seq[p] = heap.objs[p]) /\ seq[n + 1] = object
  BY <1>1, <1>2
<1>5. after = [objs |-> seq, refs |-> map, broken |-> heap.broken]
  BY DEF HeapOK, OneMoreObject
<1>11. after.objs = seq /\ after.refs = map /\ after = [objs |-> after.objs, refs |-> after.refs, broken |-> after.broken]
  BY <1>5
<1>12. after.broken = heap.broken
  BY <1>5
<1> HIDE DEF seq
<1>6. ObjectsOK(seq)
  <2>1. \A p \in 1 .. n : ObjectOK(n + 1, seq[p])
    <3>1. \A p \in 1 .. n : ObjectOK(n, seq[p])
      BY <1>4 DEF HeapOK, ObjectsOK
    <3>2. n \in Nat /\ n + 1 \in Nat /\ n <= n + 1
      BY <1>1
    <3> HIDE DEF n
    <3> QED
      BY <3>1, <3>2, MoreObjects
  <2>2. ObjectOK(n + 1, seq[n + 1])
    <3>1. n \in Nat /\ n + 1 \in Nat /\ n <= n + 1 /\ ObjectOK(n, object)
      BY <1>1
    <3> HIDE DEF n
    <3> QED
      BY <1>4, <3>1, MoreObjects
  <2>3. \A p \in 1 .. n + 1 : ObjectOK(n + 1, seq[p])
    <3>1. \A p \in 1 .. n + 1 : p \in 1 .. n \/ p = n + 1
      BY <1>1
    <3> HIDE DEF n
    <3> QED
      BY <2>1, <2>2, <3>1
  <2> QED
    BY <1>1, <1>3, <2>3 DEF ObjectsOK
<1>7. \A p \in 1 .. n : SameObject(heap.objs[p], seq[p])
  BY <1>4 DEF SameObject
<1>8. RefsOK(seq, map)
  <2> HIDE DEF n
  <2>1. RefsOK(heap.objs, heap.refs) /\ Len(heap.objs) = n /\ Len(seq) = n + 1
    BY <1>3 DEF HeapOK, n
  <2>2. CASE object.refid = NoRef
    <3>1. map = heap.refs
      BY <2>2
    <3>2. \A refid \in DOMAIN map : map[refid] \in 1 .. n + 1 /\ seq[map[refid]].refid = refid
      BY <1>1, <1>4, <2>1, <3>1 DEF RefsOK
    <3>3. \A p \in 1 .. n + 1 :
            seq[p].refid # NoRef => seq[p].refid \in DOMAIN map /\ map[seq[p].refid] = p
      BY <1>1, <1>4, <2>1, <2>2, <3>1 DEF RefsOK
    <3> QED
      BY <2>1, <3>1, <3>2, <3>3 DEF RefsOK
  <2>3. CASE object.refid # NoRef
    <3>1. /\ DOMAIN map = {object.refid} \cup DOMAIN heap.refs
          /\ map[object.refid] = n + 1
          /\ \A refid \in DOMAIN heap.refs : refid # object.refid => map[refid] = heap.refs[refid]
      BY <2>3 DEF Put
    <3> HIDE DEF map
    <3>2. object.refid \notin DOMAIN heap.refs
      BY <2>3
    <3>3. \A refid \in DOMAIN map : map[refid] \in 1 .. n + 1 /\ seq[map[refid]].refid = refid
      <4>1. ASSUME NEW refid \in DOMAIN heap.refs
            PROVE  map[refid] \in 1 .. n + 1 /\ seq[map[refid]].refid = refid
        BY <1>1, <1>4, <2>1, <3>1, <3>2 DEF RefsOK
      <4>2. map[object.refid] \in 1 .. n + 1 /\ seq[map[object.refid]].refid = object.refid
        BY <1>1, <1>4, <3>1
      <4> QED
        BY <3>1, <4>1, <4>2
    <3>4. \A p \in 1 .. n + 1 :
            seq[p].refid # NoRef => seq[p].refid \in DOMAIN map /\ map[seq[p].refid] = p
      <4>1. ASSUME NEW p \in 1 .. n, seq[p].refid # NoRef
            PROVE  seq[p].refid \in DOMAIN map /\ map[seq[p].refid] = p
        BY <1>4, <2>1, <3>1, <3>2, <4>1 DEF RefsOK
      <4>2. seq[n + 1].refid \in DOMAIN map /\ map[seq[n + 1].refid] = n + 1
        BY <1>4, <3>1
      <4>3. \A p \in 1 .. n + 1 : p \in 1 .. n \/ p = n + 1
        BY <1>1
      <4> QED
        BY <4>1, <4>2, <4>3
    <3> QED
      BY <2>1, <2>3, <3>1, <3>3, <3>4 DEF RefsOK
  <2> QED
    BY <2>2, <2>3
<1> HIDE DEF map
<1>9. HeapOK(after)
  BY <1>11, <1>6, <1>8 DEF HeapOK
<1>10. Extends(heap, after)
  <2>1. \A p \in 1 .. n : SameObject(heap.objs[p], after.objs[p])
    BY <1>7, <1>11
  <2>2. n <= Len(after.objs)
    BY <1>1, <1>3, <1>11
  <2> QED
    BY <1>12, <2>1, <2>2 DEF Extends
<1> QED
  BY <1>3, <1>11, <1>9, <1>10

LEMMA KeptItself == ASSUME NEW heap, HeapOK(heap) PROVE Kept(heap, heap)
BY ExtendsItself DEF Kept, HeapOK, ObjectsOK

LEMMA KeptOn ==
  ASSUME NEW a, NEW b, NEW c, HeapOK(a), Kept(a, b), Kept(b, c)
  PROVE  Kept(a, c)
BY ExtendsOn DEF Kept, HeapOK, ObjectsOK

\* An object is still there.
LEMMA StillThere ==
  ASSUME NEW a, NEW b, HeapOK(a), Kept(a, b), NEW o
  PROVE  /\ IsObject(a, o) => IsObject(b, o)
         /\ o \in 0 .. Len(a.objs) => o \in 0 .. Len(b.objs)
BY DEF Kept, Extends, IsObject, HeapOK, ObjectsOK

\* What is known of an object.
LEMMA Known1 ==
  ASSUME NEW heap, HeapOK(heap), NEW o, IsObject(heap, o)
  PROVE  ObjectOK(Len(heap.objs), heap.objs[o])
BY DEF HeapOK, ObjectsOK, IsObject

\* What Return and Raise leave behind.
LEMMA Returned ==
  ASSUME NEW heap, NEW value
  PROVE  Return(heap, value).heap = heap /\ Return(heap, value).raised = Nothing /\ Return(heap, value).value = value
BY DEF Return

LEMMA Raised ==
  ASSUME NEW heap, NEW what
  PROVE  Raise(heap, what).heap = heap /\ Raise(heap, what).raised = what
BY DEF Raise

-----------------------------------------------------------------------------
LEMMA FromRefidKeeps ==
  ASSUME NEW heap, HeapOK(heap), NEW refid, NEW object,
         ObjectOK(Len(heap.objs), object), object.refid = refid,
         NEW done, done = FromRefid(heap, refid, object)
  PROVE  Kept(heap, done.heap) /\ done.raised = Nothing /\ IsObject(done.heap, done.value)
<1>1. CASE Registered(heap, refid)
  <2>1. done.heap = heap /\ done.raised = Nothing /\ done.value = heap.refs[refid]
    BY <1>1, Returned DEF FromRefid
  <2>2. IsObject(heap, heap.refs[refid])
    BY <1>1 DEF Registered, HeapOK, RefsOK, IsObject
  <2> QED
    BY <2>1, <2>2, KeptItself
<1>2. CASE ~Registered(heap, refid)
  <2> DEFINE after == [heap EXCEPT !.objs = Append(heap.objs, object),
                                   !.refs = IF object.refid = NoRef THEN heap.refs
                                            ELSE Put(heap.refs, object.refid, Len(heap.objs) + 1)]
  <2>1. done.heap = after /\ done.raised = Nothing /\ done.value = Len(heap.objs) + 1
    BY <1>2, Returned DEF FromRefid
  <2>2. object.refid \notin DOMAIN heap.refs
    BY <1>2 DEF Registered
  <2>6. OneMoreObject(heap, object, after)
    BY DEF OneMoreObject
  <2> HIDE DEF after
  <2>3. HeapOK(after) /\ Extends(heap, after) /\ Len(after.objs) = Len(heap.objs) + 1
    BY <2>2, <2>6, Appended
  <2>4. Len(heap.objs) \in Nat
    BY DEF HeapOK, ObjectsOK
  <2>5. IsObject(after, Len(heap.objs) + 1)
    BY <2>3, <2>4 DEF IsObject
  <2> QED
    BY <2>1, <2>3, <2>5 DEF Kept
<1> QED
  BY <1>1, <1>2

LEMMA convert_memKeeps ==
  ASSUME NEW heap, HeapOK(heap), NEW mem, mem.name \in Seq(STRING),
         NEW done, done = convert_mem(heap, mem)
  PROVE  /\ Kept(heap, done.heap) /\ done.raised = Nothing
         /\ done.value \in 0 .. Len(done.heap.objs)
<1> DEFINE object == Object(Classes[mem.kind], mem.refid, mem.name, TRUE, mem.what)
<1>1. CASE mem.kind \in DOMAIN Classes
  <2>1. done = FromRefid(heap, mem.refid, object)
    BY <1>1 DEF convert_mem
  <2>2. Len(heap.objs) \in Nat
    BY DEF HeapOK, ObjectsOK
  <2>3. ObjectOK(Len(heap.objs), object) /\ object.refid = mem.refid
    BY <2>2 DEF ObjectOK, Object, Fields
  <2> HIDE DEF object
  <2>4. Kept(heap, done.heap) /\ done.raised = Nothing /\ IsObject(done.heap, done.value)
    BY <2>1, <2>3, FromRefidKeeps
  <2> QED
    <3>1. Len(done.heap.objs) \in Nat
      BY <2>4 DEF Kept, HeapOK, ObjectsOK
    <3> QED
      BY <2>4, <3>1 DEF IsObject
<1>2. CASE mem.kind \notin DOMAIN Classes
  <2>1. done.heap = heap /\ done.raised = Nothing /\ done.value = 0
    BY <1>2, Returned DEF convert_mem
  <2> QED
    <3>1. Len(heap.objs) \in Nat
      BY DEF HeapOK, ObjectsOK
    <3> QED
      BY <2>1, <3>1, KeptItself
<1> QED
  BY <1>1, <1>2

\* With one of the fields that may change.
LEMMA WithKeeps ==
  ASSUME NEW heap, HeapOK(heap), NEW o, IsObject(heap, o),
         NEW field \in Fields \ {"cls", "refid", "name", "given", "what"}, NEW value,
         ObjectOK(Len(heap.objs), [heap.objs[o] EXCEPT ![field] = value])
  PROVE  /\ Kept(heap, With(heap, o, field, value))
         /\ Len(With(heap, o, field, value).objs) = Len(heap.objs)
<1> DEFINE object == [heap.objs[o] EXCEPT ![field] = value]
<1>1. SameObject(heap.objs[o], object)
  <2>1. ObjectOK(Len(heap.objs), heap.objs[o])
    BY Known1
  <2> QED
    BY <2>1 DEF SameObject, ObjectOK, Fields
<1>2. With(heap, o, field, value) = [heap EXCEPT !.objs = [heap.objs EXCEPT ![o] = object]]
  BY DEF With
<1> HIDE DEF object
<1>3. ObjectOK(Len(heap.objs), object)
  BY DEF object
<1> DEFINE after == With(heap, o, field, value)
<1>4. after = [heap EXCEPT !.objs = [heap.objs EXCEPT ![o] = object]]
  BY <1>2
<1> HIDE DEF after
<1>5. WithObject(heap, o, object, after)
  BY <1>4 DEF WithObject
<1>6. HeapOK(after) /\ Extends(heap, after) /\ Len(after.objs) = Len(heap.objs)
  BY <1>1, <1>3, <1>5, Replaced
<1> QED
  BY <1>6 DEF Kept, after

LEMMA AddMemberKeeps ==
  ASSUME NEW made, HeapOK(made.heap), made.value \in 0 .. Len(made.heap.objs),
         NEW o, IsObject(made.heap, o)
  PROVE  Kept(made.heap, AddMember(made, o))
<1> DEFINE heap == made.heap
           n == Len(heap.objs)
           object == heap.objs[o]
           more == Append(object.members, made.value)
<1>1. ObjectOK(n, object) /\ n \in Nat
  BY Known1 DEF HeapOK, ObjectsOK
<1>2. more \in Seq(0 .. n)
  BY <1>1 DEF ObjectOK
<1>3. ObjectOK(n, [object EXCEPT !["members"] = more])
  <2> HIDE DEF more, object, n
  <2> QED
    BY <1>1, <1>2 DEF ObjectOK, Fields
<1>4. AddMember(made, o) = With(heap, o, "members", more)
  BY DEF AddMember
<1>5. "members" \in Fields \ {"cls", "refid", "name", "given", "what"}
  BY DEF Fields
<1> HIDE DEF more
<1> QED
  BY <1>3, <1>4, <1>5, WithKeeps

-----------------------------------------------------------------------------
LEMMA LeastNumber == \A S : S \subseteq Nat /\ S # {} => \E k \in S : \A j \in S : k <= j
<1> SUFFICES ASSUME NEW T, T \subseteq Nat, T # {}
             PROVE  \E k \in T : \A j \in T : k <= j
  OBVIOUS
<1> DEFINE Less == OpToRel(<, Nat)
<1>1. IsWellFoundedOn(Less, Nat)
  BY NatLessThanWellFounded
<1>2. \A j, k \in Nat : <<j, k>> \in Less <=> j < k
  BY DEF OpToRel
<1> HIDE DEF Less
<1>3. PICK k \in T : \A j \in T : ~ (<<j, k>> \in Less)
  BY <1>1, WFMin
<1>4. ASSUME NEW j \in T
      PROVE  k <= j
  <2>1. k \in Nat /\ j \in Nat /\ ~(j < k)
    BY <1>2, <1>3
  <2> QED
    BY <2>1
<1> QED
  BY <1>4

-----------------------------------------------------------------------------
(***************************************************************************)
(* Each loop keeps what each of its turns keeps.                           *)
(***************************************************************************)
LoopKept(of, start, seq, i, done) == Kept(start, done)

Memberdefs == INSTANCE FoldSteps WITH Turn <- AddMemberdef, Holds <- LoopKept

\* the files are as the assumption has it
LEMMA FileHasTypes ==
  ASSUME dir \in Directories, NEW refid, ~Missing(refid)
  PROVE  /\ dir.files[refid].members \in Seq([kind : STRING, name : Names, described : BOOLEAN])
         /\ dir.files[refid].groups \in Seq(STRING)
         /\ dir.files[refid].classes \in Seq(STRING)
BY DirectoriesAssumption DEF Files, Missing

LEMMA AddMemberdefKeeps ==
  ASSUME dir \in Directories, NEW heap, HeapOK(heap), NEW o, IsObject(heap, o),
         ~Missing(heap.objs[o].refid), NEW i \in DOMAIN dir.files[heap.objs[o].refid].members
  PROVE  Kept(heap, AddMemberdef(o, heap, i))
<1> DEFINE refid == heap.objs[o].refid
           mems == dir.files[refid].members
           mem == [kind |-> mems[i].kind, refid |-> NoRef, name |-> mems[i].name, what |-> <<refid, i>>]
           made == convert_mem(heap, mem)
<1>1. mem.name \in Seq(STRING)
  <2>1. mems \in Seq([kind : STRING, name : Names, described : BOOLEAN])
    BY FileHasTypes
  <2>2. i \in DOMAIN mems
    OBVIOUS
  <2>3. mems[i] \in [kind : STRING, name : Names, described : BOOLEAN]
    BY <2>1, <2>2, ElementAt
  <2> QED
    BY <2>3 DEF Names
<1> HIDE DEF mem
<1>2. Kept(heap, made.heap) /\ made.value \in 0 .. Len(made.heap.objs)
  BY <1>1, convert_memKeeps
<1> HIDE DEF made
<1>3. HeapOK(made.heap) /\ IsObject(made.heap, o)
  BY <1>2, StillThere DEF Kept
<1>4. Kept(made.heap, AddMember(made, o))
  BY <1>2, <1>3, AddMemberKeeps
<1>5. Kept(heap, AddMember(made, o))
  BY <1>2, <1>4, KeptOn
<1>6. AddMemberdef(o, heap, i) = IF FirstOfName(mems, i) THEN AddMember(made, o) ELSE heap
  BY DEF AddMemberdef, made, mem
<1> QED
  BY <1>5, <1>6, KeptItself

LEMMA process_memberdefsKeeps ==
  ASSUME dir \in Directories, NEW heap, HeapOK(heap), NEW o, IsObject(heap, o), ~Missing(heap.objs[o].refid)
  PROVE  Kept(heap, process_memberdefs(heap, o))
<1> DEFINE refid == heap.objs[o].refid
           mems == dir.files[refid].members
           seq == [i \in DOMAIN mems |-> i]
           n == Len(mems)
<1>1. n \in Nat /\ DOMAIN mems = 1 .. n
  <2>1. mems \in Seq([kind : STRING, name : Names, described : BOOLEAN])
    BY FileHasTypes
  <2> HIDE DEF mems
  <2> QED
    BY <2>1, Places
<1>2. DOMAIN seq = 1 .. n /\ \A i \in 1 .. n : seq[i] = i
  <2> HIDE DEF mems, n
  <2> QED
    BY <1>1
<1>3. process_memberdefs(heap, o) = Memberdefs!Loop(o, heap, seq)
  BY DEF process_memberdefs, Memberdefs!Loop, FoldLeft, MapThenFoldSet, Max, Memberdefs!Last
<1> HIDE DEF seq
<1>4. ASSUME NEW i \in 1 .. n, NEW done, LoopKept(o, heap, seq, i - 1, done)
      PROVE  LoopKept(o, heap, seq, i, AddMemberdef(o, done, seq[i]))
  <2>1. Kept(heap, done)
    BY <1>4 DEF LoopKept
  <2>2. HeapOK(done) /\ IsObject(done, o)
    BY <2>1, StillThere DEF Kept
  <2>3. done.objs[o].refid = refid
    BY <2>1 DEF Kept, Extends, SameObject, IsObject
  <2>4. Kept(done, AddMemberdef(o, done, i))
    BY <1>1, <2>2, <2>3, AddMemberdefKeeps
  <2>5. Kept(heap, AddMemberdef(o, done, i))
    BY <2>1, <2>4, KeptOn
  <2> QED
    BY <1>2, <2>5 DEF LoopKept
<1>5. LoopKept(o, heap, seq, 0, heap)
  BY KeptItself DEF LoopKept
<1>6. LoopKept(o, heap, seq, n, Memberdefs!Loop(o, heap, seq))
  <2> HIDE DEF n
  <2> QED
    BY <1>1, <1>2, <1>4, <1>5, LeastNumber, Memberdefs!LoopKeeps
<1> QED
  BY <1>3, <1>6 DEF LoopKept

Inners == INSTANCE FoldSteps WITH Turn <- AddInner, Holds <- LoopKept

LEMMA AddInnerKeeps ==
  ASSUME NEW heap, HeapOK(heap), NEW o, IsObject(heap, o), NEW cls, NEW refid
  PROVE  Kept(heap, AddInner([of |-> o, cls |-> cls], heap, refid))
<1> DEFINE object == Object(cls, refid, <<>>, FALSE, <<refid>>)
           made == FromRefid(heap, refid, object)
<1>1. ObjectOK(Len(heap.objs), object) /\ object.refid = refid
  BY DEF HeapOK, ObjectsOK, ObjectOK, Object, Fields
<1> HIDE DEF object
<1>2. Kept(heap, made.heap) /\ IsObject(made.heap, made.value)
  BY <1>1, FromRefidKeeps
<1> HIDE DEF made
<1>3. HeapOK(made.heap) /\ IsObject(made.heap, o)
  BY <1>2, StillThere DEF Kept
<1>4. made.value \in 0 .. Len(made.heap.objs)
  BY <1>2, <1>3 DEF IsObject, HeapOK, ObjectsOK
<1>5. Kept(made.heap, AddMember(made, o))
  BY <1>3, <1>4, AddMemberKeeps
<1>6. Kept(heap, AddMember(made, o))
  BY <1>2, <1>5, KeptOn
<1>7. AddInner([of |-> o, cls |-> cls], heap, refid) = AddMember(made, o)
  BY DEF AddInner, made, object
<1> QED
  BY <1>6, <1>7

LEMMA AddAllInnerKeeps ==
  ASSUME NEW heap, HeapOK(heap), NEW o, IsObject(heap, o), NEW cls, NEW refids \in Seq(STRING)
  PROVE  Kept(heap, AddAllInner(heap, o, cls, refids))
<1> DEFINE inner == [of |-> o, cls |-> cls]
           n == Len(refids)
<1>1. n \in Nat /\ DOMAIN refids = 1 .. n
  OBVIOUS
<1>2. AddAllInner(heap, o, cls, refids) = Inners!Loop(inner, heap, refids)
  BY DEF AddAllInner, Inners!Loop, FoldLeft, MapThenFoldSet, Max, Inners!Last
<1>3. ASSUME NEW i \in 1 .. n, NEW done, LoopKept(inner, heap, refids, i - 1, done)
      PROVE  LoopKept(inner, heap, refids, i, AddInner(inner, done, refids[i]))
  <2>1. Kept(heap, done)
    BY <1>3 DEF LoopKept
  <2>2. HeapOK(done) /\ IsObject(done, o)
    BY <2>1, StillThere DEF Kept
  <2>3. Kept(done, AddInner(inner, done, refids[i]))
    BY <2>2, AddInnerKeeps
  <2>4. Kept(heap, AddInner(inner, done, refids[i]))
    BY <2>1, <2>3, KeptOn
  <2> QED
    BY <2>4 DEF LoopKept
<1>4. LoopKept(inner, heap, refids, 0, heap)
  BY KeptItself DEF LoopKept
<1>5. LoopKept(inner, heap, refids, n, Inners!Loop(inner, heap, refids))
  <2> HIDE DEF n, inner
  <2> QED
    BY <1>1, <1>3, <1>4, LeastNumber, Inners!LoopKeeps
<1> QED
  BY <1>2, <1>5 DEF LoopKept

LEMMA ParseGroupKeeps ==
  ASSUME dir \in Directories, NEW heap, HeapOK(heap), NEW o, IsObject(heap, o), ~Missing(heap.objs[o].refid)
  PROVE  Kept(heap, ParseGroup(heap, o))
<1> DEFINE refid == heap.objs[o].refid
           one == AddAllInner(heap, o, "DoxyGroup", dir.files[refid].groups)
           two == AddAllInner(one, o, "DoxyClass", dir.files[refid].classes)
<1>1. Kept(heap, one)
  BY FileHasTypes, AddAllInnerKeeps
<1>2. HeapOK(one) /\ IsObject(one, o)
  BY <1>1, StillThere DEF Kept
<1>3. Kept(one, two)
  <2> HIDE DEF one
  <2> QED
    BY <1>2, FileHasTypes, AddAllInnerKeeps
<1> HIDE DEF one, two
<1>4. Kept(heap, two)
  BY <1>1, <1>3, KeptOn
<1>5. HeapOK(two) /\ IsObject(two, o) /\ two.objs[o].refid = refid
  <2>1. HeapOK(two) /\ IsObject(two, o)
    BY <1>4, StillThere DEF Kept
  <2>2. two.objs[o].refid = refid
    BY <1>4 DEF Kept, Extends, SameObject, IsObject
  <2> QED
    BY <2>1, <2>2
<1>6. Kept(two, process_memberdefs(two, o))
  BY <1>5, process_memberdefsKeeps
<1>7. Kept(heap, process_memberdefs(two, o))
  BY <1>4, <1>6, KeptOn
<1>8. ParseGroup(heap, o) = process_memberdefs(two, o)
  BY DEF ParseGroup, one, two
<1> QED
  BY <1>7, <1>8

\* What is set of an object when it is parsed.
LEMMA MarkKeeps ==
  ASSUME NEW heap, HeapOK(heap), NEW o, IsObject(heap, o), NEW field \in {"parsed", "error"}
  PROVE  Kept(heap, With(heap, o, field, TRUE))
<1>1. ObjectOK(Len(heap.objs), [heap.objs[o] EXCEPT ![field] = TRUE])
  <2>1. ObjectOK(Len(heap.objs), heap.objs[o])
    BY Known1
  <2> QED
    BY <2>1 DEF ObjectOK, Fields
<1>2. field \in Fields \ {"cls", "refid", "name", "given", "what"}
  BY DEF Fields
<1> QED
  BY <1>1, <1>2, WithKeeps

LEMMA ParseObjectKeeps ==
  ASSUME dir \in Directories, NEW heap, HeapOK(heap), NEW o, IsObject(heap, o)
  PROVE  Kept(heap, ParseObject(heap, o).heap)
<1> DEFINE refid == heap.objs[o].refid
           failed == With(heap, o, "error", TRUE)
<1>1. Kept(heap, failed)
  BY MarkKeeps
<1>2. Kept(heap, heap)
  BY KeptItself
<1>3. ~Missing(refid) => Kept(heap, ParseGroup(heap, o)) /\ Kept(heap, process_memberdefs(heap, o))
  BY ParseGroupKeeps, process_memberdefsKeeps
<1> HIDE DEF failed
<1>4. \/ ParseFile(heap, o).heap \in {heap, failed}
      \/ ~Missing(refid) /\ ParseFile(heap, o).heap \in {ParseGroup(heap, o), process_memberdefs(heap, o)}
  <2>1. Missing(refid) => ParseFile(heap, o).heap = heap
    BY Raised DEF ParseFile
  <2>2. ~Missing(refid) /\ dir.files[refid].status = "bad" => ParseFile(heap, o).heap = failed
    BY Raised, Returned DEF ParseFile, failed
  <2>3. ~Missing(refid) /\ dir.files[refid].status # "bad" =>
          ParseFile(heap, o).heap \in {ParseGroup(heap, o), process_memberdefs(heap, o)}
    BY Returned DEF ParseFile
  <2> QED
    BY <2>1, <2>2, <2>3
<1>5. Kept(heap, ParseFile(heap, o).heap)
  BY <1>1, <1>2, <1>3, <1>4
<1>6. ParseObject(heap, o).heap \in {heap, ParseFile(heap, o).heap}
  BY DEF ParseObject, Return
<1> QED
  BY <1>2, <1>5, <1>6

-----------------------------------------------------------------------------
(***************************************************************************)
(* The operations.                                                         *)
(***************************************************************************)
LEMMA ReturnOutcome ==
  ASSUME NEW heap, NEW after, Kept(heap, after), NEW value
  PROVE  Outcome(heap, Return(after, value))
BY Returned DEF Outcome, Return

LEMMA RaiseOutcome ==
  ASSUME NEW heap, NEW after, Kept(heap, after), NEW what
  PROVE  Outcome(heap, Raise(after, what))
BY Raised DEF Outcome, Raise

LEMMA OutcomeOn ==
  ASSUME NEW a, NEW b, NEW done, HeapOK(a), Kept(a, b), Outcome(b, done)
  PROVE  Outcome(a, done)
BY KeptOn DEF Outcome

LEMMA OutcomeHeap == ASSUME NEW heap, NEW done, Outcome(heap, done) PROVE HeapOK(done.heap) /\ Kept(heap, done.heap)
BY DEF Outcome, Kept

LEMMA ParseObjectOutcome ==
  ASSUME dir \in Directories, NEW heap, HeapOK(heap), NEW o, IsObject(heap, o)
  PROVE  Outcome(heap, ParseObject(heap, o))
<1>1. Kept(heap, ParseObject(heap, o).heap)
  BY ParseObjectKeeps
<1>2. \E after, value : ParseObject(heap, o) \in {Return(after, value), Raise(after, value)}
  <2>1. \E after, value : ParseFile(heap, o) \in {Return(after, value), Raise(after, value)}
    BY DEF ParseFile
  <2> QED
    BY <2>1 DEF ParseObject
<1> QED
  BY <1>1, <1>2 DEF Outcome, Return, Raise

\* Which parses have been left by an exception is noted.
LEMMA LeftBrokenOutcome ==
  ASSUME NEW heap, NEW done, Outcome(heap, done), NEW o
  PROVE  /\ Outcome(heap, LeftBroken(done, o))
         /\ LeftBroken(done, o).raised = done.raised
         /\ LeftBroken(done, o).value = done.value
<1>1. CASE done.raised # Nothing
  <2> DEFINE after == [done.heap EXCEPT !.broken = @ \cup {o}]
  <2>1. done = [heap |-> done.heap, raised |-> done.raised, value |-> done.value]
    BY DEF Outcome
  <2>2. LeftBroken(done, o) = [heap |-> after, raised |-> done.raised, value |-> done.value]
    BY <1>1, <2>1 DEF LeftBroken
  <2>3. done.heap = [objs |-> done.heap.objs, refs |-> done.heap.refs, broken |-> done.heap.broken]
    BY DEF Outcome, Kept, HeapOK
  <2>4. after.objs = done.heap.objs /\ after.refs = done.heap.refs
        /\ after = [objs |-> after.objs, refs |-> after.refs, broken |-> after.broken]
    BY <2>3
  <2>6. done.heap.broken \subseteq after.broken
    BY <2>3
  <2> HIDE DEF after
  <2>5. HeapOK(after) /\ Extends(heap, after)
    BY <2>4, <2>6 DEF Outcome, HeapOK, Kept, Extends
  <2> QED
    BY <2>2, <2>5 DEF Kept, Outcome
<1>2. CASE done.raised = Nothing
  BY <1>2 DEF LeftBroken
<1> QED
  BY <1>1, <1>2

LEMMA ConfirmedOutcome ==
  ASSUME NEW heap, NEW done, Outcome(heap, done), NEW o
  PROVE  /\ Outcome(heap, Confirmed(done, o))
         /\ Confirmed(done, o).heap = done.heap
         /\ Confirmed(done, o).raised = Nothing =>
               Confirmed(done, o) = done /\ ~done.heap.objs[o].error
<1>1. CASE done.raised = Nothing /\ done.heap.objs[o].error
  <2>1. Confirmed(done, o) = Raise(done.heap, "ParsingError")
    BY <1>1 DEF Confirmed, Then
  <2>2. Outcome(heap, Raise(done.heap, "ParsingError"))
    BY RaiseOutcome DEF Outcome
  <2>3. "ParsingError" # Nothing
    BY DEF Nothing
  <2> QED
    BY <2>1, <2>2, <2>3, Raised
<1>2. CASE done.raised = Nothing /\ ~done.heap.objs[o].error
  BY <1>2 DEF Confirmed, Then
<1>3. CASE done.raised # Nothing
  BY <1>3 DEF Confirmed, Then
<1> QED
  BY <1>1, <1>2, <1>3

CheckedFile(heap, o) == Checked(heap, o, ParseObject)

LEMMA CheckedFileOutcome ==
  ASSUME dir \in Directories, NEW heap, HeapOK(heap), NEW o, IsObject(heap, o)
  PROVE  Outcome(heap, CheckedFile(heap, o))
<1>1. CASE heap.objs[o].parsed
  <2>1. CheckedFile(heap, o) = Return(heap, <<>>)
    BY <1>1 DEF CheckedFile, Checked
  <2> QED
    BY <2>1, KeptItself, ReturnOutcome
<1>2. CASE ~heap.objs[o].parsed
  <2> DEFINE marked == With(heap, o, "parsed", TRUE)
             done == ParseObject(marked, o)
  <2>1. CheckedFile(heap, o) = LeftBroken(done, o)
    BY <1>2 DEF CheckedFile, Checked
  <2>2. Kept(heap, marked)
    BY MarkKeeps
  <2> HIDE DEF marked
  <2>3. HeapOK(marked) /\ IsObject(marked, o)
    BY <2>2, StillThere DEF Kept
  <2>4. Outcome(marked, done)
    BY <2>3, ParseObjectOutcome
  <2> HIDE DEF done
  <2>5. Outcome(heap, done)
    BY <2>2, <2>4, OutcomeOn
  <2> QED
    BY <2>1, <2>5, LeftBrokenOutcome
<1> QED
  BY <1>1, <1>2

LEMMA AddToIndexOutcome ==
  ASSUME NEW heap, HeapOK(heap), NEW more \in Seq(0 .. Len(heap.objs))
  PROVE  Outcome(heap, AddToIndex(heap, more))
<1> DEFINE n == Len(heap.objs)
           object == heap.objs[1]
           all == object.members \o more
<1>1. n \in Nat /\ IsObject(heap, 1)
  BY DEF HeapOK, ObjectsOK, IsObject
<1>2. ObjectOK(n, object)
  BY <1>1, Known1
<1>3. all \in Seq(0 .. n)
  BY <1>2 DEF ObjectOK
<1>4. ObjectOK(n, [object EXCEPT !["members"] = all])
  <2> HIDE DEF all, object, n
  <2> QED
    BY <1>1, <1>2, <1>3 DEF ObjectOK, Fields
<1>5. "members" \in Fields \ {"cls", "refid", "name", "given", "what"}
  BY DEF Fields
<1>6. AddToIndex(heap, more) = Return(With(heap, 1, "members", all), <<>>)
  BY DEF AddToIndex
<1> HIDE DEF all
<1>7. Kept(heap, With(heap, 1, "members", all))
  BY <1>1, <1>4, <1>5, WithKeeps
<1> QED
  BY <1>6, <1>7, ReturnOutcome

LEMMA ParseCompoundOutcome ==
  ASSUME dir \in Directories, NEW start, HeapOK(start), NEW done, Outcome(start, done),
         NEW mem, mem.name \in Seq(STRING)
  PROVE  Outcome(start, ParseCompound(done, mem))
<1> DEFINE made == convert_mem(done.heap, mem)
           heap == made.heap
           o == made.value
           read == Confirmed(CheckedFile(heap, o), o)
<1>1. CASE done.raised # Nothing
  BY <1>1 DEF ParseCompound, Then
<1>2. CASE done.raised = Nothing
  <2>1. HeapOK(done.heap) /\ Kept(start, done.heap)
    BY OutcomeHeap
  <2>2. Kept(done.heap, heap) /\ made.raised = Nothing /\ o \in 0 .. Len(heap.objs)
    BY <2>1, convert_memKeeps
  <2>3. ParseCompound(done, mem) =
          IF o = 0 THEN Raise(heap, "StandardError")
          ELSE IF mem.kind # "file" THEN AddToIndex(heap, <<o>>)
          ELSE IF ~mem.header THEN Return(heap, <<>>)
          ELSE Then(read, LAMBDA h, nothing : AddToIndex(h, h.objs[o].members \o <<o>>))
    BY <1>2, <2>2 DEF ParseCompound, Then, CheckedFile
  <2> HIDE DEF made
  <2>4. Kept(start, heap) /\ HeapOK(heap)
    BY <2>1, <2>2, KeptOn DEF Kept
  <2>5. CASE o = 0
    BY <2>3, <2>4, <2>5, RaiseOutcome
  <2>6. CASE o # 0 /\ mem.kind # "file"
    <3>1. <<o>> \in Seq(0 .. Len(heap.objs))
      BY <2>2
    <3>2. Outcome(heap, AddToIndex(heap, <<o>>))
      BY <2>4, <3>1, AddToIndexOutcome
    <3> QED
      BY <2>3, <2>4, <2>6, <3>2, OutcomeOn
  <2>7. CASE o # 0 /\ mem.kind = "file" /\ ~mem.header
    BY <2>3, <2>4, <2>7, ReturnOutcome
  <2>8. CASE o # 0 /\ mem.kind = "file" /\ mem.header
    <3>1. IsObject(heap, o)
      BY <2>2, <2>4, <2>8 DEF IsObject, HeapOK, ObjectsOK
    <3>2. Outcome(heap, CheckedFile(heap, o))
      BY <2>4, <3>1, CheckedFileOutcome
    <3>3. Outcome(heap, read)
      BY <3>2, ConfirmedOutcome
    <3> DEFINE h == read.heap
    <3>4. ParseCompound(done, mem) =
            IF read.raised # Nothing THEN read ELSE AddToIndex(h, h.objs[o].members \o <<o>>)
      BY <2>3, <2>8 DEF Then
    <3> HIDE DEF read
    <3>5. HeapOK(h) /\ IsObject(h, o)
      BY <2>4, <3>1, <3>3, OutcomeHeap, StillThere
    <3>6. h.objs[o].members \o <<o>> \in Seq(0 .. Len(h.objs))
      <4>1. ObjectOK(Len(h.objs), h.objs[o])
        BY <3>5, Known1
      <4>2. o \in 0 .. Len(h.objs)
        BY <3>5 DEF IsObject, HeapOK, ObjectsOK
      <4> HIDE DEF h
      <4> QED
        BY <4>1, <4>2 DEF ObjectOK
    <3>7. Outcome(h, AddToIndex(h, h.objs[o].members \o <<o>>))
      BY <3>5, <3>6, AddToIndexOutcome
    <3>8. Outcome(heap, AddToIndex(h, h.objs[o].members \o <<o>>))
      BY <2>4, <3>3, <3>7, OutcomeOn, OutcomeHeap
    <3>9. Outcome(heap, ParseCompound(done, mem))
      BY <3>3, <3>4, <3>8
    <3> QED
      BY <2>4, <3>9, OutcomeOn
  <2> QED
    BY <2>5, <2>6, <2>7, <2>8
<1> QED
  BY <1>1, <1>2

LoopOutcome(of, start, seq, i, done) == Outcome(start.heap, done)

CompoundTurn(of, done, mem) == ParseCompound(done, mem)

CompoundLoop == INSTANCE FoldSteps WITH Turn <- CompoundTurn, Holds <- LoopOutcome

LEMMA ParseIndexOutcome ==
  ASSUME dir \in Directories, NEW heap, HeapOK(heap)
  PROVE  Outcome(heap, ParseIndex(heap))
<1> DEFINE start == Return(heap, <<>>)
           index == dir.index
           n == Len(index)
<1>1. index \in Seq(Compounds)
  BY DirectoriesAssumption
<1>2. n \in Nat /\ DOMAIN index = 1 .. n
  BY <1>1, LenProperties
<1>3. ParseIndex(heap) = CompoundLoop!Loop(0, start, index)
  BY DEF ParseIndex, CompoundLoop!Loop, CompoundTurn, FoldLeft, MapThenFoldSet, Max, CompoundLoop!Last
<1>4. start.heap = heap /\ Outcome(heap, start)
  BY KeptItself, ReturnOutcome, Returned
<1> HIDE DEF start
<1>5. ASSUME NEW i \in 1 .. n, NEW done, LoopOutcome(0, start, index, i - 1, done)
      PROVE  LoopOutcome(0, start, index, i, CompoundTurn(0, done, index[i]))
  <2>1. index[i] \in Compounds
    BY <1>1, <1>2, ElementAt
  <2>2. index[i].name \in Seq(STRING)
    BY <2>1 DEF Compounds, Names
  <2>3. Outcome(heap, done)
    BY <1>4, <1>5 DEF LoopOutcome
  <2>4. Outcome(heap, ParseCompound(done, index[i]))
    BY <2>2, <2>3, ParseCompoundOutcome
  <2> QED
    BY <1>4, <2>4 DEF LoopOutcome, CompoundTurn
<1>6. LoopOutcome(0, start, index, 0, start)
  BY <1>4 DEF LoopOutcome
<1>7. LoopOutcome(0, start, index, n, CompoundLoop!Loop(0, start, index))
  <2> HIDE DEF n, index
  <2> QED
    BY <1>2, <1>5, <1>6, LeastNumber, CompoundLoop!LoopKeeps
<1> QED
  BY <1>3, <1>4, <1>7 DEF LoopOutcome

LEMMA check_parsedOutcome ==
  ASSUME dir \in Directories, NEW heap, HeapOK(heap), NEW o, IsObject(heap, o)
  PROVE  Outcome(heap, check_parsed(heap, o))
<1>1. CASE heap.objs[o].parsed
  <2>1. check_parsed(heap, o) = Return(heap, <<>>)
    BY <1>1 DEF check_parsed, Checked
  <2> QED
    BY <2>1, KeptItself, ReturnOutcome
<1>2. CASE ~heap.objs[o].parsed
  <2> DEFINE marked == With(heap, o, "parsed", TRUE)
             done == IF o = 1 THEN ParseIndex(marked) ELSE ParseObject(marked, o)
  <2>1. check_parsed(heap, o) = LeftBroken(done, o)
    BY <1>2 DEF check_parsed, Checked
  <2>2. Kept(heap, marked)
    BY MarkKeeps
  <2> HIDE DEF marked
  <2>3. HeapOK(marked) /\ IsObject(marked, o)
    BY <2>2, StillThere DEF Kept
  <2>4. Outcome(marked, done)
    BY <2>3, ParseObjectOutcome, ParseIndexOutcome
  <2> HIDE DEF done
  <2>5. Outcome(heap, done)
    BY <2>2, <2>4, OutcomeOn
  <2> QED
    BY <2>1, <2>5, LeftBrokenOutcome
<1> QED
  BY <1>1, <1>2

LEMMA confirm_no_errorOutcome ==
  ASSUME dir \in Directories, NEW heap, HeapOK(heap), NEW o, IsObject(heap, o)
  PROVE  Outcome(heap, confirm_no_error(heap, o))
BY check_parsedOutcome, ConfirmedOutcome DEF confirm_no_error

LEMMA errorOutcome ==
  ASSUME dir \in Directories, NEW heap, HeapOK(heap), NEW o, IsObject(heap, o)
  PROVE  Outcome(heap, error(heap, o))
<1> DEFINE read == check_parsed(heap, o)
<1>1. Outcome(heap, read)
  BY check_parsedOutcome
<1>2. error(heap, o) = IF read.raised # Nothing THEN read ELSE Return(read.heap, read.heap.objs[o].error)
  BY DEF error, Then
<1> HIDE DEF read
<1>3. Outcome(heap, Return(read.heap, read.heap.objs[o].error))
  BY <1>1, OutcomeHeap, ReturnOutcome
<1> QED
  BY <1>1, <1>2, <1>3

LEMMA membersOutcome ==
  ASSUME dir \in Directories, NEW heap, HeapOK(heap), NEW o, IsObject(heap, o)
  PROVE  Outcome(heap, members(heap, o))
<1> DEFINE read == confirm_no_error(heap, o)
<1>1. Outcome(heap, read)
  BY confirm_no_errorOutcome
<1>2. members(heap, o) = IF read.raised # Nothing THEN read ELSE Return(read.heap, read.heap.objs[o].members)
  BY DEF members, Then
<1> HIDE DEF read
<1>3. Outcome(heap, Return(read.heap, read.heap.objs[o].members))
  BY <1>1, OutcomeHeap, ReturnOutcome
<1> QED
  BY <1>1, <1>2, <1>3

\* A name that is returned is one of the index or of a file.
LEMMA nameOutcome ==
  ASSUME dir \in Directories, NEW heap, HeapOK(heap), NEW o, IsObject(heap, o)
  PROVE  Outcome(heap, name(heap, o)) /\ (name(heap, o).raised = Nothing => name(heap, o).value \in Seq(STRING))
<1>1. CASE heap.objs[o].given
  <2>1. name(heap, o) = Return(heap, heap.objs[o].name)
    BY <1>1 DEF name
  <2>2. heap.objs[o].name \in Seq(STRING)
    BY <1>1, Known1 DEF ObjectOK
  <2> QED
    BY <2>1, <2>2, KeptItself, ReturnOutcome, Returned
<1>2. CASE ~heap.objs[o].given
  <2> DEFINE read == check_parsed(heap, o)
  <2>1. Outcome(heap, read)
    BY check_parsedOutcome
  <2>2. name(heap, o) = IF read.raised # Nothing THEN read ELSE Raise(read.heap, "AttributeError")
    BY <1>2 DEF name, Then
  <2> HIDE DEF read
  <2>3. Outcome(heap, Raise(read.heap, "AttributeError"))
    BY <2>1, OutcomeHeap, RaiseOutcome
  <2>4. Raise(read.heap, "AttributeError").raised # Nothing
    BY Raised DEF Nothing
  <2> QED
    BY <2>1, <2>2, <2>3, <2>4
<1> QED
  BY <1>1, <1>2

-----------------------------------------------------------------------------
(***************************************************************************)
(* The categories, and the names in them: what is common to all.           *)
(***************************************************************************)
\* what is listed are objects; convert_mem's None is only among all members
Lowest(cat) == IF cat = "None" THEN 0 ELSE 1
Listing(cat, heap, done) ==
  /\ Outcome(heap, done)
  /\ done.raised = Nothing => done.value \in Seq(Lowest(cat) .. Len(done.heap.objs))

NamesOf(heap, done) ==
  /\ Outcome(heap, done)
  /\ done.raised = Nothing => DictionaryOK(Len(done.heap.objs), done.value)

OneObject(heap, done) ==
  /\ Outcome(heap, done)
  /\ done.raised = Nothing => IsObject(done.heap, done.value)

LEMMA ListingReturned ==
  ASSUME NEW heap, NEW after, Kept(heap, after), NEW cat, NEW value, value \in Seq(Lowest(cat) .. Len(after.objs))
  PROVE  Listing(cat, heap, Return(after, value))
BY ReturnOutcome, Returned DEF Listing

\* what a turn has selected, by what was answered
Selected(done, mem, asked) ==
  IF asked.raised # Nothing THEN asked
  ELSE Return(asked.heap, IF asked.value THEN Append(done.value, mem) ELSE done.value)

LEMMA SelectTurn ==
  ASSUME NEW cat, cat # "None", NEW heap, HeapOK(heap), NEW done, Listing(cat, heap, done), done.raised = Nothing,
         NEW mem \in 0 .. Len(heap.objs),
         NEW asked, Outcome(done.heap, asked), asked.raised = Nothing => (asked.value => mem # 0)
  PROVE  Listing(cat, heap, Selected(done, mem, asked))
<1>1. HeapOK(done.heap) /\ Kept(heap, done.heap)
  BY OutcomeHeap DEF Listing
<1>2. Outcome(heap, asked) /\ HeapOK(asked.heap) /\ Kept(heap, asked.heap)
  BY <1>1, OutcomeOn, OutcomeHeap
<1>3. CASE asked.raised # Nothing
  BY <1>2, <1>3 DEF Listing, Selected
<1>4. CASE asked.raised = Nothing
  <2> DEFINE value == IF asked.value THEN Append(done.value, mem) ELSE done.value
             n == Len(asked.heap.objs)
  <2>1. n \in Nat /\ Len(done.heap.objs) \in Nat /\ Len(done.heap.objs) <= n
    BY <1>1, <1>2, OutcomeHeap DEF HeapOK, ObjectsOK, Kept, Extends
  <2>2. done.value \in Seq(1 .. n)
    <3>1. done.value \in Seq(1 .. Len(done.heap.objs))
      BY DEF Listing, Lowest
    <3>2. 1 .. Len(done.heap.objs) \subseteq 1 .. n
      BY <2>1
    <3> HIDE DEF n
    <3> QED
      BY <3>1, <3>2, SeqWider
  <2>3. mem \in 0 .. n
    BY <1>2, StillThere
  <2>4. value \in Seq(1 .. n)
    <3>1. CASE asked.value
      <4>1. mem # 0
        BY <1>4, <3>1
      <4>2. mem \in 1 .. n
        BY <2>1, <2>3, <4>1
      <4>3. value = Append(done.value, mem)
        BY <3>1
      <4> HIDE DEF n, value
      <4> QED
        BY <2>2, <4>2, <4>3
    <3>2. CASE ~asked.value
      BY <2>2, <3>2
    <3> QED
      BY <3>1, <3>2
  <2> HIDE DEF value
  <2>5. Outcome(heap, Return(asked.heap, value)) /\ Return(asked.heap, value).raised = Nothing
        /\ Return(asked.heap, value).value = value /\ Return(asked.heap, value).heap = asked.heap
    BY <1>2, ReturnOutcome, Returned
  <2>6. Listing(cat, heap, Return(asked.heap, value))
    BY <2>4, <2>5 DEF Listing, Lowest
  <2> QED
    BY <1>4, <2>6 DEF value, Selected
<1> QED
  BY <1>3, <1>4

\* what is kept of a category
KeepCategory(heap, o, cat, found) == [heap EXCEPT !.objs[o].inCategory = Put(@, KeptFor(cat), found)]

LEMMA CategoryKept ==
  ASSUME NEW heap, HeapOK(heap), NEW o, IsObject(heap, o), NEW cat, NEW found \in Seq(1 .. Len(heap.objs))
  PROVE  /\ Kept(heap, KeepCategory(heap, o, cat, found))
         /\ Len(KeepCategory(heap, o, cat, found).objs) = Len(heap.objs)
<1> DEFINE object == heap.objs[o]
           all == Put(object.inCategory, KeptFor(cat), found)
<1>1. ObjectOK(Len(heap.objs), object)
  BY Known1
<1>2. \A c \in DOMAIN all : all[c] \in Seq(1 .. Len(heap.objs))
  BY <1>1 DEF ObjectOK, Put
<1> HIDE DEF all
<1>3. ObjectOK(Len(heap.objs), [object EXCEPT !["inCategory"] = all])
  <2> HIDE DEF object
  <2> QED
    BY <1>1, <1>2 DEF ObjectOK, Fields
<1>4. "inCategory" \in Fields \ {"cls", "refid", "name", "given", "what"}
  BY DEF Fields
<1>5. /\ Kept(heap, With(heap, o, "inCategory", all))
      /\ Len(With(heap, o, "inCategory", all).objs) = Len(heap.objs)
  BY <1>3, <1>4, WithKeeps
<1>6. KeepCategory(heap, o, cat, found) = With(heap, o, "inCategory", all)
  BY DEF KeepCategory, With, all
<1> QED
  BY <1>5, <1>6

\* in_category, when it has been asked of each member
Categorised(o, cat, read, asked) ==
  IF read.raised # Nothing THEN read
  ELSE IF cat = "None" THEN Return(read.heap, read.heap.objs[o].members)
  ELSE IF KeptFor(cat) \in DOMAIN read.heap.objs[o].inCategory
  THEN Return(read.heap, read.heap.objs[o].inCategory[KeptFor(cat)])
  ELSE IF asked.raised # Nothing THEN asked
  ELSE Return(KeepCategory(asked.heap, o, cat, asked.value), asked.value)

LEMMA CategoryOutcome ==
  ASSUME NEW cat, NEW heap, HeapOK(heap), NEW o, IsObject(heap, o),
         NEW read, Outcome(heap, read), NEW asked,
         read.raised = Nothing /\ cat # "None" => Listing(cat, read.heap, asked)
  PROVE  Listing(cat, heap, Categorised(o, cat, read, asked))
<1> DEFINE h == read.heap
           n == Len(h.objs)
<1>1. HeapOK(h) /\ Kept(heap, h) /\ IsObject(h, o)
  BY OutcomeHeap, StillThere
<1>2. ObjectOK(n, h.objs[o])
  BY <1>1, Known1
<1>3. CASE read.raised # Nothing
  BY <1>3 DEF Listing, Categorised
<1>4. CASE read.raised = Nothing /\ cat = "None"
  <2>1. h.objs[o].members \in Seq(Lowest(cat) .. n)
    BY <1>2, <1>4 DEF ObjectOK, Lowest
  <2>2. Listing(cat, heap, Return(h, h.objs[o].members))
    BY <1>1, <2>1, ListingReturned
  <2> QED
    BY <1>4, <2>2 DEF Categorised
<1>5. CASE read.raised = Nothing /\ cat # "None" /\ KeptFor(cat) \in DOMAIN h.objs[o].inCategory
  <2>1. h.objs[o].inCategory[KeptFor(cat)] \in Seq(Lowest(cat) .. n)
    BY <1>2, <1>5 DEF ObjectOK, Lowest
  <2>2. Listing(cat, heap, Return(h, h.objs[o].inCategory[KeptFor(cat)]))
    BY <1>1, <2>1, ListingReturned
  <2> QED
    BY <1>5, <2>2 DEF Categorised
<1>6. CASE read.raised = Nothing /\ cat # "None" /\ KeptFor(cat) \notin DOMAIN h.objs[o].inCategory
  <2>1. Listing(cat, h, asked)
    BY <1>6
  <2>2. Outcome(heap, asked) /\ HeapOK(asked.heap) /\ Kept(heap, asked.heap) /\ IsObject(asked.heap, o)
    BY <1>1, <2>1, OutcomeOn, OutcomeHeap, StillThere DEF Listing
  <2>3. CASE asked.raised # Nothing
    BY <1>6, <2>2, <2>3 DEF Listing, Categorised
  <2>4. CASE asked.raised = Nothing
    <3> DEFINE kept == KeepCategory(asked.heap, o, cat, asked.value)
    <3>1. asked.value \in Seq(1 .. Len(asked.heap.objs))
      BY <1>6, <2>1, <2>4 DEF Listing, Lowest
    <3>2. Kept(asked.heap, kept)
      BY <2>2, <3>1, CategoryKept
    <3>3. Kept(heap, kept)
      BY <2>2, <3>2, KeptOn
    <3> HIDE DEF kept, Categorised
    <3>4. Len(asked.heap.objs) \in Nat /\ Len(kept.objs) \in Nat /\ Len(asked.heap.objs) <= Len(kept.objs)
      BY <2>2, <3>2 DEF HeapOK, ObjectsOK, Kept, Extends
    <3>5. Lowest(cat) = 1
      BY <1>6 DEF Lowest
    <3>6. asked.value \in Seq(1 .. Len(kept.objs))
      BY <3>1, <3>4, RangeWider
    <3>7. Listing(cat, heap, Return(kept, asked.value))
      BY <3>3, <3>5, <3>6, ListingReturned
    <3> QED
      BY <1>6, <2>4, <3>7 DEF kept, Categorised
  <2> QED
    BY <2>3, <2>4
<1> QED
  BY <1>3, <1>4, <1>5, <1>6

\* what one category has found by its turns
LoopListing(cat, start, seq, i, done) == Listing(cat, start.heap, done)

InstanceLoop == INSTANCE FoldSteps WITH Turn <- SelectInstance, Holds <- LoopListing

LEMMA SelectInstanceListing ==
  ASSUME NEW cat, cat # "None", NEW heap, HeapOK(heap), NEW done, Listing(cat, heap, done),
         NEW mem \in 0 .. Len(heap.objs)
  PROVE  Listing(cat, heap, SelectInstance(cat, done, mem))
<1>1. CASE done.raised # Nothing
  BY <1>1 DEF SelectInstance, Select, Then
<1>2. CASE done.raised = Nothing
  <2> DEFINE asked == isinstance(done.heap, cat, mem)
  <2>1. SelectInstance(cat, done, mem) = Selected(done, mem, asked)
    BY <1>2 DEF SelectInstance, Select, Then, Selected
  <2>2. HeapOK(done.heap)
    BY OutcomeHeap DEF Listing
  <2>3. Outcome(done.heap, asked) /\ (asked.value => mem # 0)
    BY <2>2, KeptItself, ReturnOutcome, Returned DEF isinstance
  <2> HIDE DEF asked
  <2> QED
    BY <1>2, <2>1, <2>3, SelectTurn
<1> QED
  BY <1>1, <1>2

SelectInstances(cat, heap, mems) ==
  FoldLeft(LAMBDA done, mem : SelectInstance(cat, done, mem), Return(heap, <<>>), mems)

LEMMA InstanceLoopListing ==
  ASSUME NEW cat, cat # "None", NEW heap, HeapOK(heap), NEW mems \in Seq(0 .. Len(heap.objs))
  PROVE  Listing(cat, heap, SelectInstances(cat, heap, mems))
<1> DEFINE start == Return(heap, <<>>)
           n == Len(mems)
           m == Len(heap.objs)
<1>1. n \in Nat /\ DOMAIN mems = 1 .. n
  OBVIOUS
<1>2. start.heap = heap /\ Listing(cat, heap, start)
  <2>1. <<>> \in Seq(Lowest(cat) .. m)
    OBVIOUS
  <2> HIDE DEF m
  <2> QED
    BY <2>1, KeptItself, ListingReturned, Returned DEF m
<1>3. SelectInstances(cat, heap, mems) = InstanceLoop!Loop(cat, start, mems)
  BY DEF SelectInstances, InstanceLoop!Loop, FoldLeft, MapThenFoldSet, Max, InstanceLoop!Last
<1> HIDE DEF start
<1>4. ASSUME NEW i \in 1 .. n, NEW done, LoopListing(cat, start, mems, i - 1, done)
      PROVE  LoopListing(cat, start, mems, i, SelectInstance(cat, done, mems[i]))
  <2>1. mems[i] \in 0 .. m
    BY <1>1
  <2> HIDE DEF n
  <2> QED
    BY <1>2, <1>4, <2>1, SelectInstanceListing DEF LoopListing
<1>5. LoopListing(cat, start, mems, 0, start)
  BY <1>2 DEF LoopListing
<1>6. LoopListing(cat, start, mems, n, InstanceLoop!Loop(cat, start, mems))
  <2> HIDE DEF n
  <2> QED
    BY <1>1, <1>4, <1>5, LeastNumber, InstanceLoop!LoopKeeps
<1> QED
  BY <1>2, <1>3, <1>6 DEF LoopListing, start

LEMMA of_classListing ==
  ASSUME dir \in Directories, NEW heap, HeapOK(heap), NEW o, IsObject(heap, o), NEW cat
  PROVE  Listing(cat, heap, of_class(heap, o, cat))
<1> DEFINE read == confirm_no_error(heap, o)
           asked == SelectInstances(cat, read.heap, read.heap.objs[o].members)
<1>1. of_class(heap, o, cat) = Categorised(o, cat, read, asked)
  BY DEF of_class, Category, Then, KeepCategory, Categorised, SelectInstances
<1>2. Outcome(heap, read)
  BY confirm_no_errorOutcome
<1>3. ASSUME cat # "None"
      PROVE  Listing(cat, read.heap, asked)
  <2> HIDE DEF read
  <2>1. HeapOK(read.heap) /\ IsObject(read.heap, o)
    BY <1>2, OutcomeHeap, StillThere
  <2>2. read.heap.objs[o].members \in Seq(0 .. Len(read.heap.objs))
    BY <2>1, Known1 DEF ObjectOK
  <2> QED
    BY <1>3, <2>1, <2>2, InstanceLoopListing
<1> HIDE DEF read, asked
<1> QED
  BY <1>1, <1>2, <1>3, CategoryOutcome

-----------------------------------------------------------------------------
LEMMA NamesReturned ==
  ASSUME NEW heap, NEW after, Kept(heap, after), NEW value, DictionaryOK(Len(after.objs), value)
  PROVE  NamesOf(heap, Return(after, value))
BY ReturnOutcome, Returned DEF NamesOf

LEMMA DictionaryWider ==
  ASSUME NEW n \in Nat, NEW m \in Nat, n <= m, NEW dict, DictionaryOK(n, dict)
  PROVE  DictionaryOK(m, dict)
BY DEF DictionaryOK

LEMMA DictionaryPut ==
  ASSUME NEW n, NEW dict, DictionaryOK(n, dict), NEW path, NEW value, value \in {Duplicate} \cup 1 .. n
  PROVE  DictionaryOK(n, Put(dict, path, value))
BY DEF DictionaryOK, Put

\* the objects after are no fewer
LEMMA NoFewer ==
  ASSUME NEW a, NEW b, HeapOK(a), Kept(a, b)
  PROVE  Len(a.objs) \in Nat /\ Len(b.objs) \in Nat /\ Len(a.objs) <= Len(b.objs)
BY DEF Kept, Extends, HeapOK, ObjectsOK

LEMMA EnterNames ==
  ASSUME dir \in Directories, NEW cat, NEW heap, HeapOK(heap), NEW done, NamesOf(heap, done),
         NEW mem \in 0 .. Len(heap.objs)
  PROVE  NamesOf(heap, Enter(cat, done, mem))
<1>1. CASE done.raised # Nothing
  BY <1>1 DEF Enter, Then
<1>2. CASE done.raised = Nothing /\ mem = 0
  <2>1. Enter(cat, done, mem) = Raise(done.heap, "AttributeError")
    BY <1>2, Raised DEF Enter, Then, Nothing
  <2>2. Raise(done.heap, "AttributeError").raised # Nothing
    BY Raised DEF Nothing
  <2>3. Outcome(heap, Raise(done.heap, "AttributeError"))
    BY RaiseOutcome DEF NamesOf, Outcome
  <2> QED
    BY <2>1, <2>2, <2>3 DEF NamesOf
<1>3. CASE done.raised = Nothing /\ mem # 0
  <2> DEFINE named == name(done.heap, mem)
             value == IF named.value \in DOMAIN done.value THEN Duplicate ELSE mem
             dict == Put(done.value, named.value, value)
  <2>1. Enter(cat, done, mem) = IF named.raised # Nothing THEN named ELSE Return(named.heap, dict)
    BY <1>3 DEF Enter, Then
  <2>2. HeapOK(done.heap) /\ Kept(heap, done.heap)
    BY OutcomeHeap DEF NamesOf
  <2>3. mem \in 1 .. Len(heap.objs)
    BY <1>3 DEF HeapOK, ObjectsOK
  <2>4. IsObject(done.heap, mem)
    BY <2>2, <2>3, StillThere DEF IsObject
  <2>5. Outcome(done.heap, named)
    BY <2>2, <2>4, nameOutcome
  <2>6. Outcome(heap, named) /\ HeapOK(named.heap) /\ Kept(heap, named.heap) /\ IsObject(named.heap, mem)
        /\ Kept(done.heap, named.heap)
    BY <2>2, <2>4, <2>5, OutcomeOn, OutcomeHeap, StillThere
  <2> HIDE DEF named
  <2>7. DictionaryOK(Len(named.heap.objs), done.value)
    <3>1. DictionaryOK(Len(done.heap.objs), done.value)
      BY <1>3 DEF NamesOf
    <3> QED
      BY <2>2, <2>6, <3>1, NoFewer, DictionaryWider
  <2>8. value \in {Duplicate} \cup 1 .. Len(named.heap.objs)
    BY <2>6 DEF IsObject
  <2> HIDE DEF value
  <2>9. DictionaryOK(Len(named.heap.objs), dict)
    BY <2>7, <2>8, DictionaryPut
  <2> HIDE DEF dict
  <2>10. NamesOf(heap, Return(named.heap, dict))
    BY <2>6, <2>9, NamesReturned
  <2> QED
    BY <2>1, <2>6, <2>10 DEF NamesOf
<1> QED
  BY <1>1, <1>2, <1>3

LoopNames(cat, start, seq, i, done) == NamesOf(start.heap, done)

EnterLoop == INSTANCE FoldSteps WITH Turn <- Enter, Holds <- LoopNames

EnterAll(cat, heap, found) == FoldLeft(LAMBDA done, mem : Enter(cat, done, mem), Return(heap, <<>>), found)

LEMMA EnterAllNames ==
  ASSUME dir \in Directories, NEW cat, NEW heap, HeapOK(heap), NEW found \in Seq(0 .. Len(heap.objs))
  PROVE  NamesOf(heap, EnterAll(cat, heap, found))
<1> DEFINE start == Return(heap, <<>>)
           n == Len(found)
           m == Len(heap.objs)
<1>1. n \in Nat /\ DOMAIN found = 1 .. n
  OBVIOUS
<1>2. start.heap = heap /\ NamesOf(heap, start)
  <2>1. DictionaryOK(m, <<>>)
    BY DEF DictionaryOK
  <2> HIDE DEF m
  <2> QED
    BY <2>1, KeptItself, NamesReturned, Returned DEF m
<1>3. EnterAll(cat, heap, found) = EnterLoop!Loop(cat, start, found)
  BY DEF EnterAll, EnterLoop!Loop, FoldLeft, MapThenFoldSet, Max, EnterLoop!Last
<1> HIDE DEF start
<1>4. ASSUME NEW i \in 1 .. n, NEW done, LoopNames(cat, start, found, i - 1, done)
      PROVE  LoopNames(cat, start, found, i, Enter(cat, done, found[i]))
  <2>1. found[i] \in 0 .. m
    BY <1>1
  <2> HIDE DEF n
  <2> QED
    BY <1>2, <1>4, <2>1, EnterNames DEF LoopNames
<1>5. LoopNames(cat, start, found, 0, start)
  BY <1>2 DEF LoopNames
<1>6. LoopNames(cat, start, found, n, EnterLoop!Loop(cat, start, found))
  <2> HIDE DEF n
  <2> QED
    BY <1>1, <1>4, <1>5, LeastNumber, EnterLoop!LoopKeeps
<1> QED
  BY <1>2, <1>3, <1>6 DEF LoopNames, start

\* what is kept of the names in a category
KeepNames(heap, o, cat, dict) == [heap EXCEPT !.objs[o].dict = Put(@, cat, dict)]

LEMMA NamesKept ==
  ASSUME NEW heap, HeapOK(heap), NEW o, IsObject(heap, o), NEW cat, NEW dict, DictionaryOK(Len(heap.objs), dict)
  PROVE  /\ Kept(heap, KeepNames(heap, o, cat, dict))
         /\ Len(KeepNames(heap, o, cat, dict).objs) = Len(heap.objs)
<1> DEFINE object == heap.objs[o]
           all == Put(object.dict, cat, dict)
<1>1. ObjectOK(Len(heap.objs), object)
  BY Known1
<1>2. \A c \in DOMAIN all : DictionaryOK(Len(heap.objs), all[c])
  BY <1>1 DEF ObjectOK, Put
<1> HIDE DEF all
<1>3. ObjectOK(Len(heap.objs), [object EXCEPT !["dict"] = all])
  <2> HIDE DEF object
  <2> QED
    BY <1>1, <1>2 DEF ObjectOK, Fields
<1>4. "dict" \in Fields \ {"cls", "refid", "name", "given", "what"}
  BY DEF Fields
<1>5. Kept(heap, With(heap, o, "dict", all)) /\ Len(With(heap, o, "dict", all).objs) = Len(heap.objs)
  BY <1>3, <1>4, WithKeeps
<1>6. KeepNames(heap, o, cat, dict) = With(heap, o, "dict", all)
  BY DEF KeepNames, With, all
<1> QED
  BY <1>5, <1>6

\* _get_dict_members, when the members of the category have been entered
NamesGiven(o, cat, read, selected, entered) ==
  IF read.raised # Nothing THEN read
  ELSE IF cat \in DOMAIN read.heap.objs[o].dict THEN Return(read.heap, read.heap.objs[o].dict[cat])
  ELSE IF selected.raised # Nothing THEN selected
  ELSE IF entered.raised # Nothing THEN entered
  ELSE Return(KeepNames(entered.heap, o, cat, entered.value), entered.value)

LEMMA DictionaryOutcome ==
  ASSUME dir \in Directories, NEW cat, NEW heap, HeapOK(heap), NEW o, IsObject(heap, o),
         NEW read, Outcome(heap, read),
         NEW selected, Listing(cat, read.heap, selected),
         NEW entered, entered = EnterAll(cat, selected.heap, selected.value)
  PROVE  NamesOf(heap, NamesGiven(o, cat, read, selected, entered))
<1>1. HeapOK(read.heap) /\ Kept(heap, read.heap) /\ IsObject(read.heap, o)
  BY OutcomeHeap, StillThere
<1>2. CASE read.raised # Nothing
  BY <1>2 DEF NamesGiven, NamesOf
<1>3. CASE read.raised = Nothing /\ cat \in DOMAIN read.heap.objs[o].dict
  <2>1. DictionaryOK(Len(read.heap.objs), read.heap.objs[o].dict[cat])
    BY <1>1, <1>3, Known1 DEF ObjectOK
  <2>2. NamesOf(heap, Return(read.heap, read.heap.objs[o].dict[cat]))
    BY <1>1, <2>1, NamesReturned
  <2> QED
    BY <1>3, <2>2 DEF NamesGiven
<1>4. CASE read.raised = Nothing /\ cat \notin DOMAIN read.heap.objs[o].dict
  <2>1. Outcome(heap, selected) /\ HeapOK(selected.heap) /\ Kept(heap, selected.heap) /\ IsObject(selected.heap, o)
    BY <1>1, OutcomeOn, OutcomeHeap, StillThere DEF Listing
  <2>2. CASE selected.raised # Nothing
    BY <1>4, <2>1, <2>2 DEF NamesGiven, NamesOf
  <2>3. CASE selected.raised = Nothing
    <3>1. selected.value \in Seq(0 .. Len(selected.heap.objs))
      <4> DEFINE n == Len(selected.heap.objs)
      <4>1. selected.value \in Seq(Lowest(cat) .. n)
        BY <2>3 DEF Listing
      <4>2. Lowest(cat) .. n \subseteq 0 .. n
        BY DEF Lowest
      <4> HIDE DEF n
      <4>3. selected.value \in Seq(0 .. n)
        BY <4>1, <4>2, SeqWider
      <4> QED
        BY <4>3 DEF n
    <3>2. NamesOf(selected.heap, entered)
      BY <2>1, <3>1, EnterAllNames
    <3>3. Outcome(heap, entered) /\ HeapOK(entered.heap) /\ Kept(heap, entered.heap) /\ IsObject(entered.heap, o)
      BY <2>1, <3>2, OutcomeOn, OutcomeHeap, StillThere DEF NamesOf
    <3>4. CASE entered.raised # Nothing
      BY <1>4, <2>3, <3>3, <3>4 DEF NamesGiven, NamesOf
    <3>5. CASE entered.raised = Nothing
      <4> DEFINE kept == KeepNames(entered.heap, o, cat, entered.value)
      <4>1. DictionaryOK(Len(entered.heap.objs), entered.value)
        BY <3>2, <3>5 DEF NamesOf
      <4>2. Kept(entered.heap, kept) /\ Len(kept.objs) = Len(entered.heap.objs)
        BY <3>3, <4>1, NamesKept
      <4>3. NamesGiven(o, cat, read, selected, entered) = Return(kept, entered.value)
        BY <1>4, <2>3, <3>5 DEF NamesGiven
      <4> HIDE DEF kept
      <4>4. Kept(heap, kept)
        BY <3>3, <4>2, KeptOn
      <4>5. DictionaryOK(Len(kept.objs), entered.value)
        BY <4>1, <4>2
      <4> QED
        BY <4>3, <4>4, <4>5, NamesReturned
    <3> QED
      BY <3>4, <3>5
  <2> QED
    BY <2>2, <2>3
<1> QED
  BY <1>2, <1>3, <1>4

\* get_member, one name of the path, when it has been looked up
OneFound(first, read, dict) ==
  IF read.raised # Nothing THEN read
  ELSE IF dict.raised # Nothing THEN dict
  ELSE IF <<first>> \notin DOMAIN dict.value THEN Raise(dict.heap, "NoSuchMember")
  ELSE IF dict.value[<<first>>] = Duplicate THEN Raise(dict.heap, "Duplicate")
  ELSE Return(dict.heap, dict.value[<<first>>])

LEMMA LookUpOutcome ==
  ASSUME NEW heap, HeapOK(heap), NEW read, Outcome(heap, read),
         NEW dict, NamesOf(read.heap, dict), NEW first
  PROVE  OneObject(heap, OneFound(first, read, dict))
<1>1. HeapOK(read.heap) /\ Kept(heap, read.heap)
  BY OutcomeHeap
<1>2. Outcome(heap, dict) /\ Kept(heap, dict.heap)
  BY <1>1, OutcomeOn, OutcomeHeap DEF NamesOf
<1>3. \A what \in {"NoSuchMember", "Duplicate"} :
         OneObject(heap, Raise(dict.heap, what))
  <2> SUFFICES ASSUME NEW what \in {"NoSuchMember", "Duplicate"} PROVE OneObject(heap, Raise(dict.heap, what))
    OBVIOUS
  <2>1. Outcome(heap, Raise(dict.heap, what)) /\ Raise(dict.heap, what).raised # Nothing
    BY <1>2, RaiseOutcome, Raised DEF Nothing
  <2> QED
    BY <2>1 DEF OneObject
<1>4. ASSUME dict.raised = Nothing, <<first>> \in DOMAIN dict.value, dict.value[<<first>>] # Duplicate
      PROVE  OneObject(heap, Return(dict.heap, dict.value[<<first>>]))
  <2>1. IsObject(dict.heap, dict.value[<<first>>])
    BY <1>4 DEF NamesOf, DictionaryOK, IsObject
  <2> QED
    BY <1>2, <2>1, ReturnOutcome, Returned DEF OneObject
<1>5. CASE read.raised # Nothing
  BY <1>5 DEF OneFound, OneObject
<1>6. CASE read.raised = Nothing /\ dict.raised # Nothing
  BY <1>2, <1>6 DEF OneFound, OneObject
<1>7. CASE read.raised = Nothing /\ dict.raised = Nothing
  BY <1>3, <1>4, <1>7 DEF OneFound
<1> QED
  BY <1>5, <1>6, <1>7

-----------------------------------------------------------------------------
(***************************************************************************)
(* The categories that are classes of objects.                             *)
(***************************************************************************)
LoopObject(cat, start, seq, i, done) == OneObject(start.heap, done)

LEMMA dict_of_classNames ==
  ASSUME dir \in Directories, NEW heap, HeapOK(heap), NEW o, IsObject(heap, o), NEW cat
  PROVE  NamesOf(heap, dict_of_class(heap, o, cat))
<1> DEFINE read == confirm_no_error(heap, o)
           selected == of_class(read.heap, o, cat)
           entered == EnterAll(cat, selected.heap, selected.value)
<1>1. dict_of_class(heap, o, cat) = NamesGiven(o, cat, read, selected, entered)
  BY DEF dict_of_class, Dictionary, Then, NamesGiven, KeepNames, EnterAll
<1>2. Outcome(heap, read)
  BY confirm_no_errorOutcome
<1> HIDE DEF read
<1>3. Listing(cat, read.heap, selected)
  BY <1>2, OutcomeHeap, StillThere, of_classListing
<1> HIDE DEF selected
<1> QED
  BY <1>1, <1>2, <1>3, DictionaryOutcome

ClassLookUps == INSTANCE FoldSteps WITH Turn <- LookUpOfClass, Holds <- LoopObject

LEMMA LookUpOfClassObject ==
  ASSUME dir \in Directories, NEW cat, NEW heap, HeapOK(heap), NEW done, OneObject(heap, done), NEW first
  PROVE  OneObject(heap, LookUpOfClass(cat, done, first))
<1>1. CASE done.raised # Nothing
  BY <1>1 DEF LookUpOfClass, Then
<1>2. CASE done.raised = Nothing
  <2> DEFINE h == done.heap
             o == done.value
             read == confirm_no_error(h, o)
             dict == dict_of_class(read.heap, o, cat)
  <2>1. LookUpOfClass(cat, done, first) = OneFound(first, read, dict)
    BY <1>2 DEF LookUpOfClass, LookUp, Then, OneFound
  <2>2. HeapOK(h) /\ Kept(heap, h) /\ IsObject(h, o)
    BY <1>2, OutcomeHeap DEF OneObject
  <2>3. Outcome(h, read)
    BY <2>2, confirm_no_errorOutcome
  <2>4. Outcome(heap, read) /\ HeapOK(read.heap) /\ IsObject(read.heap, o)
    BY <2>2, <2>3, OutcomeOn, OutcomeHeap, StillThere
  <2> HIDE DEF read
  <2>5. NamesOf(read.heap, dict)
    BY <2>4, dict_of_classNames
  <2> HIDE DEF dict
  <2> QED
    BY <2>1, <2>4, <2>5, LookUpOutcome
<1> QED
  BY <1>1, <1>2

LookUpAllOfClass(heap, o, path, cat) ==
  FoldLeft(LAMBDA done, first : LookUpOfClass(cat, done, first), Return(heap, o), path)

LEMMA LookUpAllOfClassObject ==
  ASSUME dir \in Directories, NEW heap, HeapOK(heap), NEW o, IsObject(heap, o), NEW cat,
         NEW n \in Nat, NEW path, DOMAIN path = 1 .. n
  PROVE  OneObject(heap, LookUpAllOfClass(heap, o, path, cat))
<1> DEFINE start == Return(heap, o)
<1>1. start.heap = heap /\ OneObject(heap, start)
  BY KeptItself, ReturnOutcome, Returned DEF OneObject
<1>2. LookUpAllOfClass(heap, o, path, cat) = ClassLookUps!Loop(cat, start, path)
  BY DEF LookUpAllOfClass, ClassLookUps!Loop, FoldLeft, MapThenFoldSet, Max, ClassLookUps!Last
<1> HIDE DEF start
<1>3. ASSUME NEW i \in 1 .. n, NEW done, LoopObject(cat, start, path, i - 1, done)
      PROVE  LoopObject(cat, start, path, i, LookUpOfClass(cat, done, path[i]))
  BY <1>1, <1>3, LookUpOfClassObject DEF LoopObject
<1>4. LoopObject(cat, start, path, 0, start)
  BY <1>1 DEF LoopObject
<1>5. LoopObject(cat, start, path, n, ClassLookUps!Loop(cat, start, path))
  BY <1>3, <1>4, LeastNumber, ClassLookUps!LoopKeeps
<1> QED
  BY <1>1, <1>2, <1>5 DEF LoopObject

LEMMA has_memberOutcome ==
  ASSUME dir \in Directories, NEW heap, HeapOK(heap), NEW o, IsObject(heap, o), NEW cat,
         NEW n \in Nat, NEW path, DOMAIN path = 1 .. n
  PROVE  Outcome(heap, has_member(heap, o, path, cat))
<1> DEFINE done == LookUpAllOfClass(heap, o, path, cat)
<1>1. OneObject(heap, done)
  BY LookUpAllOfClassObject
<1>2. has_member(heap, o, path, cat) \in {Return(done.heap, TRUE), Return(done.heap, FALSE), done}
  BY DEF has_member, LookUpAllOfClass
<1> HIDE DEF done
<1>3. Outcome(heap, done) /\ Kept(heap, done.heap)
  BY <1>1, OutcomeHeap DEF OneObject
<1>4. Outcome(heap, Return(done.heap, TRUE)) /\ Outcome(heap, Return(done.heap, FALSE))
  BY <1>3, ReturnOutcome
<1> QED
  BY <1>2, <1>3, <1>4

LEMMA make_nameDomain ==
  ASSUME NEW path \in Seq(STRING)
  PROVE  /\ Len(path) \in Nat /\ DOMAIN make_name(path) = 1 .. Len(path)
         /\ DOMAIN HeaderName(path) = 1 .. Len(path)
BY DEF make_name, HeaderName

LEMMA includesOutcome ==
  ASSUME dir \in Directories, NEW heap, HeapOK(heap), NEW cat, NEW mem \in 0 .. Len(heap.objs)
  PROVE  Outcome(heap, includes(heap, cat, mem)) /\ (includes(heap, cat, mem).raised = Nothing =>
            (includes(heap, cat, mem).value => mem # 0))
<1>1. \A value : Outcome(heap, Return(heap, value)) /\ Return(heap, value).value = value
  BY KeptItself, ReturnOutcome, Returned
<1>2. CASE cat # "Block"
  BY <1>1, <1>2 DEF includes, isinstance
<1>3. CASE cat = "Block" /\ (mem = 0 \/ heap.objs[mem].cls # "DoxyClass")
  BY <1>1, <1>3 DEF includes
<1>4. CASE cat = "Block" /\ mem # 0 /\ heap.objs[mem].cls = "DoxyClass"
  <2> DEFINE bad == error(heap, mem)
             named == name(bad.heap, mem)
             has == has_member(named.heap, mem, make_name(named.value), "DoxyFriend")
  <2>1. includes(heap, cat, mem) =
          IF bad.raised # Nothing THEN bad
          ELSE IF bad.value THEN Return(bad.heap, FALSE)
          ELSE IF named.raised # Nothing THEN named
          ELSE has
    BY <1>4 DEF includes, Then
  <2>2. IsObject(heap, mem)
    BY <1>4 DEF IsObject, HeapOK, ObjectsOK
  <2>3. Outcome(heap, bad)
    BY <2>2, errorOutcome
  <2> HIDE DEF bad
  <2>4. HeapOK(bad.heap) /\ Kept(heap, bad.heap) /\ IsObject(bad.heap, mem)
    BY <2>2, <2>3, OutcomeHeap, StillThere
  <2>5. Outcome(heap, Return(bad.heap, FALSE))
    BY <2>4, ReturnOutcome
  <2>6. Outcome(bad.heap, named) /\ (named.raised = Nothing => named.value \in Seq(STRING))
    BY <2>4, nameOutcome
  <2> HIDE DEF named
  <2>7. Outcome(heap, named) /\ HeapOK(named.heap) /\ Kept(heap, named.heap) /\ IsObject(named.heap, mem)
    BY <2>2, <2>4, <2>6, OutcomeOn, OutcomeHeap, StillThere
  <2>8. ASSUME named.raised = Nothing
        PROVE  Outcome(heap, has)
    <3>1. Len(named.value) \in Nat /\ DOMAIN make_name(named.value) = 1 .. Len(named.value)
      BY <2>6, <2>8, make_nameDomain
    <3>2. Outcome(named.heap, has)
      BY <2>7, <3>1, has_memberOutcome
    <3> HIDE DEF has
    <3> QED
      BY <2>7, <3>2, OutcomeOn
  <2> HIDE DEF has
  <2> QED
    BY <1>4, <2>1, <2>3, <2>5, <2>7, <2>8
<1> QED
  BY <1>2, <1>3, <1>4

(***************************************************************************)
(* All categories.                                                         *)
(***************************************************************************)
IncludedLoop == INSTANCE FoldSteps WITH Turn <- SelectIncluded, Holds <- LoopListing

LEMMA SelectIncludedListing ==
  ASSUME dir \in Directories, NEW cat, cat # "None", NEW heap, HeapOK(heap), NEW done, Listing(cat, heap, done),
         NEW mem \in 0 .. Len(heap.objs)
  PROVE  Listing(cat, heap, SelectIncluded(cat, done, mem))
<1>1. CASE done.raised # Nothing
  BY <1>1 DEF SelectIncluded, Select, Then
<1>2. CASE done.raised = Nothing
  <2> DEFINE asked == includes(done.heap, cat, mem)
  <2>1. SelectIncluded(cat, done, mem) = Selected(done, mem, asked)
    BY <1>2 DEF SelectIncluded, Select, Then, Selected
  <2>2. HeapOK(done.heap) /\ mem \in 0 .. Len(done.heap.objs)
    BY OutcomeHeap, StillThere DEF Listing
  <2>3. Outcome(done.heap, asked) /\ (asked.raised = Nothing => (asked.value => mem # 0))
    BY <2>2, includesOutcome
  <2> HIDE DEF asked
  <2> QED
    BY <1>2, <2>1, <2>3, SelectTurn
<1> QED
  BY <1>1, <1>2

SelectAllIncluded(cat, heap, mems) ==
  FoldLeft(LAMBDA done, mem : SelectIncluded(cat, done, mem), Return(heap, <<>>), mems)

LEMMA IncludedLoopListing ==
  ASSUME dir \in Directories, NEW cat, cat # "None", NEW heap, HeapOK(heap), NEW mems \in Seq(0 .. Len(heap.objs))
  PROVE  Listing(cat, heap, SelectAllIncluded(cat, heap, mems))
<1> DEFINE start == Return(heap, <<>>)
           n == Len(mems)
           m == Len(heap.objs)
<1>1. n \in Nat /\ DOMAIN mems = 1 .. n
  OBVIOUS
<1>2. start.heap = heap /\ Listing(cat, heap, start)
  <2>1. <<>> \in Seq(Lowest(cat) .. m)
    OBVIOUS
  <2> HIDE DEF m
  <2> QED
    BY <2>1, KeptItself, ListingReturned, Returned DEF m
<1>3. SelectAllIncluded(cat, heap, mems) = IncludedLoop!Loop(cat, start, mems)
  BY DEF SelectAllIncluded, IncludedLoop!Loop, FoldLeft, MapThenFoldSet, Max, IncludedLoop!Last
<1> HIDE DEF start
<1>4. ASSUME NEW i \in 1 .. n, NEW done, LoopListing(cat, start, mems, i - 1, done)
      PROVE  LoopListing(cat, start, mems, i, SelectIncluded(cat, done, mems[i]))
  <2>1. mems[i] \in 0 .. m
    BY <1>1
  <2> HIDE DEF n
  <2> QED
    BY <1>2, <1>4, <2>1, SelectIncludedListing DEF LoopListing
<1>5. LoopListing(cat, start, mems, 0, start)
  BY <1>2 DEF LoopListing
<1>6. LoopListing(cat, start, mems, n, IncludedLoop!Loop(cat, start, mems))
  <2> HIDE DEF n
  <2> QED
    BY <1>1, <1>4, <1>5, LeastNumber, IncludedLoop!LoopKeeps
<1> QED
  BY <1>2, <1>3, <1>6 DEF LoopListing, start

LEMMA in_categoryListing ==
  ASSUME dir \in Directories, NEW heap, HeapOK(heap), NEW o, IsObject(heap, o), NEW cat
  PROVE  Listing(cat, heap, in_category(heap, o, cat))
<1> DEFINE read == confirm_no_error(heap, o)
           asked == SelectAllIncluded(cat, read.heap, read.heap.objs[o].members)
<1>1. in_category(heap, o, cat) = Categorised(o, cat, read, asked)
  BY DEF in_category, Category, Then, KeepCategory, Categorised, SelectAllIncluded
<1>2. Outcome(heap, read)
  BY confirm_no_errorOutcome
<1>3. ASSUME cat # "None"
      PROVE  Listing(cat, read.heap, asked)
  <2> HIDE DEF read
  <2>1. HeapOK(read.heap) /\ IsObject(read.heap, o)
    BY <1>2, OutcomeHeap, StillThere
  <2>2. read.heap.objs[o].members \in Seq(0 .. Len(read.heap.objs))
    BY <2>1, Known1 DEF ObjectOK
  <2> QED
    BY <1>3, <2>1, <2>2, IncludedLoopListing
<1> HIDE DEF read, asked
<1> QED
  BY <1>1, <1>2, <1>3, CategoryOutcome

LEMMA _get_dict_membersNames ==
  ASSUME dir \in Directories, NEW heap, HeapOK(heap), NEW o, IsObject(heap, o), NEW cat
  PROVE  NamesOf(heap, _get_dict_members(heap, o, cat))
<1> DEFINE read == confirm_no_error(heap, o)
           selected == in_category(read.heap, o, cat)
           entered == EnterAll(cat, selected.heap, selected.value)
<1>1. _get_dict_members(heap, o, cat) = NamesGiven(o, cat, read, selected, entered)
  BY DEF _get_dict_members, Dictionary, Then, NamesGiven, KeepNames, EnterAll
<1>2. Outcome(heap, read)
  BY confirm_no_errorOutcome
<1> HIDE DEF read
<1>3. Listing(cat, read.heap, selected)
  BY <1>2, OutcomeHeap, StillThere, in_categoryListing
<1> HIDE DEF selected
<1> QED
  BY <1>1, <1>2, <1>3, DictionaryOutcome

LookUps == INSTANCE FoldSteps WITH Turn <- LookUpFirst, Holds <- LoopObject

LEMMA LookUpFirstObject ==
  ASSUME dir \in Directories, NEW cat, NEW heap, HeapOK(heap), NEW done, OneObject(heap, done), NEW first
  PROVE  OneObject(heap, LookUpFirst(cat, done, first))
<1>1. CASE done.raised # Nothing
  BY <1>1 DEF LookUpFirst, Then
<1>2. CASE done.raised = Nothing
  <2> DEFINE h == done.heap
             o == done.value
             read == confirm_no_error(h, o)
             dict == _get_dict_members(read.heap, o, cat)
  <2>1. LookUpFirst(cat, done, first) = OneFound(first, read, dict)
    BY <1>2 DEF LookUpFirst, LookUp, Then, OneFound
  <2>2. HeapOK(h) /\ Kept(heap, h) /\ IsObject(h, o)
    BY <1>2, OutcomeHeap DEF OneObject
  <2>3. Outcome(h, read)
    BY <2>2, confirm_no_errorOutcome
  <2>4. Outcome(heap, read) /\ HeapOK(read.heap) /\ IsObject(read.heap, o)
    BY <2>2, <2>3, OutcomeOn, OutcomeHeap, StillThere
  <2> HIDE DEF read
  <2>5. NamesOf(read.heap, dict)
    BY <2>4, _get_dict_membersNames
  <2> HIDE DEF dict
  <2> QED
    BY <2>1, <2>4, <2>5, LookUpOutcome
<1> QED
  BY <1>1, <1>2

LEMMA get_memberObject ==
  ASSUME dir \in Directories, NEW heap, HeapOK(heap), NEW o, IsObject(heap, o), NEW cat,
         NEW n \in Nat, NEW path, DOMAIN path = 1 .. n
  PROVE  OneObject(heap, get_member(heap, o, path, cat))
<1> DEFINE start == Return(heap, o)
<1>1. start.heap = heap /\ OneObject(heap, start)
  BY KeptItself, ReturnOutcome, Returned DEF OneObject
<1>2. get_member(heap, o, path, cat) = LookUps!Loop(cat, start, path)
  BY DEF get_member, LookUps!Loop, FoldLeft, MapThenFoldSet, Max, LookUps!Last
<1> HIDE DEF start
<1>3. ASSUME NEW i \in 1 .. n, NEW done, LoopObject(cat, start, path, i - 1, done)
      PROVE  LoopObject(cat, start, path, i, LookUpFirst(cat, done, path[i]))
  BY <1>1, <1>3, LookUpFirstObject DEF LoopObject
<1>4. LoopObject(cat, start, path, 0, start)
  BY <1>1 DEF LoopObject
<1>5. LoopObject(cat, start, path, n, LookUps!Loop(cat, start, path))
  BY <1>3, <1>4, LeastNumber, LookUps!LoopKeeps
<1> QED
  BY <1>1, <1>2, <1>5 DEF LoopObject

-----------------------------------------------------------------------------
(***************************************************************************)
(* The script.                                                             *)
(***************************************************************************)
IsList(heap, seq) == seq \in Seq(1 .. Len(heap.objs))

\* what its loops still have to write, and the blocks, are objects
WOK ==
  /\ dir \in Directories
  /\ HeapOK(Heap)
  /\ IsList(Heap, todo)
  /\ IsList(Heap, blocks)

LEMMA ListStays ==
  ASSUME NEW a, NEW b, HeapOK(a), Kept(a, b), NEW seq, IsList(a, seq)
  PROVE  IsList(b, seq)
BY NoFewer, RangeWider DEF IsList

LEMMA ListTail ==
  ASSUME NEW heap, NEW seq, IsList(heap, seq), seq # <<>>
  PROVE  IsList(heap, Tail(seq)) /\ IsObject(heap, Head(seq))
<1> DEFINE S == 1 .. Len(heap.objs)
<1>1. seq \in Seq(S)
  BY DEF IsList
<1> HIDE DEF S
<1>2. Tail(seq) \in Seq(S) /\ Head(seq) \in S
  BY <1>1
<1> QED
  BY <1>2 DEF IsList, IsObject, S

\* What a category lists are objects, whether it has raised or not.
LEMMA ListingIsList ==
  ASSUME NEW cat, cat # "None", NEW heap, NEW done, Listing(cat, heap, done)
  PROVE  IsList(done.heap, done.value)
<1>1. CASE done.raised = Nothing
  BY <1>1 DEF Listing, IsList, Lowest
<1>2. CASE done.raised # Nothing
  <2>1. done.value = <<>>
    BY <1>2 DEF Listing, Outcome
  <2> QED
    BY <2>1 DEF IsList
<1> QED
  BY <1>1, <1>2

LEMMA NameIsPath ==
  ASSUME NEW heap, HeapOK(heap), NEW o, IsObject(heap, o)
  PROVE  heap.objs[o].name \in Seq(STRING)
BY Known1 DEF ObjectOK

LEMMA make_block_entryOutcome ==
  ASSUME dir \in Directories, NEW heap, HeapOK(heap), NEW block, IsObject(heap, block)
  PROVE  Outcome(heap, make_block_entry(heap, block))
<1> DEFINE path == heap.objs[block].name
           n == Len(path)
           make == get_member(heap, 1, make_name(path), "DoxyFunction")
           header == get_member(make.heap, 1, HeaderName(path), "DoxyFile")
           filed == header.raised = Nothing /\ combine_descriptions(header.heap, header.value)
           sure == IF SureOf(header) THEN Return(header.heap, filed) ELSE header
           asked == in_category(sure.heap, block, "DoxyFunction")
           creator == get_member(asked.heap, block, path, "DoxyFunction")
           entries2 == make_entry(creator.heap, block, "block", \/ combine_descriptions(creator.heap, block)
                                                                \/ combine_descriptions(creator.heap, make.value)
                                                                \/ sure.value)
                       \o make_entry(creator.heap, make.value, "make", TRUE)
<1>1. make_block_entry(heap, block) =
        IF make.raised # Nothing THEN make
        ELSE IF sure.raised # Nothing THEN sure
        ELSE IF asked.raised # Nothing THEN asked
        ELSE IF creator.raised # Nothing THEN creator
        ELSE Return(creator.heap, entries2)
  BY DEF make_block_entry, Then
<1>2. n \in Nat /\ DOMAIN path = 1 .. n /\ DOMAIN make_name(path) = 1 .. n /\ DOMAIN HeaderName(path) = 1 .. n
  <2>1. path \in Seq(STRING)
    BY NameIsPath
  <2> HIDE DEF path
  <2> QED
    BY <2>1, make_nameDomain
<1>3. IsObject(heap, 1)
  BY DEF IsObject, HeapOK, ObjectsOK
<1> HIDE DEF n, path
<1>4. Outcome(heap, make)
  BY <1>2, <1>3, get_memberObject DEF OneObject
<1> HIDE DEF make
<1>5. HeapOK(make.heap) /\ Kept(heap, make.heap) /\ IsObject(make.heap, 1)
  BY <1>3, <1>4, OutcomeHeap, StillThere
<1>6. Outcome(make.heap, header)
  BY <1>2, <1>5, get_memberObject DEF OneObject
<1> HIDE DEF header
<1>7. Outcome(heap, header) /\ Kept(heap, header.heap)
  BY <1>5, <1>6, OutcomeOn, OutcomeHeap
<1> HIDE DEF filed
<1>8. Outcome(heap, sure)
  BY <1>7, ReturnOutcome
<1> HIDE DEF sure
<1>9. HeapOK(sure.heap) /\ Kept(heap, sure.heap) /\ IsObject(sure.heap, block)
  BY <1>8, OutcomeHeap, StillThere
<1>10. Outcome(sure.heap, asked)
  BY <1>9, in_categoryListing DEF Listing
<1> HIDE DEF asked
<1>11. Outcome(heap, asked) /\ HeapOK(asked.heap) /\ Kept(heap, asked.heap) /\ IsObject(asked.heap, block)
  BY <1>9, <1>10, OutcomeOn, OutcomeHeap, StillThere
<1>12. Outcome(asked.heap, creator)
  BY <1>2, <1>11, get_memberObject DEF OneObject
<1> HIDE DEF creator
<1>13. Outcome(heap, creator) /\ Kept(heap, creator.heap)
  BY <1>11, <1>12, OutcomeOn, OutcomeHeap
<1> HIDE DEF entries2
<1>14. Outcome(heap, Return(creator.heap, entries2))
  BY <1>13, ReturnOutcome
<1> QED
  BY <1>1, <1>4, <1>8, <1>11, <1>13, <1>14

LEMMA make_class_entryOutcome ==
  ASSUME dir \in Directories, NEW heap, HeapOK(heap), NEW klass, IsObject(heap, klass)
  PROVE  Outcome(heap, make_class_entry(heap, klass))
<1> DEFINE read == confirm_no_error(heap, klass)
           done == in_category(read.heap, klass, "DoxyFunction")
           entry == make_entry(done.heap, klass, "class", combine_descriptions(done.heap, klass))
<1>1. make_class_entry(heap, klass) =
        IF read.raised # Nothing THEN read ELSE IF done.raised # Nothing THEN done ELSE Return(done.heap, entry)
  BY DEF make_class_entry, Then
<1>2. Outcome(heap, read)
  BY confirm_no_errorOutcome
<1> HIDE DEF read
<1>3. HeapOK(read.heap) /\ Kept(heap, read.heap) /\ IsObject(read.heap, klass)
  BY <1>2, OutcomeHeap, StillThere
<1>4. Outcome(read.heap, done)
  BY <1>3, in_categoryListing DEF Listing
<1> HIDE DEF done
<1>5. Outcome(heap, done) /\ Kept(heap, done.heap)
  BY <1>3, <1>4, OutcomeOn, OutcomeHeap
<1> HIDE DEF entry
<1>6. Outcome(heap, Return(done.heap, entry))
  BY <1>5, ReturnOutcome
<1> QED
  BY <1>1, <1>2, <1>5, <1>6

LEMMA make_func_entryOutcome ==
  ASSUME dir \in Directories, NEW heap, HeapOK(heap), NEW func, IsObject(heap, func)
  PROVE  Outcome(heap, make_func_entry(heap, func))
<1> DEFINE done == confirm_no_error(heap, func)
           entry == make_entry(done.heap, func, "function", TRUE)
<1>1. make_func_entry(heap, func) = IF done.raised # Nothing THEN done ELSE Return(done.heap, entry)
  BY DEF make_func_entry, Then
<1>2. Outcome(heap, done)
  BY confirm_no_errorOutcome
<1> HIDE DEF done, entry
<1>3. Outcome(heap, Return(done.heap, entry))
  BY <1>2, OutcomeHeap, ReturnOutcome
<1> QED
  BY <1>1, <1>2, <1>3

\* the objects of a list that are not written yet
KeepUnwritten(names, found, o) == IF ~Written(o, names) THEN Append(found, o) ELSE found
LoopList(names, start, seq, i, found) == \A n : seq \in Seq(1 .. n) => found \in Seq(1 .. n)
UnwrittenLoop == INSTANCE FoldSteps WITH Turn <- KeepUnwritten, Holds <- LoopList

Unwritten(seq, names) == Those(seq, LAMBDA o : ~Written(o, names))

LEMMA UnwrittenIsList ==
  ASSUME NEW heap, HeapOK(heap), NEW seq, IsList(heap, seq), NEW names
  PROVE  IsList(heap, Unwritten(seq, names))
<1> DEFINE n == Len(seq)
<1>1. n \in Nat /\ DOMAIN seq = 1 .. n
  BY DEF IsList
<1>2. Unwritten(seq, names) = UnwrittenLoop!Loop(names, <<>>, seq)
  BY DEF Unwritten, Those, KeepUnwritten, UnwrittenLoop!Loop, FoldLeft, MapThenFoldSet, Max, UnwrittenLoop!Last
<1>3. ASSUME NEW i \in 1 .. n, NEW found, LoopList(names, <<>>, seq, i - 1, found)
      PROVE  LoopList(names, <<>>, seq, i, KeepUnwritten(names, found, seq[i]))
  <2>1. ASSUME NEW m, seq \in Seq(1 .. m)
        PROVE  KeepUnwritten(names, found, seq[i]) \in Seq(1 .. m)
    <3> DEFINE S == 1 .. m
    <3>1. found \in Seq(S)
      BY <1>3, <2>1 DEF LoopList
    <3>2. seq[i] \in S
      BY <1>1, <2>1, ElementAt
    <3> HIDE DEF S
    <3>3. Append(found, seq[i]) \in Seq(S)
      BY <3>1, <3>2
    <3> QED
      BY <3>1, <3>3 DEF KeepUnwritten, S
  <2> QED
    BY <2>1 DEF LoopList
<1>4. LoopList(names, <<>>, seq, 0, <<>>)
  BY DEF LoopList
<1>5. LoopList(names, <<>>, seq, n, UnwrittenLoop!Loop(names, <<>>, seq))
  <2> HIDE DEF n
  <2> QED
    BY <1>1, <1>3, <1>4, LeastNumber, UnwrittenLoop!LoopKeeps
<1> QED
  BY <1>2, <1>5 DEF LoopList, IsList

-----------------------------------------------------------------------------
LEMMA HeapAfter ==
  ASSUME WOK, NEW STATE heap, Kept(Heap, heap), Becomes(heap), dir' = dir
  PROVE  /\ Heap' = heap /\ dir' \in Directories /\ HeapOK(Heap') /\ Kept(Heap, Heap')
         /\ IsList(Heap', todo) /\ IsList(Heap', blocks)
<1>1. HeapOK(heap)
  BY DEF Kept
<1>2. Heap' = heap
  BY <1>1 DEF Heap, Becomes, HeapOK
<1>3. IsList(heap, todo) /\ IsList(heap, blocks)
  BY ListStays DEF WOK
<1> QED
  BY <1>1, <1>2, <1>3 DEF WOK

LEMMA WInitOK == WInit => WOK
<1> SUFFICES ASSUME WInit PROVE WOK
  OBVIOUS
<1> DEFINE object == Object("DoxyIndex", NoRef, <<>>, TRUE, <<"index">>)
<1>1. objs = <<object>> /\ refs = <<>>
  BY DEF WInit, Init
<1>2. ObjectOK(1, object) /\ object.refid = NoRef
  BY DEF ObjectOK, Object, Fields
<1> HIDE DEF object
<1>3. ObjectsOK(<<object>>)
  <2> DEFINE seq == <<object>>
  <2>1. Len(seq) = 1 /\ seq[1] = object /\ seq \in Seq({object})
    OBVIOUS
  <2>2. \A o \in 1 .. 1 : o = 1
    OBVIOUS
  <2> HIDE DEF seq
  <2>3. ObjectsOK(seq)
    BY <1>2, <2>1, <2>2 DEF ObjectsOK
  <2> QED
    BY <2>3 DEF seq
<1>4. RefsOK(<<object>>, <<>>)
  BY <1>2 DEF RefsOK
<1>5. HeapOK(Heap)
  BY <1>1, <1>3, <1>4 DEF HeapOK, Heap
<1> QED
  BY <1>5 DEF WOK, IsList, WInit, Init

\* The objects that a client may hold are objects.
LEMMA KnownAreObjects ==
  ASSUME WOK, NEW o \in Known
  PROVE  IsObject(Heap, o)
<1> DEFINE n == Len(objs)
<1>1. n \in Nat \ {0} /\ DOMAIN objs = 1 .. n /\ Heap.objs = objs
  BY DEF WOK, HeapOK, ObjectsOK, Heap
<1>2. ASSUME NEW p \in DOMAIN objs, o \in Range(objs[p].members), o # 0
      PROVE  o \in 1 .. n
  <2>1. objs[p].members \in Seq(0 .. n)
    BY <1>1, Known1 DEF WOK, IsObject, ObjectOK
  <2>2. o \in 0 .. n
    BY <1>2, <2>1, ElementAt DEF Range
  <2> QED
    BY <1>1, <1>2, <2>2
<1>3. o = 1 \/ \E p \in DOMAIN objs : o \in Range(objs[p].members) /\ o # 0
  BY DEF Known
<1> HIDE DEF n
<1> QED
  BY <1>1, <1>2, <1>3 DEF IsObject, n

LEMMA CallKeeps ==
  ASSUME WOK, Call
  PROVE  \E heap : Kept(Heap, heap) /\ Becomes(heap)
<1>1. PICK o \in Known : Members(o) \/ InCategory(o) \/ GetMember(o) \/ Error(o)
  BY DEF Call
<1>2. HeapOK(Heap) /\ IsObject(Heap, o) /\ dir \in Directories
  BY KnownAreObjects DEF WOK
<1>3. CASE Members(o)
  <2>1. Kept(Heap, members(Heap, o).heap)
    BY <1>2, membersOutcome, OutcomeHeap
  <2> QED
    BY <1>3, <2>1 DEF Members
<1>4. CASE Error(o)
  <2>1. Kept(Heap, error(Heap, o).heap)
    BY <1>2, errorOutcome, OutcomeHeap
  <2> QED
    BY <1>4, <2>1 DEF Error
<1>5. CASE InCategory(o)
  <2>1. PICK cat \in Categories : Becomes(in_category(Heap, o, cat).heap)
    BY <1>5 DEF InCategory
  <2>2. Kept(Heap, in_category(Heap, o, cat).heap)
    BY <1>2, in_categoryListing, OutcomeHeap DEF Listing
  <2> QED
    BY <2>1, <2>2
<1>6. CASE GetMember(o)
  <2>1. PICK path \in Asked, cat \in Categories : Becomes(get_member(Heap, o, path, cat).heap)
    BY <1>6 DEF GetMember
  <2>2. path \in Seq(STRING)
    BY AskedAssumption DEF Names
  <2>3. Len(path) \in Nat /\ DOMAIN path = 1 .. Len(path)
    BY <2>2
  <2>4. OneObject(Heap, get_member(Heap, o, path, cat))
    BY <1>2, <2>3, get_memberObject
  <2>5. Kept(Heap, get_member(Heap, o, path, cat).heap)
    BY <2>4, OutcomeHeap DEF OneObject
  <2> QED
    BY <2>1, <2>5
<1> QED
  BY <1>1, <1>3, <1>4, <1>5, <1>6

\* What an operation of the script leaves.
LEMMA StopsKeeps ==
  ASSUME WOK, NEW STATE done, Outcome(Heap, done), Stops(done)
  PROVE  WOK'
<1>1. Kept(Heap, done.heap)
  BY OutcomeHeap
<1> QED
  BY <1>1, HeapAfter DEF Stops, Does, WOK

LEMMA WriteEntryKeeps ==
  ASSUME WOK, todo # <<>>, NEW STATE done, Outcome(Heap, done), WriteEntry(done)
  PROVE  WOK'
<1>1. CASE Stops(done)
  BY <1>1, StopsKeeps
<1>2. CASE Does(done) /\ todo' = Tail(todo) /\ blocks' = blocks
  <2>1. Kept(Heap, done.heap)
    BY OutcomeHeap
  <2>2. HeapOK(Heap') /\ dir' \in Directories /\ IsList(Heap', todo) /\ IsList(Heap', blocks)
    BY <1>2, <2>1, HeapAfter DEF Does
  <2>3. IsList(Heap', Tail(todo))
    BY <2>2, ListTail
  <2> QED
    BY <1>2, <2>2, <2>3 DEF WOK
<1> QED
  BY <1>1, <1>2 DEF WriteEntry

LEMMA FindBlocksKeeps == ASSUME WOK, FindBlocks PROVE WOK'
<1> DEFINE found == in_category(Heap, 1, "Block")
<1>1. IsObject(Heap, 1) /\ HeapOK(Heap) /\ dir \in Directories
  BY DEF WOK, IsObject, HeapOK, ObjectsOK
<1>2. Listing("Block", Heap, found)
  BY <1>1, in_categoryListing
<1>3. Outcome(Heap, found) /\ Kept(Heap, found.heap)
  BY <1>2, OutcomeHeap DEF Listing
<1>4. IsList(found.heap, found.value)
  BY <1>2, ListingIsList
<1>5. Stops(found) \/ (Does(found) /\ blocks' = found.value /\ todo' = found.value)
  BY DEF FindBlocks
<1> HIDE DEF found
<1>6. CASE Stops(found)
  BY <1>3, <1>6, StopsKeeps
<1>7. CASE Does(found) /\ blocks' = found.value /\ todo' = found.value
  <2>1. Heap' = found.heap /\ HeapOK(Heap') /\ dir' \in Directories
    BY <1>3, <1>7, HeapAfter DEF Does
  <2> QED
    BY <1>4, <1>7, <2>1 DEF WOK
<1> QED
  BY <1>5, <1>6, <1>7

LEMMA NextLoopKeeps ==
  ASSUME WOK, NEW CONSTANT from, NEW CONSTANT to, NEW CONSTANT cat, cat # "None", NEW STATE names,
         NextLoop(from, to, cat, names)
  PROVE  WOK'
<1> DEFINE found == in_category(Heap, 1, cat)
           left == Unwritten(found.value, names)
<1>1. IsObject(Heap, 1) /\ HeapOK(Heap) /\ dir \in Directories
  BY DEF WOK, IsObject, HeapOK, ObjectsOK
<1>2. Listing(cat, Heap, found)
  BY <1>1, in_categoryListing
<1>3. Outcome(Heap, found) /\ Kept(Heap, found.heap) /\ HeapOK(found.heap)
  BY <1>2, OutcomeHeap DEF Listing
<1>4. IsList(found.heap, found.value)
  BY <1>2, ListingIsList
<1>5. Does(found) /\ todo' = left /\ blocks' = blocks
  BY DEF NextLoop, Unwritten
<1> HIDE DEF found
<1>6. IsList(found.heap, left)
  BY <1>3, <1>4, UnwrittenIsList
<1> HIDE DEF left
<1>7. Heap' = found.heap /\ HeapOK(Heap') /\ dir' \in Directories /\ IsList(Heap', blocks)
  BY <1>3, <1>5, HeapAfter DEF Does
<1> QED
  BY <1>5, <1>6, <1>7 DEF WOK

LEMMA WNextOK == WOK /\ [WNext]_wvars => WOK'
<1> SUFFICES ASSUME WOK, [WNext]_wvars PROVE WOK'
  OBVIOUS
<1>1. HeapOK(Heap) /\ dir \in Directories
  BY DEF WOK
<1>2. todo # <<>> => IsObject(Heap, Head(todo))
  BY ListTail DEF WOK
<1>3. CASE Ask
  <2>1. PICK heap : Kept(Heap, heap) /\ Becomes(heap)
    BY <1>3, CallKeeps DEF Ask
  <2>2. HeapOK(Heap') /\ dir' \in Directories /\ IsList(Heap', todo) /\ IsList(Heap', blocks)
    BY <1>3, <2>1, HeapAfter DEF Ask, Call
  <2> QED
    BY <1>3, <2>2 DEF Ask, WOK
<1>4. CASE FindBlocks
  BY <1>4, FindBlocksKeeps
<1>5. CASE BlockEntry
  <2> DEFINE done == make_block_entry(Heap, Head(todo))
  <2>1. todo # <<>> /\ WriteEntry(done)
    BY <1>5 DEF BlockEntry
  <2>2. Outcome(Heap, done)
    BY <1>1, <1>2, <2>1, make_block_entryOutcome
  <2> HIDE DEF done
  <2> QED
    BY <2>1, <2>2, WriteEntryKeeps
<1>6. CASE FunctionEntry
  <2> DEFINE done == make_func_entry(Heap, Head(todo))
  <2>1. todo # <<>> /\ WriteEntry(done)
    BY <1>6 DEF FunctionEntry
  <2>2. Outcome(Heap, done)
    BY <1>1, <1>2, <2>1, make_func_entryOutcome
  <2> HIDE DEF done
  <2> QED
    BY <2>1, <2>2, WriteEntryKeeps
<1>7. CASE ClassEntry
  <2> DEFINE done == make_class_entry(Heap, Head(todo))
  <2>1. todo # <<>> /\ WriteEntry(done)
    BY <1>7 DEF ClassEntry
  <2>2. Outcome(Heap, done)
    BY <1>1, <1>2, <2>1, make_class_entryOutcome
  <2> HIDE DEF done
  <2> QED
    BY <2>1, <2>2, WriteEntryKeeps
<1>8. CASE FindFunctions
  BY <1>8, NextLoopKeeps DEF FindFunctions
<1>9. CASE FindClasses
  BY <1>9, NextLoopKeeps DEF FindClasses
<1>10. CASE WriteFile \/ Done \/ UNCHANGED wvars
  <2>1. Heap' = Heap /\ dir' = dir /\ todo' = todo /\ blocks' = blocks
    BY <1>10 DEF WriteFile, Done, wvars, Heap
  <2> QED
    BY <2>1 DEF WOK
<1> QED
  BY <1>3, <1>4, <1>5, <1>6, <1>7, <1>8, <1>9, <1>10 DEF WNext

LEMMA OneObject1 == WOK => OneObjectPerRefid
<1> SUFFICES ASSUME WOK, NEW o \in DOMAIN objs, NEW p \in DOMAIN objs,
                    objs[o].refid = objs[p].refid, objs[o].refid # NoRef
             PROVE  o = p
  BY DEF OneObjectPerRefid
<1>1. DOMAIN objs = 1 .. Len(objs) /\ RefsOK(objs, refs)
  BY DEF WOK, HeapOK, ObjectsOK, Heap
<1>2. refs[objs[o].refid] = o /\ refs[objs[p].refid] = p
  BY <1>1 DEF RefsOK
<1> QED
  BY <1>2

(***************************************************************************)
(* In any directory, whatever a client has asked and how far the script    *)
(* has got, a compound is one object: from_refid and from_parse_data       *)
(* (base.py) make one only when _refs has none of its refid, and note it.  *)
(* That is kept by every parse, lookup and category, which an exception    *)
(* may leave anywhere, because _refs has exactly the objects with a refid. *)
(***************************************************************************)
THEOREM OneObjectPerRefidHolds == WSpec => []OneObjectPerRefid
<1>1. WSpec => []WOK
  BY WInitOK, WNextOK, PTL DEF WSpec
<1> QED
  BY <1>1, OneObject1, PTL

-----------------------------------------------------------------------------
(***************************************************************************)
(* What the objects have kept is what the files say.                       *)
(***************************************************************************)
Whats(heap, seq) == [i \in DOMAIN seq |-> What(heap, seq[i])]

\* an object has the class, the name and the refid of what it was made from
Placed(d, o, object) ==
  /\ object.given
  /\ object.what # <<>>
  /\ object.what = Index <=> o = 1
  /\ object.cls = KindOf(d, object.what)
  /\ object.name = Description(d, object.what).name
  /\ object.refid # NoRef => object.what = <<object.refid>>
  /\ object.cls \in OfFiles => object.refid # NoRef /\ object.name # <<>>

\* what an object has got from its file
Read(d, heap, object) ==
  /\ object.error \in BOOLEAN
  /\ ~object.parsed => ~object.error /\ object.members = <<>>
  /\ object.parsed => MembersOf(d, object.what) =
        IF object.error THEN Refuse("ParsingError") ELSE Answer(Whats(heap, object.members))

\* the first n of the members have been entered by their names
Entered(d, heap, mems, n, dict) ==
  \A path :
     LET named == {k \in 1 .. n : Description(d, mems[k]).name = path} IN
     /\ path \in DOMAIN dict <=> named # {}
     /\ path \in DOMAIN dict =>
           IF dict[path] = Duplicate THEN \E j, k \in named : j # k
           ELSE \E k \in named : named = {k} /\ What(heap, dict[path]) = mems[k]

NamesTold(d, heap, told, dict) ==
  /\ told.raised = Nothing
  /\ <<>> \notin Range(told.value)
  /\ \E n \in Nat : DOMAIN told.value = 1 .. n /\ Entered(d, heap, told.value, n, dict)

\* the categories and the names it has kept
Lists(d, heap, object) ==
  /\ \A cat \in DOMAIN object.inCategory :
        CategoryOf(d, object.what, cat) = Answer(Whats(heap, object.inCategory[cat]))
  /\ \A cat \in DOMAIN object.dict :
        NamesTold(d, heap, CategoryOf(d, object.what, cat), object.dict[cat])

\* all objects but those of E, which are being parsed
SemBut(d, heap, E) ==
  /\ \A o \in 1 .. Len(heap.objs) : Placed(d, o, heap.objs[o]) /\ Lists(d, heap, heap.objs[o])
  /\ \A o \in 1 .. Len(heap.objs) \ E : Read(d, heap, heap.objs[o])

\* each compound has its object
AllThere(d, heap) == \A mem \in Range(d.index) : mem.refid \in DOMAIN heap.refs

Sem(d, heap) ==
  /\ SemBut(d, heap, {})
  /\ heap.objs[1].parsed => AllThere(d, heap)
  /\ ~heap.objs[1].parsed => Len(heap.objs) = 1 /\ DOMAIN heap.refs = {}

Good(d, heap) == heap.broken = {} => Sem(d, heap)

LEMMA WhatStays ==
  ASSUME NEW a, NEW b, HeapOK(a), Kept(a, b), NEW o \in 0 .. Len(a.objs)
  PROVE  What(b, o) = What(a, o)
BY DEF What, Kept, Extends, SameObject, HeapOK, ObjectsOK

LEMMA WhatsStay ==
  ASSUME NEW a, NEW b, HeapOK(a), Kept(a, b), NEW seq \in Seq(0 .. Len(a.objs))
  PROVE  Whats(b, seq) = Whats(a, seq)
<1>1. \A i \in DOMAIN seq : seq[i] \in 0 .. Len(a.objs)
  BY ElementAt
<1>2. \A i \in DOMAIN seq : What(b, seq[i]) = What(a, seq[i])
  BY <1>1, WhatStays
<1> QED
  BY <1>2 DEF Whats

LEMMA IsFunction == ASSUME NEW S, NEW seq, seq \in Seq(S), NEW n, Len(seq) = n PROVE seq = [i \in 1 .. n |-> seq[i]]
OBVIOUS

LEMMA WhatsAppend ==
  ASSUME NEW heap, NEW S, NEW seq \in Seq(S), NEW x \in S
  PROVE  Whats(heap, Append(seq, x)) = Append(Whats(heap, seq), What(heap, x))
<1> DEFINE T == {What(heap, y) : y \in S}
<1>1. Whats(heap, seq) \in Seq(T) /\ Len(Whats(heap, seq)) = Len(seq)
  BY DEF Whats
<1>2. What(heap, x) \in T
  OBVIOUS
<1> HIDE DEF T
<1>3. Append(seq, x) \in Seq(S) /\ Len(Append(seq, x)) = Len(seq) + 1
      /\ \A i \in 1 .. Len(seq) + 1 : Append(seq, x)[i] = IF i = Len(seq) + 1 THEN x ELSE seq[i]
  OBVIOUS
<1>4. Len(seq) \in Nat /\ DOMAIN seq = 1 .. Len(seq)
  OBVIOUS
<1>5. DOMAIN Whats(heap, Append(seq, x)) = 1 .. Len(seq) + 1
  BY <1>3 DEF Whats
<1>6. Append(Whats(heap, seq), What(heap, x)) \in Seq(T)
      /\ Len(Append(Whats(heap, seq), What(heap, x))) = Len(seq) + 1
  BY <1>1, <1>2
<1>7. \A i \in 1 .. Len(seq) + 1 :
         Whats(heap, Append(seq, x))[i] = Append(Whats(heap, seq), What(heap, x))[i]
  <2> SUFFICES ASSUME NEW i \in 1 .. Len(seq) + 1
               PROVE  Whats(heap, Append(seq, x))[i] = Append(Whats(heap, seq), What(heap, x))[i]
    OBVIOUS
  <2>1. Whats(heap, Append(seq, x))[i] = What(heap, Append(seq, x)[i])
    BY <1>3 DEF Whats
  <2>2. CASE i = Len(seq) + 1
    BY <1>1, <1>2, <1>3, <2>1, <2>2
  <2>3. CASE i # Len(seq) + 1
    <3>1. i \in 1 .. Len(seq)
      BY <1>4, <2>3
    <3>2. Whats(heap, seq)[i] = What(heap, seq[i])
      BY <1>4, <3>1 DEF Whats
    <3> QED
      BY <1>1, <1>2, <1>3, <2>1, <2>3, <3>1, <3>2
  <2> QED
    BY <2>2, <2>3
<1>8. Whats(heap, Append(seq, x)) = [i \in 1 .. Len(seq) + 1 |-> Whats(heap, Append(seq, x))[i]]
  BY <1>3 DEF Whats
<1>9. Append(Whats(heap, seq), What(heap, x)) =
        [i \in 1 .. Len(seq) + 1 |-> Append(Whats(heap, seq), What(heap, x))[i]]
  <2> DEFINE more == Append(Whats(heap, seq), What(heap, x))
  <2> HIDE DEF more
  <2>1. more = [i \in 1 .. Len(seq) + 1 |-> more[i]]
    BY <1>6, IsFunction DEF more
  <2> QED
    BY <2>1 DEF more
<1> QED
  BY <1>7, <1>8, <1>9

LEMMA WhatsConcat ==
  ASSUME NEW heap, NEW S, NEW a \in Seq(S), NEW b \in Seq(S)
  PROVE  Whats(heap, a \o b) = Whats(heap, a) \o Whats(heap, b)
<1> DEFINE T == {What(heap, y) : y \in S}
           u == Whats(heap, a)
           v == Whats(heap, b)
           n == Len(a) + Len(b)
<1>1. u \in Seq(T) /\ Len(u) = Len(a) /\ v \in Seq(T) /\ Len(v) = Len(b)
  BY DEF Whats
<1>2. Len(a) \in Nat /\ Len(b) \in Nat /\ DOMAIN a = 1 .. Len(a) /\ DOMAIN b = 1 .. Len(b)
  OBVIOUS
<1>3. a \o b \in Seq(S) /\ Len(a \o b) = n /\ DOMAIN (a \o b) = 1 .. n
      /\ \A i \in 1 .. n : (a \o b)[i] = IF i <= Len(a) THEN a[i] ELSE b[i - Len(a)]
  OBVIOUS
<1>4. (\A i \in 1 .. Len(a) : u[i] = What(heap, a[i])) /\ (\A i \in 1 .. Len(b) : v[i] = What(heap, b[i]))
  BY <1>2 DEF Whats
<1>5. \A i \in 1 .. n : Whats(heap, a \o b)[i] = What(heap, (a \o b)[i])
  BY <1>3 DEF Whats
<1>6. Whats(heap, a \o b) = [i \in 1 .. n |-> Whats(heap, a \o b)[i]]
  BY <1>3 DEF Whats
<1> HIDE DEF T, u, v
<1>7. u \o v \in Seq(T) /\ Len(u \o v) = n
      /\ \A i \in 1 .. n : (u \o v)[i] = IF i <= Len(a) THEN u[i] ELSE v[i - Len(a)]
  BY <1>1
<1>8. u \o v = [i \in 1 .. n |-> (u \o v)[i]]
  BY <1>7, IsFunction
<1>9. ASSUME NEW i \in 1 .. n
      PROVE  Whats(heap, a \o b)[i] = (u \o v)[i]
  <2>1. CASE i <= Len(a)
    <3>1. i \in 1 .. Len(a)
      BY <1>2, <2>1
    <3> QED
      BY <1>3, <1>4, <1>5, <1>7, <2>1, <3>1
  <2>2. CASE ~(i <= Len(a))
    <3>1. i - Len(a) \in 1 .. Len(b)
      BY <1>2, <2>2
    <3> QED
      BY <1>3, <1>4, <1>5, <1>7, <2>2, <3>1
  <2> QED
    BY <2>1, <2>2
<1>10. Whats(heap, a \o b) = u \o v
  BY <1>6, <1>8, <1>9
<1> QED
  BY <1>10 DEF u, v

\* What is kept of an object remains true, whatever objects there are more.
LEMMA EnteredStays ==
  ASSUME NEW d, NEW a, NEW b, HeapOK(a), Kept(a, b), NEW dict, DictionaryOK(Len(a.objs), dict),
         NEW mems, NEW n, Entered(d, a, mems, n, dict)
  PROVE  Entered(d, b, mems, n, dict)
<1>1. ASSUME NEW path \in DOMAIN dict, dict[path] # Duplicate
      PROVE  What(b, dict[path]) = What(a, dict[path])
  <2>1. dict[path] \in 0 .. Len(a.objs)
    BY <1>1 DEF DictionaryOK, HeapOK, ObjectsOK
  <2> QED
    BY <2>1, WhatStays
<1> QED
  BY <1>1 DEF Entered

LEMMA ListsStay ==
  ASSUME NEW d, NEW a, NEW b, HeapOK(a), Kept(a, b), NEW object, ObjectOK(Len(a.objs), object),
         Lists(d, a, object)
  PROVE  Lists(d, b, object)
<1>1. ASSUME NEW cat \in DOMAIN object.inCategory
      PROVE  CategoryOf(d, object.what, cat) = Answer(Whats(b, object.inCategory[cat]))
  <2>1. object.inCategory[cat] \in Seq(1 .. Len(a.objs))
    BY DEF ObjectOK
  <2>2. Len(a.objs) \in Nat
    BY DEF HeapOK, ObjectsOK
  <2>3. 1 .. Len(a.objs) \subseteq 0 .. Len(a.objs)
    BY <2>2
  <2>4. object.inCategory[cat] \in Seq(0 .. Len(a.objs))
    BY <2>1, <2>3, SeqWider
  <2>5. Whats(b, object.inCategory[cat]) = Whats(a, object.inCategory[cat])
    BY <2>4, WhatsStay
  <2> QED
    BY <2>5 DEF Lists
<1>2. ASSUME NEW cat \in DOMAIN object.dict
      PROVE  NamesTold(d, b, CategoryOf(d, object.what, cat), object.dict[cat])
  <2>1. NamesTold(d, a, CategoryOf(d, object.what, cat), object.dict[cat])
    BY DEF Lists
  <2>2. DictionaryOK(Len(a.objs), object.dict[cat])
    BY DEF ObjectOK
  <2> QED
    BY <2>1, <2>2, EnteredStays DEF NamesTold
<1> QED
  BY <1>1, <1>2 DEF Lists

LEMMA ReadStays ==
  ASSUME NEW d, NEW a, NEW b, HeapOK(a), Kept(a, b), NEW object, ObjectOK(Len(a.objs), object),
         Read(d, a, object)
  PROVE  Read(d, b, object)
<1>1. Whats(b, object.members) = Whats(a, object.members)
  BY WhatsStay DEF ObjectOK
<1> QED
  BY <1>1 DEF Read

(***************************************************************************)
(* While one object is parsed the others stay as they are, but there may   *)
(* be new ones, which have not been asked anything.                        *)
(***************************************************************************)
Fresh(object) ==
  /\ object.parsed = FALSE /\ object.error = FALSE /\ object.members = <<>>
  /\ object.inCategory = <<>> /\ object.dict = <<>>

Around(d, o, heap, h) ==
  /\ Kept(heap, h) /\ h.broken = heap.broken
  /\ \A p \in 1 .. Len(heap.objs) : p # o => h.objs[p] = heap.objs[p]
  /\ \A f \in Fields : f # "members" => h.objs[o][f] = heap.objs[o][f]
  /\ \A p \in 1 .. Len(h.objs) : p > Len(heap.objs) => Placed(d, p, h.objs[p]) /\ Fresh(h.objs[p])

LEMMA AroundItself == ASSUME NEW d, NEW heap, HeapOK(heap), NEW o PROVE Around(d, o, heap, heap)
<1>1. \A p \in 1 .. Len(heap.objs) : ~ (p > Len(heap.objs))
  BY DEF HeapOK, ObjectsOK
<1> QED
  BY <1>1, KeptItself DEF Around

LEMMA AroundOn ==
  ASSUME NEW d, NEW o, NEW a, NEW b, NEW c, HeapOK(a), IsObject(a, o), Around(d, o, a, b), Around(d, o, b, c)
  PROVE  Around(d, o, a, c)
<1>1. Kept(a, b) /\ Kept(b, c) /\ Kept(a, c) /\ HeapOK(b)
  BY KeptOn DEF Around, Kept
<1>2. Len(a.objs) \in Nat /\ Len(b.objs) \in Nat /\ Len(c.objs) \in Nat
      /\ Len(a.objs) <= Len(b.objs) /\ Len(b.objs) <= Len(c.objs)
  BY <1>1, NoFewer
<1>3. \A p \in 1 .. Len(a.objs) : p # o => c.objs[p] = a.objs[p]
  <2>1. \A p \in 1 .. Len(a.objs) : p \in 1 .. Len(b.objs)
    BY <1>2
  <2> QED
    BY <2>1 DEF Around
<1>4. \A f \in Fields : f # "members" => c.objs[o][f] = a.objs[o][f]
  BY DEF Around
<1>5. ASSUME NEW p \in 1 .. Len(c.objs), p > Len(a.objs)
      PROVE  Placed(d, p, c.objs[p]) /\ Fresh(c.objs[p])
  <2>1. CASE p > Len(b.objs)
    BY <2>1 DEF Around
  <2>2. CASE ~(p > Len(b.objs))
    <3>1. p \in 1 .. Len(b.objs)
      BY <1>2, <2>2
    <3>2. p # o
      BY <1>2, <1>5 DEF IsObject
    <3>3. c.objs[p] = b.objs[p]
      BY <3>1, <3>2 DEF Around
    <3> QED
      BY <1>5, <3>1, <3>3 DEF Around
  <2> QED
    BY <2>1, <2>2
<1> QED
  BY <1>1, <1>3, <1>4, <1>5 DEF Around

LEMMA FreshSays ==
  ASSUME NEW d, NEW heap, NEW object, Fresh(object)
  PROVE  Read(d, heap, object) /\ Lists(d, heap, object)
<1>1. ~object.parsed /\ ~object.error /\ object.error \in BOOLEAN /\ object.members = <<>>
  BY DEF Fresh
<1>2. DOMAIN object.inCategory = {} /\ DOMAIN object.dict = {}
  BY DEF Fresh
<1>3. Read(d, heap, object)
  BY <1>1 DEF Read
<1>4. Lists(d, heap, object)
  BY <1>2 DEF Lists
<1> QED
  BY <1>3, <1>4

LEMMA AroundSem ==
  ASSUME NEW d, NEW E, NEW heap, HeapOK(heap), SemBut(d, heap, E), NEW o \in E, IsObject(heap, o),
         NEW h, Around(d, o, heap, h)
  PROVE  SemBut(d, h, E)
<1>1. Kept(heap, h) /\ HeapOK(h) /\ Len(heap.objs) \in Nat
  BY DEF Around, Kept, HeapOK, ObjectsOK
<1>2. ASSUME NEW p \in 1 .. Len(h.objs)
      PROVE  Placed(d, p, h.objs[p]) /\ Lists(d, h, h.objs[p]) /\ (p \notin E => Read(d, h, h.objs[p]))
  <2>1. CASE p > Len(heap.objs)
    <3>1. Placed(d, p, h.objs[p]) /\ Fresh(h.objs[p])
      BY <2>1 DEF Around
    <3> QED
      BY <3>1, FreshSays
  <2>2. CASE ~(p > Len(heap.objs))
    <3>1. p \in 1 .. Len(heap.objs)
      BY <1>1, <2>2
    <3>2. ObjectOK(Len(heap.objs), heap.objs[p])
      BY <3>1, Known1 DEF IsObject
    <3>3. Placed(d, p, heap.objs[p]) /\ Lists(d, h, heap.objs[p])
      BY <1>1, <3>1, <3>2, ListsStay DEF SemBut
    <3>4. CASE p = o
      <4>1. Placed(d, p, h.objs[p])
        BY <1>1, <3>1, <3>3 DEF Placed, Kept, Extends, SameObject
      <4>2. \A f \in {"inCategory", "dict", "what"} : h.objs[p][f] = heap.objs[p][f]
        BY <3>4 DEF Around, Fields
      <4>3. Lists(d, h, h.objs[p])
        BY <3>3, <4>2 DEF Lists
      <4> QED
        BY <3>4, <4>1, <4>3
    <3>5. CASE p # o
      <4>1. h.objs[p] = heap.objs[p]
        BY <3>1, <3>5 DEF Around
      <4>2. p \notin E => Read(d, h, heap.objs[p])
        BY <1>1, <3>1, <3>2, ReadStays DEF SemBut
      <4> QED
        BY <3>3, <4>1, <4>2
    <3> QED
      BY <3>4, <3>5
  <2> QED
    BY <2>1, <2>2
<1> QED
  BY <1>2 DEF SemBut

-----------------------------------------------------------------------------
(***************************************************************************)
(* What a file says of its objects.                                        *)
(***************************************************************************)
LEMMA KindsOfFiles ==
  ASSUME NEW kind \in DOMAIN Classes
  PROVE  /\ Classes[kind] \in OfFiles => kind \in {"class", "file", "group"}
         /\ Classes[kind] = "DoxyFile" <=> kind = "file"
         /\ Classes[kind] # "DoxyIndex"
BY DEF Classes, OfFiles

LEMMA MemberPlaced ==
  ASSUME dir \in Directories, NEW refid \in DOMAIN dir.files, NEW i \in DOMAIN dir.files[refid].members,
         NEW mem, mem = dir.files[refid].members[i], mem.kind \in DOMAIN Classes, NEW o, o # 1
  PROVE  Placed(dir, o, Object(Classes[mem.kind], NoRef, mem.name, TRUE, <<refid, i>>))
<1> DEFINE what == <<refid, i>>
<1>1. what # Index /\ what # <<>> /\ Len(what) = 2 /\ what[1] = refid /\ what[2] = i
  BY DEF Index
<1> HIDE DEF what
<1>2. Description(dir, what) = mem
  BY <1>1 DEF Description
<1>3. mem \in Range(dir.files[refid].members)
  BY DEF Range
<1>4. mem.kind \notin {"class", "file", "group"}
  BY <1>3, ConsistentAssumption DEF Consistent
<1>5. Classes[mem.kind] \notin OfFiles
  BY <1>4, KindsOfFiles
<1>6. KindOf(dir, what) = Classes[mem.kind]
  BY <1>1, <1>2 DEF KindOf
<1> DEFINE object == Object(Classes[mem.kind], NoRef, mem.name, TRUE, what)
<1>7. object.given /\ object.what = what /\ object.cls = Classes[mem.kind] /\ object.name = mem.name
      /\ object.refid = NoRef
  BY DEF Object
<1> HIDE DEF object
<1>8. Placed(dir, o, object)
  BY <1>1, <1>2, <1>5, <1>6, <1>7 DEF Placed
<1> QED
  BY <1>8 DEF object, what

LEMMA CompoundFound ==
  ASSUME dir \in Directories, NEW mem \in Range(dir.index)
  PROVE  /\ Compound(dir, mem.refid) = mem
         /\ mem.what = <<mem.refid>> /\ mem.what # Index /\ mem.what # <<>>
         /\ Description(dir, <<mem.refid>>) = mem
         /\ KindOf(dir, <<mem.refid>>) = Classes[mem.kind]
         /\ mem.refid # NoRef /\ mem.name \in Names
<1>1. mem.what = <<mem.refid>> /\ mem.refid # "index"
  BY ConsistentAssumption DEF Consistent
<1>2. ASSUME NEW other \in Range(dir.index), other.refid = mem.refid
      PROVE  other = mem
  BY <1>2, ConsistentAssumption DEF Consistent, Range
<1>3. Compound(dir, mem.refid) = mem
  BY <1>2 DEF Compound
<1> DEFINE what == <<mem.refid>>
<1>4. what # Index /\ what # <<>> /\ Len(what) = 1 /\ what[1] = mem.refid
  BY <1>1 DEF Index
<1> HIDE DEF what
<1>5. Description(dir, what) = mem
  BY <1>3, <1>4 DEF Description
<1>6. KindOf(dir, what) = Classes[mem.kind]
  BY <1>4, <1>5 DEF KindOf
<1>7. mem \in Compounds
  BY DirectoriesAssumption, ElementAt DEF Range
<1> QED
  BY <1>1, <1>3, <1>4, <1>5, <1>6, <1>7 DEF what, Compounds

LEMMA CompoundPlaced ==
  ASSUME dir \in Directories, NEW mem \in Range(dir.index), mem.kind \in DOMAIN Classes, NEW o, o # 1
  PROVE  Placed(dir, o, Object(Classes[mem.kind], mem.refid, mem.name, TRUE, mem.what))
<1> DEFINE object == Object(Classes[mem.kind], mem.refid, mem.name, TRUE, mem.what)
<1>1. object.given /\ object.what = mem.what /\ object.cls = Classes[mem.kind] /\ object.name = mem.name
      /\ object.refid = mem.refid
  BY DEF Object
<1> HIDE DEF object
<1>2. mem.what = <<mem.refid>> /\ mem.what # Index /\ mem.what # <<>> /\ Description(dir, mem.what) = mem
      /\ KindOf(dir, mem.what) = Classes[mem.kind] /\ mem.refid # NoRef /\ mem.name # <<>>
  BY CompoundFound DEF Names
<1>3. Placed(dir, o, object)
  BY <1>1, <1>2 DEF Placed
<1> QED
  BY <1>3 DEF object

LEMMA ObjectFresh ==
  ASSUME NEW n, n \in Nat, NEW cls, NEW refid, NEW path, path \in Seq(STRING), NEW given,
         NEW what, NEW object, object = Object(cls, refid, path, given, what)
  PROVE  ObjectOK(n, object) /\ Fresh(object) /\ object.refid = refid /\ object.what = what
BY DEF ObjectOK, Object, Fields, Fresh

\* An object is made.
IsMade(d, o, heap, refid, object, next, done) ==
  /\ Around(d, o, heap, done.heap) /\ done.raised = Nothing
  /\ done.heap.objs[o] = heap.objs[o]
  /\ done.value = next /\ done.value \in 1 .. Len(done.heap.objs)
  /\ done.heap.objs[done.value] = object
  /\ What(done.heap, done.value) = object.what
  /\ refid = NoRef => done.heap.refs = heap.refs
  /\ refid # NoRef => done.heap.refs = Put(heap.refs, refid, next)

LEMMA MadeNew ==
  ASSUME NEW d, NEW heap, HeapOK(heap), NEW o, IsObject(heap, o), NEW refid, refid \notin DOMAIN heap.refs,
         NEW object, ObjectOK(Len(heap.objs), object), object.refid = refid,
         NEW next, next = Len(heap.objs) + 1, Placed(d, next, object), Fresh(object),
         NEW done, done = FromRefid(heap, refid, object)
  PROVE  IsMade(d, o, heap, refid, object, next, done)
<1> DEFINE n == Len(heap.objs)
           after == done.heap
<1>1. done = Return([heap EXCEPT !.objs = Append(@, object),
                                 !.refs = IF refid = NoRef THEN @ ELSE Put(@, refid, next)], next)
  BY DEF FromRefid, Registered
<1>2. Kept(heap, after) /\ done.raised = Nothing /\ IsObject(after, done.value)
  BY FromRefidKeeps
<1>3. n \in Nat /\ next = n + 1 /\ heap = [objs |-> heap.objs, refs |-> heap.refs, broken |-> heap.broken]
  BY DEF HeapOK, ObjectsOK
<1>4. after.objs = Append(heap.objs, object) /\ after.broken = heap.broken /\ done.value = next
      /\ after.refs = IF refid = NoRef THEN heap.refs ELSE Put(heap.refs, refid, next)
  <2> DEFINE objects == Append(heap.objs, object)
             map == IF refid = NoRef THEN heap.refs ELSE Put(heap.refs, refid, next)
             more == [heap EXCEPT !.objs = objects, !.refs = map]
  <2>1. done = Return(more, next)
    BY <1>1
  <2> HIDE DEF objects, map
  <2>2. more.objs = objects /\ more.refs = map /\ more.broken = heap.broken
    BY <1>3
  <2> HIDE DEF more
  <2>3. done.heap = more /\ done.value = next
    BY <2>1, Returned
  <2> QED
    BY <2>2, <2>3 DEF objects, map
<1>5. PICK S : heap.objs \in Seq(S)
  BY DEF HeapOK, ObjectsOK
<1>6. Len(after.objs) = next /\ after.objs[next] = object /\ \A p \in 1 .. n : after.objs[p] = heap.objs[p]
  BY <1>4, <1>5
<1>7. \A p \in 1 .. Len(after.objs) : p > n => p = next
  BY <1>3, <1>6
<1> HIDE DEF n, after
<1>8. after.objs[o] = heap.objs[o]
  BY <1>6 DEF IsObject, n
<1>9. \A p \in 1 .. Len(after.objs) : p > n => Placed(d, p, after.objs[p]) /\ Fresh(after.objs[p])
  BY <1>6, <1>7 DEF n
<1>10. Around(d, o, heap, after)
  BY <1>2, <1>4, <1>6, <1>8, <1>9 DEF Around, n
<1>11. done.value \in 1 .. Len(after.objs)
  BY <1>3, <1>4, <1>6
<1>12. What(after, done.value) = object.what
  BY <1>3, <1>4, <1>6 DEF What
<1> QED
  BY <1>2, <1>4, <1>6, <1>8, <1>10, <1>11, <1>12 DEF after, n, IsMade

\* It, or None, becomes a member.
LEMMA AddMemberAround ==
  ASSUME NEW d, NEW made, HeapOK(made.heap), made.value \in 0 .. Len(made.heap.objs),
         NEW o, IsObject(made.heap, o), NEW h, h = AddMember(made, o)
  PROVE  /\ Around(d, o, made.heap, h) /\ h.refs = made.heap.refs
         /\ Whats(h, h.objs[o].members) =
               Append(Whats(made.heap, made.heap.objs[o].members), What(made.heap, made.value))
<1> DEFINE heap == made.heap
           n == Len(heap.objs)
           object == heap.objs[o]
           more == Append(object.members, made.value)
<1>1. ObjectOK(n, object) /\ n \in Nat /\ DOMAIN heap.objs = 1 .. n
      /\ heap = [objs |-> heap.objs, refs |-> heap.refs, broken |-> heap.broken]
  BY Known1 DEF HeapOK, ObjectsOK
<1>2. Kept(heap, h)
  BY AddMemberKeeps
<1>3. h = [heap EXCEPT !.objs = [heap.objs EXCEPT ![o] = [object EXCEPT !["members"] = more]]]
  BY DEF AddMember, With
<1>4. h.objs = [heap.objs EXCEPT ![o] = [object EXCEPT !["members"] = more]]
      /\ h.refs = heap.refs /\ h.broken = heap.broken
  BY <1>1, <1>3
<1> HIDE DEF more
<1>5. h.objs[o] = [object EXCEPT !["members"] = more] /\ Len(h.objs) = n
      /\ \A p \in 1 .. n : p # o => h.objs[p] = heap.objs[p]
  <2>1. PICK S : heap.objs \in Seq(S)
    BY DEF HeapOK, ObjectsOK
  <2> DEFINE x == [object EXCEPT !["members"] = more]
  <2> HIDE DEF x, object
  <2>2. o \in 1 .. n
    BY DEF IsObject
  <2>3. heap.objs \in Seq(S \cup {x})
    BY <2>1
  <2> QED
    BY <1>1, <1>4, <2>2, <2>3 DEF x
<1>6. h.objs[o].members = more /\ \A f \in Fields : f # "members" => h.objs[o][f] = object[f]
  BY <1>1, <1>5 DEF ObjectOK, Fields
<1>7. \A p \in 1 .. Len(h.objs) : ~(p > n)
  BY <1>1, <1>5
<1>8. Around(d, o, heap, h)
  BY <1>2, <1>4, <1>5, <1>6, <1>7 DEF Around
<1>9. Whats(heap, more) = Append(Whats(heap, object.members), What(heap, made.value))
  <2> DEFINE S == 0 .. n
  <2>1. object.members \in Seq(S) /\ made.value \in S
    BY <1>1 DEF ObjectOK
  <2> HIDE DEF S
  <2> QED
    BY <2>1, WhatsAppend DEF more
<1>10. more \in Seq(0 .. n)
  BY <1>1 DEF ObjectOK, more
<1>11. Whats(h, more) = Whats(heap, more)
  BY <1>2, <1>10, WhatsStay
<1> QED
  BY <1>4, <1>6, <1>8, <1>9, <1>11

-----------------------------------------------------------------------------
(***************************************************************************)
(* A file's members.                                                       *)
(***************************************************************************)
IsSeq(seq) == \E S : seq \in Seq(S)

LEMMA ConcatAppend ==
  ASSUME NEW a, IsSeq(a), NEW b, IsSeq(b), NEW x
  PROVE  a \o Append(b, x) = Append(a \o b, x) /\ IsSeq(Append(b, x)) /\ IsSeq(a \o b)
<1>1. PICK S : a \in Seq(S)
  BY DEF IsSeq
<1>2. PICK T : b \in Seq(T)
  BY DEF IsSeq
<1> DEFINE U == (S \cup T) \cup {x}
<1>3. S \subseteq U /\ T \subseteq U /\ x \in U
  OBVIOUS
<1> HIDE DEF U
<1>4. a \in Seq(U) /\ b \in Seq(U)
  BY <1>1, <1>2, <1>3, SeqWider
<1>5. Append(b, x) \in Seq(U) /\ a \o b \in Seq(U) /\ Append(b, x) = b \o <<x>> /\ <<x>> \in Seq(U)
  BY <1>3, <1>4
<1>6. Append(a \o b, x) = (a \o b) \o <<x>>
  BY <1>3, <1>5
<1>7. a \o (b \o <<x>>) = (a \o b) \o <<x>>
  BY <1>4, <1>5, ConcatAssociative
<1> QED
  BY <1>5, <1>6, <1>7 DEF IsSeq

LEMMA ConcatIsSeq ==
  ASSUME NEW a, IsSeq(a), NEW b, IsSeq(b)
  PROVE  IsSeq(a \o b)
BY ConcatAppend

LEMMA ConcatThree ==
  ASSUME NEW a, IsSeq(a), NEW b, IsSeq(b), NEW c, IsSeq(c)
  PROVE  (a \o b) \o c = a \o (b \o c)
<1>1. PICK S : a \in Seq(S)
  BY DEF IsSeq
<1>2. PICK T : b \in Seq(T)
  BY DEF IsSeq
<1>3. PICK R : c \in Seq(R)
  BY DEF IsSeq
<1> DEFINE U == (S \cup T) \cup R
<1>4. S \subseteq U /\ T \subseteq U /\ R \subseteq U
  OBVIOUS
<1> HIDE DEF U
<1>5. a \in Seq(U) /\ b \in Seq(U) /\ c \in Seq(U)
  BY <1>1, <1>2, <1>3, <1>4, SeqWider
<1> QED
  BY <1>5, ConcatAssociative

LEMMA WhatsIsSeq ==
  ASSUME NEW heap, NEW seq, IsSeq(seq)
  PROVE  IsSeq(Whats(heap, seq)) /\ DOMAIN Whats(heap, seq) = DOMAIN seq /\ DOMAIN seq = 1 .. Len(seq)
         /\ Len(seq) \in Nat
<1>1. PICK S : seq \in Seq(S)
  BY DEF IsSeq
<1>2. Whats(heap, seq) \in Seq({What(heap, y) : y \in S})
  BY <1>1 DEF Whats
<1> QED
  BY <1>1, <1>2 DEF IsSeq, Whats

LEMMA FoundBehind ==
  ASSUME NEW before, IsSeq(before), NEW found, IsSeq(found), NEW file, NEW i
  PROVE  /\ FoundInFile(file, before \o found, i) = before \o FoundInFile(file, found, i)
         /\ IsSeq(FoundInFile(file, found, i))
BY ConcatAppend DEF FoundInFile

FileOf(refid) == [refid |-> refid, members |-> dir.files[refid].members]

LEMMA AddMemberdefSays ==
  ASSUME dir \in Directories, NEW heap, HeapOK(heap), NEW o, IsObject(heap, o),
         NEW refid, heap.objs[o].refid = refid, ~Missing(refid),
         NEW i \in DOMAIN dir.files[refid].members,
         NEW h, h = AddMemberdef(o, heap, i)
  PROVE  /\ Around(dir, o, heap, h) /\ h.refs = heap.refs
         /\ Whats(h, h.objs[o].members) = FoundInFile(FileOf(refid), Whats(heap, heap.objs[o].members), i)
<1> DEFINE mems == dir.files[refid].members
           mem == [kind |-> mems[i].kind, refid |-> NoRef, name |-> mems[i].name, what |-> <<refid, i>>]
           made == convert_mem(heap, mem)
           object == Object(Classes[mem.kind], NoRef, mem.name, TRUE, <<refid, i>>)
           says == IF mems[i].kind \in DOMAIN Classes THEN <<refid, i>> ELSE <<>>
<1>1. h = IF FirstOfName(mems, i) THEN AddMember(made, o) ELSE heap
  BY DEF AddMemberdef
<1>2. FoundInFile(FileOf(refid), Whats(heap, heap.objs[o].members), i) =
        IF FirstOfName(mems, i) THEN Append(Whats(heap, heap.objs[o].members), says)
        ELSE Whats(heap, heap.objs[o].members)
  BY DEF FoundInFile, FileOf
<1>3. Len(heap.objs) \in Nat /\ Len(heap.objs) + 1 # 1 /\ NoRef \notin DOMAIN heap.refs
  <2>1. Len(heap.objs) \in Nat \ {0} /\ NoRef \notin DOMAIN heap.refs
    BY DEF HeapOK, ObjectsOK, RefsOK
  <2> DEFINE many == Len(heap.objs)
  <2> HIDE DEF many
  <2>2. many \in Nat \ {0} => many \in Nat /\ many + 1 # 1
    OBVIOUS
  <2> QED
    BY <2>1, <2>2 DEF many
<1>4. /\ Around(dir, o, heap, made.heap) /\ made.heap.refs = heap.refs
      /\ made.heap.objs[o] = heap.objs[o]
      /\ made.value \in 0 .. Len(made.heap.objs) /\ What(made.heap, made.value) = says
  <2>1. CASE mems[i].kind \in DOMAIN Classes
    <3>1. mem.kind = mems[i].kind /\ mem.name = mems[i].name /\ mem.refid = NoRef /\ mem.what = <<refid, i>>
      OBVIOUS
    <3>2. made = FromRefid(heap, NoRef, object)
      BY <2>1, <3>1 DEF convert_mem
    <3>3. mem.name \in Seq(STRING)
      <4>1. mems \in Seq([kind : STRING, name : Names, described : BOOLEAN]) /\ i \in DOMAIN mems
        BY FileHasTypes
      <4>2. mems[i] \in [kind : STRING, name : Names, described : BOOLEAN]
        BY <4>1, ElementAt
      <4> QED
        BY <4>2 DEF Names
    <3> DEFINE next == Len(heap.objs) + 1
    <3>5. Placed(dir, next, object)
      <4> HIDE DEF mem
      <4> QED
        BY <1>3, <2>1, <3>1, MemberPlaced DEF Missing
    <3>4. ObjectOK(Len(heap.objs), object) /\ Fresh(object) /\ object.refid = NoRef /\ object.what = <<refid, i>>
      <4> DEFINE what == <<refid, i>>
                 cls == Classes[mem.kind]
                 path == mem.name
                 given == TRUE
      <4>1. object = Object(cls, NoRef, path, given, what)
        OBVIOUS
      <4> HIDE DEF what, cls, path, given, object
      <4>2. path \in Seq(STRING) /\ Len(heap.objs) \in Nat
        BY <1>3, <3>3 DEF path
      <4>3. ObjectOK(Len(heap.objs), object) /\ Fresh(object) /\ object.refid = NoRef /\ object.what = what
        BY <4>1, <4>2, ObjectFresh
      <4> QED
        BY <4>3 DEF what
    <3> HIDE DEF object, made, mem
    <3>6. /\ Around(dir, o, heap, made.heap) /\ made.heap.refs = heap.refs
          /\ made.heap.objs[o] = heap.objs[o]
          /\ made.value \in 1 .. Len(made.heap.objs) /\ What(made.heap, made.value) = <<refid, i>>
      <4>1. NoRef \notin DOMAIN heap.refs /\ next = Len(heap.objs) + 1
        BY <1>3
      <4> HIDE DEF next
      <4>2. IsMade(dir, o, heap, NoRef, object, next, made)
        BY <3>2, <3>4, <3>5, <4>1, MadeNew
      <4> QED
        BY <3>4, <4>2 DEF IsMade
    <3>7. Len(made.heap.objs) \in Nat
      BY <3>6 DEF Around, Kept, HeapOK, ObjectsOK
    <3> QED
      BY <2>1, <3>6, <3>7
  <2>2. CASE mems[i].kind \notin DOMAIN Classes
    <3>1. made = Return(heap, 0)
      BY <2>2 DEF convert_mem
    <3>2. made.heap = heap /\ made.value = 0
      BY <3>1, Returned
    <3>3. says = <<>>
      BY <2>2
    <3> HIDE DEF made, mem, object, says
    <3>4. Around(dir, o, heap, made.heap)
      BY <3>2, AroundItself
    <3>5. What(made.heap, made.value) = says
      BY <3>2, <3>3 DEF What
    <3>6. made.value \in 0 .. Len(made.heap.objs)
      BY <1>3, <3>2
    <3> QED
      BY <3>2, <3>4, <3>5, <3>6
  <2> HIDE DEF made, says, mem, object
  <2> QED
    BY <2>1, <2>2
<1> HIDE DEF made, says, object, mem
<1>5. CASE FirstOfName(mems, i)
  <2>1. HeapOK(made.heap) /\ IsObject(made.heap, o)
    BY <1>4, StillThere DEF Around, Kept
  <2>2. /\ Around(dir, o, made.heap, h) /\ h.refs = made.heap.refs
        /\ Whats(h, h.objs[o].members) = Append(Whats(made.heap, made.heap.objs[o].members), says)
    BY <1>1, <1>4, <1>5, <2>1, AddMemberAround
  <2>3. Whats(made.heap, heap.objs[o].members) = Whats(heap, heap.objs[o].members)
    <3>1. heap.objs[o].members \in Seq(0 .. Len(heap.objs))
      BY Known1 DEF ObjectOK
    <3> QED
      BY <1>4, <3>1, WhatsStay DEF Around
  <2>4. Around(dir, o, heap, h)
    BY <1>4, <2>2, AroundOn
  <2> QED
    BY <1>2, <1>4, <1>5, <2>2, <2>3, <2>4
<1>6. CASE ~FirstOfName(mems, i)
  BY <1>1, <1>2, <1>6, AroundItself
<1> QED
  BY <1>5, <1>6

\* what an object gains of members
Gains(d, o, heap, h, more) ==
  /\ Around(d, o, heap, h) /\ h.refs = heap.refs
  /\ Whats(h, h.objs[o].members) = Whats(heap, heap.objs[o].members) \o more

LEMMA MembersAreSeq ==
  ASSUME NEW heap, HeapOK(heap), NEW o, IsObject(heap, o)
  PROVE  IsSeq(heap.objs[o].members) /\ IsSeq(Whats(heap, heap.objs[o].members))
<1>1. IsSeq(heap.objs[o].members)
  BY Known1 DEF ObjectOK, IsSeq
<1> QED
  BY <1>1, WhatsIsSeq

LEMMA EmptyBehind ==
  ASSUME NEW a, IsSeq(a)
  PROVE  a \o <<>> = a /\ <<>> \o a = a /\ IsSeq(<<>>)
<1>1. PICK S : a \in Seq(S)
  BY DEF IsSeq
<1>2. a \o <<>> = a /\ <<>> \o a = a
  BY <1>1, ConcatEmptySeq
<1>3. <<>> \in Seq({})
  OBVIOUS
<1> QED
  BY <1>2, <1>3 DEF IsSeq

LEMMA GainsOn ==
  ASSUME NEW d, NEW o, NEW a, HeapOK(a), IsObject(a, o), NEW b, NEW m, IsSeq(m), Gains(d, o, a, b, m),
         NEW c, NEW n, IsSeq(n), Gains(d, o, b, c, n)
  PROVE  Gains(d, o, a, c, m \o n)
<1>1. Around(d, o, a, c) /\ c.refs = a.refs
  BY AroundOn DEF Gains
<1>2. IsSeq(Whats(a, a.objs[o].members))
  BY MembersAreSeq
<1> DEFINE w == Whats(a, a.objs[o].members)
<1>3. Whats(c, c.objs[o].members) = (w \o m) \o n
  BY DEF Gains
<1> HIDE DEF w
<1>4. (w \o m) \o n = w \o (m \o n)
  BY <1>2, ConcatThree DEF w
<1>5. Whats(c, c.objs[o].members) = w \o (m \o n)
  BY <1>3, <1>4
<1> QED
  BY <1>1, <1>5 DEF Gains, w

\* What is found in a file: of each name the first, and no place twice.
FoundSo(of, start, seq, i, found) ==
  /\ IsSeq(found)
  /\ \A n \in DOMAIN found : found[n] # <<>> =>
        \E j \in 1 .. i : found[n] = <<of.refid, j>> /\ FirstOfName(of.members, j) /\ of.members[j].kind \in DOMAIN Classes
  /\ \A n, m \in DOMAIN found : n # m /\ found[n] = found[m] => found[n] = <<>>

Founds == INSTANCE FoldSteps WITH Turn <- FoundInFile, Holds <- FoundSo

\* the loop of process_memberdefs beside that of MembersInFile
AddMemberdefOf(of, done, i) == AddMemberdef(of.o, done, i)

GainedSo(of, start, seq, i, h) == IsSeq(of.found[i]) /\ Gains(dir, of.o, start, h, of.found[i])

Gained == INSTANCE FoldSteps WITH Turn <- AddMemberdefOf, Holds <- GainedSo

LEMMA process_memberdefsLoop ==
  ASSUME NEW of, NEW heap, NEW refid, heap.objs[of.o].refid = refid
  PROVE  process_memberdefs(heap, of.o) =
           Gained!Loop(of, heap, [i \in DOMAIN dir.files[refid].members |-> i])
BY DEF process_memberdefs, AddMemberdefOf, Gained!Loop, FoldLeft, MapThenFoldSet, Max, Gained!Last

LEMMA MembersInFileLoop ==
  ASSUME NEW d, NEW refid
  PROVE  MembersInFile(d, refid) =
           Founds!Loop([refid |-> refid, members |-> d.files[refid].members], <<>>,
                       [i \in DOMAIN d.files[refid].members |-> i])
BY DEF MembersInFile, Founds!Loop, FoldLeft, MapThenFoldSet, Max, Founds!Last

LEMMA process_memberdefsSays ==
  ASSUME dir \in Directories, NEW heap, HeapOK(heap), NEW o, IsObject(heap, o),
         NEW refid, heap.objs[o].refid = refid, ~Missing(refid)
  PROVE  Gains(dir, o, heap, process_memberdefs(heap, o), MembersInFile(dir, refid))
         /\ IsSeq(MembersInFile(dir, refid))
<1> DEFINE mems == dir.files[refid].members
           seq == [i \in DOMAIN mems |-> i]
           n == Len(mems)
<1>1. n \in Nat /\ DOMAIN mems = 1 .. n
  BY FileHasTypes
<1>2. DOMAIN seq = 1 .. n /\ \A i \in 1 .. n : seq[i] = i
  BY <1>1
<1>3. MembersInFile(dir, refid) = Founds!Loop(FileOf(refid), <<>>, seq)
  BY MembersInFileLoop DEF FileOf
<1> HIDE DEF seq, n
<1>4. PICK found : Founds!Turns(FileOf(refid), <<>>, seq, n, found)
                   /\ Founds!Loop(FileOf(refid), <<>>, seq) = found[n]
  BY <1>1, <1>2, LeastNumber, Founds!LoopTurns
<1> DEFINE of == [o |-> o, found |-> found]
<1>5. of.o = o /\ of.found = found
  OBVIOUS
<1> HIDE DEF of
<1>6. process_memberdefs(heap, o) = Gained!Loop(of, heap, seq)
  <2>1. process_memberdefs(heap, of.o) = Gained!Loop(of, heap, [i \in DOMAIN dir.files[refid].members |-> i])
    BY <1>5, process_memberdefsLoop
  <2> QED
    BY <1>5, <2>1 DEF seq
<1>7. ASSUME NEW i \in 1 .. n, NEW done, GainedSo(of, heap, seq, i - 1, done)
      PROVE  GainedSo(of, heap, seq, i, AddMemberdefOf(of, done, seq[i]))
  <2> DEFINE h == AddMemberdef(o, done, i)
             before == Whats(heap, heap.objs[o].members)
             less == found[i - 1]
  <2>1. AddMemberdefOf(of, done, seq[i]) = h
    BY <1>2, <1>5 DEF AddMemberdefOf
  <2>2. IsSeq(less) /\ Gains(dir, o, heap, done, less)
    BY <1>5, <1>7 DEF GainedSo
  <2>3. Around(dir, o, heap, done) /\ HeapOK(done) /\ IsObject(done, o) /\ done.objs[o].refid = refid
    <3>1. Around(dir, o, heap, done) /\ Kept(heap, done) /\ HeapOK(done)
      BY <2>2 DEF Gains, Around, Kept
    <3> QED
      BY <3>1, StillThere DEF Kept, Extends, SameObject, IsObject
  <2>4. i \in DOMAIN dir.files[refid].members
    BY <1>1
  <2>5. /\ Around(dir, o, done, h) /\ h.refs = done.refs
        /\ Whats(h, h.objs[o].members) = FoundInFile(FileOf(refid), Whats(done, done.objs[o].members), i)
    BY <2>3, <2>4, AddMemberdefSays
  <2> HIDE DEF h
  <2>6. found[i] = FoundInFile(FileOf(refid), less, i)
    BY <1>2, <1>4 DEF Founds!Turns
  <2>7. Whats(done, done.objs[o].members) = before \o less /\ IsSeq(before)
    BY <2>2, MembersAreSeq DEF Gains
  <2> HIDE DEF less, before
  <2>8. Whats(h, h.objs[o].members) = before \o found[i] /\ IsSeq(found[i])
    BY <2>2, <2>5, <2>6, <2>7, FoundBehind
  <2>9. Around(dir, o, heap, h)
    BY <2>3, <2>5, AroundOn
  <2> QED
    BY <1>5, <2>1, <2>2, <2>5, <2>8, <2>9 DEF GainedSo, Gains, before
<1>8. GainedSo(of, heap, seq, 0, heap)
  <2>1. found[0] = <<>>
    BY <1>4 DEF Founds!Turns
  <2> QED
    BY <1>5, <2>1, AroundItself, MembersAreSeq, EmptyBehind DEF GainedSo, Gains
<1>9. GainedSo(of, heap, seq, n, Gained!Loop(of, heap, seq))
  BY <1>1, <1>2, <1>7, <1>8, LeastNumber, Gained!LoopKeeps
<1> QED
  BY <1>3, <1>4, <1>5, <1>6, <1>9 DEF GainedSo

\* what is inside of a group has its object already
AllPlaced(d, heap) == \A o \in 1 .. Len(heap.objs) : Placed(d, o, heap.objs[o])

LEMMA AddInnerSays ==
  ASSUME NEW heap, HeapOK(heap), AllPlaced(dir, heap), NEW o, IsObject(heap, o), NEW cls,
         NEW refid \in DOMAIN heap.refs, NEW h, h = AddInner([of |-> o, cls |-> cls], heap, refid)
  PROVE  Gains(dir, o, heap, h, <<<<refid>>>>)
<1> DEFINE object == Object(cls, refid, <<>>, FALSE, <<refid>>)
           made == FromRefid(heap, refid, object)
           p == heap.refs[refid]
<1>1. made.heap = heap /\ made.value = p
  BY Returned DEF FromRefid, Registered
<1>2. p \in 1 .. Len(heap.objs) /\ heap.objs[p].refid = refid /\ refid # NoRef
  BY DEF HeapOK, RefsOK
<1>3. What(heap, p) = <<refid>> /\ p \in 0 .. Len(heap.objs)
  <2>1. Placed(dir, p, heap.objs[p])
    BY <1>2 DEF AllPlaced
  <2>2. heap.objs[p].what = <<refid>>
    BY <1>2, <2>1 DEF Placed
  <2>3. Len(heap.objs) \in Nat
    BY DEF HeapOK, ObjectsOK
  <2> QED
    BY <1>2, <2>2, <2>3 DEF What
<1>4. h = AddMember(made, o)
  BY DEF AddInner
<1> HIDE DEF made, p
<1>5. /\ Around(dir, o, heap, h) /\ h.refs = heap.refs
      /\ Whats(h, h.objs[o].members) = Append(Whats(heap, heap.objs[o].members), <<refid>>)
  BY <1>1, <1>3, <1>4, AddMemberAround
<1>6. Append(Whats(heap, heap.objs[o].members), <<refid>>) = Whats(heap, heap.objs[o].members) \o <<<<refid>>>>
  <2> DEFINE a == Whats(heap, heap.objs[o].members)
             x == <<refid>>
  <2>1. IsSeq(a)
    BY MembersAreSeq
  <2> HIDE DEF a, x
  <2>2. PICK S : a \in Seq(S)
    BY <2>1 DEF IsSeq
  <2>3. a \in Seq(S \cup {x})
    BY <2>2
  <2>4. Append(a, x) = a \o <<x>>
    BY <2>3
  <2> QED
    BY <2>4 DEF a, x
<1> QED
  BY <1>5, <1>6 DEF Gains

InnerUpTo(refids, i) == [k \in 1 .. i |-> <<refids[k]>>]

LEMMA InnerOneMore ==
  ASSUME NEW refids, NEW i \in Nat, i # 0
  PROVE  InnerUpTo(refids, i - 1) \o <<<<refids[i]>>>> = InnerUpTo(refids, i) /\ IsSeq(InnerUpTo(refids, i - 1))
<1> DEFINE S == {<<refids[k]>> : k \in 1 .. i}
           x == <<refids[i]>>
           a == InnerUpTo(refids, i - 1)
           b == InnerUpTo(refids, i)
<1>1. a \in Seq(S) /\ Len(a) = i - 1 /\ b \in Seq(S) /\ Len(b) = i
  BY DEF InnerUpTo
<1>2. (\A k \in 1 .. i - 1 : a[k] = b[k]) /\ b[i] = x /\ x \in S
  BY DEF InnerUpTo
<1> HIDE DEF S, a, b, x
<1>3. a \o <<x>> \in Seq(S) /\ Len(a \o <<x>>) = i
      /\ \A k \in 1 .. i : (a \o <<x>>)[k] = IF k = i THEN x ELSE a[k]
  BY <1>1, <1>2
<1>4. \A k \in 1 .. i : (a \o <<x>>)[k] = b[k]
  <2>1. \A k \in 1 .. i : k # i => k \in 1 .. i - 1
    OBVIOUS
  <2> QED
    BY <1>2, <1>3, <2>1
<1>5. a \o <<x>> = b
  BY <1>1, <1>3, <1>4, SeqEqual
<1> QED
  BY <1>1, <1>5 DEF a, b, x, IsSeq

InnersSo(inner, start, refids, i, h) == Gains(dir, inner.of, start, h, InnerUpTo(refids, i))

InnersGained == INSTANCE FoldSteps WITH Turn <- AddInner, Holds <- InnersSo

LEMMA AddAllInnerSays ==
  ASSUME NEW E, NEW heap, HeapOK(heap), SemBut(dir, heap, E), NEW o \in E, IsObject(heap, o), NEW cls,
         NEW refids \in Seq(STRING), \A refid \in Range(refids) : refid \in DOMAIN heap.refs
  PROVE  Gains(dir, o, heap, AddAllInner(heap, o, cls, refids), Inner(refids)) /\ IsSeq(Inner(refids))
<1> DEFINE inner == [of |-> o, cls |-> cls]
           n == Len(refids)
<1>1. n \in Nat /\ DOMAIN refids = 1 .. n
  OBVIOUS
<1>2. AddAllInner(heap, o, cls, refids) = InnersGained!Loop(inner, heap, refids)
  BY DEF AddAllInner, InnersGained!Loop, FoldLeft, MapThenFoldSet, Max, InnersGained!Last
<1>3. ASSUME NEW i \in 1 .. n, NEW done, InnersSo(inner, heap, refids, i - 1, done)
      PROVE  InnersSo(inner, heap, refids, i, AddInner(inner, done, refids[i]))
  <2>1. Gains(dir, o, heap, done, InnerUpTo(refids, i - 1))
    BY <1>3 DEF InnersSo
  <2>2. Around(dir, o, heap, done) /\ HeapOK(done) /\ IsObject(done, o) /\ done.refs = heap.refs
    BY <2>1, StillThere DEF Gains, Around, Kept
  <2>3. AllPlaced(dir, done)
    BY <2>2, AroundSem DEF AllPlaced, SemBut
  <2>4. refids[i] \in DOMAIN done.refs
    BY <1>1, <2>2 DEF Range
  <2>5. Gains(dir, o, done, AddInner(inner, done, refids[i]), <<<<refids[i]>>>>)
    BY <2>2, <2>3, <2>4, AddInnerSays
  <2>6. i \in Nat /\ i # 0
    BY <1>1
  <2>7. IsSeq(InnerUpTo(refids, i - 1)) /\ IsSeq(<<<<refids[i]>>>>)
    <3> DEFINE x == <<refids[i]>>
    <3> HIDE DEF x
    <3>1. <<x>> \in Seq({x})
      OBVIOUS
    <3> QED
      BY <2>6, <3>1, InnerOneMore DEF IsSeq, x
  <2>8. Gains(dir, o, heap, AddInner(inner, done, refids[i]), InnerUpTo(refids, i - 1) \o <<<<refids[i]>>>>)
    <3> DEFINE m == InnerUpTo(refids, i - 1)
               x == <<<<refids[i]>>>>
               c == AddInner(inner, done, refids[i])
    <3>1. Gains(dir, o, heap, done, m) /\ Gains(dir, o, done, c, x) /\ IsSeq(m) /\ IsSeq(x)
      BY <2>1, <2>5, <2>7
    <3> HIDE DEF m, x, c
    <3>2. Gains(dir, o, heap, c, m \o x)
      BY <3>1, GainsOn
    <3> QED
      BY <3>2 DEF m, x, c
  <2> QED
    BY <2>6, <2>8, InnerOneMore DEF InnersSo
<1>4. InnersSo(inner, heap, refids, 0, heap)
  <2>1. InnerUpTo(refids, 0) = <<>>
    BY DEF InnerUpTo
  <2> QED
    BY <2>1, AroundItself, MembersAreSeq, EmptyBehind DEF InnersSo, Gains
<1>5. InnersSo(inner, heap, refids, n, InnersGained!Loop(inner, heap, refids))
  <2> HIDE DEF n, inner
  <2> QED
    BY <1>1, <1>3, <1>4, LeastNumber, InnersGained!LoopKeeps
<1>6. Inner(refids) = InnerUpTo(refids, n)
  BY <1>1 DEF Inner, InnerUpTo
<1>7. IsSeq(Inner(refids))
  <2>1. Inner(refids) \in Seq({<<refids[k]>> : k \in 1 .. n})
    BY <1>1 DEF Inner
  <2> QED
    BY <2>1 DEF IsSeq
<1> QED
  BY <1>2, <1>5, <1>6, <1>7 DEF InnersSo

LEMMA ParseGroupSays ==
  ASSUME dir \in Directories, NEW E, NEW heap, HeapOK(heap), SemBut(dir, heap, E), AllThere(dir, heap),
         NEW o \in E, IsObject(heap, o), NEW refid, heap.objs[o].refid = refid, ~Missing(refid)
  PROVE  Gains(dir, o, heap, ParseGroup(heap, o),
               (Inner(dir.files[refid].groups) \o Inner(dir.files[refid].classes)) \o MembersInFile(dir, refid))
<1> DEFINE groups == dir.files[refid].groups
           classes == dir.files[refid].classes
           one == AddAllInner(heap, o, "DoxyGroup", groups)
           two == AddAllInner(one, o, "DoxyClass", classes)
           three == process_memberdefs(two, o)
<1>1. groups \in Seq(STRING) /\ classes \in Seq(STRING)
  BY FileHasTypes
<1>2. \A inner \in Range(groups) \cup Range(classes) : inner \in DOMAIN heap.refs
  BY ConsistentAssumption DEF Consistent, Missing, AllThere
<1>3. ParseGroup(heap, o) = three
  BY DEF ParseGroup
<1> HIDE DEF groups, classes
<1>4. Gains(dir, o, heap, one, Inner(groups)) /\ IsSeq(Inner(groups))
  BY <1>1, <1>2, AddAllInnerSays
<1> HIDE DEF one
<1>5. Around(dir, o, heap, one) /\ HeapOK(one) /\ IsObject(one, o) /\ one.refs = heap.refs
  BY <1>4, StillThere DEF Gains, Around, Kept
<1>6. SemBut(dir, one, E)
  BY <1>5, AroundSem
<1>7. \A inner \in Range(classes) : inner \in DOMAIN one.refs
  BY <1>2, <1>5
<1>8. Gains(dir, o, one, two, Inner(classes)) /\ IsSeq(Inner(classes))
  BY <1>1, <1>5, <1>6, <1>7, AddAllInnerSays
<1> HIDE DEF two
<1>9. Gains(dir, o, heap, two, Inner(groups) \o Inner(classes)) /\ IsSeq(Inner(groups) \o Inner(classes))
  BY <1>4, <1>8, GainsOn, ConcatIsSeq
<1>10. HeapOK(two) /\ IsObject(two, o) /\ two.objs[o].refid = refid
  <2>1. Kept(heap, two)
    BY <1>9 DEF Gains, Around
  <2> QED
    BY <2>1, StillThere DEF Kept, Extends, SameObject, IsObject
<1>11. Gains(dir, o, two, three, MembersInFile(dir, refid)) /\ IsSeq(MembersInFile(dir, refid))
  BY <1>10, process_memberdefsSays
<1> HIDE DEF three
<1> DEFINE m == Inner(groups) \o Inner(classes)
<1>12. Gains(dir, o, heap, two, m) /\ IsSeq(m)
  BY <1>9
<1> HIDE DEF m
<1>13. Gains(dir, o, heap, three, m \o MembersInFile(dir, refid))
  BY <1>11, <1>12, GainsOn
<1> QED
  BY <1>3, <1>13 DEF m, groups, classes

-----------------------------------------------------------------------------
(***************************************************************************)
(* What an object's parse leaves behind.                                   *)
(***************************************************************************)
Changed(o, heap, h, field, value) ==
  /\ Kept(heap, h) /\ h.refs = heap.refs /\ h.broken = heap.broken /\ Len(h.objs) = Len(heap.objs)
  /\ h.objs[o][field] = value /\ \A f \in Fields : f # field => h.objs[o][f] = heap.objs[o][f]
  /\ \A p \in 1 .. Len(heap.objs) : p # o => h.objs[p] = heap.objs[p]

LEMMA ChangedSays ==
  ASSUME NEW heap, HeapOK(heap), NEW o, IsObject(heap, o),
         NEW field \in Fields \ {"cls", "refid", "name", "given", "what"}, NEW value,
         ObjectOK(Len(heap.objs), [heap.objs[o] EXCEPT ![field] = value]),
         NEW h, h = With(heap, o, field, value)
  PROVE  Changed(o, heap, h, field, value)
<1> DEFINE n == Len(heap.objs)
           object == heap.objs[o]
           x == [object EXCEPT ![field] = value]
<1>1. ObjectOK(n, object) /\ n \in Nat /\ DOMAIN heap.objs = 1 .. n
      /\ heap = [objs |-> heap.objs, refs |-> heap.refs, broken |-> heap.broken]
  BY Known1 DEF HeapOK, ObjectsOK
<1>2. Kept(heap, h) /\ Len(h.objs) = n
  BY WithKeeps
<1>3. h = [heap EXCEPT !.objs = [heap.objs EXCEPT ![o] = x]]
  BY DEF With
<1> HIDE DEF x
<1>4. h.objs = [heap.objs EXCEPT ![o] = x] /\ h.refs = heap.refs /\ h.broken = heap.broken
  BY <1>1, <1>3
<1>5. h.objs[o] = x /\ \A p \in 1 .. n : p # o => h.objs[p] = heap.objs[p]
  BY <1>1, <1>4 DEF IsObject
<1>6. x[field] = value /\ \A f \in Fields : f # field => x[f] = object[f]
  BY <1>1 DEF ObjectOK, x
<1> QED
  BY <1>2, <1>4, <1>5, <1>6 DEF Changed

LEMMA MarkSays ==
  ASSUME NEW heap, HeapOK(heap), NEW o, IsObject(heap, o), NEW field \in {"parsed", "error"},
         NEW yes, yes = TRUE, NEW h, h = With(heap, o, field, TRUE)
  PROVE  Changed(o, heap, h, field, yes)
<1>1. ObjectOK(Len(heap.objs), [heap.objs[o] EXCEPT ![field] = yes])
  <2>1. ObjectOK(Len(heap.objs), heap.objs[o])
    BY Known1
  <2> QED
    BY <2>1 DEF ObjectOK, Fields
<1>2. field \in Fields \ {"cls", "refid", "name", "given", "what"}
  BY DEF Fields
<1>3. h = With(heap, o, field, yes)
  OBVIOUS
<1> QED
  BY <1>1, <1>2, <1>3, ChangedSays

LEMMA ChangedSem ==
  ASSUME NEW d, NEW E, NEW heap, HeapOK(heap), SemBut(d, heap, E), NEW o, IsObject(heap, o),
         NEW h, NEW field \in {"parsed", "error", "members"}, NEW value, Changed(o, heap, h, field, value)
  PROVE  SemBut(d, h, E \cup {o})
<1>1. Kept(heap, h) /\ Len(h.objs) = Len(heap.objs)
  BY DEF Changed
<1>2. ASSUME NEW p \in 1 .. Len(h.objs)
      PROVE  Placed(d, p, h.objs[p]) /\ Lists(d, h, h.objs[p]) /\ (p \notin E \cup {o} => Read(d, h, h.objs[p]))
  <2>1. p \in 1 .. Len(heap.objs)
    BY <1>1
  <2>2. ObjectOK(Len(heap.objs), heap.objs[p])
    BY <2>1, Known1 DEF IsObject
  <2>3. Placed(d, p, heap.objs[p]) /\ Lists(d, h, heap.objs[p])
    BY <1>1, <2>1, <2>2, ListsStay DEF SemBut
  <2>4. CASE p = o
    <3>1. \A f \in Fields : f # field => h.objs[p][f] = heap.objs[p][f]
      BY <2>4 DEF Changed
    <3>2. \A f \in {"cls", "refid", "name", "given", "what", "inCategory", "dict"} : h.objs[p][f] = heap.objs[p][f]
      BY <3>1 DEF Fields
    <3>3. Placed(d, p, h.objs[p])
      BY <2>3, <3>2 DEF Placed
    <3>4. Lists(d, h, h.objs[p])
      BY <2>3, <3>2 DEF Lists
    <3> QED
      BY <2>4, <3>3, <3>4
  <2>5. CASE p # o
    <3>1. h.objs[p] = heap.objs[p]
      BY <2>1, <2>5 DEF Changed
    <3>2. p \notin E => Read(d, h, heap.objs[p])
      BY <1>1, <2>1, <2>2, ReadStays DEF SemBut
    <3> QED
      BY <2>3, <3>1, <3>2
  <2> QED
    BY <2>4, <2>5
<1> QED
  BY <1>2 DEF SemBut

\* What a parse that raises nothing has got is what the file says, and no other
\* object is touched; what it raises, the file refuses.
Parsed(d, E, o, heap, done) ==
  /\ done.raised # Nothing =>
        done.raised # "ParsingError" /\ MembersOf(d, heap.objs[o].what).raised = done.raised
  /\ done.raised = Nothing =>
        /\ done.heap.broken = heap.broken /\ done.heap.refs = heap.refs
        /\ SemBut(d, done.heap, E)
        /\ done.heap.objs[o].parsed
        /\ \A p \in 1 .. Len(heap.objs) : p # o => done.heap.objs[p] = heap.objs[p]

LEMMA ParseObjectSays ==
  ASSUME dir \in Directories, NEW E, NEW heap, HeapOK(heap), SemBut(dir, heap, E), NEW o \in E, IsObject(heap, o),
         o # 1, heap.objs[o].cls = "DoxyFile" \/ AllThere(dir, heap),
         heap.objs[o].parsed, ~heap.objs[o].error, heap.objs[o].error \in BOOLEAN, heap.objs[o].members = <<>>,
         NEW F, F = E \ {o}
  PROVE  Parsed(dir, F, o, heap, ParseObject(heap, o))
<1> DEFINE object == heap.objs[o]
           what == object.what
           refid == object.refid
           told == MembersOf(dir, what)
           file == dir.files[refid]
           failed == With(heap, o, "error", TRUE)
<1>1. Placed(dir, o, object)
  BY DEF SemBut, IsObject
<1>2. what # Index /\ object.cls = KindOf(dir, what) /\ (object.cls \in OfFiles => refid # NoRef /\ what = <<refid>>)
  BY <1>1 DEF Placed
<1>3. CASE object.cls \notin OfFiles
  <2>1. ParseObject(heap, o) = Return(heap, <<>>)
    BY <1>3 DEF ParseObject
  <2>2. told = Answer(<<>>)
    BY <1>2, <1>3 DEF MembersOf
  <2>3. Whats(heap, object.members) = <<>>
    BY DEF Whats
  <2>4. Read(dir, heap, object)
    <3> HIDE DEF told
    <3> QED
      BY <2>2, <2>3 DEF Read, told
  <2>5. SemBut(dir, heap, F)
    BY <2>4 DEF SemBut
  <2> QED
    BY <2>1, <2>5, Returned DEF Parsed
<1>4. CASE object.cls \in OfFiles
  <2>1. ParseObject(heap, o) = ParseFile(heap, o) /\ told = FileRead(dir, what) /\ what[1] = refid
    BY <1>2, <1>4 DEF ParseObject, MembersOf
  <2>2. Missing(refid) <=> what[1] \notin DOMAIN dir.files
    BY <2>1 DEF Missing
  <2> HIDE DEF told
  <2>3. CASE Missing(refid)
    <3>1. ParseObject(heap, o) = Raise(heap, "IOError") /\ told = Refuse("IOError")
      BY <2>1, <2>2, <2>3 DEF ParseFile, FileRead
    <3>2. ParseObject(heap, o).raised = "IOError" /\ "IOError" \notin {Nothing, "ParsingError"} /\ told.raised = "IOError"
      BY <3>1, Raised DEF Refuse, Nothing
    <3> QED
      BY <3>2 DEF Parsed, told
  <2>4. CASE ~Missing(refid) /\ file.status = "bad" /\ object.cls = "DoxyFile"
    <3>1. ParseObject(heap, o) = Raise(failed, "AttributeError") /\ told = Refuse("AttributeError")
      BY <1>2, <2>1, <2>2, <2>4 DEF ParseFile, FileRead
    <3> HIDE DEF failed
    <3>2. ParseObject(heap, o).raised = "AttributeError" /\ "AttributeError" \notin {Nothing, "ParsingError"} /\ told.raised = "AttributeError"
      BY <3>1, Raised DEF Refuse, Nothing
    <3> QED
      BY <3>2 DEF Parsed, told
  <2>5. CASE ~Missing(refid) /\ file.status = "bad" /\ object.cls # "DoxyFile"
    <3>1. ParseObject(heap, o) = Return(failed, <<>>) /\ told = Refuse("ParsingError")
      BY <1>2, <2>1, <2>2, <2>5 DEF ParseFile, FileRead
    <3> DEFINE yes == TRUE
               field == "error"
    <3>2. failed = With(heap, o, field, TRUE) /\ yes = TRUE /\ field \in {"parsed", "error"}
          /\ field \in {"parsed", "error", "members"}
      OBVIOUS
    <3> HIDE DEF yes, field, failed
    <3>3. Changed(o, heap, failed, field, yes)
      BY <3>2, MarkSays
    <3>4. SemBut(dir, failed, E \cup {o})
      BY <3>2, <3>3, ChangedSem
    <3>5. failed.objs[o].error = TRUE /\ failed.objs[o].parsed /\ failed.objs[o].what = what
      BY <3>3 DEF Changed, Fields, yes, field
    <3>6. Read(dir, failed, failed.objs[o])
      BY <3>1, <3>5 DEF Read, told
    <3>7. E \cup {o} = E
      OBVIOUS
    <3>8. SemBut(dir, failed, F)
      BY <3>4, <3>6, <3>7 DEF SemBut
    <3>9. ParseObject(heap, o).raised = Nothing /\ ParseObject(heap, o).heap = failed
      BY <3>1, Returned
    <3>10. failed.broken = heap.broken /\ failed.refs = heap.refs
           /\ \A p \in 1 .. Len(heap.objs) : p # o => failed.objs[p] = heap.objs[p]
      BY <3>3 DEF Changed
    <3> QED
      BY <3>5, <3>8, <3>9, <3>10 DEF Parsed
  <2>6. CASE ~Missing(refid) /\ file.status # "bad"
    <3> DEFINE h == IF object.cls = "DoxyGroup" THEN ParseGroup(heap, o) ELSE process_memberdefs(heap, o)
               more == IF object.cls = "DoxyGroup"
                       THEN (Inner(file.groups) \o Inner(file.classes)) \o MembersInFile(dir, refid)
                       ELSE MembersInFile(dir, refid)
    <3>1. ParseObject(heap, o) = Return(h, <<>>)
      BY <2>1, <2>6 DEF ParseFile
    <3>2. told = Answer(more)
      BY <1>2, <2>1, <2>2, <2>6 DEF FileRead
    <3>3. Gains(dir, o, heap, h, more)
      <4>1. CASE object.cls = "DoxyGroup"
        BY <2>6, <4>1, ParseGroupSays
      <4>2. CASE object.cls # "DoxyGroup"
        BY <2>6, <4>2, process_memberdefsSays
      <4> QED
        BY <4>1, <4>2
    <3> HIDE DEF h, more
    <3>4. Around(dir, o, heap, h) /\ h.refs = heap.refs
          /\ Whats(h, h.objs[o].members) = Whats(heap, object.members) \o more
      BY <3>3 DEF Gains
    <3>5. IsSeq(more)
      <4>1. IsSeq(MembersInFile(dir, refid))
        BY <2>6, process_memberdefsSays
      <4>2. IsSeq(Inner(file.groups)) /\ IsSeq(Inner(file.classes))
        <5>1. file.groups \in Seq(STRING) /\ file.classes \in Seq(STRING)
          BY <2>6, FileHasTypes
        <5>2. \A s : s \in Seq(STRING) => IsSeq(Inner(s))
          <6>1. \A s : s \in Seq(STRING) => Inner(s) \in Seq({<<r>> : r \in STRING})
            BY DEF Inner
          <6> QED
            BY <6>1 DEF IsSeq
        <5> QED
          BY <5>1, <5>2
      <4> QED
        BY <4>1, <4>2, ConcatIsSeq DEF more
    <3>6. Whats(heap, object.members) = <<>>
      BY DEF Whats
    <3>7. Whats(h, h.objs[o].members) = more
      BY <3>4, <3>5, <3>6, EmptyBehind
    <3>8. \A f \in {"error", "parsed", "what"} : h.objs[o][f] = object[f]
      BY <3>4 DEF Around, Fields
    <3>9. Read(dir, h, h.objs[o])
      BY <3>2, <3>7, <3>8 DEF Read, told
    <3>10. SemBut(dir, h, E)
      BY <3>4, AroundSem
    <3>11. SemBut(dir, h, F)
      BY <3>9, <3>10 DEF SemBut
    <3>12. ParseObject(heap, o).raised = Nothing /\ ParseObject(heap, o).heap = h
      BY <3>1, Returned
    <3>13. h.broken = heap.broken /\ \A p \in 1 .. Len(heap.objs) : p # o => h.objs[p] = heap.objs[p]
      BY <3>4 DEF Around
    <3> QED
      BY <3>4, <3>8, <3>11, <3>12, <3>13 DEF Parsed
  <2> QED
    BY <2>3, <2>4, <2>5, <2>6
<1> QED
  BY <1>3, <1>4

LEMMA CheckedFileSays ==
  ASSUME dir \in Directories, NEW E, NEW heap, HeapOK(heap), SemBut(dir, heap, E), NEW o, IsObject(heap, o),
         o \notin E, o # 1, heap.objs[o].cls = "DoxyFile" \/ AllThere(dir, heap)
  PROVE  Parsed(dir, E, o, heap, CheckedFile(heap, o))
<1>1. Read(dir, heap, heap.objs[o])
  BY DEF SemBut, IsObject
<1>2. CASE heap.objs[o].parsed
  <2>1. CheckedFile(heap, o) = Return(heap, <<>>)
    BY <1>2 DEF CheckedFile, Checked
  <2> QED
    BY <1>2, <2>1, Returned DEF Parsed
<1>3. CASE ~heap.objs[o].parsed
  <2> DEFINE yes == TRUE
             field == "parsed"
             marked == With(heap, o, field, TRUE)
             done == ParseObject(marked, o)
             more == E \cup {o}
  <2>1. CheckedFile(heap, o) = LeftBroken(done, o)
    BY <1>3 DEF CheckedFile, Checked
  <2>2. yes = TRUE /\ field \in {"parsed", "error"} /\ field \in {"parsed", "error", "members"}
    OBVIOUS
  <2> HIDE DEF yes, field
  <2>3. Changed(o, heap, marked, field, yes)
    BY <2>2, MarkSays
  <2> HIDE DEF marked
  <2>4. SemBut(dir, marked, more)
    BY <2>2, <2>3, ChangedSem
  <2>5. HeapOK(marked) /\ IsObject(marked, o)
    BY <2>3 DEF Changed, Kept, IsObject
  <2>6. marked.objs[o].parsed = TRUE
        /\ \A f \in {"cls", "what", "error", "members"} : marked.objs[o][f] = heap.objs[o][f]
    BY <2>3 DEF Changed, Fields, field, yes
  <2>7. marked.objs[o].cls = "DoxyFile" \/ AllThere(dir, marked)
    BY <2>3, <2>6 DEF Changed, AllThere
  <2>8. marked.objs[o].parsed /\ ~marked.objs[o].error /\ marked.objs[o].error \in BOOLEAN
        /\ marked.objs[o].members = <<>>
    BY <1>1, <1>3, <2>6 DEF Read
  <2>9. E = more \ {o} /\ o \in more
    OBVIOUS
  <2> HIDE DEF more
  <2>10. Parsed(dir, E, o, marked, done)
    BY <2>4, <2>5, <2>7, <2>8, <2>9, ParseObjectSays
  <2> HIDE DEF done
  <2>11. CASE done.raised # Nothing
    <3>1. Outcome(marked, done)
      BY <2>5, ParseObjectOutcome DEF done
    <3>2. LeftBroken(done, o).raised = done.raised
      BY <3>1, LeftBrokenOutcome
    <3>3. MembersOf(dir, heap.objs[o].what).raised = done.raised /\ done.raised # "ParsingError"
      BY <2>6, <2>10, <2>11 DEF Parsed
    <3> QED
      BY <2>1, <2>11, <3>2, <3>3 DEF Parsed
  <2>12. CASE done.raised = Nothing
    <3>1. LeftBroken(done, o) = done
      BY <2>12 DEF LeftBroken
    <3>2. /\ done.heap.broken = marked.broken /\ done.heap.refs = marked.refs
          /\ SemBut(dir, done.heap, E) /\ done.heap.objs[o].parsed
          /\ \A p \in 1 .. Len(marked.objs) : p # o => done.heap.objs[p] = marked.objs[p]
      BY <2>10, <2>12 DEF Parsed
    <3>3. /\ marked.broken = heap.broken /\ marked.refs = heap.refs /\ Len(marked.objs) = Len(heap.objs)
          /\ \A p \in 1 .. Len(heap.objs) : p # o => marked.objs[p] = heap.objs[p]
      BY <2>3 DEF Changed
    <3> QED
      BY <2>1, <2>12, <3>1, <3>2, <3>3 DEF Parsed
  <2> QED
    BY <2>11, <2>12
<1> QED
  BY <1>2, <1>3

\* What an object says that has been checked, and confirmed to have no error.
Says(d, heap, o, told, done) ==
  /\ told.raised = done.raised
  /\ done.raised = Nothing => told = Answer(Whats(done.heap, done.heap.objs[o].members))

LEMMA ConfirmedSays ==
  ASSUME NEW d, NEW heap, NEW o, NEW done, IsObject(heap, o), Outcome(heap, done),
         done.raised # Nothing => MembersOf(d, heap.objs[o].what).raised = done.raised,
         done.raised = Nothing => Read(d, done.heap, done.heap.objs[o]) /\ done.heap.objs[o].parsed
  PROVE  Says(d, heap, o, MembersOf(d, heap.objs[o].what), Confirmed(done, o))
<1> DEFINE what == heap.objs[o].what
           told == MembersOf(d, what)
<1>1. done.heap.objs[o].what = what
  BY DEF Outcome, Kept, Extends, SameObject, IsObject
<1> HIDE DEF what
<1>2. CASE done.raised # Nothing
  <2>1. Confirmed(done, o) = done
    BY <1>2 DEF Confirmed, Then
  <2> QED
    BY <1>2, <2>1 DEF Says, what
<1>3. CASE done.raised = Nothing /\ done.heap.objs[o].error
  <2>1. Confirmed(done, o) = Raise(done.heap, "ParsingError")
    BY <1>3 DEF Confirmed, Then
  <2>2. told = Refuse("ParsingError")
    BY <1>1, <1>3 DEF Read
  <2>3. Confirmed(done, o).raised = "ParsingError" /\ "ParsingError" # Nothing
    BY <2>1, Raised DEF Nothing
  <2> QED
    BY <2>2, <2>3 DEF Says, Refuse, what
<1>4. CASE done.raised = Nothing /\ ~done.heap.objs[o].error
  <2>1. Confirmed(done, o) = done
    BY <1>4 DEF Confirmed, Then
  <2>2. told = Answer(Whats(done.heap, done.heap.objs[o].members))
    BY <1>1, <1>4 DEF Read
  <2> QED
    BY <1>4, <2>1, <2>2 DEF Says, Answer, what
<1> QED
  BY <1>2, <1>3, <1>4

-----------------------------------------------------------------------------
(***************************************************************************)
(* The index, beside a reading of it: as many of its compounds have been   *)
(* added as have their object.                                             *)
(***************************************************************************)
IndexUpTo(d, start, told, refids, h) ==
  /\ Kept(start, h) /\ h.broken = start.broken
  /\ SemBut(d, h, {1})
  /\ \A f \in Fields : f # "members" => h.objs[1][f] = start.objs[1][f]
  /\ Whats(h, h.objs[1].members) = told
  /\ DOMAIN h.refs = refids

LEMMA FirstIsThere == ASSUME NEW heap, HeapOK(heap) PROVE IsObject(heap, 1)
BY DEF HeapOK, ObjectsOK, IsObject

LEMMA AddToIndexSays ==
  ASSUME NEW d, NEW start, HeapOK(start), NEW told, NEW refids, NEW heap, IndexUpTo(d, start, told, refids, heap),
         NEW more \in Seq(0 .. Len(heap.objs)), NEW says, says = Whats(heap, more)
  PROVE  IndexUpTo(d, start, told \o says, refids, AddToIndex(heap, more).heap)
<1> DEFINE n == Len(heap.objs)
           object == heap.objs[1]
           all == object.members \o more
           field == "members"
           h == With(heap, 1, field, all)
           E == {1}
<1>1. Kept(start, heap) /\ HeapOK(heap) /\ SemBut(d, heap, E)
  BY DEF IndexUpTo, Kept
<1>2. IsObject(heap, 1) /\ n \in Nat
  BY <1>1, FirstIsThere DEF HeapOK, ObjectsOK
<1>3. ObjectOK(n, object)
  BY <1>1, <1>2, Known1
<1>4. object.members \in Seq(0 .. n) /\ all \in Seq(0 .. n)
  BY <1>3 DEF ObjectOK
<1>5. ObjectOK(n, [object EXCEPT ![field] = all])
  <2> HIDE DEF all, object, n
  <2> QED
    BY <1>2, <1>3, <1>4 DEF ObjectOK, Fields
<1>6. field \in Fields \ {"cls", "refid", "name", "given", "what"} /\ field \in {"parsed", "error", "members"}
  BY DEF Fields
<1>7. AddToIndex(heap, more) = Return(h, <<>>)
  BY DEF AddToIndex
<1> HIDE DEF all, field
<1>8. Changed(1, heap, h, field, all)
  BY <1>1, <1>2, <1>5, <1>6, ChangedSays
<1> HIDE DEF h
<1>9. SemBut(d, h, E \cup {1})
  BY <1>1, <1>2, <1>6, <1>8, ChangedSem
<1>10. E \cup {1} = {1}
  OBVIOUS
<1>11. Kept(start, h)
  BY <1>1, <1>8, KeptOn DEF Changed
<1>12. \A f \in Fields : f # "members" => h.objs[1][f] = start.objs[1][f]
  BY <1>8 DEF Changed, IndexUpTo, field
<1>13. Whats(h, h.objs[1].members) = told \o says
  <2>1. h.objs[1].members = all
    BY <1>8 DEF Changed, field
  <2>2. Whats(h, all) = Whats(heap, all)
    BY <1>1, <1>4, <1>8, WhatsStay DEF Changed
  <2>3. Whats(heap, all) = Whats(heap, object.members) \o Whats(heap, more)
    <3> DEFINE S == 0 .. n
    <3>1. object.members \in Seq(S) /\ more \in Seq(S)
      BY <1>4
    <3> HIDE DEF S, object
    <3>2. Whats(heap, object.members \o more) = Whats(heap, object.members) \o Whats(heap, more)
      BY <3>1, WhatsConcat
    <3> QED
      BY <3>2 DEF all, object
  <2>4. Whats(heap, object.members) = told
    BY DEF IndexUpTo
  <2> QED
    BY <2>1, <2>2, <2>3, <2>4
<1>14. DOMAIN h.refs = refids /\ h.broken = start.broken
  BY <1>8 DEF Changed, IndexUpTo
<1>15. AddToIndex(heap, more).heap = h
  BY <1>7, Returned
<1> QED
  BY <1>9, <1>10, <1>11, <1>12, <1>13, <1>14, <1>15 DEF IndexUpTo

LEMMA AddToIndexRaisesNone == ASSUME NEW heap, NEW more PROVE AddToIndex(heap, more).raised = Nothing
BY Returned DEF AddToIndex

\* A compound's object is made.
LEMMA CompoundMade ==
  ASSUME dir \in Directories, NEW start, HeapOK(start), NEW told, NEW refids, NEW heap,
         IndexUpTo(dir, start, told, refids, heap),
         NEW mem \in Range(dir.index), mem.kind \in DOMAIN Classes, mem.refid \notin refids,
         NEW made, made = convert_mem(heap, mem)
  PROVE  /\ IndexUpTo(dir, start, told, refids \cup {mem.refid}, made.heap)
         /\ made.raised = Nothing /\ IsObject(made.heap, made.value) /\ made.value # 0 /\ made.value # 1
         /\ What(made.heap, made.value) = <<mem.refid>>
         /\ Fresh(made.heap.objs[made.value])
         /\ made.heap.objs[made.value].cls = Classes[mem.kind]
<1> DEFINE object == Object(Classes[mem.kind], mem.refid, mem.name, TRUE, mem.what)
           E == {1}
           next == Len(heap.objs) + 1
<1>1. Kept(start, heap) /\ HeapOK(heap) /\ SemBut(dir, heap, E) /\ IsObject(heap, 1)
      /\ Len(heap.objs) \in Nat /\ Len(heap.objs) # 0
  BY FirstIsThere DEF IndexUpTo, Kept, HeapOK, ObjectsOK
<1>2. mem.refid \notin DOMAIN heap.refs
  BY DEF IndexUpTo
<1>3. mem.what = <<mem.refid>> /\ mem.refid # NoRef /\ mem.name \in Seq(STRING)
  BY CompoundFound DEF Names
<1>4. made = FromRefid(heap, mem.refid, object)
  BY DEF convert_mem
<1>5. next # 1 /\ next # 0
  BY <1>1
<1>6. Placed(dir, next, object)
  BY <1>5, CompoundPlaced
<1>7. ObjectOK(Len(heap.objs), object) /\ Fresh(object) /\ object.refid = mem.refid /\ object.what = mem.what
  <2> DEFINE cls == Classes[mem.kind]
             given == TRUE
             n == Len(heap.objs)
             refid == mem.refid
             path == mem.name
             what == mem.what
  <2>1. object = Object(cls, refid, path, given, what)
    OBVIOUS
  <2>2. n \in Nat /\ path \in Seq(STRING)
    BY <1>1, <1>3
  <2> HIDE DEF cls, given, object, n, refid, path, what
  <2>3. ObjectOK(n, object) /\ Fresh(object) /\ object.refid = refid /\ object.what = what
    BY <2>1, <2>2 DEF ObjectOK, Object, Fields, Fresh
  <2> QED
    BY <2>3 DEF n, refid, what
<1>8. object.cls = Classes[mem.kind]
  BY DEF Object
<1>9. next = Len(heap.objs) + 1
  OBVIOUS
<1> HIDE DEF next, object
<1>10. IsMade(dir, 1, heap, mem.refid, object, next, made)
  BY <1>1, <1>2, <1>4, <1>6, <1>7, <1>9, MadeNew
<1>11. /\ Around(dir, 1, heap, made.heap) /\ made.raised = Nothing /\ made.heap.objs[1] = heap.objs[1]
       /\ made.value = next /\ IsObject(made.heap, made.value) /\ made.heap.objs[made.value] = object
       /\ What(made.heap, made.value) = <<mem.refid>>
       /\ made.heap.refs = Put(heap.refs, mem.refid, next)
  BY <1>3, <1>7, <1>10 DEF IsMade, IsObject
<1>12. 1 \in E
  OBVIOUS
<1> HIDE DEF E
<1>13. SemBut(dir, made.heap, E)
  BY <1>1, <1>11, <1>12, AroundSem
<1>14. Kept(start, made.heap) /\ made.heap.broken = start.broken
  BY <1>1, <1>11, KeptOn DEF Around, IndexUpTo
<1>15. DOMAIN made.heap.refs = refids \cup {mem.refid}
  BY <1>11 DEF Put, IndexUpTo
<1>16. Whats(made.heap, made.heap.objs[1].members) = told
  <2>1. heap.objs[1].members \in Seq(0 .. Len(heap.objs))
    BY <1>1, Known1 DEF ObjectOK
  <2>2. Whats(made.heap, heap.objs[1].members) = Whats(heap, heap.objs[1].members)
    BY <1>1, <1>11, <2>1, WhatsStay DEF Around
  <2> QED
    BY <1>11, <2>2 DEF IndexUpTo
<1>17. IndexUpTo(dir, start, told, refids \cup {mem.refid}, made.heap)
  BY <1>11, <1>13, <1>14, <1>15, <1>16 DEF IndexUpTo, E
<1> QED
  BY <1>5, <1>7, <1>8, <1>11, <1>17

LEMMA HeaderSays ==
  ASSUME dir \in Directories, NEW start, HeapOK(start), NEW told, NEW refids, NEW heap,
         IndexUpTo(dir, start, told, refids, heap), NEW o, IsObject(heap, o), o # 1,
         heap.objs[o].cls = "DoxyFile", NEW read, read = Confirmed(CheckedFile(heap, o), o)
  PROVE  /\ Says(dir, heap, o, MembersOf(dir, heap.objs[o].what), read) /\ Outcome(heap, read)
         /\ read.raised = Nothing => IndexUpTo(dir, start, told, refids, read.heap)
<1> DEFINE E == {1}
           done == CheckedFile(heap, o)
<1>1. Kept(start, heap) /\ HeapOK(heap) /\ SemBut(dir, heap, E) /\ o \notin E /\ IsObject(heap, 1)
  BY FirstIsThere DEF IndexUpTo, Kept
<1> HIDE DEF E
<1>2. Parsed(dir, E, o, heap, done) /\ Outcome(heap, done)
  BY <1>1, CheckedFileSays, CheckedFileOutcome
<1> HIDE DEF done
<1>3. read = Confirmed(done, o)
  BY DEF done
<1>4. done.raised = Nothing =>
        /\ done.heap.broken = heap.broken /\ done.heap.refs = heap.refs /\ SemBut(dir, done.heap, E)
        /\ done.heap.objs[1] = heap.objs[1] /\ Kept(heap, done.heap)
  BY <1>1, <1>2 DEF Parsed, IsObject, Outcome
<1>5. done.raised = Nothing => Read(dir, done.heap, done.heap.objs[o]) /\ done.heap.objs[o].parsed
  <2>1. HeapOK(done.heap) /\ IsObject(done.heap, o)
    BY <1>1, <1>2, StillThere, OutcomeHeap
  <2> QED
    BY <1>1, <1>2, <2>1 DEF Parsed, SemBut, IsObject
<1>6. done.raised # Nothing => MembersOf(dir, heap.objs[o].what).raised = done.raised
  BY <1>2 DEF Parsed
<1>7. Says(dir, heap, o, MembersOf(dir, heap.objs[o].what), read)
  BY <1>2, <1>3, <1>5, <1>6, ConfirmedSays
<1>8. Outcome(heap, read) /\ read.heap = done.heap /\ (read.raised = Nothing => read = done)
  BY <1>2, <1>3, ConfirmedOutcome
<1>9. done.raised = Nothing => IndexUpTo(dir, start, told, refids, done.heap)
  <2> SUFFICES ASSUME done.raised = Nothing PROVE IndexUpTo(dir, start, told, refids, done.heap)
    OBVIOUS
  <2>1. Kept(start, done.heap)
    BY <1>1, <1>4, KeptOn
  <2>2. heap.objs[1].members \in Seq(0 .. Len(heap.objs))
    BY <1>1, Known1 DEF ObjectOK
  <2>3. Whats(done.heap, heap.objs[1].members) = Whats(heap, heap.objs[1].members)
    BY <1>1, <1>4, <2>2, WhatsStay
  <2> QED
    BY <1>4, <2>1, <2>3 DEF IndexUpTo, E
<1> QED
  BY <1>7, <1>8, <1>9

\* One more compound, in the index and in the reading of it.
OneCompound(d, start, says, refids, done) ==
  /\ says.raised = done.raised
  /\ done.raised = Nothing => says = Answer(says.value) /\ IndexUpTo(d, start, says.value, refids, done.heap)

LEMMA ParseCompoundSays ==
  ASSUME dir \in Directories, NEW start, HeapOK(start), NEW told, NEW refids, NEW done,
         done.raised = Nothing, IndexUpTo(dir, start, told, refids, done.heap),
         NEW mem \in Range(dir.index), mem.refid \notin refids
  PROVE  OneCompound(dir, start, CompoundRead(dir, Answer(told), mem), refids \cup {mem.refid}, ParseCompound(done, mem))
<1> DEFINE made == convert_mem(done.heap, mem)
           heap == made.heap
           o == made.value
           read == Confirmed(CheckedFile(heap, o), o)
           after == ParseCompound(done, mem)
           all == refids \cup {mem.refid}
           file == <<mem.refid>>
           says == CompoundRead(dir, Answer(told), mem)
<1>1. says = IF mem.kind \notin DOMAIN Classes THEN Refuse("StandardError")
             ELSE IF mem.kind # "file" THEN Answer(Append(told, file))
             ELSE IF ~mem.header THEN Answer(told)
             ELSE AndThen(FileRead(dir, file), LAMBDA more : Answer(told \o (more \o <<file>>)))
  BY DEF CompoundRead, AndThen, Answer
<1> HIDE DEF says
<1>2. CASE mem.kind \notin DOMAIN Classes
  <2>1. made = Return(done.heap, 0)
    BY <1>2 DEF convert_mem
  <2>2. made.raised = Nothing /\ o = 0
    BY <2>1, Returned
  <2>3. after = Raise(heap, "StandardError")
    BY <2>2 DEF ParseCompound, Then
  <2>4. after.raised = "StandardError" /\ says.raised = "StandardError" /\ "StandardError" # Nothing
    BY <1>1, <1>2, <2>3, Raised DEF Refuse, Nothing
  <2> QED
    BY <2>4 DEF OneCompound, says
<1>3. CASE mem.kind \in DOMAIN Classes
  <2>1. /\ IndexUpTo(dir, start, told, all, heap)
        /\ made.raised = Nothing /\ IsObject(heap, o) /\ o # 0 /\ o # 1
        /\ What(heap, o) = file
        /\ heap.objs[o].cls = Classes[mem.kind]
    BY <1>3, CompoundMade
  <2>3. after = IF mem.kind # "file" THEN AddToIndex(heap, <<o>>)
                ELSE IF ~mem.header THEN Return(heap, <<>>)
                ELSE Then(read, LAMBDA h, nothing : AddToIndex(h, h.objs[o].members \o <<o>>))
    BY <2>1 DEF ParseCompound, Then, CheckedFile
  <2> HIDE DEF made, all, after, file
  <2>8. HeapOK(heap) /\ Whats(heap, heap.objs[1].members) = told
    BY <2>1 DEF IndexUpTo, Kept
  <2>9. Len(heap.objs) \in Nat
    BY <2>8 DEF HeapOK, ObjectsOK
  <2>2. HeapOK(heap) /\ o \in 0 .. Len(heap.objs) /\ heap.objs[o].what = file /\ Len(heap.objs) \in Nat
    BY <2>1, <2>8, <2>9 DEF IsObject, What
  <2>4. IsSeq(told)
    BY <2>8, FirstIsThere, MembersAreSeq
  <2>5. CASE mem.kind # "file"
    <3> DEFINE one == <<o>>
               more == <<file>>
    <3>1. one \in Seq(0 .. Len(heap.objs)) /\ more = Whats(heap, one)
      BY <2>1, <2>2 DEF Whats
    <3>2. after = AddToIndex(heap, one) /\ says = Answer(Append(told, file))
      BY <1>1, <1>3, <2>3, <2>5
    <3> HIDE DEF one
    <3>3. IndexUpTo(dir, start, told \o more, all, AddToIndex(heap, one).heap)
      <4> HIDE DEF more
      <4> QED
        BY <2>1, <3>1, AddToIndexSays
    <3>4. Append(told, file) = told \o more
      <4>1. PICK S : told \in Seq(S)
        BY <2>4 DEF IsSeq
      <4>2. told \in Seq(S \cup {file})
        BY <4>1
      <4> QED
        BY <4>2
    <3>5. after.raised = Nothing
      BY <3>2, AddToIndexRaisesNone
    <3> HIDE DEF more
    <3>6. says.raised = Nothing /\ says.value = told \o more /\ says = Answer(says.value)
      BY <3>2, <3>4 DEF Answer
    <3> QED
      BY <3>2, <3>3, <3>5, <3>6 DEF OneCompound, says, after, all
  <2>6. CASE mem.kind = "file" /\ ~mem.header
    <3>1. after = Return(heap, <<>>) /\ says = Answer(told)
      BY <1>1, <1>3, <2>3, <2>6
    <3>2. after.raised = Nothing /\ after.heap = heap /\ says.raised = Nothing /\ says.value = told
      BY <3>1, Returned DEF Answer
    <3> QED
      BY <2>1, <3>1, <3>2 DEF OneCompound, says, after, all
  <2>7. CASE mem.kind = "file" /\ mem.header
    <3> DEFINE its == FileRead(dir, file)
               h == read.heap
               seq == h.objs[o].members
               more == seq \o <<o>>
    <3>1. heap.objs[o].cls = "DoxyFile"
      BY <1>3, <2>1, <2>7, KindsOfFiles
    <3>2. its = MembersOf(dir, heap.objs[o].what)
      <4>1. SemBut(dir, heap, {1})
        BY <2>1 DEF IndexUpTo
      <4>2. Placed(dir, o, heap.objs[o])
        BY <2>1, <4>1 DEF SemBut, IsObject
      <4>3. file # Index /\ KindOf(dir, file) = "DoxyFile"
        BY <2>1, <2>2, <3>1, <4>2 DEF Placed
      <4> QED
        BY <2>2, <4>3 DEF MembersOf, OfFiles
    <3>3. /\ Says(dir, heap, o, MembersOf(dir, heap.objs[o].what), read) /\ Outcome(heap, read)
          /\ read.raised = Nothing => IndexUpTo(dir, start, told, all, read.heap)
      BY <2>1, <3>1, HeaderSays
    <3>4. after = IF read.raised # Nothing THEN read ELSE AddToIndex(h, more)
      BY <2>3, <2>7 DEF Then
    <3>5. says = IF its.raised # Nothing THEN its ELSE Answer(told \o (its.value \o <<file>>))
      BY <1>1, <1>3, <2>7 DEF AndThen
    <3> HIDE DEF read, its
    <3>6. its.raised = read.raised /\ (read.raised = Nothing => its = Answer(Whats(h, seq)))
      BY <3>2, <3>3 DEF Says
    <3>7. CASE read.raised # Nothing
      BY <3>4, <3>5, <3>6, <3>7 DEF OneCompound, says, after
    <3>8. CASE read.raised = Nothing
      <4>1. HeapOK(h) /\ IsObject(h, o) /\ Kept(heap, h)
        BY <2>1, <2>2, <3>3, OutcomeHeap, StillThere
      <4>2. seq \in Seq(0 .. Len(h.objs)) /\ o \in 0 .. Len(h.objs)
        BY <2>2, <4>1, Known1, StillThere DEF ObjectOK
      <4>3. What(h, o) = file
        BY <2>1, <2>2, <4>1, WhatStays
      <4> DEFINE S == 0 .. Len(h.objs)
                 one == <<o>>
                 added == its.value \o <<file>>
      <4> HIDE DEF h, seq
      <4>4. seq \in Seq(S) /\ one \in Seq(S) /\ more \in Seq(S)
        BY <4>2
      <4>5. Whats(h, one) = <<file>>
        BY <4>3 DEF Whats
      <4>6. Whats(h, more) = Whats(h, seq) \o Whats(h, one)
        <5> HIDE DEF S, one
        <5>1. Whats(h, seq \o one) = Whats(h, seq) \o Whats(h, one)
          BY <4>4, WhatsConcat
        <5> QED
          BY <5>1 DEF one
      <4>7. its.value = Whats(h, seq) /\ its.raised = Nothing
        BY <3>6, <3>8 DEF Answer
      <4>8. added = Whats(h, more)
        BY <4>5, <4>6, <4>7
      <4> HIDE DEF more, added
      <4>9. IndexUpTo(dir, start, told \o added, all, AddToIndex(h, more).heap)
        <5>1. IndexUpTo(dir, start, told, all, h)
          BY <3>3, <3>8 DEF h
        <5>2. more \in Seq(0 .. Len(h.objs))
          BY <4>4
        <5> QED
          BY <4>8, <5>1, <5>2, AddToIndexSays
      <4>10. after = AddToIndex(h, more) /\ after.raised = Nothing
        BY <3>4, <3>8, AddToIndexRaisesNone
      <4>11. says.raised = Nothing /\ says.value = told \o added /\ says = Answer(says.value)
        BY <3>5, <4>7 DEF Answer, added
      <4> QED
        BY <4>9, <4>10, <4>11 DEF OneCompound, says, after, all
    <3> QED
      BY <3>7, <3>8
  <2> QED
    BY <2>5, <2>6, <2>7
<1> QED
  BY <1>2, <1>3

CompoundSo(of, start, seq, i, done) ==
  /\ Outcome(start.heap, done)
  /\ OneCompound(dir, start.heap, of.told[i], {seq[j].refid : j \in 1 .. i}, done)

CompoundsTold == INSTANCE FoldSteps WITH Turn <- CompoundTurn, Holds <- CompoundSo
CompoundsRead == INSTANCE FoldSteps WITH Turn <- CompoundRead, Holds <- CompoundSo

LEMMA IndexReadLoop ==
  ASSUME NEW d
  PROVE  IndexRead(d) = CompoundsRead!Loop(d, Answer(<<>>), d.index)
BY DEF IndexRead, CompoundsRead!Loop, FoldLeft, MapThenFoldSet, Max, CompoundsRead!Last

LEMMA ParseIndexLoop ==
  ASSUME NEW of, NEW heap
  PROVE  ParseIndex(heap) = CompoundsTold!Loop(of, Return(heap, <<>>), dir.index)
BY DEF ParseIndex, CompoundsTold!Loop, CompoundTurn, FoldLeft, MapThenFoldSet, Max, CompoundsTold!Last

LEMMA ParseIndexSays ==
  ASSUME dir \in Directories, NEW heap, HeapOK(heap), SemBut(dir, heap, {1}), DOMAIN heap.refs = {},
         heap.objs[1].members = <<>>
  PROVE  OneCompound(dir, heap, IndexRead(dir), {mem.refid : mem \in Range(dir.index)}, ParseIndex(heap))
<1> DEFINE start == Return(heap, <<>>)
           none == Answer(<<>>)
           index == dir.index
           n == Len(index)
<1>1. index \in Seq(Compounds)
  BY DirectoriesAssumption
<1>2. n \in Nat /\ DOMAIN index = 1 .. n
  BY <1>1, LenProperties
<1> HIDE DEF n
<1>3. PICK told : CompoundsRead!Turns(dir, none, index, n, told)
                  /\ CompoundsRead!Loop(dir, none, index) = told[n]
  BY <1>2, LeastNumber, CompoundsRead!LoopTurns
<1> DEFINE of == [told |-> told]
<1>4. of.told = told
  OBVIOUS
<1> HIDE DEF of
<1>5. ParseIndex(heap) = CompoundsTold!Loop(of, start, index) /\ IndexRead(dir) = told[n]
  BY <1>3, ParseIndexLoop, IndexReadLoop
<1>6. start.heap = heap /\ start.raised = Nothing /\ Outcome(heap, start)
  BY KeptItself, ReturnOutcome, Returned
<1> HIDE DEF start
<1>7. CompoundSo(of, start, index, 0, start)
  <2> DEFINE nothing == <<>>
             empty == {index[j].refid : j \in 1 .. 0}
  <2>1. told[0] = none /\ none.raised = Nothing /\ none.value = nothing /\ none = Answer(none.value)
    BY <1>3 DEF CompoundsRead!Turns, Answer
  <2>2. Whats(heap, heap.objs[1].members) = nothing
    BY DEF Whats
  <2>3. empty = {}
    OBVIOUS
  <2> HIDE DEF none, nothing, empty
  <2>4. IndexUpTo(dir, heap, nothing, empty, heap)
    BY <2>2, <2>3, KeptItself DEF IndexUpTo
  <2>5. OneCompound(dir, heap, of.told[0], empty, start)
    BY <1>4, <1>6, <2>1, <2>4 DEF OneCompound
  <2> QED
    BY <1>6, <2>5 DEF CompoundSo, empty
<1>8. ASSUME NEW i \in 1 .. n, NEW done, CompoundSo(of, start, index, i - 1, done)
      PROVE  CompoundSo(of, start, index, i, CompoundTurn(of, done, index[i]))
  <2> DEFINE mem == index[i]
             after == ParseCompound(done, mem)
             before == {index[j].refid : j \in 1 .. i - 1}
             all == {index[j].refid : j \in 1 .. i}
  <2>1. mem \in Compounds /\ mem \in Range(dir.index) /\ i \in DOMAIN index
    BY <1>1, <1>2, ElementAt DEF Range
  <2>2. mem.name \in Seq(STRING)
    BY <2>1 DEF Compounds, Names
  <2>3. Outcome(heap, done) /\ OneCompound(dir, heap, told[i - 1], before, done)
    BY <1>4, <1>6, <1>8 DEF CompoundSo
  <2>4. told[i] = CompoundRead(dir, told[i - 1], mem)
    BY <1>3 DEF CompoundsRead!Turns
  <2>5. mem.refid \notin before
    <3> SUFFICES ASSUME NEW j \in 1 .. i - 1, index[j].refid = mem.refid PROVE FALSE
      OBVIOUS
    <3>1. j \in DOMAIN index /\ j # i
      BY <1>2
    <3> QED
      BY <2>1, <3>1, ConsistentAssumption DEF Consistent
  <2>6. all = before \cup {mem.refid}
    <3>1. \A j \in 1 .. i : j = i \/ j \in 1 .. i - 1
      BY <1>2
    <3>2. i \in 1 .. i /\ \A j \in 1 .. i - 1 : j \in 1 .. i
      BY <1>2
    <3> QED
      BY <3>1, <3>2
  <2> HIDE DEF mem, before, all, index
  <2>7. OneCompound(dir, heap, told[i], all, after)
    <3>1. CASE done.raised # Nothing
      <4>1. after = done
        BY <3>1 DEF ParseCompound, Then
      <4>2. told[i - 1].raised = done.raised
        BY <2>3 DEF OneCompound
      <4>3. told[i] = told[i - 1]
        BY <2>4, <3>1, <4>2 DEF CompoundRead, AndThen
      <4> QED
        BY <3>1, <4>1, <4>2, <4>3 DEF OneCompound
    <3>2. CASE done.raised = Nothing
      <4> DEFINE value == told[i - 1].value
      <4>1. told[i - 1] = Answer(value) /\ IndexUpTo(dir, heap, value, before, done.heap)
        BY <2>3, <3>2 DEF OneCompound
      <4> HIDE DEF value, after
      <4>2. OneCompound(dir, heap, CompoundRead(dir, Answer(value), mem), before \cup {mem.refid}, after)
        BY <2>1, <2>5, <3>2, <4>1, ParseCompoundSays DEF after
      <4> QED
        BY <2>4, <2>6, <4>1, <4>2
    <3> QED
      BY <3>1, <3>2
  <2>8. Outcome(heap, after)
    BY <2>2, <2>3, ParseCompoundOutcome
  <2> HIDE DEF after
  <2>9. CompoundTurn(of, done, mem) = after
    BY DEF CompoundTurn, after
  <2> QED
    BY <1>4, <1>6, <2>7, <2>8, <2>9 DEF CompoundSo, mem, all
<1>9. CompoundSo(of, start, index, n, CompoundsTold!Loop(of, start, index))
  <2> HIDE DEF index
  <2> QED
    BY <1>2, <1>7, <1>8, LeastNumber, CompoundsTold!LoopKeeps
<1>10. {index[j].refid : j \in 1 .. n} = {mem.refid : mem \in Range(dir.index)}
  BY <1>2 DEF Range
<1> QED
  BY <1>4, <1>5, <1>6, <1>9, <1>10 DEF CompoundSo

\* An index that cannot be read is refused by an exception that is not of the library.
IndexRaises(d, start, seq, i, told) == told.raised \notin {"NoSuchMember", "ParsingError"}

CompoundsRaise == INSTANCE FoldSteps WITH Turn <- CompoundRead, Holds <- IndexRaises

LEMMA IndexReadRaises ==
  ASSUME dir \in Directories
  PROVE  IndexRead(dir).raised \notin {"NoSuchMember", "ParsingError"}
<1> DEFINE start == Answer(<<>>)
           index == dir.index
           n == Len(index)
<1>1. n \in Nat /\ DOMAIN index = 1 .. n
  BY DirectoriesAssumption, LenProperties
<1>2. IndexRead(dir) = CompoundsRaise!Loop(dir, start, index)
  BY DEF IndexRead, CompoundsRaise!Loop, FoldLeft, MapThenFoldSet, Max, CompoundsRaise!Last
<1>3. ASSUME NEW i \in 1 .. n, NEW told, IndexRaises(dir, start, index, i - 1, told)
      PROVE  IndexRaises(dir, start, index, i, CompoundRead(dir, told, index[i]))
  <2> DEFINE mem == index[i]
             file == <<mem.refid>>
             its == FileRead(dir, file)
  <2>1. mem \in Range(dir.index)
    BY <1>1 DEF Range
  <2>2. mem.kind = "file" /\ mem.kind \in DOMAIN Classes => KindOf(dir, file) = "DoxyFile"
    BY <2>1, CompoundFound, KindsOfFiles
  <2> HIDE DEF mem, file
  <2>3. mem.kind = "file" /\ mem.kind \in DOMAIN Classes => its.raised \notin {"NoSuchMember", "ParsingError"}
    BY <2>2 DEF FileRead, Refuse, Answer, Nothing
  <2> HIDE DEF its
  <2>4. CompoundRead(dir, told, mem) =
          IF told.raised # Nothing THEN told
          ELSE IF mem.kind \notin DOMAIN Classes THEN Refuse("StandardError")
          ELSE IF mem.kind # "file" THEN Answer(Append(told.value, file))
          ELSE IF ~mem.header THEN told
          ELSE IF its.raised # Nothing THEN its ELSE Answer(told.value \o (its.value \o <<file>>))
    BY DEF CompoundRead, AndThen, its, file
  <2>5. CompoundRead(dir, told, mem).raised \notin {"NoSuchMember", "ParsingError"}
    BY <1>3, <2>3, <2>4 DEF IndexRaises, Refuse, Answer, Nothing
  <2> QED
    BY <2>5 DEF IndexRaises, mem
<1>4. IndexRaises(dir, start, index, 0, start)
  BY DEF IndexRaises, Answer, Nothing
<1>5. IndexRaises(dir, start, index, n, CompoundsRaise!Loop(dir, start, index))
  <2> HIDE DEF n, index, start
  <2> QED
    BY <1>1, <1>3, <1>4, LeastNumber, CompoundsRaise!LoopKeeps
<1> QED
  BY <1>2, <1>5 DEF IndexRaises

LEMMA MembersOfRaises ==
  ASSUME dir \in Directories, NEW what
  PROVE  MembersOf(dir, what).raised # "NoSuchMember"
<1>1. FileRead(dir, what).raised # "NoSuchMember"
  BY DEF FileRead, Refuse, Answer, Nothing
<1>2. Answer(<<>>).raised # "NoSuchMember"
  BY DEF Answer, Nothing
<1> QED
  BY <1>1, <1>2, IndexReadRaises DEF MembersOf

-----------------------------------------------------------------------------
(***************************************************************************)
(* Each operation, as long as no parse has been left by an exception.      *)
(***************************************************************************)
Whole(d, heap) == HeapOK(heap) /\ heap.broken = {} /\ Sem(d, heap)

Fine(d, done) ==
  /\ Good(d, done.heap)
  /\ done.raised \in {Nothing, "NoSuchMember"} => Whole(d, done.heap)

LEMMA WholeGood == ASSUME NEW d, NEW heap, Whole(d, heap) PROVE Good(d, heap)
BY DEF Whole, Good

LEMMA FineReturned ==
  ASSUME NEW d, NEW heap, Whole(d, heap), NEW value
  PROVE  Fine(d, Return(heap, value))
BY Returned DEF Fine, Whole, Good

LEMMA FineRaised ==
  ASSUME NEW d, NEW heap, Whole(d, heap), NEW what
  PROVE  Fine(d, Raise(heap, what))
BY Raised DEF Fine, Whole, Good

CheckedSo(d, heap, o, done) ==
  /\ Fine(d, done)
  /\ done.raised # Nothing =>
        done.raised # "ParsingError" /\ MembersOf(d, heap.objs[o].what).raised = done.raised
  /\ done.raised = Nothing => Read(d, done.heap, done.heap.objs[o]) /\ done.heap.objs[o].parsed

LEMMA LeftBrokenNoted ==
  ASSUME NEW heap, NEW done, Outcome(heap, done), NEW o, done.raised # Nothing
  PROVE  LeftBroken(done, o).heap.broken # {}
<1>1. done = [heap |-> done.heap, raised |-> done.raised, value |-> done.value]
      /\ done.heap = [objs |-> done.heap.objs, refs |-> done.heap.refs, broken |-> done.heap.broken]
  BY DEF Outcome, Kept, HeapOK
<1>2. LeftBroken(done, o) = [done EXCEPT !.heap = [done.heap EXCEPT !.broken = done.heap.broken \cup {o}]]
  BY DEF LeftBroken
<1>3. LeftBroken(done, o).heap = [done.heap EXCEPT !.broken = done.heap.broken \cup {o}]
  BY <1>1, <1>2
<1>4. LeftBroken(done, o).heap.broken = done.heap.broken \cup {o}
  BY <1>1, <1>3
<1> QED
  BY <1>4

LEMMA check_parsedSays ==
  ASSUME dir \in Directories, NEW heap, Whole(dir, heap), NEW o, IsObject(heap, o)
  PROVE  CheckedSo(dir, heap, o, check_parsed(heap, o))
<1> DEFINE done == check_parsed(heap, o)
           E == {}
<1>1. HeapOK(heap) /\ heap.broken = {} /\ SemBut(dir, heap, E) /\ o \notin E
      /\ (heap.objs[1].parsed => AllThere(dir, heap))
      /\ (~heap.objs[1].parsed => Len(heap.objs) = 1 /\ DOMAIN heap.refs = {})
  BY DEF Whole, Sem
<1>2. Read(dir, heap, heap.objs[o]) /\ Placed(dir, o, heap.objs[o])
  BY <1>1 DEF SemBut, IsObject
<1>3. CASE heap.objs[o].parsed
  <2>1. done = Return(heap, <<>>)
    BY <1>3 DEF check_parsed, Checked
  <2> QED
    BY <1>2, <1>3, <2>1, FineReturned, Returned DEF CheckedSo
<1>4. CASE ~heap.objs[o].parsed /\ o # 1
  <2>1. done = CheckedFile(heap, o)
    BY <1>4 DEF check_parsed, CheckedFile, Checked
  <2>2. heap.objs[1].parsed
    BY <1>1, <1>4 DEF IsObject
  <2> HIDE DEF E
  <2>3. Parsed(dir, E, o, heap, done) /\ Outcome(heap, done)
    BY <1>1, <1>4, <2>1, <2>2, CheckedFileSays, CheckedFileOutcome
  <2>4. HeapOK(done.heap) /\ IsObject(done.heap, o)
    BY <1>1, <2>3, StillThere, OutcomeHeap
  <2>5. CASE done.raised # Nothing
    <3> DEFINE marked == With(heap, o, "parsed", TRUE)
               parse == ParseObject(marked, o)
    <3>1. done = LeftBroken(parse, o)
      BY <1>4, <2>1 DEF CheckedFile, Checked
    <3>2. Kept(heap, marked)
      BY <1>1, MarkKeeps
    <3> HIDE DEF marked
    <3>3. HeapOK(marked) /\ IsObject(marked, o)
      BY <1>1, <3>2, StillThere DEF Kept
    <3>4. Outcome(marked, parse)
      BY <3>3, ParseObjectOutcome
    <3> HIDE DEF parse
    <3>5. done.heap.broken # {}
      BY <2>5, <3>1, <3>4, LeftBrokenNoted, LeftBrokenOutcome
    <3>6. done.raised # "ParsingError" /\ MembersOf(dir, heap.objs[o].what).raised = done.raised
      BY <2>3, <2>5 DEF Parsed
    <3>7. done.raised # "NoSuchMember"
      BY <3>6, MembersOfRaises
    <3> QED
      BY <2>5, <3>5, <3>6, <3>7 DEF CheckedSo, Fine, Good
  <2>6. CASE done.raised = Nothing
    <3> HIDE DEF done
    <3>1. /\ done.heap.broken = heap.broken /\ done.heap.refs = heap.refs
          /\ SemBut(dir, done.heap, E)
          /\ done.heap.objs[o].parsed
          /\ \A p \in 1 .. Len(heap.objs) : p # o => done.heap.objs[p] = heap.objs[p]
      BY <2>3, <2>6 DEF Parsed
    <3>2. done.heap.objs[1] = heap.objs[1]
      BY <1>1, <1>4, <3>1, FirstIsThere DEF IsObject
    <3>3. AllThere(dir, done.heap)
      BY <1>1, <2>2, <3>1 DEF AllThere
    <3>4. Whole(dir, done.heap)
      BY <1>1, <2>2, <2>4, <3>1, <3>2, <3>3 DEF Whole, Sem, E
    <3>5. Read(dir, done.heap, done.heap.objs[o])
      BY <1>1, <2>4, <3>1 DEF SemBut, IsObject, E
    <3> QED
      BY <2>6, <3>1, <3>4, <3>5, WholeGood DEF CheckedSo, Fine, done
  <2> QED
    BY <2>5, <2>6
<1>5. CASE ~heap.objs[o].parsed /\ o = 1
  <2> DEFINE yes == TRUE
             field == "parsed"
             marked == With(heap, o, field, TRUE)
             parse == ParseIndex(marked)
             all == {mem.refid : mem \in Range(dir.index)}
             told == IndexRead(dir)
  <2>1. done = LeftBroken(parse, o)
    BY <1>5 DEF check_parsed, Checked
  <2>2. yes = TRUE /\ field \in {"parsed", "error"} /\ field \in {"parsed", "error", "members"}
    OBVIOUS
  <2> HIDE DEF yes, field, E
  <2>3. Changed(o, heap, marked, field, yes)
    BY <1>1, <2>2, MarkSays
  <2> HIDE DEF marked
  <2>4. SemBut(dir, marked, E \cup {o})
    BY <1>1, <2>2, <2>3, ChangedSem
  <2>5. E \cup {o} = {1}
    BY <1>5 DEF E
  <2>6. HeapOK(marked) /\ DOMAIN marked.refs = {} /\ marked.broken = {}
    BY <1>1, <1>5, <2>3 DEF Changed, Kept
  <2>7. marked.objs[1].parsed = TRUE
        /\ \A f \in {"what", "error", "members"} : marked.objs[1][f] = heap.objs[1][f]
    BY <1>5, <2>3 DEF Changed, Fields, field, yes
  <2>8. heap.objs[1].what = Index /\ heap.objs[1].members = <<>> /\ heap.objs[1].error = FALSE
    BY <1>2, <1>5 DEF Read, Placed
  <2>9. OneCompound(dir, marked, told, all, parse)
    BY <2>4, <2>5, <2>6, <2>7, <2>8, ParseIndexSays
  <2>10. Outcome(marked, parse)
    BY <2>6, ParseIndexOutcome
  <2>11. told = MembersOf(dir, heap.objs[o].what)
    BY <1>5, <2>8 DEF MembersOf
  <2>12. told.raised \notin {"NoSuchMember", "ParsingError"}
    BY IndexReadRaises
  <2> HIDE DEF parse, told, all
  <2>13. CASE parse.raised # Nothing
    <3>1. done.heap.broken # {} /\ done.raised = parse.raised
      BY <2>1, <2>10, <2>13, LeftBrokenNoted, LeftBrokenOutcome
    <3>2. told.raised = parse.raised
      BY <2>9 DEF OneCompound
    <3> QED
      BY <2>11, <2>12, <2>13, <3>1, <3>2 DEF CheckedSo, Fine, Good
  <2>14. CASE parse.raised = Nothing
    <3> DEFINE h == parse.heap
    <3>1. done = parse
      BY <2>1, <2>14 DEF LeftBroken
    <3>2. told = Answer(told.value) /\ IndexUpTo(dir, marked, told.value, all, h)
      BY <2>9, <2>14 DEF OneCompound
    <3> HIDE DEF h
    <3>3. HeapOK(h) /\ h.broken = {} /\ SemBut(dir, h, {1}) /\ Whats(h, h.objs[1].members) = told.value
          /\ DOMAIN h.refs = all
      BY <2>6, <3>2 DEF IndexUpTo, Kept
    <3>4. h.objs[1].parsed = TRUE /\ h.objs[1].error = FALSE /\ h.objs[1].what = heap.objs[o].what
      BY <1>5, <2>7, <2>8, <3>2 DEF IndexUpTo, Fields
    <3>5. Read(dir, h, h.objs[1])
      BY <2>11, <3>2, <3>3, <3>4 DEF Read
    <3>6. SemBut(dir, h, E)
      BY <3>3, <3>5 DEF SemBut, E
    <3>7. AllThere(dir, h)
      BY <3>3 DEF AllThere, all
    <3>8. Whole(dir, h)
      BY <3>3, <3>4, <3>6, <3>7 DEF Whole, Sem, E
    <3> QED
      BY <1>5, <2>14, <3>1, <3>4, <3>5, <3>8, WholeGood DEF CheckedSo, Fine, h
  <2> QED
    BY <2>13, <2>14
<1> QED
  BY <1>3, <1>4, <1>5

LEMMA confirm_no_errorSays ==
  ASSUME dir \in Directories, NEW heap, Whole(dir, heap), NEW o, IsObject(heap, o)
  PROVE  /\ Fine(dir, confirm_no_error(heap, o))
         /\ Says(dir, heap, o, MembersOf(dir, heap.objs[o].what), confirm_no_error(heap, o))
<1> DEFINE done == check_parsed(heap, o)
           confirmed == Confirmed(done, o)
<1>1. CheckedSo(dir, heap, o, done) /\ Outcome(heap, done)
  BY check_parsedSays, check_parsedOutcome DEF Whole
<1>2. confirm_no_error(heap, o) = confirmed
  BY DEF confirm_no_error
<1> HIDE DEF done
<1>3. Says(dir, heap, o, MembersOf(dir, heap.objs[o].what), confirmed)
  BY <1>1, ConfirmedSays DEF CheckedSo
<1>4. confirmed.heap = done.heap /\ (confirmed.raised = Nothing => confirmed = done)
  BY <1>1, ConfirmedOutcome
<1>5. confirmed.raised = "NoSuchMember" => done.raised = "NoSuchMember"
  BY Raised DEF Confirmed, Then
<1>6. Fine(dir, confirmed)
  BY <1>1, <1>4, <1>5 DEF CheckedSo, Fine
<1> QED
  BY <1>2, <1>3, <1>6

LEMMA errorSays ==
  ASSUME dir \in Directories, NEW heap, Whole(dir, heap), NEW o, IsObject(heap, o)
  PROVE  /\ Fine(dir, error(heap, o))
         /\ SameAs(error(heap, o), ErrorOf(dir, heap.objs[o].what))
<1> DEFINE done == check_parsed(heap, o)
           what == heap.objs[o].what
           told == MembersOf(dir, what)
           h == done.heap
<1>1. CheckedSo(dir, heap, o, done) /\ Outcome(heap, done)
  BY check_parsedSays, check_parsedOutcome DEF Whole
<1>2. error(heap, o) = IF done.raised # Nothing THEN done ELSE Return(h, h.objs[o].error)
  BY DEF error, Then
<1>3. ErrorOf(dir, what) =
        IF told.raised \in {Nothing, "ParsingError"} THEN Answer(told.raised # Nothing) ELSE told
  BY DEF ErrorOf, BadRead
<1> HIDE DEF done, told
<1>4. CASE done.raised # Nothing
  <2>1. told.raised = done.raised /\ done.raised # "ParsingError"
    BY <1>1, <1>4 DEF CheckedSo, told
  <2> QED
    BY <1>1, <1>2, <1>3, <1>4, <2>1 DEF SameAs, CheckedSo
<1>5. CASE done.raised = Nothing
  <2>1. h.objs[o].what = what
    BY <1>1 DEF Outcome, Kept, Extends, SameObject, IsObject
  <2>2. Read(dir, h, h.objs[o]) /\ h.objs[o].parsed /\ Whole(dir, h)
    BY <1>1, <1>5 DEF CheckedSo, Fine
  <2> HIDE DEF what, h
  <2>3. h.objs[o].error \in BOOLEAN /\ told =
           IF h.objs[o].error THEN Refuse("ParsingError") ELSE Answer(Whats(h, h.objs[o].members))
    BY <2>1, <2>2 DEF Read, told
  <2>4. error(heap, o) = Return(h, h.objs[o].error) /\ error(heap, o).raised = Nothing
        /\ error(heap, o).value = h.objs[o].error
    BY <1>2, <1>5, Returned
  <2>5. told.raised = IF h.objs[o].error THEN "ParsingError" ELSE Nothing
    BY <2>3 DEF Refuse, Answer
  <2>6. (told.raised # Nothing) = h.objs[o].error /\ told.raised \in {Nothing, "ParsingError"}
    BY <2>3, <2>5 DEF Nothing
  <2>7. ErrorOf(dir, what).raised = Nothing /\ ErrorOf(dir, what).value = h.objs[o].error
    BY <1>3, <2>6 DEF Answer
  <2>8. Fine(dir, error(heap, o))
    BY <2>2, <2>4, FineReturned
  <2>9. SameAs(error(heap, o), ErrorOf(dir, what))
    BY <2>4, <2>7 DEF SameAs
  <2> QED
    BY <2>8, <2>9 DEF what
<1> QED
  BY <1>4, <1>5

LEMMA membersSays ==
  ASSUME dir \in Directories, NEW heap, Whole(dir, heap), NEW o, IsObject(heap, o)
  PROVE  /\ Fine(dir, members(heap, o))
         /\ SameAs(Told(members(heap, o)), MembersOf(dir, heap.objs[o].what))
<1> DEFINE done == confirm_no_error(heap, o)
           told == MembersOf(dir, heap.objs[o].what)
           all == members(heap, o)
<1>1. Fine(dir, done) /\ Says(dir, heap, o, told, done)
  BY confirm_no_errorSays
<1>2. all = IF done.raised # Nothing THEN done ELSE Return(done.heap, done.heap.objs[o].members)
  BY DEF members, Then
<1> HIDE DEF done, told, all
<1>3. Told(all).raised = all.raised /\ Told(all).value = Whats(all.heap, all.value)
  BY DEF Told, Whats
<1>4. CASE done.raised # Nothing
  BY <1>1, <1>2, <1>3, <1>4 DEF Says, SameAs, told, all
<1>5. CASE done.raised = Nothing
  <2>1. all.raised = Nothing /\ all.heap = done.heap /\ all.value = done.heap.objs[o].members
        /\ all = Return(done.heap, done.heap.objs[o].members)
    BY <1>2, <1>5, Returned
  <2>2. Fine(dir, all)
    BY <1>1, <1>5, <2>1, FineReturned DEF Fine
  <2>3. told.raised = Nothing /\ told.value = Whats(done.heap, done.heap.objs[o].members)
    BY <1>1, <1>5 DEF Says, Answer
  <2> QED
    BY <1>3, <2>1, <2>2, <2>3 DEF SameAs, told, all
<1> QED
  BY <1>4, <1>5

LEMMA nameSays ==
  ASSUME dir \in Directories, NEW heap, Whole(dir, heap), NEW o, IsObject(heap, o)
  PROVE  name(heap, o) = Return(heap, Description(dir, heap.objs[o].what).name)
<1>1. Placed(dir, o, heap.objs[o])
  BY DEF Whole, Sem, SemBut, IsObject
<1> QED
  BY <1>1 DEF name, Placed

-----------------------------------------------------------------------------
(***************************************************************************)
(* The categories, beside the members that belong to them.                 *)
(***************************************************************************)
\* what a member answers, by what it stands for
AsksSo(d, cat, what, asked) ==
  /\ Fine(d, asked)
  /\ asked.raised # Nothing => CannotTell(d, cat, what) /\ asked.raised = "IOError"
  /\ asked.raised = Nothing => ~CannotTell(d, cat, what) /\ asked.value = Belongs(d, cat, what)

KeepBelonging(by, found, what) == IF Belongs(by.d, by.cat, what) THEN Append(found, what) ELSE found

SelectSo(of, start, mems, i, done) ==
  /\ Listing(of.cat, start.heap, done) /\ Fine(dir, done)
  /\ done.raised # Nothing =>
        done.raised = "IOError" /\ \E j \in 1 .. i : CannotTell(dir, of.cat, What(start.heap, mems[j]))
  /\ done.raised = Nothing =>
        /\ \A j \in 1 .. i : ~CannotTell(dir, of.cat, What(start.heap, mems[j]))
        /\ Whats(done.heap, done.value) = of.found[i]

BelongingLoop == INSTANCE FoldSteps WITH Turn <- KeepBelonging, Holds <- SelectSo

Belonging(d, cat, mems) == Those(mems, LAMBDA mem : Belongs(d, cat, mem))

LEMMA BelongingIsLoop ==
  ASSUME NEW d, NEW cat, NEW seq, NEW by, by.d = d, by.cat = cat
  PROVE  Belonging(d, cat, seq) = BelongingLoop!Loop(by, <<>>, seq)
BY DEF Belonging, Those, KeepBelonging, BelongingLoop!Loop, FoldLeft, MapThenFoldSet, Max, BelongingLoop!Last

LEMMA SelectTurnSays ==
  ASSUME dir \in Directories, NEW of, NEW by, by.d = dir, by.cat = of.cat, of.cat # "None",
         NEW heap, HeapOK(heap), NEW start, start.heap = heap, NEW mems \in Seq(0 .. Len(heap.objs)),
         NEW i, i \in Nat, i # 0, NEW mem, mem = mems[i], mem \in 0 .. Len(heap.objs),
         NEW what, what = What(heap, mem), of.found[i] = KeepBelonging(by, of.found[i - 1], what),
         NEW done, SelectSo(of, start, mems, i - 1, done), done.raised = Nothing,
         NEW asked, Outcome(done.heap, asked), AsksSo(dir, of.cat, what, asked),
         asked.raised = Nothing => (asked.value => mem # 0)
  PROVE  SelectSo(of, start, mems, i, Selected(done, mem, asked))
<1> DEFINE after == Selected(done, mem, asked)
           cat == of.cat
<1>1. Listing(cat, heap, done) /\ Whats(done.heap, done.value) = of.found[i - 1]
      /\ \A j \in 1 .. i - 1 : ~CannotTell(dir, cat, What(heap, mems[j]))
  BY DEF SelectSo
<1>2. Listing(cat, heap, after)
  BY <1>1, SelectTurn
<1>3. i \in 1 .. i /\ \A j \in 1 .. i : j = i \/ j \in 1 .. i - 1
  OBVIOUS
<1>4. CASE asked.raised # Nothing
  <2>1. after = asked
    BY <1>4 DEF Selected
  <2> QED
    BY <1>2, <1>3, <1>4, <2>1 DEF SelectSo, AsksSo
<1>5. CASE asked.raised = Nothing
  <2> DEFINE h == asked.heap
             S == 0 .. Len(h.objs)
             value == IF asked.value THEN Append(done.value, mem) ELSE done.value
  <2>1. after = Return(h, value)
    BY <1>5 DEF Selected
  <2>2. Whole(dir, h) /\ ~CannotTell(dir, cat, what) /\ asked.value = Belongs(dir, cat, what)
    BY <1>5 DEF AsksSo, Fine
  <2>3. HeapOK(done.heap) /\ Kept(heap, done.heap) /\ Kept(done.heap, h) /\ Kept(heap, h)
    BY <1>1, KeptOn DEF Listing, Outcome, Kept
  <2>4. done.value \in Seq(1 .. Len(done.heap.objs)) /\ 1 .. Len(done.heap.objs) \subseteq 0 .. Len(done.heap.objs)
    <3>1. Lowest(cat) = 1
      BY DEF Lowest
    <3>2. done.value \in Seq(Lowest(cat) .. Len(done.heap.objs))
      BY <1>1 DEF Listing
    <3> QED
      BY <3>1, <3>2
  <2>5. done.value \in Seq(0 .. Len(done.heap.objs))
    BY <2>4, SeqWider
  <2>6. Whats(h, done.value) = of.found[i - 1]
    BY <1>1, <2>3, <2>5, WhatsStay
  <2>7. mem \in S /\ What(h, mem) = what
    BY <2>3, StillThere, WhatStays
  <2>8. 0 .. Len(done.heap.objs) \subseteq S
    BY <2>3, NoFewer
  <2> DEFINE fewer == 0 .. Len(done.heap.objs)
             old == done.value
  <2> HIDE DEF S, h, fewer, old
  <2>9. old \in Seq(S)
    <3>1. fewer \subseteq S /\ old \in Seq(fewer)
      BY <2>5, <2>8 DEF fewer, old
    <3> QED
      BY <3>1, SeqWider
  <2>10. Whats(h, Append(done.value, mem)) = Append(of.found[i - 1], what)
    <3>1. Whats(h, Append(old, mem)) = Append(Whats(h, old), What(h, mem))
      BY <2>7, <2>9, WhatsAppend
    <3> QED
      BY <2>6, <2>7, <3>1 DEF old
  <2>11. Whats(h, value) = of.found[i]
    <3>1. of.found[i] = IF Belongs(dir, cat, what) THEN Append(of.found[i - 1], what) ELSE of.found[i - 1]
      BY DEF KeepBelonging
    <3> QED
      BY <2>2, <2>6, <2>10, <3>1
  <2> HIDE DEF value
  <2>12. after.raised = Nothing /\ after.heap = h /\ after.value = value
    BY <2>1, Returned
  <2>13. Fine(dir, after)
    BY <2>1, <2>2, FineReturned
  <2>14. \A j \in 1 .. i : ~CannotTell(dir, cat, What(heap, mems[j]))
    BY <1>1, <1>3, <2>2
  <2> HIDE DEF after
  <2> QED
    BY <1>2, <2>11, <2>12, <2>13, <2>14 DEF SelectSo, after
<1> QED
  BY <1>4, <1>5

\* by isinstance
LEMMA isinstanceSays ==
  ASSUME NEW cat, cat # "Block", NEW heap, Whole(dir, heap), NEW mem \in 0 .. Len(heap.objs)
  PROVE  AsksSo(dir, cat, What(heap, mem), isinstance(heap, cat, mem))
<1> DEFINE what == What(heap, mem)
           yes == (mem # 0 /\ heap.objs[mem].cls = cat)
<1>1. isinstance(heap, cat, mem) = Return(heap, yes)
  BY DEF isinstance
<1>2. mem # 0 => mem \in 1 .. Len(heap.objs)
  BY DEF Whole, HeapOK, ObjectsOK
<1>3. mem # 0 => Placed(dir, mem, heap.objs[mem])
  BY <1>2 DEF Whole, Sem, SemBut
<1>4. mem # 0 => what # <<>> /\ KindOf(dir, what) = heap.objs[mem].cls
  BY <1>3 DEF Placed, What
<1>5. mem = 0 => what = <<>>
  BY DEF What
<1>6. yes = Belongs(dir, cat, what) /\ ~CannotTell(dir, cat, what)
  <2> HIDE DEF what
  <2> QED
    BY <1>4, <1>5 DEF Belongs, CannotTell
<1> HIDE DEF yes, what
<1>7. Fine(dir, Return(heap, yes)) /\ Return(heap, yes).raised = Nothing /\ Return(heap, yes).value = yes
  BY FineReturned, Returned
<1> QED
  BY <1>1, <1>6, <1>7 DEF AsksSo, what

SelectInstanceOf(of, done, mem) == SelectInstance(of.cat, done, mem)

InstancesTold == INSTANCE FoldSteps WITH Turn <- SelectInstanceOf, Holds <- SelectSo

LEMMA InstancesLoop ==
  ASSUME NEW of, NEW heap, NEW mems
  PROVE  SelectInstances(of.cat, heap, mems) = InstancesTold!Loop(of, Return(heap, <<>>), mems)
BY DEF SelectInstances, SelectInstanceOf, InstancesTold!Loop, FoldLeft, MapThenFoldSet, Max, InstancesTold!Last

SelectedSo(d, cat, heap, mems, done) ==
  /\ Listing(cat, heap, done) /\ Fine(d, done)
  /\ done.raised # Nothing => done.raised = "IOError" /\ \E what \in Range(Whats(heap, mems)) : CannotTell(d, cat, what)
  /\ done.raised = Nothing =>
        /\ \A what \in Range(Whats(heap, mems)) : ~CannotTell(d, cat, what)
        /\ Whats(done.heap, done.value) = Belonging(d, cat, Whats(heap, mems))

LEMMA SelectedAll ==
  ASSUME NEW heap, NEW start, start.heap = heap, NEW n \in Nat, NEW mems, DOMAIN mems = 1 .. n,
         NEW of, NEW done, SelectSo(of, start, mems, n, done),
         of.found[n] = Belonging(dir, of.cat, Whats(heap, mems))
  PROVE  SelectedSo(dir, of.cat, heap, mems, done)
<1>1. Range(Whats(heap, mems)) = {What(heap, mems[j]) : j \in 1 .. n}
  BY DEF Range, Whats
<1> QED
  BY <1>1 DEF SelectSo, SelectedSo

\* the loop beside the members that belong to the category
BesideIt(of, by, cat, heap, n, mems) ==
  /\ of.cat = cat /\ of.found[0] = <<>>
  /\ \A i \in 1 .. n : of.found[i] = KeepBelonging(by, of.found[i - 1], What(heap, mems[i]))
  /\ of.found[n] = Belonging(dir, cat, Whats(heap, mems))

LEMMA BelongingFound ==
  ASSUME NEW cat, NEW heap, NEW n \in Nat, NEW mems, DOMAIN mems = 1 .. n, NEW by, by.d = dir, by.cat = cat
  PROVE  \E of : BesideIt(of, by, cat, heap, n, mems)
<1> DEFINE seq == Whats(heap, mems)
           none == <<>>
<1>1. DOMAIN seq = 1 .. n /\ \A i \in 1 .. n : seq[i] = What(heap, mems[i])
  BY DEF Whats
<1> HIDE DEF seq, none
<1>2. PICK found : BelongingLoop!Turns(by, none, seq, n, found) /\ BelongingLoop!Loop(by, none, seq) = found[n]
  BY <1>1, LeastNumber, BelongingLoop!LoopTurns
<1> DEFINE of == [cat |-> cat, found |-> found]
<1>3. of.cat = cat /\ of.found = found
  OBVIOUS
<1> HIDE DEF of
<1>4. found[0] = <<>> /\ \A i \in 1 .. n : found[i] = KeepBelonging(by, found[i - 1], What(heap, mems[i]))
  BY <1>1, <1>2 DEF BelongingLoop!Turns, none
<1>5. found[n] = Belonging(dir, cat, seq)
  BY <1>2, BelongingIsLoop DEF none
<1>6. BesideIt(of, by, cat, heap, n, mems)
  BY <1>3, <1>4, <1>5 DEF BesideIt, seq
<1> QED
  BY <1>6

LEMMA InstancesSays ==
  ASSUME dir \in Directories, NEW cat, cat \notin {"None", "Block"}, NEW heap, Whole(dir, heap),
         NEW mems \in Seq(0 .. Len(heap.objs))
  PROVE  SelectedSo(dir, cat, heap, mems, SelectInstances(cat, heap, mems))
<1> DEFINE start == Return(heap, <<>>)
           n == Len(mems)
           by == [d |-> dir, cat |-> cat]
<1>1. n \in Nat /\ DOMAIN mems = 1 .. n
  OBVIOUS
<1>2. by.d = dir /\ by.cat = cat
  OBVIOUS
<1>3. HeapOK(heap)
  BY DEF Whole
<1> HIDE DEF n, by
<1>4. PICK of : BesideIt(of, by, cat, heap, n, mems)
  BY <1>1, <1>2, BelongingFound
<1>12. /\ of.cat = cat /\ of.found[0] = <<>>
       /\ \A i \in 1 .. n : of.found[i] = KeepBelonging(by, of.found[i - 1], What(heap, mems[i]))
       /\ of.found[n] = Belonging(dir, cat, Whats(heap, mems))
  BY <1>4 DEF BesideIt
<1>5. start.heap = heap /\ start.raised = Nothing /\ start.value = <<>> /\ Fine(dir, start)
  BY FineReturned, Returned
<1>6. Listing(cat, heap, start)
  <2>1. <<>> \in Seq(Lowest(cat) .. Len(heap.objs))
    OBVIOUS
  <2> QED
    BY <1>3, <2>1, KeptItself, ListingReturned
<1>7. SelectInstances(cat, heap, mems) = InstancesTold!Loop(of, start, mems)
  BY <1>12, InstancesLoop
<1> HIDE DEF start
<1>8. SelectSo(of, start, mems, 0, start)
  <2>1. Whats(heap, <<>>) = <<>>
    BY DEF Whats
  <2> QED
    BY <1>5, <1>6, <1>12, <2>1 DEF SelectSo
<1>9. ASSUME NEW i \in 1 .. n, NEW done, SelectSo(of, start, mems, i - 1, done)
      PROVE  SelectSo(of, start, mems, i, SelectInstanceOf(of, done, mems[i]))
  <2> DEFINE mem == mems[i]
             what == What(heap, mem)
             asked == isinstance(done.heap, cat, mem)
  <2>1. i \in Nat /\ i # 0 /\ mem \in 0 .. Len(heap.objs) /\ \A j \in 1 .. i - 1 : j \in 1 .. i
    BY <1>1, ElementAt
  <2>2. CASE done.raised # Nothing
    <3>1. SelectInstanceOf(of, done, mem) = done
      BY <2>2 DEF SelectInstanceOf, SelectInstance, Select, Then
    <3>2. SelectSo(of, start, mems, i, done)
      BY <1>9, <2>1, <2>2 DEF SelectSo
    <3> QED
      BY <3>1, <3>2
  <2>3. CASE done.raised = Nothing
    <3>1. SelectInstanceOf(of, done, mem) = Selected(done, mem, asked)
      BY <1>12, <2>3 DEF SelectInstanceOf, SelectInstance, Select, Then, Selected
    <3>2. Whole(dir, done.heap) /\ Kept(heap, done.heap)
      BY <1>5, <1>9, <2>3 DEF SelectSo, Fine, Listing, Outcome
    <3>3. mem \in 0 .. Len(done.heap.objs) /\ What(done.heap, mem) = what
      BY <1>3, <2>1, <3>2, StillThere, WhatStays
    <3>4. AsksSo(dir, cat, What(done.heap, mem), asked)
      BY <3>2, <3>3, isinstanceSays
    <3>5. Outcome(done.heap, asked) /\ (asked.value => mem # 0)
      BY <3>2, KeptItself, ReturnOutcome, Returned DEF isinstance, Whole
    <3>6. of.found[i] = KeepBelonging(by, of.found[i - 1], what)
      BY <1>12
    <3> HIDE DEF asked, mem, what
    <3>7. mem = mems[i] /\ what = What(heap, mem) /\ mem \in 0 .. Len(heap.objs)
      BY <2>1 DEF mem, what
    <3>8. AsksSo(dir, of.cat, what, asked) /\ of.cat # "None" /\ by.d = dir /\ by.cat = of.cat
      BY <1>2, <1>12, <3>3, <3>4
    <3>9. SelectSo(of, start, mems, i, Selected(done, mem, asked))
      BY <1>3, <1>5, <1>9, <2>1, <2>3, <3>5, <3>6, <3>7, <3>8, SelectTurnSays
    <3> QED
      BY <3>1, <3>9 DEF mem
  <2> QED
    BY <2>2, <2>3
<1>10. SelectSo(of, start, mems, n, InstancesTold!Loop(of, start, mems))
  BY <1>1, <1>8, <1>9, LeastNumber, InstancesTold!LoopKeeps
<1>11. SelectedSo(dir, of.cat, heap, mems, InstancesTold!Loop(of, start, mems))
  BY <1>1, <1>5, <1>10, <1>12, SelectedAll
<1> QED
  BY <1>7, <1>11, <1>12

\* what a category has been told to be
CategorySo(d, told, done) ==
  /\ Fine(d, done)
  /\ told.raised = done.raised
  /\ done.raised = Nothing => told = Answer(Whats(done.heap, done.value))

LEMMA CategoryKeptWhole ==
  ASSUME NEW d, NEW heap, Whole(d, heap), NEW o, IsObject(heap, o), NEW cat,
         NEW found \in Seq(1 .. Len(heap.objs)), CategoryOf(d, heap.objs[o].what, cat) = Answer(Whats(heap, found)),
         NEW h, h = KeepCategory(heap, o, cat, found)
  PROVE  Whole(d, h) /\ Whats(h, found) = Whats(heap, found)
<1> DEFINE object == heap.objs[o]
           all == Put(object.inCategory, KeptFor(cat), found)
           field == "inCategory"
           n == Len(heap.objs)
<1>1. HeapOK(heap) /\ heap.broken = {} /\ Sem(d, heap) /\ SemBut(d, heap, {}) /\ n \in Nat
  BY DEF Whole, Sem, HeapOK, ObjectsOK
<1>2. ObjectOK(n, object)
  BY <1>1, Known1
<1>3. ObjectOK(n, [object EXCEPT ![field] = all])
  <2>1. \A c \in DOMAIN all : all[c] \in Seq(1 .. n)
    BY <1>2 DEF ObjectOK, Put
  <2> HIDE DEF all, object, n
  <2> QED
    BY <1>2, <2>1 DEF ObjectOK, Fields
<1>4. field \in Fields \ {"cls", "refid", "name", "given", "what"}
  BY DEF Fields
<1>5. h = With(heap, o, field, all)
  BY DEF KeepCategory, With
<1> HIDE DEF all, field
<1>6. Changed(o, heap, h, field, all)
  BY <1>1, <1>3, <1>4, <1>5, ChangedSays
<1>7. Kept(heap, h) /\ HeapOK(h) /\ h.broken = {} /\ h.refs = heap.refs /\ Len(h.objs) = n
  BY <1>1, <1>6 DEF Changed, Kept
<1>8. Whats(h, found) = Whats(heap, found)
  <2>1. 1 .. n \subseteq 0 .. n
    BY <1>1
  <2>2. found \in Seq(0 .. n)
    BY <2>1, SeqWider
  <2> QED
    BY <1>1, <1>7, <2>2, WhatsStay
<1>9. ASSUME NEW p \in 1 .. Len(h.objs)
      PROVE  Placed(d, p, h.objs[p]) /\ Lists(d, h, h.objs[p]) /\ Read(d, h, h.objs[p])
  <2>1. p \in 1 .. n
    BY <1>7
  <2>2. ObjectOK(n, heap.objs[p]) /\ Placed(d, p, heap.objs[p]) /\ Lists(d, heap, heap.objs[p])
        /\ Read(d, heap, heap.objs[p])
    BY <1>1, <2>1, Known1 DEF IsObject, SemBut
  <2>3. Lists(d, h, heap.objs[p]) /\ Read(d, h, heap.objs[p])
    BY <1>1, <1>7, <2>2, ListsStay, ReadStays
  <2>4. CASE p # o
    <3>1. h.objs[p] = heap.objs[p]
      BY <1>6, <2>1, <2>4 DEF Changed
    <3> QED
      BY <2>2, <2>3, <3>1
  <2>5. CASE p = o
    <3>1. h.objs[p].inCategory = all /\ \A f \in Fields : f # "inCategory" => h.objs[p][f] = heap.objs[p][f]
      BY <1>6, <2>5 DEF Changed, field
    <3>2. \A f \in {"cls", "refid", "name", "given", "what", "parsed", "error", "members", "dict"} :
             h.objs[p][f] = heap.objs[p][f]
      BY <3>1 DEF Fields
    <3>3. Placed(d, p, h.objs[p]) /\ Read(d, h, h.objs[p])
      BY <2>2, <2>3, <3>2 DEF Placed, Read
    <3>4. ASSUME NEW c \in DOMAIN all
          PROVE  CategoryOf(d, object.what, c) = Answer(Whats(h, all[c]))
      <4>1. CASE c = KeptFor(cat)
        BY <1>8, <4>1 DEF all, Put, KeptFor
      <4>2. CASE c # KeptFor(cat)
        BY <2>3, <2>5, <3>4, <4>2 DEF all, Put, Lists
      <4> QED
        BY <4>1, <4>2
    <3>5. Lists(d, h, h.objs[p])
      BY <2>3, <2>5, <3>1, <3>2, <3>4 DEF Lists
    <3> QED
      BY <3>3, <3>5
  <2> QED
    BY <2>4, <2>5
<1>10. SemBut(d, h, {})
  BY <1>9 DEF SemBut
<1>11. h.objs[1].parsed = heap.objs[1].parsed
  <2>1. 1 \in 1 .. n
    BY <1>1, FirstIsThere DEF IsObject
  <2> QED
    BY <1>6, <2>1 DEF Changed, Fields, field
<1>12. Sem(d, h)
  BY <1>1, <1>7, <1>10, <1>11 DEF Sem, AllThere
<1> QED
  BY <1>7, <1>8, <1>12 DEF Whole

LEMMA CategorisedSays ==
  ASSUME dir \in Directories, NEW heap, HeapOK(heap), NEW o, IsObject(heap, o), NEW cat,
         NEW what, what = heap.objs[o].what,
         NEW read, Outcome(heap, read), Fine(dir, read), Says(dir, heap, o, MembersOf(dir, what), read), NEW asked,
         read.raised = Nothing /\ cat # "None" => SelectedSo(dir, cat, read.heap, read.heap.objs[o].members, asked)
  PROVE  CategorySo(dir, CategoryOf(dir, what, cat), Categorised(o, cat, read, asked))
<1> DEFINE told == MembersOf(dir, what)
           h == read.heap
           mems == h.objs[o].members
           after == Categorised(o, cat, read, asked)
           says == CategoryOf(dir, what, cat)
<1>1. says = IF told.raised # Nothing THEN told
             ELSE IF cat = "None" THEN Answer(told.value)
             ELSE IF \E mem \in Range(told.value) : CannotTell(dir, cat, mem) THEN Refuse("IOError")
             ELSE Answer(Belonging(dir, cat, told.value))
  BY DEF CategoryOf, AndThen, Belonging
<1>2. told.raised = read.raised /\ (read.raised = Nothing => told.value = Whats(h, mems))
  BY DEF Says, Answer
<1>3. Kept(heap, h) /\ HeapOK(h) /\ IsObject(h, o) /\ h.objs[o].what = what
  BY OutcomeHeap, StillThere DEF Kept, Extends, SameObject, IsObject
<1> HIDE DEF told
<1>4. CASE read.raised # Nothing
  <2>1. after = read
    BY <1>4 DEF Categorised
  <2> QED
    BY <1>1, <1>2, <1>4, <2>1 DEF CategorySo
<1>5. CASE read.raised = Nothing /\ cat = "None"
  <2>1. after = Return(h, mems)
    BY <1>5 DEF Categorised
  <2>2. Fine(dir, Return(h, mems))
    BY <1>5, FineReturned DEF Fine
  <2>3. says = Answer(Whats(h, mems))
    BY <1>1, <1>2, <1>5
  <2>4. after.raised = Nothing /\ after.heap = h /\ after.value = mems
    BY <2>1, Returned
  <2> HIDE DEF after
  <2> QED
    BY <2>1, <2>2, <2>3, <2>4 DEF CategorySo, Answer, after
<1>6. CASE read.raised = Nothing /\ cat # "None" /\ KeptFor(cat) \in DOMAIN h.objs[o].inCategory
  <2> DEFINE kept == h.objs[o].inCategory[KeptFor(cat)]
  <2>1. after = Return(h, kept)
    BY <1>6 DEF Categorised
  <2>2. Whole(dir, h)
    BY <1>6 DEF Fine
  <2>3. Lists(dir, h, h.objs[o])
    BY <1>3, <2>2 DEF Whole, Sem, SemBut, IsObject
  <2>4. says = Answer(Whats(h, kept))
    BY <1>3, <1>6, <2>3 DEF Lists, KeptFor
  <2> HIDE DEF kept
  <2>5. Fine(dir, Return(h, kept))
    BY <2>2, FineReturned
  <2>6. after.raised = Nothing /\ after.heap = h /\ after.value = kept
    BY <2>1, Returned
  <2> HIDE DEF after, says
  <2> QED
    BY <2>1, <2>4, <2>5, <2>6 DEF CategorySo, Answer, after, says
<1>7. CASE read.raised = Nothing /\ cat # "None" /\ KeptFor(cat) \notin DOMAIN h.objs[o].inCategory
  <2>1. SelectedSo(dir, cat, h, mems, asked)
    BY <1>7
  <2>2. HeapOK(asked.heap) /\ Kept(h, asked.heap) /\ IsObject(asked.heap, o)
    BY <1>3, <2>1, OutcomeHeap, StillThere DEF SelectedSo, Listing
  <2>3. CASE asked.raised # Nothing
    <3>1. after = asked
      BY <1>7, <2>3 DEF Categorised
    <3>2. says = Refuse("IOError")
      BY <1>1, <1>2, <1>7, <2>1, <2>3 DEF SelectedSo
    <3>3. asked.raised = "IOError" /\ Fine(dir, asked)
      BY <2>1, <2>3 DEF SelectedSo
    <3>4. says.raised = asked.raised
      BY <3>2, <3>3 DEF Refuse
    <3> QED
      BY <2>3, <3>1, <3>3, <3>4 DEF CategorySo
  <2>4. CASE asked.raised = Nothing
    <3> DEFINE kept == KeepCategory(asked.heap, o, cat, asked.value)
    <3>1. after = Return(kept, asked.value)
      BY <1>7, <2>4 DEF Categorised
    <3>2. says = Answer(Whats(asked.heap, asked.value))
      BY <1>1, <1>2, <1>7, <2>1, <2>4 DEF SelectedSo
    <3>3. asked.value \in Seq(1 .. Len(asked.heap.objs))
      BY <1>7, <2>1, <2>4 DEF SelectedSo, Listing, Lowest
    <3>4. asked.heap.objs[o].what = what /\ Whole(dir, asked.heap)
      BY <1>3, <2>1, <2>2, <2>4 DEF Kept, Extends, SameObject, IsObject, SelectedSo, Fine
    <3>5. Whole(dir, kept) /\ Whats(kept, asked.value) = Whats(asked.heap, asked.value)
      BY <2>2, <3>2, <3>3, <3>4, CategoryKeptWhole
    <3> HIDE DEF kept
    <3>6. Fine(dir, Return(kept, asked.value))
      BY <3>5, FineReturned
    <3>7. after.raised = Nothing /\ after.heap = kept /\ after.value = asked.value
      BY <3>1, Returned
    <3> HIDE DEF after, says
    <3> QED
      BY <3>1, <3>2, <3>5, <3>6, <3>7 DEF CategorySo, Answer, after, says
  <2> QED
    BY <2>3, <2>4
<1> QED
  BY <1>4, <1>5, <1>6, <1>7

LEMMA of_classSays ==
  ASSUME dir \in Directories, NEW heap, Whole(dir, heap), NEW o, IsObject(heap, o), NEW cat, cat # "Block",
         NEW what, what = heap.objs[o].what
  PROVE  CategorySo(dir, CategoryOf(dir, what, cat), of_class(heap, o, cat))
<1> DEFINE read == confirm_no_error(heap, o)
           asked == SelectInstances(cat, read.heap, read.heap.objs[o].members)
<1>1. of_class(heap, o, cat) = Categorised(o, cat, read, asked)
  BY DEF of_class, Category, Then, KeepCategory, Categorised, SelectInstances
<1>2. HeapOK(heap)
  BY DEF Whole
<1>3. Outcome(heap, read) /\ Fine(dir, read) /\ Says(dir, heap, o, MembersOf(dir, what), read)
  BY <1>2, confirm_no_errorOutcome, confirm_no_errorSays
<1>4. ASSUME read.raised = Nothing, cat # "None"
      PROVE  SelectedSo(dir, cat, read.heap, read.heap.objs[o].members, asked)
  <2> HIDE DEF read
  <2>1. HeapOK(read.heap) /\ IsObject(read.heap, o) /\ Whole(dir, read.heap)
    BY <1>2, <1>3, <1>4, OutcomeHeap, StillThere DEF Fine
  <2>2. read.heap.objs[o].members \in Seq(0 .. Len(read.heap.objs))
    BY <2>1, Known1 DEF ObjectOK
  <2> QED
    BY <1>4, <2>1, <2>2, InstancesSays
<1> HIDE DEF read, asked
<1> QED
  BY <1>1, <1>2, <1>3, <1>4, CategorisedSays

-----------------------------------------------------------------------------
(***************************************************************************)
(* The names in a category, beside the places at which a name is.          *)
(***************************************************************************)
LEMMA EnteredOneMore ==
  ASSUME NEW d, NEW heap, NEW mems, NEW i \in Nat, i # 0, NEW dict, Entered(d, heap, mems, i - 1, dict),
         NEW mem, mem # Duplicate, What(heap, mem) = mems[i],
         NEW path, path = Description(d, mems[i]).name,
         NEW value, value = IF path \in DOMAIN dict THEN Duplicate ELSE mem
  PROVE  Entered(d, heap, mems, i, Put(dict, path, value))
<1> DEFINE Before(q) == {k \in 1 .. i - 1 : Description(d, mems[k]).name = q}
           After(q) == {k \in 1 .. i : Description(d, mems[k]).name = q}
           more == Put(dict, path, value)
<1>1. \A q : /\ q \in DOMAIN dict <=> Before(q) # {}
             /\ q \in DOMAIN dict =>
                   IF dict[q] = Duplicate THEN \E j, k \in Before(q) : j # k
                   ELSE \E k \in Before(q) : Before(q) = {k} /\ What(heap, dict[q]) = mems[k]
  BY DEF Entered
<1>2. i \in 1 .. i /\ i \notin 1 .. i - 1 /\ 1 .. i = (1 .. i - 1) \cup {i}
  OBVIOUS
<1>3. After(path) = Before(path) \cup {i} /\ i \notin Before(path)
  BY <1>2
<1>4. \A q : q # path => After(q) = Before(q)
  BY <1>2
<1>5. DOMAIN more = DOMAIN dict \cup {path} /\ more[path] = value
      /\ \A q \in DOMAIN dict : q # path => more[q] = dict[q]
  BY DEF Put
<1> HIDE DEF more, Before, After
<1>6. ASSUME NEW q
      PROVE  /\ q \in DOMAIN more <=> After(q) # {}
             /\ q \in DOMAIN more =>
                   IF more[q] = Duplicate THEN \E j, k \in After(q) : j # k
                   ELSE \E k \in After(q) : After(q) = {k} /\ What(heap, more[q]) = mems[k]
  <2>1. CASE q # path
    <3>1. q \in DOMAIN more <=> q \in DOMAIN dict
      BY <1>5, <2>1
    <3>2. q \in DOMAIN dict => more[q] = dict[q]
      BY <1>5, <2>1
    <3> QED
      BY <1>1, <1>4, <2>1, <3>1, <3>2
  <2>2. CASE q = path /\ path \in DOMAIN dict
    <3>1. more[q] = Duplicate /\ q \in DOMAIN more
      BY <1>5, <2>2
    <3>2. PICK k \in Before(path) : TRUE
      BY <1>1, <2>2
    <3>3. k \in After(q) /\ i \in After(q) /\ k # i
      BY <1>3, <2>2, <3>2
    <3> QED
      BY <3>1, <3>3
  <2>3. CASE q = path /\ path \notin DOMAIN dict
    <3>1. more[q] = mem /\ q \in DOMAIN more
      BY <1>5, <2>3
    <3>2. After(q) = {i}
      BY <1>1, <1>3, <2>3
    <3> QED
      BY <3>1, <3>2
  <2> QED
    BY <2>1, <2>2, <2>3
<1> QED
  BY <1>6 DEF Entered, more, After

EnteredSo(heap, start, found, i, done) ==
  /\ done.heap = heap
  /\ done.raised # Nothing => done.raised = "AttributeError" /\ \E j \in 1 .. i : found[j] = 0
  /\ done.raised = Nothing =>
        /\ \A j \in 1 .. i : found[j] # 0
        /\ Entered(dir, heap, Whats(heap, found), i, done.value)

EnterOf(heap, done, mem) == Enter("any", done, mem)

EntersTold == INSTANCE FoldSteps WITH Turn <- EnterOf, Holds <- EnteredSo

LEMMA EnterAllLoop ==
  ASSUME NEW cat, NEW heap, NEW found
  PROVE  EnterAll(cat, heap, found) = EntersTold!Loop(heap, Return(heap, <<>>), found)
BY DEF EnterAll, Enter, EnterOf, EntersTold!Loop, FoldLeft, MapThenFoldSet, Max, EntersTold!Last

LEMMA EnterAllSays ==
  ASSUME dir \in Directories, NEW cat, NEW heap, Whole(dir, heap), NEW found \in Seq(0 .. Len(heap.objs)),
         NEW n, n = Len(found), NEW start, start = Return(heap, <<>>)
  PROVE  EnteredSo(heap, start, found, n, EnterAll(cat, heap, found))
<1>1. n \in Nat /\ DOMAIN found = 1 .. n
  OBVIOUS
<1>2. start.heap = heap /\ start.raised = Nothing /\ start.value = <<>>
  BY Returned
<1>3. EnterAll(cat, heap, found) = EntersTold!Loop(heap, start, found)
  BY EnterAllLoop
<1>4. EnteredSo(heap, start, found, 0, start)
  <2>1. DOMAIN start.value = {}
    BY <1>2
  <2>2. \A j : j \notin 1 .. 0
    OBVIOUS
  <2>3. Entered(dir, heap, Whats(heap, found), 0, start.value)
    BY <2>1, <2>2 DEF Entered
  <2> QED
    BY <1>2, <2>2, <2>3 DEF EnteredSo
<1>5. ASSUME NEW i \in 1 .. n, NEW done, EnteredSo(heap, start, found, i - 1, done)
      PROVE  EnteredSo(heap, start, found, i, EnterOf(heap, done, found[i]))
  <2> DEFINE mem == found[i]
             after == EnterOf(heap, done, mem)
             mems == Whats(heap, found)
  <2>1. i \in Nat /\ i # 0 /\ i \in 1 .. i /\ (\A j \in 1 .. i : j = i \/ j \in 1 .. i - 1)
        /\ \A j \in 1 .. i - 1 : j \in 1 .. i
    BY <1>1
  <2>2. CASE done.raised # Nothing
    <3>1. after = done
      BY <2>2 DEF EnterOf, Enter, Then
    <3> QED
      BY <1>5, <2>1, <2>2, <3>1 DEF EnteredSo
  <2>3. CASE done.raised = Nothing /\ mem = 0
    <3>1. Nothing # "AttributeError"
      BY DEF Nothing
    <3>2. after = Raise(heap, "AttributeError")
      BY <1>5, <2>3, <3>1, Raised DEF EnterOf, Enter, Then, EnteredSo
    <3>3. after.raised = "AttributeError" /\ after.heap = heap
      BY <3>2, Raised
    <3> QED
      BY <2>1, <2>3, <3>1, <3>3 DEF EnteredSo
  <2>4. CASE done.raised = Nothing /\ mem # 0
    <3> DEFINE path == Description(dir, heap.objs[mem].what).name
               value == IF path \in DOMAIN done.value THEN Duplicate ELSE mem
               dict == Put(done.value, path, value)
    <3>1. done.heap = heap /\ Entered(dir, heap, mems, i - 1, done.value)
      BY <1>5, <2>4 DEF EnteredSo
    <3>2. Len(heap.objs) \in Nat /\ mem \in 0 .. Len(heap.objs)
      BY <1>1 DEF Whole, HeapOK, ObjectsOK
    <3>3. IsObject(heap, mem) /\ mem # Duplicate
      BY <2>4, <3>2 DEF IsObject, Duplicate
    <3>4. name(heap, mem) = Return(heap, path)
      BY <3>3, nameSays
    <3>5. after = Return(heap, dict)
      <4>1. name(heap, mem).raised = Nothing /\ name(heap, mem).heap = heap /\ name(heap, mem).value = path
        BY <3>4, Returned
      <4> HIDE DEF path
      <4> QED
        BY <2>4, <3>1, <4>1 DEF EnterOf, Enter, Then
    <3>6. What(heap, mem) = heap.objs[mem].what /\ mems[i] = What(heap, mem)
      BY <1>1, <2>4 DEF What, Whats
    <3>7. path = Description(dir, mems[i]).name
      BY <3>6
    <3> HIDE DEF path, value, mem, mems
    <3>8. value = IF path \in DOMAIN done.value THEN Duplicate ELSE mem
      BY DEF value
    <3>9. Entered(dir, heap, mems, i, dict)
      BY <2>1, <3>1, <3>3, <3>6, <3>7, <3>8, EnteredOneMore
    <3> HIDE DEF dict
    <3>10. after.raised = Nothing /\ after.heap = heap /\ after.value = dict
      BY <3>5, Returned
    <3>11. \A j \in 1 .. i : found[j] # 0
      BY <1>5, <2>1, <2>4 DEF EnteredSo, mem
    <3> HIDE DEF after
    <3>12. EnteredSo(heap, start, found, i, after)
      BY <3>9, <3>10, <3>11 DEF EnteredSo, mems
    <3> QED
      BY <3>12 DEF after, mem
  <2> QED
    BY <2>2, <2>3, <2>4
<1>6. EnteredSo(heap, start, found, n, EntersTold!Loop(heap, start, found))
  <2> HIDE DEF EnteredSo
  <2> QED
    BY <1>1, <1>4, <1>5, LeastNumber, EntersTold!LoopKeeps
<1> QED
  BY <1>3, <1>6

LEMMA NamesKeptWhole ==
  ASSUME NEW d, NEW heap, Whole(d, heap), NEW o, IsObject(heap, o), NEW cat,
         NEW dict, DictionaryOK(Len(heap.objs), dict),
         NEW told, told = CategoryOf(d, heap.objs[o].what, cat), NamesTold(d, heap, told, dict),
         NEW h, h = KeepNames(heap, o, cat, dict)
  PROVE  Whole(d, h) /\ NamesTold(d, h, told, dict)
<1> DEFINE object == heap.objs[o]
           all == Put(object.dict, cat, dict)
           field == "dict"
           n == Len(heap.objs)
<1>1. HeapOK(heap) /\ heap.broken = {} /\ Sem(d, heap) /\ SemBut(d, heap, {}) /\ n \in Nat
  BY DEF Whole, Sem, HeapOK, ObjectsOK
<1>2. ObjectOK(n, object)
  BY <1>1, Known1
<1>3. ObjectOK(n, [object EXCEPT ![field] = all])
  <2>1. \A c \in DOMAIN all : DictionaryOK(n, all[c])
    BY <1>2 DEF ObjectOK, Put
  <2> HIDE DEF all, object, n
  <2> QED
    BY <1>2, <2>1 DEF ObjectOK, Fields
<1>4. field \in Fields \ {"cls", "refid", "name", "given", "what"}
  BY DEF Fields
<1>5. h = With(heap, o, field, all)
  BY DEF KeepNames, With
<1> HIDE DEF all, field
<1>6. Changed(o, heap, h, field, all)
  BY <1>1, <1>3, <1>4, <1>5, ChangedSays
<1>7. Kept(heap, h) /\ HeapOK(h) /\ h.broken = {} /\ h.refs = heap.refs /\ Len(h.objs) = n
  BY <1>1, <1>6 DEF Changed, Kept
<1>8. NamesTold(d, h, told, dict)
  <2>1. PICK m \in Nat : DOMAIN told.value = 1 .. m /\ Entered(d, heap, told.value, m, dict)
    BY DEF NamesTold
  <2>2. Entered(d, h, told.value, m, dict)
    BY <1>1, <1>7, <2>1, EnteredStays
  <2> QED
    BY <2>1, <2>2 DEF NamesTold
<1>9. ASSUME NEW p \in 1 .. Len(h.objs)
      PROVE  Placed(d, p, h.objs[p]) /\ Lists(d, h, h.objs[p]) /\ Read(d, h, h.objs[p])
  <2>1. p \in 1 .. n
    BY <1>7
  <2>2. ObjectOK(n, heap.objs[p]) /\ Placed(d, p, heap.objs[p]) /\ Lists(d, heap, heap.objs[p])
        /\ Read(d, heap, heap.objs[p])
    BY <1>1, <2>1, Known1 DEF IsObject, SemBut
  <2>3. Lists(d, h, heap.objs[p]) /\ Read(d, h, heap.objs[p])
    BY <1>1, <1>7, <2>2, ListsStay, ReadStays
  <2>4. CASE p # o
    <3>1. h.objs[p] = heap.objs[p]
      BY <1>6, <2>1, <2>4 DEF Changed
    <3> QED
      BY <2>2, <2>3, <3>1
  <2>5. CASE p = o
    <3>1. h.objs[p].dict = all /\ \A f \in Fields : f # "dict" => h.objs[p][f] = heap.objs[p][f]
      BY <1>6, <2>5 DEF Changed, field
    <3>2. \A f \in {"cls", "refid", "name", "given", "what", "parsed", "error", "members", "inCategory"} :
             h.objs[p][f] = heap.objs[p][f]
      BY <3>1 DEF Fields
    <3>3. Placed(d, p, h.objs[p]) /\ Read(d, h, h.objs[p])
      BY <2>2, <2>3, <3>2 DEF Placed, Read
    <3>4. ASSUME NEW c \in DOMAIN all
          PROVE  NamesTold(d, h, CategoryOf(d, object.what, c), all[c])
      <4>1. CASE c = cat
        BY <1>8, <4>1 DEF all, Put
      <4>2. CASE c # cat
        BY <2>3, <2>5, <3>4, <4>2 DEF all, Put, Lists
      <4> QED
        BY <4>1, <4>2
    <3>5. Lists(d, h, h.objs[p])
      BY <2>3, <2>5, <3>1, <3>2, <3>4 DEF Lists
    <3> QED
      BY <3>3, <3>5
  <2> QED
    BY <2>4, <2>5
<1>10. SemBut(d, h, {})
  BY <1>9 DEF SemBut
<1>11. h.objs[1].parsed = heap.objs[1].parsed
  <2>1. 1 \in 1 .. n
    BY <1>1, FirstIsThere DEF IsObject
  <2> QED
    BY <1>6, <2>1 DEF Changed, Fields, field
<1>12. Sem(d, h)
  BY <1>1, <1>7, <1>10, <1>11 DEF Sem, AllThere
<1> QED
  BY <1>7, <1>8, <1>12 DEF Whole

\* the names in a category that has been told
DictSo(d, told, done) ==
  /\ Fine(d, done)
  /\ done.raised = Nothing => NamesTold(d, done.heap, told, done.value)
  /\ done.raised # Nothing /\ told.raised # Nothing => done.raised = told.raised
  /\ done.raised # Nothing /\ told.raised = Nothing =>
        done.raised = "AttributeError" /\ <<>> \in Range(told.value)

LEMMA NamesGivenSays ==
  ASSUME dir \in Directories, NEW heap, HeapOK(heap), NEW o, IsObject(heap, o), NEW cat,
         NEW what, what = heap.objs[o].what, NEW told, told = CategoryOf(dir, what, cat),
         NEW read, Outcome(heap, read), Fine(dir, read), Says(dir, heap, o, MembersOf(dir, what), read),
         NEW selected,
         read.raised = Nothing => Listing(cat, read.heap, selected) /\ CategorySo(dir, told, selected),
         NEW entered, entered = EnterAll(cat, selected.heap, selected.value)
  PROVE  DictSo(dir, told, NamesGiven(o, cat, read, selected, entered))
<1> DEFINE h == read.heap
           after == NamesGiven(o, cat, read, selected, entered)
<1>1. HeapOK(h) /\ IsObject(h, o) /\ h.objs[o].what = what
  BY OutcomeHeap, StillThere DEF Kept, Extends, SameObject, IsObject
<1>2. CASE read.raised # Nothing
  <2>1. after = read
    BY <1>2 DEF NamesGiven
  <2>2. told.raised = read.raised
    BY <1>2 DEF CategoryOf, AndThen, Says
  <2> QED
    BY <1>2, <2>1, <2>2 DEF DictSo
<1>3. CASE read.raised = Nothing /\ cat \in DOMAIN h.objs[o].dict
  <2> DEFINE dict == h.objs[o].dict[cat]
  <2>1. after = Return(h, dict)
    BY <1>3 DEF NamesGiven
  <2>2. Whole(dir, h)
    BY <1>3 DEF Fine
  <2>3. Lists(dir, h, h.objs[o])
    BY <1>1, <2>2 DEF Whole, Sem, SemBut, IsObject
  <2>4. NamesTold(dir, h, told, dict)
    BY <1>1, <1>3, <2>3 DEF Lists
  <2> HIDE DEF dict
  <2>5. Fine(dir, Return(h, dict))
    BY <2>2, FineReturned
  <2>6. after.raised = Nothing /\ after.heap = h /\ after.value = dict
    BY <2>1, Returned
  <2> HIDE DEF after
  <2> QED
    BY <2>1, <2>4, <2>5, <2>6 DEF DictSo, after
<1>4. CASE read.raised = Nothing /\ cat \notin DOMAIN h.objs[o].dict
  <2>1. Listing(cat, h, selected) /\ CategorySo(dir, told, selected)
    BY <1>4
  <2>2. HeapOK(selected.heap) /\ Kept(h, selected.heap) /\ IsObject(selected.heap, o)
        /\ selected.heap.objs[o].what = what
    BY <1>1, <2>1, OutcomeHeap, StillThere DEF Listing, Kept, Extends, SameObject, IsObject
  <2>3. CASE selected.raised # Nothing
    <3>1. after = selected
      BY <1>4, <2>3 DEF NamesGiven
    <3> QED
      BY <2>1, <2>3, <3>1 DEF DictSo, CategorySo
  <2>4. CASE selected.raised = Nothing
    <3> DEFINE g == selected.heap
               found == selected.value
               n == Len(found)
               m == Len(g.objs)
               start == Return(g, <<>>)
    <3>1. found \in Seq(0 .. m)
      <4>1. found \in Seq(Lowest(cat) .. m)
        BY <2>1, <2>4 DEF Listing
      <4>2. Lowest(cat) .. m \subseteq 0 .. m
        BY DEF Lowest
      <4> HIDE DEF m, found
      <4> QED
        BY <4>1, <4>2, SeqWider
    <3>2. Whole(dir, g)
      BY <2>1, <2>4 DEF CategorySo, Fine
    <3>3. told = Answer(Whats(g, found))
      BY <2>1, <2>4 DEF CategorySo
    <3>4. told.raised = Nothing /\ told.value = Whats(g, found)
      BY <3>3 DEF Answer
    <3>5. n \in Nat /\ DOMAIN found = 1 .. n /\ DOMAIN Whats(g, found) = 1 .. n
      BY <3>1 DEF Whats
    <3> HIDE DEF start, g, found, n, m
    <3>6. EnteredSo(g, start, found, n, entered)
      BY <3>1, <3>2, EnterAllSays DEF start, n, m, g, found
    <3>7. DictionaryOK(m, entered.value) \/ entered.raised # Nothing
      <4>1. NamesOf(g, entered)
        BY <2>2, <3>1, EnterAllNames DEF g, found, m
      <4>2. entered.heap = g
        BY <3>6 DEF EnteredSo
      <4> QED
        BY <4>1, <4>2 DEF NamesOf, m
    <3>8. CASE entered.raised # Nothing
      <4>1. after = entered
        BY <1>4, <2>4, <3>8 DEF NamesGiven
      <4>2. PICK j \in 1 .. n : found[j] = 0
        BY <3>6, <3>8 DEF EnteredSo
      <4>3. Whats(g, found)[j] = <<>>
        BY <3>5, <4>2 DEF Whats, What
      <4>4. <<>> \in Range(told.value)
        BY <3>4, <3>5, <4>3 DEF Range
      <4>5. entered.raised = "AttributeError" /\ entered.heap = g
        BY <3>6, <3>8 DEF EnteredSo
      <4>6. "AttributeError" \notin {Nothing, "NoSuchMember"}
        BY DEF Nothing
      <4>7. Fine(dir, entered)
        BY <3>2, <4>5, <4>6, WholeGood DEF Fine
      <4> QED
        BY <3>4, <3>8, <4>1, <4>4, <4>5, <4>7 DEF DictSo
    <3>9. CASE entered.raised = Nothing
      <4> DEFINE dict == entered.value
                 kept == KeepNames(g, o, cat, dict)
      <4>1. entered.heap = g /\ Entered(dir, g, Whats(g, found), n, dict) /\ \A j \in 1 .. n : found[j] # 0
        BY <3>6, <3>9 DEF EnteredSo
      <4>2. after = Return(kept, dict)
        BY <1>4, <2>4, <3>9, <4>1 DEF NamesGiven
      <4>3. ASSUME NEW j \in 1 .. n
            PROVE  Whats(g, found)[j] # <<>>
        <5>1. found[j] \in 0 .. m /\ found[j] # 0
          BY <3>1, <3>5, <4>1, ElementAt
        <5>2. found[j] \in 1 .. Len(g.objs)
          BY <3>2, <5>1 DEF m, Whole, HeapOK, ObjectsOK
        <5>3. g.objs[found[j]].what # <<>>
          BY <3>2, <5>2 DEF Whole, Sem, SemBut, Placed
        <5> QED
          BY <3>5, <5>1, <5>3 DEF Whats, What
      <4>4. <<>> \notin Range(told.value)
        BY <3>4, <3>5, <4>3 DEF Range
      <4>5. NamesTold(dir, g, told, dict)
        BY <3>4, <3>5, <4>1, <4>4 DEF NamesTold
      <4>6. DictionaryOK(Len(g.objs), dict) /\ IsObject(g, o) /\ told = CategoryOf(dir, g.objs[o].what, cat)
        BY <2>2, <3>7, <3>9 DEF m, g
      <4> HIDE DEF dict
      <4>7. Whole(dir, kept) /\ NamesTold(dir, kept, told, dict)
        BY <3>2, <4>5, <4>6, NamesKeptWhole
      <4> HIDE DEF kept
      <4>8. Fine(dir, Return(kept, dict))
        BY <4>7, FineReturned
      <4>9. after.raised = Nothing /\ after.heap = kept /\ after.value = dict
        BY <4>2, Returned
      <4> HIDE DEF after
      <4> QED
        BY <4>2, <4>7, <4>8, <4>9 DEF DictSo, after
    <3> QED
      BY <3>8, <3>9
  <2> QED
    BY <2>3, <2>4
<1> QED
  BY <1>2, <1>3, <1>4

LEMMA dict_of_classSays ==
  ASSUME dir \in Directories, NEW heap, Whole(dir, heap), NEW o, IsObject(heap, o), NEW cat, cat # "Block",
         NEW what, what = heap.objs[o].what
  PROVE  DictSo(dir, CategoryOf(dir, what, cat), dict_of_class(heap, o, cat))
<1> DEFINE read == confirm_no_error(heap, o)
           selected == of_class(read.heap, o, cat)
           entered == EnterAll(cat, selected.heap, selected.value)
           told == CategoryOf(dir, what, cat)
<1>1. dict_of_class(heap, o, cat) = NamesGiven(o, cat, read, selected, entered)
  BY DEF dict_of_class, Dictionary, Then, NamesGiven, KeepNames, EnterAll
<1>2. HeapOK(heap)
  BY DEF Whole
<1>3. Outcome(heap, read) /\ Fine(dir, read) /\ Says(dir, heap, o, MembersOf(dir, what), read)
  BY <1>2, confirm_no_errorOutcome, confirm_no_errorSays
<1>4. ASSUME read.raised = Nothing
      PROVE  Listing(cat, read.heap, selected) /\ CategorySo(dir, told, selected)
  <2> HIDE DEF read
  <2>1. HeapOK(read.heap) /\ IsObject(read.heap, o) /\ Whole(dir, read.heap)
    BY <1>2, <1>3, <1>4, OutcomeHeap, StillThere DEF Fine
  <2>2. read.heap.objs[o].what = what
    BY <1>3 DEF Outcome, Kept, Extends, SameObject, IsObject
  <2> QED
    BY <2>1, <2>2, of_classListing, of_classSays
<1> HIDE DEF read, selected, told
<1>5. DictSo(dir, told, NamesGiven(o, cat, read, selected, entered))
  BY <1>2, <1>3, <1>4, NamesGivenSays DEF told
<1> QED
  BY <1>1, <1>5 DEF told

(***************************************************************************)
(* Each name of a path.                                                    *)
(***************************************************************************)
NextSo(d, told, done) ==
  /\ Fine(d, done)
  /\ told.raised = done.raised
  /\ done.raised = Nothing => told = Answer(What(done.heap, done.value))

LEMMA NextRaised ==
  ASSUME NEW d, NEW heap, Whole(d, heap), NEW says, says # Nothing
  PROVE  NextSo(d, Refuse(says), Raise(heap, says))
BY FineRaised, Raised DEF NextSo, Refuse

LEMMA OneFoundSays ==
  ASSUME NEW heap, HeapOK(heap), NEW o, IsObject(heap, o), NEW what, what = heap.objs[o].what, NEW cat, NEW first,
         NEW read, Outcome(heap, read), Fine(dir, read), Says(dir, heap, o, MembersOf(dir, what), read),
         NEW dict, read.raised = Nothing => DictSo(dir, CategoryOf(dir, what, cat), dict)
  PROVE  NextSo(dir, NextOf(dir, what, first, cat), OneFound(first, read, dict))
<1> DEFINE told == CategoryOf(dir, what, cat)
           mems == told.value
           path == <<first>>
           named == Named(dir, mems, path)
           next == NextOf(dir, what, first, cat)
           after == OneFound(first, read, dict)
<1>1. next = IF told.raised # Nothing THEN told
             ELSE IF <<>> \in Range(mems) THEN Refuse("AttributeError")
             ELSE IF named = {} THEN Refuse("NoSuchMember")
             ELSE IF \E n, m \in named : n # m THEN Refuse("Duplicate")
             ELSE Answer(mems[CHOOSE n \in named : TRUE])
  BY DEF NextOf, AndThen
<1>2. /\ after = IF read.raised # Nothing THEN read
                 ELSE IF dict.raised # Nothing THEN dict
                 ELSE IF path \notin DOMAIN dict.value THEN Raise(dict.heap, "NoSuchMember")
                 ELSE IF dict.value[path] = Duplicate THEN Raise(dict.heap, "Duplicate")
                 ELSE Return(dict.heap, dict.value[path])
  BY DEF OneFound
<1>3. read.raised # Nothing => told.raised = read.raised
  BY DEF CategoryOf, AndThen, Says
<1> HIDE DEF told, path, named, next, after
<1>4. CASE read.raised # Nothing
  BY <1>1, <1>2, <1>3, <1>4 DEF NextSo, next, after
<1>5. CASE read.raised = Nothing /\ dict.raised # Nothing
  <2>1. after = dict /\ Fine(dir, dict)
    BY <1>2, <1>5 DEF DictSo
  <2>2. next.raised = dict.raised
    <3>1. told.raised # Nothing => dict.raised = told.raised
      BY <1>5 DEF DictSo, told
    <3>2. told.raised = Nothing => dict.raised = "AttributeError" /\ <<>> \in Range(mems)
      BY <1>5 DEF DictSo, told
    <3>3. Refuse("AttributeError").raised = "AttributeError"
      BY DEF Refuse
    <3> QED
      BY <1>1, <3>1, <3>2, <3>3
  <2> QED
    BY <1>5, <2>1, <2>2 DEF NextSo, next, after
<1>6. CASE read.raised = Nothing /\ dict.raised = Nothing
  <2>1. NamesTold(dir, dict.heap, told, dict.value) /\ Whole(dir, dict.heap)
    BY <1>6 DEF DictSo, Fine, told
  <2>2. PICK n \in Nat : DOMAIN mems = 1 .. n /\ Entered(dir, dict.heap, mems, n, dict.value)
    BY <2>1 DEF NamesTold
  <2>3. told.raised = Nothing /\ <<>> \notin Range(mems)
    BY <2>1 DEF NamesTold
  <2>4. named = {k \in 1 .. n : Description(dir, mems[k]).name = path}
    BY <2>2 DEF Named, named
  <2>5. /\ path \in DOMAIN dict.value <=> named # {}
        /\ path \in DOMAIN dict.value =>
              IF dict.value[path] = Duplicate THEN \E j, k \in named : j # k
              ELSE \E k \in named : named = {k} /\ What(dict.heap, dict.value[path]) = mems[k]
    BY <2>2, <2>4 DEF Entered
  <2>6. CASE path \notin DOMAIN dict.value
    <3>1. next = Refuse("NoSuchMember") /\ after = Raise(dict.heap, "NoSuchMember")
      BY <1>1, <1>2, <1>6, <2>3, <2>5, <2>6
    <3>2. "NoSuchMember" # Nothing
      BY DEF Nothing
    <3> QED
      BY <2>1, <3>1, <3>2, NextRaised DEF next, after
  <2>7. CASE path \in DOMAIN dict.value /\ dict.value[path] = Duplicate
    <3>1. next = Refuse("Duplicate") /\ after = Raise(dict.heap, "Duplicate")
      BY <1>1, <1>2, <1>6, <2>3, <2>5, <2>7
    <3>2. "Duplicate" # Nothing
      BY DEF Nothing
    <3> QED
      BY <2>1, <3>1, <3>2, NextRaised DEF next, after
  <2>8. CASE path \in DOMAIN dict.value /\ dict.value[path] # Duplicate
    <3> DEFINE value == dict.value[path]
    <3>1. PICK k \in named : named = {k} /\ What(dict.heap, value) = mems[k]
      BY <2>5, <2>8
    <3>2. (CHOOSE m \in named : TRUE) = k
      BY <3>1
    <3>3. next = Answer(mems[k]) /\ after = Return(dict.heap, value)
      BY <1>1, <1>2, <1>6, <2>3, <2>8, <3>1, <3>2
    <3> HIDE DEF value
    <3>4. Fine(dir, Return(dict.heap, value))
      BY <2>1, FineReturned
    <3>5. after.raised = Nothing /\ after.heap = dict.heap /\ after.value = value
      BY <3>3, Returned
    <3>6. next = Answer(What(dict.heap, value)) /\ next.raised = Nothing
      BY <3>1, <3>3 DEF Answer
    <3>7. NextSo(dir, next, after)
      BY <3>3, <3>4, <3>5, <3>6 DEF NextSo
    <3> QED
      BY <3>7 DEF next, after
  <2> QED
    BY <2>6, <2>7, <2>8
<1> QED
  BY <1>4, <1>5, <1>6

\* a turn of get_member, and of the reading beside it
Asking(d, cat, told, first) == AndThen(told, LAMBDA one : NextOf(d, one, first, cat))
AskNext(by, told, first) == Asking(by.d, by.cat, told, first)

MemberSo(of, start, path, i, done) == OneObject(start.heap, done) /\ NextSo(dir, of.told[i], done)

Nexts == INSTANCE FoldSteps WITH Turn <- AskNext, Holds <- MemberSo

LEMMA MemberOfLoop ==
  ASSUME NEW d, NEW what, NEW path, NEW cat, NEW by, by.d = d, by.cat = cat
  PROVE  MemberOf(d, what, path, cat) = Nexts!Loop(by, Answer(what), path)
BY DEF MemberOf, Asking, AskNext, Nexts!Loop, FoldLeft, MapThenFoldSet, Max, Nexts!Last

\* the loop beside the reading of the path
NextBesideIt(of, cat, what, path, n) ==
  /\ of.cat = cat /\ of.told[0] = Answer(what)
  /\ \A i \in 1 .. n : of.told[i] = Asking(dir, cat, of.told[i - 1], path[i])
  /\ of.told[n] = MemberOf(dir, what, path, cat)

LEMMA NextsFound ==
  ASSUME NEW what, NEW cat, NEW n \in Nat, NEW path, DOMAIN path = 1 .. n
  PROVE  \E of : NextBesideIt(of, cat, what, path, n)
<1> DEFINE by == [d |-> dir, cat |-> cat]
           start == Answer(what)
<1>1. by.d = dir /\ by.cat = cat
  OBVIOUS
<1> HIDE DEF by, start
<1>2. PICK told : Nexts!Turns(by, start, path, n, told) /\ Nexts!Loop(by, start, path) = told[n]
  BY LeastNumber, Nexts!LoopTurns
<1> DEFINE of == [cat |-> cat, told |-> told]
<1>3. of.cat = cat /\ of.told = told
  OBVIOUS
<1> HIDE DEF of
<1>4. told[0] = start /\ \A i \in 1 .. n : told[i] = Asking(dir, cat, told[i - 1], path[i])
  BY <1>1, <1>2 DEF Nexts!Turns, AskNext
<1>5. told[n] = MemberOf(dir, what, path, cat)
  BY <1>1, <1>2, MemberOfLoop DEF start
<1>6. NextBesideIt(of, cat, what, path, n)
  BY <1>3, <1>4, <1>5 DEF NextBesideIt, start
<1> QED
  BY <1>6

LEMMA NextTurnSays ==
  ASSUME dir \in Directories, NEW heap, HeapOK(heap), NEW told, NEW cat, NEW first,
         NEW done, OneObject(heap, done), NextSo(dir, told, done), done.raised = Nothing,
         NEW o, o = done.value, NEW read, read = confirm_no_error(done.heap, o),
         NEW dict,
         read.raised = Nothing => DictSo(dir, CategoryOf(dir, read.heap.objs[o].what, cat), dict)
  PROVE  NextSo(dir, Asking(dir, cat, told, first), OneFound(first, read, dict))
<1> DEFINE h == done.heap
           what == h.objs[o].what
<1>1. HeapOK(h) /\ IsObject(h, o) /\ Whole(dir, h)
  BY OutcomeHeap DEF OneObject, NextSo, Fine
<1>2. Outcome(h, read) /\ Fine(dir, read) /\ Says(dir, h, o, MembersOf(dir, what), read)
  BY <1>1, confirm_no_errorOutcome, confirm_no_errorSays
<1>3. read.heap.objs[o].what = what
  BY <1>1, <1>2 DEF Outcome, Kept, Extends, SameObject, IsObject
<1>4. told = Answer(what)
  <2>1. o # 0
    BY <1>1 DEF IsObject
  <2> QED
    BY <2>1 DEF NextSo, What
<1>5. Asking(dir, cat, told, first) = NextOf(dir, what, first, cat)
  BY <1>4 DEF Asking, AndThen, Answer
<1> HIDE DEF what, h
<1>6. what = h.objs[o].what
  BY DEF what
<1>7. NextSo(dir, NextOf(dir, what, first, cat), OneFound(first, read, dict))
  BY <1>1, <1>2, <1>3, <1>6, OneFoundSays
<1> QED
  BY <1>5, <1>7

LEMMA StartsAtOne ==
  ASSUME NEW heap, Whole(dir, heap), NEW o, IsObject(heap, o), NEW what, what = heap.objs[o].what,
         NEW start, start = Return(heap, o)
  PROVE  start.heap = heap /\ OneObject(heap, start) /\ NextSo(dir, Answer(what), start)
<1>1. start.heap = heap /\ start.raised = Nothing /\ start.value = o /\ Fine(dir, start)
  BY FineReturned, Returned
<1>2. OneObject(heap, start)
  BY <1>1, KeptItself, ReturnOutcome DEF OneObject, Whole
<1>3. o # 0
  BY DEF IsObject
<1>4. What(heap, o) = what
  BY <1>3 DEF What
<1>5. NextSo(dir, Answer(what), start)
  BY <1>1, <1>4 DEF NextSo, Answer
<1> QED
  BY <1>1, <1>2, <1>5

\* Of a class of objects.
LookUpOfClassOf(of, done, first) == LookUpOfClass(of.cat, done, first)

ClassMembers == INSTANCE FoldSteps WITH Turn <- LookUpOfClassOf, Holds <- MemberSo

LEMMA LookUpAllOfClassLoop ==
  ASSUME NEW of, NEW heap, NEW o, NEW path
  PROVE  LookUpAllOfClass(heap, o, path, of.cat) = ClassMembers!Loop(of, Return(heap, o), path)
BY DEF LookUpAllOfClass, LookUpOfClassOf, ClassMembers!Loop, FoldLeft, MapThenFoldSet, Max, ClassMembers!Last

LEMMA LookUpAllOfClassSays ==
  ASSUME dir \in Directories, NEW heap, Whole(dir, heap), NEW o, IsObject(heap, o), NEW cat, cat # "Block",
         NEW what, what = heap.objs[o].what, NEW n \in Nat, NEW path, DOMAIN path = 1 .. n
  PROVE  NextSo(dir, MemberOf(dir, what, path, cat), LookUpAllOfClass(heap, o, path, cat))
<1> DEFINE start == Return(heap, o)
<1>1. start.heap = heap /\ OneObject(heap, start) /\ NextSo(dir, Answer(what), start) /\ HeapOK(heap)
  BY StartsAtOne DEF Whole
<1>2. PICK of : NextBesideIt(of, cat, what, path, n)
  BY NextsFound
<1>3. /\ of.cat = cat /\ of.told[0] = Answer(what)
      /\ \A i \in 1 .. n : of.told[i] = Asking(dir, cat, of.told[i - 1], path[i])
      /\ of.told[n] = MemberOf(dir, what, path, cat)
  BY <1>2 DEF NextBesideIt
<1>4. LookUpAllOfClass(heap, o, path, cat) = ClassMembers!Loop(of, start, path)
  BY <1>3, LookUpAllOfClassLoop
<1> HIDE DEF start
<1>5. MemberSo(of, start, path, 0, start)
  BY <1>1, <1>3 DEF MemberSo
<1>6. ASSUME NEW i \in 1 .. n, NEW done, MemberSo(of, start, path, i - 1, done)
      PROVE  MemberSo(of, start, path, i, LookUpOfClassOf(of, done, path[i]))
  <2> DEFINE first == path[i]
             told == of.told[i - 1]
             after == LookUpOfClassOf(of, done, first)
  <2>1. OneObject(heap, done) /\ NextSo(dir, told, done) /\ of.told[i] = Asking(dir, cat, told, first)
    BY <1>1, <1>3, <1>6 DEF MemberSo
  <2> HIDE DEF first, told
  <2>2. OneObject(heap, after)
    BY <1>1, <2>1, LookUpOfClassObject DEF LookUpOfClassOf
  <2>3. CASE done.raised # Nothing
    <3>1. after = done
      BY <2>3 DEF LookUpOfClassOf, LookUpOfClass, Then
    <3>2. Asking(dir, cat, told, first) = told
      BY <2>1, <2>3 DEF Asking, AndThen, NextSo
    <3> QED
      BY <1>1, <2>1, <2>2, <3>1, <3>2 DEF MemberSo, first
  <2>4. CASE done.raised = Nothing
    <3> DEFINE p == done.value
               read == confirm_no_error(done.heap, p)
               dict == dict_of_class(read.heap, p, cat)
    <3>1. after = OneFound(first, read, dict)
      BY <1>3, <2>4 DEF LookUpOfClassOf, LookUpOfClass, LookUp, Then, OneFound
    <3>2. Whole(dir, done.heap) /\ HeapOK(done.heap) /\ IsObject(done.heap, p)
      BY <2>1, <2>4, OutcomeHeap DEF OneObject, NextSo, Fine
    <3>3. Outcome(done.heap, read) /\ Fine(dir, read)
      BY <3>2, confirm_no_errorOutcome, confirm_no_errorSays
    <3> HIDE DEF p
    <3>4. read.raised = Nothing => DictSo(dir, CategoryOf(dir, read.heap.objs[p].what, cat), dict)
      <4> HIDE DEF read
      <4>1. IsObject(read.heap, p)
        BY <3>2, <3>3, OutcomeHeap, StillThere
      <4>2. read.raised = Nothing => Whole(dir, read.heap)
        BY <3>3 DEF Fine
      <4> QED
        BY <4>1, <4>2, dict_of_classSays
    <3> HIDE DEF read, dict
    <3>5. NextSo(dir, Asking(dir, cat, told, first), OneFound(first, read, dict))
      BY <1>1, <2>1, <2>4, <3>4, NextTurnSays DEF p, read
    <3> QED
      BY <1>1, <2>1, <2>2, <3>1, <3>5 DEF MemberSo, first
  <2> QED
    BY <2>3, <2>4
<1>7. MemberSo(of, start, path, n, ClassMembers!Loop(of, start, path))
  BY <1>5, <1>6, LeastNumber, ClassMembers!LoopKeeps
<1> QED
  BY <1>3, <1>4, <1>7 DEF MemberSo

-----------------------------------------------------------------------------
(***************************************************************************)
(* The friends of a class, by which it is told whether it is a block.      *)
(***************************************************************************)
LEMMA PlacesDiffer ==
  ASSUME NEW refid, NEW i, NEW j
  PROVE  /\ <<refid, i>> = <<refid, j>> => i = j
         /\ <<refid, i>> # <<>> /\ <<refid, i>> # Index
         /\ Len(<<refid, i>>) = 2 /\ <<refid, i>>[1] = refid /\ <<refid, i>>[2] = i
BY DEF Index

LEMMA AppendedHas ==
  ASSUME NEW seq, IsSeq(seq), NEW x
  PROVE  /\ IsSeq(Append(seq, x)) /\ Len(seq) \in Nat
         /\ DOMAIN Append(seq, x) = DOMAIN seq \cup {Len(seq) + 1} /\ Len(seq) + 1 \notin DOMAIN seq
         /\ Append(seq, x)[Len(seq) + 1] = x
         /\ \A n \in DOMAIN seq : Append(seq, x)[n] = seq[n]
<1>1. PICK S : seq \in Seq(S)
  BY DEF IsSeq
<1>2. seq \in Seq(S \cup {x}) /\ x \in S \cup {x}
  BY <1>1, SeqWider
<1> QED
  BY <1>2 DEF IsSeq

LEMMA MembersInFileSo ==
  ASSUME dir \in Directories, NEW refid, ~Missing(refid), NEW n, n = Len(dir.files[refid].members),
         NEW start, start = <<>>, NEW seq, seq = [i \in DOMAIN dir.files[refid].members |-> i]
  PROVE  FoundSo(FileOf(refid), start, seq, n, MembersInFile(dir, refid))
<1> DEFINE of == FileOf(refid)
<1>1. n \in Nat /\ DOMAIN seq = 1 .. n /\ \A i \in 1 .. n : seq[i] = i
  BY FileHasTypes
<1>2. of.refid = refid
  BY DEF FileOf
<1>3. MembersInFile(dir, refid) = Founds!Loop(of, start, seq)
  BY MembersInFileLoop DEF FileOf
<1> HIDE DEF of
<1>4. FoundSo(of, start, seq, 0, start)
  <2>1. DOMAIN start = {} /\ IsSeq(start)
    BY DEF IsSeq
  <2> QED
    BY <2>1 DEF FoundSo
<1>5. ASSUME NEW i \in 1 .. n, NEW found, FoundSo(of, start, seq, i - 1, found)
      PROVE  FoundSo(of, start, seq, i, FoundInFile(of, found, seq[i]))
  <2> DEFINE place == <<of.refid, i>>
             x == IF of.members[i].kind \in DOMAIN Classes THEN place ELSE <<>>
             more == Append(found, x)
             last == Len(found) + 1
             Taken(j) == FirstOfName(of.members, j) /\ of.members[j].kind \in DOMAIN Classes
  <2>1. FoundInFile(of, found, seq[i]) = IF FirstOfName(of.members, i) THEN more ELSE found
    BY <1>1 DEF FoundInFile
  <2>2. i \in 1 .. i /\ (\A j \in 1 .. i - 1 : j \in 1 .. i /\ j # i)
    BY <1>1
  <2>3. /\ IsSeq(found)
        /\ \A k \in DOMAIN found : found[k] # <<>> =>
              \E j \in 1 .. i - 1 : found[k] = <<of.refid, j>> /\ Taken(j)
        /\ \A k, m \in DOMAIN found : k # m /\ found[k] = found[m] => found[k] = <<>>
    BY <1>5 DEF FoundSo
  <2>4. CASE ~FirstOfName(of.members, i)
    BY <2>1, <2>2, <2>3, <2>4 DEF FoundSo
  <2>5. CASE FirstOfName(of.members, i)
    <3> HIDE DEF x
    <3>1. /\ IsSeq(more) /\ DOMAIN more = DOMAIN found \cup {last} /\ last \notin DOMAIN found
          /\ more[last] = x /\ \A k \in DOMAIN found : more[k] = found[k]
      BY <2>3, AppendedHas
    <3>2. x # <<>> => x = place /\ Taken(i)
      BY <2>5 DEF x
    <3> HIDE DEF more, last
    <3>3. ASSUME NEW k \in DOMAIN more, more[k] # <<>>
          PROVE  \E j \in 1 .. i : more[k] = <<of.refid, j>> /\ Taken(j)
      <4> HIDE DEF Taken
      <4>1. CASE k = last
        BY <2>2, <3>1, <3>2, <3>3, <4>1
      <4>2. CASE k # last
        <5>1. k \in DOMAIN found /\ more[k] = found[k]
          BY <3>1, <4>2
        <5>2. PICK j \in 1 .. i - 1 : found[k] = <<of.refid, j>> /\ Taken(j)
          BY <2>3, <3>3, <5>1
        <5> QED
          BY <2>2, <5>1, <5>2
      <4> QED
        BY <4>1, <4>2
    <3>4. ASSUME NEW k \in DOMAIN found, found[k] = x
          PROVE  x = <<>>
      <4>1. SUFFICES ASSUME x # <<>> PROVE FALSE
        OBVIOUS
      <4>2. PICK j \in 1 .. i - 1 : found[k] = <<of.refid, j>>
        BY <2>3, <3>4, <4>1
      <4>3. <<of.refid, j>> = <<of.refid, i>>
        BY <3>2, <3>4, <4>1, <4>2
      <4> QED
        BY <2>2, <4>2, <4>3, PlacesDiffer
    <3>5. \A k, m \in DOMAIN more : k # m /\ more[k] = more[m] => more[k] = <<>>
      BY <2>3, <3>1, <3>4
    <3>6. FoundSo(of, start, seq, i, more)
      BY <3>1, <3>3, <3>5 DEF FoundSo
    <3> QED
      BY <2>1, <2>5, <3>6
  <2> QED
    BY <2>4, <2>5
<1>6. FoundSo(of, start, seq, n, Founds!Loop(of, start, seq))
  BY <1>1, <1>4, <1>5, LeastNumber, Founds!LoopKeeps
<1> QED
  BY <1>3, <1>6 DEF of

\* What belongs to a category is what was there, and is as often there.
KeptSo(by, start, seq, i, found) ==
  /\ IsSeq(found)
  /\ \A n \in DOMAIN found : \E j \in 1 .. i : found[n] = seq[j] /\ Belongs(by.d, by.cat, seq[j])
  /\ \A j \in 1 .. i : Belongs(by.d, by.cat, seq[j]) => \E n \in DOMAIN found : found[n] = seq[j]
  /\ (\A j, k \in 1 .. i : j # k /\ seq[j] = seq[k] => ~Belongs(by.d, by.cat, seq[j])) =>
        \A n, m \in DOMAIN found : n # m => found[n] # found[m]

Keeps == INSTANCE FoldSteps WITH Turn <- KeepBelonging, Holds <- KeptSo

LEMMA BelongingLoops ==
  ASSUME NEW d, NEW cat, NEW seq, NEW by, by.d = d, by.cat = cat, NEW start, start = <<>>
  PROVE  Belonging(d, cat, seq) = Keeps!Loop(by, start, seq)
BY DEF Belonging, Those, KeepBelonging, Keeps!Loop, FoldLeft, MapThenFoldSet, Max, Keeps!Last

LEMMA BelongingSo ==
  ASSUME NEW d, NEW cat, NEW n \in Nat, NEW seq, DOMAIN seq = 1 .. n, NEW by, by.d = d, by.cat = cat,
         NEW start, start = <<>>
  PROVE  KeptSo(by, start, seq, n, Belonging(d, cat, seq))
<1>1. KeptSo(by, start, seq, 0, start)
  <2>1. DOMAIN start = {} /\ IsSeq(start) /\ \A j : j \notin 1 .. 0
    BY DEF IsSeq
  <2> QED
    BY <2>1 DEF KeptSo
<1>2. ASSUME NEW i \in 1 .. n, NEW found, KeptSo(by, start, seq, i - 1, found)
      PROVE  KeptSo(by, start, seq, i, KeepBelonging(by, found, seq[i]))
  <2> DEFINE x == seq[i]
             Is(y) == Belongs(by.d, by.cat, y)
             more == Append(found, x)
             last == Len(found) + 1
  <2>1. KeepBelonging(by, found, x) = IF Is(x) THEN more ELSE found
    BY DEF KeepBelonging
  <2>2. i \in 1 .. i /\ (\A j \in 1 .. i - 1 : j \in 1 .. i /\ j # i) /\ (\A j \in 1 .. i : j = i \/ j \in 1 .. i - 1)
    OBVIOUS
  <2>3. /\ IsSeq(found)
        /\ \A k \in DOMAIN found : \E j \in 1 .. i - 1 : found[k] = seq[j] /\ Is(seq[j])
        /\ \A j \in 1 .. i - 1 : Is(seq[j]) => \E k \in DOMAIN found : found[k] = seq[j]
        /\ (\A j, k \in 1 .. i - 1 : j # k /\ seq[j] = seq[k] => ~Is(seq[j])) =>
              \A k, m \in DOMAIN found : k # m => found[k] # found[m]
    BY <1>2 DEF KeptSo
  <2> HIDE DEF Is, x
  <2>4. x = seq[i]
    BY DEF x
  <2>5. CASE ~Is(x)
    <3>1. KeptSo(by, start, seq, i, found)
      <4>1. \A k \in DOMAIN found : \E j \in 1 .. i : found[k] = seq[j] /\ Is(seq[j])
        BY <2>2, <2>3
      <4>2. \A j \in 1 .. i : Is(seq[j]) => \E k \in DOMAIN found : found[k] = seq[j]
        BY <2>2, <2>3, <2>4, <2>5
      <4>3. (\A j, k \in 1 .. i : j # k /\ seq[j] = seq[k] => ~Is(seq[j])) =>
              \A k, m \in DOMAIN found : k # m => found[k] # found[m]
        BY <2>2, <2>3
      <4> QED
        BY <2>3, <4>1, <4>2, <4>3 DEF KeptSo, Is
    <3> QED
      BY <2>1, <2>5, <3>1 DEF x
  <2>6. CASE Is(x)
    <3>1. /\ IsSeq(more) /\ DOMAIN more = DOMAIN found \cup {last} /\ last \notin DOMAIN found
          /\ more[last] = x /\ \A k \in DOMAIN found : more[k] = found[k]
      BY <2>3, AppendedHas
    <3> HIDE DEF more, last
    <3>2. \A k \in DOMAIN more : \E j \in 1 .. i : more[k] = seq[j] /\ Is(seq[j])
      BY <2>2, <2>3, <2>4, <2>6, <3>1
    <3>3. \A j \in 1 .. i : Is(seq[j]) => \E k \in DOMAIN more : more[k] = seq[j]
      <4> TAKE j \in 1 .. i
      <4> HAVE Is(seq[j])
      <4>1. CASE j = i
        BY <2>4, <3>1, <4>1
      <4>2. CASE j # i
        <5>1. PICK k \in DOMAIN found : found[k] = seq[j]
          BY <2>2, <2>3, <4>2
        <5> QED
          BY <3>1, <5>1
      <4> QED
        BY <4>1, <4>2
    <3>4. ASSUME \A j, k \in 1 .. i : j # k /\ seq[j] = seq[k] => ~Is(seq[j])
          PROVE  \A k, m \in DOMAIN more : k # m => more[k] # more[m]
      <4>1. \A k, m \in DOMAIN found : k # m => found[k] # found[m]
        <5>1. \A j, k \in 1 .. i - 1 : j # k /\ seq[j] = seq[k] => ~Is(seq[j])
          BY <2>2, <3>4
        <5> QED
          BY <2>3, <5>1
      <4>2. \A k \in DOMAIN found : found[k] # x
        <5> TAKE k \in DOMAIN found
        <5>1. PICK j \in 1 .. i - 1 : found[k] = seq[j] /\ Is(seq[j])
          BY <2>3
        <5>2. seq[j] # seq[i]
          BY <2>2, <3>4, <5>1
        <5> QED
          BY <2>4, <5>1, <5>2
      <4> QED
        BY <3>1, <4>1, <4>2
    <3>5. KeptSo(by, start, seq, i, more)
      BY <3>1, <3>2, <3>3, <3>4 DEF KeptSo, Is
    <3> QED
      BY <2>1, <2>6, <3>5 DEF x
  <2> QED
    BY <2>5, <2>6
<1>3. KeptSo(by, start, seq, n, Keeps!Loop(by, start, seq))
  BY <1>1, <1>2, LeastNumber, Keeps!LoopKeeps
<1> QED
  BY <1>3, BelongingLoops

\* What is read of a class, and of no other kind of object that has members.
LEMMA ClassReads ==
  ASSUME NEW refid, NEW what, what = <<refid>>, KindOf(dir, what) = "DoxyClass", MembersOf(dir, what).raised = Nothing
  PROVE  ~Missing(refid) /\ MembersOf(dir, what) = Answer(MembersInFile(dir, refid))
<1>1. what # Index /\ what[1] = refid
  BY DEF KindOf
<1>2. MembersOf(dir, what) = FileRead(dir, what)
  BY <1>1 DEF MembersOf, OfFiles
<1>3. Nothing # "IOError" /\ Nothing # "AttributeError" /\ Nothing # "ParsingError"
  BY DEF Nothing
<1>4. FileRead(dir, what) = IF Missing(refid) THEN Refuse("IOError")
                            ELSE IF dir.files[refid].status = "bad" THEN Refuse("ParsingError")
                            ELSE Answer(MembersInFile(dir, refid))
  BY <1>1 DEF FileRead, Missing
<1>5. Refuse("IOError").raised # Nothing /\ Refuse("ParsingError").raised # Nothing
  BY <1>3 DEF Refuse
<1> QED
  BY <1>2, <1>4, <1>5

FriendsOf(refid) == Belonging(dir, "DoxyFriend", MembersInFile(dir, refid))

LEMMA BelongsFriend ==
  ASSUME NEW what
  PROVE  Belongs(dir, "DoxyFriend", what) <=> KindOf(dir, what) = "DoxyFriend"
BY DEF Belongs, KindOf, Index

LEMMA FriendsAre ==
  ASSUME dir \in Directories, NEW refid, ~Missing(refid)
  PROVE  /\ \A n \in DOMAIN FriendsOf(refid) : \E k \in DOMAIN dir.files[refid].members :
               FriendsOf(refid)[n] = <<refid, k>> /\ FirstOfName(dir.files[refid].members, k)
         /\ \A n, m \in DOMAIN FriendsOf(refid) : n # m => FriendsOf(refid)[n] # FriendsOf(refid)[m]
         /\ \A what : what \in Range(FriendsOf(refid)) <=>
               what \in Range(MembersInFile(dir, refid)) /\ KindOf(dir, what) = "DoxyFriend"
<1> DEFINE file == dir.files[refid].members
           of == FileOf(refid)
           start == <<>>
           seq == [i \in DOMAIN file |-> i]
           len == Len(file)
           mems == MembersInFile(dir, refid)
           by == [d |-> dir, cat |-> "DoxyFriend"]
           fs == FriendsOf(refid)
<1>1. len \in Nat /\ DOMAIN file = 1 .. len
  BY FileHasTypes
<1>2. of.refid = refid /\ of.members = file
  BY DEF FileOf
<1>3. by.d = dir /\ by.cat = "DoxyFriend"
  OBVIOUS
<1>4. FoundSo(of, start, seq, len, mems)
  BY MembersInFileSo
<1> HIDE DEF of, seq, mems, by, len, file
<1>5. /\ IsSeq(mems)
      /\ \A n \in DOMAIN mems : mems[n] # <<>> =>
            \E j \in 1 .. len : mems[n] = <<refid, j>> /\ FirstOfName(file, j)
      /\ \A n, m \in DOMAIN mems : n # m /\ mems[n] = mems[m] => mems[n] = <<>>
  BY <1>2, <1>4 DEF FoundSo
<1>6. PICK count \in Nat : DOMAIN mems = 1 .. count
  BY <1>5 DEF IsSeq
<1>7. KeptSo(by, start, mems, count, fs)
  BY <1>3, <1>6, BelongingSo DEF FriendsOf, mems
<1> HIDE DEF fs, start
<1>8. /\ IsSeq(fs)
      /\ \A n \in DOMAIN fs : \E j \in 1 .. count : fs[n] = mems[j] /\ KindOf(dir, mems[j]) = "DoxyFriend"
      /\ \A j \in 1 .. count : KindOf(dir, mems[j]) = "DoxyFriend" => \E n \in DOMAIN fs : fs[n] = mems[j]
      /\ (\A j, k \in 1 .. count : j # k /\ mems[j] = mems[k] => KindOf(dir, mems[j]) # "DoxyFriend") =>
            \A n, m \in DOMAIN fs : n # m => fs[n] # fs[m]
  BY <1>3, <1>7, BelongsFriend DEF KeptSo
<1>9. KindOf(dir, <<>>) # "DoxyFriend"
  BY DEF KindOf, Index
<1>10. \A n \in DOMAIN fs : \E k \in DOMAIN file : fs[n] = <<refid, k>> /\ FirstOfName(file, k)
  <2> TAKE n \in DOMAIN fs
  <2>1. PICK j \in 1 .. count : fs[n] = mems[j] /\ KindOf(dir, mems[j]) = "DoxyFriend"
    BY <1>8
  <2>2. j \in DOMAIN mems /\ mems[j] # <<>>
    BY <1>6, <1>9, <2>1
  <2>3. PICK k \in 1 .. len : mems[j] = <<refid, k>> /\ FirstOfName(file, k)
    BY <1>5, <2>2
  <2>4. k \in DOMAIN file
    BY <1>1
  <2> QED
    BY <2>1, <2>3, <2>4
<1>11. \A n, m \in DOMAIN fs : n # m => fs[n] # fs[m]
  <2>1. \A j, k \in 1 .. count : j # k /\ mems[j] = mems[k] => KindOf(dir, mems[j]) # "DoxyFriend"
    BY <1>5, <1>6, <1>9
  <2> QED
    BY <1>8, <2>1
<1>12. ASSUME NEW what
       PROVE  what \in Range(fs) <=> what \in Range(mems) /\ KindOf(dir, what) = "DoxyFriend"
  <2>1. what \in Range(fs) => what \in Range(mems) /\ KindOf(dir, what) = "DoxyFriend"
    <3> SUFFICES ASSUME what \in Range(fs)
                 PROVE  what \in Range(mems) /\ KindOf(dir, what) = "DoxyFriend"
      OBVIOUS
    <3>1. PICK n \in DOMAIN fs : what = fs[n]
      BY DEF Range
    <3>2. PICK j \in 1 .. count : fs[n] = mems[j] /\ KindOf(dir, mems[j]) = "DoxyFriend"
      BY <1>8
    <3>3. mems[j] \in Range(mems)
      BY <1>6 DEF Range
    <3> QED
      BY <3>1, <3>2, <3>3
  <2>2. what \in Range(mems) /\ KindOf(dir, what) = "DoxyFriend" => what \in Range(fs)
    <3> SUFFICES ASSUME what \in Range(mems), KindOf(dir, what) = "DoxyFriend"
                 PROVE  what \in Range(fs)
      OBVIOUS
    <3>1. PICK j \in 1 .. count : what = mems[j]
      BY <1>6 DEF Range
    <3>2. PICK n \in DOMAIN fs : fs[n] = mems[j]
      BY <1>8, <3>1
    <3> QED
      BY <3>1, <3>2 DEF Range
  <2> QED
    BY <2>1, <2>2
<1> QED
  BY <1>10, <1>11, <1>12 DEF fs, file, mems

LEMMA PlaceSays ==
  ASSUME dir \in Directories, NEW refid, ~Missing(refid), NEW k \in DOMAIN dir.files[refid].members
  PROVE  /\ Description(dir, <<refid, k>>) = dir.files[refid].members[k]
         /\ Len(dir.files[refid].members[k].name) = 1
<1>1. dir.files[refid].members[k] \in Range(dir.files[refid].members)
  BY DEF Range
<1>2. Len(dir.files[refid].members[k].name) = 1
  BY <1>1, ConsistentAssumption DEF Consistent, Missing
<1> DEFINE what == <<refid, k>>
<1>3. what # Index /\ Len(what) = 2 /\ what[1] = refid /\ what[2] = k
  BY PlacesDiffer
<1> HIDE DEF what
<1>4. Description(dir, what) = dir.files[refid].members[k]
  BY <1>3 DEF Description
<1> QED
  BY <1>2, <1>4 DEF what

LEMMA FriendsSay ==
  ASSUME dir \in Directories, NEW refid, ~Missing(refid)
  PROVE  /\ \A n, m \in DOMAIN FriendsOf(refid) :
               Description(dir, FriendsOf(refid)[n]).name = Description(dir, FriendsOf(refid)[m]).name => n = m
         /\ \A what \in Range(FriendsOf(refid)) :
               what # Index /\ what # <<>> /\ KindOf(dir, what) = "DoxyFriend" /\ Len(Description(dir, what).name) = 1
<1> DEFINE file == dir.files[refid].members
           fs == FriendsOf(refid)
<1>1. /\ \A n \in DOMAIN fs : \E k \in DOMAIN file : fs[n] = <<refid, k>> /\ FirstOfName(file, k)
      /\ \A n, m \in DOMAIN fs : n # m => fs[n] # fs[m]
      /\ \A what : what \in Range(fs) <=> what \in Range(MembersInFile(dir, refid)) /\ KindOf(dir, what) = "DoxyFriend"
  BY FriendsAre
<1>2. PICK len \in Nat : DOMAIN file = 1 .. len
  BY FileHasTypes
<1> HIDE DEF fs
<1>3. ASSUME NEW n \in DOMAIN fs, NEW m \in DOMAIN fs, Description(dir, fs[n]).name = Description(dir, fs[m]).name
      PROVE  n = m
  <2>1. PICK k \in DOMAIN file : fs[n] = <<refid, k>> /\ FirstOfName(file, k)
    BY <1>1
  <2>2. PICK l \in DOMAIN file : fs[m] = <<refid, l>> /\ FirstOfName(file, l)
    BY <1>1
  <2>3. file[k].name = file[l].name
    BY <1>3, <2>1, <2>2, PlaceSays
  <2>4. k \in Nat /\ l \in Nat /\ k >= 1 /\ l >= 1
    BY <1>2
  <2> HIDE DEF file
  <2>5. ~(k < l) /\ ~(l < k)
    <3>1. k < l => k \in 1 .. l - 1
      BY <2>4
    <3>2. l < k => l \in 1 .. k - 1
      BY <2>4
    <3> QED
      BY <2>1, <2>2, <2>3, <3>1, <3>2 DEF FirstOfName
  <2>6. k = l
    BY <2>4, <2>5
  <2> QED
    BY <1>1, <2>1, <2>2, <2>6
<1>4. ASSUME NEW what \in Range(fs)
      PROVE  what # Index /\ what # <<>> /\ KindOf(dir, what) = "DoxyFriend" /\ Len(Description(dir, what).name) = 1
  <2>1. PICK n \in DOMAIN fs : what = fs[n]
    BY DEF Range
  <2>2. PICK k \in DOMAIN file : what = <<refid, k>>
    BY <1>1, <2>1
  <2>3. Len(Description(dir, what).name) = 1
    BY <2>2, PlaceSays
  <2> QED
    BY <1>1, <1>4, <2>2, <2>3, PlacesDiffer
<1> QED
  BY <1>3, <1>4 DEF fs

\* The friend of one name, and none of a friend.
FriendNext(refid, first, next) ==
  /\ next.raised \in {Nothing, "NoSuchMember"}
  /\ next.raised = Nothing => \E friend \in Range(FriendsOf(refid)) : next = Answer(friend)
  /\ next.raised = Nothing <=>
        \E friend \in Range(FriendsOf(refid)) : Description(dir, friend).name = <<first>>

LEMMA NextFriend ==
  ASSUME dir \in Directories, NEW refid, NEW what, what = <<refid>>, KindOf(dir, what) = "DoxyClass",
         MembersOf(dir, what).raised = Nothing, NEW first, NEW next, next = NextOf(dir, what, first, "DoxyFriend")
  PROVE  FriendNext(refid, first, next)
<1> DEFINE fs == FriendsOf(refid)
           path == <<first>>
           named == Named(dir, fs, path)
           cat == "DoxyFriend"
<1>1. ~Missing(refid) /\ MembersOf(dir, what) = Answer(MembersInFile(dir, refid))
  BY ClassReads
<1>2. CategoryOf(dir, what, cat) = Answer(fs)
  <2>1. cat # "None" /\ \A mem : ~CannotTell(dir, cat, mem)
    BY DEF CannotTell
  <2> HIDE DEF cat
  <2> QED
    BY <1>1, <2>1 DEF CategoryOf, AndThen, Answer, FriendsOf, Belonging, cat
<1>3. /\ \A n, m \in DOMAIN fs : Description(dir, fs[n]).name = Description(dir, fs[m]).name => n = m
      /\ <<>> \notin Range(fs)
  BY <1>1, FriendsSay
<1> HIDE DEF fs, path
<1>4. next = IF <<>> \in Range(fs) THEN Refuse("AttributeError")
             ELSE IF named = {} THEN Refuse("NoSuchMember")
             ELSE IF \E n, m \in named : n # m THEN Refuse("Duplicate")
             ELSE Answer(fs[CHOOSE n \in named : TRUE])
  <2> DEFINE told == CategoryOf(dir, what, cat)
             mems == told.value
             there == Named(dir, mems, path)
  <2>1. next = IF told.raised # Nothing THEN told
               ELSE IF <<>> \in Range(mems) THEN Refuse("AttributeError")
               ELSE IF there = {} THEN Refuse("NoSuchMember")
               ELSE IF \E n, m \in there : n # m THEN Refuse("Duplicate")
               ELSE Answer(mems[CHOOSE n \in there : TRUE])
    BY DEF NextOf, AndThen, path
  <2>2. told.raised = Nothing /\ mems = fs
    BY <1>2 DEF Answer
  <2>3. there = named
    BY <2>2
  <2> HIDE DEF told, mems, there, named
  <2> QED
    BY <2>1, <2>2, <2>3
<1>5. named = {n \in DOMAIN fs : Description(dir, fs[n]).name = path}
  BY DEF Named
<1> HIDE DEF named
<1>6. ~ \E n, m \in named : n # m
  BY <1>3, <1>5
<1>7. Refuse("NoSuchMember").raised = "NoSuchMember" /\ Nothing # "NoSuchMember"
  BY DEF Refuse, Nothing
<1>8. CASE named = {}
  <2>1. next = Refuse("NoSuchMember")
    BY <1>3, <1>4, <1>8
  <2>2. ~ \E friend \in Range(fs) : Description(dir, friend).name = path
    BY <1>5, <1>8 DEF Range
  <2> QED
    BY <1>7, <2>1, <2>2 DEF FriendNext, fs, path
<1>9. CASE named # {}
  <2>1. next = Answer(fs[CHOOSE n \in named : TRUE])
    BY <1>3, <1>4, <1>6, <1>9
  <2>2. PICK n \in named : n = CHOOSE m \in named : TRUE
    BY <1>9
  <2>3. n \in DOMAIN fs /\ fs[n] \in Range(fs) /\ Description(dir, fs[n]).name = path
    BY <1>5 DEF Range
  <2>4. next = Answer(fs[n]) /\ next.raised = Nothing
    BY <2>1, <2>2 DEF Answer
  <2> QED
    BY <2>3, <2>4 DEF FriendNext, fs, path
<1> QED
  BY <1>8, <1>9

LEMMA NextOfFriend ==
  ASSUME dir \in Directories, NEW refid, ~Missing(refid), NEW friend \in Range(FriendsOf(refid)), NEW first
  PROVE  NextOf(dir, friend, first, "DoxyFriend") = Refuse("NoSuchMember")
<1> DEFINE none == <<>>
           cat == "DoxyFriend"
           fs == Belonging(dir, cat, none)
           by == [d |-> dir, cat |-> cat]
           zero == 0
           path == <<first>>
<1>1. friend # Index /\ KindOf(dir, friend) = "DoxyFriend"
  BY FriendsSay
<1>2. MembersOf(dir, friend) = Answer(none)
  BY <1>1 DEF MembersOf, OfFiles
<1>3. CategoryOf(dir, friend, cat) = Answer(fs)
  <2>1. cat # "None" /\ \A mem : ~CannotTell(dir, cat, mem)
    BY DEF CannotTell
  <2> HIDE DEF cat, none
  <2> QED
    BY <1>2, <2>1 DEF CategoryOf, AndThen, Answer, Belonging
<1>4. DOMAIN fs = {}
  <2>1. by.d = dir /\ by.cat = cat /\ DOMAIN none = 1 .. zero /\ zero \in Nat /\ \A j : j \notin 1 .. zero
    OBVIOUS
  <2> HIDE DEF fs, by, none, cat, zero
  <2>2. KeptSo(by, none, none, zero, fs)
    BY <2>1, BelongingSo DEF none, fs
  <2> QED
    BY <2>1, <2>2 DEF KeptSo
<1> HIDE DEF fs
<1>5. Range(fs) = {} /\ Named(dir, fs, path) = {}
  BY <1>4 DEF Range, Named
<1> HIDE DEF path
<1> QED
  BY <1>3, <1>5 DEF NextOf, AndThen, Answer, path

\* A path is looked up among the friends: only the first name of it can be found.
FriendSo(of, start, path, i, told) ==
  /\ i = 0 => told = start
  /\ i = 1 => told = NextOf(of.d, of.what, path[1], of.cat)
  /\ i > 1 => told.raised = "NoSuchMember"

Friends == INSTANCE FoldSteps WITH Turn <- AskNext, Holds <- FriendSo

LEMMA FriendsLoop ==
  ASSUME NEW d, NEW what, NEW path, NEW cat, NEW by, by.d = d, by.cat = cat, NEW start, start = Answer(what)
  PROVE  MemberOf(d, what, path, cat) = Friends!Loop(by, start, path)
BY DEF MemberOf, Asking, AskNext, Friends!Loop, FoldLeft, MapThenFoldSet, Max, Friends!Last

LEMMA FriendLooked ==
  ASSUME dir \in Directories, NEW refid, NEW what, what = <<refid>>, KindOf(dir, what) = "DoxyClass",
         MembersOf(dir, what).raised = Nothing, NEW n \in Nat, NEW path, DOMAIN path = 1 .. n,
         NEW by, by.d = dir, by.cat = "DoxyFriend", by.what = what, NEW start, start = Answer(what)
  PROVE  FriendSo(by, start, path, n, MemberOf(dir, what, path, "DoxyFriend"))
<1>1. ~Missing(refid)
  BY ClassReads
<1>2. FriendSo(by, start, path, 0, start)
  BY DEF FriendSo
<1>3. ASSUME NEW i \in 1 .. n, NEW told, FriendSo(by, start, path, i - 1, told)
      PROVE  FriendSo(by, start, path, i, AskNext(by, told, path[i]))
  <2> DEFINE first == path[i]
             next == AskNext(by, told, first)
  <2>1. next = AndThen(told, LAMBDA one : NextOf(dir, one, first, "DoxyFriend"))
    BY DEF AskNext, Asking
  <2>2. i \in Nat /\ (i = 1 \/ i = 2 \/ i > 2)
    OBVIOUS
  <2>3. CASE i = 1
    <3>1. told = Answer(what)
      BY <1>3, <2>3 DEF FriendSo
    <3>2. next = NextOf(dir, what, first, "DoxyFriend")
      BY <2>1, <3>1 DEF AndThen, Answer
    <3> HIDE DEF next
    <3>3. FriendSo(by, start, path, i, next)
      BY <2>3, <3>2 DEF FriendSo
    <3> QED
      BY <3>3 DEF next
  <2>4. CASE i = 2
    <3> DEFINE one == NextOf(dir, what, path[1], "DoxyFriend")
    <3>1. told = one
      BY <1>3, <2>4 DEF FriendSo
    <3>2. /\ one.raised \in {Nothing, "NoSuchMember"}
          /\ one.raised = Nothing => \E friend \in Range(FriendsOf(refid)) : one = Answer(friend)
      <4>1. FriendNext(refid, path[1], one)
        BY NextFriend
      <4> HIDE DEF one
      <4> QED
        BY <4>1 DEF FriendNext
    <3> HIDE DEF one
    <3>3. next.raised = "NoSuchMember"
      <4>1. CASE told.raised # Nothing
        BY <2>1, <3>1, <3>2, <4>1 DEF AndThen
      <4>2. CASE told.raised = Nothing
        <5>1. PICK friend \in Range(FriendsOf(refid)) : told = Answer(friend)
          BY <3>1, <3>2, <4>2
        <5>2. next = NextOf(dir, friend, first, "DoxyFriend")
          BY <2>1, <5>1 DEF AndThen, Answer
        <5>3. next = Refuse("NoSuchMember")
          BY <1>1, <5>2, NextOfFriend
        <5> QED
          BY <5>3 DEF Refuse
      <4> QED
        BY <4>1, <4>2
    <3> HIDE DEF next
    <3>4. FriendSo(by, start, path, i, next)
      BY <2>4, <3>3 DEF FriendSo
    <3> QED
      BY <3>4 DEF next
  <2>5. CASE i > 2
    <3>1. told.raised = "NoSuchMember"
      BY <1>3, <2>2, <2>5 DEF FriendSo
    <3>2. next.raised = "NoSuchMember"
      BY <2>1, <3>1 DEF AndThen, Nothing
    <3> HIDE DEF next
    <3>3. FriendSo(by, start, path, i, next)
      BY <2>2, <2>5, <3>2 DEF FriendSo
    <3> QED
      BY <3>3 DEF next
  <2> QED
    BY <2>2, <2>3, <2>4, <2>5
<1>4. FriendSo(by, start, path, n, Friends!Loop(by, start, path))
  BY <1>2, <1>3, LeastNumber, Friends!LoopKeeps
<1> QED
  BY <1>4, FriendsLoop

HasFriend(what, path) ==
  \E mem \in Range(MembersOf(dir, what).value) :
     KindOf(dir, mem) = "DoxyFriend" /\ Description(dir, mem).name = path

LEMMA FriendTold ==
  ASSUME dir \in Directories, NEW refid, NEW what, what = <<refid>>, KindOf(dir, what) = "DoxyClass",
         MembersOf(dir, what).raised = Nothing, NEW path, IsSeq(path), path # <<>>,
         NEW told, told = MemberOf(dir, what, path, "DoxyFriend")
  PROVE  /\ told.raised \in {Nothing, "NoSuchMember"}
         /\ told.raised = Nothing <=> HasFriend(what, path)
<1> DEFINE n == Len(path)
           by == [d |-> dir, cat |-> "DoxyFriend", what |-> what]
           start == Answer(what)
           fs == FriendsOf(refid)
<1>1. n \in Nat /\ n # 0 /\ DOMAIN path = 1 .. n
  BY DEF IsSeq
<1>2. by.d = dir /\ by.cat = "DoxyFriend" /\ by.what = what
  OBVIOUS
<1>3. ~Missing(refid) /\ MembersOf(dir, what) = Answer(MembersInFile(dir, refid))
  BY ClassReads
<1>4. /\ \A mem : mem \in Range(fs) <=> mem \in Range(MembersInFile(dir, refid)) /\ KindOf(dir, mem) = "DoxyFriend"
      /\ \A mem \in Range(fs) : Len(Description(dir, mem).name) = 1
  BY <1>3, FriendsAre, FriendsSay
<1>5. MembersOf(dir, what).value = MembersInFile(dir, refid)
  BY <1>3 DEF Answer
<1> HIDE DEF by, start, fs
<1>6. HasFriend(what, path) <=> \E mem \in Range(fs) : Description(dir, mem).name = path
  BY <1>4, <1>5 DEF HasFriend
<1> HIDE DEF n
<1>7. FriendSo(by, start, path, n, told)
  BY <1>1, <1>2, FriendLooked DEF start
<1>8. CASE n = 1
  <2> DEFINE first == path[1]
             next == NextOf(dir, what, first, "DoxyFriend")
  <2>1. told = next
    BY <1>2, <1>7, <1>8 DEF FriendSo
  <2>2. path = <<first>>
    BY <1>8 DEF n, IsSeq
  <2>3. FriendNext(refid, first, next)
    BY NextFriend
  <2> HIDE DEF first, next
  <2>4. /\ next.raised \in {Nothing, "NoSuchMember"}
        /\ next.raised = Nothing <=>
              \E friend \in Range(FriendsOf(refid)) : Description(dir, friend).name = <<first>>
    BY <2>3 DEF FriendNext
  <2>5. fs = FriendsOf(refid)
    BY DEF fs
  <2>6. HasFriend(what, path) <=> next.raised = Nothing
    BY <1>6, <2>2, <2>4, <2>5
  <2> QED
    BY <2>1, <2>4, <2>6
<1>9. CASE n # 1
  <2>1. told.raised = "NoSuchMember"
    BY <1>1, <1>7, <1>9 DEF FriendSo
  <2>2. ~HasFriend(what, path)
    BY <1>4, <1>6, <1>9 DEF n
  <2> QED
    BY <2>1, <2>2 DEF Nothing
<1> QED
  BY <1>8, <1>9

LEMMA make_nameIsPath ==
  ASSUME NEW path \in Seq(STRING), path # <<>>
  PROVE  IsSeq(make_name(path)) /\ make_name(path) # <<>>
<1> DEFINE n == Len(path)
           word == "make_" \o path[n]
           made == [path EXCEPT ![n] = word]
<1>1. make_name(path) = made
  BY DEF make_name
<1>2. n \in 1 .. Len(path)
  OBVIOUS
<1> HIDE DEF word, n
<1>3. path \in Seq(STRING \cup {word}) /\ word \in STRING \cup {word}
  BY SeqWider
<1>4. made \in Seq(STRING \cup {word}) /\ made # <<>>
  BY <1>2, <1>3
<1> QED
  BY <1>1, <1>4 DEF IsSeq


\* Whether a class is a block: it is asked for the friend, when it has no error.
Tells(yes, what, path) == yes \in BOOLEAN /\ (yes = TRUE <=> HasFriend(what, path))
HasSo(d, yes, has) == Fine(d, has) /\ has.raised = Nothing /\ has.value = yes

LEMMA has_memberSays ==
  ASSUME dir \in Directories, NEW heap, Whole(dir, heap), NEW o, IsObject(heap, o),
         NEW refid, NEW what, what = heap.objs[o].what, what = <<refid>>, KindOf(dir, what) = "DoxyClass",
         MembersOf(dir, what).raised = Nothing, NEW path, IsSeq(path), path # <<>>,
         NEW yes, Tells(yes, what, path),
         NEW has, has = has_member(heap, o, path, "DoxyFriend")
  PROVE  HasSo(dir, yes, has)
<1> DEFINE cat == "DoxyFriend"
           done == LookUpAllOfClass(heap, o, path, cat)
           told == MemberOf(dir, what, path, cat)
           n == Len(path)
<1>1. n \in Nat /\ DOMAIN path = 1 .. n
  BY DEF IsSeq
<1>2. told.raised \in {Nothing, "NoSuchMember"} /\ (told.raised = Nothing <=> HasFriend(what, path))
  BY FriendTold
<1>3. has = CASE done.raised = Nothing -> Return(done.heap, TRUE)
              [] done.raised = "NoSuchMember" -> Return(done.heap, FALSE)
              [] OTHER -> done
  BY DEF has_member, LookUpAllOfClass
<1>4. NextSo(dir, told, done)
  <2>1. cat # "Block"
    OBVIOUS
  <2> HIDE DEF cat, n
  <2> QED
    BY <1>1, <2>1, LookUpAllOfClassSays
<1> HIDE DEF done, told
<1>5. done.raised = told.raised /\ Whole(dir, done.heap)
  BY <1>2, <1>4 DEF NextSo, Fine
<1>6. Nothing # "NoSuchMember"
  BY DEF Nothing
<1>7. has = Return(done.heap, yes)
  <2>1. CASE yes = TRUE
    <3>1. done.raised = Nothing
      BY <1>2, <1>5, <2>1 DEF Tells
    <3> QED
      BY <1>3, <1>6, <2>1, <3>1
  <2>2. CASE yes = FALSE
    <3>1. done.raised = "NoSuchMember"
      BY <1>2, <1>5, <2>2 DEF Tells
    <3> QED
      BY <1>3, <1>6, <2>2, <3>1
  <2> QED
    BY <2>1, <2>2 DEF Tells
<1> QED
  BY <1>5, <1>7, FineReturned, Returned DEF HasSo

LEMMA AsksAnswered ==
  ASSUME NEW d, NEW cat, NEW what, NEW asked, Fine(d, asked), asked.raised = Nothing,
         ~CannotTell(d, cat, what), asked.value = Belongs(d, cat, what)
  PROVE  AsksSo(d, cat, what, asked)
BY DEF AsksSo

LEMMA includesSays ==
  ASSUME dir \in Directories, NEW cat, NEW heap, Whole(dir, heap), NEW mem \in 0 .. Len(heap.objs)
  PROVE  AsksSo(dir, cat, What(heap, mem), includes(heap, cat, mem))
<1> DEFINE what == What(heap, mem)
           object == heap.objs[mem]
           yes == Belongs(dir, cat, what)
           asked == includes(heap, cat, mem)
           no == FALSE
<1>1. mem # 0 => mem \in 1 .. Len(heap.objs)
  BY DEF Whole, HeapOK, ObjectsOK
<1>2. mem # 0 => Placed(dir, mem, object) /\ what = object.what /\ object.cls = KindOf(dir, what)
  BY <1>1 DEF Whole, Sem, SemBut, What, Placed
<1>3. yes \in BOOLEAN
  BY DEF Belongs, IsBlock
<1>4. CASE cat # "Block"
  <2>1. asked = isinstance(heap, cat, mem)
    BY <1>4 DEF includes
  <2> QED
    BY <1>4, <2>1, isinstanceSays
<1>5. CASE cat = "Block" /\ (mem = 0 \/ object.cls # "DoxyClass")
  <2>1. asked = Return(heap, no)
    BY <1>5 DEF includes
  <2>2. KindOf(dir, what) # "DoxyClass"
    BY <1>2, <1>5 DEF What, KindOf, Index
  <2>3. yes = no /\ ~CannotTell(dir, cat, what)
    BY <1>5, <2>2 DEF Belongs, IsBlock, CannotTell
  <2> HIDE DEF no, yes, what
  <2>4. Fine(dir, asked) /\ asked.raised = Nothing /\ asked.value = no
    BY <2>1, FineReturned, Returned
  <2> HIDE DEF asked
  <2>5. AsksSo(dir, cat, what, asked)
    BY <2>3, <2>4, AsksAnswered DEF yes
  <2> QED
    BY <2>5 DEF what, asked
<1>6. CASE cat = "Block" /\ mem # 0 /\ object.cls = "DoxyClass"
  <2> DEFINE bad == error(heap, mem)
             told == MembersOf(dir, what)
             named == name(bad.heap, mem)
             has == has_member(named.heap, mem, make_name(named.value), "DoxyFriend")
             refid == object.refid
  <2>1. asked = IF bad.raised # Nothing THEN bad
                ELSE IF bad.value THEN Return(bad.heap, no)
                ELSE IF named.raised # Nothing THEN named
                ELSE has
    BY <1>6 DEF includes, Then
  <2>2. IsObject(heap, mem) /\ HeapOK(heap)
    BY <1>1, <1>6 DEF IsObject, Whole
  <2>3. /\ KindOf(dir, what) = "DoxyClass" /\ what = <<refid>> /\ what # Index
        /\ object.name = Description(dir, what).name /\ object.name # <<>>
    BY <1>2, <1>6 DEF Placed, OfFiles, KindOf
  <2>4. object.name \in Seq(STRING)
    BY <2>2, Known1 DEF ObjectOK
  <2>5. told.raised \in {Nothing, "ParsingError", "IOError"}
    <3>1. told = FileRead(dir, what)
      BY <2>3 DEF MembersOf, OfFiles
    <3>2. told \in {Refuse("IOError"), Refuse("ParsingError"), Answer(MembersInFile(dir, refid))}
      BY <2>3, <3>1 DEF FileRead
    <3> QED
      BY <3>2 DEF Refuse, Answer
  <2>6. Fine(dir, bad) /\ SameAs(bad, ErrorOf(dir, what)) /\ Outcome(heap, bad)
    BY <1>2, <1>6, <2>2, errorSays, errorOutcome
  <2>7. bad.raised = ErrorOf(dir, what).raised /\ (bad.raised = Nothing => bad.value = ErrorOf(dir, what).value)
    BY <2>6 DEF SameAs
  <2> HIDE DEF bad, what, object
  <2>8. CannotTell(dir, cat, what) <=> bad.raised # Nothing
    BY <1>6, <2>3, <2>7 DEF CannotTell
  <2>9. CASE bad.raised # Nothing
    <3>1. bad.raised = "IOError"
      BY <2>5, <2>7, <2>9 DEF ErrorOf, BadRead, Answer
    <3>2. AsksSo(dir, cat, what, bad)
      BY <2>6, <2>8, <2>9, <3>1 DEF AsksSo
    <3> QED
      BY <2>1, <2>9, <3>2 DEF what
  <2>10. CASE bad.raised = Nothing
    <3>1. told.raised \in {Nothing, "ParsingError"} /\ bad.value = (told.raised # Nothing)
      BY <2>5, <2>7, <2>10 DEF ErrorOf, BadRead, Answer
    <3>2. Whole(dir, bad.heap)
      BY <2>6, <2>10 DEF Fine
    <3>3. CASE told.raised # Nothing
      <4>1. asked = Return(bad.heap, no)
        BY <2>1, <2>10, <3>1, <3>3
      <4>2. yes = no
        BY <1>6, <3>3 DEF Belongs, IsBlock
      <4> HIDE DEF no, yes
      <4>3. Fine(dir, asked) /\ asked.raised = Nothing /\ asked.value = no
        BY <3>2, <4>1, FineReturned, Returned
      <4> HIDE DEF asked
      <4>4. AsksSo(dir, cat, what, asked)
        BY <2>8, <2>10, <4>2, <4>3, AsksAnswered DEF yes
      <4> QED
        BY <4>4 DEF what, asked
    <3>4. CASE told.raised = Nothing
      <4> DEFINE path == make_name(Description(dir, what).name)
      <4>1. HeapOK(bad.heap) /\ IsObject(bad.heap, mem)
        BY <2>2, <2>6, OutcomeHeap, StillThere
      <4>2. bad.heap.objs[mem].what = what
        BY <1>2, <1>6, <2>2, <2>6 DEF Outcome, Kept, Extends, SameObject, IsObject, object
      <4>3. named = Return(bad.heap, Description(dir, what).name)
        BY <3>2, <4>1, <4>2, nameSays
      <4>4. named.raised = Nothing /\ named.heap = bad.heap /\ named.value = Description(dir, what).name
        BY <4>3, Returned
      <4>5. asked = has /\ has = has_member(bad.heap, mem, path, "DoxyFriend")
        BY <2>1, <2>10, <3>1, <3>4, <4>4
      <4>6. IsSeq(path) /\ path # <<>>
        BY <2>3, <2>4, make_nameIsPath
      <4>7. Tells(yes, what, path)
        BY <1>3, <1>6, <2>3, <3>4 DEF Tells, Belongs, IsBlock, HasFriend
      <4> HIDE DEF has, path, yes, refid
      <4>8. HasSo(dir, yes, has)
        BY <2>3, <3>2, <3>4, <4>1, <4>2, <4>5, <4>6, <4>7, has_memberSays
      <4> HIDE DEF asked
      <4>9. AsksSo(dir, cat, what, asked)
        BY <2>8, <2>10, <4>5, <4>8, AsksAnswered DEF yes, HasSo
      <4> QED
        BY <4>9 DEF what, asked
    <3> QED
      BY <3>3, <3>4
  <2> QED
    BY <2>9, <2>10
<1> QED
  BY <1>4, <1>5, <1>6

-----------------------------------------------------------------------------
(***************************************************************************)
(* All categories.                                                         *)
(***************************************************************************)
SelectIncludedOf(of, done, mem) == SelectIncluded(of.cat, done, mem)

IncludedTold == INSTANCE FoldSteps WITH Turn <- SelectIncludedOf, Holds <- SelectSo

LEMMA IncludedTurns ==
  ASSUME NEW of, NEW heap, NEW mems
  PROVE  SelectAllIncluded(of.cat, heap, mems) = IncludedTold!Loop(of, Return(heap, <<>>), mems)
BY DEF SelectAllIncluded, SelectIncludedOf, IncludedTold!Loop, FoldLeft, MapThenFoldSet, Max, IncludedTold!Last

LEMMA IncludedSays ==
  ASSUME dir \in Directories, NEW cat, cat # "None", NEW heap, Whole(dir, heap),
         NEW mems \in Seq(0 .. Len(heap.objs))
  PROVE  SelectedSo(dir, cat, heap, mems, SelectAllIncluded(cat, heap, mems))
<1> DEFINE start == Return(heap, <<>>)
           n == Len(mems)
           by == [d |-> dir, cat |-> cat]
<1>1. n \in Nat /\ DOMAIN mems = 1 .. n
  OBVIOUS
<1>2. by.d = dir /\ by.cat = cat
  OBVIOUS
<1>3. HeapOK(heap)
  BY DEF Whole
<1> HIDE DEF n, by
<1>4. PICK of : BesideIt(of, by, cat, heap, n, mems)
  BY <1>1, <1>2, BelongingFound
<1>12. /\ of.cat = cat /\ of.found[0] = <<>>
       /\ \A i \in 1 .. n : of.found[i] = KeepBelonging(by, of.found[i - 1], What(heap, mems[i]))
       /\ of.found[n] = Belonging(dir, cat, Whats(heap, mems))
  BY <1>4 DEF BesideIt
<1>5. start.heap = heap /\ start.raised = Nothing /\ start.value = <<>> /\ Fine(dir, start)
  BY FineReturned, Returned
<1>6. Listing(cat, heap, start)
  <2>1. <<>> \in Seq(Lowest(cat) .. Len(heap.objs))
    OBVIOUS
  <2> QED
    BY <1>3, <2>1, KeptItself, ListingReturned
<1>7. SelectAllIncluded(cat, heap, mems) = IncludedTold!Loop(of, start, mems)
  BY <1>12, IncludedTurns
<1> HIDE DEF start
<1>8. SelectSo(of, start, mems, 0, start)
  <2>1. Whats(heap, <<>>) = <<>>
    BY DEF Whats
  <2> QED
    BY <1>5, <1>6, <1>12, <2>1 DEF SelectSo
<1>9. ASSUME NEW i \in 1 .. n, NEW done, SelectSo(of, start, mems, i - 1, done)
      PROVE  SelectSo(of, start, mems, i, SelectIncludedOf(of, done, mems[i]))
  <2> DEFINE mem == mems[i]
             what == What(heap, mem)
             asked == includes(done.heap, cat, mem)
  <2>1. i \in Nat /\ i # 0 /\ mem \in 0 .. Len(heap.objs) /\ \A j \in 1 .. i - 1 : j \in 1 .. i
    BY <1>1, ElementAt
  <2>2. CASE done.raised # Nothing
    <3>1. SelectIncludedOf(of, done, mem) = done
      BY <2>2 DEF SelectIncludedOf, SelectIncluded, Select, Then
    <3>2. SelectSo(of, start, mems, i, done)
      BY <1>9, <2>1, <2>2 DEF SelectSo
    <3> QED
      BY <3>1, <3>2
  <2>3. CASE done.raised = Nothing
    <3>1. SelectIncludedOf(of, done, mem) = Selected(done, mem, asked)
      BY <1>12, <2>3 DEF SelectIncludedOf, SelectIncluded, Select, Then, Selected
    <3>2. Whole(dir, done.heap) /\ Kept(heap, done.heap)
      BY <1>5, <1>9, <2>3 DEF SelectSo, Fine, Listing, Outcome
    <3>3. mem \in 0 .. Len(done.heap.objs) /\ What(done.heap, mem) = what
      BY <1>3, <2>1, <3>2, StillThere, WhatStays
    <3>4. AsksSo(dir, cat, What(done.heap, mem), asked)
      BY <3>2, <3>3, includesSays
    <3>5. Outcome(done.heap, asked) /\ (asked.raised = Nothing => (asked.value => mem # 0))
      BY <3>2, <3>3, includesOutcome DEF Whole
    <3>6. of.found[i] = KeepBelonging(by, of.found[i - 1], what)
      BY <1>12
    <3> HIDE DEF asked, mem, what
    <3>7. mem = mems[i] /\ what = What(heap, mem) /\ mem \in 0 .. Len(heap.objs)
      BY <2>1 DEF mem, what
    <3>8. AsksSo(dir, of.cat, what, asked) /\ of.cat # "None" /\ by.d = dir /\ by.cat = of.cat
      BY <1>2, <1>12, <3>3, <3>4
    <3>9. SelectSo(of, start, mems, i, Selected(done, mem, asked))
      BY <1>3, <1>5, <1>9, <2>1, <2>3, <3>5, <3>6, <3>7, <3>8, SelectTurnSays
    <3> QED
      BY <3>1, <3>9 DEF mem
  <2> QED
    BY <2>2, <2>3
<1>10. SelectSo(of, start, mems, n, IncludedTold!Loop(of, start, mems))
  BY <1>1, <1>8, <1>9, LeastNumber, IncludedTold!LoopKeeps
<1>11. SelectedSo(dir, of.cat, heap, mems, IncludedTold!Loop(of, start, mems))
  BY <1>1, <1>5, <1>10, <1>12, SelectedAll
<1> QED
  BY <1>7, <1>11, <1>12

LEMMA in_categorySays ==
  ASSUME dir \in Directories, NEW heap, Whole(dir, heap), NEW o, IsObject(heap, o), NEW cat,
         NEW what, what = heap.objs[o].what
  PROVE  CategorySo(dir, CategoryOf(dir, what, cat), in_category(heap, o, cat))
<1> DEFINE read == confirm_no_error(heap, o)
           asked == SelectAllIncluded(cat, read.heap, read.heap.objs[o].members)
<1>1. in_category(heap, o, cat) = Categorised(o, cat, read, asked)
  BY DEF in_category, Category, Then, KeepCategory, Categorised, SelectAllIncluded
<1>2. HeapOK(heap)
  BY DEF Whole
<1>3. Outcome(heap, read) /\ Fine(dir, read) /\ Says(dir, heap, o, MembersOf(dir, what), read)
  BY <1>2, confirm_no_errorOutcome, confirm_no_errorSays
<1>4. ASSUME read.raised = Nothing, cat # "None"
      PROVE  SelectedSo(dir, cat, read.heap, read.heap.objs[o].members, asked)
  <2> HIDE DEF read
  <2>1. HeapOK(read.heap) /\ IsObject(read.heap, o) /\ Whole(dir, read.heap)
    BY <1>2, <1>3, <1>4, OutcomeHeap, StillThere DEF Fine
  <2>2. read.heap.objs[o].members \in Seq(0 .. Len(read.heap.objs))
    BY <2>1, Known1 DEF ObjectOK
  <2> QED
    BY <1>4, <2>1, <2>2, IncludedSays
<1> HIDE DEF read, asked
<1> QED
  BY <1>1, <1>2, <1>3, <1>4, CategorisedSays

LEMMA _get_dict_membersSays ==
  ASSUME dir \in Directories, NEW heap, Whole(dir, heap), NEW o, IsObject(heap, o), NEW cat,
         NEW what, what = heap.objs[o].what
  PROVE  DictSo(dir, CategoryOf(dir, what, cat), _get_dict_members(heap, o, cat))
<1> DEFINE read == confirm_no_error(heap, o)
           selected == in_category(read.heap, o, cat)
           entered == EnterAll(cat, selected.heap, selected.value)
           told == CategoryOf(dir, what, cat)
<1>1. _get_dict_members(heap, o, cat) = NamesGiven(o, cat, read, selected, entered)
  BY DEF _get_dict_members, Dictionary, Then, NamesGiven, KeepNames, EnterAll
<1>2. HeapOK(heap)
  BY DEF Whole
<1>3. Outcome(heap, read) /\ Fine(dir, read) /\ Says(dir, heap, o, MembersOf(dir, what), read)
  BY <1>2, confirm_no_errorOutcome, confirm_no_errorSays
<1>4. ASSUME read.raised = Nothing
      PROVE  Listing(cat, read.heap, selected) /\ CategorySo(dir, told, selected)
  <2> HIDE DEF read
  <2>1. HeapOK(read.heap) /\ IsObject(read.heap, o) /\ Whole(dir, read.heap)
    BY <1>2, <1>3, <1>4, OutcomeHeap, StillThere DEF Fine
  <2>2. read.heap.objs[o].what = what
    BY <1>3 DEF Outcome, Kept, Extends, SameObject, IsObject
  <2> QED
    BY <2>1, <2>2, in_categoryListing, in_categorySays
<1> HIDE DEF read, selected, told
<1>5. DictSo(dir, told, NamesGiven(o, cat, read, selected, entered))
  BY <1>2, <1>3, <1>4, NamesGivenSays DEF told
<1> QED
  BY <1>1, <1>5 DEF told

LookUpFirstOf(of, done, first) == LookUpFirst(of.cat, done, first)

AllMembers == INSTANCE FoldSteps WITH Turn <- LookUpFirstOf, Holds <- MemberSo

LEMMA get_memberLoop ==
  ASSUME NEW of, NEW heap, NEW o, NEW path
  PROVE  get_member(heap, o, path, of.cat) = AllMembers!Loop(of, Return(heap, o), path)
BY DEF get_member, LookUpFirstOf, AllMembers!Loop, FoldLeft, MapThenFoldSet, Max, AllMembers!Last

LEMMA get_memberSays ==
  ASSUME dir \in Directories, NEW heap, Whole(dir, heap), NEW o, IsObject(heap, o), NEW cat,
         NEW what, what = heap.objs[o].what, NEW n \in Nat, NEW path, DOMAIN path = 1 .. n
  PROVE  NextSo(dir, MemberOf(dir, what, path, cat), get_member(heap, o, path, cat))
<1> DEFINE start == Return(heap, o)
<1>1. start.heap = heap /\ OneObject(heap, start) /\ NextSo(dir, Answer(what), start) /\ HeapOK(heap)
  BY StartsAtOne DEF Whole
<1>2. PICK of : NextBesideIt(of, cat, what, path, n)
  BY NextsFound
<1>3. /\ of.cat = cat /\ of.told[0] = Answer(what)
      /\ \A i \in 1 .. n : of.told[i] = Asking(dir, cat, of.told[i - 1], path[i])
      /\ of.told[n] = MemberOf(dir, what, path, cat)
  BY <1>2 DEF NextBesideIt
<1>4. get_member(heap, o, path, cat) = AllMembers!Loop(of, start, path)
  BY <1>3, get_memberLoop
<1> HIDE DEF start
<1>5. MemberSo(of, start, path, 0, start)
  BY <1>1, <1>3 DEF MemberSo
<1>6. ASSUME NEW i \in 1 .. n, NEW done, MemberSo(of, start, path, i - 1, done)
      PROVE  MemberSo(of, start, path, i, LookUpFirstOf(of, done, path[i]))
  <2> DEFINE first == path[i]
             told == of.told[i - 1]
             after == LookUpFirstOf(of, done, first)
  <2>1. OneObject(heap, done) /\ NextSo(dir, told, done) /\ of.told[i] = Asking(dir, cat, told, first)
    BY <1>1, <1>3, <1>6 DEF MemberSo
  <2> HIDE DEF first, told
  <2>2. OneObject(heap, after)
    BY <1>1, <2>1, LookUpFirstObject DEF LookUpFirstOf
  <2>3. CASE done.raised # Nothing
    <3>1. after = done
      BY <2>3 DEF LookUpFirstOf, LookUpFirst, Then
    <3>2. Asking(dir, cat, told, first) = told
      BY <2>1, <2>3 DEF Asking, AndThen, NextSo
    <3> QED
      BY <1>1, <2>1, <2>2, <3>1, <3>2 DEF MemberSo, first
  <2>4. CASE done.raised = Nothing
    <3> DEFINE p == done.value
               read == confirm_no_error(done.heap, p)
               dict == _get_dict_members(read.heap, p, cat)
    <3>1. after = OneFound(first, read, dict)
      BY <1>3, <2>4 DEF LookUpFirstOf, LookUpFirst, LookUp, Then, OneFound
    <3>2. Whole(dir, done.heap) /\ HeapOK(done.heap) /\ IsObject(done.heap, p)
      BY <2>1, <2>4, OutcomeHeap DEF OneObject, NextSo, Fine
    <3>3. Outcome(done.heap, read) /\ Fine(dir, read)
      BY <3>2, confirm_no_errorOutcome, confirm_no_errorSays
    <3> HIDE DEF p
    <3>4. read.raised = Nothing => DictSo(dir, CategoryOf(dir, read.heap.objs[p].what, cat), dict)
      <4> HIDE DEF read
      <4>1. IsObject(read.heap, p)
        BY <3>2, <3>3, OutcomeHeap, StillThere
      <4>2. read.raised = Nothing => Whole(dir, read.heap)
        BY <3>3 DEF Fine
      <4> QED
        BY <4>1, <4>2, _get_dict_membersSays
    <3> HIDE DEF read, dict
    <3>5. NextSo(dir, Asking(dir, cat, told, first), OneFound(first, read, dict))
      BY <1>1, <2>1, <2>4, <3>4, NextTurnSays DEF p, read
    <3> QED
      BY <1>1, <2>1, <2>2, <3>1, <3>5 DEF MemberSo, first
  <2> QED
    BY <2>3, <2>4
<1>7. MemberSo(of, start, path, n, AllMembers!Loop(of, start, path))
  BY <1>5, <1>6, LeastNumber, AllMembers!LoopKeeps
<1> QED
  BY <1>3, <1>4, <1>7 DEF MemberSo

-----------------------------------------------------------------------------
(***************************************************************************)
(* What is kept of a directory as long as no parse has been left by an     *)
(* exception, by a client's calls and by the script.                       *)
(***************************************************************************)
LEMMA GoodIsWhole ==
  ASSUME NEW d, NEW heap, HeapOK(heap), Good(d, heap), heap.broken = {}
  PROVE  Whole(d, heap)
BY DEF Whole, Good

\* the index is there, and a path is a sequence
LEMMA WOKSays == ASSUME WOK PROVE HeapOK(Heap) /\ IsObject(Heap, 1) /\ dir \in Directories
BY DEF WOK, IsObject, HeapOK, ObjectsOK

LEMMA AskedPaths ==
  ASSUME NEW path \in Asked
  PROVE  Len(path) \in Nat /\ DOMAIN path = 1 .. Len(path)
<1>1. path \in Seq(STRING)
  BY AskedAssumption DEF Names
<1> QED
  BY <1>1

LEMMA make_block_entryFine ==
  ASSUME dir \in Directories, NEW heap, Whole(dir, heap), NEW block, IsObject(heap, block)
  PROVE  Fine(dir, make_block_entry(heap, block))
<1> DEFINE path == heap.objs[block].name
           n == Len(path)
           make == get_member(heap, 1, make_name(path), "DoxyFunction")
           header == get_member(make.heap, 1, HeaderName(path), "DoxyFile")
           filed == header.raised = Nothing /\ combine_descriptions(header.heap, header.value)
           sure == IF SureOf(header) THEN Return(header.heap, filed) ELSE header
           asked == in_category(sure.heap, block, "DoxyFunction")
           creator == get_member(asked.heap, block, path, "DoxyFunction")
           entries2 == make_entry(creator.heap, block, "block", \/ combine_descriptions(creator.heap, block)
                                                                \/ combine_descriptions(creator.heap, make.value)
                                                                \/ sure.value)
                       \o make_entry(creator.heap, make.value, "make", TRUE)
<1>1. make_block_entry(heap, block) =
        IF make.raised # Nothing THEN make
        ELSE IF sure.raised # Nothing THEN sure
        ELSE IF asked.raised # Nothing THEN asked
        ELSE IF creator.raised # Nothing THEN creator
        ELSE Return(creator.heap, entries2)
  BY DEF make_block_entry, Then
<1>2. n \in Nat /\ DOMAIN path = 1 .. n /\ DOMAIN make_name(path) = 1 .. n /\ DOMAIN HeaderName(path) = 1 .. n
  <2>1. path \in Seq(STRING)
    BY NameIsPath DEF Whole
  <2> HIDE DEF path
  <2> QED
    BY <2>1, make_nameDomain
<1>3. IsObject(heap, 1) /\ HeapOK(heap)
  BY DEF IsObject, Whole, HeapOK, ObjectsOK
<1> HIDE DEF n, path, entries2
<1>4. Fine(dir, make) /\ Outcome(heap, make)
  BY <1>2, <1>3, get_memberSays, get_memberObject DEF NextSo, OneObject
<1> HIDE DEF make
<1>5. SUFFICES ASSUME make.raised = Nothing
               PROVE  Fine(dir, make_block_entry(heap, block))
  BY <1>1, <1>4
<1>6. Whole(dir, make.heap) /\ HeapOK(make.heap) /\ IsObject(make.heap, 1) /\ IsObject(make.heap, block)
  BY <1>3, <1>4, <1>5, OutcomeHeap, StillThere DEF Fine
<1>7. Fine(dir, header) /\ Outcome(make.heap, header)
  BY <1>2, <1>6, get_memberSays, get_memberObject DEF NextSo, OneObject
<1> HIDE DEF header
<1>8. HeapOK(header.heap) /\ IsObject(header.heap, block)
  BY <1>6, <1>7, OutcomeHeap, StillThere
<1>9. CASE ~SureOf(header)
  <2>1. sure = header /\ header.raised # Nothing
    BY <1>9 DEF SureOf
  <2> QED
    BY <1>1, <1>5, <1>7, <2>1
<1>10. CASE SureOf(header)
  <2>1. sure = Return(header.heap, filed)
    BY <1>10
  <2> HIDE DEF filed, sure
  <2>2. sure.raised = Nothing /\ sure.heap = header.heap
    BY <2>1, Returned
  <2>3. Whole(dir, header.heap)
    BY <1>7, <1>10 DEF SureOf, Fine
  <2>4. Whole(dir, sure.heap) /\ HeapOK(sure.heap) /\ IsObject(sure.heap, block)
    BY <1>8, <2>2, <2>3
  <2>5. Fine(dir, asked) /\ Outcome(sure.heap, asked)
    BY <2>4, in_categorySays, in_categoryListing DEF CategorySo, Listing
  <2> HIDE DEF asked
  <2>6. CASE asked.raised # Nothing
    BY <1>1, <1>5, <2>2, <2>5, <2>6
  <2>7. CASE asked.raised = Nothing
    <3>1. Whole(dir, asked.heap) /\ IsObject(asked.heap, block)
      BY <2>4, <2>5, <2>7, OutcomeHeap, StillThere DEF Fine
    <3>2. Fine(dir, creator)
      BY <1>2, <3>1, get_memberSays DEF NextSo
    <3> HIDE DEF creator
    <3>3. creator.raised = Nothing => Fine(dir, Return(creator.heap, entries2))
      BY <3>2, FineReturned DEF Fine
    <3> QED
      BY <1>1, <1>5, <2>2, <2>7, <3>2, <3>3
  <2> QED
    BY <2>6, <2>7
<1> QED
  BY <1>9, <1>10

LEMMA make_class_entryFine ==
  ASSUME dir \in Directories, NEW heap, Whole(dir, heap), NEW klass, IsObject(heap, klass)
  PROVE  Fine(dir, make_class_entry(heap, klass))
<1> DEFINE read == confirm_no_error(heap, klass)
           done == in_category(read.heap, klass, "DoxyFunction")
           entry == make_entry(done.heap, klass, "class", combine_descriptions(done.heap, klass))
<1>1. make_class_entry(heap, klass) =
        IF read.raised # Nothing THEN read ELSE IF done.raised # Nothing THEN done ELSE Return(done.heap, entry)
  BY DEF make_class_entry, Then
<1> HIDE DEF entry
<1>2. HeapOK(heap)
  BY DEF Whole
<1>3. Outcome(heap, read) /\ Fine(dir, read)
  BY <1>2, confirm_no_errorOutcome, confirm_no_errorSays
<1> HIDE DEF read
<1>4. CASE read.raised # Nothing
  BY <1>1, <1>3, <1>4
<1>5. CASE read.raised = Nothing
  <2>1. Whole(dir, read.heap) /\ IsObject(read.heap, klass)
    BY <1>2, <1>3, <1>5, OutcomeHeap, StillThere DEF Fine
  <2>2. Fine(dir, done)
    BY <2>1, in_categorySays DEF CategorySo
  <2> HIDE DEF done
  <2>3. done.raised = Nothing => Fine(dir, Return(done.heap, entry))
    BY <2>2, FineReturned DEF Fine
  <2> QED
    BY <1>1, <1>5, <2>2, <2>3
<1> QED
  BY <1>4, <1>5

LEMMA make_func_entryFine ==
  ASSUME dir \in Directories, NEW heap, Whole(dir, heap), NEW func, IsObject(heap, func)
  PROVE  Fine(dir, make_func_entry(heap, func))
<1> DEFINE done == confirm_no_error(heap, func)
           entry == make_entry(done.heap, func, "function", TRUE)
<1>1. make_func_entry(heap, func) = IF done.raised # Nothing THEN done ELSE Return(done.heap, entry)
  BY DEF make_func_entry, Then
<1>2. Fine(dir, done)
  BY confirm_no_errorSays
<1> HIDE DEF done, entry
<1>3. done.raised = Nothing => Fine(dir, Return(done.heap, entry))
  BY <1>2, FineReturned DEF Fine
<1> QED
  BY <1>1, <1>2, <1>3

\* an operation on the objects as they are, whose result they become
Done1(done) == Outcome(Heap, done) /\ (Whole(dir, Heap) => Fine(dir, done))

LEMMA GoodAfter ==
  ASSUME WOK, Good(dir, Heap), NEW STATE done, Done1(done), Becomes(done.heap), dir' = dir
  PROVE  Good(dir, Heap)'
<1>1. Kept(Heap, done.heap)
  BY OutcomeHeap DEF Done1
<1>2. Heap' = done.heap
  BY <1>1, HeapAfter
<1>3. Good(dir, done.heap)
  <2>1. CASE Heap.broken = {}
    BY <2>1, GoodIsWhole, WOKSays DEF Done1, Fine
  <2>2. CASE Heap.broken # {}
    <3>1. done.heap.broken # {}
      BY <1>1, <2>2 DEF Kept, Extends
    <3> QED
      BY <3>1 DEF Good
  <2> QED
    BY <2>1, <2>2
<1> QED
  BY <1>2, <1>3

LEMMA in_categoryDone ==
  ASSUME WOK, NEW o, IsObject(Heap, o), NEW cat
  PROVE  Done1(in_category(Heap, o, cat))
<1>1. HeapOK(Heap) /\ dir \in Directories
  BY WOKSays
<1>2. Outcome(Heap, in_category(Heap, o, cat))
  BY <1>1, in_categoryListing DEF Listing
<1>3. Whole(dir, Heap) => Fine(dir, in_category(Heap, o, cat))
  BY <1>1, in_categorySays DEF CategorySo
<1> QED
  BY <1>2, <1>3 DEF Done1

LEMMA CallGood == ASSUME WOK, Good(dir, Heap), Call PROVE Good(dir, Heap)'
<1>1. PICK o \in Known : Members(o) \/ InCategory(o) \/ GetMember(o) \/ Error(o)
  BY DEF Call
<1>2. HeapOK(Heap) /\ IsObject(Heap, o) /\ dir \in Directories /\ dir' = dir
  BY KnownAreObjects, WOKSays DEF Call
<1>3. CASE Members(o)
  <2>1. Done1(members(Heap, o))
    BY <1>2, membersOutcome, membersSays DEF Done1
  <2>2. Becomes(members(Heap, o).heap)
    BY <1>3 DEF Members
  <2> QED
    BY <1>2, <2>1, <2>2, GoodAfter
<1>4. CASE Error(o)
  <2>1. Done1(error(Heap, o))
    BY <1>2, errorOutcome, errorSays DEF Done1
  <2>2. Becomes(error(Heap, o).heap)
    BY <1>4 DEF Error
  <2> QED
    BY <1>2, <2>1, <2>2, GoodAfter
<1>5. CASE InCategory(o)
  <2>1. PICK cat \in Categories : Becomes(in_category(Heap, o, cat).heap)
    BY <1>5 DEF InCategory
  <2>2. Done1(in_category(Heap, o, cat))
    BY <1>2, in_categoryDone
  <2> QED
    BY <1>2, <2>1, <2>2, GoodAfter
<1>6. CASE GetMember(o)
  <2>1. PICK path \in Asked, cat \in Categories : Becomes(get_member(Heap, o, path, cat).heap)
    BY <1>6 DEF GetMember
  <2>2. Len(path) \in Nat /\ DOMAIN path = 1 .. Len(path)
    BY AskedPaths
  <2>3. OneObject(Heap, get_member(Heap, o, path, cat))
    BY <1>2, <2>2, get_memberObject
  <2>4. Whole(dir, Heap) => Fine(dir, get_member(Heap, o, path, cat))
    BY <1>2, <2>2, get_memberSays DEF NextSo
  <2>5. Done1(get_member(Heap, o, path, cat))
    BY <2>3, <2>4 DEF Done1, OneObject
  <2> QED
    BY <1>2, <2>1, <2>5, GoodAfter
<1> QED
  BY <1>1, <1>3, <1>4, <1>5, <1>6

LEMMA WInitGood == WInit => Good(dir, Heap)
<1> SUFFICES ASSUME WInit PROVE Good(dir, Heap)
  OBVIOUS
<1> DEFINE object == Object("DoxyIndex", NoRef, <<>>, TRUE, <<"index">>)
<1>1. Heap.objs = <<object>> /\ Heap.refs = <<>>
  BY DEF WInit, Init, Heap
<1>2. Fresh(object)
  BY DEF Object, Fresh
<1>3. Placed(dir, 1, object)
  <2>1. /\ object.given /\ object.what = Index /\ object.cls = "DoxyIndex" /\ object.name = <<>>
        /\ object.refid = NoRef
    BY DEF Object, Index
  <2>2. KindOf(dir, Index) = "DoxyIndex" /\ Description(dir, Index).name = <<>> /\ Index # <<>>
    BY DEF KindOf, Description, Index
  <2> HIDE DEF object
  <2> QED
    BY <2>1, <2>2 DEF Placed, OfFiles
<1> HIDE DEF object
<1>4. Len(Heap.objs) = 1 /\ Heap.objs[1] = object /\ DOMAIN Heap.refs = {}
  BY <1>1
<1>5. \A o \in 1 .. Len(Heap.objs) : o = 1
  BY <1>4
<1>6. Read(dir, Heap, object) /\ Lists(dir, Heap, object)
  BY <1>2, FreshSays
<1>7. SemBut(dir, Heap, {})
  BY <1>3, <1>4, <1>5, <1>6 DEF SemBut
<1>8. ~Heap.objs[1].parsed
  BY <1>2, <1>4 DEF Fresh
<1> QED
  BY <1>4, <1>7, <1>8 DEF Good, Sem

LEMMA WNextGood == WOK /\ Good(dir, Heap) /\ [WNext]_wvars => Good(dir, Heap)'
<1> SUFFICES ASSUME WOK, Good(dir, Heap), [WNext]_wvars PROVE Good(dir, Heap)'
  OBVIOUS
<1>1. HeapOK(Heap) /\ dir \in Directories /\ IsObject(Heap, 1)
  BY WOKSays
<1>2. todo # <<>> => IsObject(Heap, Head(todo))
  BY ListTail DEF WOK
<1>3. CASE Ask
  BY <1>3, CallGood DEF Ask
<1>4. CASE FindBlocks
  <2>1. Becomes(in_category(Heap, 1, "Block").heap) /\ dir' = dir
    BY <1>4 DEF FindBlocks, Stops, Does
  <2> QED
    BY <1>1, <2>1, in_categoryDone, GoodAfter
<1>5. CASE BlockEntry
  <2> DEFINE done == make_block_entry(Heap, Head(todo))
  <2>1. todo # <<>> /\ WriteEntry(done)
    BY <1>5 DEF BlockEntry
  <2>2. Done1(done)
    BY <1>1, <1>2, <2>1, make_block_entryOutcome, make_block_entryFine DEF Done1
  <2> HIDE DEF done
  <2>3. Becomes(done.heap) /\ dir' = dir
    BY <2>1 DEF WriteEntry, Stops, Does
  <2> QED
    BY <2>2, <2>3, GoodAfter
<1>6. CASE FunctionEntry
  <2> DEFINE done == make_func_entry(Heap, Head(todo))
  <2>1. todo # <<>> /\ WriteEntry(done)
    BY <1>6 DEF FunctionEntry
  <2>2. Done1(done)
    BY <1>1, <1>2, <2>1, make_func_entryOutcome, make_func_entryFine DEF Done1
  <2> HIDE DEF done
  <2>3. Becomes(done.heap) /\ dir' = dir
    BY <2>1 DEF WriteEntry, Stops, Does
  <2> QED
    BY <2>2, <2>3, GoodAfter
<1>7. CASE ClassEntry
  <2> DEFINE done == make_class_entry(Heap, Head(todo))
  <2>1. todo # <<>> /\ WriteEntry(done)
    BY <1>7 DEF ClassEntry
  <2>2. Done1(done)
    BY <1>1, <1>2, <2>1, make_class_entryOutcome, make_class_entryFine DEF Done1
  <2> HIDE DEF done
  <2>3. Becomes(done.heap) /\ dir' = dir
    BY <2>1 DEF WriteEntry, Stops, Does
  <2> QED
    BY <2>2, <2>3, GoodAfter
<1>8. CASE FindFunctions
  <2>1. Becomes(in_category(Heap, 1, "DoxyFunction").heap) /\ dir' = dir
    BY <1>8 DEF FindFunctions, NextLoop, Does
  <2> QED
    BY <1>1, <2>1, in_categoryDone, GoodAfter
<1>9. CASE FindClasses
  <2>1. Becomes(in_category(Heap, 1, "DoxyClass").heap) /\ dir' = dir
    BY <1>9 DEF FindClasses, NextLoop, Does
  <2> QED
    BY <1>1, <2>1, in_categoryDone, GoodAfter
<1>10. CASE WriteFile \/ Done \/ UNCHANGED wvars
  <2>1. Heap' = Heap /\ dir' = dir
    BY <1>10 DEF WriteFile, Done, wvars, Heap
  <2> QED
    BY <2>1
<1> QED
  BY <1>3, <1>4, <1>5, <1>6, <1>7, <1>8, <1>9, <1>10 DEF WNext

LEMMA AnswersThen == WOK /\ Good(dir, Heap) => AnswersAsEager
<1> SUFFICES ASSUME WOK, Good(dir, Heap), broken = {}, NEW o \in Known, NEW what, what = objs[o].what
             PROVE  /\ SameAs(Told(members(Heap, o)), MembersOf(dir, what))
                    /\ SameAs(error(Heap, o), ErrorOf(dir, what))
                    /\ o # 1 => name(Heap, o).value = Description(dir, what).name
                    /\ \A cat \in Categories :
                          /\ SameAs(Told(in_category(Heap, o, cat)), CategoryOf(dir, what, cat))
                          /\ \A path \in Asked :
                                SameAs(ToldOf(get_member(Heap, o, path, cat)), MemberOf(dir, what, path, cat))
  BY DEF AnswersAsEager
<1>1. HeapOK(Heap) /\ dir \in Directories /\ IsObject(Heap, o)
  BY KnownAreObjects, WOKSays
<1>2. Heap.broken = {} /\ what = Heap.objs[o].what
  BY DEF Heap
<1>3. Whole(dir, Heap)
  BY <1>1, <1>2, GoodIsWhole
<1>4. SameAs(Told(members(Heap, o)), MembersOf(dir, what)) /\ SameAs(error(Heap, o), ErrorOf(dir, what))
  BY <1>1, <1>2, <1>3, membersSays, errorSays
<1>5. name(Heap, o).value = Description(dir, what).name
  <2>1. name(Heap, o) = Return(Heap, Description(dir, what).name)
    BY <1>1, <1>2, <1>3, nameSays
  <2> QED
    BY <2>1, Returned
<1>6. ASSUME NEW cat \in Categories
      PROVE  SameAs(Told(in_category(Heap, o, cat)), CategoryOf(dir, what, cat))
  <2> DEFINE done == in_category(Heap, o, cat)
             told == CategoryOf(dir, what, cat)
  <2>1. CategorySo(dir, told, done)
    BY <1>1, <1>2, <1>3, in_categorySays
  <2> HIDE DEF done, told
  <2>2. Told(done).raised = done.raised /\ Told(done).value = Whats(done.heap, done.value)
    BY DEF Told, Whats
  <2>3. SameAs(Told(done), told)
    BY <2>1, <2>2 DEF SameAs, CategorySo, Answer
  <2> QED
    BY <2>3 DEF done, told
<1>7. ASSUME NEW cat \in Categories, NEW path \in Asked
      PROVE  SameAs(ToldOf(get_member(Heap, o, path, cat)), MemberOf(dir, what, path, cat))
  <2> DEFINE done == get_member(Heap, o, path, cat)
             told == MemberOf(dir, what, path, cat)
  <2>1. Len(path) \in Nat /\ DOMAIN path = 1 .. Len(path)
    BY AskedPaths
  <2>2. NextSo(dir, told, done)
    BY <1>1, <1>2, <1>3, <2>1, get_memberSays
  <2> HIDE DEF done, told
  <2>3. ToldOf(done).raised = done.raised /\ (done.raised = Nothing => ToldOf(done).value = What(done.heap, done.value))
    BY DEF ToldOf
  <2>4. SameAs(ToldOf(done), told)
    BY <2>2, <2>3 DEF SameAs, NextSo, Answer
  <2> QED
    BY <2>4 DEF done, told
<1> QED
  BY <1>4, <1>5, <1>6, <1>7

(***************************************************************************)
(* In any directory that Doxygen could have written, whatever has been     *)
(* asked before, by a client or by the script: as long as no parse has     *)
(* been left by an exception, each object answers what a fresh reading of  *)
(* the files would have told, members, categories, a path of names and     *)
(* exceptions alike (base.py, doxyindex.py).  What is kept of an object is *)
(* always what the files say of it: while it is read the others stay as    *)
(* they are, and what a category or a name has been told never changes.    *)
(***************************************************************************)
THEOREM AnswersAsEagerHolds == WSpec => []AnswersAsEager
<1>1. WInit => WOK /\ Good(dir, Heap)
  BY WInitOK, WInitGood
<1>2. WOK /\ Good(dir, Heap) /\ [WNext]_wvars => WOK' /\ Good(dir, Heap)'
  BY WNextOK, WNextGood
<1>3. WSpec => [](WOK /\ Good(dir, Heap))
  BY <1>1, <1>2, PTL DEF WSpec
<1> QED
  BY <1>3, AnswersThen, PTL

=============================================================================
