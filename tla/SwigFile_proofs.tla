-------------------------- MODULE SwigFile_proofs ---------------------------
(***************************************************************************)
(* For every directory: what the script has written, whenever it ends, and *)
(* why it stops.  What the answers are is in SwigDoc_proofs; here is what  *)
(* the script makes of them.                                               *)
(***************************************************************************)
EXTENDS SwigDoc_proofs, FiniteSetTheorems

(***************************************************************************)
(* What the script finds by a name.                                        *)
(***************************************************************************)
LEMMA BelongingHas ==
  ASSUME NEW d, NEW cat, NEW seq, IsSeq(seq), NEW found, found = Belonging(d, cat, seq)
  PROVE  /\ IsSeq(found)
         /\ \A what : what \in Range(found) <=> what \in Range(seq) /\ Belongs(d, cat, what)
         /\ (\A n, m \in DOMAIN seq : n # m /\ seq[n] = seq[m] => ~Belongs(d, cat, seq[n])) =>
               \A n, m \in DOMAIN found : n # m => found[n] # found[m]
<1> DEFINE by == [d |-> d, cat |-> cat]
           start == <<>>
<1>1. PICK len \in Nat : DOMAIN seq = 1 .. len
  BY DEF IsSeq
<1>2. by.d = d /\ by.cat = cat
  OBVIOUS
<1> HIDE DEF by, start
<1>3. KeptSo(by, start, seq, len, found)
  BY <1>1, <1>2, BelongingSo DEF start
<1>6. by.d = d /\ by.cat = cat /\ 1 .. len = DOMAIN seq
  BY <1>1, <1>2
<1>4. /\ IsSeq(found)
      /\ \A n \in DOMAIN found : \E j \in DOMAIN seq : found[n] = seq[j] /\ Belongs(d, cat, seq[j])
      /\ \A j \in DOMAIN seq : Belongs(d, cat, seq[j]) => \E n \in DOMAIN found : found[n] = seq[j]
      /\ (\A j, k \in DOMAIN seq : j # k /\ seq[j] = seq[k] => ~Belongs(d, cat, seq[j])) =>
            \A n, m \in DOMAIN found : n # m => found[n] # found[m]
  BY <1>3, <1>6 DEF KeptSo
<1>5. ASSUME NEW what
      PROVE  what \in Range(found) <=> what \in Range(seq) /\ Belongs(d, cat, what)
  <2>1. ASSUME what \in Range(found)
        PROVE  what \in Range(seq) /\ Belongs(d, cat, what)
    <3>1. PICK n \in DOMAIN found : what = found[n]
      BY <2>1 DEF Range
    <3>2. PICK j \in DOMAIN seq : found[n] = seq[j] /\ Belongs(d, cat, seq[j])
      BY <1>4
    <3> QED
      BY <3>1, <3>2 DEF Range
  <2>2. ASSUME what \in Range(seq), Belongs(d, cat, what)
        PROVE  what \in Range(found)
    <3>1. PICK j \in DOMAIN seq : what = seq[j]
      BY <2>2 DEF Range
    <3>2. PICK n \in DOMAIN found : found[n] = seq[j]
      BY <1>4, <2>2, <3>1
    <3> QED
      BY <3>1, <3>2 DEF Range
  <2> QED
    BY <2>1, <2>2
<1> QED
  BY <1>4, <1>5

\* The categories that are classes of objects can be told of all that can be read.
LEMMA CategoryOfClass ==
  ASSUME NEW d, NEW cat, cat \notin {"None", "Block"}, NEW what, NEW told, told = CategoryOf(d, what, cat)
  PROVE  /\ told.raised = MembersOf(d, what).raised
         /\ told.raised = Nothing => told = Answer(Belonging(d, cat, MembersOf(d, what).value))
<1> DEFINE read == MembersOf(d, what)
<1>1. \A mem : ~CannotTell(d, cat, mem)
  BY DEF CannotTell
<1> HIDE DEF read
<1>2. told = IF read.raised # Nothing THEN read ELSE Answer(Belonging(d, cat, read.value))
  BY <1>1 DEF CategoryOf, AndThen, Belonging, read
<1> QED
  BY <1>2 DEF Answer, read

\* looked up by name it is there, is not, or is there twice
Sure == {Nothing, "NoSuchMember", "Duplicate"}

Readable(d, what) == MembersOf(d, what).raised = Nothing /\ IsSeq(MembersOf(d, what).value)
Inside(d, cat, what) == {mem \in Range(MembersOf(d, what).value) : Belongs(d, cat, mem)}
NothingInside(d, cat, what) == Readable(d, what) /\ Inside(d, cat, what) = {}

\* a name that one thing has
IsNamed(d, cat, what, path, mem) == mem \in Inside(d, cat, what) /\ Description(d, mem).name = path
NextSure(d, cat, what, path, next) ==
  /\ next.raised \in Sure
  /\ next.raised = Nothing =>
        /\ next = Answer(next.value)
        /\ IsNamed(d, cat, what, path, next.value)
        /\ \A mem : IsNamed(d, cat, what, path, mem) => mem = next.value

LEMMA NextIsSure ==
  ASSUME NEW d, NEW cat, cat \notin {"None", "Block"}, NEW what, Readable(d, what), NEW first,
         NEW path, path = <<first>>, NEW next, next = NextOf(d, what, first, cat)
  PROVE  /\ NextSure(d, cat, what, path, next)
         /\ NothingInside(d, cat, what) => next.raised = "NoSuchMember"
<1> DEFINE read == MembersOf(d, what).value
           mems == Belonging(d, cat, read)
           told == CategoryOf(d, what, cat)
           named == Named(d, mems, path)
<1>1. told.raised = Nothing /\ told = Answer(mems)
  BY CategoryOfClass DEF Readable
<1>2. IsSeq(mems) /\ \A mem : mem \in Range(mems) <=> mem \in Range(read) /\ Belongs(d, cat, mem)
  BY BelongingHas DEF Readable
<1>3. \A mem : mem \in Range(mems) <=> mem \in Inside(d, cat, what)
  BY <1>2 DEF Inside
<1>4. <<>> \notin Range(mems)
  BY <1>2 DEF Belongs
<1> HIDE DEF read, mems
<1>5. next = IF named = {} THEN Refuse("NoSuchMember")
             ELSE IF \E n, m \in named : n # m THEN Refuse("Duplicate")
             ELSE Answer(mems[CHOOSE n \in named : TRUE])
  <2>1. next = AndThen(told, LAMBDA found :
                  IF <<>> \in Range(found) THEN Refuse("AttributeError")
                  ELSE IF Named(d, found, path) = {} THEN Refuse("NoSuchMember")
                  ELSE IF \E n, m \in Named(d, found, path) : n # m THEN Refuse("Duplicate")
                  ELSE Answer(found[CHOOSE n \in Named(d, found, path) : TRUE]))
    BY DEF NextOf
  <2> HIDE DEF told
  <2>2. told.raised = Nothing /\ told.value = mems
    BY <1>1 DEF Answer
  <2> QED
    BY <1>4, <2>1, <2>2 DEF AndThen
<1>6. named = {n \in DOMAIN mems : Description(d, mems[n]).name = path}
  BY DEF Named
<1> HIDE DEF named, told
<1>7. Refuse("NoSuchMember").raised = "NoSuchMember" /\ Refuse("Duplicate").raised = "Duplicate"
      /\ Nothing # "NoSuchMember" /\ Nothing # "Duplicate"
  BY DEF Refuse, Nothing
<1>8. CASE named = {}
  BY <1>5, <1>7, <1>8 DEF NextSure, Sure
<1>9. CASE \E n, m \in named : n # m
  <2>1. Inside(d, cat, what) # {}
    BY <1>3, <1>6, <1>9 DEF Range
  <2> QED
    BY <1>5, <1>7, <1>9, <2>1 DEF NextSure, Sure, NothingInside
<1>10. CASE named # {} /\ ~ \E n, m \in named : n # m
  <2>1. PICK n \in named : n = CHOOSE m \in named : TRUE
    BY <1>10
  <2>2. next = Answer(mems[n])
    BY <1>5, <1>10, <2>1
  <2> DEFINE mem == mems[n]
  <2>3. n \in DOMAIN mems /\ mem \in Inside(d, cat, what) /\ Description(d, mem).name = path
    BY <1>3, <1>6, <2>1 DEF Range
  <2>4. ASSUME NEW other \in Inside(d, cat, what), Description(d, other).name = path
        PROVE  other = mem
    <3>1. PICK k \in DOMAIN mems : other = mems[k]
      BY <1>3, <2>4 DEF Range
    <3>2. k \in named
      BY <1>6, <2>4, <3>1
    <3> QED
      BY <1>10, <2>1, <3>1, <3>2
  <2> HIDE DEF mem
  <2>5. next.value = mem /\ next.raised = Nothing /\ next = Answer(mem)
    BY <2>2 DEF Answer, mem
  <2>6. NextSure(d, cat, what, path, next)
    BY <2>3, <2>4, <2>5 DEF NextSure, Sure, IsNamed
  <2> QED
    BY <2>3, <2>6 DEF NothingInside
<1> QED
  BY <1>8, <1>9, <1>10

\* A path is looked up: after the first name there is nothing more to be found.
SureSo(of, start, path, i, told) ==
  /\ i = 0 => told = start
  /\ i = 1 => NextSure(of.d, of.cat, of.what, <<path[1]>>, told)
  /\ i > 1 => told.raised \in {"NoSuchMember", "Duplicate"}

Sures == INSTANCE FoldSteps WITH Turn <- AskNext, Holds <- SureSo

LEMMA SuresLoop ==
  ASSUME NEW d, NEW what, NEW path, NEW cat, NEW by, by.d = d, by.cat = cat, NEW start, start = Answer(what)
  PROVE  MemberOf(d, what, path, cat) = Sures!Loop(by, start, path)
BY DEF MemberOf, Asking, AskNext, Sures!Loop, FoldLeft, MapThenFoldSet, Max, Sures!Last

LEMMA SuresTurn ==
  ASSUME NEW d, NEW cat, cat \notin {"None", "Block"}, NEW what, Readable(d, what),
         \A mem \in Inside(d, cat, what) : NothingInside(d, cat, mem),
         NEW by, by.d = d, by.cat = cat, by.what = what, NEW start, start = Answer(what), NEW path,
         NEW i \in Nat, i # 0, NEW told, SureSo(by, start, path, i - 1, told)
  PROVE  SureSo(by, start, path, i, AskNext(by, told, path[i]))
<1> DEFINE next == AskNext(by, told, path[i])
           its == NextOf(d, told.value, path[i], cat)
<1>1. next = IF told.raised # Nothing THEN told ELSE its
  BY DEF AskNext, Asking, AndThen
<1>2. Nothing # "NoSuchMember" /\ Nothing # "Duplicate"
  BY DEF Nothing
<1>3. CASE i = 1
  <2>1. told.raised = Nothing /\ told.value = what
    BY <1>3 DEF SureSo, Answer
  <2>2. NextSure(d, cat, what, <<path[1]>>, its)
    BY <1>3, <2>1, NextIsSure
  <2> HIDE DEF next, its
  <2>3. NextSure(by.d, by.cat, by.what, <<path[1]>>, next)
    BY <1>1, <2>1, <2>2
  <2> QED
    BY <1>3, <2>3 DEF SureSo, next
<1>4. CASE i # 1
  <2>1. i - 1 # 0 /\ i > 1 /\ (i - 1 = 1 \/ i - 1 > 1)
    BY <1>4
  <2>2. \/ told.raised \in {"NoSuchMember", "Duplicate"}
        \/ told.raised = Nothing /\ NothingInside(d, cat, told.value)
    <3>1. CASE i - 1 = 1
      <4>1. NextSure(d, cat, what, <<path[1]>>, told)
        BY <3>1 DEF SureSo
      <4>2. told.raised \in Sure /\ (told.raised = Nothing => told.value \in Inside(d, cat, what))
        BY <4>1 DEF NextSure, IsNamed
      <4> QED
        BY <4>2 DEF Sure
    <3>2. CASE i - 1 > 1
      BY <3>2 DEF SureSo
    <3> QED
      BY <2>1, <3>1, <3>2
  <2>3. NothingInside(d, cat, told.value) => its.raised = "NoSuchMember"
    <3> SUFFICES ASSUME NothingInside(d, cat, told.value) PROVE its.raised = "NoSuchMember"
      OBVIOUS
    <3>1. Readable(d, told.value)
      BY DEF NothingInside
    <3> DEFINE one == <<path[i]>>
    <3>2. NextSure(d, cat, told.value, one, its) /\ (NothingInside(d, cat, told.value) => its.raised = "NoSuchMember")
      BY <3>1, NextIsSure
    <3> QED
      BY <3>2
  <2> HIDE DEF next, its
  <2>4. next.raised \in {"NoSuchMember", "Duplicate"}
    BY <1>1, <1>2, <2>2, <2>3
  <2> QED
    BY <1>4, <2>1, <2>4 DEF SureSo, next
<1> QED
  BY <1>3, <1>4

LEMMA MemberIsSure ==
  ASSUME NEW d, NEW cat, cat \notin {"None", "Block"}, NEW what, Readable(d, what),
         \A mem \in Inside(d, cat, what) : NothingInside(d, cat, mem),
         NEW path, IsSeq(path), path # <<>>, NEW told, told = MemberOf(d, what, path, cat)
  PROVE  NextSure(d, cat, what, path, told)
<1> DEFINE by == [d |-> d, cat |-> cat, what |-> what]
           start == Answer(what)
           n == Len(path)
           first == <<path[1]>>
<1>1. by.d = d /\ by.cat = cat /\ by.what = what
  OBVIOUS
<1>2. n \in Nat /\ DOMAIN path = 1 .. n /\ n # 0 /\ (n = 1 => path = first)
  BY DEF IsSeq
<1> HIDE DEF by, start, n
<1>3. told = Sures!Loop(by, start, path)
  BY <1>1, SuresLoop DEF start
<1>4. SureSo(by, start, path, 0, start)
  BY DEF SureSo
<1>5. ASSUME NEW i \in 1 .. n, NEW so, SureSo(by, start, path, i - 1, so)
      PROVE  SureSo(by, start, path, i, AskNext(by, so, path[i]))
  <2>1. i \in Nat /\ i # 0
    BY <1>2
  <2> QED
    BY <1>1, <1>5, <2>1, SuresTurn DEF start
<1>6. SureSo(by, start, path, n, told)
  BY <1>2, <1>3, <1>4, <1>5, LeastNumber, Sures!LoopKeeps
<1>7. CASE n = 1
  BY <1>1, <1>2, <1>6, <1>7 DEF SureSo
<1>8. CASE n # 1
  <2>1. n > 1 /\ Nothing # "NoSuchMember" /\ Nothing # "Duplicate"
    BY <1>2, <1>8 DEF Nothing
  <2>2. told.raised \in {"NoSuchMember", "Duplicate"}
    BY <1>6, <2>1 DEF SureSo
  <2> QED
    BY <2>1, <2>2 DEF NextSure, Sure
<1> QED
  BY <1>7, <1>8

(***************************************************************************)
(* What there is to be found in an index that can be read.                 *)
(***************************************************************************)
LEMMA FunctionHasNone ==
  ASSUME NEW d, NEW cat, NEW what, KindOf(d, what) = "DoxyFunction"
  PROVE  MembersOf(d, what) = Answer(<<>>) /\ Readable(d, what) /\ NothingInside(d, cat, what)
<1>1. what # Index
  BY DEF KindOf
<1>2. MembersOf(d, what) = Answer(<<>>)
  BY <1>1 DEF MembersOf, OfFiles
<1> DEFINE none == <<>>
<1>3. IsSeq(none) /\ Range(none) = {}
  BY EmptySeq DEF IsSeq, Range
<1> HIDE DEF none
<1>4. MembersOf(d, what).raised = Nothing /\ MembersOf(d, what).value = none
  BY <1>2 DEF Answer, none
<1> QED
  BY <1>2, <1>3, <1>4 DEF Readable, NothingInside, Inside

\* In a file there is no compound.
LEMMA MembersAre ==
  ASSUME dir \in Directories, NEW refid, ~Missing(refid), NEW file, file = dir.files[refid].members,
         NEW mems, mems = MembersInFile(dir, refid)
  PROVE  /\ IsSeq(mems)
         /\ \A what \in Range(mems) : what # <<>> => \E k \in DOMAIN file : what = <<refid, k>>
         /\ \A what \in Range(mems) : KindOf(dir, what) \notin OfFiles
         /\ \A n, m \in DOMAIN mems : n # m /\ mems[n] = mems[m] => mems[n] = <<>>
<1> DEFINE of == FileOf(refid)
           start == <<>>
           seq == [i \in DOMAIN file |-> i]
           len == Len(file)
<1>1. len \in Nat /\ DOMAIN file = 1 .. len
  BY FileHasTypes
<1>2. of.refid = refid /\ of.members = file
  BY DEF FileOf
<1>3. FoundSo(of, start, seq, len, mems)
  BY MembersInFileSo
<1> HIDE DEF of, seq, len, start
<1>4. /\ IsSeq(mems)
      /\ \A n \in DOMAIN mems : mems[n] # <<>> =>
            \E k \in DOMAIN file : mems[n] = <<refid, k>> /\ file[k].kind \in DOMAIN Classes
      /\ \A n, m \in DOMAIN mems : n # m /\ mems[n] = mems[m] => mems[n] = <<>>
  BY <1>1, <1>2, <1>3 DEF FoundSo
<1>5. ASSUME NEW what \in Range(mems), what # <<>>
      PROVE  (\E k \in DOMAIN file : what = <<refid, k>>) /\ KindOf(dir, what) \notin OfFiles
  <2>1. PICK n \in DOMAIN mems : what = mems[n]
    BY DEF Range
  <2>2. PICK k \in DOMAIN file : what = <<refid, k>> /\ file[k].kind \in DOMAIN Classes
    BY <1>4, <1>5, <2>1
  <2>3. Description(dir, what) = file[k]
    BY <2>2, PlaceSays
  <2>4. what # Index
    BY <2>2, PlacesDiffer
  <2>5. KindOf(dir, what) = Classes[file[k].kind]
    BY <1>5, <2>3, <2>4 DEF KindOf
  <2>6. file[k].kind \notin {"class", "file", "group"}
    <3>1. file[k] \in Range(file)
      BY DEF Range
    <3> QED
      BY <3>1, ConsistentAssumption DEF Consistent, Missing
  <2> QED
    BY <2>2, <2>5, <2>6, KindsOfFiles
<1>6. KindOf(dir, <<>>) \notin OfFiles
  BY DEF KindOf, Index, OfFiles
<1> QED
  BY <1>4, <1>5, <1>6

\* nothing is there twice, but None
OnceEach(seq) == \A n, m \in DOMAIN seq : n # m /\ seq[n] = seq[m] => seq[n] = <<>>

LEMMA ConcatHas ==
  ASSUME NEW a, IsSeq(a), NEW b, IsSeq(b), NEW c, c = a \o b
  PROVE  IsSeq(c) /\ Range(c) = Range(a) \cup Range(b)
<1> DEFINE n == Len(a)
           m == Len(b)
<1>1. n \in Nat /\ m \in Nat /\ DOMAIN a = 1 .. n /\ DOMAIN b = 1 .. m
  BY DEF IsSeq
<1>2. IsSeq(c)
  BY ConcatIsSeq
<1>3. DOMAIN c = 1 .. n + m /\ \A i \in 1 .. n + m : c[i] = IF i <= n THEN a[i] ELSE b[i - n]
  <2>1. PICK S : a \in Seq(S)
    BY DEF IsSeq
  <2>2. PICK T : b \in Seq(T)
    BY DEF IsSeq
  <2> DEFINE U == S \cup T
  <2>3. a \in Seq(U) /\ b \in Seq(U)
    BY <2>1, <2>2, SeqWider
  <2> HIDE DEF U
  <2> QED
    BY <2>3, ConcatProperties
<1> HIDE DEF n, m
<1>4. \A i \in 1 .. n : i \in 1 .. n + m /\ c[i] = a[i]
  BY <1>1, <1>3
<1>5. \A j \in 1 .. m : n + j \in 1 .. n + m /\ c[n + j] = b[j]
  BY <1>1, <1>3
<1>6. \A i \in 1 .. n + m : i \in 1 .. n \/ \E j \in 1 .. m : i = n + j
  <2> TAKE i \in 1 .. n + m
  <2>1. i \notin 1 .. n => i - n \in 1 .. m /\ i = n + (i - n)
    BY <1>1
  <2> QED
    BY <2>1
<1>7. Range(c) \subseteq Range(a) \cup Range(b)
  BY <1>1, <1>3, <1>4, <1>5, <1>6 DEF Range
<1>8. Range(a) \subseteq Range(c) /\ Range(b) \subseteq Range(c)
  BY <1>1, <1>3, <1>4, <1>5 DEF Range
<1> QED
  BY <1>2, <1>7, <1>8

LEMMA OnceConcat ==
  ASSUME NEW a, IsSeq(a), OnceEach(a), NEW b, IsSeq(b), OnceEach(b),
         \A x \in Range(a) : x \in Range(b) => x = <<>>, NEW c, c = a \o b
  PROVE  OnceEach(c)
<1> DEFINE n == Len(a)
           m == Len(b)
<1>1. n \in Nat /\ m \in Nat /\ DOMAIN a = 1 .. n /\ DOMAIN b = 1 .. m
  BY DEF IsSeq
<1>3. DOMAIN c = 1 .. n + m /\ \A i \in 1 .. n + m : c[i] = IF i <= n THEN a[i] ELSE b[i - n]
  <2>1. PICK S : a \in Seq(S)
    BY DEF IsSeq
  <2>2. PICK T : b \in Seq(T)
    BY DEF IsSeq
  <2> DEFINE U == S \cup T
  <2>3. a \in Seq(U) /\ b \in Seq(U)
    BY <2>1, <2>2, SeqWider
  <2> HIDE DEF U
  <2> QED
    BY <2>3, ConcatProperties
<1> HIDE DEF n, m
<1>4. \A i \in 1 .. n + m :
        \/ i \in DOMAIN a /\ c[i] = a[i]
        \/ i - n \in DOMAIN b /\ c[i] = b[i - n] /\ i \notin DOMAIN a
  BY <1>1, <1>3
<1>5. ASSUME NEW i \in 1 .. n + m, NEW j \in 1 .. n + m, i # j, c[i] = c[j]
      PROVE  c[i] = <<>>
  <2>1. CASE i \in DOMAIN a /\ c[i] = a[i] /\ j \in DOMAIN a /\ c[j] = a[j]
    BY <1>5, <2>1 DEF OnceEach
  <2>2. CASE i - n \in DOMAIN b /\ c[i] = b[i - n] /\ j - n \in DOMAIN b /\ c[j] = b[j - n]
    <3> DEFINE k == i - n
               l == j - n
    <3>1. k # l
      BY <1>1, <1>5
    <3>2. k \in DOMAIN b /\ l \in DOMAIN b /\ b[k] = b[l] /\ c[i] = b[k]
      BY <1>5, <2>2
    <3> HIDE DEF k, l
    <3> QED
      BY <3>1, <3>2 DEF OnceEach
  <2>3. CASE i \in DOMAIN a /\ c[i] = a[i] /\ j - n \in DOMAIN b /\ c[j] = b[j - n]
    BY <1>5, <2>3 DEF Range
  <2>4. CASE i - n \in DOMAIN b /\ c[i] = b[i - n] /\ j \in DOMAIN a /\ c[j] = a[j]
    BY <1>5, <2>4 DEF Range
  <2> QED
    BY <1>4, <2>1, <2>2, <2>3, <2>4
<1> QED
  BY <1>3, <1>5 DEF OnceEach

\* what a compound adds to the index
Piece(refid, more) ==
  /\ IsSeq(more) /\ OnceEach(more)
  /\ \A what \in Range(more) :
        /\ what # <<>> => what[1] = refid
        /\ KindOf(dir, what) \in OfFiles => what = <<refid>>
        /\ KindOf(dir, what) = "DoxyFile" => NothingInside(dir, "DoxyFile", what)

LEMMA OneOfItself ==
  ASSUME NEW refid, NEW what, what = <<refid>>, KindOf(dir, what) = "DoxyFile" => NothingInside(dir, "DoxyFile", what)
  PROVE  Piece(refid, <<what>>)
<1> DEFINE more == <<what>>
<1>1. IsSeq(more) /\ DOMAIN more = {1} /\ more[1] = what
  <2>1. more \in Seq({what}) /\ Len(more) = 1 /\ more[1] = what
    OBVIOUS
  <2> HIDE DEF more
  <2>2. DOMAIN more = 1 .. 1
    BY <2>1, LenProperties
  <2>3. IsSeq(more)
    BY <2>1 DEF IsSeq
  <2> QED
    BY <2>1, <2>2, <2>3
<1>2. what[1] = refid
  OBVIOUS
<1> HIDE DEF more
<1>3. Range(more) = {what} /\ OnceEach(more)
  BY <1>1 DEF Range, OnceEach
<1>4. Piece(refid, more)
  BY <1>1, <1>2, <1>3 DEF Piece
<1> QED
  BY <1>4 DEF more

LEMMA NoneIsPiece == ASSUME NEW refid PROVE Piece(refid, <<>>)
<1> DEFINE more == <<>>
<1>1. IsSeq(more) /\ DOMAIN more = {}
  BY EmptySeq DEF IsSeq
<1> HIDE DEF more
<1>2. Piece(refid, more)
  BY <1>1 DEF Piece, OnceEach, Range
<1> QED
  BY <1>2 DEF more

LEMMA HeaderAdds ==
  ASSUME dir \in Directories, NEW refid, NEW what, what = <<refid>>, what # Index, KindOf(dir, what) = "DoxyFile",
         NEW its, its = FileRead(dir, what), its.raised = Nothing
  PROVE  Piece(refid, its.value \o <<what>>)
<1> DEFINE mems == MembersInFile(dir, refid)
<1>1. what[1] = refid
  OBVIOUS
<1>2. ~Missing(refid) /\ its = Answer(mems)
  <2>1. its = IF Missing(refid) THEN Refuse("IOError")
              ELSE IF dir.files[refid].status = "bad" THEN Refuse("AttributeError")
              ELSE Answer(mems)
    BY <1>1 DEF FileRead, Missing
  <2>2. Refuse("IOError").raised # Nothing /\ Refuse("AttributeError").raised # Nothing
    BY DEF Refuse, Nothing
  <2> QED
    BY <2>1, <2>2
<1>3. /\ IsSeq(mems)
      /\ \A x \in Range(mems) : x # <<>> => \E k \in DOMAIN dir.files[refid].members : x = <<refid, k>>
      /\ \A x \in Range(mems) : KindOf(dir, x) \notin OfFiles
      /\ OnceEach(mems)
  BY <1>2, MembersAre DEF OnceEach
<1> HIDE DEF mems
<1>4. its.value = mems /\ MembersOf(dir, what) = its
  BY <1>2 DEF Answer, MembersOf, OfFiles
<1>5. "DoxyFile" \in OfFiles
  BY DEF OfFiles
<1>6. NothingInside(dir, "DoxyFile", what)
  <2>1. Readable(dir, what)
    BY <1>3, <1>4 DEF Readable
  <2>2. Inside(dir, "DoxyFile", what) = {}
    BY <1>3, <1>4, <1>5 DEF Inside, Belongs
  <2> QED
    BY <2>1, <2>2 DEF NothingInside
<1>7. Piece(refid, <<what>>)
  BY <1>6, OneOfItself
<1> DEFINE last == <<what>>
           more == mems \o last
<1>8. IsSeq(last) /\ OnceEach(last) /\ Range(last) = {what}
  <2>1. Range(last) = {what}
    BY DEF Range
  <2> QED
    BY <1>7, <2>1 DEF Piece
<1> HIDE DEF last
<1>9. what # <<>> /\ \A k : <<refid, k>> # what /\ <<refid, k>>[1] = refid
  OBVIOUS
<1>10. what \notin Range(mems)
  BY <1>3, <1>5
<1>11. IsSeq(more) /\ Range(more) = Range(mems) \cup {what} /\ OnceEach(more)
  <2>1. IsSeq(more) /\ Range(more) = Range(mems) \cup Range(last)
    BY <1>3, <1>8, ConcatHas
  <2>2. \A x \in Range(mems) : x \in Range(last) => x = <<>>
    BY <1>8, <1>10
  <2>3. OnceEach(more)
    BY <1>3, <1>8, <2>2, OnceConcat
  <2> QED
    BY <1>8, <2>1, <2>3
<1> HIDE DEF more
<1>12. ASSUME NEW x \in Range(more)
       PROVE  /\ x # <<>> => x[1] = refid
              /\ KindOf(dir, x) \in OfFiles => x = <<refid>>
              /\ KindOf(dir, x) = "DoxyFile" => NothingInside(dir, "DoxyFile", x)
  <2>1. CASE x = what
    BY <1>1, <1>6, <2>1
  <2>2. CASE x \in Range(mems)
    BY <1>3, <1>5, <1>9, <2>2
  <2> QED
    BY <1>11, <2>1, <2>2
<1>13. Piece(refid, more)
  BY <1>11, <1>12 DEF Piece
<1> QED
  BY <1>4, <1>13 DEF more, last

LEMMA CompoundAdds ==
  ASSUME dir \in Directories, NEW mem \in Range(dir.index), NEW told, told.raised = Nothing, IsSeq(told.value),
         NEW next, next = CompoundRead(dir, told, mem), next.raised = Nothing
  PROVE  \E more : Piece(mem.refid, more) /\ next.value = told.value \o more
<1> DEFINE what == <<mem.refid>>
           its == FileRead(dir, what)
           before == told.value
           one == <<what>>
           none == <<>>
<1>1. next = IF mem.kind \notin DOMAIN Classes THEN Refuse("StandardError")
             ELSE IF mem.kind # "file" THEN Answer(Append(before, what))
             ELSE IF ~mem.header THEN told
             ELSE IF its.raised # Nothing THEN its ELSE Answer(before \o (its.value \o one))
  BY DEF CompoundRead, AndThen
<1>2. mem.kind \in DOMAIN Classes
  <2>1. Refuse("StandardError").raised # Nothing
    BY DEF Refuse, Nothing
  <2> QED
    BY <1>1, <2>1
<1>3. what # Index /\ KindOf(dir, what) = Classes[mem.kind]
  BY CompoundFound
<1>4. KindOf(dir, what) = "DoxyFile" <=> mem.kind = "file"
  BY <1>2, <1>3, KindsOfFiles
<1>5. CASE mem.kind # "file"
  <2> HIDE DEF what, its
  <2>1. next.value = Append(before, what)
    BY <1>1, <1>2, <1>5 DEF Answer
  <2>2. Append(before, what) = before \o one
    <3>1. PICK S : before \in Seq(S)
      BY DEF IsSeq
    <3> DEFINE T == S \cup {what}
    <3>2. before \in Seq(T) /\ what \in T
      BY <3>1, SeqWider
    <3> HIDE DEF T, before
    <3> QED
      BY <3>2, AppendIsConcat
  <2>3. Piece(mem.refid, one)
    BY <1>4, <1>5, OneOfItself DEF what
  <2> HIDE DEF one
  <2> QED
    BY <2>1, <2>2, <2>3
<1>6. CASE mem.kind = "file" /\ ~mem.header
  <2>1. next = told
    BY <1>1, <1>2, <1>6
  <2>2. before \o none = before
    BY EmptyBehind
  <2> HIDE DEF none
  <2> QED
    BY <2>1, <2>2, NoneIsPiece DEF none
<1>7. CASE mem.kind = "file" /\ mem.header
  <2>1. next = IF its.raised # Nothing THEN its ELSE Answer(before \o (its.value \o one))
    BY <1>1, <1>2, <1>7
  <2> DEFINE more == its.value \o one
  <2>2. its.raised = Nothing
    BY <2>1
  <2>3. Piece(mem.refid, more)
    BY <1>3, <1>4, <1>7, <2>2, HeaderAdds
  <2>4. next = Answer(before \o more)
    BY <2>1, <2>2
  <2> HIDE DEF more, its
  <2>5. next.value = before \o more
    BY <2>4 DEF Answer
  <2> QED
    BY <2>3, <2>5
<1> QED
  BY <1>5, <1>6, <1>7

\* what is in an index that can be read
IndexHas(value, i) ==
  /\ IsSeq(value) /\ OnceEach(value)
  /\ \A what \in Range(value) :
        /\ what # <<>> => \E j \in 1 .. i : what[1] = dir.index[j].refid
        /\ KindOf(dir, what) \in OfFiles => \E j \in 1 .. i : what = <<dir.index[j].refid>>
        /\ KindOf(dir, what) = "DoxyFile" => NothingInside(dir, "DoxyFile", what)

IndexSo(d, start, seq, i, told) == told.raised = Nothing => IndexHas(told.value, i)

CompoundsHave == INSTANCE FoldSteps WITH Turn <- CompoundRead, Holds <- IndexSo

LEMMA IndexTurn ==
  ASSUME dir \in Directories, NEW i \in DOMAIN dir.index, i \in Nat, i # 0, NEW value, IndexHas(value, i - 1),
         NEW more, Piece(dir.index[i].refid, more)
  PROVE  IndexHas(value \o more, i)
<1> DEFINE all == value \o more
           refid == dir.index[i].refid
<1>1. /\ IsSeq(value) /\ OnceEach(value) /\ IsSeq(more) /\ OnceEach(more)
      /\ \A x \in Range(value) : x # <<>> => \E j \in 1 .. i - 1 : x[1] = dir.index[j].refid
      /\ \A x \in Range(more) : x # <<>> => x[1] = refid
  BY DEF IndexHas, Piece
<1>2. \A j \in 1 .. i - 1 : j \in 1 .. i /\ j # i /\ j \in DOMAIN dir.index
  <2>1. DOMAIN dir.index = 1 .. Len(dir.index) /\ Len(dir.index) \in Nat
    BY DirectoriesAssumption, LenProperties
  <2> QED
    BY <2>1
<1>3. i \in 1 .. i
  OBVIOUS
<1>4. \A j \in DOMAIN dir.index : dir.index[j].refid = refid => j = i
  BY ConsistentAssumption DEF Consistent
<1> HIDE DEF refid
<1>5. ASSUME NEW x \in Range(value), x \in Range(more)
      PROVE  x = <<>>
  <2>1. SUFFICES ASSUME x # <<>> PROVE FALSE
    OBVIOUS
  <2>2. PICK j \in 1 .. i - 1 : x[1] = dir.index[j].refid
    BY <1>1, <2>1
  <2>3. x[1] = refid
    BY <1>1, <1>5, <2>1
  <2> QED
    BY <1>2, <1>4, <2>2, <2>3
<1>6. IsSeq(all) /\ OnceEach(all) /\ Range(all) = Range(value) \cup Range(more)
  BY <1>1, <1>5, ConcatHas, OnceConcat
<1> HIDE DEF all
<1>7. ASSUME NEW x \in Range(all)
      PROVE  /\ x # <<>> => \E j \in 1 .. i : x[1] = dir.index[j].refid
             /\ KindOf(dir, x) \in OfFiles => \E j \in 1 .. i : x = <<dir.index[j].refid>>
             /\ KindOf(dir, x) = "DoxyFile" => NothingInside(dir, "DoxyFile", x)
  <2>1. CASE x \in Range(value)
    BY <1>2, <2>1 DEF IndexHas
  <2>2. CASE x \in Range(more)
    BY <1>3, <2>2 DEF Piece, refid
  <2> QED
    BY <1>6, <2>1, <2>2
<1> QED
  BY <1>6, <1>7 DEF IndexHas, all

LEMMA IndexReadHas ==
  ASSUME dir \in Directories, IndexRead(dir).raised = Nothing
  PROVE  IndexHas(IndexRead(dir).value, Len(dir.index))
<1> DEFINE none == <<>>
           start == Answer(none)
           index == dir.index
           n == Len(index)
<1>1. n \in Nat /\ DOMAIN index = 1 .. n
  BY DirectoriesAssumption, LenProperties
<1>2. IndexRead(dir) = CompoundsHave!Loop(dir, start, index)
  BY DEF IndexRead, CompoundsHave!Loop, FoldLeft, MapThenFoldSet, Max, CompoundsHave!Last
<1>3. ASSUME NEW i \in 1 .. n, NEW told, IndexSo(dir, start, index, i - 1, told)
      PROVE  IndexSo(dir, start, index, i, CompoundRead(dir, told, index[i]))
  <2> DEFINE next == CompoundRead(dir, told, index[i])
  <2>1. told.raised # Nothing => next = told
    BY DEF CompoundRead, AndThen
  <2> HIDE DEF next
  <2>2. SUFFICES ASSUME told.raised = Nothing, next.raised = Nothing PROVE IndexHas(next.value, i)
    BY <2>1 DEF IndexSo, next
  <2>3. IndexHas(told.value, i - 1) /\ IsSeq(told.value)
    BY <1>3, <2>2 DEF IndexSo, IndexHas
  <2>4. i \in DOMAIN dir.index /\ i \in Nat /\ i # 0 /\ index[i] \in Range(dir.index)
    BY <1>1 DEF Range
  <2>5. PICK more : Piece(index[i].refid, more) /\ next.value = told.value \o more
    BY <2>2, <2>3, <2>4, CompoundAdds DEF next
  <2> QED
    BY <2>3, <2>4, <2>5, IndexTurn
<1>4. IndexSo(dir, start, index, 0, start)
  <2>1. IsSeq(none) /\ DOMAIN none = {}
    BY EmptySeq DEF IsSeq
  <2> HIDE DEF none
  <2>2. IndexHas(none, 0)
    BY <2>1 DEF IndexHas, OnceEach, Range
  <2> QED
    BY <2>2 DEF IndexSo, Answer
<1>5. IndexSo(dir, start, index, n, CompoundsHave!Loop(dir, start, index))
  <2> HIDE DEF n, index, start
  <2> QED
    BY <1>1, <1>3, <1>4, LeastNumber, CompoundsHave!LoopKeeps
<1> QED
  BY <1>2, <1>5 DEF IndexSo

(***************************************************************************)
(* The functions, classes and blocks of an index.                          *)
(***************************************************************************)
Apart(seq) == \A n, m \in DOMAIN seq : n # m => seq[n] # seq[m]

LEMMA IndexReadable ==
  ASSUME dir \in Directories, IndexRead(dir).raised = Nothing
  PROVE  Readable(dir, Index) /\ MembersOf(dir, Index) = IndexRead(dir) /\ OnceEach(IndexRead(dir).value)
BY IndexReadHas DEF IndexHas, Readable, MembersOf

\* what a category of it lists
ListedSo(cat, listed) ==
  /\ IsSeq(listed) /\ Apart(listed)
  /\ Range(listed) = Inside(dir, cat, Index)

LEMMA NoneBelongs == ASSUME NEW d, NEW cat PROVE ~Belongs(d, cat, <<>>)
BY DEF Belongs, IsBlock, KindOf, Index

LEMMA BelongingListed ==
  ASSUME dir \in Directories, IndexRead(dir).raised = Nothing, NEW cat,
         NEW listed, listed = Belonging(dir, cat, MembersOf(dir, Index).value)
  PROVE  ListedSo(cat, listed)
<1> DEFINE mems == MembersOf(dir, Index).value
<1>1. IsSeq(mems) /\ OnceEach(mems)
  BY IndexReadable DEF Readable
<1>2. ~Belongs(dir, cat, <<>>)
  BY NoneBelongs
<1> HIDE DEF mems
<1>3. \A n, m \in DOMAIN mems : n # m /\ mems[n] = mems[m] => ~Belongs(dir, cat, mems[n])
  BY <1>1, <1>2 DEF OnceEach
<1>4. /\ IsSeq(listed)
      /\ \A what : what \in Range(listed) <=> what \in Range(mems) /\ Belongs(dir, cat, what)
      /\ \A n, m \in DOMAIN listed : n # m => listed[n] # listed[m]
  BY <1>1, <1>3, BelongingHas DEF mems
<1>5. Range(listed) = Inside(dir, cat, Index)
  BY <1>4 DEF Inside, mems
<1> QED
  BY <1>4, <1>5 DEF ListedSo, Apart

LEMMA ClassesListed ==
  ASSUME dir \in Directories, IndexRead(dir).raised = Nothing, NEW cat, cat \notin {"None", "Block"},
         NEW told, told = CategoryOf(dir, Index, cat)
  PROVE  told.raised = Nothing /\ ListedSo(cat, told.value)
<1> DEFINE listed == Belonging(dir, cat, MembersOf(dir, Index).value)
<1>1. MembersOf(dir, Index).raised = Nothing
  BY IndexReadable DEF Readable
<1>2. told.raised = Nothing /\ told = Answer(listed)
  BY <1>1, CategoryOfClass
<1>3. ListedSo(cat, listed)
  BY BelongingListed
<1> HIDE DEF listed
<1>4. told.value = listed
  BY <1>2 DEF Answer
<1> QED
  BY <1>2, <1>3, <1>4

\* When the blocks can be told, each class can be asked whether it has an error.
LEMMA BlocksListed ==
  ASSUME dir \in Directories, NEW told, told = CategoryOf(dir, Index, "Block"), told.raised = Nothing
  PROVE  /\ IndexRead(dir).raised = Nothing
         /\ ListedSo("Block", told.value)
         /\ \A c \in Klasses : ErrorOf(dir, c).raised = Nothing
<1> DEFINE read == MembersOf(dir, Index)
           listed == Belonging(dir, "Block", read.value)
<1>1. read = IndexRead(dir)
  BY DEF MembersOf
<1> HIDE DEF read
<1>2. told = IF read.raised # Nothing THEN read
             ELSE IF \E mem \in Range(read.value) : CannotTell(dir, "Block", mem) THEN Refuse("IOError")
             ELSE Answer(listed)
  BY DEF CategoryOf, AndThen, Belonging, read
<1>3. Refuse("IOError").raised # Nothing
  BY DEF Refuse, Nothing
<1>4. read.raised = Nothing /\ told = Answer(listed) /\ \A mem \in Range(read.value) : ~CannotTell(dir, "Block", mem)
  BY <1>2, <1>3
<1>5. ListedSo("Block", listed)
  BY <1>1, <1>4, BelongingListed DEF read
<1>6. ASSUME NEW c \in Klasses
      PROVE  ErrorOf(dir, c).raised = Nothing
  <2> DEFINE its == CategoryOf(dir, Index, "DoxyClass")
  <2>1. ListedSo("DoxyClass", its.value)
    BY <1>1, <1>4, ClassesListed
  <2>2. c \in Inside(dir, "DoxyClass", Index)
    BY <2>1 DEF Klasses, ListedSo
  <2>3. c \in Range(read.value) /\ KindOf(dir, c) = "DoxyClass"
    BY <2>2 DEF Inside, Belongs, read
  <2> QED
    BY <1>4, <2>3 DEF CannotTell
<1> HIDE DEF listed
<1>7. told.value = listed
  BY <1>4 DEF Answer
<1> QED
  BY <1>1, <1>4, <1>5, <1>6, <1>7

LEMMA BlocksRefused ==
  ASSUME dir \in Directories, NEW told, told = CategoryOf(dir, Index, "Block"), told.raised # Nothing
  PROVE  IndexRead(dir).raised # Nothing \/ \E c \in Klasses : ErrorOf(dir, c).raised # Nothing
<1> DEFINE read == MembersOf(dir, Index)
<1>1. read = IndexRead(dir)
  BY DEF MembersOf
<1>2. SUFFICES ASSUME read.raised = Nothing
               PROVE  \E c \in Klasses : ErrorOf(dir, c).raised # Nothing
  BY <1>1
<1> HIDE DEF read
<1>3. told = IF \E mem \in Range(read.value) : CannotTell(dir, "Block", mem) THEN Refuse("IOError")
             ELSE Answer(Belonging(dir, "Block", read.value))
  BY <1>2 DEF CategoryOf, AndThen, Belonging, read
<1>4. \A value : Answer(value).raised = Nothing
  BY DEF Answer
<1>5. PICK mem \in Range(read.value) : CannotTell(dir, "Block", mem)
  BY <1>3, <1>4
<1>6. KindOf(dir, mem) = "DoxyClass" /\ ErrorOf(dir, mem).raised # Nothing
  BY <1>5 DEF CannotTell
<1>7. mem # <<>>
  BY <1>6 DEF KindOf, Index
<1>8. mem \in Inside(dir, "DoxyClass", Index)
  BY <1>6, <1>7 DEF Inside, Belongs, read
<1>9. ListedSo("DoxyClass", CategoryOf(dir, Index, "DoxyClass").value)
  BY <1>1, <1>2, ClassesListed
<1> QED
  BY <1>6, <1>8, <1>9 DEF Klasses, ListedSo

\* A block is a class of a file that can be read.
LEMMA BlockIs ==
  ASSUME dir \in Directories, IndexRead(dir).raised = Nothing, NEW b \in Inside(dir, "Block", Index)
  PROVE  /\ b \in Klasses /\ KindOf(dir, b) = "DoxyClass" /\ Readable(dir, b)
         /\ \E j \in DOMAIN dir.index : b = <<dir.index[j].refid>>
<1> DEFINE mems == MembersOf(dir, Index).value
           len == Len(dir.index)
<1>1. len \in Nat /\ DOMAIN dir.index = 1 .. len
  BY DirectoriesAssumption, LenProperties
<1>2. IndexHas(mems, len)
  BY IndexReadable, IndexReadHas
<1>3. b \in Range(mems) /\ KindOf(dir, b) = "DoxyClass" /\ MembersOf(dir, b).raised = Nothing
  BY DEF Inside, Belongs, IsBlock
<1> HIDE DEF mems, len
<1>4. PICK j \in DOMAIN dir.index : b = <<dir.index[j].refid>>
  BY <1>1, <1>2, <1>3 DEF IndexHas, OfFiles
<1> DEFINE refid == dir.index[j].refid
           its == MembersInFile(dir, refid)
<1>5. ~Missing(refid) /\ MembersOf(dir, b) = Answer(its)
  BY <1>3, <1>4, ClassReads
<1>6. IsSeq(its)
  BY <1>5, MembersAre
<1> HIDE DEF its
<1>7. Readable(dir, b)
  BY <1>5, <1>6 DEF Readable, Answer
<1>8. ListedSo("DoxyClass", CategoryOf(dir, Index, "DoxyClass").value)
  BY ClassesListed
<1>9. b # <<>>
  BY <1>4
<1>10. b \in Inside(dir, "DoxyClass", Index)
  BY <1>3, <1>9 DEF Inside, Belongs, mems
<1> QED
  BY <1>3, <1>4, <1>7, <1>8, <1>10 DEF Klasses, ListedSo

LEMMA HeaderNameIsPath ==
  ASSUME NEW path \in Seq(STRING), path # <<>>
  PROVE  IsSeq(HeaderName(path)) /\ HeaderName(path) # <<>>
<1> DEFINE n == Len(path)
           word == path[n] \o ".h"
           made == [path EXCEPT ![n] = word]
<1>1. HeaderName(path) = made
  BY DEF HeaderName
<1>2. n \in 1 .. Len(path)
  OBVIOUS
<1> HIDE DEF word, n
<1>3. path \in Seq(STRING \cup {word}) /\ word \in STRING \cup {word}
  BY SeqWider
<1>4. made \in Seq(STRING \cup {word}) /\ made # <<>>
  BY <1>2, <1>3
<1> QED
  BY <1>1, <1>4 DEF IsSeq

(***************************************************************************)
(* What the script is told of a block, a class and a function.             *)
(***************************************************************************)
MakeOf(d, b) == MemberOf(d, Index, make_name(Description(d, b).name), "DoxyFunction")
HeaderOf(d, b) == MemberOf(d, Index, HeaderName(Description(d, b).name), "DoxyFile")
CreatorOf(d, b) == MemberOf(d, b, Description(d, b).name, "DoxyFunction")

LEMMA FunctionsHaveNone ==
  ASSUME NEW d, NEW what
  PROVE  \A mem \in Inside(d, "DoxyFunction", what) : NothingInside(d, "DoxyFunction", mem)
BY FunctionHasNone DEF Inside, Belongs

LEMMA HeadersHaveNone ==
  ASSUME dir \in Directories, IndexRead(dir).raised = Nothing
  PROVE  \A mem \in Inside(dir, "DoxyFile", Index) : NothingInside(dir, "DoxyFile", mem)
BY IndexReadHas, IndexReadable DEF Inside, Belongs, IndexHas

\* A block has a name.
LEMMA BlockNamed ==
  ASSUME dir \in Directories, IndexRead(dir).raised = Nothing, NEW b \in Inside(dir, "Block", Index)
  PROVE  NameOf(b) \in Seq(STRING) /\ NameOf(b) # <<>>
<1>1. PICK j \in DOMAIN dir.index : b = <<dir.index[j].refid>>
  BY BlockIs
<1> DEFINE mem == dir.index[j]
<1>2. mem \in Range(dir.index)
  BY DEF Range
<1> HIDE DEF mem
<1>3. Description(dir, b) = mem /\ mem.name \in Names
  BY <1>1, <1>2, CompoundFound DEF mem
<1> QED
  BY <1>3 DEF NameOf, Names

LEMMA BlockIsSure ==
  ASSUME dir \in Directories, IndexRead(dir).raised = Nothing, NEW b \in Inside(dir, "Block", Index)
  PROVE  /\ NextSure(dir, "DoxyFunction", Index, make_name(NameOf(b)), MakeOf(dir, b))
         /\ NextSure(dir, "DoxyFile", Index, HeaderName(NameOf(b)), HeaderOf(dir, b))
         /\ NextSure(dir, "DoxyFunction", b, NameOf(b), CreatorOf(dir, b))
<1> DEFINE path == NameOf(b)
           make == make_name(path)
           header == HeaderName(path)
<1>1. path \in Seq(STRING) /\ path # <<>>
  BY BlockNamed
<1> HIDE DEF path
<1>2. IsSeq(make) /\ make # <<>> /\ IsSeq(header) /\ header # <<>> /\ IsSeq(path)
  BY <1>1, make_nameIsPath, HeaderNameIsPath DEF IsSeq
<1> HIDE DEF make, header
<1>3. Readable(dir, Index) /\ Readable(dir, b)
  BY IndexReadable, BlockIs
<1>4. "DoxyFunction" \notin {"None", "Block"} /\ "DoxyFile" \notin {"None", "Block"}
  OBVIOUS
<1>5. NextSure(dir, "DoxyFunction", Index, make, MemberOf(dir, Index, make, "DoxyFunction"))
  BY <1>2, <1>3, <1>4, FunctionsHaveNone, MemberIsSure
<1>6. NextSure(dir, "DoxyFile", Index, header, MemberOf(dir, Index, header, "DoxyFile"))
  BY <1>2, <1>3, <1>4, HeadersHaveNone, MemberIsSure
<1>7. NextSure(dir, "DoxyFunction", b, path, MemberOf(dir, b, path, "DoxyFunction"))
  BY <1>1, <1>2, <1>3, <1>4, FunctionsHaveNone, MemberIsSure
<1> QED
  BY <1>5, <1>6, <1>7 DEF path, make, header, MakeOf, HeaderOf, CreatorOf, NameOf

\* An object stands for the same after an operation.
LEMMA StandsFor ==
  ASSUME NEW a, NEW b, HeapOK(a), Kept(a, b), NEW o, IsObject(a, o)
  PROVE  /\ IsObject(b, o) /\ b.objs[o].what = a.objs[o].what
         /\ What(a, o) = a.objs[o].what /\ What(b, o) = a.objs[o].what
BY StillThere DEF Kept, Extends, SameObject, IsObject, What, HeapOK, ObjectsOK

\* An object's name is that of what it stands for.
LEMMA WholeNamed ==
  ASSUME NEW d, NEW heap, Whole(d, heap), NEW o, IsObject(heap, o)
  PROVE  /\ HeapOK(heap) /\ heap.objs[o].name = Description(d, heap.objs[o].what).name
         /\ IsObject(heap, 1) /\ heap.objs[1].what = Index
BY FirstIsThere DEF Whole, Sem, SemBut, Placed, IsObject

\* An operation after which all is whole stands beside the same things.
LEMMA NextMember ==
  ASSUME dir \in Directories, NEW heap, Whole(dir, heap), NEW o, IsObject(heap, o), NEW what, what = heap.objs[o].what,
         NEW cat, NEW path, IsSeq(path), NEW done, done = get_member(heap, o, path, cat),
         NEW told, told = MemberOf(dir, what, path, cat)
  PROVE  /\ Outcome(heap, done) /\ done.raised = told.raised
         /\ done.raised \in {Nothing, "NoSuchMember"} => Whole(dir, done.heap)
         /\ done.raised = Nothing => IsObject(done.heap, done.value) /\ told = Answer(What(done.heap, done.value))
<1> DEFINE n == Len(path)
<1>1. n \in Nat /\ DOMAIN path = 1 .. n
  BY LenProperties DEF IsSeq
<1> HIDE DEF n
<1>2. NextSo(dir, told, done)
  BY <1>1, get_memberSays
<1>3. OneObject(heap, done)
  BY <1>1, get_memberObject DEF Whole
<1> QED
  BY <1>2, <1>3 DEF NextSo, OneObject, Fine

(***************************************************************************)
(* What is written of a thing: a line, or none.                            *)
(***************************************************************************)
Line(as, what, told) == IF told THEN <<<<as, what>>>> ELSE <<>>

NoOperator(d, what) == ~IsOperator(Description(d, what).name)
HeaderFileSays(d, b) == HeaderOf(d, b).raised = Nothing /\ Described(d, HeaderOf(d, b).value)
BlockSays(d, b) == Described(d, b) \/ Described(d, MakeOf(d, b).value) \/ HeaderFileSays(d, b)

BlockTold(d, b) == NoOperator(d, b) /\ BlockSays(d, b)
MakeTold(d, b) == NoOperator(d, MakeOf(d, b).value)
ClassTold(d, c) == MembersOf(d, c).raised = Nothing /\ NoOperator(d, c) /\ Described(d, c)

BlockEntries(d, b) == Line("block", b, BlockTold(d, b)) \o Line("make", MakeOf(d, b).value, MakeTold(d, b))

LEMMA make_entrySays ==
  ASSUME NEW d, NEW heap, Whole(d, heap), NEW o, IsObject(heap, o), NEW what, what = heap.objs[o].what,
         NEW as, NEW docstring
  PROVE  make_entry(heap, o, as, docstring) = Line(as, what, NoOperator(d, what) /\ docstring)
<1>1. heap.objs[o].name = Description(d, what).name
  BY WholeNamed
<1> QED
  BY <1>1 DEF make_entry, Line, NoOperator

LEMMA make_block_entrySays ==
  ASSUME dir \in Directories, IndexRead(dir).raised = Nothing, NEW heap, Whole(dir, heap), NEW block, IsObject(heap, block),
         NEW b, b = heap.objs[block].what, b \in Inside(dir, "Block", Index),
         NEW done, done = make_block_entry(heap, block)
  PROVE  /\ done.raised \in Sure
         /\ done.raised = Nothing <=> Documented(b)
         /\ done.raised = Nothing => Whole(dir, done.heap) /\ done.value = BlockEntries(dir, b)
<1> DEFINE path == heap.objs[block].name
           makes == make_name(path)
           headers == HeaderName(path)
           make == get_member(heap, 1, makes, "DoxyFunction")
           header == get_member(make.heap, 1, headers, "DoxyFile")
           filed == header.raised = Nothing /\ combine_descriptions(header.heap, header.value)
           sure == IF SureOf(header) THEN Return(header.heap, filed) ELSE header
           asked == in_category(sure.heap, block, "DoxyFunction")
           creator == get_member(asked.heap, block, path, "DoxyFunction")
           said == \/ combine_descriptions(creator.heap, block)
                   \/ combine_descriptions(creator.heap, make.value)
                   \/ sure.value
           always == TRUE
           entry == make_entry(creator.heap, block, "block", said)
                    \o make_entry(creator.heap, make.value, "make", always)
<1>1. done = IF make.raised # Nothing THEN make
             ELSE IF sure.raised # Nothing THEN sure
             ELSE IF asked.raised # Nothing THEN asked
             ELSE IF creator.raised # Nothing THEN creator
             ELSE Return(creator.heap, entry)
  BY DEF make_block_entry, Then
<1>2. path = NameOf(b) /\ HeapOK(heap) /\ IsObject(heap, 1) /\ heap.objs[1].what = Index
  BY WholeNamed DEF NameOf
<1>3. IsSeq(path) /\ IsSeq(makes) /\ IsSeq(headers)
  <2>1. path \in Seq(STRING) /\ path # <<>>
    BY <1>2, BlockNamed
  <2> HIDE DEF path
  <2> QED
    BY <2>1, make_nameIsPath, HeaderNameIsPath DEF IsSeq
<1>4. MakeOf(dir, b) = MemberOf(dir, Index, makes, "DoxyFunction") /\ HeaderOf(dir, b) = MemberOf(dir, Index, headers, "DoxyFile")
      /\ CreatorOf(dir, b) = MemberOf(dir, b, path, "DoxyFunction")
  BY <1>2 DEF MakeOf, HeaderOf, CreatorOf, NameOf
<1>5. MakeOf(dir, b).raised \in Sure /\ HeaderOf(dir, b).raised \in Sure /\ CreatorOf(dir, b).raised \in Sure
  BY BlockIsSure DEF NextSure
<1>6. Documented(b) <=> MakeOf(dir, b).raised = Nothing /\ HeaderOf(dir, b).raised # "Duplicate" /\ CreatorOf(dir, b).raised = Nothing
  BY DEF Documented, MakeOfBlock, HeaderOfBlock, MakeOf, HeaderOf, CreatorOf, NameOf
<1> DEFINE wants == MakeOf(dir, b)
           heads == HeaderOf(dir, b)
           creates == CreatorOf(dir, b)
<1>20. always
  OBVIOUS
<1> HIDE DEF path, makes, headers, said, always, entry, wants, heads, creates
<1>7. /\ Outcome(heap, make) /\ make.raised = wants.raised
      /\ make.raised \in {Nothing, "NoSuchMember"} => Whole(dir, make.heap)
      /\ make.raised = Nothing => IsObject(make.heap, make.value) /\ wants = Answer(What(make.heap, make.value))
  BY <1>2, <1>3, <1>4, NextMember DEF wants
<1> HIDE DEF make
<1>8. CASE make.raised # Nothing
  BY <1>1, <1>5, <1>6, <1>7, <1>8 DEF wants
<1>9. CASE make.raised = Nothing
  <2>1. Whole(dir, make.heap) /\ Kept(heap, make.heap) /\ HeapOK(make.heap)
    BY <1>7, <1>9, OutcomeHeap
  <2>2. /\ IsObject(make.heap, 1) /\ make.heap.objs[1].what = Index
        /\ IsObject(make.heap, block) /\ make.heap.objs[block].what = b
    BY <1>2, <2>1, StandsFor
  <2>3. /\ Outcome(make.heap, header) /\ header.raised = heads.raised
        /\ header.raised \in {Nothing, "NoSuchMember"} => Whole(dir, header.heap)
        /\ header.raised = Nothing => IsObject(header.heap, header.value) /\ heads = Answer(What(header.heap, header.value))
    BY <1>3, <1>4, <2>1, <2>2, NextMember DEF heads
  <2> HIDE DEF header
  <2>4. CASE ~SureOf(header)
    <3>1. sure = header
      BY <2>4
    <3>2. header.raised = "Duplicate" /\ "Duplicate" # Nothing /\ "Duplicate" \in Sure
      BY <1>5, <2>3, <2>4 DEF SureOf, Sure, Nothing, heads
    <3> QED
      BY <1>1, <1>6, <1>9, <2>3, <3>1, <3>2 DEF heads
  <2>5. CASE SureOf(header)
    <3>1. sure = Return(header.heap, filed)
      BY <2>5
    <3>11. filed <=> HeaderFileSays(dir, b)
      <4>1. HeaderFileSays(dir, b) <=> heads.raised = Nothing /\ Described(dir, heads.value)
        BY DEF HeaderFileSays, heads
      <4>2. ASSUME header.raised = Nothing PROVE header.heap.objs[header.value].what = heads.value
        <5>1. HeapOK(header.heap)
          BY <2>3, OutcomeHeap
        <5>2. IsObject(header.heap, header.value) /\ heads = Answer(What(header.heap, header.value))
          BY <2>3, <4>2
        <5>3. What(header.heap, header.value) = header.heap.objs[header.value].what
          BY <5>1, <5>2 DEF What, IsObject, HeapOK, ObjectsOK
        <5> QED
          BY <5>2, <5>3 DEF Answer
      <4> QED
        BY <2>3, <4>1, <4>2 DEF combine_descriptions
    <3> HIDE DEF filed, sure
    <3>2. sure.raised = Nothing /\ sure.heap = header.heap /\ Whole(dir, header.heap) /\ heads.raised # "Duplicate"
      BY <2>3, <2>5, <3>1, Returned DEF SureOf, Nothing
    <3>12. sure.value = filed
      BY <3>1, Returned
    <3>3. Whole(dir, sure.heap) /\ Kept(make.heap, sure.heap) /\ HeapOK(sure.heap)
      BY <2>3, <3>2, OutcomeHeap
    <3>4. IsObject(sure.heap, block) /\ sure.heap.objs[block].what = b
      BY <2>1, <2>2, <3>3, StandsFor
    <3>5. Outcome(sure.heap, asked) /\ asked.raised = Nothing /\ Whole(dir, asked.heap)
      <4> DEFINE functions == CategoryOf(dir, b, "DoxyFunction")
      <4>1. functions.raised = Nothing
        BY BlockIs, CategoryOfClass DEF Readable
      <4>2. CategorySo(dir, functions, asked)
        BY <3>3, <3>4, in_categorySays
      <4>3. Outcome(sure.heap, asked)
        BY <3>3, <3>4, in_categoryListing DEF Listing
      <4> HIDE DEF asked, functions
      <4> QED
        BY <4>1, <4>2, <4>3 DEF CategorySo, Fine
    <3> HIDE DEF asked
    <3>6. Kept(sure.heap, asked.heap) /\ HeapOK(asked.heap)
      BY <3>5, OutcomeHeap
    <3>7. IsObject(asked.heap, block) /\ asked.heap.objs[block].what = b
      BY <3>3, <3>4, <3>6, StandsFor
    <3>8. /\ Outcome(asked.heap, creator) /\ creator.raised = creates.raised
          /\ creator.raised \in {Nothing, "NoSuchMember"} => Whole(dir, creator.heap)
      BY <1>3, <1>4, <3>5, <3>7, NextMember DEF creates
    <3> HIDE DEF creator
    <3>9. CASE creator.raised # Nothing
      BY <1>1, <1>5, <1>6, <1>9, <3>2, <3>5, <3>8, <3>9 DEF creates
    <3>10. CASE creator.raised = Nothing
      <4>1. Whole(dir, creator.heap) /\ Kept(asked.heap, creator.heap)
        BY <3>8, <3>10, OutcomeHeap
      <4>2. Kept(make.heap, creator.heap)
        BY <2>1, <3>3, <3>6, <4>1, KeptOn
      <4>3. creator.heap.objs[block].what = b
        BY <3>6, <3>7, <4>1, StandsFor
      <4>4. creator.heap.objs[make.value].what = wants.value
        <5>1. IsObject(make.heap, make.value) /\ wants = Answer(What(make.heap, make.value))
          BY <1>7, <1>9
        <5>2. creator.heap.objs[make.value].what = What(make.heap, make.value)
          BY <2>1, <4>2, <5>1, StandsFor
        <5> QED
          BY <5>1, <5>2 DEF Answer
      <4>5. entry = BlockEntries(dir, b)
        <5>1. said <=> BlockSays(dir, b)
          BY <3>11, <3>12, <4>3, <4>4 DEF said, combine_descriptions, BlockSays, wants
        <5>2. IsObject(creator.heap, block) /\ IsObject(creator.heap, make.value)
          BY <1>7, <1>9, <2>1, <3>6, <3>7, <4>1, <4>2, StandsFor
        <5>3. make_entry(creator.heap, block, "block", said) = Line("block", b, NoOperator(dir, b) /\ said)
          BY <4>1, <4>3, <5>2, make_entrySays
        <5>4. make_entry(creator.heap, make.value, "make", always) = Line("make", wants.value, NoOperator(dir, wants.value) /\ always)
          BY <4>1, <4>4, <5>2, make_entrySays
        <5>5. Line("block", b, NoOperator(dir, b) /\ said) = Line("block", b, BlockTold(dir, b))
          BY <5>1 DEF Line, BlockTold
        <5>6. Line("make", wants.value, NoOperator(dir, wants.value) /\ always) = Line("make", MakeOf(dir, b).value, MakeTold(dir, b))
          BY <1>20 DEF Line, MakeTold, wants
        <5> QED
          BY <5>3, <5>4, <5>5, <5>6 DEF entry, BlockEntries
      <4>6. done = Return(creator.heap, entry)
        BY <1>1, <1>9, <3>2, <3>5, <3>10
      <4>7. done.raised = Nothing /\ done.heap = creator.heap /\ done.value = entry
        BY <4>6, Returned
      <4>8. Documented(b)
        BY <1>6, <1>7, <1>9, <3>2, <3>8, <3>10 DEF wants, heads, creates
      <4> QED
        BY <4>1, <4>5, <4>7, <4>8 DEF Sure, wants
    <3> QED
      BY <3>9, <3>10
  <2> QED
    BY <2>4, <2>5
<1> QED
  BY <1>8, <1>9

\* A ParsingError leaves all whole.
LEMMA confirm_no_errorWhole ==
  ASSUME dir \in Directories, NEW heap, Whole(dir, heap), NEW o, IsObject(heap, o),
         NEW what, what = heap.objs[o].what, NEW done, done = confirm_no_error(heap, o)
  PROVE  /\ Outcome(heap, done) /\ done.raised = MembersOf(dir, what).raised
         /\ done.raised \in {Nothing, "ParsingError"} => Whole(dir, done.heap)
<1> DEFINE checked == check_parsed(heap, o)
<1>1. done = Confirmed(checked, o)
  BY DEF confirm_no_error
<1>2. HeapOK(heap)
  BY DEF Whole
<1>3. Outcome(heap, checked) /\ CheckedSo(dir, heap, o, checked)
  BY <1>2, check_parsedOutcome, check_parsedSays
<1>4. Outcome(heap, done) /\ Says(dir, heap, o, MembersOf(dir, what), done)
  BY <1>2, confirm_no_errorOutcome, confirm_no_errorSays
<1> HIDE DEF checked
<1>5. Confirmed(checked, o).heap = checked.heap
  BY <1>3, ConfirmedOutcome
<1>6. checked.raised # Nothing => done = checked
  BY <1>1 DEF Confirmed, Then
<1>7. done.raised \in {Nothing, "ParsingError"} => Whole(dir, checked.heap)
  BY <1>3, <1>6 DEF CheckedSo, Fine
<1> QED
  BY <1>1, <1>4, <1>5, <1>7 DEF Says

ClassEntryOf(c) == Line("class", c, ClassTold(dir, c))

LEMMA make_class_entrySays ==
  ASSUME dir \in Directories, NEW heap, Whole(dir, heap), NEW klass, IsObject(heap, klass),
         NEW c, c = heap.objs[klass].what, ErrorOf(dir, c).raised = Nothing,
         NEW done, done = make_class_entry(heap, klass)
  PROVE  done.raised \in {Nothing, "ParsingError"} /\ Whole(dir, done.heap) /\ done.value = ClassEntryOf(c)
<1> DEFINE read == confirm_no_error(heap, klass)
           found == in_category(read.heap, klass, "DoxyFunction")
           entry == make_entry(found.heap, klass, "class", combine_descriptions(found.heap, klass))
<1>1. done = IF read.raised # Nothing THEN read ELSE IF found.raised # Nothing THEN found ELSE Return(found.heap, entry)
  BY DEF make_class_entry, Then
<1>2. /\ Outcome(heap, read) /\ read.raised = MembersOf(dir, c).raised
      /\ read.raised \in {Nothing, "ParsingError"} => Whole(dir, read.heap)
  BY confirm_no_errorWhole
<1>3. read.raised \in {Nothing, "ParsingError"}
  BY <1>2 DEF ErrorOf, BadRead
<1> HIDE DEF read, entry
<1>4. CASE read.raised # Nothing
  BY <1>1, <1>2, <1>3, <1>4 DEF ClassEntryOf, Line, ClassTold, Outcome
<1>5. CASE read.raised = Nothing
  <2>1. Whole(dir, read.heap) /\ Kept(heap, read.heap) /\ HeapOK(read.heap) /\ HeapOK(heap)
    BY <1>2, <1>5, OutcomeHeap DEF Whole
  <2>2. IsObject(read.heap, klass) /\ read.heap.objs[klass].what = c
    BY <2>1, StandsFor
  <2> DEFINE functions == CategoryOf(dir, c, "DoxyFunction")
  <2>3. functions.raised = Nothing
    <3>1. "DoxyFunction" \notin {"None", "Block"} /\ MembersOf(dir, c).raised = Nothing
      BY <1>2, <1>5
    <3> HIDE DEF functions
    <3>2. functions = CategoryOf(dir, c, "DoxyFunction") => functions.raised = MembersOf(dir, c).raised
      BY <3>1, CategoryOfClass
    <3> QED
      BY <3>1, <3>2 DEF functions
  <2>4. CategorySo(dir, functions, found)
    BY <2>1, <2>2, in_categorySays
  <2>5. Outcome(read.heap, found)
    BY <2>1, <2>2, in_categoryListing DEF Listing
  <2> HIDE DEF functions, found
  <2>6. found.raised = Nothing /\ Whole(dir, found.heap) /\ Kept(read.heap, found.heap)
    BY <2>3, <2>4, <2>5, OutcomeHeap DEF CategorySo, Fine
  <2>7. IsObject(found.heap, klass) /\ found.heap.objs[klass].what = c
    BY <2>1, <2>2, <2>6, StandsFor
  <2>8. done = Return(found.heap, entry)
    BY <1>1, <1>5, <2>6
  <2>9. entry = ClassEntryOf(c)
    <3> DEFINE said == combine_descriptions(found.heap, klass)
    <3>1. said <=> Described(dir, c)
      BY <2>7 DEF combine_descriptions
    <3> HIDE DEF said
    <3>2. entry = Line("class", c, NoOperator(dir, c) /\ said)
      BY <2>6, <2>7, make_entrySays DEF entry, said
    <3> QED
      BY <1>2, <1>5, <3>1, <3>2 DEF ClassEntryOf, Line, ClassTold
  <2> QED
    BY <2>6, <2>8, <2>9, Returned
<1> QED
  BY <1>4, <1>5

LEMMA make_func_entrySays ==
  ASSUME dir \in Directories, NEW heap, Whole(dir, heap), NEW func, IsObject(heap, func),
         NEW f, f = heap.objs[func].what, KindOf(dir, f) = "DoxyFunction",
         NEW done, done = make_func_entry(heap, func)
  PROVE  done.raised = Nothing /\ Whole(dir, done.heap) /\ done.value = Line("function", f, NoOperator(dir, f))
<1> DEFINE read == confirm_no_error(heap, func)
           always == TRUE
           entry == make_entry(read.heap, func, "function", always)
<1>1. done = IF read.raised # Nothing THEN read ELSE Return(read.heap, entry)
  BY DEF make_func_entry, Then
<1>2. MembersOf(dir, f).raised = Nothing
  <2>1. MembersOf(dir, f) = Answer(<<>>)
    BY FunctionHasNone
  <2> QED
    BY <2>1 DEF Answer
<1>3. Outcome(heap, read) /\ read.raised = Nothing /\ Whole(dir, read.heap) /\ HeapOK(heap)
  BY <1>2, confirm_no_errorWhole DEF Whole
<1>6. always
  OBVIOUS
<1> HIDE DEF read, always, entry
<1>4. Kept(heap, read.heap)
  BY <1>3, OutcomeHeap
<1>5. IsObject(read.heap, func) /\ read.heap.objs[func].what = f
  BY <1>3, <1>4, StandsFor
<1>9. entry = Line("function", f, NoOperator(dir, f) /\ always)
  BY <1>3, <1>5, make_entrySays DEF entry
<1>7. entry = Line("function", f, NoOperator(dir, f))
  BY <1>6, <1>9 DEF Line
<1>8. done = Return(read.heap, entry)
  BY <1>1, <1>3
<1> QED
  BY <1>3, <1>7, <1>8, Returned

(***************************************************************************)
(* What the script's later loops go through.                               *)
(***************************************************************************)
\* Those not written yet, of a list.
LeftSo(names, start, seq, i, found) ==
  /\ IsSeq(found)
  /\ \A n \in DOMAIN found : \E j \in 1 .. i : found[n] = seq[j] /\ ~Written(seq[j], names)
  /\ \A j \in 1 .. i : ~Written(seq[j], names) => \E n \in DOMAIN found : found[n] = seq[j]
  /\ (\A j, k \in 1 .. i : j # k => seq[j] # seq[k]) => Apart(found)

LeftLoop == INSTANCE FoldSteps WITH Turn <- KeepUnwritten, Holds <- LeftSo

LEMMA UnwrittenSo ==
  ASSUME NEW n \in Nat, NEW seq, DOMAIN seq = 1 .. n, NEW names, NEW start, start = <<>>
  PROVE  LeftSo(names, start, seq, n, Unwritten(seq, names))
<1>1. LeftSo(names, start, seq, 0, start)
  <2>1. DOMAIN start = {} /\ IsSeq(start) /\ \A j : j \notin 1 .. 0
    BY DEF IsSeq
  <2> QED
    BY <2>1 DEF LeftSo, Apart
<1>2. ASSUME NEW i \in 1 .. n, NEW found, LeftSo(names, start, seq, i - 1, found)
      PROVE  LeftSo(names, start, seq, i, KeepUnwritten(names, found, seq[i]))
  <2> DEFINE x == seq[i]
             Is(y) == ~Written(y, names)
             more == Append(found, x)
             last == Len(found) + 1
  <2>1. KeepUnwritten(names, found, x) = IF Is(x) THEN more ELSE found
    BY DEF KeepUnwritten
  <2>2. i \in 1 .. i /\ (\A j \in 1 .. i - 1 : j \in 1 .. i /\ j # i) /\ (\A j \in 1 .. i : j = i \/ j \in 1 .. i - 1)
    OBVIOUS
  <2>3. /\ IsSeq(found)
        /\ \A k \in DOMAIN found : \E j \in 1 .. i - 1 : found[k] = seq[j] /\ Is(seq[j])
        /\ \A j \in 1 .. i - 1 : Is(seq[j]) => \E k \in DOMAIN found : found[k] = seq[j]
        /\ (\A j, k \in 1 .. i - 1 : j # k => seq[j] # seq[k]) => Apart(found)
    BY <1>2 DEF LeftSo
  <2> HIDE DEF Is, x
  <2>4. x = seq[i]
    BY DEF x
  <2>5. CASE ~Is(x)
    <3>1. LeftSo(names, start, seq, i, found)
      <4>1. \A k \in DOMAIN found : \E j \in 1 .. i : found[k] = seq[j] /\ Is(seq[j])
        BY <2>2, <2>3
      <4>2. \A j \in 1 .. i : Is(seq[j]) => \E k \in DOMAIN found : found[k] = seq[j]
        BY <2>2, <2>3, <2>4, <2>5
      <4>3. (\A j, k \in 1 .. i : j # k => seq[j] # seq[k]) => Apart(found)
        BY <2>2, <2>3
      <4> QED
        BY <2>3, <4>1, <4>2, <4>3 DEF LeftSo, Is
    <3> QED
      BY <2>1, <2>5, <3>1 DEF x
  <2>6. CASE Is(x)
    <3>1. /\ IsSeq(more) /\ DOMAIN more = DOMAIN found \cup {last} /\ last \notin DOMAIN found
          /\ more[last] = x /\ \A k \in DOMAIN found : more[k] = found[k]
      BY <2>3, AppendedHas
    <3> HIDE DEF more, last
    <3>2. \A k \in DOMAIN more : \E j \in 1 .. i : more[k] = seq[j] /\ Is(seq[j])
      BY <2>2, <2>3, <2>4, <2>6, <3>1
    <3>3. \A j \in 1 .. i : Is(seq[j]) => \E k \in DOMAIN more : more[k] = seq[j]
      <4> TAKE j \in 1 .. i
      <4> HAVE Is(seq[j])
      <4>1. CASE j = i
        BY <2>4, <3>1, <4>1
      <4>2. CASE j # i
        <5>1. PICK k \in DOMAIN found : found[k] = seq[j]
          BY <2>2, <2>3, <4>2
        <5> QED
          BY <3>1, <5>1
      <4> QED
        BY <4>1, <4>2
    <3>4. ASSUME \A j, k \in 1 .. i : j # k => seq[j] # seq[k]
          PROVE  Apart(more)
      <4>1. \A k, m \in DOMAIN found : k # m => found[k] # found[m]
        BY <2>2, <2>3, <3>4 DEF Apart
      <4>2. \A k \in DOMAIN found : found[k] # x
        <5> TAKE k \in DOMAIN found
        <5>1. PICK j \in 1 .. i - 1 : found[k] = seq[j]
          BY <2>3
        <5> QED
          BY <2>2, <2>4, <3>4, <5>1
      <4> QED
        BY <3>1, <4>1, <4>2 DEF Apart
    <3>5. LeftSo(names, start, seq, i, more)
      BY <3>1, <3>2, <3>3, <3>4 DEF LeftSo, Is
    <3> QED
      BY <2>1, <2>6, <3>5 DEF x
  <2> QED
    BY <2>5, <2>6
<1>3. LeftSo(names, start, seq, n, LeftLoop!Loop(names, start, seq))
  BY <1>1, <1>2, LeastNumber, LeftLoop!LoopKeeps
<1>4. Unwritten(seq, names) = LeftLoop!Loop(names, start, seq)
  BY DEF Unwritten, Those, KeepUnwritten, LeftLoop!Loop, FoldLeft, MapThenFoldSet, Max, LeftLoop!Last
<1> QED
  BY <1>3, <1>4

\* As long as the index is read already, a category that is a class of objects makes none.
NoneMade(of, start, mems, i, done) == Len(done.heap.objs) = of.n

NoneMadeLoop == INSTANCE FoldSteps WITH Turn <- SelectIncludedOf, Holds <- NoneMade

LEMMA IncludedMakesNone ==
  ASSUME NEW cat, cat \notin {"None", "Block"}, NEW heap, NEW mems, IsSeq(mems)
  PROVE  Len(SelectAllIncluded(cat, heap, mems).heap.objs) = Len(heap.objs)
<1> DEFINE start == Return(heap, <<>>)
           n == Len(heap.objs)
           of == [cat |-> cat, n |-> n]
           m == Len(mems)
<1>1. m \in Nat /\ DOMAIN mems = 1 .. m
  BY LenProperties DEF IsSeq
<1>2. of.cat = cat /\ of.n = n
  OBVIOUS
<1>3. start.heap = heap
  BY Returned
<1> HIDE DEF m, n, of, start
<1>4. SelectAllIncluded(cat, heap, mems) = NoneMadeLoop!Loop(of, start, mems)
  BY <1>2 DEF SelectAllIncluded, SelectIncludedOf, NoneMadeLoop!Loop, FoldLeft, MapThenFoldSet, Max, NoneMadeLoop!Last,
              start
<1>5. NoneMade(of, start, mems, 0, start)
  BY <1>2, <1>3 DEF NoneMade, n
<1>6. ASSUME NEW i \in 1 .. m, NEW done, NoneMade(of, start, mems, i - 1, done)
      PROVE  NoneMade(of, start, mems, i, SelectIncludedOf(of, done, mems[i]))
  <2> DEFINE asked == includes(done.heap, cat, mems[i])
             turn == SelectIncludedOf(of, done, mems[i])
  <2>1. turn = IF done.raised # Nothing THEN done ELSE Selected(done, mems[i], asked)
    BY <1>2 DEF SelectIncludedOf, SelectIncluded, Select, Then, Selected
  <2>2. asked.heap = done.heap
    BY Returned DEF includes, isinstance
  <2> HIDE DEF asked, turn
  <2>3. Selected(done, mems[i], asked).heap = asked.heap
    BY Returned DEF Selected
  <2>4. turn.heap = done.heap
    BY <2>1, <2>2, <2>3
  <2> QED
    BY <1>6, <2>4 DEF NoneMade, turn
<1>7. NoneMade(of, start, mems, m, NoneMadeLoop!Loop(of, start, mems))
  BY <1>1, <1>5, <1>6, LeastNumber, NoneMadeLoop!LoopKeeps
<1> QED
  BY <1>2, <1>4, <1>7 DEF NoneMade, n

LEMMA CategoryThere ==
  ASSUME dir \in Directories, NEW heap, HeapOK(heap), heap.objs[1].parsed, NEW cat, cat \notin {"None", "Block"},
         NEW done, done = in_category(heap, 1, cat)
  PROVE  done.raised = Nothing => IsList(heap, done.value)
<1> DEFINE read == confirm_no_error(heap, 1)
           mems == heap.objs[1].members
           asked == SelectAllIncluded(cat, read.heap, mems)
<1>1. read.heap = heap
  BY Returned DEF confirm_no_error, check_parsed, Checked, Confirmed, Then, Raise
<1>2. done = Categorised(1, cat, read, asked)
  <2>1. done = Categorised(1, cat, read, SelectAllIncluded(cat, read.heap, read.heap.objs[1].members))
    BY DEF in_category, Category, Then, KeepCategory, Categorised, SelectAllIncluded
  <2> QED
    BY <1>1, <2>1
<1>3. IsObject(heap, 1) /\ Listing(cat, heap, done)
  BY FirstIsThere, in_categoryListing
<1>4. Len(asked.heap.objs) = Len(heap.objs)
  <2>1. IsSeq(mems)
    BY <1>3, MembersAreSeq
  <2> HIDE DEF mems
  <2>2. Len(SelectAllIncluded(cat, heap, mems).heap.objs) = Len(heap.objs)
    BY <2>1, IncludedMakesNone
  <2> QED
    BY <1>1, <2>2
<1>5. Listing(cat, heap, asked)
  <2>1. mems \in Seq(0 .. Len(heap.objs))
    BY <1>3, Known1 DEF ObjectOK
  <2> HIDE DEF mems
  <2> QED
    BY <1>1, <2>1, IncludedLoopListing
<1> HIDE DEF read, asked
<1>6. SUFFICES ASSUME done.raised = Nothing PROVE IsList(heap, done.value)
  OBVIOUS
<1>7. done.value \in Seq(1 .. Len(done.heap.objs))
  BY <1>3, <1>6 DEF Listing, Lowest
<1>8. CASE done.heap = heap
  BY <1>7, <1>8 DEF IsList
<1>9. CASE asked.raised = Nothing /\ done = Return(KeepCategory(asked.heap, 1, cat, asked.value), asked.value)
  <2>1. HeapOK(asked.heap) /\ Kept(heap, asked.heap) /\ IsObject(asked.heap, 1)
    BY <1>3, <1>5, OutcomeHeap, StillThere DEF Listing
  <2>2. asked.value \in Seq(1 .. Len(heap.objs))
    BY <1>4, <1>5, <1>9 DEF Listing, Lowest
  <2> QED
    BY <1>9, <2>2, Returned DEF IsList
<1> QED
  BY <1>1, <1>2, <1>6, <1>8, <1>9, Returned DEF Categorised

LEMMA WholeIndex ==
  ASSUME NEW d, NEW heap, Whole(d, heap)
  PROVE  HeapOK(heap) /\ IsObject(heap, 1) /\ heap.objs[1].what = Index
<1>1. HeapOK(heap) /\ IsObject(heap, 1)
  BY FirstIsThere DEF Whole
<1> QED
  BY <1>1, WholeNamed

LEMMA NoPlaces ==
  ASSUME NEW seq, IsSeq(seq), DOMAIN seq = {}
  PROVE  Len(seq) = 0 /\ \A S : seq \in Seq(S)
<1>1. PICK S : seq \in Seq(S)
  BY DEF IsSeq
<1>2. Len(seq) \in Nat /\ DOMAIN seq = 1 .. Len(seq)
  BY <1>1, LenProperties
<1>3. Len(seq) = 0
  <2>1. CASE Len(seq) # 0
    <3>1. 1 \in 1 .. Len(seq)
      BY <1>2, <2>1
    <3> QED
      BY <1>2, <3>1
  <2> QED
    BY <2>1
<1>4. seq = <<>>
  BY <1>1, <1>3, EmptySeq
<1> QED
  BY <1>3, <1>4

\* When a category of the index has been told, the index is read, and its compounds are there.
IndexThere(d, heap) == DOMAIN d.index = {} \/ Len(heap.objs) > 1

LEMMA IndexThereStays ==
  ASSUME NEW d, NEW a, HeapOK(a), NEW b, Kept(a, b), IndexThere(d, a)
  PROVE  IndexThere(d, b)
BY DEF IndexThere, Kept, Extends, HeapOK, ObjectsOK

LEMMA AllThereMakes ==
  ASSUME dir \in Directories, NEW heap, Whole(dir, heap), heap.objs[1].parsed
  PROVE  IndexThere(dir, heap)
<1>1. SUFFICES ASSUME NEW j \in DOMAIN dir.index PROVE Len(heap.objs) > 1
  BY DEF IndexThere
<1> DEFINE mem == dir.index[j]
           o == heap.refs[mem.refid]
<1>2. mem \in Range(dir.index)
  BY DEF Range
<1>3. mem.refid # NoRef /\ mem.refid # "index"
  <2> HIDE DEF mem
  <2> QED
    BY <1>2, CompoundFound, ConsistentAssumption DEF Consistent
<1>4. mem.refid \in DOMAIN heap.refs
  BY <1>2 DEF Whole, Sem, AllThere
<1> HIDE DEF mem
<1>5. o \in 1 .. Len(heap.objs) /\ heap.objs[o].refid = mem.refid /\ Len(heap.objs) \in Nat
  BY <1>4 DEF Whole, HeapOK, RefsOK, ObjectsOK
<1> HIDE DEF o
<1>6. heap.objs[o].what = <<mem.refid>>
  BY <1>3, <1>5 DEF Whole, Sem, SemBut, Placed
<1>7. <<mem.refid>> # Index
  <2>1. <<mem.refid>>[1] = mem.refid /\ Index[1] = "index"
    BY DEF Index
  <2> QED
    BY <1>3, <2>1
<1>8. o # 1
  BY <1>6, <1>7, WholeIndex
<1> QED
  BY <1>5, <1>8

LEMMA CategoryMakes ==
  ASSUME dir \in Directories, NEW heap, Whole(dir, heap), NEW cat, NEW done, done = in_category(heap, 1, cat),
         done.raised = Nothing
  PROVE  IndexThere(dir, done.heap)
<1> DEFINE checked == check_parsed(heap, 1)
           read == confirm_no_error(heap, 1)
           asked == SelectAllIncluded(cat, read.heap, read.heap.objs[1].members)
<1>1. IsObject(heap, 1) /\ HeapOK(heap)
  BY WholeIndex
<1>2. CheckedSo(dir, heap, 1, checked) /\ Outcome(heap, checked) /\ read = Confirmed(checked, 1)
  BY <1>1, check_parsedSays, check_parsedOutcome DEF confirm_no_error
<1>3. done = Categorised(1, cat, read, asked)
  BY DEF in_category, Category, Then, KeepCategory, Categorised, SelectAllIncluded
<1>4. read.raised = Nothing
  BY <1>3 DEF Categorised
<1>5. Outcome(heap, read)
  BY <1>1, confirm_no_errorOutcome
<1> HIDE DEF checked, read
<1>6. read.heap = checked.heap /\ checked.raised = Nothing
  BY <1>2, <1>4, ConfirmedOutcome DEF Confirmed, Then
<1>7. Whole(dir, read.heap) /\ read.heap.objs[1].parsed /\ HeapOK(read.heap) /\ IsObject(read.heap, 1)
  BY <1>1, <1>2, <1>5, <1>6, OutcomeHeap, StillThere DEF CheckedSo, Fine
<1>8. IndexThere(dir, read.heap)
  BY <1>7, AllThereMakes
<1>9. Outcome(read.heap, read)
  BY <1>5, <1>7, KeptItself DEF Outcome
<1>10. cat # "None" => Listing(cat, read.heap, asked)
  <2>1. read.heap.objs[1].members \in Seq(0 .. Len(read.heap.objs))
    BY <1>7, Known1 DEF ObjectOK
  <2> QED
    BY <1>7, <2>1, IncludedLoopListing
<1> HIDE DEF asked
<1>11. Listing(cat, read.heap, done)
  BY <1>3, <1>7, <1>9, <1>10, CategoryOutcome
<1>12. Kept(read.heap, done.heap)
  BY <1>11, OutcomeHeap DEF Listing
<1> QED
  BY <1>7, <1>8, <1>12, IndexThereStays

\* So what is listed of functions or classes is known before.
LEMMA FoundThere ==
  ASSUME dir \in Directories, NEW heap, Whole(dir, heap), IndexThere(dir, heap), IndexRead(dir).raised = Nothing,
         NEW cat, cat \notin {"None", "Block"}, NEW done, done = in_category(heap, 1, cat)
  PROVE  /\ Outcome(heap, done) /\ done.raised = Nothing /\ Whole(dir, done.heap)
         /\ IsList(heap, done.value) /\ ListedSo(cat, Whats(heap, done.value))
<1> DEFINE told == CategoryOf(dir, Index, cat)
           listed == Whats(done.heap, done.value)
<1>1. IsObject(heap, 1) /\ HeapOK(heap) /\ heap.objs[1].what = Index
  BY WholeIndex
<1>2. CategorySo(dir, told, done)
  BY <1>1, in_categorySays
<1>3. Listing(cat, heap, done)
  BY <1>1, in_categoryListing
<1>4. told.raised = Nothing /\ ListedSo(cat, told.value)
  BY ClassesListed
<1> HIDE DEF told
<1>5. done.raised = Nothing /\ told = Answer(listed) /\ Whole(dir, done.heap)
  BY <1>2, <1>4 DEF CategorySo, Fine
<1>6. ListedSo(cat, listed)
  BY <1>4, <1>5 DEF Answer
<1>7. IsList(heap, done.value)
  <2>1. CASE heap.objs[1].parsed
    BY <1>1, <1>5, <2>1, CategoryThere
  <2>2. CASE ~heap.objs[1].parsed
    <3>1. DOMAIN dir.index = {}
      <4>1. Len(heap.objs) = 1
        BY <2>2 DEF Whole, Sem
      <4> QED
        BY <4>1 DEF IndexThere
    <3>2. Len(dir.index) = 0
      <4>1. IsSeq(dir.index)
        BY DirectoriesAssumption DEF IsSeq
      <4> QED
        BY <3>1, <4>1, NoPlaces
    <3>3. IndexHas(IndexRead(dir).value, 0)
      BY <3>2, IndexReadHas
    <3>4. Inside(dir, cat, Index) = {}
      <4>1. ASSUME NEW what \in Inside(dir, cat, Index) PROVE FALSE
        <5>1. what \in Range(IndexRead(dir).value) /\ Belongs(dir, cat, what)
          BY <4>1, IndexReadable DEF Inside
        <5>2. what # <<>>
          BY <5>1, NoneBelongs
        <5> QED
          BY <3>3, <5>1, <5>2 DEF IndexHas
      <4> QED
        BY <4>1
    <3>5. DOMAIN done.value = {}
      <4>1. Range(listed) = {}
        BY <1>6, <3>4 DEF ListedSo
      <4> QED
        BY <4>1 DEF Whats, Range
    <3>6. IsSeq(done.value)
      BY <1>3, <1>5 DEF Listing, IsSeq
    <3> QED
      BY <3>5, <3>6, NoPlaces DEF IsList
  <2> QED
    BY <2>1, <2>2
<1>8. Whats(heap, done.value) = listed
  <2>1. done.value \in Seq(0 .. Len(heap.objs))
    BY <1>7 DEF IsList
  <2> QED
    BY <1>1, <1>3, <2>1, OutcomeHeap, WhatsStay DEF Listing
<1> QED
  BY <1>3, <1>5, <1>6, <1>7, <1>8 DEF Listing

(***************************************************************************)
(* What has been written, and what is left.                                *)
(***************************************************************************)
LEMMA Pairs ==
  ASSUME NEW x, NEW y, NEW a, NEW b
  PROVE  /\ <<x, a>> = <<y, b>> <=> x = y /\ a = b
         /\ <<x, a>> # <<>>
<1>1. Len(<<x, a>>) = 2 /\ <<x, a>>[1] = x /\ <<x, a>>[2] = a /\ <<y, b>>[1] = y /\ <<y, b>>[2] = b
  OBVIOUS
<1> QED
  BY <1>1

LEMMA OneIsApart ==
  ASSUME NEW x, NEW seq, seq = <<x>>
  PROVE  IsSeq(seq) /\ Apart(seq) /\ Range(seq) = {x}
<1>1. seq \in Seq({x}) /\ Len(seq) = 1 /\ seq[1] = x
  OBVIOUS
<1>2. DOMAIN seq = {1}
  <2>1. DOMAIN seq = 1 .. 1
    BY <1>1, LenProperties
  <2> QED
    BY <2>1
<1> QED
  BY <1>1, <1>2 DEF IsSeq, Apart, Range

LEMMA NoneAreApart ==
  ASSUME NEW seq, seq = <<>>
  PROVE  IsSeq(seq) /\ Apart(seq) /\ Range(seq) = {}
<1>1. DOMAIN seq = {} /\ seq \in Seq({})
  OBVIOUS
<1> QED
  BY <1>1 DEF IsSeq, Apart, Range

LEMMA LineIs ==
  ASSUME NEW as, NEW what, NEW told, NEW seq, seq = Line(as, what, told)
  PROVE  IsSeq(seq) /\ Apart(seq) /\ Range(seq) = IF told THEN {<<as, what>>} ELSE {}
<1> DEFINE one == <<as, what>>
<1>1. seq = IF told THEN <<one>> ELSE <<>>
  BY DEF Line
<1> HIDE DEF one
<1>2. CASE told
  BY <1>1, <1>2, OneIsApart DEF one
<1>3. CASE ~told
  BY <1>1, <1>3, NoneAreApart
<1> QED
  BY <1>2, <1>3

LEMMA ApartConcat ==
  ASSUME NEW a, IsSeq(a), Apart(a), NEW b, IsSeq(b), Apart(b), Range(a) \cap Range(b) = {},
         <<>> \notin Range(a) \cup Range(b), NEW c, c = a \o b
  PROVE  IsSeq(c) /\ Apart(c) /\ Range(c) = Range(a) \cup Range(b)
<1>1. OnceEach(a) /\ OnceEach(b)
  BY DEF Apart, OnceEach
<1>2. OnceEach(c)
  BY <1>1, OnceConcat
<1>3. IsSeq(c) /\ Range(c) = Range(a) \cup Range(b)
  BY ConcatHas
<1>4. \A n \in DOMAIN c : c[n] # <<>>
  BY <1>3 DEF Range
<1> QED
  BY <1>2, <1>3, <1>4 DEF OnceEach, Apart

Of(d, cat) == Range(CategoryOf(d, Index, cat).value)
Called(d, what) == Description(d, what).name

MakeNames(d, B) == {make_name(Called(d, b)) : b \in B}
BlockNames(d) == {Called(d, b) : b \in Of(d, "Block")}

\* what the first loop does not write
OtherFunctions(d) == {f \in Of(d, "DoxyFunction") : Called(d, f) \notin MakeNames(d, Of(d, "Block"))}
OtherClasses(d) == {c \in Of(d, "DoxyClass") : Called(d, c) \notin BlockNames(d)}

InOrder(d, b) ==
  MakeOf(d, b).raised = Nothing /\ HeaderOf(d, b).raised # "Duplicate" /\ CreatorOf(d, b).raised = Nothing

\* the entries of these blocks, functions and classes
EntriesOf(d, B, F, C) ==
  {<<"block", b>> : b \in {x \in B : BlockTold(d, x)}}
  \cup {<<"make", MakeOf(d, b).value>> : b \in {x \in B : MakeTold(d, x)}}
  \cup {<<"function", f>> : f \in {x \in F : NoOperator(d, x)}}
  \cup {<<"class", c>> : c \in {x \in C : ClassTold(d, x)}}

SoFar(d, ents, makes, B, F, C) ==
  /\ IsSeq(ents) /\ Apart(ents) /\ Range(ents) = EntriesOf(d, B, F, C)
  /\ makes = MakeNames(d, B)
  /\ \A b \in B : InOrder(d, b)

LEMMA EntriesHave ==
  ASSUME NEW d, NEW B, NEW F, NEW C
  PROVE  /\ <<>> \notin EntriesOf(d, B, F, C)
         /\ \A x : /\ <<"block", x>> \in EntriesOf(d, B, F, C) <=> x \in B /\ BlockTold(d, x)
                   /\ <<"function", x>> \in EntriesOf(d, B, F, C) <=> x \in F /\ NoOperator(d, x)
                   /\ <<"class", x>> \in EntriesOf(d, B, F, C) <=> x \in C /\ ClassTold(d, x)
<1>1. \A e : e \in EntriesOf(d, B, F, C) <=>
        \/ \E b \in B : BlockTold(d, b) /\ e = <<"block", b>>
        \/ \E b \in B : MakeTold(d, b) /\ e = <<"make", MakeOf(d, b).value>>
        \/ \E f \in F : NoOperator(d, f) /\ e = <<"function", f>>
        \/ \E c \in C : ClassTold(d, c) /\ e = <<"class", c>>
  BY DEF EntriesOf
<1>2. <<>> \notin EntriesOf(d, B, F, C)
  BY <1>1, Pairs
<1>3. ASSUME NEW x PROVE <<"block", x>> \in EntriesOf(d, B, F, C) <=> x \in B /\ BlockTold(d, x)
  BY <1>1, Pairs
<1>5. ASSUME NEW x PROVE <<"function", x>> \in EntriesOf(d, B, F, C) <=> x \in F /\ NoOperator(d, x)
  BY <1>1, Pairs
<1>6. ASSUME NEW x PROVE <<"class", x>> \in EntriesOf(d, B, F, C) <=> x \in C /\ ClassTold(d, x)
  BY <1>1, Pairs
<1> QED
  BY <1>2, <1>3, <1>5, <1>6

LEMMA MakeWritten ==
  ASSUME NEW d, NEW B, NEW F, NEW C, NEW x
  PROVE  <<"make", x>> \in EntriesOf(d, B, F, C) <=> \E b \in B : MakeTold(d, b) /\ x = MakeOf(d, b).value
<1> DEFINE one == <<"make", x>>
<1>1. one \in EntriesOf(d, B, F, C) <=> \E b \in B : MakeTold(d, b) /\ one = <<"make", MakeOf(d, b).value>>
  <2>1. ASSUME NEW y PROVE one # <<"block", y>> /\ one # <<"function", y>> /\ one # <<"class", y>>
    BY Pairs
  <2> HIDE DEF one
  <2> QED
    BY <2>1 DEF EntriesOf
<1>2. \A y : one = <<"make", y>> <=> x = y
  BY Pairs
<1> HIDE DEF one
<1>3. one \in EntriesOf(d, B, F, C) <=> \E b \in B : MakeTold(d, b) /\ x = MakeOf(d, b).value
  BY <1>1, <1>2
<1> QED
  BY <1>3 DEF one

\* More is written, once.
LEMMA SoFarMore ==
  ASSUME NEW d, NEW ents, NEW makes, NEW B, NEW F, NEW C, SoFar(d, ents, makes, B, F, C),
         NEW value, IsSeq(value), Apart(value), NEW B1, NEW F1, NEW C1,
         \A e \in Range(value) : e # <<>> /\ e \notin EntriesOf(d, B, F, C),
         EntriesOf(d, B1, F1, C1) = EntriesOf(d, B, F, C) \cup Range(value),
         NEW makes1, makes1 = MakeNames(d, B1), \A b \in B1 : InOrder(d, b)
  PROVE  SoFar(d, ents \o value, makes1, B1, F1, C1)
<1> DEFINE more == ents \o value
<1>1. IsSeq(ents) /\ Apart(ents) /\ Range(ents) = EntriesOf(d, B, F, C)
  BY DEF SoFar
<1>2. Range(ents) \cap Range(value) = {} /\ <<>> \notin Range(ents) \cup Range(value)
  BY <1>1, EntriesHave
<1>3. more = ents \o value
  OBVIOUS
<1> HIDE DEF more
<1>4. IsSeq(more) /\ Apart(more) /\ Range(more) = Range(ents) \cup Range(value)
  BY <1>1, <1>2, <1>3, ApartConcat
<1>5. SoFar(d, more, makes1, B1, F1, C1)
  BY <1>1, <1>4 DEF SoFar
<1> QED
  BY <1>3, <1>5

\* What is left after the first of a list.
Ahead(heap, seq) == Range(Whats(heap, seq))

LEMMA LessAhead ==
  ASSUME NEW heap, HeapOK(heap), NEW seq, IsList(heap, seq), seq # <<>>, Apart(Whats(heap, seq)),
         NEW first, first = heap.objs[Head(seq)].what, NEW after, Kept(heap, after)
  PROVE  /\ IsObject(heap, Head(seq)) /\ first \in Ahead(heap, seq)
         /\ Apart(Whats(after, Tail(seq))) /\ Ahead(after, Tail(seq)) = Ahead(heap, seq) \ {first}
<1> DEFINE n == Len(seq)
           rest == Tail(seq)
           all == Whats(heap, seq)
           less == Whats(heap, rest)
<1>1. n \in Nat /\ n # 0 /\ DOMAIN seq = 1 .. n /\ Head(seq) = seq[1]
  <2>1. seq \in Seq(1 .. Len(heap.objs))
    BY DEF IsList
  <2> QED
    BY <2>1
<1>2. Len(rest) = n - 1 /\ DOMAIN rest = 1 .. n - 1 /\ \A i \in 1 .. n - 1 : rest[i] = seq[i + 1]
  <2>1. seq \in Seq(1 .. Len(heap.objs))
    BY DEF IsList
  <2> QED
    BY <2>1, <1>1
<1>3. IsList(heap, rest) /\ IsObject(heap, Head(seq))
  BY ListTail
<1>4. Whats(after, rest) = less
  <2>1. rest \in Seq(0 .. Len(heap.objs))
    BY <1>3 DEF IsList
  <2> HIDE DEF rest
  <2> QED
    BY <2>1, WhatsStay
<1> HIDE DEF n, rest
<1>5. first = all[1] /\ 1 \in DOMAIN all
  BY <1>1, <1>3 DEF Whats, What, IsObject
<1>6. DOMAIN all = 1 .. n /\ DOMAIN less = 1 .. n - 1 /\ \A i \in 1 .. n - 1 : less[i] = all[i + 1] /\ i + 1 \in 1 .. n
  BY <1>1, <1>2 DEF Whats
<1>7. Apart(all)
  OBVIOUS
<1> HIDE DEF all, less
<1>8. Apart(less)
  <2> SUFFICES ASSUME NEW i \in 1 .. n - 1, NEW j \in 1 .. n - 1, i # j PROVE less[i] # less[j]
    BY <1>6 DEF Apart
  <2>1. i + 1 # j + 1 /\ i + 1 \in DOMAIN all /\ j + 1 \in DOMAIN all
    BY <1>1, <1>6
  <2> QED
    BY <1>6, <1>7, <2>1 DEF Apart
<1>9. Range(less) = Range(all) \ {first}
  <2>1. ASSUME NEW x \in Range(less) PROVE x \in Range(all) /\ x # first
    <3>1. PICK i \in 1 .. n - 1 : x = all[i + 1]
      BY <1>6, <2>1 DEF Range
    <3>2. i + 1 \in DOMAIN all /\ i + 1 # 1
      BY <1>1, <1>6
    <3> QED
      BY <1>5, <1>7, <3>1, <3>2 DEF Apart, Range
  <2>2. ASSUME NEW x \in Range(all), x # first PROVE x \in Range(less)
    <3>1. PICK i \in 1 .. n : x = all[i]
      BY <1>6, <2>2 DEF Range
    <3>2. i # 1
      BY <1>5, <2>2, <3>1
    <3>3. i - 1 \in 1 .. n - 1 /\ (i - 1) + 1 = i
      BY <1>1, <3>2
    <3>4. less[i - 1] = x
      BY <1>6, <3>1, <3>3
    <3> QED
      BY <1>6, <3>3, <3>4 DEF Range
  <2> QED
    BY <2>1, <2>2
<1>10. first \in Range(all)
  BY <1>5 DEF Range
<1> QED
  BY <1>3, <1>4, <1>8, <1>9, <1>10 DEF Ahead, all, less, rest

\* An index that can be read has compounds of known kinds only.
KindsSo(d, start, seq, i, told) == told.raised = Nothing => \A j \in 1 .. i : seq[j].kind \in DOMAIN Classes

KindsLoop == INSTANCE FoldSteps WITH Turn <- CompoundRead, Holds <- KindsSo

LEMMA KindsKnown ==
  ASSUME dir \in Directories, IndexRead(dir).raised = Nothing, NEW mem \in Range(dir.index)
  PROVE  mem.kind \in DOMAIN Classes
<1> DEFINE none == <<>>
           start == Answer(none)
           index == dir.index
           n == Len(index)
<1>1. n \in Nat /\ DOMAIN index = 1 .. n
  BY DirectoriesAssumption, LenProperties
<1>2. IndexRead(dir) = KindsLoop!Loop(dir, start, index)
  BY DEF IndexRead, KindsLoop!Loop, FoldLeft, MapThenFoldSet, Max, KindsLoop!Last
<1>3. ASSUME NEW i \in 1 .. n, NEW told, KindsSo(dir, start, index, i - 1, told)
      PROVE  KindsSo(dir, start, index, i, CompoundRead(dir, told, index[i]))
  <2> DEFINE mine == index[i]
             next == CompoundRead(dir, told, mine)
  <2>1. told.raised # Nothing => next.raised # Nothing
    BY DEF CompoundRead, AndThen
  <2>2. mine.kind \notin DOMAIN Classes /\ told.raised = Nothing => next.raised # Nothing
    BY DEF CompoundRead, AndThen, Refuse, Nothing
  <2> HIDE DEF next, mine
  <2>3. SUFFICES ASSUME next.raised = Nothing PROVE \A j \in 1 .. i : index[j].kind \in DOMAIN Classes
    BY DEF KindsSo, next, mine
  <2>4. \A j \in 1 .. i - 1 : index[j].kind \in DOMAIN Classes
    BY <1>3, <2>1, <2>3 DEF KindsSo
  <2>5. index[i].kind \in DOMAIN Classes
    BY <2>1, <2>2, <2>3 DEF mine
  <2>6. \A j \in 1 .. i : j = i \/ j \in 1 .. i - 1
    BY <1>1
  <2> HIDE DEF index
  <2> QED
    BY <2>4, <2>5, <2>6
<1>4. KindsSo(dir, start, index, 0, start)
  BY DEF KindsSo
<1>5. KindsSo(dir, start, index, n, KindsLoop!Loop(dir, start, index))
  <2> HIDE DEF n, index, start
  <2> QED
    BY <1>1, <1>3, <1>4, LeastNumber, KindsLoop!LoopKeeps
<1>6. \A j \in 1 .. n : index[j].kind \in DOMAIN Classes
  BY <1>2, <1>5 DEF KindsSo
<1>7. PICK j \in DOMAIN index : mem = index[j]
  BY DEF Range
<1> QED
  BY <1>1, <1>6, <1>7

\* A class of the index has a name of its own.
LEMMA ClassIs ==
  ASSUME dir \in Directories, IndexRead(dir).raised = Nothing, NEW c \in Inside(dir, "DoxyClass", Index)
  PROVE  \E j \in DOMAIN dir.index :
            c = <<dir.index[j].refid>> /\ dir.index[j].kind = "class" /\ Called(dir, c) = dir.index[j].name
<1> DEFINE mems == MembersOf(dir, Index).value
           len == Len(dir.index)
<1>1. len \in Nat /\ DOMAIN dir.index = 1 .. len
  BY DirectoriesAssumption, LenProperties
<1>2. IndexHas(mems, len)
  BY IndexReadable, IndexReadHas
<1>3. c \in Range(mems) /\ KindOf(dir, c) = "DoxyClass"
  BY DEF Inside, Belongs
<1> HIDE DEF mems, len
<1>4. PICK j \in DOMAIN dir.index : c = <<dir.index[j].refid>>
  BY <1>1, <1>2, <1>3 DEF IndexHas, OfFiles
<1> DEFINE mem == dir.index[j]
<1>5. mem \in Range(dir.index)
  BY DEF Range
<1> HIDE DEF mem
<1>6. Description(dir, c) = mem /\ Classes[mem.kind] = "DoxyClass" /\ mem.kind \in DOMAIN Classes
  BY <1>3, <1>4, <1>5, CompoundFound, KindsKnown DEF mem
<1>7. mem.kind = "class"
  BY <1>6 DEF Classes
<1> QED
  BY <1>4, <1>6, <1>7 DEF mem, Called

LEMMA ClassesDiffer ==
  ASSUME dir \in Directories, IndexRead(dir).raised = Nothing,
         NEW a \in Inside(dir, "DoxyClass", Index), NEW b \in Inside(dir, "DoxyClass", Index),
         make_name(Called(dir, a)) = make_name(Called(dir, b))
  PROVE  a = b
<1>1. PICK i \in DOMAIN dir.index :
         a = <<dir.index[i].refid>> /\ dir.index[i].kind = "class" /\ Called(dir, a) = dir.index[i].name
  BY ClassIs
<1>2. PICK j \in DOMAIN dir.index :
         b = <<dir.index[j].refid>> /\ dir.index[j].kind = "class" /\ Called(dir, b) = dir.index[j].name
  BY ClassIs
<1>3. make_name(dir.index[i].name) = make_name(dir.index[j].name)
  BY <1>1, <1>2
<1>4. i = j
  BY <1>1, <1>2, <1>3, ConsistentAssumption DEF Consistent
<1> QED
  BY <1>1, <1>2, <1>4

\* When the blocks can be told, so can the functions and the classes.
BlocksTold(d) == CategoryOf(d, Index, "Block").raised = Nothing

LEMMA FactsOfRun ==
  ASSUME dir \in Directories, BlocksTold(dir)
  PROVE  /\ IndexRead(dir).raised = Nothing
         /\ Of(dir, "Block") = Inside(dir, "Block", Index)
         /\ Of(dir, "DoxyFunction") = Inside(dir, "DoxyFunction", Index)
         /\ Of(dir, "DoxyClass") = Inside(dir, "DoxyClass", Index)
         /\ \A c \in Of(dir, "DoxyClass") : ErrorOf(dir, c).raised = Nothing
         /\ Of(dir, "Block") \subseteq Of(dir, "DoxyClass")
<1> DEFINE blocked == CategoryOf(dir, Index, "Block")
           functions == CategoryOf(dir, Index, "DoxyFunction")
           classes == CategoryOf(dir, Index, "DoxyClass")
<1>1. /\ IndexRead(dir).raised = Nothing
      /\ ListedSo("Block", blocked.value)
      /\ \A c \in Klasses : ErrorOf(dir, c).raised = Nothing
  BY BlocksListed DEF BlocksTold
<1>2. ListedSo("DoxyFunction", functions.value) /\ ListedSo("DoxyClass", classes.value)
  BY <1>1, ClassesListed
<1>3. Of(dir, "Block") = Inside(dir, "Block", Index)
  BY <1>1 DEF Of, ListedSo
<1>4. Of(dir, "DoxyFunction") = Inside(dir, "DoxyFunction", Index)
  BY <1>2 DEF Of, ListedSo
<1>5. Of(dir, "DoxyClass") = Inside(dir, "DoxyClass", Index) /\ Klasses = Of(dir, "DoxyClass")
  BY <1>2 DEF Of, ListedSo, Klasses
<1>6. \A b \in Of(dir, "Block") : b \in Klasses
  BY <1>1, <1>3, BlockIs
<1> QED
  BY <1>1, <1>3, <1>4, <1>5, <1>6

\* The function that makes a block is the only one of its name, and makes no other.
LEMMA MakeIs ==
  ASSUME dir \in Directories, BlocksTold(dir), NEW b \in Of(dir, "Block"), MakeOf(dir, b).raised = Nothing,
         NEW make, make = MakeOf(dir, b).value
  PROVE  /\ make \in Of(dir, "DoxyFunction") /\ Called(dir, make) = make_name(Called(dir, b))
         /\ \A f \in Of(dir, "DoxyFunction") : Called(dir, f) = make_name(Called(dir, b)) => f = make
<1>1. /\ IndexRead(dir).raised = Nothing /\ b \in Inside(dir, "Block", Index)
      /\ Of(dir, "DoxyFunction") = Inside(dir, "DoxyFunction", Index)
  BY FactsOfRun
<1>2. NextSure(dir, "DoxyFunction", Index, make_name(NameOf(b)), MakeOf(dir, b))
  BY <1>1, BlockIsSure
<1> DEFINE path == make_name(Called(dir, b))
<1>3. path = make_name(NameOf(b))
  BY DEF Called, NameOf
<1> HIDE DEF path
<1>4. /\ IsNamed(dir, "DoxyFunction", Index, path, make)
      /\ \A f : IsNamed(dir, "DoxyFunction", Index, path, f) => f = make
  BY <1>2, <1>3 DEF NextSure
<1> QED
  BY <1>1, <1>4 DEF IsNamed, path, Called

LEMMA MakesDiffer ==
  ASSUME dir \in Directories, BlocksTold(dir), NEW a \in Of(dir, "Block"), NEW b \in Of(dir, "Block"),
         MakeOf(dir, a).raised = Nothing, MakeOf(dir, b).raised = Nothing, MakeOf(dir, a).value = MakeOf(dir, b).value
  PROVE  a = b
<1>1. make_name(Called(dir, a)) = make_name(Called(dir, b))
  BY MakeIs
<1>2. /\ IndexRead(dir).raised = Nothing
      /\ a \in Inside(dir, "DoxyClass", Index) /\ b \in Inside(dir, "DoxyClass", Index)
  BY FactsOfRun
<1> QED
  BY <1>1, <1>2, ClassesDiffer

(***************************************************************************)
(* How far the script has got, by what is written and what is left.        *)
(***************************************************************************)
\* what the index, its classes and its blocks must be for a file to be written
Cause(d) ==
  \/ IndexRead(d).raised # Nothing
  \/ \E c \in Of(d, "DoxyClass") : ErrorOf(d, c).raised # Nothing
  \/ \E b \in Of(d, "Block") : ~InOrder(d, b)

Running(d, heap, list, bl) ==
  /\ BlocksTold(d)
  /\ heap.broken = {} /\ IndexThere(d, heap)
  /\ Apart(Whats(heap, list))
  /\ Ahead(heap, bl) = Of(d, "Block")

Behind(heap, all, list) == all \ Ahead(heap, list)

At(d, heap, s, list, bl, makes, ents) ==
  LET B == Of(d, "Block")
      F == OtherFunctions(d)
      C == OtherClasses(d)
  IN  /\ s = "client" => makes = {} /\ ents = <<>>
      /\ s \in {"blocks", "functions", "classes"} => Running(d, heap, list, bl)
      /\ s = "blocks" => Ahead(heap, list) \subseteq B /\ SoFar(d, ents, makes, Behind(heap, B, list), {}, {})
      /\ s = "functions" => Ahead(heap, list) \subseteq F /\ SoFar(d, ents, makes, B, Behind(heap, F, list), {})
      /\ s = "classes" => Ahead(heap, list) \subseteq C /\ SoFar(d, ents, makes, B, F, Behind(heap, C, list))
      /\ s = "written" => BlocksTold(d) /\ SoFar(d, ents, makes, B, F, C)
      /\ s = "stopped" => Cause(d)

\* As much is true of the heap after an operation, with one less ahead.
LEMMA OneLess ==
  ASSUME NEW d, NEW heap, Whole(d, heap), NEW list, IsList(heap, list), list # <<>>, NEW bl, IsList(heap, bl),
         Running(d, heap, list, bl), NEW after, Whole(d, after), Kept(heap, after),
         NEW all, Ahead(heap, list) \subseteq all, NEW first, first = heap.objs[Head(list)].what
  PROVE  /\ IsObject(heap, Head(list)) /\ Running(d, after, Tail(list), bl)
         /\ first \in all /\ first \notin Behind(heap, all, list)
         /\ Ahead(after, Tail(list)) \subseteq all
         /\ Behind(after, all, Tail(list)) = Behind(heap, all, list) \cup {first}
<1>1. HeapOK(heap) /\ Apart(Whats(heap, list)) /\ after.broken = {}
  BY DEF Whole, Running
<1>2. /\ IsObject(heap, Head(list)) /\ first \in Ahead(heap, list)
      /\ Apart(Whats(after, Tail(list))) /\ Ahead(after, Tail(list)) = Ahead(heap, list) \ {first}
  BY <1>1, LessAhead
<1>3. IndexThere(d, after)
  BY <1>1, IndexThereStays DEF Running
<1>4. Ahead(after, bl) = Ahead(heap, bl)
  <2>1. bl \in Seq(0 .. Len(heap.objs))
    BY RangeWider DEF IsList
  <2> QED
    BY <1>1, <2>1, WhatsStay DEF Ahead
<1>5. Running(d, after, Tail(list), bl)
  BY <1>1, <1>2, <1>3, <1>4 DEF Running
<1>6. first \in all /\ first \notin Behind(heap, all, list) /\ Ahead(after, Tail(list)) \subseteq all
  BY <1>2 DEF Behind
<1>7. Behind(after, all, Tail(list)) = Behind(heap, all, list) \cup {first}
  BY <1>2, <1>6 DEF Behind
<1> QED
  BY <1>2, <1>5, <1>6, <1>7

LEMMA BlockStep ==
  ASSUME dir \in Directories, NEW heap, Whole(dir, heap), NEW list, IsList(heap, list), list # <<>>,
         NEW bl, IsList(heap, bl), NEW makes, NEW ents, At(dir, heap, "blocks", list, bl, makes, ents),
         NEW done, done = make_block_entry(heap, Head(list)),
         NEW more, more = makes \cup {make_name(heap.objs[Head(list)].name)}
  PROVE  /\ done.raised # "ParsingError"
         /\ done.raised # Nothing => Cause(dir)
         /\ done.raised = Nothing => At(dir, done.heap, "blocks", Tail(list), bl, more, ents \o done.value)
<1> DEFINE all == Of(dir, "Block")
           B == Behind(heap, all, list)
           o == Head(list)
           b == heap.objs[o].what
           make == MakeOf(dir, b).value
           one == <<"make", make>>
           two == <<"block", b>>
           lines == Line("block", b, BlockTold(dir, b))
           others == Line("make", make, MakeTold(dir, b))
           none == {}
<1>1. /\ Running(dir, heap, list, bl) /\ Ahead(heap, list) \subseteq all /\ SoFar(dir, ents, makes, B, none, none)
      /\ BlocksTold(dir)
  BY DEF At, Running
<1>2. IsObject(heap, o) /\ b \in all /\ b \notin B
  <2>1. Kept(heap, heap)
    BY DEF Whole, Kept, Extends, SameObject
  <2> HIDE DEF all
  <2> QED
    BY <1>1, <2>1, OneLess
<1>3. IndexRead(dir).raised = Nothing /\ b \in Inside(dir, "Block", Index)
  BY <1>1, <1>2, FactsOfRun
<1>4. B \subseteq all
  BY DEF Behind
<1>5. done = make_block_entry(heap, o) /\ Outcome(heap, done)
  BY <1>2, make_block_entryOutcome DEF Whole
<1>6. more = makes \cup {make_name(Called(dir, b))}
  BY <1>2, WholeNamed DEF Called
<1> HIDE DEF all, B, b, o
<1>7. /\ done.raised \in Sure
      /\ done.raised = Nothing <=> Documented(b)
      /\ done.raised = Nothing => Whole(dir, done.heap) /\ done.value = BlockEntries(dir, b)
  BY <1>2, <1>3, <1>5, make_block_entrySays DEF b
<1>8. Documented(b) <=> InOrder(dir, b)
  BY DEF Documented, MakeOfBlock, HeaderOfBlock, InOrder, MakeOf, HeaderOf, CreatorOf, NameOf
<1>9. CASE done.raised # Nothing
  BY <1>2, <1>7, <1>8, <1>9 DEF Cause, all, Sure, Nothing
<1>10. CASE done.raised = Nothing
  <2> DEFINE after == done.heap
             B1 == B \cup {b}
             value == done.value
  <2>1. InOrder(dir, b) /\ MakeOf(dir, b).raised = Nothing /\ Whole(dir, after) /\ Kept(heap, after)
    BY <1>5, <1>7, <1>8, <1>10, OutcomeHeap DEF InOrder
  <2>2. one # two
    BY Pairs
  <2>3. value = lines \o others
    BY <1>7, <1>10 DEF BlockEntries
  <2>16. /\ IsSeq(lines) /\ Apart(lines) /\ Range(lines) = IF BlockTold(dir, b) THEN {two} ELSE {}
         /\ IsSeq(others) /\ Apart(others) /\ Range(others) = IF MakeTold(dir, b) THEN {one} ELSE {}
    BY LineIs
  <2> HIDE DEF lines, others
  <2>8. one # <<>> /\ two # <<>>
    BY Pairs
  <2> HIDE DEF one, two, make, value
  <2>4. /\ IsSeq(value) /\ Apart(value) /\ Range(value) = Range(lines) \cup Range(others)
        /\ Range(value) \subseteq {one, two}
    <3>1. Range(lines) \cap Range(others) = {} /\ <<>> \notin Range(lines) \cup Range(others)
      BY <2>2, <2>8, <2>16
    <3>2. IsSeq(value) /\ Apart(value) /\ Range(value) = Range(lines) \cup Range(others)
      BY <2>3, <2>16, <3>1, ApartConcat
    <3> QED
      BY <2>16, <3>2
  <2>5. \A c \in B : InOrder(dir, c)
    BY <1>1 DEF SoFar
  <2>6. one \notin EntriesOf(dir, B, none, none)
    <3> HIDE DEF none
    <3>4. one \in EntriesOf(dir, B, none, none) => \E c \in B : MakeTold(dir, c) /\ make = MakeOf(dir, c).value
      BY MakeWritten DEF one
    <3>1. SUFFICES ASSUME NEW c \in B, make = MakeOf(dir, c).value PROVE FALSE
      BY <3>4
    <3>2. c \in all /\ MakeOf(dir, c).raised = Nothing
      BY <1>4, <2>5 DEF InOrder
    <3>3. c = b
      BY <1>1, <1>2, <2>1, <3>1, <3>2, MakesDiffer DEF all, make
    <3> QED
      BY <1>2, <3>3
  <2>7. two \notin EntriesOf(dir, B, none, none)
    BY <1>2, EntriesHave DEF two
  <2>9. EntriesOf(dir, B1, none, none) = EntriesOf(dir, B, none, none) \cup Range(value)
    <3> DEFINE Blocked(S) == {<<"block", x>> : x \in {y \in S : BlockTold(dir, y)}}
               Made(S) == {<<"make", MakeOf(dir, x).value>> : x \in {y \in S : MakeTold(dir, y)}}
    <3>1. Blocked(B1) = Blocked(B) \cup Range(lines)
      BY <2>16 DEF two
    <3>2. Made(B1) = Made(B) \cup Range(others)
      BY <2>16 DEF one, make
    <3> QED
      BY <2>4, <3>1, <3>2 DEF EntriesOf
  <2>10. more = MakeNames(dir, B1)
    BY <1>1, <1>6 DEF SoFar, MakeNames
  <2>11. \A c \in B1 : InOrder(dir, c)
    BY <2>1, <2>5
  <2> HIDE DEF B1, none
  <2>15. /\ EntriesOf(dir, B1, none, none) = EntriesOf(dir, B, none, none) \cup Range(value)
         /\ \A e \in Range(value) : e # <<>> /\ e \notin EntriesOf(dir, B, none, none)
    BY <2>4, <2>6, <2>7, <2>8, <2>9
  <2>12. SoFar(dir, ents \o value, more, B1, none, none)
    BY <1>1, <2>4, <2>10, <2>11, <2>15, SoFarMore
  <2>13. /\ Running(dir, after, Tail(list), bl) /\ Ahead(after, Tail(list)) \subseteq all
         /\ Behind(after, all, Tail(list)) = B1
    BY <1>1, <2>1, OneLess DEF B, B1, b, o
  <2> HIDE DEF after
  <2>14. At(dir, after, "blocks", Tail(list), bl, more, ents \o value)
    BY <2>12, <2>13 DEF At, all, none
  <2> QED
    BY <1>7, <1>10, <2>14 DEF after, value, Nothing
<1> QED
  BY <1>9, <1>10

LEMMA FunctionStep ==
  ASSUME dir \in Directories, NEW heap, Whole(dir, heap), NEW list, IsList(heap, list), list # <<>>,
         NEW bl, IsList(heap, bl), NEW makes, NEW ents, At(dir, heap, "functions", list, bl, makes, ents),
         NEW done, done = make_func_entry(heap, Head(list))
  PROVE  /\ done.raised = Nothing
         /\ At(dir, done.heap, "functions", Tail(list), bl, makes, ents \o done.value)
<1> DEFINE all == OtherFunctions(dir)
           B == Of(dir, "Block")
           F == Behind(heap, all, list)
           o == Head(list)
           f == heap.objs[o].what
           one == <<"function", f>>
           none == {}
           after == done.heap
           value == done.value
           F1 == F \cup {f}
<1>1. /\ Running(dir, heap, list, bl) /\ Ahead(heap, list) \subseteq all /\ SoFar(dir, ents, makes, B, F, none)
      /\ BlocksTold(dir)
  BY DEF At, Running
<1>2. IsObject(heap, o) /\ f \in all /\ f \notin F
  <2>1. Kept(heap, heap)
    BY DEF Whole, Kept, Extends, SameObject
  <2> HIDE DEF all
  <2> QED
    BY <1>1, <2>1, OneLess
<1>3. KindOf(dir, f) = "DoxyFunction"
  <2>1. f \in Of(dir, "DoxyFunction")
    BY <1>2 DEF OtherFunctions
  <2> HIDE DEF f
  <2> QED
    BY <1>1, <2>1, FactsOfRun DEF Inside, Belongs
<1>4. done = make_func_entry(heap, o) /\ Outcome(heap, done)
  BY <1>2, make_func_entryOutcome DEF Whole
<1> HIDE DEF all, B, F, f, o
<1>5. done.raised = Nothing /\ Whole(dir, after) /\ value = Line("function", f, NoOperator(dir, f))
  BY <1>2, <1>3, <1>4, make_func_entrySays DEF f
<1>6. Kept(heap, after)
  BY <1>4, OutcomeHeap
<1>7. IsSeq(value) /\ Apart(value) /\ Range(value) = IF NoOperator(dir, f) THEN {one} ELSE {}
  <2> HIDE DEF value
  <2> QED
    BY <1>5, LineIs
<1> HIDE DEF one, value, after
<1>8. one \notin EntriesOf(dir, B, F, none) /\ one # <<>>
  BY <1>2, EntriesHave, Pairs DEF one
<1>9. EntriesOf(dir, B, F1, none) = EntriesOf(dir, B, F, none) \cup Range(value)
  <2> DEFINE Lines(S) == {<<"function", x>> : x \in {y \in S : NoOperator(dir, y)}}
  <2>1. Lines(F1) = Lines(F) \cup Range(value)
    BY <1>7 DEF one
  <2> QED
    BY <2>1 DEF EntriesOf
<1>10. makes = MakeNames(dir, B) /\ \A c \in B : InOrder(dir, c)
  BY <1>1 DEF SoFar
<1> HIDE DEF F1, none
<1>11. SoFar(dir, ents \o value, makes, B, F1, none)
  BY <1>1, <1>7, <1>8, <1>9, <1>10, SoFarMore
<1>12. /\ Running(dir, after, Tail(list), bl) /\ Ahead(after, Tail(list)) \subseteq all
       /\ Behind(after, all, Tail(list)) = F1
  BY <1>1, <1>5, <1>6, OneLess DEF F, F1, f, o
<1>13. At(dir, after, "functions", Tail(list), bl, makes, ents \o value)
  BY <1>11, <1>12 DEF At, all, B, none
<1> QED
  BY <1>5, <1>13 DEF after, value

LEMMA ClassStep ==
  ASSUME dir \in Directories, NEW heap, Whole(dir, heap), NEW list, IsList(heap, list), list # <<>>,
         NEW bl, IsList(heap, bl), NEW makes, NEW ents, At(dir, heap, "classes", list, bl, makes, ents),
         NEW done, done = make_class_entry(heap, Head(list))
  PROVE  /\ done.raised \in {Nothing, "ParsingError"}
         /\ At(dir, done.heap, "classes", Tail(list), bl, makes, ents \o done.value)
<1> DEFINE all == OtherClasses(dir)
           B == Of(dir, "Block")
           F == OtherFunctions(dir)
           C == Behind(heap, all, list)
           o == Head(list)
           c == heap.objs[o].what
           one == <<"class", c>>
           after == done.heap
           value == done.value
           C1 == C \cup {c}
<1>1. /\ Running(dir, heap, list, bl) /\ Ahead(heap, list) \subseteq all /\ SoFar(dir, ents, makes, B, F, C)
      /\ BlocksTold(dir)
  BY DEF At, Running
<1>2. IsObject(heap, o) /\ c \in all /\ c \notin C
  <2>1. Kept(heap, heap)
    BY DEF Whole, Kept, Extends, SameObject
  <2> HIDE DEF all
  <2> QED
    BY <1>1, <2>1, OneLess
<1>3. ErrorOf(dir, c).raised = Nothing
  <2>1. c \in Of(dir, "DoxyClass")
    BY <1>2 DEF OtherClasses
  <2> HIDE DEF c
  <2> QED
    BY <1>1, <2>1, FactsOfRun
<1>4. done = make_class_entry(heap, o) /\ Outcome(heap, done)
  BY <1>2, make_class_entryOutcome DEF Whole
<1> HIDE DEF all, B, F, C, c, o
<1>5. done.raised \in {Nothing, "ParsingError"} /\ Whole(dir, after) /\ value = ClassEntryOf(c)
  BY <1>2, <1>3, <1>4, make_class_entrySays DEF c
<1>6. Kept(heap, after)
  BY <1>4, OutcomeHeap
<1>7. IsSeq(value) /\ Apart(value) /\ Range(value) = IF ClassTold(dir, c) THEN {one} ELSE {}
  <2> HIDE DEF value
  <2> QED
    BY <1>5, LineIs DEF ClassEntryOf
<1> HIDE DEF one, value, after
<1>8. one \notin EntriesOf(dir, B, F, C) /\ one # <<>>
  BY <1>2, EntriesHave, Pairs DEF one
<1>9. EntriesOf(dir, B, F, C1) = EntriesOf(dir, B, F, C) \cup Range(value)
  <2> DEFINE Lines(S) == {<<"class", x>> : x \in {y \in S : ClassTold(dir, y)}}
  <2>1. Lines(C1) = Lines(C) \cup Range(value)
    BY <1>7 DEF one
  <2> QED
    BY <2>1 DEF EntriesOf
<1>10. makes = MakeNames(dir, B) /\ \A b \in B : InOrder(dir, b)
  BY <1>1 DEF SoFar
<1>11. \A e \in Range(value) : e = one
  BY <1>7
<1> HIDE DEF C1
<1>12. SoFar(dir, ents \o value, makes, B, F, C1)
  BY <1>1, <1>7, <1>8, <1>9, <1>10, <1>11, SoFarMore
<1>13. /\ Running(dir, after, Tail(list), bl) /\ Ahead(after, Tail(list)) \subseteq all
       /\ Behind(after, all, Tail(list)) = C1
  BY <1>1, <1>5, <1>6, OneLess DEF C, C1, c, o
<1>14. At(dir, after, "classes", Tail(list), bl, makes, ents \o value)
  BY <1>12, <1>13 DEF At, all, B, F
<1> QED
  BY <1>5, <1>14 DEF after, value

LEMMA StartSoFar == ASSUME NEW d PROVE SoFar(d, <<>>, {}, {}, {}, {})
<1> DEFINE ents == <<>>
           none == {}
<1>1. EntriesOf(d, none, none, none) = {}
  BY DEF EntriesOf
<1>2. MakeNames(d, none) = {}
  BY DEF MakeNames
<1>3. IsSeq(ents) /\ Apart(ents) /\ Range(ents) = {}
  BY NoneAreApart
<1>4. \A b \in none : InOrder(d, b)
  OBVIOUS
<1> HIDE DEF ents
<1>5. SoFar(d, ents, none, none, none, none)
  BY <1>1, <1>2, <1>3, <1>4 DEF SoFar
<1> QED
  BY <1>5 DEF ents

LEMMA StartStep ==
  ASSUME dir \in Directories, NEW heap, Whole(dir, heap), NEW done, done = in_category(heap, 1, "Block")
  PROVE  /\ done.raised # Nothing => Cause(dir)
         /\ done.raised = Nothing => At(dir, done.heap, "blocks", done.value, done.value, {}, <<>>)
<1> DEFINE told == CategoryOf(dir, Index, "Block")
           list == done.value
           after == done.heap
           listed == Whats(after, list)
           ents == <<>>
           none == {}
<1>1. IsObject(heap, 1) /\ heap.objs[1].what = Index
  BY WholeIndex
<1>2. CategorySo(dir, told, done)
  BY <1>1, in_categorySays
<1>3. CASE done.raised # Nothing
  <2>1. told.raised # Nothing
    BY <1>2, <1>3 DEF CategorySo
  <2>2. IndexRead(dir).raised # Nothing \/ \E c \in Klasses : ErrorOf(dir, c).raised # Nothing
    BY <2>1, BlocksRefused
  <2> QED
    BY <1>3, <2>2 DEF Cause, Of, Klasses
<1>4. CASE done.raised = Nothing
  <2>1. told.raised = Nothing /\ told = Answer(listed) /\ Whole(dir, after)
    BY <1>2, <1>4 DEF CategorySo, Fine
  <2>2. told.value = listed
    BY <2>1 DEF Answer
  <2>3. ListedSo("Block", listed)
    BY <2>1, <2>2, BlocksListed
  <2>4. IndexThere(dir, after)
    BY <1>4, CategoryMakes
  <2>5. BlocksTold(dir) /\ after.broken = {} /\ Of(dir, "Block") = Range(listed)
    BY <2>1, <2>2 DEF BlocksTold, Of, Whole
  <2> HIDE DEF list, after, told
  <2>6. Running(dir, after, list, list)
    BY <2>3, <2>4, <2>5 DEF Running, ListedSo, Ahead
  <2>7. Ahead(after, list) = Of(dir, "Block")
    BY <2>5 DEF Ahead
  <2>8. Behind(after, Of(dir, "Block"), list) = none
    BY <2>7 DEF Behind
  <2>9. SoFar(dir, ents, none, none, none, none)
    BY StartSoFar
  <2> HIDE DEF ents
  <2>10. At(dir, after, "blocks", list, list, none, ents)
    BY <2>6, <2>7, <2>8, <2>9 DEF At
  <2> QED
    BY <1>4, <2>10 DEF after, list, ents
<1> QED
  BY <1>3, <1>4

\* What a later loop goes through.
NotNamed(d, cat, names) == {what \in Of(d, cat) : Called(d, what) \notin names}

LEMMA LeftAhead ==
  ASSUME dir \in Directories, Whole(dir, Heap), BlocksTold(dir), IndexThere(dir, Heap),
         NEW cat, cat \notin {"None", "Block"}, NEW done, done = in_category(Heap, 1, cat),
         NEW names, NEW left, left = Unwritten(done.value, names)
  PROVE  /\ Whole(dir, done.heap) /\ Kept(Heap, done.heap)
         /\ Apart(Whats(done.heap, left))
         /\ Ahead(done.heap, left) = NotNamed(dir, cat, names)
<1> DEFINE found == done.value
           listed == Whats(Heap, found)
           n == Len(found)
           start == <<>>
<1>1. IndexRead(dir).raised = Nothing /\ HeapOK(Heap)
  BY FactsOfRun DEF Whole
<1>2. Outcome(Heap, done) /\ Whole(dir, done.heap) /\ IsList(Heap, found) /\ ListedSo(cat, listed)
  BY <1>1, FoundThere
<1>3. Kept(Heap, done.heap)
  BY <1>2, OutcomeHeap
<1>4. ListedSo(cat, CategoryOf(dir, Index, cat).value)
  BY <1>1, ClassesListed
<1>5. Range(listed) = Of(dir, cat) /\ Apart(listed)
  BY <1>2, <1>4 DEF ListedSo, Of
<1> HIDE DEF found
<1>6. n \in Nat /\ DOMAIN found = 1 .. n /\ DOMAIN listed = 1 .. n
  BY <1>2 DEF IsList, Whats
<1>7. ASSUME NEW j \in 1 .. n
      PROVE  /\ listed[j] = What(Heap, found[j])
             /\ Written(found[j], names) <=> Called(dir, listed[j]) \in names
  <2> DEFINE o == found[j]
  <2>1. o \in 1 .. Len(Heap.objs)
    BY <1>2, <1>6, ElementAt DEF IsList
  <2>2. listed[j] = What(Heap, o)
    BY <1>6 DEF Whats
  <2> HIDE DEF o, listed
  <2>3. What(Heap, o) = Heap.objs[o].what
    BY <2>1 DEF What
  <2>4. Heap.objs[o].name = Called(dir, listed[j]) /\ Heap.objs = objs
    BY <2>1, <2>2, <2>3, WholeNamed DEF IsObject, Called, Heap
  <2> QED
    BY <2>2, <2>4 DEF Written, o
<1>8. left = Unwritten(found, names)
  BY DEF found
<1> HIDE DEF n, listed
<1>9. LeftSo(names, start, found, n, left)
  BY <1>6, <1>8, UnwrittenSo
<1> HIDE DEF start
<1>10. IsList(Heap, left)
  BY <1>1, <1>2, <1>8, UnwrittenIsList
<1> DEFINE ahead == Whats(Heap, left)
<1>11. Whats(done.heap, left) = ahead
  <2>1. left \in Seq(0 .. Len(Heap.objs))
    BY <1>10 DEF IsList
  <2> QED
    BY <1>1, <1>3, <2>1, WhatsStay
<1>12. DOMAIN ahead = DOMAIN left /\ \A m \in DOMAIN left : ahead[m] = What(Heap, left[m])
  BY DEF Whats
<1> HIDE DEF ahead
<1>13. \A m \in DOMAIN left : \E j \in 1 .. n : left[m] = found[j] /\ ahead[m] = listed[j] /\ Called(dir, listed[j]) \notin names
  BY <1>7, <1>9, <1>12 DEF LeftSo
<1>14. \A j \in 1 .. n : Called(dir, listed[j]) \notin names => \E m \in DOMAIN left : ahead[m] = listed[j]
  BY <1>7, <1>9, <1>12 DEF LeftSo
<1>15. Range(ahead) = NotNamed(dir, cat, names)
  <2>1. \A what : what \in Of(dir, cat) <=> \E j \in 1 .. n : what = listed[j]
    BY <1>5, <1>6 DEF Range
  <2>2. \A what : what \in Range(ahead) <=> \E m \in DOMAIN left : what = ahead[m]
    BY <1>12 DEF Range
  <2>3. \A what : what \in NotNamed(dir, cat, names) <=> what \in Of(dir, cat) /\ Called(dir, what) \notin names
    BY DEF NotNamed
  <2>4. ASSUME NEW what \in Range(ahead) PROVE what \in NotNamed(dir, cat, names)
    BY <1>13, <2>1, <2>2, <2>3, <2>4
  <2>5. ASSUME NEW what \in NotNamed(dir, cat, names) PROVE what \in Range(ahead)
    BY <1>14, <2>1, <2>2, <2>3, <2>5
  <2> QED
    BY <2>4, <2>5
<1>16. \A j, k \in 1 .. n : j # k => listed[j] # listed[k]
  BY <1>5, <1>6 DEF Apart
<1>17. \A j, k \in 1 .. n : j # k => found[j] # found[k]
  BY <1>7, <1>16
<1>18. Apart(left)
  BY <1>9, <1>17 DEF LeftSo
<1>19. Apart(ahead)
  <2> SUFFICES ASSUME NEW l \in DOMAIN left, NEW m \in DOMAIN left, l # m PROVE ahead[l] # ahead[m]
    BY <1>12 DEF Apart
  <2>1. left[l] # left[m]
    BY <1>18 DEF Apart
  <2> QED
    BY <1>13, <1>16, <2>1
<1> QED
  BY <1>2, <1>3, <1>11, <1>15, <1>19 DEF Ahead

\* When nothing is left, everything of a loop is written.
LEMMA NoneAhead == ASSUME NEW heap, NEW all PROVE Behind(heap, all, <<>>) = all
<1> DEFINE list == <<>>
<1>1. DOMAIN list = {}
  OBVIOUS
<1> HIDE DEF list
<1>2. Ahead(heap, list) = {}
  BY <1>1 DEF Ahead, Whats, Range
<1> QED
  BY <1>2 DEF Behind, list

LEMMA NextRunning ==
  ASSUME NEW d, NEW heap, HeapOK(heap), NEW list, NEW bl, IsList(heap, bl), Running(d, heap, list, bl),
         NEW after, Whole(d, after), Kept(heap, after), NEW left, Apart(Whats(after, left)), NEW all, Ahead(after, left) = all
  PROVE  Running(d, after, left, bl) /\ Behind(after, all, left) = {}
<1>1. IndexThere(d, after) /\ after.broken = {}
  BY IndexThereStays DEF Running, Whole
<1>2. Ahead(after, bl) = Ahead(heap, bl)
  <2>1. bl \in Seq(0 .. Len(heap.objs))
    BY RangeWider DEF IsList
  <2> QED
    BY <2>1, WhatsStay DEF Ahead
<1> QED
  BY <1>1, <1>2 DEF Running, Behind

LEMMA FunctionsStep ==
  ASSUME dir \in Directories, Whole(dir, Heap), NEW bl, IsList(Heap, bl), NEW makes, NEW ents,
         At(dir, Heap, "blocks", <<>>, bl, makes, ents),
         NEW done, done = in_category(Heap, 1, "DoxyFunction"), NEW left, left = Unwritten(done.value, makes)
  PROVE  At(dir, done.heap, "functions", left, bl, makes, ents)
<1> DEFINE B == Of(dir, "Block")
           F == OtherFunctions(dir)
           list == <<>>
           none == {}
           after == done.heap
<1>1. Running(dir, Heap, list, bl) /\ SoFar(dir, ents, makes, Behind(Heap, B, list), none, none)
  BY DEF At
<1>2. Behind(Heap, B, list) = B
  BY NoneAhead
<1> HIDE DEF list, none
<1>3. SoFar(dir, ents, makes, B, none, none) /\ BlocksTold(dir) /\ IndexThere(dir, Heap) /\ HeapOK(Heap)
  BY <1>1, <1>2 DEF Running, Whole
<1>4. /\ Whole(dir, after) /\ Kept(Heap, after)
      /\ Apart(Whats(after, left))
      /\ Ahead(after, left) = NotNamed(dir, "DoxyFunction", makes)
  BY <1>3, LeftAhead
<1>5. makes = MakeNames(dir, B)
  BY <1>3 DEF SoFar
<1> HIDE DEF after, B
<1>6. Ahead(after, left) = F
  BY <1>4, <1>5 DEF OtherFunctions, NotNamed, B
<1> HIDE DEF F
<1>7. Running(dir, after, left, bl) /\ Behind(after, F, left) = none
  BY <1>1, <1>3, <1>4, <1>6, NextRunning DEF none
<1>8. At(dir, after, "functions", left, bl, makes, ents)
  BY <1>3, <1>6, <1>7 DEF At, B, F, none
<1> QED
  BY <1>8 DEF after

LEMMA ClassesStep ==
  ASSUME dir \in Directories, Whole(dir, Heap), NEW bl, IsList(Heap, bl), NEW makes, NEW ents,
         At(dir, Heap, "functions", <<>>, bl, makes, ents),
         NEW done, done = in_category(Heap, 1, "DoxyClass"),
         NEW left, left = Unwritten(done.value, {objs[o].name : o \in Range(bl)})
  PROVE  At(dir, done.heap, "classes", left, bl, makes, ents)
<1> DEFINE B == Of(dir, "Block")
           F == OtherFunctions(dir)
           C == OtherClasses(dir)
           list == <<>>
           none == {}
           after == done.heap
           names == {objs[o].name : o \in Range(bl)}
<1>1. Running(dir, Heap, list, bl) /\ SoFar(dir, ents, makes, B, Behind(Heap, F, list), none)
  BY DEF At
<1>2. Behind(Heap, F, list) = F
  BY NoneAhead
<1> HIDE DEF list, none
<1>3. SoFar(dir, ents, makes, B, F, none) /\ BlocksTold(dir) /\ IndexThere(dir, Heap) /\ HeapOK(Heap)
  BY <1>1, <1>2 DEF Running, Whole
<1>4. names = BlockNames(dir)
  <2>1. ASSUME NEW o \in Range(bl) PROVE objs[o].name = Called(dir, What(Heap, o))
    <3>1. o \in 1 .. Len(Heap.objs)
      BY <2>1, ElementAt DEF IsList, Range
    <3>2. What(Heap, o) = Heap.objs[o].what
      BY <3>1 DEF What
    <3> QED
      BY <3>1, <3>2, WholeNamed DEF IsObject, Called, Heap
  <2>2. names = {Called(dir, What(Heap, o)) : o \in Range(bl)}
    BY <2>1
  <2>3. Ahead(Heap, bl) = B
    BY <1>1 DEF Running
  <2>4. Ahead(Heap, bl) = {What(Heap, o) : o \in Range(bl)}
    BY DEF Ahead, Whats, Range
  <2> HIDE DEF names, B
  <2>5. {Called(dir, What(Heap, o)) : o \in Range(bl)} = {Called(dir, b) : b \in B}
    BY <2>3, <2>4
  <2> QED
    BY <2>2, <2>5 DEF BlockNames, B
<1>9. left = Unwritten(done.value, names)
  OBVIOUS
<1> HIDE DEF names
<1>5. /\ Whole(dir, after) /\ Kept(Heap, after)
      /\ Apart(Whats(after, left))
      /\ Ahead(after, left) = NotNamed(dir, "DoxyClass", names)
  BY <1>3, <1>9, LeftAhead
<1> HIDE DEF after, B, F
<1>6. Ahead(after, left) = C
  BY <1>4, <1>5 DEF OtherClasses, NotNamed
<1> HIDE DEF C
<1>7. Running(dir, after, left, bl) /\ Behind(after, C, left) = none
  BY <1>1, <1>3, <1>5, <1>6, NextRunning DEF none
<1>8. At(dir, after, "classes", left, bl, makes, ents)
  BY <1>3, <1>6, <1>7 DEF At, B, F, C, none
<1> QED
  BY <1>8 DEF after

-----------------------------------------------------------------------------
Story == At(dir, Heap, stage, todo, blocks, make_funcs, entries)

LEMMA StoppedAt == ASSUME NEW d, Cause(d), NEW heap, NEW list, NEW bl, NEW makes, NEW ents
                   PROVE  At(d, heap, "stopped", list, bl, makes, ents)
BY DEF At

LEMMA WInitStory == WInit => Story
<1> SUFFICES ASSUME WInit PROVE Story
  OBVIOUS
<1>1. stage = "client" /\ make_funcs = {} /\ entries = <<>>
  BY DEF WInit
<1> QED
  BY <1>1 DEF Story, At

LEMMA WholeNow ==
  ASSUME WOK, Good(dir, Heap), Story, stage \in {"blocks", "functions", "classes"}
  PROVE  /\ Whole(dir, Heap) /\ dir \in Directories
         /\ IsList(Heap, todo) /\ IsList(Heap, blocks)
         /\ todo # <<>> => IsObject(Heap, Head(todo))
<1>1. Heap.broken = {}
  BY DEF Story, At, Running
<1>2. todo # <<>> => IsObject(Heap, Head(todo))
  BY ListTail DEF WOK
<1> QED
  BY <1>1, <1>2, GoodIsWhole DEF WOK

\* An operation of the script whose result the objects become.
LEMMA StoryStops ==
  ASSUME NEW STATE done, Stops(done), Cause(dir)
  PROVE  Story'
<1>1. stage' = "stopped" /\ dir' = dir
  BY DEF Stops, Does
<1>2. At(dir, Heap', "stopped", todo', blocks', make_funcs', entries')
  BY StoppedAt
<1> QED
  BY <1>1, <1>2 DEF Story

LEMMA DoesHeap ==
  ASSUME WOK, NEW STATE done, Outcome(Heap, done), Does(done)
  PROVE  Heap' = done.heap /\ dir' = dir
<1>1. Kept(Heap, done.heap) /\ Becomes(done.heap) /\ dir' = dir
  BY OutcomeHeap DEF Does
<1> QED
  BY <1>1, HeapAfter

LEMMA FindBlocksStory == ASSUME WOK, Good(dir, Heap), Story, FindBlocks PROVE Story'
<1> DEFINE found == in_category(Heap, 1, "Block")
           ents == <<>>
           none == {}
<1>1. IsObject(Heap, 1) /\ HeapOK(Heap) /\ dir \in Directories
  BY WOKSays
<1>2. Heap.broken = {} /\ stage = "client"
  BY DEF FindBlocks, Heap
<1>3. Whole(dir, Heap)
  BY <1>1, <1>2, GoodIsWhole
<1>4. make_funcs = none /\ entries = ents
  BY <1>2 DEF Story, At
<1>5. Outcome(Heap, found)
  BY <1>1, in_categoryListing DEF Listing
<1>6. /\ found.raised # Nothing => Cause(dir)
      /\ found.raised = Nothing => At(dir, found.heap, "blocks", found.value, found.value, none, ents)
  BY <1>1, <1>3, StartStep
<1>7. \/ Stops(found)
      \/ /\ found.raised = Nothing /\ Does(found) /\ stage' = "blocks"
         /\ blocks' = found.value /\ todo' = found.value /\ make_funcs' = make_funcs /\ entries' = entries
  BY DEF FindBlocks
<1> HIDE DEF found, ents, none
<1>8. CASE Stops(found)
  <2>1. found.raised # Nothing
    BY <1>8 DEF Stops
  <2> QED
    BY <1>6, <1>8, <2>1, StoryStops
<1>9. CASE found.raised = Nothing /\ Does(found) /\ stage' = "blocks"
           /\ blocks' = found.value /\ todo' = found.value /\ make_funcs' = make_funcs /\ entries' = entries
  <2>1. Heap' = found.heap /\ dir' = dir
    BY <1>5, <1>9, DoesHeap
  <2> QED
    BY <1>4, <1>6, <1>9, <2>1 DEF Story
<1> QED
  BY <1>7, <1>8, <1>9

LEMMA BlockEntryStory == ASSUME WOK, Good(dir, Heap), Story, BlockEntry PROVE Story'
<1> DEFINE done == make_block_entry(Heap, Head(todo))
           more == make_funcs \cup {make_name(objs[Head(todo)].name)}
           ents == entries \o done.value
           rest == Tail(todo)
<1>1. stage = "blocks" /\ todo # <<>> /\ WriteEntry(done)
      /\ make_funcs' = IF stage' = "blocks" THEN more ELSE make_funcs
  BY DEF BlockEntry
<1>2. /\ Whole(dir, Heap) /\ dir \in Directories /\ IsList(Heap, todo) /\ IsList(Heap, blocks)
      /\ IsObject(Heap, Head(todo)) /\ HeapOK(Heap)
  BY <1>1, WholeNow DEF WOK
<1>3. At(dir, Heap, "blocks", todo, blocks, make_funcs, entries)
  BY <1>1 DEF Story
<1>4. Outcome(Heap, done)
  BY <1>2, make_block_entryOutcome
<1>5. more = make_funcs \cup {make_name(Heap.objs[Head(todo)].name)}
  BY DEF Heap
<1>6. /\ done.raised # "ParsingError"
      /\ done.raised # Nothing => Cause(dir)
      /\ done.raised = Nothing => At(dir, done.heap, "blocks", rest, blocks, more, ents)
  <2> HIDE DEF more
  <2> QED
    BY <1>1, <1>2, <1>3, <1>5, BlockStep
<1>7. \/ Stops(done)
      \/ /\ done.raised \in {Nothing, "ParsingError"} /\ Does(done)
         /\ entries' = ents /\ todo' = rest /\ stage' = stage /\ blocks' = blocks
  BY <1>1 DEF WriteEntry
<1> HIDE DEF done, more, ents, rest
<1>8. CASE Stops(done)
  <2>1. done.raised # Nothing
    BY <1>8 DEF Stops
  <2> QED
    BY <1>6, <1>8, <2>1, StoryStops
<1>9. CASE done.raised \in {Nothing, "ParsingError"} /\ Does(done)
           /\ entries' = ents /\ todo' = rest /\ stage' = stage /\ blocks' = blocks
  <2>1. Heap' = done.heap /\ dir' = dir
    BY <1>4, <1>9, DoesHeap
  <2>2. make_funcs' = more
    BY <1>1, <1>9
  <2>3. At(dir, done.heap, "blocks", rest, blocks, more, ents)
    BY <1>6, <1>9
  <2> QED
    BY <1>1, <1>9, <2>1, <2>2, <2>3 DEF Story
<1> QED
  BY <1>7, <1>8, <1>9

LEMMA FunctionEntryStory == ASSUME WOK, Good(dir, Heap), Story, FunctionEntry PROVE Story'
<1> DEFINE done == make_func_entry(Heap, Head(todo))
           ents == entries \o done.value
           rest == Tail(todo)
<1>1. stage = "functions" /\ todo # <<>> /\ WriteEntry(done) /\ make_funcs' = make_funcs
  BY DEF FunctionEntry
<1>2. /\ Whole(dir, Heap) /\ dir \in Directories /\ IsList(Heap, todo) /\ IsList(Heap, blocks)
      /\ IsObject(Heap, Head(todo)) /\ HeapOK(Heap)
  BY <1>1, WholeNow DEF WOK
<1>3. At(dir, Heap, "functions", todo, blocks, make_funcs, entries)
  BY <1>1 DEF Story
<1>4. Outcome(Heap, done)
  BY <1>2, make_func_entryOutcome
<1>5. done.raised = Nothing /\ At(dir, done.heap, "functions", rest, blocks, make_funcs, ents)
  BY <1>1, <1>2, <1>3, FunctionStep
<1>6. Does(done) /\ entries' = ents /\ todo' = rest /\ stage' = stage /\ blocks' = blocks
  BY <1>1, <1>5 DEF WriteEntry, Stops
<1> HIDE DEF done, ents, rest
<1>7. Heap' = done.heap /\ dir' = dir
  BY <1>4, <1>6, DoesHeap
<1> QED
  BY <1>1, <1>5, <1>6, <1>7 DEF Story

LEMMA ClassEntryStory == ASSUME WOK, Good(dir, Heap), Story, ClassEntry PROVE Story'
<1> DEFINE done == make_class_entry(Heap, Head(todo))
           ents == entries \o done.value
           rest == Tail(todo)
<1>1. stage = "classes" /\ todo # <<>> /\ WriteEntry(done) /\ make_funcs' = make_funcs
  BY DEF ClassEntry
<1>2. /\ Whole(dir, Heap) /\ dir \in Directories /\ IsList(Heap, todo) /\ IsList(Heap, blocks)
      /\ IsObject(Heap, Head(todo)) /\ HeapOK(Heap)
  BY <1>1, WholeNow DEF WOK
<1>3. At(dir, Heap, "classes", todo, blocks, make_funcs, entries)
  BY <1>1 DEF Story
<1>4. Outcome(Heap, done)
  BY <1>2, make_class_entryOutcome
<1>5. /\ done.raised \in {Nothing, "ParsingError"}
      /\ At(dir, done.heap, "classes", rest, blocks, make_funcs, ents)
  BY <1>1, <1>2, <1>3, ClassStep
<1>6. Does(done) /\ entries' = ents /\ todo' = rest /\ stage' = stage /\ blocks' = blocks
  BY <1>1, <1>5 DEF WriteEntry, Stops
<1> HIDE DEF done, ents, rest
<1>7. Heap' = done.heap /\ dir' = dir
  BY <1>4, <1>6, DoesHeap
<1> QED
  BY <1>1, <1>5, <1>6, <1>7 DEF Story

LEMMA FindFunctionsStory == ASSUME WOK, Good(dir, Heap), Story, FindFunctions PROVE Story'
<1> DEFINE found == in_category(Heap, 1, "DoxyFunction")
           left == Unwritten(found.value, make_funcs)
           none == <<>>
<1>1. /\ stage = "blocks" /\ todo = none /\ Does(found) /\ stage' = "functions" /\ todo' = left
      /\ blocks' = blocks /\ make_funcs' = make_funcs /\ entries' = entries
  BY DEF FindFunctions, NextLoop, Unwritten
<1>2. Whole(dir, Heap) /\ dir \in Directories /\ IsList(Heap, blocks) /\ HeapOK(Heap) /\ IsObject(Heap, 1)
  BY <1>1, WholeNow, WOKSays
<1>3. At(dir, Heap, "blocks", none, blocks, make_funcs, entries)
  BY <1>1 DEF Story
<1>4. Outcome(Heap, found)
  BY <1>2, in_categoryListing DEF Listing
<1>5. At(dir, found.heap, "functions", left, blocks, make_funcs, entries)
  BY <1>2, <1>3, FunctionsStep
<1> HIDE DEF found, left
<1>6. Heap' = found.heap /\ dir' = dir
  BY <1>1, <1>4, DoesHeap
<1> QED
  BY <1>1, <1>5, <1>6 DEF Story

LEMMA FindClassesStory == ASSUME WOK, Good(dir, Heap), Story, FindClasses PROVE Story'
<1> DEFINE found == in_category(Heap, 1, "DoxyClass")
           names == {objs[o].name : o \in Range(blocks)}
           left == Unwritten(found.value, names)
           none == <<>>
<1>1. /\ stage = "functions" /\ todo = none /\ Does(found) /\ stage' = "classes" /\ todo' = left
      /\ blocks' = blocks /\ make_funcs' = make_funcs /\ entries' = entries
  BY DEF FindClasses, NextLoop, Unwritten
<1>2. Whole(dir, Heap) /\ dir \in Directories /\ IsList(Heap, blocks) /\ HeapOK(Heap) /\ IsObject(Heap, 1)
  BY <1>1, WholeNow, WOKSays
<1>3. At(dir, Heap, "functions", none, blocks, make_funcs, entries)
  BY <1>1 DEF Story
<1>4. Outcome(Heap, found)
  BY <1>2, in_categoryListing DEF Listing
<1>5. At(dir, found.heap, "classes", left, blocks, make_funcs, entries)
  BY <1>2, <1>3, ClassesStep
<1> HIDE DEF found, left
<1>6. Heap' = found.heap /\ dir' = dir
  BY <1>1, <1>4, DoesHeap
<1> QED
  BY <1>1, <1>5, <1>6 DEF Story

LEMMA WriteFileStory == ASSUME Story, WriteFile PROVE Story'
<1> DEFINE none == <<>>
<1>1. stage = "classes" /\ todo = none /\ stage' = "written"
      /\ dir' = dir /\ make_funcs' = make_funcs /\ entries' = entries
  BY DEF WriteFile
<1>2. Behind(Heap, OtherClasses(dir), none) = OtherClasses(dir)
  BY NoneAhead
<1> HIDE DEF none
<1>3. /\ BlocksTold(dir)
      /\ SoFar(dir, entries, make_funcs, Of(dir, "Block"), OtherFunctions(dir), OtherClasses(dir))
  BY <1>1, <1>2 DEF Story, At, Running
<1>4. At(dir, Heap', "written", todo', blocks', make_funcs, entries)
  BY <1>3 DEF At
<1> QED
  BY <1>1, <1>4 DEF Story

LEMMA WNextStory == WOK /\ Good(dir, Heap) /\ Story /\ [WNext]_wvars => Story'
<1> SUFFICES ASSUME WOK, Good(dir, Heap), Story, [WNext]_wvars PROVE Story'
  OBVIOUS
<1>1. CASE Ask
  <2>1. stage' = "client" /\ make_funcs' = make_funcs /\ entries' = entries /\ stage = "client"
    BY <1>1 DEF Ask
  <2>2. make_funcs' = {} /\ entries' = <<>>
    BY <2>1 DEF Story, At
  <2> QED
    BY <2>1, <2>2 DEF Story, At
<1>2. CASE Done \/ UNCHANGED wvars
  <2>1. /\ Heap' = Heap /\ dir' = dir /\ stage' = stage /\ todo' = todo /\ blocks' = blocks
        /\ make_funcs' = make_funcs /\ entries' = entries
    BY <1>2 DEF Done, wvars, Heap
  <2> QED
    BY <2>1 DEF Story
<1> QED
  BY <1>1, <1>2, FindBlocksStory, BlockEntryStory, FunctionEntryStory, ClassEntryStory, FindFunctionsStory,
     FindClassesStory, WriteFileStory DEF WNext

\* What is written is known when the file is.
LEMMA WhenWritten ==
  ASSUME WOK, Story, stage = "written"
  PROVE  /\ dir \in Directories /\ BlocksTold(dir)
         /\ IsSeq(entries) /\ Apart(entries)
         /\ Range(entries) = EntriesOf(dir, Of(dir, "Block"), OtherFunctions(dir), OtherClasses(dir))
         /\ \A b \in Of(dir, "Block") : InOrder(dir, b)
BY DEF Story, At, SoFar, WOK

LEMMA StopsThen == WOK /\ Story => StopsForCause
<1> SUFFICES ASSUME WOK, Story PROVE StopsForCause
  OBVIOUS
<1>1. \A b : Documented(b) <=> InOrder(dir, b)
  BY DEF Documented, MakeOfBlock, HeaderOfBlock, InOrder, MakeOf, HeaderOf, CreatorOf, NameOf
<1>2. Klasses = Of(dir, "DoxyClass") /\ Blocks = Of(dir, "Block")
  BY DEF Klasses, Blocks, Of
<1>3. stage = "stopped" => Cause(dir)
  BY DEF Story, At
<1>4. stage = "written" => ~Cause(dir)
  <2>1. SUFFICES ASSUME stage = "written" PROVE ~Cause(dir)
    OBVIOUS
  <2>2. \A b \in Of(dir, "Block") : InOrder(dir, b)
    BY <2>1, WhenWritten
  <2>3. IndexRead(dir).raised = Nothing /\ \A c \in Of(dir, "DoxyClass") : ErrorOf(dir, c).raised = Nothing
    BY <2>1, WhenWritten, FactsOfRun
  <2> QED
    BY <2>2, <2>3 DEF Cause
<1> QED
  BY <1>1, <1>2, <1>3, <1>4 DEF StopsForCause, Cause

(***************************************************************************)
(* In any directory that Doxygen could have written, and whatever has been *)
(* asked before: the script ends without a file only when the index or a   *)
(* header cannot be read, a class has no file, or a block lacks a make     *)
(* function or a constructor that is documented once; and where there is   *)
(* such a cause it never writes one.  An exception of any lookup of the    *)
(* script is that of a fresh reading, so what stops it is in the files.    *)
(***************************************************************************)
THEOREM StopsForCauseHolds == WSpec => []StopsForCause
<1>1. WInit => WOK /\ Good(dir, Heap) /\ Story
  BY WInitOK, WInitGood, WInitStory
<1>2. WOK /\ Good(dir, Heap) /\ Story /\ [WNext]_wvars => WOK' /\ Good(dir, Heap)' /\ Story'
  BY WNextOK, WNextGood, WNextStory
<1>3. WSpec => [](WOK /\ Good(dir, Heap) /\ Story)
  BY <1>1, <1>2, PTL DEF WSpec
<1> QED
  BY <1>3, StopsThen, PTL

\* An entry that is written is written once.
LEMMA TimesIs ==
  ASSUME IsSeq(entries), Apart(entries), NEW e
  PROVE  Times(e) = IF e \in Range(entries) THEN 1 ELSE 0
<1> DEFINE places == {i \in DOMAIN entries : entries[i] = e}
<1>1. Times(e) = Cardinality(places)
  BY DEF Times
<1>2. CASE e \in Range(entries)
  <2>1. PICK i \in DOMAIN entries : e = entries[i]
    BY <1>2 DEF Range
  <2>2. places = {i}
    BY <2>1 DEF Apart
  <2> HIDE DEF places
  <2>3. Cardinality(places) = 1
    BY <2>2, FS_Singleton
  <2> QED
    BY <1>1, <1>2, <2>3
<1>3. CASE e \notin Range(entries)
  <2>1. places = {}
    BY <1>3 DEF Range
  <2> HIDE DEF places
  <2>2. Cardinality(places) = 0
    BY <2>1, FS_EmptySet
  <2> QED
    BY <1>1, <1>3, <2>2
<1> QED
  BY <1>2, <1>3

\* A class has an error if and only if its members cannot be had.
LEMMA ErrorIs ==
  ASSUME NEW d, NEW c, ErrorOf(d, c).raised = Nothing
  PROVE  ErrorOf(d, c).value <=> MembersOf(d, c).raised # Nothing
<1> DEFINE read == MembersOf(d, c)
<1>1. ErrorOf(d, c) = IF read.raised \in {Nothing, "ParsingError"} THEN Answer(read.raised # Nothing) ELSE read
  BY DEF ErrorOf, BadRead
<1> HIDE DEF read
<1>2. read.raised \in {Nothing, "ParsingError"}
  BY <1>1
<1>3. ErrorOf(d, c) = Answer(read.raised # Nothing)
  BY <1>1, <1>2
<1>4. Answer(read.raised # Nothing).value = (read.raised # Nothing)
  BY DEF Answer
<1>5. ErrorOf(d, c).value = (read.raised # Nothing)
  BY <1>3, <1>4, Zenon
<1> QED
  BY <1>5, Zenon DEF read

LEMMA CompleteThen == WOK /\ Story => EntriesComplete
<1> SUFFICES ASSUME WOK, Story, stage = "written"
             PROVE  /\ \A c \in Klasses :
                          LET told == ~ErrorOf(dir, c).value /\ ~IsOperator(NameOf(c)) /\ SomethingSaid(c) IN
                          /\ Times(<<"block", c>>) = IF c \in Blocks /\ told THEN 1 ELSE 0
                          /\ Times(<<"class", c>>) = IF c \notin Blocks /\ told THEN 1 ELSE 0
                    /\ \A f \in Functions :
                          Times(<<"function", f>>) + Times(<<"make", f>>) = IF IsOperator(NameOf(f)) THEN 0 ELSE 1
  BY DEF EntriesComplete
<1> DEFINE B == Of(dir, "Block")
           F == OtherFunctions(dir)
           C == OtherClasses(dir)
           all == EntriesOf(dir, B, F, C)
<1>1. /\ dir \in Directories /\ BlocksTold(dir) /\ IsSeq(entries) /\ Apart(entries)
      /\ Range(entries) = all /\ \A b \in B : InOrder(dir, b)
  BY WhenWritten
<1>2. Klasses = Of(dir, "DoxyClass") /\ Blocks = B /\ Functions = Of(dir, "DoxyFunction")
  BY DEF Klasses, Blocks, Functions, Of
<1>3. /\ IndexRead(dir).raised = Nothing
      /\ Of(dir, "DoxyClass") = Inside(dir, "DoxyClass", Index) /\ B = Inside(dir, "Block", Index)
      /\ B \subseteq Of(dir, "DoxyClass")
      /\ \A c \in Of(dir, "DoxyClass") : ErrorOf(dir, c).raised = Nothing
  BY <1>1, FactsOfRun
<1> HIDE DEF all
<1>4. \A e : Times(e) = IF e \in all THEN 1 ELSE 0
  BY <1>1, TimesIs
<1>5. ASSUME NEW x
      PROVE  /\ Times(<<"block", x>>) = IF x \in B /\ BlockTold(dir, x) THEN 1 ELSE 0
             /\ Times(<<"class", x>>) = IF x \in C /\ ClassTold(dir, x) THEN 1 ELSE 0
             /\ Times(<<"function", x>>) = IF x \in F /\ NoOperator(dir, x) THEN 1 ELSE 0
  BY <1>4, EntriesHave DEF all
<1>6. ASSUME NEW x
      PROVE  Times(<<"make", x>>) = IF \E b \in B : MakeTold(dir, b) /\ x = MakeOf(dir, b).value THEN 1 ELSE 0
  BY <1>4, MakeWritten DEF all
<1>7. ASSUME NEW c \in Klasses
      PROVE  LET told == ~ErrorOf(dir, c).value /\ ~IsOperator(NameOf(c)) /\ SomethingSaid(c) IN
             /\ Times(<<"block", c>>) = IF c \in Blocks /\ told THEN 1 ELSE 0
             /\ Times(<<"class", c>>) = IF c \notin Blocks /\ told THEN 1 ELSE 0
  <2>1. ErrorOf(dir, c).value <=> MembersOf(dir, c).raised # Nothing
    BY <1>2, <1>3, ErrorIs
  <2>2. c \in B => MembersOf(dir, c).raised = Nothing
    BY <1>1, <1>3, BlockIs DEF Readable
  <2>3. c \in C <=> c \notin B
    <3>1. c \in C <=> Called(dir, c) \notin BlockNames(dir)
      BY <1>2 DEF OtherClasses
    <3>2. c \in B => Called(dir, c) \in BlockNames(dir)
      BY DEF BlockNames
    <3>3. Called(dir, c) \in BlockNames(dir) => c \in B
      <4>1. SUFFICES ASSUME NEW b \in B, Called(dir, c) = Called(dir, b) PROVE c \in B
        BY DEF BlockNames
      <4>2. make_name(Called(dir, c)) = make_name(Called(dir, b))
        BY <4>1
      <4>3. c = b
        BY <1>1, <1>2, <1>3, <4>2, ClassesDiffer
      <4> QED
        BY <4>3
    <3> QED
      BY <3>1, <3>2, <3>3
  <2>5. ~IsOperator(NameOf(c)) <=> NoOperator(dir, c)
    BY DEF NameOf, NoOperator
  <2>6. SomethingSaid(c) <=> IF c \in B THEN BlockSays(dir, c) ELSE Described(dir, c)
    <3>1. MakeOfBlock(c) = MakeOf(dir, c) /\ HeaderOfBlock(c) = HeaderOf(dir, c)
      BY DEF MakeOfBlock, HeaderOfBlock, MakeOf, HeaderOf, NameOf
    <3> HIDE DEF B
    <3> QED
      BY <1>2, <3>1 DEF SomethingSaid, BlockSays, HeaderFileSays
  <2> HIDE DEF B, C
  <2>4. /\ Times(<<"block", c>>) = IF c \in B /\ BlockTold(dir, c) THEN 1 ELSE 0
        /\ Times(<<"class", c>>) = IF c \in C /\ ClassTold(dir, c) THEN 1 ELSE 0
    BY <1>5
  <2> DEFINE bad == ErrorOf(dir, c).value
             told == ~bad /\ ~IsOperator(NameOf(c)) /\ SomethingSaid(c)
  <2>7. bad <=> MembersOf(dir, c).raised # Nothing
    BY <2>1
  <2>8. /\ c \in B /\ told <=> c \in B /\ BlockTold(dir, c)
        /\ c \notin B /\ told <=> c \in C /\ ClassTold(dir, c)
    <3> HIDE DEF bad
    <3> QED
      BY <2>2, <2>3, <2>5, <2>6, <2>7, Zenon DEF BlockTold, ClassTold
  <2> HIDE DEF told
  <2>9. /\ Times(<<"block", c>>) = IF c \in Blocks /\ told THEN 1 ELSE 0
        /\ Times(<<"class", c>>) = IF c \notin Blocks /\ told THEN 1 ELSE 0
    BY <1>2, <2>4, <2>8
  <2> QED
    BY <2>9 DEF told, bad
<1>8. ASSUME NEW f \in Functions
      PROVE  Times(<<"function", f>>) + Times(<<"make", f>>) = IF IsOperator(NameOf(f)) THEN 0 ELSE 1
  <2>1. f \in F <=> Called(dir, f) \notin MakeNames(dir, B)
    BY <1>2 DEF OtherFunctions
  <2>2. ASSUME NEW b \in B PROVE Called(dir, f) = make_name(Called(dir, b)) <=> f = MakeOf(dir, b).value
    <3>1. MakeOf(dir, b).raised = Nothing
      BY <1>1 DEF InOrder
    <3> QED
      BY <1>1, <1>2, <3>1, MakeIs
  <2>3. Called(dir, f) \in MakeNames(dir, B) <=> \E b \in B : Called(dir, f) = make_name(Called(dir, b))
    BY DEF MakeNames
  <2>4. f \notin F <=> \E b \in B : f = MakeOf(dir, b).value
    BY <2>1, <2>2, <2>3
  <2>6. IsOperator(NameOf(f)) <=> ~NoOperator(dir, f)
    BY DEF NameOf, NoOperator
  <2> HIDE DEF B, F
  <2>5. /\ Times(<<"function", f>>) = IF f \in F /\ NoOperator(dir, f) THEN 1 ELSE 0
        /\ Times(<<"make", f>>) = IF \E b \in B : MakeTold(dir, b) /\ f = MakeOf(dir, b).value THEN 1 ELSE 0
    BY <1>5, <1>6
  <2>7. (\E b \in B : MakeTold(dir, b) /\ f = MakeOf(dir, b).value) <=> f \notin F /\ NoOperator(dir, f)
    BY <2>4 DEF MakeTold
  <2> QED
    BY <2>5, <2>6, <2>7
<1> QED
  BY <1>7, <1>8

(***************************************************************************)
(* In any directory that Doxygen could have written, and whatever has been *)
(* asked before: a file that is written has each block and its make        *)
(* function once, each other class whose file can be parsed once, and each *)
(* other function once, but for a class or a block of which nothing is     *)
(* said and for all that has "operator " in its name (make_entry).  The    *)
(* first loop names what the later ones leave out                          *)
(* (make_swig_interface_file), and no class bears the name of another: two *)
(* blocks of one name would have one make function, written twice.         *)
(***************************************************************************)
THEOREM EntriesCompleteHolds == WSpec => []EntriesComplete
<1>1. WInit => WOK /\ Good(dir, Heap) /\ Story
  BY WInitOK, WInitGood, WInitStory
<1>2. WOK /\ Good(dir, Heap) /\ Story /\ [WNext]_wvars => WOK' /\ Good(dir, Heap)' /\ Story'
  BY WNextOK, WNextGood, WNextStory
<1>3. WSpec => [](WOK /\ Good(dir, Heap) /\ Story)
  BY <1>1, <1>2, PTL DEF WSpec
<1> QED
  BY <1>3, CompleteThen, PTL

=============================================================================
