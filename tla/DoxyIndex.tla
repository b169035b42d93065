------------------------------ MODULE DoxyIndex ------------------------------
(***************************************************************************)
(* The objects by which the documentation of a Doxygen directory is read   *)
(* (src/docs/doxygen/doxyxml/base.py, doxyindex.py): each parses its file  *)
(* when it is first asked, keeps what it has found, and may raise at any   *)
(* place.  One thread calls them, in any order; an operation is an         *)
(* operator from the objects before to the objects after, with the value   *)
(* returned or the exception raised.                                       *)
(*                                                                         *)
(* An object is a number; 0 is Python's None.  Names are sequences, which  *)
(* get_member takes apart at "::".                                         *)
(***************************************************************************)
EXTENDS Integers, SequencesExt

CONSTANTS
    Directories,   \* the directories: index, a sequence of compounds, and files
    Asked,         \* the names a client asks for
    Categories,    \* the categories it asks for: "None", a class of objects, or swig_doc's "Block"
    MaxCalls       \* how often a client asks, before the state is looked at

VARIABLES
    dir,           \* the directory
    objs,          \* the objects, objs[1] the DoxyIndex
    refs,          \* DoxyIndex._refs: the objects by their refid
    broken,        \* objects whose _parse was left by an exception of another kind than theirs
    calls          \* how often the client has asked

NoRef == "none"

\* names, of one word or more
Names == Seq(STRING) \ {<<>>}

(***************************************************************************)
(* A directory: its index, and its files by their refids, each with        *)
(* [status, described, members, groups, classes]; what is described has a  *)
(* brief or a detailed description that is not blank.                      *)
(***************************************************************************)
Compounds == [kind : STRING, refid : STRING \ {NoRef}, name : Names, what : Seq(STRING), header : BOOLEAN]
FileStatus == {"good", "bad"}
Files == [status : FileStatus, described : BOOLEAN,
          members : Seq([kind : STRING, name : Names, described : BOOLEAN]),
          groups : Seq(STRING), classes : Seq(STRING)]

ASSUME DirectoriesAssumption ==
    \A d \in Directories :
        /\ d.index \in Seq(Compounds)
        /\ \A refid \in DOMAIN d.files : d.files[refid] \in Files
ASSUME AskedAssumption == Asked \subseteq Names

\* swig_doc: the name of the function that makes a block, and its header's
make_name(path) == [path EXCEPT ![Len(path)] = "make_" \o @]
HeaderName(path) == [path EXCEPT ![Len(path)] = @ \o ".h"]

\* as Doxygen writes them: the index has a compound once, and a class by a name of
\* its own; what a file has inside is in the index; a member's name is one word, and
\* it is no compound
Consistent(d) ==
    /\ \A mem \in Range(d.index) : mem.what = <<mem.refid>> /\ mem.refid # "index"
    /\ \A i, j \in DOMAIN d.index : d.index[i].refid = d.index[j].refid => i = j
    /\ \A i, j \in DOMAIN d.index :
          d.index[i].kind = "class" /\ d.index[j].kind = "class" /\ i # j =>
             make_name(d.index[i].name) # make_name(d.index[j].name)
    /\ \A refid \in DOMAIN d.files :
          /\ \A inner \in Range(d.files[refid].groups) \cup Range(d.files[refid].classes) :
                \E mem \in Range(d.index) : mem.refid = inner
          /\ \A mem \in Range(d.files[refid].members) :
                Len(mem.name) = 1 /\ mem.kind \notin {"class", "file", "group"}
ASSUME ConsistentAssumption == \A d \in Directories : Consistent(d)

\* a Python dictionary with this entry
Put(dict, key, value) == [k \in DOMAIN dict \cup {key} |-> IF k = key THEN value ELSE dict[k]]

\* the elements with a property, in their order
Those(seq, Has(_)) == FoldLeft(LAMBDA found, x : IF Has(x) THEN Append(found, x) ELSE found, <<>>, seq)

Object(cls, refid, name, given, what) ==
    [cls |-> cls, refid |-> refid, name |-> name, given |-> given, what |-> what,
     parsed |-> FALSE, error |-> FALSE, members |-> <<>>, inCategory |-> <<>>, dict |-> <<>>]

\* what an operation leaves behind, and what it has raised
Nothing == "nothing"
Return(heap, value) == [heap |-> heap, raised |-> Nothing, value |-> value]
Raise(heap, what) == [heap |-> heap, raised |-> what, value |-> <<>>]

With(heap, o, field, value) == [heap EXCEPT !.objs[o][field] = value]

\* get_cls: the first of mem_classes that can parse this kind
Classes ==
    LET own == [function |-> "DoxyFunction", class |-> "DoxyClass", file |-> "DoxyFile",
                namespace |-> "DoxyNamespace", group |-> "DoxyGroup", friend |-> "DoxyFriend"]
        others == {"variable", "struct", "union", "define", "typedef", "enum", "dir", "page"}
    IN  [kind \in DOMAIN own \cup others |-> IF kind \in others THEN "DoxyOther" ELSE own[kind]]

\* a plausible slip: an object is made without a look whether there is one
RegisteredNever(heap, refid) == FALSE
\* from_refid, from_parse_data: there is an object of this refid already
Registered(heap, refid) == refid \in DOMAIN heap.refs

FromRefid(heap, refid, object) ==
    IF Registered(heap, refid) THEN Return(heap, heap.refs[refid])
    ELSE LET o == Len(heap.objs) + 1
         IN  Return([heap EXCEPT !.objs = Append(@, object),
                                 !.refs = IF refid = NoRef THEN @ ELSE Put(@, refid, o)], o)

\* convert_mem, which prints what get_cls raises and goes on with None
convert_mem(heap, mem) ==
    IF mem.kind \in DOMAIN Classes
    THEN FromRefid(heap, mem.refid, Object(Classes[mem.kind], mem.refid, mem.name, TRUE, mem.what))
    ELSE Return(heap, 0)

\* what comes after an operation, unless it raised
Then(done, After(_, _)) == IF done.raised # Nothing THEN done ELSE After(done.heap, done.value)

AddMember(made, o) ==
    With(made.heap, o, "members", Append(made.heap.objs[o].members, made.value))

(***************************************************************************)
(* The files.  A bad one raises ExpatError, which retrieve_data catches, a *)
(* missing one IOError, which it does not.                                 *)
(***************************************************************************)
Missing(refid) == refid \notin DOMAIN dir.files

\* the members of a file's object: the first of each name
FirstOfName(mems, i) == \A j \in 1 .. i - 1 : mems[j].name # mems[i].name
AddMemberdef(o, done, i) ==
    LET refid == done.objs[o].refid
        mems == dir.files[refid].members
    IN  IF FirstOfName(mems, i)
        THEN AddMember(convert_mem(done, [kind |-> mems[i].kind, refid |-> NoRef, name |-> mems[i].name,
                                          what |-> <<refid, i>>]), o)
        ELSE done

process_memberdefs(heap, o) ==
    LET mems == dir.files[heap.objs[o].refid].members
    IN  FoldLeft(LAMBDA done, i : AddMemberdef(o, done, i), heap, [i \in DOMAIN mems |-> i])

AddInner(inner, done, refid) ==
    AddMember(FromRefid(done, refid, Object(inner.cls, refid, <<>>, FALSE, <<refid>>)), inner.of)
AddAllInner(heap, o, cls, refids) ==
    FoldLeft(LAMBDA done, refid : AddInner([of |-> o, cls |-> cls], done, refid), heap, refids)

\* DoxyGroup: inner groups, inner classes, then members
ParseGroup(heap, o) ==
    LET file == dir.files[heap.objs[o].refid]
    IN  process_memberdefs(AddAllInner(AddAllInner(heap, o, "DoxyGroup", file.groups),
                                       o, "DoxyClass", file.classes), o)

\* DoxyClass, DoxyFile and DoxyGroup, after _parsed has been set.  Only DoxyFile
\* uses what it has retrieved before it looks whether that is an error.
ParseFile(heap, o) ==
    LET refid == heap.objs[o].refid
        failed == With(heap, o, "error", TRUE)
    IN  IF Missing(refid) THEN Raise(heap, "IOError")
        ELSE IF dir.files[refid].status = "bad"
        THEN IF heap.objs[o].cls = "DoxyFile" THEN Raise(failed, "AttributeError") ELSE Return(failed, <<>>)
        ELSE Return(IF heap.objs[o].cls = "DoxyGroup" THEN ParseGroup(heap, o) ELSE process_memberdefs(heap, o), <<>>)

\* the classes of objects that have a file of their own
OfFiles == {"DoxyClass", "DoxyFile", "DoxyGroup"}
ParseObject(heap, o) ==
    IF heap.objs[o].cls \in OfFiles THEN ParseFile(heap, o) ELSE Return(heap, <<>>)

\* check_parsed and confirm_no_error, of a class with this _parse: it is marked as
\* parsed before it is, and remains so whatever _parse raises
LeftBroken(done, o) ==
    IF done.raised # Nothing THEN [done EXCEPT !.heap.broken = @ \cup {o}] ELSE done
Checked(heap, o, Parse(_, _)) ==
    IF heap.objs[o].parsed THEN Return(heap, <<>>)
    ELSE LeftBroken(Parse(With(heap, o, "parsed", TRUE), o), o)
Confirmed(done, o) ==
    Then(done, LAMBDA heap, value : IF heap.objs[o].error THEN Raise(heap, "ParsingError") ELSE done)

(***************************************************************************)
(* DoxyIndex._parse: each compound becomes a member; of the files, headers *)
(* with their own members first.  An unknown kind raises, at the second    *)
(* call of get_cls.                                                        *)
(***************************************************************************)
AddToIndex(heap, more) == Return(With(heap, 1, "members", heap.objs[1].members \o more), <<>>)

ParseCompound(done, mem) ==
    Then(done, LAMBDA before, none :
    Then(convert_mem(before, mem), LAMBDA heap, o :
        IF o = 0 THEN Raise(heap, "StandardError")
        ELSE IF mem.kind # "file" THEN AddToIndex(heap, <<o>>)
        ELSE IF ~mem.header THEN Return(heap, <<>>)
        ELSE Then(Confirmed(Checked(heap, o, ParseObject), o), LAMBDA read, nothing :
                 AddToIndex(read, read.objs[o].members \o <<o>>))))

ParseIndex(heap) == FoldLeft(ParseCompound, Return(heap, <<>>), dir.index)

check_parsed(heap, o) ==
    Checked(heap, o, LAMBDA set, p : IF p = 1 THEN ParseIndex(set) ELSE ParseObject(set, p))

confirm_no_error(heap, o) == Confirmed(check_parsed(heap, o), o)

(***************************************************************************)
(* What a client asks.                                                     *)
(***************************************************************************)
error(heap, o) == Then(check_parsed(heap, o), LAMBDA read, none : Return(read, read.objs[o].error))

members(heap, o) == Then(confirm_no_error(heap, o), LAMBDA read, none : Return(read, read.objs[o].members))

\* name: of what it was made from, or else of a field that no compounddef has
name(heap, o) ==
    IF heap.objs[o].given THEN Return(heap, heap.objs[o].name)
    ELSE Then(check_parsed(heap, o), LAMBDA read, none : Raise(read, "AttributeError"))

\* a plausible slip: what one category had is kept for all of them
KeptForAny(cat) == "DoxyFunction"
\* the entry of _in_category
KeptFor(cat) == cat

\* a turn of in_category's loop, by what its category includes
Select(cat, done, mem, Includes(_, _, _)) ==
    Then(done, LAMBDA before, found :
    Then(Includes(before, cat, mem), LAMBDA after, yes :
        Return(after, IF yes THEN Append(found, mem) ELSE found)))

Category(heap, o, cat, Selects(_, _, _)) ==
    Then(confirm_no_error(heap, o), LAMBDA read, none :
        IF cat = "None" THEN Return(read, read.objs[o].members)
        ELSE IF KeptFor(cat) \in DOMAIN read.objs[o].inCategory
        THEN Return(read, read.objs[o].inCategory[KeptFor(cat)])
        ELSE Then(FoldLeft(LAMBDA done, mem : Selects(cat, done, mem), Return(read, <<>>), read.objs[o].members),
                  LAMBDA asked, found :
                      Return([asked EXCEPT !.objs[o].inCategory = Put(@, KeptFor(cat), found)], found)))

\* in a dictionary: the class Duplicate
Duplicate == -1

Enter(cat, done, mem) ==
    Then(done, LAMBDA before, dict :
    Then(IF mem = 0 THEN Raise(before, "AttributeError") ELSE name(before, mem), LAMBDA named, path :
        Return(named, Put(dict, path, IF path \in DOMAIN dict THEN Duplicate ELSE mem))))

Dictionary(heap, o, cat, InCategory(_, _, _)) ==
    Then(confirm_no_error(heap, o), LAMBDA read, none :
        IF cat \in DOMAIN read.objs[o].dict THEN Return(read, read.objs[o].dict[cat])
        ELSE Then(InCategory(read, o, cat), LAMBDA selected, found :
             Then(FoldLeft(LAMBDA done, mem : Enter(cat, done, mem), Return(selected, <<>>), found),
                  LAMBDA entered, dict :
                      Return([entered EXCEPT !.objs[o].dict = Put(@, cat, dict)], dict))))

\* get_member, one name of the path: each member found is asked for the next
LookUp(heap, o, first, cat, Dict(_, _, _)) ==
    Then(confirm_no_error(heap, o), LAMBDA read, none :
    Then(Dict(read, o, cat), LAMBDA known, dict :
        IF <<first>> \notin DOMAIN dict THEN Raise(known, "NoSuchMember")
        ELSE IF dict[<<first>>] = Duplicate THEN Raise(known, "Duplicate")
        ELSE Return(known, dict[<<first>>])))

(***************************************************************************)
(* The categories that are classes of objects, by isinstance.              *)
(***************************************************************************)
isinstance(heap, cat, mem) == Return(heap, mem # 0 /\ heap.objs[mem].cls = cat)
SelectInstance(cat, done, mem) == Select(cat, done, mem, isinstance)

of_class(heap, o, cat) == Category(heap, o, cat, SelectInstance)
dict_of_class(heap, o, cat) == Dictionary(heap, o, cat, of_class)
LookUpOfClass(cat, done, first) ==
    Then(done, LAMBDA heap, o : LookUp(heap, o, first, cat, dict_of_class))

\* has_member of a class of objects, which catches one exception
has_member(heap, o, path, cat) ==
    LET done == FoldLeft(LAMBDA before, first : LookUpOfClass(cat, before, first), Return(heap, o), path)
    IN  CASE done.raised = Nothing -> Return(done.heap, TRUE)
          [] done.raised = "NoSuchMember" -> Return(done.heap, FALSE)
          [] OTHER -> done

(***************************************************************************)
(* All categories: swig_doc's Block asks the object.                       *)
(***************************************************************************)
includes(heap, cat, mem) ==
    IF cat # "Block" THEN isinstance(heap, cat, mem)
    ELSE IF mem = 0 \/ heap.objs[mem].cls # "DoxyClass" THEN Return(heap, FALSE)
    ELSE Then(error(heap, mem), LAMBDA read, bad :
             IF bad THEN Return(read, FALSE)
             ELSE Then(name(read, mem), LAMBDA named, path :
                      has_member(named, mem, make_name(path), "DoxyFriend")))
SelectIncluded(cat, done, mem) == Select(cat, done, mem, includes)

in_category(heap, o, cat) == Category(heap, o, cat, SelectIncluded)
_get_dict_members(heap, o, cat) == Dictionary(heap, o, cat, in_category)
LookUpFirst(cat, done, first) ==
    Then(done, LAMBDA heap, o : LookUp(heap, o, first, cat, _get_dict_members))

get_member(heap, o, path, cat) ==
    FoldLeft(LAMBDA done, first : LookUpFirst(cat, done, first), Return(heap, o), path)

-----------------------------------------------------------------------------
(***************************************************************************)
(* A client that asks any object it has come to know anything.             *)
(***************************************************************************)
Heap == [objs |-> objs, refs |-> refs, broken |-> broken]

Becomes(heap) == objs' = heap.objs /\ refs' = heap.refs /\ broken' = heap.broken

Init ==
    /\ dir \in Directories
    /\ objs = <<Object("DoxyIndex", NoRef, <<>>, TRUE, <<"index">>)>>
    /\ refs = <<>>
    /\ broken = {}
    /\ calls = 0

\* the objects that a client may hold
Known == {1} \cup ((UNION {Range(objs[o].members) : o \in DOMAIN objs}) \ {0})

Members(o) == Becomes(members(Heap, o).heap)
InCategory(o) == \E cat \in Categories : Becomes(in_category(Heap, o, cat).heap)
GetMember(o) == \E path \in Asked, cat \in Categories : Becomes(get_member(Heap, o, path, cat).heap)
Error(o) == Becomes(error(Heap, o).heap)

Call ==
    /\ calls < MaxCalls
    /\ calls' = calls + 1
    /\ \E o \in Known : Members(o) \/ InCategory(o) \/ GetMember(o) \/ Error(o)
    /\ UNCHANGED dir

-----------------------------------------------------------------------------
(***************************************************************************)
(* The same answers by a reader that parses a file whenever it is asked    *)
(* and keeps nothing, of a directory d.  It names what it finds by its     *)
(* place: the index, a file, or a member of a file, <<>> for None.         *)
(***************************************************************************)
Answer(value) == [raised |-> Nothing, value |-> value]
Refuse(what) == [raised |-> what, value |-> <<>>]
AndThen(told, After(_)) == IF told.raised # Nothing THEN told ELSE After(told.value)

Index == <<"index">>
Compound(d, refid) == CHOOSE mem \in Range(d.index) : mem.refid = refid
\* what is written of it: of the index nothing
Description(d, what) ==
    IF what = Index THEN [kind |-> "index", name |-> <<>>]
    ELSE IF Len(what) = 1 THEN Compound(d, what[1]) ELSE d.files[what[1]].members[what[2]]
KindOf(d, what) ==
    IF what = Index THEN "DoxyIndex" ELSE IF what = <<>> THEN "none" ELSE Classes[Description(d, what).kind]

\* whether it is described, where it is written itself
Described(d, what) ==
    IF Len(what) = 1 THEN d.files[what[1]].described ELSE d.files[what[1]].members[what[2]].described

FoundInFile(of, found, i) ==
    IF FirstOfName(of.members, i)
    THEN Append(found, IF of.members[i].kind \in DOMAIN Classes THEN <<of.refid, i>> ELSE <<>>)
    ELSE found
MembersInFile(d, refid) ==
    LET of == [refid |-> refid, members |-> d.files[refid].members]
    IN  FoldLeft(LAMBDA found, i : FoundInFile(of, found, i), <<>>, [i \in DOMAIN of.members |-> i])

Inner(refids) == [i \in DOMAIN refids |-> <<refids[i]>>]
FileRead(d, what) ==
    LET file == d.files[what[1]]
    IN  IF what[1] \notin DOMAIN d.files THEN Refuse("IOError")
        ELSE IF file.status = "bad"
        THEN Refuse(IF KindOf(d, what) = "DoxyFile" THEN "AttributeError" ELSE "ParsingError")
        ELSE IF KindOf(d, what) = "DoxyGroup"
        THEN Answer((Inner(file.groups) \o Inner(file.classes)) \o MembersInFile(d, what[1]))
        ELSE Answer(MembersInFile(d, what[1]))

CompoundRead(d, done, mem) ==
    AndThen(done, LAMBDA before :
        IF mem.kind \notin DOMAIN Classes THEN Refuse("StandardError")
        ELSE IF mem.kind # "file" THEN Answer(Append(before, <<mem.refid>>))
        ELSE IF ~mem.header THEN done
        ELSE AndThen(FileRead(d, <<mem.refid>>), LAMBDA more : Answer(before \o (more \o <<<<mem.refid>>>>))))
IndexRead(d) == FoldLeft(LAMBDA done, mem : CompoundRead(d, done, mem), Answer(<<>>), d.index)

MembersOf(d, what) ==
    IF what = Index THEN IndexRead(d)
    ELSE IF KindOf(d, what) \in OfFiles THEN FileRead(d, what)
    ELSE Answer(<<>>)

BadRead(read) == IF read.raised \in {Nothing, "ParsingError"} THEN Answer(read.raised # Nothing) ELSE read
ErrorOf(d, what) == BadRead(MembersOf(d, what))

\* a class of a file that can be read, with the friend by whose name blocks are told
IsBlock(d, what) ==
    /\ KindOf(d, what) = "DoxyClass" /\ MembersOf(d, what).raised = Nothing
    /\ \E mem \in Range(MembersOf(d, what).value) :
          /\ KindOf(d, mem) = "DoxyFriend"
          /\ Description(d, mem).name = make_name(Description(d, what).name)

Belongs(d, cat, mem) == IF cat = "Block" THEN IsBlock(d, mem) ELSE mem # <<>> /\ KindOf(d, mem) = cat
CannotTell(d, cat, mem) == cat = "Block" /\ KindOf(d, mem) = "DoxyClass" /\ ErrorOf(d, mem).raised # Nothing

CategoryOf(d, what, cat) ==
    AndThen(MembersOf(d, what), LAMBDA mems :
        IF cat = "None" THEN Answer(mems)
        ELSE IF \E mem \in Range(mems) : CannotTell(d, cat, mem) THEN Refuse("IOError")
        ELSE Answer(Those(mems, LAMBDA mem : Belongs(d, cat, mem))))

\* the places at which a name is among members
Named(d, mems, path) == {n \in DOMAIN mems : Description(d, mems[n]).name = path}
NextOf(d, what, first, cat) ==
    AndThen(CategoryOf(d, what, cat), LAMBDA mems :
        LET named == Named(d, mems, <<first>>) IN
        IF <<>> \in Range(mems) THEN Refuse("AttributeError")
        ELSE IF named = {} THEN Refuse("NoSuchMember")
        ELSE IF \E n, m \in named : n # m THEN Refuse("Duplicate")
        ELSE Answer(mems[CHOOSE n \in named : TRUE]))

MemberOf(d, what, path, cat) ==
    FoldLeft(LAMBDA told, first : AndThen(told, LAMBDA one : NextOf(d, one, first, cat)), Answer(what), path)

\* an answer by what the objects in it stand for
What(heap, o) == IF o = 0 THEN <<>> ELSE heap.objs[o].what
Told(done) == [raised |-> done.raised,
               value |-> [i \in DOMAIN done.value |-> What(done.heap, done.value[i])]]

SameAs(told, found) == told.raised = found.raised /\ (found.raised = Nothing => told.value = found.value)
ToldOf(done) == [raised |-> done.raised, value |-> IF done.raised = Nothing THEN What(done.heap, done.value) ELSE <<>>]

\* As long as no parse has been left half done by an exception that is none of
\* the library's own, what any object answers, a value or an exception, is what a
\* fresh reading of the files would have told, in whatever order objects have
\* been asked before: _parsed, _error, _refs, _in_category and _dict_members never
\* show (base.py, doxyindex.py).
AnswersAsEager ==
    broken = {} =>
        \A o \in Known :
            LET what == objs[o].what IN
            /\ SameAs(Told(members(Heap, o)), MembersOf(dir, what))
            /\ SameAs(error(Heap, o), ErrorOf(dir, what))
            /\ o # 1 => name(Heap, o).value = Description(dir, what).name
            /\ \A cat \in Categories :
                  /\ SameAs(Told(in_category(Heap, o, cat)), CategoryOf(dir, what, cat))
                  /\ \A path \in Asked :
                        SameAs(ToldOf(get_member(Heap, o, path, cat)), MemberOf(dir, what, path, cat))

\* A compound is one object, by whatever way it was reached first: the index, a
\* group, or another group within that one.
OneObjectPerRefid ==
    \A o, p \in DOMAIN objs : objs[o].refid = objs[p].refid /\ objs[o].refid # NoRef => o = p
=============================================================================
