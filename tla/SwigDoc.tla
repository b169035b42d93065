------------------------------- MODULE SwigDoc -------------------------------
(***************************************************************************)
(* make_swig_interface_file (src/docs/doxygen/swig_doc.py), which writes   *)
(* the docstrings of all functions and classes of a Doxygen directory for  *)
(* SWIG: first of the blocks, each with the function that makes it and     *)
(* with its header, then of the other functions, then of the other         *)
(* classes.  It asks the objects of DoxyIndex, which may have been asked   *)
(* by others before, and lets every exception out but ParsingError.        *)
(***************************************************************************)
EXTENDS DoxyIndex

CONSTANT Operators   \* the words with "operator " in them
ASSUME OperatorsAssumption == Operators \subseteq STRING

VARIABLES
    stage,       \* what is written at the moment; "client" before, "written" or "stopped" after
    todo,        \* the objects still to be written in this stage
    blocks,      \* the objects that are blocks
    make_funcs,  \* the names of the functions that make them
    entries      \* what has been written of what

wvars == <<dir, objs, refs, broken, calls, stage, todo, blocks, make_funcs, entries>>

WInit ==
    /\ Init
    /\ stage = "client"
    /\ todo = <<>> /\ blocks = <<>> /\ make_funcs = {} /\ entries = <<>>

\* a client asks; one that has met an exception not of the library writes nothing
Ask ==
    /\ stage = "client"
    /\ Call
    /\ UNCHANGED <<stage, todo, blocks, make_funcs, entries>>

\* an operation of the script, and what follows if nothing is raised
Does(done) ==
    /\ Becomes(done.heap)
    /\ UNCHANGED <<dir, calls>>

Stops(done) ==
    /\ done.raised # Nothing
    /\ Does(done)
    /\ stage' = "stopped"
    /\ UNCHANGED <<todo, blocks, make_funcs, entries>>

FindBlocks ==
    /\ stage = "client" /\ broken = {}
    /\ \E found \in {in_category(Heap, 1, "Block")} :
          \/ Stops(found)
          \/ /\ found.raised = Nothing
             /\ Does(found)
             /\ stage' = "blocks"
             /\ blocks' = found.value
             /\ todo' = found.value
             /\ UNCHANGED <<make_funcs, entries>>

\* a plausible slip: a block must have a header of its name
SureOfHeader(header) == header.raised = Nothing
\* make_block_entry goes on without the header's description if there is none
SureOf(header) == header.raised \in {Nothing, "NoSuchMember"}

\* whether the descriptions of an object that has been parsed come to anything
combine_descriptions(heap, o) == Described(dir, heap.objs[o].what)

IsOperator(path) == \E n \in DOMAIN path : path[n] \in Operators

\* make_entry: the entry of an object, unless it is an operator or nothing is said of it
make_entry(heap, o, as, docstring) ==
    IF IsOperator(heap.objs[o].name) \/ ~docstring THEN <<>> ELSE <<<<as, heap.objs[o].what>>>>

\* make_block_entry, from the make function to the parameters of the constructor: all
\* that is said of the class, that function and the header goes to both entries, and the
\* function's has its parameters too
make_block_entry(heap, block) ==
    LET path == heap.objs[block].name
        Header(done) ==
            IF SureOf(done)
            THEN Return(done.heap, done.raised = Nothing /\ combine_descriptions(done.heap, done.value))
            ELSE done
    IN  Then(get_member(heap, 1, make_name(path), "DoxyFunction"), LAMBDA found, make :
        Then(Header(get_member(found, 1, HeaderName(path), "DoxyFile")), LAMBDA headed, file_desc :
        Then(in_category(headed, block, "DoxyFunction"), LAMBDA asked, functions :
        Then(get_member(asked, block, path, "DoxyFunction"), LAMBDA done, creator :
            Return(done, make_entry(done, block, "block", \/ combine_descriptions(done, block)
                                                          \/ combine_descriptions(done, make)
                                                          \/ file_desc)
                         \o make_entry(done, make, "make", TRUE))))))

\* make_class_entry: its descriptions, and its functions, whose own entries are not
\* counted among the entries here
make_class_entry(heap, klass) ==
    Then(confirm_no_error(heap, klass), LAMBDA read, data :
    Then(in_category(read, klass, "DoxyFunction"), LAMBDA done, functions :
        Return(done, make_entry(done, klass, "class", combine_descriptions(done, klass)))))

\* make_func_entry, whose docstring has the parameters at least
make_func_entry(heap, func) ==
    Then(confirm_no_error(heap, func), LAMBDA done, data :
        Return(done, make_entry(done, func, "function", TRUE)))

\* one turn of a loop, which a ParsingError does not leave
WriteEntry(done) ==
    \/ done.raised # "ParsingError" /\ Stops(done)
    \/ /\ done.raised \in {Nothing, "ParsingError"}
       /\ Does(done)
       /\ entries' = entries \o done.value
       /\ todo' = Tail(todo)
       /\ UNCHANGED <<stage, blocks>>

BlockEntry ==
    /\ stage = "blocks" /\ todo # <<>>
    /\ WriteEntry(make_block_entry(Heap, Head(todo)))
    /\ make_funcs' = IF stage' = "blocks" THEN make_funcs \cup {make_name(objs[Head(todo)].name)} ELSE make_funcs

FunctionEntry ==
    /\ stage = "functions" /\ todo # <<>>
    /\ WriteEntry(make_func_entry(Heap, Head(todo)))
    /\ UNCHANGED make_funcs

ClassEntry ==
    /\ stage = "classes" /\ todo # <<>>
    /\ WriteEntry(make_class_entry(Heap, Head(todo)))
    /\ UNCHANGED make_funcs

\* a plausible slip: what an earlier loop has written is written again
WrittenNever(o, names) == FALSE
\* an earlier loop has written this object, or one of its name
Written(o, names) == objs[o].name \in names

\* the functions, or the classes, that have no entry yet
NextLoop(from, to, cat, names) ==
    /\ stage = from /\ todo = <<>>
    /\ \E found \in {in_category(Heap, 1, cat)} :
          /\ Does(found)
          /\ todo' = Those(found.value, LAMBDA o : ~Written(o, names))
    /\ stage' = to
    /\ UNCHANGED <<blocks, make_funcs, entries>>

FindFunctions == NextLoop("blocks", "functions", "DoxyFunction", make_funcs)
FindClasses == NextLoop("functions", "classes", "DoxyClass", {objs[o].name : o \in Range(blocks)})

WriteFile ==
    /\ stage = "classes" /\ todo = <<>>
    /\ stage' = "written"
    /\ UNCHANGED <<dir, objs, refs, broken, calls, todo, blocks, make_funcs, entries>>

Done == (stage \in {"written", "stopped"} \/ broken # {}) /\ UNCHANGED wvars

WNext ==
    \/ Ask \/ FindBlocks \/ BlockEntry \/ FindFunctions \/ FunctionEntry
    \/ FindClasses \/ ClassEntry \/ WriteFile \/ Done

WSpec == WInit /\ [][WNext]_wvars

-----------------------------------------------------------------------------
Functions == Range(CategoryOf(dir, Index, "DoxyFunction").value)
Klasses == Range(CategoryOf(dir, Index, "DoxyClass").value)
Blocks == Range(CategoryOf(dir, Index, "Block").value)

Times(entry) == Cardinality({i \in DOMAIN entries : entries[i] = entry})
NameOf(what) == Description(dir, what).name

MakeOfBlock(block) == MemberOf(dir, Index, make_name(NameOf(block)), "DoxyFunction")
HeaderOfBlock(block) == MemberOf(dir, Index, HeaderName(NameOf(block)), "DoxyFile")

\* what a block needs so that its entry can be made
Documented(block) ==
    /\ MakeOfBlock(block).raised = Nothing
    /\ HeaderOfBlock(block).raised # "Duplicate"
    /\ MemberOf(dir, block, NameOf(block), "DoxyFunction").raised = Nothing

\* of a block, its class, its make function or its header, if there is one, says something
SomethingSaid(c) ==
    \/ Described(dir, c)
    \/ c \in Blocks /\ Described(dir, MakeOfBlock(c).value)
    \/ c \in Blocks /\ HeaderOfBlock(c).raised = Nothing /\ Described(dir, HeaderOfBlock(c).value)

\* A file that is written has each block, with its make function, and each other
\* function and class once, as what it is, whatever was asked before.  Left out are a
\* class whose own file cannot be parsed, a class of which nothing is said, by its
\* make function and its header neither if it is a block, and all whose
\* name has "operator " in it (make_swig_interface_file's three loops, the names by which
\* the later ones leave out what the first has written, and make_entry's two returns
\* of an empty string).
EntriesComplete ==
    stage = "written" =>
        /\ \A c \in Klasses :
              LET told == ~ErrorOf(dir, c).value /\ ~IsOperator(NameOf(c)) /\ SomethingSaid(c) IN
              /\ Times(<<"block", c>>) = IF c \in Blocks /\ told THEN 1 ELSE 0
              /\ Times(<<"class", c>>) = IF c \notin Blocks /\ told THEN 1 ELSE 0
        /\ \A f \in Functions :
              Times(<<"function", f>>) + Times(<<"make", f>>) = IF IsOperator(NameOf(f)) THEN 0 ELSE 1

\* The script ends without a file only for a reason in the directory: the index
\* or a header that cannot be read, a class whose file is missing, a block whose
\* make function or constructor is not documented, or is so twice; and then it never
\* writes one (the except clauses of the loops let all but ParsingError pass).
StopsForCause ==
    LET cause == \/ IndexRead(dir).raised # Nothing
                 \/ \E c \in Klasses : ErrorOf(dir, c).raised # Nothing
                 \/ \E b \in Blocks : ~Documented(b)
    IN  /\ stage = "stopped" => cause
        /\ stage = "written" => ~cause
=============================================================================
