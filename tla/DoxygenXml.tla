----------------------------- MODULE DoxygenXml -----------------------------
(***************************************************************************)
(* Reading, describing and writing Doxygen's XML                           *)
(* (src/docs/doxygen/doxyxml/generated/compoundsuper.py, compound.py,      *)
(* index.py and doxyxml/text.py).  A file comes from minidom as a tree of  *)
(* elements, texts and CDATA sections; here it grows in the order of the   *)
(* file, any element anywhere, and is then read by build, made into text   *)
(* by description, written by export, and read again.                      *)
(*                                                                         *)
(* A string is a sequence of words, where "special" stands for the         *)
(* characters that XML must escape, "blank" for white space, "break" for   *)
(* what description puts after a paragraph, and "repr" for what Python     *)
(* writes for an object.  Indentation in the file that export writes is    *)
(* left out: it only adds blanks.                                          *)
(***************************************************************************)
EXTENDS DoxygenTypes, SequencesExt

CONSTANTS
    Roots,     \* the classes of the element that is read, each with the number of nodes in it
    Words      \* the words of a text

ASSUME RootsAssumption == DOMAIN Roots \subseteq DOMAIN Types /\ \A class \in DOMAIN Roots : Roots[class] \in Nat

VARIABLES
    class,     \* the class that reads the file's outermost element
    open,      \* the elements of the file that are not ended yet, the outermost first
    stage,     \* how far the file has got
    object,    \* what build has made of it
    text,      \* what description has made of that
    again      \* what build has made of what export has written, None if it raises

vars == <<class, open, stage, object, text, again>>

(***************************************************************************)
(* The nodes of a file.                                                    *)
(***************************************************************************)
Element(tag, attrs) == [tag |-> tag, attrs |-> attrs, words |-> <<>>, kids |-> <<>>]
Text(words) == [tag |-> "#text", attrs |-> None, words |-> words, kids |-> <<>>]
CData(words) == [tag |-> "#cdata", attrs |-> None, words |-> words, kids |-> <<>>]

IsElement(node) == node.tag \notin {"#text", "#cdata"}

\* the class of a child element, "" where there is none
Ways(type) == type.one @@ type.many @@ type.inline @@ type.ownInline @@ type.ownMany
WayOf(ways, tag) == IF tag \in DOMAIN ways THEN ways[tag] ELSE ""
ClassOf(cls, tag) == IF cls = "" THEN "" ELSE WayOf(Ways(Types[cls]), tag)

\* the children that are read as one string
Strings(type) == type.simple \cup type.strings \cup type.inlineText
StringIn(node) == FlattenSeq([i \in DOMAIN node.kids |-> node.kids[i].words])

(***************************************************************************)
(* build: the attributes, then each child in its order.                    *)
(***************************************************************************)
String(words) == [class |-> "", words |-> words]

LastOf(seq) == IF seq = <<>> THEN <<>> ELSE <<Last(seq)>>

\* the pieces of valueOf_
Pieces(node) ==
    LET texts == SelectSeq(node.kids, LAMBDA kid : ~IsElement(kid))
    IN  [i \in DOMAIN texts |-> [cdata |-> texts[i].tag = "#cdata", words |-> texts[i].words]]

RECURSIVE BuildAs(_, _, _)
Build(cls, node) == BuildAs(Types[cls], cls, node)

\* what a child adds to content_, a MixedContainer or nothing
Mixed(type, kid) ==
    CASE kid.tag \in DOMAIN type.inline ->
            <<[name |-> kid.tag, value |-> Build(type.inline[kid.tag], kid)]>>
      [] kid.tag \in type.inlineText -> <<[name |-> kid.tag, value |-> String(StringIn(kid))]>>
      [] kid.tag = "#text" /\ type.text -> <<[name |-> "", value |-> String(kid.words)]>>
      [] OTHER -> <<>>

\* what a child adds to docParaTypeSub's content
Own(type, kid) ==
    CASE kid.tag \in DOMAIN type.ownInline ->
            <<[name |-> "", value |-> Build(type.ownInline[kid.tag], kid)]>>
      [] kid.tag = "#text" /\ type.ownInline # None -> <<[name |-> "", value |-> String(kid.words)]>>
      [] OTHER -> <<>>

BuildAs(type, cls, node) ==
    LET Kids(tag) == SelectSeq(node.kids, LAMBDA kid : kid.tag = tag)
        AsStrings(tag) == [i \in DOMAIN Kids(tag) |-> String(StringIn(Kids(tag)[i]))]
        Objects(ways) ==
            [tag \in DOMAIN ways |-> [i \in DOMAIN Kids(tag) |-> Build(ways[tag], Kids(tag)[i])]]
        Single(objects) == [tag \in DOMAIN objects |-> LastOf(objects[tag])]
    IN  [class |-> cls,
         attrs |-> [a \in type.attrs \cap DOMAIN node.attrs |-> node.attrs[a]],
         fields |-> [tag \in type.simple |-> LastOf(AsStrings(tag))]
                    @@ [tag \in type.strings |-> AsStrings(tag)]
                    @@ Single(Objects(type.one)) @@ Objects(type.many @@ type.ownMany),
         content |-> FlattenSeq([i \in DOMAIN node.kids |-> Mixed(type, node.kids[i])]),
         value |-> IF type.value THEN Pieces(node) ELSE <<>>,
         own |-> FlattenSeq([i \in DOMAIN node.kids |-> Own(type, node.kids[i])])]

\* build raises: a number that is none, or an element where a string is gathered
RECURSIVE RaisesAs(_, _)
BuildRaises(cls, node) == RaisesAs(Types[cls], node)
RaisesAs(type, node) ==
    \/ \E a \in type.ints \cap DOMAIN node.attrs : node.attrs[a] # "number"
    \/ \E i \in DOMAIN node.kids :
          LET kid == node.kids[i] IN
          \/ kid.tag \in Strings(type) /\ \E j \in DOMAIN kid.kids : IsElement(kid.kids[j])
          \/ WayOf(Ways(type), kid.tag) # "" /\ BuildRaises(WayOf(Ways(type), kid.tag), kid)

(***************************************************************************)
(* description: of an object with content, of one with content_, of a      *)
(* string; each paragraph is followed by a break.                          *)
(***************************************************************************)
\* a plausible slip: content_ is looked for before content
SaidFirst(obj) == obj.content

Said(obj) == IF Types[obj.class].ownInline # None THEN obj.own ELSE obj.content

RECURSIVE DescribeAll(_)
description_bit(obj) ==
    IF obj.class = "" THEN obj.words
    ELSE DescribeAll(Said(obj))
DescribeAll(items) ==
    FlattenSeq([i \in DOMAIN items |->
        description_bit(items[i].value) \o (IF items[i].name = "para" THEN <<"break">> ELSE <<>>)])

Strip(words) ==
    LET kept == {i \in DOMAIN words : words[i] \notin {"blank", "break"}}
    IN  IF kept = {} THEN <<>> ELSE SubSeq(words, Min(kept), Max(kept))

description(obj) == Strip(description_bit(obj))

(***************************************************************************)
(* export: of an object with valueOf_ that string only, of one with        *)
(* content_ that list, of any other its children.  Strings and valueOf_    *)
(* are quoted, also within CDATA, what stands in content_ is not.  The     *)
(* title of a compound is an object by build and a string by export.       *)
(***************************************************************************)
Quoted(words) == [i \in DOMAIN words |-> IF words[i] = "special" THEN "quoted" ELSE words[i]]

\* a plausible slip: the last piece of valueOf_ is all that is left of it
PiecesWrittenLast(obj) ==
    LET piece == Last(obj.value)
    IN  IF obj.value = <<>> THEN <<>> ELSE <<IF piece.cdata THEN CData(piece.words) ELSE Text(piece.words)>>

\* valueOf_ as the nodes it is read as again
PiecesWritten(obj) ==
    [i \in DOMAIN obj.value |->
        IF obj.value[i].cdata THEN CData(Quoted(obj.value[i].words)) ELSE Text(obj.value[i].words)]

StringElement(tag, words) == [Element(tag, None) EXCEPT !.kids = IF words = <<>> THEN <<>> ELSE <<Text(words)>>]

RECURSIVE WrittenAs(_, _, _)
Written(name, obj) == WrittenAs(Types[obj.class], name, obj)

ItemWritten(item) ==
    CASE item.value.class # "" -> Written(item.name, item.value)
      [] item.name # "" -> StringElement(item.name, item.value.words)
      [] OTHER -> Text(item.value.words)

FieldWritten(obj, tag) ==
    [i \in DOMAIN obj.fields[tag] |->
        LET value == obj.fields[tag][i] IN
        CASE obj.class = "compounddefType" /\ tag = "title" -> StringElement(tag, <<"repr">>)
          [] value.class # "" -> Written(tag, value)
          [] OTHER -> StringElement(tag, value.words)]

WrittenAs(type, name, obj) ==
    [tag |-> name, words |-> <<>>,
     attrs |-> obj.attrs @@ (IF "version" \in type.attrs THEN [version |-> "None"] ELSE None),
     kids |-> CASE type.value -> PiecesWritten(obj)
                [] type.text -> [i \in DOMAIN obj.content |-> ItemWritten(obj.content[i])]
                [] OTHER -> FoldSet(LAMBDA tag, kids : kids \o FieldWritten(obj, tag), <<>>,
                                    type.simple \cup type.strings \cup DOMAIN (type.one @@ type.many))]

\* what export writes is no XML: a character to be escaped stands in content_
RECURSIVE Malformed(_)
Malformed(obj) ==
    /\ obj.class # "" /\ ~Types[obj.class].value
    /\ \/ \E i \in DOMAIN obj.content :
             LET value == obj.content[i].value
             IN  IF value.class = "" THEN "special" \in Range(value.words) ELSE Malformed(value)
       \/ \E tag \in DOMAIN obj.fields : \E i \in DOMAIN obj.fields[tag] :
             ~(obj.class = "compounddefType" /\ tag = "title") /\ Malformed(obj.fields[tag][i])

(***************************************************************************)
(* The file grows, is read, described, written and read again.             *)
(***************************************************************************)
RECURSIVE Size(_)
Size(nodes) == FoldSeq(LAMBDA node, n : n + 1 + Size(node.kids), 0, nodes)

\* attributes: none, or all that the class knows and one that it does not
AttributesOf(type) ==
    LET values == IF type.ints = {} THEN {"word"} ELSE {"word", "number"}
    IN  {None} \cup {[a \in type.attrs \cup {"unknown"} |-> value] : value \in values}

Init ==
    /\ class \in DOMAIN Roots
    /\ \E attrs \in AttributesOf(Types[class]) : open = <<[cls |-> class, node |-> Element("root", attrs)]>>
    /\ stage = "growing"
    /\ object = None /\ text = None /\ again = None

Growing ==
    /\ stage = "growing"
    /\ Size([i \in DOMAIN open |-> open[i].node]) <= Roots[class]
    /\ UNCHANGED <<class, stage, object, text, again>>

\* an element that the open one's class knows, or one that it does not
Tags(type) == Strings(type) \cup DOMAIN Ways(type)

StartElement ==
    /\ Growing
    /\ LET cls == Last(open).cls IN
       \E tag \in {"unknown"} \cup (IF cls = "" THEN {} ELSE Tags(Types[cls])) :
          open' = Append(open, [cls |-> ClassOf(cls, tag), node |-> Element(tag, None)])

Added(frames, node) == [frames EXCEPT ![Len(frames)].node.kids = Append(@, node)]

\* minidom joins texts that follow one another
AddText ==
    /\ Growing
    /\ LET kids == Last(open).node.kids IN kids # <<>> => Last(kids).tag # "#text"
    /\ \E word \in Words : \E node \in {Text(<<word>>), CData(<<word>>)} : open' = Added(open, node)

EndElement ==
    /\ stage = "growing" /\ Len(open) > 1
    /\ open' = Added(Front(open), Last(open).node)
    /\ UNCHANGED <<class, stage, object, text, again>>

Root == open[1].node

Read ==
    /\ stage = "growing" /\ Len(open) = 1
    /\ ~BuildRaises(class, Root)
    /\ object' = Build(class, Root)
    /\ stage' = "read"
    /\ UNCHANGED <<class, open, text, again>>

ReadRaises ==
    /\ stage = "growing" /\ Len(open) = 1
    /\ BuildRaises(class, Root)
    /\ stage' = "raised"
    /\ UNCHANGED <<class, open, object, text, again>>

\* the classes that stand in a description, with their place in it
Places ==
    [descriptionType |-> <<"section", 0>>, docSect1Type |-> <<"section", 1>>,
     docSect2Type |-> <<"section", 2>>, docSect3Type |-> <<"section", 3>>,
     docSect4Type |-> <<"section", 4>>, docInternalType |-> <<"internal", 0>>,
     docInternalS1Type |-> <<"internal", 1>>, docInternalS2Type |-> <<"internal", 2>>,
     docInternalS3Type |-> <<"internal", 3>>, docInternalS4Type |-> <<"internal", 4>>,
     docParaType |-> <<"para", 0>>, docTitleType |-> <<"line", 0>>, docRefTextType |-> <<"line", 0>>]

\* description changes nothing of the object; it is written afterwards
Describable == class \in DOMAIN Places /\ text = None

Describe ==
    /\ stage = "read"
    /\ Describable
    /\ text' = <<description(object)>>
    /\ UNCHANGED <<class, open, stage, object, again>>

\* export, and a parser that finds no XML in what it has written
WriteMalformed ==
    /\ stage = "read" /\ ~Describable
    /\ Malformed(object)
    /\ stage' = "malformed"
    /\ UNCHANGED <<class, open, object, text, again>>

WriteAndReadAgain ==
    /\ stage = "read" /\ ~Describable
    /\ ~Malformed(object)
    /\ LET file == Written("root", object)
       IN  again' = IF BuildRaises(class, file) THEN None ELSE <<Build(class, file)>>
    /\ stage' = "again"
    /\ UNCHANGED <<class, open, object, text>>

Done == stage \in {"raised", "malformed", "again"} /\ UNCHANGED vars

Next ==
    \/ StartElement \/ AddText \/ EndElement
    \/ Read \/ ReadRaises \/ Describe \/ WriteMalformed \/ WriteAndReadAgain
    \/ Done

Spec == Init /\ [][Next]_vars

-----------------------------------------------------------------------------
(***************************************************************************)
(* What is read.                                                           *)
(***************************************************************************)
SectTags == <<"sect1", "sect2", "sect3", "sect4">>

\* the tag of a section within a section, or within its internal part, of a level
NextSect(kind, level) ==
    CASE level = 4 -> "none"
      [] kind = "internal" /\ level = 3 -> "sect3"
      [] OTHER -> SectTags[level + 1]

\* the text in the order of the file, a break after each paragraph
RECURSIVE Told(_, _, _)
Told(node, kind, level) ==
    FlattenSeq([i \in DOMAIN node.kids |->
        LET kid == node.kids[i] IN
        CASE kid.tag = "#text" -> kid.words
          [] kid.tag = "para" /\ kind \in {"section", "internal"} -> Told(kid, "para", 0) \o <<"break">>
          [] kid.tag = "ref" /\ kind = "para" -> Told(kid, "line", 0)
          [] kid.tag = "title" /\ kind = "section" -> Told(kid, "line", 0)
          [] kid.tag = "internal" /\ kind = "section" -> Told(kid, "internal", level)
          [] kind \in {"section", "internal"} /\ kid.tag = NextSect(kind, level) ->
                Told(kid, "section", level + 1)
          [] OTHER -> <<>>])

\* A description is the text of its paragraphs, references, titles, sections
\* and internal parts, complete and in the order of the file, with a break after
\* each paragraph, whatever else stands between them: nothing of an unknown
\* element, of a list in a paragraph or of a CDATA section is in it, nothing is in
\* it twice though a paragraph keeps its text three times, and describing raises
\* nothing.  A section within the internal part of a third-level section is
\* read by the tag sect3 only (text.py description_bit, docParaTypeSub).
DescriptionIsText ==
    text # None => text[1] = Strip(Told(Root, Places[class][1], Places[class][2]))

(***************************************************************************)
(* What is written.                                                        *)
(***************************************************************************)
\* an object but for what export does not write, or writes otherwise
RECURSIVE NormalAs(_, _)
Normal(obj) == IF obj.class = "" THEN obj ELSE NormalAs(Types[obj.class], obj)
NormalAs(type, obj) ==
    LET Alone(item) ==
            IF item.name = "" /\ item.value.class = ""
            THEN [i \in DOMAIN item.value.words |-> [name |-> "", value |-> String(<<item.value.words[i]>>)]]
            ELSE <<[name |-> item.name, value |-> Normal(item.value)]>>
        Letters(piece) == [i \in DOMAIN piece.words |->
                              IF piece.cdata THEN <<"cdata", Quoted(piece.words)[i]>> ELSE <<"text", piece.words[i]>>]
    IN  [class |-> obj.class,
         attrs |-> obj.attrs @@ (IF "version" \in type.attrs THEN [version |-> "None"] ELSE None),
         fields |-> [tag \in (type.simple \cup type.strings \cup DOMAIN (type.one @@ type.many))
                              \ (IF obj.class = "compounddefType" THEN {"title"} ELSE {}) |->
                        [i \in DOMAIN obj.fields[tag] |-> Normal(obj.fields[tag][i])]],
         content |-> FlattenSeq([i \in DOMAIN obj.content |-> Alone(obj.content[i])]),
         value |-> FlattenSeq([i \in DOMAIN obj.value |-> Letters(obj.value[i])])]

\* What export has written can be read, and is read as the same object, of any
\* class, but for what a paragraph keeps besides its text (export writes none of
\* its references and lists), the title of a compound (build makes it an
\* object, export takes it for a string), special characters within CDATA
\* (they are quoted there too) and the version None where there was none.
SameAgain ==
    stage = "again" => again # None /\ Normal(again[1]) = Normal(object)
=============================================================================
