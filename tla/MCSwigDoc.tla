------------------------------ MODULE MCSwigDoc ------------------------------
(***************************************************************************)
(* Directories with a class that is a block or is not and a header, which  *)
(* may have another name, with what can be wrong in them: another header   *)
(* has the same functions or the same name, or a compound of unknown kind  *)
(* leaves the index half read, with one group whose other, within it, is   *)
(* not there yet. In some the groups have the class too; in some the block *)
(* is described by its make function or its header only, or by nothing; in *)
(* one are other classes, one described and one not.                       *)
(***************************************************************************)
EXTENDS SwigDoc

Ident(kind, n) == [kind |-> kind, name |-> <<n>>, described |-> TRUE]
File0(mems) == [status |-> "good", described |-> TRUE, members |-> mems, groups |-> <<>>, classes |-> <<>>]
Said(of, described) == [of EXCEPT !.described = described]
Bad == [File0(<<>>) EXCEPT !.status = "bad"]
NoFile == [File0(<<>>) EXCEPT !.status = "none"]

\* a block, one without a documented constructor, and one with a member of unknown kind
Block1 == File0(<<Ident("friend", "make_b"), Ident("function", "b"), Ident("function", "b")>>)
NoCreator == File0(<<Ident("friend", "make_b"), Ident("variable", "x")>>)
Odd == File0(<<Ident("friend", "make_b"), Ident("function", "b"), Ident("signal", "s")>>)

Make == File0(<<Ident("function", "make_b"), Ident("function", "f")>>)
NoMake == File0(<<Ident("function", "f")>>)

Entry(kind, refid, path) ==
    [kind |-> kind, refid |-> refid, name |-> path, what |-> <<refid>>, header |-> kind = "file"]

Class == Entry("class", "c", <<"b">>)
Nested == Entry("class", "c", <<"n", "b">>)
Header == Entry("file", "h", <<"b.h">>)
Apart == Entry("file", "h", <<"a.h">>)
Other == Entry("file", "o", <<"o.h">>)
Twin == Entry("file", "t", <<"b.h">>)
Group == Entry("group", "g", <<"g">>)
Within == Entry("group", "i", <<"i">>)
Unknown == Entry("example", "e", <<"e">>)
Others == <<Entry("class", "d", <<"d">>), Entry("class", "u", <<"u">>)>>

Directory(compounds, class, header) ==
    [index |-> compounds,
     files |-> RestrictDomain(
         RestrictValues([c |-> class, h |-> header, o |-> Make, t |-> File0(<<>>),
                         g |-> [NoMake EXCEPT !.groups = <<"i">>, !.classes = <<"c">>],
                         i |-> [File0(<<>>) EXCEPT !.classes = <<"c">>],
                         d |-> File0(<<Ident("function", "d")>>),
                         u |-> Said(File0(<<Ident("function", "u")>>), FALSE)],
                        LAMBDA file : file # NoFile),
         LAMBDA refid : \E n \in DOMAIN compounds : compounds[n].refid = refid)]

\* a block without a description of its own
SaidOnlyBy(those, compounds) ==
    LET make == Said(Ident("function", "make_b"), "make" \in those)
        header == File0(<<make, Ident("function", "operator new")>>)
    IN  Directory(compounds, Said(Block1, FALSE), Said(header, "header" \in those))

MCDirectories ==
    {Directory(<<Class, Header>>, class, Make) : class \in {NoCreator, Odd, NoFile}}
    \cup {Directory(<<Class, Header, Group, Within>>, class, Make) : class \in {Block1, Bad}}
    \cup {Directory(<<Class, Header, Other>>, Block1, header) : header \in {Make, NoMake, Bad}}
    \cup {Directory(<<Class, Header>>, Block1, NoMake), Directory(<<Class, Header, Twin>>, Block1, Make),
          Directory(<<Nested, Header, Group, Within>>, Block1, Make)}
    \cup {Directory(<<class, Header, Group, Unknown, Within>>, Block1, Make) : class \in {Class, Nested}}
    \cup {SaidOnlyBy({"header"}, <<Class, Apart>>), SaidOnlyBy({"header"}, <<Class, Header>> \o Others),
          SaidOnlyBy({"make"}, <<Class, Header>>)}

MCAsked == {<<"b", "b">>, <<"make_b">>}
=============================================================================
