---------------------------- MODULE DoxygenTypes ----------------------------
(***************************************************************************)
(* The classes by which the documentation tool reads Doxygen's XML files   *)
(* (src/docs/doxygen/doxyxml/generated): one record for each class that a  *)
(* file can bring to life, from its constructor, buildAttributes and       *)
(* buildChildren, and, where nothing else is said in DoxygenXml, its       *)
(* export methods, which go by the same lists:                             *)
(*                                                                         *)
(*   attrs       the attributes it reads, ints those that must be integers *)
(*   simple      children that are one string, the last one counts         *)
(*   strings     children that are strings, all of them kept               *)
(*   one, many   children that are objects, the last one or all of them;   *)
(*               the functions give the class of each tag                  *)
(*   inline      children kept in content_, in their order, as objects     *)
(*   inlineText  children kept in content_, in their order, as strings     *)
(*   text        whether text is kept in content_ too                      *)
(*   value       whether text and CDATA are gathered in valueOf_           *)
(*   ownInline,  what the subclass docParaTypeSub keeps besides            *)
(*   ownMany                                                               *)
(*                                                                         *)
(* Of the generated class only this is left: get_, set_, add_ and insert_  *)
(* methods read or set one of these fields, and exportLiteral, which the   *)
(* tool never calls, writes them down as Python.                           *)
(***************************************************************************)
EXTENDS TLC

None == <<>>

Plain == [attrs |-> {}, ints |-> {}, simple |-> {}, strings |-> {}, one |-> None, many |-> None,
          inline |-> None, inlineText |-> {}, text |-> FALSE, value |-> FALSE,
          ownInline |-> None, ownMany |-> None]

Each(tags, class) == [tag \in tags |-> class]

DoxygenType ==
    [Plain EXCEPT
        !.attrs = {"version"},
        !.one = Each({"compounddef"}, "compounddefType")]

compounddefType ==
    [Plain EXCEPT
        !.attrs = {"kind", "prot", "id"},
        !.simple = {"compoundname"},
        !.one = Each({"title"}, "docTitleType")
             @@ Each({"incdepgraph", "invincdepgraph", "inheritancegraph", "collaborationgraph"},
                      "graphType")
             @@ Each({"templateparamlist"}, "templateparamlistType")
             @@ Each({"briefdescription", "detaileddescription"}, "descriptionType")
             @@ Each({"programlisting"}, "listingType")
             @@ Each({"location"}, "locationType")
             @@ Each({"listofallmembers"}, "listofallmembersType"),
        !.many = Each({"basecompoundref", "derivedcompoundref"}, "compoundRefType")
              @@ Each({"includes", "includedby"}, "incType")
              @@ Each({"innerdir", "innerfile", "innerclass", "innernamespace", "innerpage",
                       "innergroup"}, "refType")
              @@ Each({"sectiondef"}, "sectiondefType")]

listofallmembersType == [Plain EXCEPT !.many = Each({"member"}, "memberRefType")]

memberRefType ==
    [Plain EXCEPT
        !.attrs = {"virt", "prot", "refid", "ambiguityscope"},
        !.simple = {"scope", "name"}]

compoundRefType ==
    [Plain EXCEPT
        !.attrs = {"virt", "prot", "refid"},
        !.text = TRUE,
        !.value = TRUE]

reimplementType == [Plain EXCEPT !.attrs = {"refid"}, !.text = TRUE, !.value = TRUE]

incType == [Plain EXCEPT !.attrs = {"local", "refid"}, !.text = TRUE, !.value = TRUE]

refType == [Plain EXCEPT !.attrs = {"prot", "refid"}, !.text = TRUE, !.value = TRUE]

sectiondefType ==
    [Plain EXCEPT
        !.attrs = {"kind"},
        !.simple = {"header"},
        !.one = Each({"description"}, "descriptionType"),
        !.many = Each({"memberdef"}, "memberdefType")]

memberdefType ==
    [Plain EXCEPT
        !.attrs = {"initonly", "kind", "volatile", "const", "raise", "virt", "readable", "prot",
                   "explicit", "new", "final", "writable", "add", "static", "remove",
                   "sealed", "mutable", "gettable", "inline", "settable", "id"},
        !.simple = {"definition", "argsstring", "name", "read", "write", "bitfield"},
        !.one = Each({"templateparamlist"}, "templateparamlistType")
             @@ Each({"type", "initializer", "exceptions"}, "linkedTextType")
             @@ Each({"briefdescription", "detaileddescription", "inbodydescription"},
                      "descriptionType")
             @@ Each({"location"}, "locationType"),
        !.many = Each({"reimplements", "reimplementedby"}, "reimplementType")
              @@ Each({"param"}, "paramType")
              @@ Each({"enumvalue"}, "enumvalueType")
              @@ Each({"references", "referencedby"}, "referenceType")]

descriptionType ==
    [Plain EXCEPT
        !.inline = Each({"title"}, "docTitleType")
                @@ Each({"para"}, "docParaType")
                @@ Each({"sect1"}, "docSect1Type")
                @@ Each({"internal"}, "docInternalType"),
        !.text = TRUE]

enumvalueType ==
    [Plain EXCEPT
        !.attrs = {"prot", "id"},
        !.inline = Each({"initializer"}, "linkedTextType")
                @@ Each({"briefdescription", "detaileddescription"}, "descriptionType"),
        !.inlineText = {"name"},
        !.text = TRUE]

templateparamlistType == [Plain EXCEPT !.many = Each({"param"}, "paramType")]

paramType ==
    [Plain EXCEPT
        !.simple = {"declname", "defname", "array"},
        !.one = Each({"type", "defval"}, "linkedTextType")
             @@ Each({"briefdescription"}, "descriptionType")]

linkedTextType == [Plain EXCEPT !.inline = Each({"ref"}, "docRefTextType"), !.text = TRUE]

graphType == [Plain EXCEPT !.many = Each({"node"}, "nodeType")]

nodeType ==
    [Plain EXCEPT
        !.attrs = {"id"},
        !.simple = {"label"},
        !.one = Each({"link"}, "linkType"),
        !.many = Each({"childnode"}, "childnodeType")]

childnodeType == [Plain EXCEPT !.attrs = {"relation", "refid"}, !.strings = {"edgelabel"}]

linkType == [Plain EXCEPT !.attrs = {"refid", "external"}, !.value = TRUE]

listingType == [Plain EXCEPT !.many = Each({"codeline"}, "codelineType")]

codelineType ==
    [Plain EXCEPT
        !.attrs = {"external", "lineno", "refkind", "refid"},
        !.ints = {"lineno"},
        !.many = Each({"highlight"}, "highlightType")]

highlightType ==
    [Plain EXCEPT
        !.attrs = {"class"},
        !.inline = Each({"ref"}, "docRefTextType"),
        !.inlineText = {"sp"},
        !.text = TRUE]

referenceType ==
    [Plain EXCEPT
        !.attrs = {"endline", "startline", "refid", "compoundref"},
        !.ints = {"endline", "startline"},
        !.text = TRUE,
        !.value = TRUE]

locationType ==
    [Plain EXCEPT
        !.attrs = {"bodystart", "line", "bodyend", "bodyfile", "file"},
        !.ints = {"bodystart", "line", "bodyend"},
        !.value = TRUE]

docSect1Type ==
    [Plain EXCEPT
        !.attrs = {"id"},
        !.inline = Each({"title"}, "docTitleType")
                @@ Each({"para"}, "docParaType")
                @@ Each({"sect2"}, "docSect2Type")
                @@ Each({"internal"}, "docInternalS1Type"),
        !.text = TRUE]

docSect2Type ==
    [Plain EXCEPT
        !.attrs = {"id"},
        !.inline = Each({"title"}, "docTitleType")
                @@ Each({"para"}, "docParaType")
                @@ Each({"sect3"}, "docSect3Type")
                @@ Each({"internal"}, "docInternalS2Type"),
        !.text = TRUE]

docSect3Type ==
    [Plain EXCEPT
        !.attrs = {"id"},
        !.inline = Each({"title"}, "docTitleType")
                @@ Each({"para"}, "docParaType")
                @@ Each({"sect4"}, "docSect4Type")
                @@ Each({"internal"}, "docInternalS3Type"),
        !.text = TRUE]

docSect4Type ==
    [Plain EXCEPT
        !.attrs = {"id"},
        !.inline = Each({"title"}, "docTitleType")
                @@ Each({"para"}, "docParaType")
                @@ Each({"internal"}, "docInternalS4Type"),
        !.text = TRUE]

docInternalType ==
    [Plain EXCEPT
        !.inline = Each({"para"}, "docParaType")
                @@ Each({"sect1"}, "docSect1Type"),
        !.text = TRUE]

docInternalS1Type ==
    [Plain EXCEPT
        !.inline = Each({"para"}, "docParaType")
                @@ Each({"sect2"}, "docSect2Type"),
        !.text = TRUE]

docInternalS2Type ==
    [Plain EXCEPT
        !.inline = Each({"para"}, "docParaType")
                @@ Each({"sect3"}, "docSect3Type"),
        !.text = TRUE]

docInternalS3Type ==
    [Plain EXCEPT
        !.inline = Each({"para"}, "docParaType")
                @@ Each({"sect3"}, "docSect4Type"),
        !.text = TRUE]

docInternalS4Type == [Plain EXCEPT !.inline = Each({"para"}, "docParaType"), !.text = TRUE]

docTitleType == [Plain EXCEPT !.text = TRUE, !.value = TRUE]

docParaType == [Plain EXCEPT !.text = TRUE, !.value = TRUE]

docSimpleSectType ==
    [Plain EXCEPT
        !.attrs = {"kind"},
        !.one = Each({"title"}, "docTitleType"),
        !.many = Each({"para"}, "docParaType")]

docRefTextType ==
    [Plain EXCEPT
        !.attrs = {"refid", "kindref", "external"},
        !.text = TRUE,
        !.value = TRUE]

docParamListType ==
    [Plain EXCEPT
        !.attrs = {"kind"},
        !.many = Each({"parameteritem"}, "docParamListItem")]

docParamListItem ==
    [Plain EXCEPT
        !.one = Each({"parameterdescription"}, "descriptionType"),
        !.many = Each({"parameternamelist"}, "docParamNameList")]

docParamNameList == [Plain EXCEPT !.many = Each({"parametername"}, "docParamName")]

docParamName ==
    [Plain EXCEPT
        !.attrs = {"direction"},
        !.inline = Each({"ref"}, "docRefTextType"),
        !.text = TRUE]

IndexType == [Plain EXCEPT !.attrs = {"version"}, !.many = Each({"compound"}, "CompoundType")]

CompoundType ==
    [Plain EXCEPT
        !.attrs = {"kind", "refid"},
        !.simple = {"name"},
        !.many = Each({"member"}, "MemberType")]

MemberType == [Plain EXCEPT !.attrs = {"kind", "refid"}, !.simple = {"name"}]

\* what the subclass docParaTypeSub keeps besides, in lists of its own
docParaTypeSub ==
    [docParaType EXCEPT
        !.ownInline = Each({"ref"}, "docRefTextType"),
        !.ownMany = Each({"parameterlist"}, "docParamListType")
                 @@ Each({"simplesect"}, "docSimpleSectType")]

\* the class whose factory is called, by its name in the lists above
Types ==
    [DoxygenType |-> DoxygenType, compounddefType |-> compounddefType,
     listofallmembersType |-> listofallmembersType, memberRefType |-> memberRefType,
     compoundRefType |-> compoundRefType, reimplementType |-> reimplementType,
     incType |-> incType, refType |-> refType, sectiondefType |-> sectiondefType,
     memberdefType |-> memberdefType, descriptionType |-> descriptionType,
     enumvalueType |-> enumvalueType, templateparamlistType |-> templateparamlistType,
     paramType |-> paramType, linkedTextType |-> linkedTextType, graphType |-> graphType,
     nodeType |-> nodeType, childnodeType |-> childnodeType, linkType |-> linkType,
     listingType |-> listingType, codelineType |-> codelineType,
     highlightType |-> highlightType, referenceType |-> referenceType,
     locationType |-> locationType, docSect1Type |-> docSect1Type,
     docSect2Type |-> docSect2Type, docSect3Type |-> docSect3Type,
     docSect4Type |-> docSect4Type, docInternalType |-> docInternalType,
     docInternalS1Type |-> docInternalS1Type, docInternalS2Type |-> docInternalS2Type,
     docInternalS3Type |-> docInternalS3Type, docInternalS4Type |-> docInternalS4Type,
     docTitleType |-> docTitleType, docParaType |-> docParaTypeSub,
     docSimpleSectType |-> docSimpleSectType, docRefTextType |-> docRefTextType,
     docParamListType |-> docParamListType, docParamListItem |-> docParamListItem,
     docParamNameList |-> docParamNameList, docParamName |-> docParamName,
     IndexType |-> IndexType, CompoundType |-> CompoundType, MemberType |-> MemberType]
=============================================================================
