----------------------------- MODULE DoxyClasses -----------------------------
(***************************************************************************)
(* The classes that doxygen's XML is read into when docstrings are made    *)
(* for the Python bindings: those of docs/doxygen/doxyxml/generated that   *)
(* build can reach from the root of a document, and those of the index of  *)
(* documents.                                                              *)
(*                                                                         *)
(* Three definitions stand for a class C:                                  *)
(*   CLists    what __init__ leaves: the fields that are empty lists, all  *)
(*             others being None, or '' for a string;                      *)
(*   C         what build makes of XML attributes, child elements and the  *)
(*             text between them: their classes and the fields they go to; *)
(*   CWritten  which fields export writes again.                           *)
(* Getters, setters and exportLiteral, which writes the same tree as       *)
(* Python source, are left out, and so is the formatting of texts.  build  *)
(* keeps no other element than those listed, nor what it contains.  A      *)
(* field has the name of its element, for type_, raisexx and classxx too.  *)
(***************************************************************************)
EXTENDS Naturals, TLC

Strings(names) == [n \in names |-> "string"]

InOwn(names) == [n \in names |-> {n}]

\* A class that keeps each child element in a field of its own: the one element of
\* a name, or the list of all.  Text between them is dropped.
Fields(attributes, one, many) ==
    [children |-> Strings(attributes) @@ one @@ many,
     in |-> InOwn(attributes \cup DOMAIN one \cup DOMAIN many),
     append |-> DOMAIN many, text |-> {}]

\* A class that keeps elements and text, in order, in content_.
Content(attributes, children) ==
    [children |-> Strings(attributes) @@ children,
     in |-> InOwn(attributes) @@ [e \in DOMAIN children |-> {"content_"}],
     append |-> {"content_"}, text |-> {"content_"}]

\* A class without child elements, which keeps its text in a list and as a string.
Value(attributes) ==
    [children |-> Strings(attributes), in |-> InOwn(attributes),
     append |-> {"content_"}, text |-> {"content_", "valueOf_"}]

\* The same without the list.
ValueOnly(attributes) ==
    [Value(attributes) EXCEPT !.append = {}, !.text = {"valueOf_"}]

\* export writes an XML attribute or a string as it is, and has an object write
\* itself.  hasContent_, where export asks it, names the same fields.
Writes(attributes, strings, objects) ==
    [strings |-> attributes \cup strings, objects |-> objects]

Class(lists, build, written) ==
    [lists |-> lists, build |-> build, written |-> written]

\* What is kept as a string: XML attributes, texts, and elements that have nothing
\* but text.
string == Class({}, Fields({}, << >>, << >>), Writes({}, {}, {}))

DoxygenTypeLists == {}
DoxygenType == Fields({"version"}, [compounddef |-> "compounddefType"], << >>)
DoxygenTypeWritten == Writes({"version"}, {}, {"compounddef"})

compounddefTypeLists ==
    {"basecompoundref", "derivedcompoundref", "includes", "includedby",
     "innerdir", "innerfile", "innerclass", "innernamespace", "innerpage",
     "innergroup", "sectiondef"}
compounddefType ==
    Fields({"kind", "prot", "id"},
           [compoundname |-> "string", title |-> "docTitleType",
            incdepgraph |-> "graphType", invincdepgraph |-> "graphType",
            templateparamlist |-> "templateparamlistType",
            briefdescription |-> "descriptionType",
            detaileddescription |-> "descriptionType",
            inheritancegraph |-> "graphType",
            collaborationgraph |-> "graphType",
            programlisting |-> "listingType", location |-> "locationType",
            listofallmembers |-> "listofallmembersType"],
           [basecompoundref |-> "compoundRefType",
            derivedcompoundref |-> "compoundRefType", includes |-> "incType",
            includedby |-> "incType", innerdir |-> "refType",
            innerfile |-> "refType", innerclass |-> "refType",
            innernamespace |-> "refType", innerpage |-> "refType",
            innergroup |-> "refType", sectiondef |-> "sectiondefType"])
compounddefTypeWritten ==
    Writes({"kind", "prot", "id"},
           {"compoundname", "title"},
           {"basecompoundref", "derivedcompoundref", "includes", "includedby",
            "incdepgraph", "invincdepgraph", "innerdir", "innerfile",
            "innerclass", "innernamespace", "innerpage", "innergroup",
            "templateparamlist", "sectiondef", "briefdescription",
            "detaileddescription", "inheritancegraph", "collaborationgraph",
            "programlisting", "location", "listofallmembers"})

listofallmembersTypeLists == {"member"}
listofallmembersType == Fields({}, << >>, [member |-> "memberRefType"])
listofallmembersTypeWritten == Writes({}, {}, {"member"})

memberRefTypeLists == {}
memberRefType ==
    Fields({"virt", "prot", "refid", "ambiguityscope"},
           [scope |-> "string", name |-> "string"],
           << >>)
memberRefTypeWritten ==
    Writes({"virt", "prot", "refid", "ambiguityscope"},
           {"scope", "name"},
           {})

compoundRefTypeLists == {"content_"}
compoundRefType == Value({"virt", "prot", "refid"})
compoundRefTypeWritten == Writes({"virt", "prot", "refid"}, {"valueOf_"}, {})

reimplementTypeLists == {"content_"}
reimplementType == Value({"refid"})
reimplementTypeWritten == Writes({"refid"}, {"valueOf_"}, {})

incTypeLists == {"content_"}
incType == Value({"local", "refid"})
incTypeWritten == Writes({"local", "refid"}, {"valueOf_"}, {})

refTypeLists == {"content_"}
refType == Value({"prot", "refid"})
refTypeWritten == Writes({"prot", "refid"}, {"valueOf_"}, {})

sectiondefTypeLists == {"memberdef"}
sectiondefType ==
    Fields({"kind"},
           [header |-> "string", description |-> "descriptionType"],
           [memberdef |-> "memberdefType"])
sectiondefTypeWritten ==
    Writes({"kind"},
           {"header"},
           {"description", "memberdef"})

memberdefTypeLists ==
    {"reimplements", "reimplementedby", "param", "enumvalue", "references",
     "referencedby"}
memberdefType ==
    Fields({"initonly", "kind", "volatile", "const", "raise", "virt",
            "readable", "prot", "explicit", "new", "final", "writable", "add",
            "static", "remove", "sealed", "mutable", "gettable", "inline",
            "settable", "id"},
           [templateparamlist |-> "templateparamlistType",
            type |-> "linkedTextType", definition |-> "string",
            argsstring |-> "string", name |-> "string", read |-> "string",
            write |-> "string", bitfield |-> "string",
            initializer |-> "linkedTextType", exceptions |-> "linkedTextType",
            briefdescription |-> "descriptionType",
            detaileddescription |-> "descriptionType",
            inbodydescription |-> "descriptionType",
            location |-> "locationType"],
           [reimplements |-> "reimplementType",
            reimplementedby |-> "reimplementType", param |-> "paramType",
            enumvalue |-> "enumvalueType", references |-> "referenceType",
            referencedby |-> "referenceType"])
memberdefTypeWritten ==
    Writes({"initonly", "kind", "volatile", "const", "raise", "virt",
            "readable", "prot", "explicit", "new", "final", "writable", "add",
            "static", "remove", "sealed", "mutable", "gettable", "inline",
            "settable", "id"},
           {"definition", "argsstring", "name", "read", "write", "bitfield"},
           {"templateparamlist", "type", "reimplements", "reimplementedby",
            "param", "enumvalue", "initializer", "exceptions",
            "briefdescription", "detaileddescription", "inbodydescription",
            "location", "references", "referencedby"})

descriptionTypeLists == {"content_"}
descriptionType ==
    Content({},
            [title |-> "docTitleType", para |-> "docParaType",
             sect1 |-> "docSect1Type", internal |-> "docInternalType"])
descriptionTypeWritten == Writes({}, {}, {"content_"})

enumvalueTypeLists == {"content_"}
enumvalueType ==
    Content({"prot", "id"},
            [name |-> "string", initializer |-> "linkedTextType",
             briefdescription |-> "descriptionType",
             detaileddescription |-> "descriptionType"])
enumvalueTypeWritten == Writes({"prot", "id"}, {}, {"content_"})

templateparamlistTypeLists == {"param"}
templateparamlistType == Fields({}, << >>, [param |-> "paramType"])
templateparamlistTypeWritten == Writes({}, {}, {"param"})

paramTypeLists == {}
paramType ==
    Fields({},
           [type |-> "linkedTextType", declname |-> "string",
            defname |-> "string", array |-> "string",
            defval |-> "linkedTextType",
            briefdescription |-> "descriptionType"],
           << >>)
\* Mutant: exportChildren forgets the description.
paramTypeWrittenUndescribed ==
    Writes({}, {"declname", "defname", "array"}, {"type", "defval"})

paramTypeWritten ==
    Writes({},
           {"declname", "defname", "array"},
           {"type", "defval", "briefdescription"})

linkedTextTypeLists == {"content_"}
linkedTextType == Content({}, [ref |-> "docRefTextType"])
linkedTextTypeWritten == Writes({}, {}, {"content_"})

graphTypeLists == {"node"}
graphType == Fields({}, << >>, [node |-> "nodeType"])
graphTypeWritten == Writes({}, {}, {"node"})

nodeTypeLists == {"childnode"}
nodeType ==
    Fields({"id"},
           [label |-> "string", link |-> "linkType"],
           [childnode |-> "childnodeType"])
nodeTypeWritten == Writes({"id"}, {"label"}, {"link", "childnode"})

childnodeTypeLists == {"edgelabel"}
childnodeType == Fields({"relation", "refid"}, << >>, [edgelabel |-> "string"])
childnodeTypeWritten == Writes({"relation", "refid"}, {"edgelabel"}, {})

linkTypeLists == {}
linkType == ValueOnly({"refid", "external"})
linkTypeWritten == Writes({"refid", "external"}, {"valueOf_"}, {})

listingTypeLists == {"codeline"}
listingType == Fields({}, << >>, [codeline |-> "codelineType"])
listingTypeWritten == Writes({}, {}, {"codeline"})

codelineTypeLists == {"highlight"}
codelineType ==
    Fields({"external", "lineno", "refkind", "refid"},
           << >>,
           [highlight |-> "highlightType"])
codelineTypeWritten ==
    Writes({"external", "lineno", "refkind", "refid"},
           {},
           {"highlight"})

highlightTypeLists == {"content_"}
highlightType ==
    Content({"class"},
            [sp |-> "string", ref |-> "docRefTextType"])
highlightTypeWritten == Writes({"class"}, {}, {"content_"})

referenceTypeLists == {"content_"}
referenceType == Value({"endline", "startline", "refid", "compoundref"})
referenceTypeWritten ==
    Writes({"endline", "startline", "refid", "compoundref"},
           {"valueOf_"},
           {})

locationTypeLists == {}
locationType == ValueOnly({"bodystart", "line", "bodyend", "bodyfile", "file"})
locationTypeWritten ==
    Writes({"bodystart", "line", "bodyend", "bodyfile", "file"},
           {"valueOf_"},
           {})

docSect1TypeLists == {"content_"}
docSect1Type ==
    Content({"id"},
            [title |-> "docTitleType", para |-> "docParaType",
             sect2 |-> "docSect2Type", internal |-> "docInternalS1Type"])
docSect1TypeWritten == Writes({"id"}, {}, {"content_"})

docSect2TypeLists == {"content_"}
docSect2Type ==
    Content({"id"},
            [title |-> "docTitleType", para |-> "docParaType",
             sect3 |-> "docSect3Type", internal |-> "docInternalS2Type"])
docSect2TypeWritten == Writes({"id"}, {}, {"content_"})

docSect3TypeLists == {"content_"}
docSect3Type ==
    Content({"id"},
            [title |-> "docTitleType", para |-> "docParaType",
             sect4 |-> "docSect4Type", internal |-> "docInternalS3Type"])
docSect3TypeWritten == Writes({"id"}, {}, {"content_"})

docSect4TypeLists == {"content_"}
docSect4Type ==
    Content({"id"},
            [title |-> "docTitleType", para |-> "docParaType",
             internal |-> "docInternalS4Type"])
docSect4TypeWritten == Writes({"id"}, {}, {"content_"})

docInternalTypeLists == {"content_"}
docInternalType ==
    Content({},
            [para |-> "docParaType", sect1 |-> "docSect1Type"])
docInternalTypeWritten == Writes({}, {}, {"content_"})

docInternalS1TypeLists == {"content_"}
docInternalS1Type ==
    Content({},
            [para |-> "docParaType", sect2 |-> "docSect2Type"])
docInternalS1TypeWritten == Writes({}, {}, {"content_"})

docInternalS2TypeLists == {"content_"}
docInternalS2Type ==
    Content({},
            [para |-> "docParaType", sect3 |-> "docSect3Type"])
docInternalS2TypeWritten == Writes({}, {}, {"content_"})

docInternalS3TypeLists == {"content_"}
docInternalS3Type ==
    Content({},
            [para |-> "docParaType", sect3 |-> "docSect4Type"])
docInternalS3TypeWritten == Writes({}, {}, {"content_"})

docInternalS4TypeLists == {"content_"}
docInternalS4Type == Content({}, [para |-> "docParaType"])
docInternalS4TypeWritten == Writes({}, {}, {"content_"})

docTitleTypeLists == {"content_"}
docTitleType == Value({})
docTitleTypeWritten == Writes({}, {"valueOf_"}, {})

docParaTypeLists == {"content_"}
docParaType == Value({})
docParaTypeWritten == Writes({}, {"valueOf_"}, {})

docSimpleSectTypeLists == {"para"}
docSimpleSectType ==
    Fields({"kind"},
           [title |-> "docTitleType"],
           [para |-> "docParaType"])
docSimpleSectTypeWritten == Writes({"kind"}, {}, {"title", "para"})

docRefTextTypeLists == {"content_"}
docRefTextType == Value({"refid", "kindref", "external"})
docRefTextTypeWritten ==
    Writes({"refid", "kindref", "external"},
           {"valueOf_"},
           {})

docParamListTypeLists == {"parameteritem"}
docParamListType ==
    Fields({"kind"},
           << >>,
           [parameteritem |-> "docParamListItem"])
docParamListTypeWritten == Writes({"kind"}, {}, {"parameteritem"})

docParamListItemLists == {"parameternamelist"}
docParamListItem ==
    Fields({},
           [parameterdescription |-> "descriptionType"],
           [parameternamelist |-> "docParamNameList"])
docParamListItemWritten ==
    Writes({},
           {},
           {"parameternamelist", "parameterdescription"})

docParamNameListLists == {"parametername"}
docParamNameList == Fields({}, << >>, [parametername |-> "docParamName"])
docParamNameListWritten == Writes({}, {}, {"parametername"})

docParamNameLists == {"content_"}
docParamName == Content({"direction"}, [ref |-> "docRefTextType"])
docParamNameWritten == Writes({"direction"}, {}, {"content_"})

\* The index, read by indexsuper.py: its DoxygenType, and what it lists.
IndexTypeLists == {"compound"}

IndexType == Fields({"version"}, << >>, [compound |-> "CompoundType"])

IndexTypeWritten == Writes({"version"}, {}, {"compound"})

CompoundTypeLists == {"member"}

CompoundType ==
    Fields({"kind", "refid"}, [name |-> "string"], [member |-> "MemberType"])

CompoundTypeWritten == Writes({"kind", "refid"}, {"name"}, {"member"})

MemberTypeLists == {}

MemberType == Fields({"kind", "refid"}, [name |-> "string"], << >>)

MemberTypeWritten == Writes({"kind", "refid"}, {"name"}, {})

\* The paragraph as compound.py extends it by hand.
docParaTypeSubLists ==
    docParaTypeLists \cup {"parameterlist", "simplesects", "content"}

\* Mutant: the list of parameters is part of the paragraph's content.
docParaTypeSubInContent ==
    [children |-> [ref |-> "docRefTextType", parameterlist |-> "docParamListType",
                   simplesect |-> "docSimpleSectType"],
     in |-> [ref |-> {"content"}, parameterlist |-> {"content", "parameterlist"},
             simplesect |-> {"simplesects"}],
     append |-> docParaType.append \cup {"parameterlist", "simplesects", "content"},
     text |-> docParaType.text \cup {"content"}]

\* What is shown of it goes to content, a third copy of the text.
docParaTypeSub ==
    [children |-> [ref |-> "docRefTextType", parameterlist |-> "docParamListType",
                   simplesect |-> "docSimpleSectType"],
     in |-> [ref |-> {"content"}, parameterlist |-> {"parameterlist"},
             simplesect |-> {"simplesects"}],
     append |-> docParaType.append \cup {"parameterlist", "simplesects", "content"},
     text |-> docParaType.text \cup {"content"}]

\* What factory makes: the class, or the one that compound.py derives from it.
Classes ==
    [DoxygenType |-> Class(DoxygenTypeLists, DoxygenType, DoxygenTypeWritten),
     compounddefType |->
         Class(compounddefTypeLists, compounddefType, compounddefTypeWritten),
     listofallmembersType |->
         Class(listofallmembersTypeLists, listofallmembersType, listofallmembersTypeWritten),
     memberRefType |->
         Class(memberRefTypeLists, memberRefType, memberRefTypeWritten),
     compoundRefType |->
         Class(compoundRefTypeLists, compoundRefType, compoundRefTypeWritten),
     reimplementType |->
         Class(reimplementTypeLists, reimplementType, reimplementTypeWritten),
     incType |-> Class(incTypeLists, incType, incTypeWritten),
     refType |-> Class(refTypeLists, refType, refTypeWritten),
     sectiondefType |->
         Class(sectiondefTypeLists, sectiondefType, sectiondefTypeWritten),
     memberdefType |->
         Class(memberdefTypeLists, memberdefType, memberdefTypeWritten),
     descriptionType |->
         Class(descriptionTypeLists, descriptionType, descriptionTypeWritten),
     enumvalueType |->
         Class(enumvalueTypeLists, enumvalueType, enumvalueTypeWritten),
     templateparamlistType |->
         Class(templateparamlistTypeLists, templateparamlistType, templateparamlistTypeWritten),
     paramType |-> Class(paramTypeLists, paramType, paramTypeWritten),
     linkedTextType |->
         Class(linkedTextTypeLists, linkedTextType, linkedTextTypeWritten),
     graphType |-> Class(graphTypeLists, graphType, graphTypeWritten),
     nodeType |-> Class(nodeTypeLists, nodeType, nodeTypeWritten),
     childnodeType |->
         Class(childnodeTypeLists, childnodeType, childnodeTypeWritten),
     linkType |-> Class(linkTypeLists, linkType, linkTypeWritten),
     listingType |-> Class(listingTypeLists, listingType, listingTypeWritten),
     codelineType |->
         Class(codelineTypeLists, codelineType, codelineTypeWritten),
     highlightType |->
         Class(highlightTypeLists, highlightType, highlightTypeWritten),
     referenceType |->
         Class(referenceTypeLists, referenceType, referenceTypeWritten),
     locationType |->
         Class(locationTypeLists, locationType, locationTypeWritten),
     docSect1Type |->
         Class(docSect1TypeLists, docSect1Type, docSect1TypeWritten),
     docSect2Type |->
         Class(docSect2TypeLists, docSect2Type, docSect2TypeWritten),
     docSect3Type |->
         Class(docSect3TypeLists, docSect3Type, docSect3TypeWritten),
     docSect4Type |->
         Class(docSect4TypeLists, docSect4Type, docSect4TypeWritten),
     docInternalType |->
         Class(docInternalTypeLists, docInternalType, docInternalTypeWritten),
     docInternalS1Type |->
         Class(docInternalS1TypeLists, docInternalS1Type, docInternalS1TypeWritten),
     docInternalS2Type |->
         Class(docInternalS2TypeLists, docInternalS2Type, docInternalS2TypeWritten),
     docInternalS3Type |->
         Class(docInternalS3TypeLists, docInternalS3Type, docInternalS3TypeWritten),
     docInternalS4Type |->
         Class(docInternalS4TypeLists, docInternalS4Type, docInternalS4TypeWritten),
     docTitleType |->
         Class(docTitleTypeLists, docTitleType, docTitleTypeWritten),
     docParaType |->
         Class(docParaTypeSubLists, docParaTypeSub, docParaTypeWritten),
     docSimpleSectType |->
         Class(docSimpleSectTypeLists, docSimpleSectType, docSimpleSectTypeWritten),
     docRefTextType |->
         Class(docRefTextTypeLists, docRefTextType, docRefTextTypeWritten),
     docParamListType |->
         Class(docParamListTypeLists, docParamListType, docParamListTypeWritten),
     docParamListItem |->
         Class(docParamListItemLists, docParamListItem, docParamListItemWritten),
     docParamNameList |->
         Class(docParamNameListLists, docParamNameList, docParamNameListWritten),
     docParamName |->
         Class(docParamNameLists, docParamName, docParamNameWritten),
     IndexType |-> Class(IndexTypeLists, IndexType, IndexTypeWritten),
     CompoundType |->
         Class(CompoundTypeLists, CompoundType, CompoundTypeWritten),
     MemberType |-> Class(MemberTypeLists, MemberType, MemberTypeWritten),
     string |-> string]
==============================================================================
