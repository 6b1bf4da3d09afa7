-------------------------------- MODULE DoxyXml --------------------------------
(***************************************************************************)
(* How docs/doxygen/update_pydoc.py gets docstrings out of doxygen's XML.  *)
(* build makes a tree of objects (DoxyClasses) of the index and of the     *)
(* document of a compound that it lists.  base.py and doxyindex.py find    *)
(* the functions in that tree, and take descriptions and parameters from   *)
(* it, which update_pydoc.py joins to docstrings; export writes it as XML. *)
(*                                                                         *)
(* doc is the tree, with its elements and texts in the order of the        *)
(* document.  What the program only compares - the kind of a compound, the *)
(* kind and name of a member - is a label of the node, not a text.         *)
(***************************************************************************)
EXTENDS DoxyClasses, Sequences, FiniteSets, SequencesExt

CONSTANTS MaxDepth,  \* bound: nodes of a document without branches
          MaxMore    \* bound: nodes added to the beginnings below

VARIABLES doc,         \* nodes [name, class, up, in, is]: up is the parent's place,
                       \* in the fields where the parent keeps it
          plan,        \* [words, upto, branches]: which documents are still drawn
          phase,       \* "build", "scraped" or "exported"
          docstrings,  \* name -> the texts of its docstring: places in doc
          raised,      \* has an exception ended the program?
          written      \* places in doc of what export has written

vars == <<doc, plan, phase, docstrings, raised, written>>

Node(name, class, up, in, is) ==
    [name |-> name, class |-> class, up |-> up, in |-> in, is |-> is]

\* An element e of the node at up.
Element(d, up, e, is) == LET build == Classes[d[up].class].build
                         IN  Node(e, build.children[e], up, build.in[e], is)

\* An old-style block needs a class outside of any namespace and is left out.  A
\* file is a header, or a source that DoxyIndex skips.  The group stands for every
\* compound that is kept but asked for nothing.
Kinds == {"class", "header", "namespace", "source", "group"}

\* A block has make and sptr.
Members == {"make", "sptr", "f"}

\* DoxyFunction; sptr is a type: DoxyOther.
IsFunction(is) == is # "sptr"

Index(kind) == <<Node("doxygenindex", "IndexType", 0, {}, ""),
                 Node("compound", "CompoundType", 1, {"compound"}, kind)>>

Document(kind) ==
    Index(kind) \o <<Node("doxygen", "DoxygenType", 2, {}, ""),
                     Node("compounddef", "compounddefType", 3, {"compounddef"}, kind)>>

Block == Document("class")
         \o <<Node("sectiondef", "sectiondefType", 4, {"sectiondef"}, ""),
              Node("memberdef", "memberdefType", 5, {"memberdef"}, "sptr"),
              Node("memberdef", "memberdefType", 5, {"memberdef"}, "make")>>

\* d with nodes named so, each in the one before.
RECURSIVE Nest(_, _)
Nest(d, names) ==
    IF names = << >> THEN d
    ELSE Nest(Append(d, Element(d, Len(d), names[1], "")), Tail(names))

Paragraph == <<"detaileddescription", "para">>

List == Paragraph \o <<"parameterlist", "parameteritem">>

Names == <<"parameternamelist", "parametername">>

\* Bounds: a document without branches may have every element of every class.  One
\* with branches has these elements beside the nodes that it begins with.
Words ==
    [members |-> {"sectiondef", "memberdef", "briefdescription", "detaileddescription",
                  "para", "param", "declname", "parameterlist", "parameteritem"},
     prose |-> {"briefdescription", "title", "para", "sect1", "ref", "simplesect"},
     lists |-> {"para", "parameterlist", "parameteritem", "parameternamelist",
                "parametername", "parameterdescription", "param", "declname"}]

Chain == [words |-> "all", upto |-> MaxDepth, branches |-> FALSE]

Tree(d, words, n) == [words |-> words, upto |-> Len(d) + n, branches |-> TRUE]

Init ==
    /\ \/ doc = Index("class") /\ plan = Chain
       \/ \E kind \in Kinds :
              /\ doc \in {Index(kind), Document(kind)}
              /\ plan = Tree(doc, "members", IF doc = Index(kind) THEN 0 ELSE MaxMore)
       \/ doc = Nest(Document("class"), Paragraph) /\ plan = Tree(doc, "prose", MaxMore)
       \/ /\ doc \in {Nest(d, List \o Names) : d \in {Document("class"), Block}}
          /\ plan = Tree(doc, "lists", MaxMore)
       \/ doc = Block /\ plan = Tree(doc, "members", MaxMore)
    /\ phase = "build" /\ docstrings = << >> /\ raised = FALSE /\ written = {}

------------------------------------------------------------------------------
\* Reading: index.parse, compound.parse.
BuildOf(k) == Classes[doc[k].class].build

Above(k) == LET above[j \in 0 .. Len(doc)] ==
                    IF j = 0 THEN {} ELSE {j} \cup above[doc[j].up]
            IN  above[k]

Place == IF plan.branches THEN Above(Len(doc)) ELSE {Len(doc)}

\* Of what is not kept in a list, doxygen writes one.
Single(up, e) == BuildOf(up).in[e] \cap BuildOf(up).append = {}

BuildChild(up, e, is) ==
    /\ phase = "build" /\ Len(doc) < plan.upto
    /\ plan.words # "all" => e \in Words[plan.words]
    /\ Single(up, e) => \A k \in DOMAIN doc : doc[k].up = up => doc[k].name # e
    /\ doc' = Append(doc, Element(doc, up, e, is))
    \* AttributeError: None has no append
    /\ raised' = (raised \/ ~ (BuildOf(up).in[e] \cap BuildOf(up).append
                                   \subseteq Classes[doc[up].class].lists))
    /\ UNCHANGED <<plan, phase, docstrings, written>>

BuildText(up) ==
    /\ phase = "build" /\ Len(doc) < plan.upto
    /\ BuildOf(up).text # {}
    /\ ~ (Last(doc).name = "#text" /\ Last(doc).up = up)
    /\ doc' = Append(doc, Node("#text", "string", up, BuildOf(up).text, ""))
    /\ UNCHANGED <<plan, phase, docstrings, raised, written>>

\* The document of the compound.
RetrieveData ==
    /\ phase = "build" /\ ~ plan.branches /\ Len(doc) = 2
    /\ doc' = Document(doc[2].is)
    /\ UNCHANGED <<plan, phase, docstrings, raised, written>>

------------------------------------------------------------------------------
\* The objects of base.py and doxyindex.py.
Raise == 0  \* in a sequence of texts: to compute it ends in an exception

Places == [k \in DOMAIN doc |-> k]

\* The value of a field: the objects in it.
Field(k, f) == SelectSeq(Places, LAMBDA j : doc[j].up = k /\ f \in doc[j].in)

FieldOfEach(s, f) == FlattenSeq([i \in DOMAIN s |-> Field(s[i], f)])

\* description and description_bit.
Description(k) ==
    LET description[j \in DOMAIN doc] ==
            LET lists == Classes[doc[j].class].lists
                items == Field(j, IF "content" \in lists THEN "content" ELSE "content_")
            IN  IF doc[j].class = "string" THEN <<j>>
                ELSE IF {"content", "content_"} \cap lists = {} THEN <<Raise>>
                ELSE FlattenSeq([i \in DOMAIN items |-> description[items[i]]])
    IN  description[k]

DescriptionOfEach(s) == FlattenSeq([i \in DOMAIN s |-> Description(s[i])])

\* Doxygen writes both descriptions of every object; one that is not in doc stands
\* for an empty one.
CombineDescriptions(o) == DescriptionOfEach(Field(o, "briefdescription"))
                          \o DescriptionOfEach(Field(o, "detaileddescription"))

DoxyParameterItem(i) ==
    LET names == FieldOfEach(Field(i, "parameternamelist"), "parametername")
    IN  IF names = << >> THEN <<Raise>>
        ELSE Description(names[1]) \o DescriptionOfEach(Field(i, "parameterdescription"))

DoxyParam(p) == Field(p, "declname") \o DescriptionOfEach(Field(p, "briefdescription"))

\* set_parameters finds lists in the values of content_, not deeper.
ParameterItems(o) ==
    LET values == FieldOfEach(Field(o, "detaileddescription"), "content_")
    IN  FieldOfEach(FieldOfEach(values, "parameterlist"), "parameteritem")

Params(o) ==
    LET items == ParameterItems(o)
        own == IF doc[o].name = "memberdef" THEN Field(o, "param") ELSE << >>
    IN  IF items # << >>
        THEN FlattenSeq([i \in DOMAIN items |-> DoxyParameterItem(items[i])])
        ELSE FlattenSeq([i \in DOMAIN own |-> DoxyParam(own[i])])

\* Of the members of a name, overloads too, the first.
ProcessMemberdefs(c) ==
    LET mdtss == FieldOfEach(Field(c, "sectiondef"), "memberdef")
    IN  {mdtss[i] : i \in {i \in DOMAIN mdtss :
                               \A j \in 1 .. i - 1 : doc[mdtss[j]].is # doc[mdtss[i]].is}}

Functions(c) == {m \in ProcessMemberdefs(c) : IsFunction(doc[m].is)}

GetMember(c, is) == {m \in ProcessMemberdefs(c) : doc[m].is = is}

Block2(c) == GetMember(c, "make") # {} /\ GetMember(c, "sptr") # {}

------------------------------------------------------------------------------
\* update_pydoc.py scrape.
MakeEntries(functions) ==
    [is \in {doc[f].is : f \in functions} |->
        CombineDescriptions(CHOOSE f \in functions : doc[f].is = is)]

MakeClassEntry(c, description, ignored, params) ==
    ("class" :> description \o params)
    @@ MakeEntries({f \in Functions(c) : doc[f].is \notin ignored})

MakeBlock2Entry(c) ==
    LET make == CHOOSE m \in GetMember(c, "make") : TRUE
        description == CombineDescriptions(c) \o CombineDescriptions(make)
    IN  MakeClassEntry(c, description, {"make"}, Params(make))
        @@ ("make" :> description \o Params(make))

Compounds == {k \in DOMAIN doc : doc[k].name = "compounddef"}

GetDocstringsDict(kind, c) ==
    CASE kind = "class" /\ Block2(c) -> MakeBlock2Entry(c)
      [] kind = "class" /\ ~ Block2(c) ->
             MakeClassEntry(c, CombineDescriptions(c), {}, Params(c))
      [] kind \in {"header", "namespace"} -> MakeEntries(Functions(c))
      [] OTHER -> << >>

\* What the _parse of this compound and of its members computes.
Parsed(kind, c) ==
    CASE kind = "class" ->
             UNION {Range(CombineDescriptions(o) \o Params(o)) :
                        o \in {c} \cup Functions(c)}
      [] kind \in {"header", "namespace"} ->
             Range(CombineDescriptions(c))
             \cup UNION {Range(CombineDescriptions(f) \o Params(f)) : f \in Functions(c)}
      [] OTHER -> {}

\* _get_dict_members makes a Duplicate of two members of a name.
Duplicated(kind, c) ==
    kind = "class" /\ \E is \in {"make", "sptr"} : Cardinality(GetMember(c, is)) > 1

\* A document that cannot be read is an error of its class alone, but the end of
\* the program where it has the members of a file or namespace.
Scrape ==
    /\ phase = "build"
    /\ phase' = "scraped"
    /\ IF Compounds = {}
       THEN /\ docstrings' = << >>
            /\ raised' = (raised \/ doc[2].is \in {"header", "namespace"})
       ELSE \E c \in Compounds :
                /\ docstrings' = GetDocstringsDict(doc[2].is, c)
                /\ raised' = (\/ raised \/ Raise \in Parsed(doc[2].is, c)
                              \/ Duplicated(doc[2].is, c))
    /\ UNCHANGED <<doc, plan, written>>

------------------------------------------------------------------------------
\* export of both roots.
IsRoot(k) == doc[k].name \in {"doxygenindex", "doxygen"}

WrittenOf(k) == Classes[doc[doc[k].up].class].written

ExportsItself(k) ==
    \A j \in Above(k) : IsRoot(j) \/ doc[j].in \cap WrittenOf(j).objects # {}

Export ==
    /\ phase = "scraped"
    /\ phase' = "exported"
    /\ written' = {k \in DOMAIN doc :
                       \/ ExportsItself(k)
                       \/ /\ ExportsItself(doc[k].up)
                          /\ doc[k].in \cap WrittenOf(k).strings # {}}
    /\ UNCHANGED <<doc, plan, docstrings, raised>>

Next == \/ \E up \in Place :
               \/ \E e \in DOMAIN BuildOf(up).children :
                      \E is \in IF e = "memberdef" THEN Members ELSE {""} :
                          BuildChild(up, e, is)
               \/ BuildText(up)
        \/ RetrieveData
        \/ Scrape
        \/ Export

Spec == Init /\ [][Next]_vars
------------------------------------------------------------------------------
\* The names on the way down from o to k, or none if there is no such way.
Way(o, k) == LET way[j \in 0 .. Len(doc)] ==
                     IF j = o THEN << >> ELSE Append(way[doc[j].up], doc[j].name)
             IN  way[k]

IsBelow(k, o) == k # o /\ o \in Above(k)

\* Places below o that are reached by this way, in the order of the document.
At(o, way) == SelectSeq(Places, LAMBDA k : IsBelow(k, o) /\ Way(o, k) = way)

Prose == {"title", "para", "sect1", "sect2", "sect3", "sect4", "internal", "ref", "#text"}

\* Texts of the prose in the element e of o.
Texts(o, e) ==
    SelectSeq(Places, LAMBDA k : /\ doc[k].name = "#text" /\ IsBelow(k, o)
                                 /\ Way(o, k)[1] = e
                                 /\ Range(Tail(Way(o, k))) \subseteq Prose)

Documentation(o) == Texts(o, "briefdescription") \o Texts(o, "detaileddescription")

TextsBelow(n) == SelectSeq(Places, LAMBDA k : doc[k].name = "#text" /\ IsBelow(k, n))

MembersNamed(c, n) ==
    {k \in DOMAIN doc : doc[k].is = n /\ doc[k].name = "memberdef" /\ IsBelow(k, c)}

ParameterNames(i) == At(i, Names)

\* Parameters as their author has listed them, by first names, or else as declared.
Listed(o) == At(o, List)

ParameterTexts(o) ==
    LET items == Listed(o)
        params == At(o, <<"param">>)
    IN  IF items = << >>
        THEN FlattenSeq([j \in DOMAIN params |->
                 At(params[j], <<"declname">>) \o Texts(params[j], "briefdescription")])
        ELSE FlattenSeq([j \in DOMAIN items |->
                 TextsBelow(ParameterNames(items[j])[1])
                 \o Texts(items[j], "parameterdescription")])

Member(c, n) == CHOOSE k \in MembersNamed(c, n) : \A j \in MembersNamed(c, n) : k <= j

FunctionNames(c) == {n \in Members \ {"sptr"} : MembersNamed(c, n) # {}}

IsBlock(c) == MembersNamed(c, "make") # {} /\ MembersNamed(c, "sptr") # {}

ConstructorTexts(c) ==
    LET make == Member(c, "make")
    IN  Documentation(c) \o Documentation(make) \o ParameterTexts(make)

Wanted(kind, c) ==
    LET Of(n) == IF IsBlock(c) /\ n \in {"class", "make"} THEN ConstructorTexts(c)
                 ELSE IF n = "class" THEN Documentation(c) \o ParameterTexts(c)
                 ELSE Documentation(Member(c, n))
    IN  CASE kind = "class" -> [n \in {"class"} \cup FunctionNames(c) |-> Of(n)]
          [] kind \in {"header", "namespace"} ->
                 [n \in FunctionNames(c) |-> Documentation(Member(c, n))]
          [] OTHER -> << >>

\* A parameter without a name, in a description that is read.
Nameless(kind, c) ==
    \E o \in (IF kind = "class" THEN {c} ELSE {})
             \cup (IF kind \in {"class", "header", "namespace"}
                   THEN {Member(c, n) : n \in FunctionNames(c)} ELSE {}) :
        \E j \in DOMAIN Listed(o) : ParameterNames(Listed(o)[j]) = << >>

(***************************************************************************)
(* Each docstring has the texts that belong to it, each once and in order: *)
(* the prose of both descriptions, in sections of any depth, and for a     *)
(* class and its constructor each parameter's first name and description,  *)
(* or what the declaration says if no parameter is described.  A block and *)
(* its make function share one docstring, and overloads have that of the   *)
(* first.  No exception ends the making of all docstrings, but for a       *)
(* parameter without a name and a file or namespace that cannot be read.   *)
(***************************************************************************)
TextShownOnce ==
    phase # "build" =>
        IF Compounds = {}
        THEN raised = (doc[2].is \in {"header", "namespace"})
        ELSE \A c \in Compounds :
                 IF Nameless(doc[2].is, c) THEN raised
                 ELSE ~ raised /\ docstrings = Wanted(doc[2].is, c)

(***************************************************************************)
(* Whatever build keeps, export writes in the same place, with two         *)
(* exceptions: what a paragraph holds beside its text, which compound.py   *)
(* has build keep without extending export, and the title of a class,      *)
(* which is an object but written as a string.                             *)
(***************************************************************************)
NothingDropped ==
    phase = "exported" =>
        \A k \in DOMAIN doc \ written :
            \E j \in Above(k) \ {1} :
                \/ doc[doc[j].up].class = "docParaType" /\ doc[j].name # "#text"
                \/ /\ doc[doc[j].up].name = "title"
                   /\ doc[doc[doc[j].up].up].class = "compounddefType"
================================================================================
