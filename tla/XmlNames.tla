------------------------------ MODULE XmlNames ------------------------------
(***************************************************************************)
(* Documents from the printer to the builder (talk/xmllite): XmlPrinter    *)
(* finds and declares a prefix for every name it prints, on a XmlnsStack,  *)
(* and escapes text; XmlParser, called with any part of what was printed,  *)
(* keeps a XmlnsStack of its own and resolves the names for XmlBuilder,    *)
(* which makes elements of them.                                           *)
(*                                                                         *)
(* One action prints a tag or a text, and one is a whole call of Parse.    *)
(* Expat is external: it reports the tags that were printed.  Documents    *)
(* that no printer made are parsed too.                                    *)
(***************************************************************************)
EXTENDS Naturals, Sequences, FiniteSets, SequencesExt

CONSTANTS
    Namespace,      \* "" is none, "XML" and "XMLNS" are bound for good
    Spelling,       \* [Namespace -> its characters, of one letter each]
    Text,           \* of texts: sequences of "a", "<", ">", "&", "quote", "]]>",
                    \* the ends of lines "cr" and "lf", and "ctl", a control
                    \* character that XML does not have
    Value,          \* of attributes, the same: [Namespace -> set of sequences]
    Foreign,        \* of documents from elsewhere: sequences of tokens
    MaxDepth,       \* bound: of elements in elements
    MaxNodes,       \* bound: elements and texts of a document
    MaxElements     \* bound: elements printed

\* A prefix is a base, which has letters, and a number, 1 for the base alone.
NoPrefix == << <<>>, 1>>
Reserved == [XML |-> << <<"x", "m", "l">>, 1>>, XMLNS |-> << <<"x", "m", "l", "n", "s">>, 1>>]

VARIABLES
    ns_stack, frames,   \* of the printer: pxmlnsStack_, pxmlnsDepthStack_
    open,           \* elements printed and not ended
    doc,            \* what was printed: its elements and texts in order
    wire,           \* tokens on their way
    parser,         \* ParseContext and XmlBuilder: see NewParser
    sentError_,
    told,           \* how often the handler was told of an error
    blank,          \* an element with no namespace was printed where a default
                    \* namespace is declared
    elements        \* what is left of the bound

printer_vars == <<ns_stack, frames, open, doc, blank, elements>>
parser_vars == <<parser, sentError_, told>>
vars == <<printer_vars, wire, parser_vars>>

\* tree is what pelRoot_ holds, in document order; path leads to pelCurrent_,
\* so that it is as long as pvParents_.
NewParser == [xmlnsstack |-> <<>>, depths |-> <<>>, raised |-> FALSE,
              tree |-> <<>>, path |-> <<>>]

None == [found |-> FALSE, value |-> NoPrefix]
Found(v) == [found |-> TRUE, value |-> v]

Init ==
    /\ ns_stack = <<>> /\ frames = <<>> /\ open = <<>> /\ doc = <<>> /\ wire = <<>>
    /\ parser = NewParser /\ sentError_ = FALSE /\ told = 0
    /\ blank = FALSE /\ elements = MaxElements

-----------------------------------------------------------------------------
(* XmlnsStack: declarations [prefix, ns], the innermost last.              *)

LastIndex(stack, Test(_)) == SelectLastInSeq(stack, Test)

\* AsciiLower, IsAsciiLetter: of the letters that spellings have.
AsciiLower(s) == [i \in DOMAIN s |-> IF s[i] = "X" THEN "x" ELSE s[i]]
IsAsciiLetter(char) == char \in {"a", "b", "l", "m", "n", "s", "x", "X"}

BeginsWithXml(base) == IsPrefix(<<"x", "m", "l">>, AsciiLower(base))

\* NsForPrefix: no namespace is the default one until it is declared, and no
\* prefix begins with xml but the reserved ones.
NsForPrefix(stack, prefix) ==
    LET i == LastIndex(stack, LAMBDA d : d.prefix = prefix)
    IN  IF prefix \in Range(Reserved)
        THEN Found(CHOOSE ns \in DOMAIN Reserved : Reserved[ns] = prefix)
        ELSE IF BeginsWithXml(prefix[1]) THEN None
        ELSE IF i > 0 THEN Found(stack[i].ns)
        ELSE IF prefix = NoPrefix THEN Found("") ELSE None

PrefixMatchesNs(stack, prefix, ns) ==
    LET match == NsForPrefix(stack, prefix) IN match.found /\ match.value = ns

\* The innermost prefix that is declared for a namespace and not hidden.
Declaration(stack, ns, isattr) ==
    LET i == LastIndex(stack, LAMBDA d :
                 d.ns = ns /\ (isattr => d.prefix # NoPrefix)
                           /\ PrefixMatchesNs(stack, d.prefix, ns))
    IN  IF i > 0 THEN Found(stack[i].prefix) ELSE None

\* PrefixForNs: an attribute with no prefix has no namespace, an element the
\* default one.
PrefixForNs(stack, ns, isattr) ==
    IF ns \in DOMAIN Reserved THEN Found(Reserved[ns])
    ELSE IF (IF isattr THEN ns = "" ELSE PrefixMatchesNs(stack, NoPrefix, ns))
    THEN Found(NoPrefix)
    ELSE Declaration(stack, ns, isattr)

\* SuggestPrefix: of the last letters that stand together, an extension of at
\* most four characters left out: the first three, or all four.
SuggestPrefix(spelling) ==
    LET dot == SelectLastInSeq(spelling, LAMBDA c : c = ".")
        chopped == IF dot > 0 /\ Len(spelling) - dot <= 4
                   THEN SubSeq(spelling, 1, dot - 1) ELSE spelling
        last == SelectLastInSeq(chopped, IsAsciiLetter)
        first == 1 + SelectLastInSeq(SubSeq(chopped, 1, last), LAMBDA c : ~IsAsciiLetter(c))
        letters == SubSeq(chopped, first, IF last - first > 3 THEN first + 2 ELSE last)
    IN  IF last = 0 \/ BeginsWithXml(letters) THEN <<"n", "s">> ELSE AsciiLower(letters)

\* AddNewPrefix: the first of base, base2, base3 ... that is not in use.
AddNewPrefix(stack, ns, isattr) ==
    LET base == SuggestPrefix(Spelling[ns])
        free == {i \in 1 .. Len(stack) + 1 : ~NsForPrefix(stack, <<base, i>>).found}
        first == CHOOSE i \in free : \A j \in free : i <= j
    IN  IF PrefixForNs(stack, ns, isattr).found THEN stack
        ELSE Append(stack, [prefix |-> <<base, first>>, ns |-> ns])

\* FormatQName
FormatQName(stack, ns, isattr) == PrefixForNs(stack, ns, isattr).value

PushFrame(stack, marks) == Append(marks, Len(stack))
PopFrame(stack, marks) == SubSeq(stack, 1, marks[Len(marks)])

-----------------------------------------------------------------------------
(* The printer.                                                            *)

\* What is printed and what is built: elements and texts at their depths.
\* decls are the xmlns attributes, attrs the others.
ElementNode(depth, el) ==
    [kind |-> "element", depth |-> depth, name |-> el.name, decls |-> el.decls,
     attrs |-> el.attrs, text |-> <<>>]
TextNode(depth, text) ==
    [kind |-> "text", depth |-> depth, name |-> "", decls |-> <<>>,
     attrs |-> <<>>, text |-> text]

\* An element a program builds: the namespace of its name, the xmlns attributes
\* and at most one other it was given, and whether its text is CDATA.
Element ==
    [name : Namespace,
     decls : {<<>>} \cup {<<[prefix |-> p, ns |-> n]>> :
                             <<p, n>> \in {<<NoPrefix, "">>, <<NoPrefix, "A">>, << << <<"b", "a", "b">>, 1>>, "A">>}},
     attrs : {<<>>} \cup UNION {{<<[ns |-> n, value |-> v]>> : v \in Value[n]} :
                                   n \in DOMAIN Value},
     cdata : {FALSE}]
    \cup {[name |-> "", decls |-> <<>>, attrs |-> <<>>, cdata |-> TRUE]}

\* PrintQuotedValue and PrintBodyText: characters as they are, or entities; ends
\* of lines and control characters are not among those that become entities.
Escaped(text, unsafe) ==
    [i \in DOMAIN text |-> [char |-> text[i], entity |-> text[i] \in unsafe]]
QuotedValue(text) == Escaped(text, {"<", ">", "&", "quote", "]]>"})
BodyText(text) == Escaped(text, {"<", ">", "&", "]]>"})
CDATAText(text) == Escaped(text, {})

\* What is declared in an element: the declarations it has, then those that its
\* names are found to need.
Declared(stack, el) ==
    FoldLeft(LAMBDA s, name : AddNewPrefix(s, name[1], name[2]), stack \o el.decls,
             <<<<el.name, FALSE>>>> \o [i \in DOMAIN el.attrs |-> <<el.attrs[i].ns, TRUE>>])

\* The start tag of an element behind n declarations, with all there are in it.
StartTag(n, all, el) ==
    [kind |-> "start",
     prefix |-> FormatQName(all, el.name, FALSE),
     decls |-> SubSeq(all, n + 1, Len(all)),
     attrs |-> [i \in DOMAIN el.attrs |->
                   [prefix |-> FormatQName(all, el.attrs[i].ns, TRUE), local |-> "x",
                    raw |-> QuotedValue(el.attrs[i].value)]]]
EndTag == [kind |-> "end"]

\* A document is printed when nothing is left of the one before.
Printing == (open = <<>> => doc = <<>>) /\ sentError_ = FALSE /\ parser = NewParser

\* PrintElement, up to the children.
PrintStartTag ==
    /\ Printing /\ elements > 0 /\ Len(open) < MaxDepth /\ Len(doc) < MaxNodes
    /\ \E el \in Element :
           /\ frames' = PushFrame(ns_stack, frames)
           /\ ns_stack' = Declared(ns_stack, el)
           /\ wire' = Append(wire, StartTag(Len(ns_stack), ns_stack', el))
           /\ open' = Append(open, el)
           /\ doc' = Append(doc, ElementNode(Len(open) + 1, el))
           /\ blank' = (blank \/ (el.name = "" /\
                               ~PrefixMatchesNs(ns_stack \o el.decls, NoPrefix, "")))
    /\ elements' = elements - 1
    /\ UNCHANGED parser_vars

\* A text child, after an element or its start tag.
PrintText ==
    /\ open # <<>> /\ Len(doc) < MaxNodes /\ Last(doc).kind = "element"
    /\ \E text \in Text :
          /\ wire' = Append(wire, [kind |-> "text", cdata |-> Last(open).cdata,
                         raw |-> IF Last(open).cdata THEN CDATAText(text) ELSE BodyText(text)])
          /\ doc' = Append(doc, TextNode(Len(open) + 1, text))
    /\ UNCHANGED <<ns_stack, frames, open, blank, elements, parser_vars>>

PrintEndTag ==
    /\ open # <<>>
    /\ wire' = Append(wire, EndTag)
    /\ ns_stack' = PopFrame(ns_stack, frames)
    /\ frames' = Front(frames) /\ open' = Front(open)
    /\ UNCHANGED <<parser_vars, doc, blank, elements>>

\* A document of another program, which the elements left do not count.
Receive ==
    /\ Printing /\ open = <<>> /\ elements = MaxElements
    /\ wire' \in Foreign /\ wire = <<>>
    /\ doc' = <<>> /\ elements' = 0
    /\ UNCHANGED <<ns_stack, frames, open, blank, parser_vars>>

-----------------------------------------------------------------------------
(* The parser and the builder.                                             *)

Raise(p) == [p EXCEPT !.raised = TRUE]

\* ResolveQName
Resolve(stack, prefix, isattr) ==
    IF prefix = NoPrefix /\ isattr THEN Found("") ELSE NsForPrefix(stack, prefix)

\* BuildElement: no element if a name is not resolved, or an attribute with a
\* namespace is there twice.
Resolved(stack, tag) == [i \in DOMAIN tag.attrs |-> Resolve(stack, tag.attrs[i].prefix, TRUE)]
CanBuild(stack, tag) ==
    LET ns == Resolved(stack, tag)
    IN  /\ Resolve(stack, tag.prefix, FALSE).found
        /\ \A i \in DOMAIN ns :
              /\ ns[i].found
              /\ \A j \in 1 .. i - 1 :
                    ~(ns[i].value # "" /\ ns[i] = ns[j] /\ tag.attrs[i].local = tag.attrs[j].local)
\* Expat: of the ends of lines that stand as they are, a pair and a carriage
\* return are read as a line feed, and in the value of an attribute as a space.
LineEndsRead(raw) ==
    LET Second(i) == i > 1 /\ raw[i].char = "lf" /\ raw[i - 1].char = "cr"
        single == SelectSeq([i \in DOMAIN raw |-> i], LAMBDA i : ~Second(i))
    IN  [k \in DOMAIN single |-> LET c == raw[single[k]].char
                                 IN  IF c = "cr" THEN "lf" ELSE c]
ValueRead(raw) ==
    LET read == LineEndsRead(raw)
    IN  [k \in DOMAIN read |-> IF read[k] = "lf" THEN "space" ELSE read[k]]

BuildElement(stack, tag, depth) ==
    ElementNode(depth,
        [name |-> Resolve(stack, tag.prefix, FALSE).value, decls |-> tag.decls,
         attrs |-> [i \in DOMAIN tag.attrs |->
                       [ns |-> Resolved(stack, tag)[i].value,
                        value |-> ValueRead(tag.attrs[i].raw)]]])

\* XmlBuilder::StartElement
BuilderStart(p, tag) ==
    LET depth == Len(p.path) + 1
        root == IF p.path = <<>> THEN <<>> ELSE p.tree
    IN  IF ~CanBuild(p.xmlnsstack, tag) THEN Raise(p)
        ELSE [p EXCEPT !.tree = Append(root, BuildElement(p.xmlnsstack, tag, depth)),
                       !.path = Append(@, Len(root) + 1)]

\* ExpatStartElement: the declarations up to one of a prefix for no namespace,
\* which is refused.
ExpatStartElement(p, tag) ==
    LET bad == SelectInSeq(tag.decls, LAMBDA d : d.prefix # NoPrefix /\ d.ns = "")
        taken == IF bad > 0 THEN SubSeq(tag.decls, 1, bad - 1) ELSE tag.decls
        q == [p EXCEPT !.depths = PushFrame(p.xmlnsstack, @), !.xmlnsstack = @ \o taken]
    IN  IF bad > 0 THEN Raise(q) ELSE BuilderStart(q, tag)

ExpatEndElement(p) ==
    [p EXCEPT !.depths = Front(@), !.xmlnsstack = PopFrame(@, p.depths), !.path = Front(@)]

\* CharacterData, with AddParsedText: text that follows text is one with it.
ExpatCharacterData(p, char) ==
    LET depth == Len(p.path) + 1
        last == Len(p.tree)
    IN  IF p.path = <<>> THEN p
        ELSE IF p.tree[last].kind = "text" /\ p.tree[last].depth = depth
        THEN [p EXCEPT !.tree[last].text = Append(@, char)]
        ELSE [p EXCEPT !.tree = Append(@, TextNode(depth, <<char>>))]

\* ExpatXmlDecl
Accepted(decl) == decl.version = "1.0" /\ decl.standalone # 0 /\ decl.encoding \in {"", "UTF-8"}
ExpatXmlDecl(p, decl) == IF Accepted(decl) THEN p ELSE Raise(p)

\* Expat: a character that should have been an entity where it stands is
\* malformed, and so is a control character; it reports the characters of a text
\* one by one.
Bare(raw, chars) == \E i \in DOMAIN raw : ~raw[i].entity /\ raw[i].char \in chars
Malformed(token) ==
    \/ token.kind = "text" /\ Bare(token.raw, {"ctl", "]]>"} \cup (IF token.cdata THEN {} ELSE {"<", "&"}))
    \/ token.kind = "start" /\ \E i \in DOMAIN token.attrs :
                                  Bare(token.attrs[i].raw, {"<", "&", "quote", "ctl"})
Handle(p, token) ==
    IF p.raised THEN p
    ELSE IF Malformed(token) THEN Raise(p)
    ELSE IF token.kind = "start" THEN ExpatStartElement(p, token)
    ELSE IF token.kind = "end" THEN ExpatEndElement(p)
    ELSE IF token.kind = "xml" THEN ExpatXmlDecl(p, token)
    ELSE FoldLeft(ExpatCharacterData, p, LineEndsRead(token.raw))

\* XmlBuilder::Error
BuilderError(p) == [p EXCEPT !.tree = <<>>, !.path = <<>>]

\* Parse, of the first n tokens: an error is told at its end, and once; after
\* it nothing is handled.
Parse(n) ==
    LET p == FoldLeft(Handle, parser, SubSeq(wire, 1, n))
    IN  /\ open = <<>> /\ n <= Len(wire)
        /\ wire' = SubSeq(wire, n + 1, Len(wire))
        /\ IF sentError_ THEN UNCHANGED parser_vars
           ELSE IF p.raised
           THEN parser' = BuilderError(p) /\ sentError_' = TRUE /\ told' = told + 1
           ELSE parser' = p /\ UNCHANGED <<sentError_, told>>
        /\ UNCHANGED printer_vars

BuilderReset(p) == [p EXCEPT !.tree = <<>>, !.path = <<>>]
ContextReset(p) == [p EXCEPT !.xmlnsstack = <<>>, !.depths = <<>>, !.raised = FALSE]

\* Reset of the parser and of the builder, for a new document.
Reset ==
    /\ wire = <<>> /\ open = <<>> /\ parser # NewParser
    /\ parser' = BuilderReset(ContextReset(parser)) /\ sentError_' = FALSE /\ told' = 0
    /\ doc' = <<>> /\ blank' = FALSE
    /\ UNCHANGED <<ns_stack, frames, open, wire, elements>>

Next ==
    \/ PrintStartTag \/ PrintText \/ PrintEndTag \/ Receive
    \/ \E n \in 1 .. Len(wire) : Parse(n)
    \/ Reset

Spec == Init /\ [][Next]_vars

-----------------------------------------------------------------------------

TypeOK ==
    /\ Len(frames) = Len(open) /\ sentError_ = parser.raised /\ told \in 0 .. 1
    /\ \A d \in Range(ns_stack) \cup Range(parser.xmlnsstack) : d.ns \in Namespace
    /\ elements \in 0 .. MaxElements

\* While there is no error the builder is where the parser is, and after one
\* nothing is left of what it built.
BuilderFollows ==
    IF parser.raised THEN parser.tree = <<>> /\ parser.path = <<>> /\ told = 1
    ELSE Len(parser.path) = Len(parser.depths) /\ told = 0

\* A text as XML leaves it, which no entity stands for: of its ends of lines
\* only line feeds, and of those in a value only spaces.
NormalText(text) == LineEndsRead(Escaped(text, {}))
NormalValue(text) == ValueRead(Escaped(text, {}))

\* The same, but for the declarations that were added to print it and the ends
\* of lines.
SameNode(built, meant) ==
    /\ built = [meant EXCEPT !.decls = built.decls,
                             !.text = NormalText(@),
                             !.attrs = [i \in DOMAIN @ |->
                                           [@[i] EXCEPT !.value = NormalValue(@)]]]
    /\ IsPrefix(meant.decls, built.decls)

Has(node, char) ==
    Contains(node.text, char) \/ \E i \in DOMAIN node.attrs : Contains(node.attrs[i].value, char)

\* A printed document is refused when an element of no namespace is in it under
\* a default one, or a control character, and otherwise at most for the end of
\* CDATA in one of its texts.  One that is not refused, parsed in any parts,
\* becomes elements of the names that were meant, however declarations hide each
\* other and whichever prefixes were made up, and with the texts that were meant
\* but for the ends of lines, which the printer leaves to be normalized
\* (XmlPrinterImpl, XmlnsStack, XmlParser).
NamesArrive ==
    wire = <<>> /\ open = <<>> /\ doc # <<>> =>
        IF parser.raised
        THEN blank \/ \E i \in DOMAIN doc : Has(doc[i], "]]>") \/ Has(doc[i], "ctl")
        ELSE /\ ~blank
             /\ \A i \in DOMAIN doc : ~Has(doc[i], "ctl")
             /\ Len(parser.tree) = Len(doc)
             /\ \A i \in DOMAIN doc : SameNode(parser.tree[i], doc[i])

\* The declarations where a node of a document stands.
Scope(nodes, i) ==
    LET Around(j) == \A k \in j + 1 .. i : nodes[k].depth > nodes[j].depth
    IN  FoldLeft(LAMBDA s, j : IF Around(j) THEN s \o nodes[j].decls ELSE s,
                 <<>>, [j \in 1 .. i - 1 |-> j])

\* An element that was built prints without declarations that it has not:
\* what is parsed and printed again does not grow (AddNewPrefix).
PrintedAgain ==
    \A i \in DOMAIN parser.tree :
        parser.tree[i].kind = "element" =>
            LET el == parser.tree[i]
                stack == Scope(parser.tree, i)
            IN  el.name = "" \/ Declared(stack, el) = stack \o el.decls

\* The printer's documents can be parsed.  It does not hold: XML has no way to
\* declare a prefix for no namespace, and the printer does not declare the
\* default one away; and no control character may stand in a document.
PrintedIsParsed == doc # <<>> => ~parser.raised

\* Texts are those that were printed, to the character.  It does not hold:
\* PrintQuotedValue and PrintBodyText print ends of lines as they are.
TextsArrive ==
    wire = <<>> /\ open = <<>> /\ doc # <<>> /\ ~parser.raised =>
        \A i \in DOMAIN doc : /\ parser.tree[i].text = doc[i].text
                              /\ parser.tree[i].attrs = doc[i].attrs
=============================================================================
