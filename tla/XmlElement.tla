----------------------------- MODULE XmlElement -----------------------------
(***************************************************************************)
(* The children and the attributes of an XmlElement                        *)
(* (talk/xmllite/xmlelement.cc): two linked lists, each with a pointer to  *)
(* its first and to its last node.                                         *)
(*                                                                         *)
(* One action is one call.  Nodes are numbered as they are made; a node    *)
(* that is deleted keeps its place in the heap and is freed.               *)
(***************************************************************************)
EXTENDS Naturals, Sequences, FiniteSets, SequencesExt, FiniteSetsExt

CONSTANTS
    Name,           \* of child elements and of attributes
    Text,           \* the parts of texts; a call may also pass an empty text
    MaxNodes,       \* bound, of each list
    MaxCalls        \* bound

NULL == 0
Node == 1 .. MaxNodes

VARIABLES
    children,       \* [first_child_, last_child_, next_child_ of each node]
    child,          \* a node: <<"text", its parts>> or <<"element", its name>>
    attrs,          \* [first_attr_, last_attr_, next_attr_ of each node]
    attr,           \* a node: [name, value]
    cdata_,
    made, freed,    \* the nodes made so far and those deleted, of each list
    alive,          \* the element is not deleted
    meant,          \* the lists that the calls were to come to
    misplaced,      \* a child was inserted behind the last one
    calls           \* what is left of the bound

vars == <<children, child, attrs, attr, cdata_, made, freed, alive, meant,
          misplaced, calls>>
child_vars == <<children, child, cdata_, misplaced>>
attr_vars == <<attrs, attr>>

\* The two lists are made of nodes of the same kind.
Empty == [first |-> NULL, last |-> NULL, next |-> [n \in Node |-> NULL]]

\* The nodes of a list from one on, in order.
Chain(from, list) ==
    LET chain[k \in 0 .. MaxNodes] ==
            IF k = 0 THEN <<>>
            ELSE LET done == chain[k - 1]
                     at == IF done = <<>> THEN from ELSE list.next[Last(done)]
                 IN  IF at = NULL \/ at \in Range(done) THEN done ELSE Append(done, at)
    IN  chain[MaxNodes]
Nodes(list) == Chain(list.first, list)
Children == Nodes(children)
Attrs == Nodes(attrs)

\* Node n behind the last one: through the pointer of that one, or the first.
Linked(list, n) ==
    IF list.last = NULL THEN [list EXCEPT !.first = n, !.last = n]
    ELSE [list EXCEPT !.next[list.last] = n, !.last = n]

\* Without the node behind predecessor.
Unlinked(list, predecessor) ==
    LET n == IF predecessor = NULL THEN list.first ELSE list.next[predecessor]
        out == IF predecessor = NULL THEN [list EXCEPT !.first = list.next[n]]
               ELSE [list EXCEPT !.next[predecessor] = list.next[n]]
    IN  [out EXCEPT !.last = IF list.last = n THEN predecessor ELSE @]

Before(list, n) ==
    LET chain == Nodes(list)
        i == CHOOSE i \in DOMAIN chain : chain[i] = n
    IN  IF i = 1 THEN NULL ELSE chain[i - 1]

Cleared(list) == [list EXCEPT !.first = NULL, !.last = NULL]

Xmlns == [name |-> "xmlns", value |-> "ns"]

\* The constructors: with useDefaultNs the element has its namespace as an
\* attribute, which is the first and the last one.
Init ==
    /\ children = Empty /\ child = [n \in Node |-> <<"none", <<>>>>]
    /\ \E useDefaultNs \in BOOLEAN :
           /\ attrs = IF useDefaultNs THEN Linked(Empty, 1) ELSE Empty
           /\ attr = [n \in Node |-> IF useDefaultNs /\ n = 1 THEN Xmlns
                                     ELSE [name |-> "", value |-> ""]]
           /\ made = [child |-> 0, attr |-> IF useDefaultNs THEN 1 ELSE 0]
           /\ meant = [children |-> <<>>,
                       attrs |-> IF useDefaultNs THEN <<Xmlns>> ELSE <<>>]
    /\ cdata_ = FALSE /\ freed = [child |-> {}, attr |-> {}] /\ alive = TRUE
    /\ misplaced = FALSE /\ calls = MaxCalls

Call == alive /\ calls > 0 /\ calls' = calls - 1 /\ UNCHANGED alive

-----------------------------------------------------------------------------
(* What can be asked of the lists.                                         *)

IsText(n) == child[n][1] = "text"
IsElement(n) == ~IsText(n)
IsNamed(n, name) == child[n] = <<"element", name>>

\* The first of these nodes from one on: the walk of FirstElement, FirstNamed,
\* FirstWithNamespace, of their Next, and of TextNamed.
FirstOf(nodes, from) ==
    LET passing == SelectSeq(Chain(from, children), LAMBDA n : n \in nodes)
    IN  IF passing = <<>> THEN NULL ELSE passing[1]
Elements == {n \in Node : IsElement(n)}
Named(name) == {n \in Node : IsNamed(n, name)}
FirstElement == FirstOf(Elements, children.first)
NextElement(n) == FirstOf(Elements, children.next[n])
FirstNamed(name) == FirstOf(Named(name), children.first)
NextNamed(n, name) == FirstOf(Named(name), children.next[n])

BodyText ==
    IF children.first # NULL /\ IsText(children.first) /\ children.last = children.first
    THEN child[children.first][2] ELSE <<>>

\* Attr, which is "" of an attribute that is not there, and HasAttr.
AttrNode(name) ==
    LET same == SelectSeq(Attrs, LAMBDA n : attr[n].name = name)
    IN  IF same = <<>> THEN NULL ELSE same[1]
Attr(name) == IF AttrNode(name) = NULL THEN "" ELSE attr[AttrNode(name)].value
HasAttr(name) == AttrNode(name) # NULL

-----------------------------------------------------------------------------
(* Children.                                                               *)

MakeChild(value) ==
    LET n == made.child + 1 IN
    /\ n \in Node
    /\ made' = [made EXCEPT !.child = n]
    /\ child' = [child EXCEPT ![n] = value]

\* AddElement, which passes over NULL.
AddElement(name) ==
    /\ MakeChild(<<"element", name>>)
    /\ children' = Linked(children, made.child + 1)
    /\ meant' = [meant EXCEPT !.children = Append(@, <<"element", name>>)]
AddAnElement ==
    /\ Call
    /\ \/ \E name \in Name : AddElement(name)
       \/ UNCHANGED <<children, child, made, meant>>
    /\ UNCHANGED <<attr_vars, cdata_, freed, misplaced>>

\* FindOrAddNamedChild
FindOrAddNamedChild ==
    /\ Call
    /\ \E name \in Name :
           IF FirstNamed(name) = NULL THEN AddElement(name)
           ELSE UNCHANGED <<children, child, made, meant>>
    /\ UNCHANGED <<attr_vars, cdata_, freed, misplaced>>

\* A text that is not empty becomes part of the text it follows.
WithText(list, t) ==
    IF list # <<>> /\ Last(list)[1] = "text"
    THEN Append(Front(list), <<"text", Append(Last(list)[2], t)>>)
    ELSE Append(list, <<"text", <<t>>>>)
AppendText(t) ==
    IF children.last # NULL /\ IsText(children.last)
    THEN child' = [child EXCEPT ![children.last][2] = Append(@, t)] /\ UNCHANGED <<children, made>>
    ELSE MakeChild(<<"text", <<t>>>>) /\ children' = Linked(children, made.child + 1)

\* AddText and AddParsedText, which pass over an empty text, and AddCDATAText.
AddText ==
    /\ Call
    /\ \/ UNCHANGED <<children, child, made, meant>>
       \/ \E t \in Text :
              /\ AppendText(t)
              /\ meant' = [meant EXCEPT !.children = WithText(@, t)]
    /\ \E cdata \in BOOLEAN : cdata_' = (cdata_ \/ cdata)
    /\ UNCHANGED <<attr_vars, freed, misplaced>>

\* ClearChildren
ClearChildren ==
    /\ children' = Cleared(children)
    /\ freed' = [freed EXCEPT !.child = @ \cup Range(Children)]
ClearTheChildren ==
    /\ Call /\ ClearChildren
    /\ meant' = [meant EXCEPT !.children = <<>>]
    /\ UNCHANGED <<child, attr_vars, cdata_, made, misplaced>>

\* SetBodyText: a text that is the only child is changed, whatever else there
\* is makes way.
SetBodyText ==
    /\ Call
    /\ \/ ClearChildren /\ meant' = [meant EXCEPT !.children = <<>>]
          /\ UNCHANGED <<child, made>>
       \/ \E t \in Text :
              /\ meant' = [meant EXCEPT !.children = <<<<"text", <<t>>>>>>]
              /\ IF children.first = NULL THEN AppendText(t) /\ UNCHANGED freed
                 ELSE IF IsText(children.first) /\ children.last = children.first
                 THEN /\ child' = [child EXCEPT ![children.first][2] = <<t>>]
                      /\ UNCHANGED <<children, made, freed>>
                 ELSE /\ MakeChild(<<"text", <<t>>>>)
                      /\ children' = Linked(Cleared(children), made.child + 1)
                      /\ freed' = [freed EXCEPT !.child = @ \cup Range(Children)]
    /\ UNCHANGED <<attr_vars, cdata_, misplaced>>

\* InsertChildAfter, at any place: the pointer to the last one stays.
InsertChildAfter ==
    /\ Call
    /\ \E name \in Name, i \in 0 .. Len(Children) :
       LET n == made.child + 1 IN
       /\ MakeChild(<<"element", name>>)
       /\ children' =
              IF i = 0 THEN [children EXCEPT !.first = n, !.next[n] = children.first]
              ELSE [children EXCEPT !.next[n] = children.next[Children[i]],
                                    !.next[Children[i]] = n]
       /\ misplaced' = (misplaced \/ i = Len(Children))
       /\ meant' = [meant EXCEPT !.children =
                        InsertAt(@, IF misplaced THEN 1 ELSE i + 1, <<"element", name>>)]
    /\ UNCHANGED <<attr_vars, cdata_, freed>>

\* RemoveChildAfter, of a place with a child behind it.
RemoveChildAfter ==
    /\ Call
    /\ \E i \in DOMAIN Children :
       /\ children' = Unlinked(children, IF i = 1 THEN NULL ELSE Children[i - 1])
       /\ freed' = [freed EXCEPT !.child = @ \cup {Children[i]}]
       /\ meant' = IF misplaced THEN meant
                   ELSE [meant EXCEPT !.children = RemoveAt(@, i)]
    /\ UNCHANGED <<child, attr_vars, cdata_, made, misplaced>>

\* ClearNamedChildren: RemoveChildAfter for each child of the name, in order.
ClearNamedChildren ==
    /\ Call
    /\ \E name \in Name :
       LET named == SelectSeq(Children, LAMBDA n : IsNamed(n, name)) IN
       /\ children' = FoldLeft(LAMBDA list, n : Unlinked(list, Before(list, n)),
                               children, named)
       /\ freed' = [freed EXCEPT !.child = @ \cup Range(named)]
       /\ meant' = [meant EXCEPT !.children =
                        SelectSeq(@, LAMBDA c : c # <<"element", name>>)]
    /\ UNCHANGED <<child, attr_vars, cdata_, made, misplaced>>

-----------------------------------------------------------------------------
(* Attributes.                                                             *)

MakeAttr(a) ==
    LET n == made.attr + 1 IN
    /\ n \in Node
    /\ made' = [made EXCEPT !.attr = n]
    /\ attr' = [attr EXCEPT ![n] = a]
    /\ attrs' = Linked(attrs, n)
    /\ meant' = [meant EXCEPT !.attrs = Append(@, a)]

\* SetAttr
SetAttr ==
    /\ Call
    /\ \E name \in Name, value \in Text :
           IF ~HasAttr(name) THEN MakeAttr([name |-> name, value |-> value])
           ELSE /\ attr' = [attr EXCEPT ![AttrNode(name)].value = value]
                /\ meant' = [meant EXCEPT !.attrs =
                        [i \in DOMAIN @ |-> IF @[i].name = name
                                            THEN [@[i] EXCEPT !.value = value] ELSE @[i]]]
                /\ UNCHANGED <<attrs, made>>
    /\ UNCHANGED <<child_vars, freed>>

\* AddAttr, which asserts that the name is new.
AddAttr ==
    /\ Call
    /\ \E name \in Name, value \in Text :
           ~HasAttr(name) /\ MakeAttr([name |-> name, value |-> value])
    /\ UNCHANGED <<child_vars, freed>>

\* ClearAttr
ClearAttr ==
    /\ Call
    /\ \E name \in Name \cup {"xmlns"} :
           IF ~HasAttr(name) THEN UNCHANGED <<attrs, freed, meant>>
           ELSE /\ attrs' = Unlinked(attrs, Before(attrs, AttrNode(name)))
                /\ freed' = [freed EXCEPT !.attr = @ \cup {AttrNode(name)}]
                /\ meant' = [meant EXCEPT !.attrs =
                                 SelectSeq(@, LAMBDA a : a.name # name)]
    /\ UNCHANGED <<child_vars, attr, made>>

\* ClearAttributes
ClearAttributes ==
    /\ Call
    /\ attrs' = Cleared(attrs)
    /\ freed' = [freed EXCEPT !.attr = @ \cup Range(Attrs)]
    /\ meant' = [meant EXCEPT !.attrs = <<>>]
    /\ UNCHANGED <<child_vars, attr, made>>

-----------------------------------------------------------------------------
(* The element.                                                            *)

Copied(list, chain, base) ==
    FoldLeft(Linked, Cleared(list), [i \in DOMAIN chain |-> base + i])
CopiedNodes(values, chain, base) ==
    [n \in Node |-> IF n - base \in DOMAIN chain THEN values[chain[n - base]] ELSE values[n]]

\* ~XmlElement deletes what the lists hold.
Deleted == [child |-> freed.child \cup Range(Children), attr |-> freed.attr \cup Range(Attrs)]

\* The copy constructor: attributes and children of its own, and cdata_.  The
\* calls go on with the copy, and the original is deleted.
Copy ==
    /\ Call
    /\ made.child + Len(Children) \in 0 .. MaxNodes /\ made.attr + Len(Attrs) \in 0 .. MaxNodes
    /\ children' = Copied(children, Children, made.child)
    /\ child' = CopiedNodes(child, Children, made.child)
    /\ attrs' = Copied(attrs, Attrs, made.attr)
    /\ attr' = CopiedNodes(attr, Attrs, made.attr)
    /\ made' = [child |-> made.child + Len(Children), attr |-> made.attr + Len(Attrs)]
    /\ freed' = Deleted
    /\ UNCHANGED <<cdata_, meant, misplaced>>

Delete ==
    /\ alive /\ alive' = FALSE
    /\ freed' = Deleted
    /\ UNCHANGED <<child_vars, attr_vars, made, meant, calls>>

Next ==
    \/ AddAnElement \/ FindOrAddNamedChild \/ AddText \/ ClearTheChildren
    \/ SetBodyText \/ InsertChildAfter \/ RemoveChildAfter \/ ClearNamedChildren
    \/ SetAttr \/ AddAttr \/ ClearAttr \/ ClearAttributes \/ Copy \/ Delete

Spec == Init /\ [][Next]_vars

-----------------------------------------------------------------------------

TypeOK ==
    /\ {children.first, children.last, attrs.first, attrs.last} \subseteq Node \cup {NULL}
    /\ made.child \in 0 .. MaxNodes /\ freed.child \subseteq 1 .. made.child
    /\ made.attr \in 0 .. MaxNodes /\ freed.attr \subseteq 1 .. made.attr

\* The list holds these values in order, its last pointer points to the last
\* node, none of its nodes was deleted and none was lost.
Holds(list, values, meant_values, gone, count) ==
    /\ [i \in DOMAIN Nodes(list) |-> values[Nodes(list)[i]]] = meant_values
    /\ list.last = IF Nodes(list) = <<>> THEN NULL ELSE Last(Nodes(list))
    /\ Range(Nodes(list)) = 1 .. count \ gone

\* After any calls the children and the attributes are those that the calls
\* came to, and a copy has its own.  The exception is a child that was inserted
\* behind the last one: the pointer to the last one is not moved, so that what
\* is added then replaces it; but no pointer goes to a deleted child.  When the
\* element is gone, so are its nodes.
ListsHold ==
    /\ alive =>
           /\ Holds(attrs, attr, meant.attrs, freed.attr, made.attr)
           /\ ~misplaced =>
                  Holds(children, child, meant.children, freed.child, made.child)
           /\ children.last \in Range(Children) \cup {NULL}
           /\ Range(Children) \cap freed.child = {}
           /\ \A name \in Name : Attr(name) # "" =>
                  \E i \in DOMAIN meant.attrs :
                      meant.attrs[i] = [name |-> name, value |-> Attr(name)]
    /\ ~alive =>
           /\ freed.attr = 1 .. made.attr
           /\ ~misplaced => freed.child = 1 .. made.child

\* The same of every call.  It does not hold: what is added behind a child that
\* was inserted behind the last one replaces it.
AlwaysHold ==
    alive => Holds(children, child, meant.children, freed.child, made.child)

\* FirstNamed and NextNamed visit the children of a name, each once and in
\* order, and so do FirstElement and NextElement those that are not text.
WalksVisit ==
    LET Walk(first, After(_)) ==
            LET seen[k \in 0 .. Len(Children)] ==
                    IF k = 0 THEN <<first>>
                    ELSE LET n == Last(seen[k - 1])
                         IN  IF n = NULL THEN seen[k - 1]
                             ELSE Append(seen[k - 1], After(n))
            IN  Front(seen[Len(Children)])
    IN  alive =>
        /\ Walk(FirstElement, NextElement) = SelectSeq(Children, IsElement)
        /\ \A name \in Name :
               Walk(FirstNamed(name), LAMBDA n : NextNamed(n, name))
                   = SelectSeq(Children, LAMBDA n : IsNamed(n, name))
        /\ (BodyText # <<>> /\ ~misplaced) => meant.children = <<<<"text", BodyText>>>>
=============================================================================
