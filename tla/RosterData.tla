------------------------------ MODULE RosterData ------------------------------
(***************************************************************************)
(* The two value classes of the roster module                              *)
(* (talk/xmpp/rostermoduleimpl.cc): XmppRosterContactImpl, which caches    *)
(* the number of groups and the group it returned last beside the element  *)
(* they are computed from, and XmppPresenceImpl, whose properties live in  *)
(* the children of one element.                                            *)
(*                                                                         *)
(* An element is the sequence of its children.  A pointer to a group       *)
(* element is the identity of the child, so that a pointer kept across a   *)
(* change of the element can be seen to dangle.  Texts are model values;   *)
(* the conversions between enumerations and strings are the functions      *)
(* below.                                                                  *)
(***************************************************************************)
EXTENDS Integers, Sequences, SequencesExt, TLC

CONSTANTS
    Group,          \* names of groups
    Status,         \* status texts
    MaxCalls        \* bound: calls on the two objects

VARIABLES
    contact_xml,    \* the contact's raw_xml_ exists
    groups,         \* its group children: name and identity
    group_count,    \* group_count_
    index_returned, \* group_index_returned_
    group_returned, \* group_returned_: identity of a child, 0 for NULL
    next_id,        \* identities given out
    miscounted,     \* a group was added before the groups were counted
    result,         \* what was answered since the groups changed last
    presence_xml,   \* the presence's raw_xml_ exists
    presence,       \* its children: name, value and language
    type,           \* its type attribute, "" when absent
    wanted,         \* what the properties of the presence should read
    calls           \* what is left of the bound

contact_vars == <<contact_xml, groups, group_count, index_returned,
                  group_returned, next_id, miscounted, result>>
presence_vars == <<presence_xml, presence, type, wanted>>
vars == <<contact_vars, presence_vars, calls>>

Show == {"default", "away", "chat", "xa", "dnd"}
Available == {"available", "unavailable", "error"}

\* PresenceShowToString and StringToPresenceShow: the default is no text, and
\* a text that is no show leaves the default.
ShowText(show) == IF show = "default" THEN "" ELSE show
TextShow(text) == IF text \in Show \ {"default"} THEN text ELSE "default"

Call == calls > 0 /\ calls' = calls - 1

\* Neither object has an element yet: such a presence reads unavailable.
NoAnswer == [call |-> "none"]

Init ==
    /\ contact_xml = FALSE /\ groups = <<>> /\ next_id = 1
    /\ group_count = -1 /\ index_returned = -1 /\ group_returned = 0
    /\ miscounted = FALSE /\ result = NoAnswer
    /\ presence_xml = FALSE /\ presence = <<>> /\ type = ""
    /\ wanted = [available |-> "unavailable", show |-> "default", priority |-> 0,
                 status |-> ""]
    /\ calls = MaxCalls

-----------------------------------------------------------------------------
(* XmppRosterContactImpl                                                   *)

KeepCaches == UNCHANGED <<group_count, index_returned, group_returned, miscounted>>
ResetGroupCache ==
    /\ group_count' = -1 /\ index_returned' = -1 /\ group_returned' = 0
    /\ miscounted' = FALSE

\* A contact from the wire, or set_raw_xml by the application.
SetXmlFromWire ==
    /\ Call
    /\ \E n \in 0 .. 2 : \E names \in [1 .. n -> Group] :
           /\ groups' = [i \in 1 .. n |-> [name |-> names[i], id |-> next_id + i - 1]]
           /\ next_id' = next_id + n
    /\ contact_xml' = TRUE /\ result' = NoAnswer
    /\ ResetGroupCache
    /\ UNCHANGED presence_vars

\* set_jid, set_name and raw_xml make an element for a contact without one;
\* the caches stay.
CreateRawXmlSkeleton ==
    /\ Call /\ ~contact_xml
    /\ contact_xml' = TRUE
    /\ KeepCaches
    /\ UNCHANGED <<groups, next_id, result, presence_vars>>

\* FindGroup
GroupPosition(name) == SelectInSeq(groups, LAMBDA g : g.name = name)

\* A new group goes to the end; the count is incremented even when it has
\* not been computed.
AddGroup ==
    /\ Call
    /\ contact_xml' = TRUE
    /\ \E name \in Group :
         IF GroupPosition(name) # 0
         THEN UNCHANGED <<groups, group_count, next_id, miscounted, result>>
         ELSE /\ groups' = Append(groups, [name |-> name, id |-> next_id])
              /\ next_id' = next_id + 1
              /\ group_count' = group_count + 1
              /\ miscounted' = (miscounted \/ group_count = -1)
              /\ result' = NoAnswer
    /\ UNCHANGED <<index_returned, group_returned, presence_vars>>

AfterRemoval == ResetGroupCache

RemoveGroup ==
    /\ Call
    /\ \E name \in Group :
         IF GroupPosition(name) = 0 THEN UNCHANGED <<groups, result>> /\ KeepCaches
         ELSE /\ groups' = RemoveAt(groups, GroupPosition(name))
              /\ result' = NoAnswer
              /\ AfterRemoval
    /\ UNCHANGED <<contact_xml, next_id, presence_vars>>

\* Computed once and kept; without an element it is 0, which is not kept.
GroupCount ==
    IF ~contact_xml THEN 0 ELSE IF group_count = -1 THEN Len(groups) ELSE group_count
Counted == group_count' = IF contact_xml THEN GroupCount ELSE group_count

GetGroupCount ==
    /\ Call /\ Counted
    /\ result' = [call |-> "count", answer |-> GroupCount]
    /\ UNCHANGED <<contact_xml, groups, index_returned, group_returned, next_id,
                   miscounted, presence_vars>>

\* Position of a child by identity; 0 once it has been deleted.
Where(id) == SelectInSeq(groups, LAMBDA g : g.id = id)

\* GetGroup: no text beyond the count; else the next sibling of the group
\* returned last when the index asked for follows, the same one when it is the
\* same, else counted from the start.
GetGroup ==
    /\ Call /\ Counted
    /\ \E index \in 0 .. Len(groups) :
         LET at == CASE index_returned >= 0 /\ index = index_returned + 1 ->
                          Where(group_returned) + 1
                     [] index_returned = index -> Where(group_returned)
                     [] OTHER -> index + 1
             there == at \in DOMAIN groups
         IN  IF index >= GroupCount
             THEN /\ result' = [call |-> "group", index |-> index, answer |-> ""]
                  /\ UNCHANGED <<index_returned, group_returned>>
             ELSE /\ index_returned' = index
                  /\ group_returned' = IF there THEN groups[at].id ELSE 0
                  /\ result' = [call |-> "group", index |-> index,
                                answer |-> IF there THEN groups[at].name ELSE "deleted"]
    /\ UNCHANGED <<contact_xml, groups, next_id, miscounted, presence_vars>>

-----------------------------------------------------------------------------
(* XmppPresenceImpl                                                        *)

Child(name, value, lang) == [name |-> name, value |-> value, lang |-> lang]

\* FirstNamed, TextNamed and ClearNamedChildren of an element.
FirstNamed(children, name) == SelectInSeq(children, LAMBDA c : c.name = name)
TextNamed(children, name) ==
    LET p == FirstNamed(children, name) IN IF p = 0 THEN "" ELSE children[p].value
ClearNamedChildren(children, name) ==
    SelectSeq(children, LAMBDA c : c.name # name)

\* available() of a presence with an element.
AvailableOf(t) == IF t \in {"unavailable", "error"} THEN t ELSE "available"

\* ToString and FromString of a priority: what is no number counts as 0 when
\* it is read, and the rest is clamped to a byte.
PriorityTexts == ("-128" :> -128) @@ ("5" :> 5) @@ ("-1000" :> -1000)
                 @@ ("1000" :> 1000)
PriorityText(p) == IF p = 0 THEN "" ELSE CHOOSE t \in DOMAIN PriorityTexts :
                                                PriorityTexts[t] = p
PriorityOf(children) ==
    LET text == TextNamed(children, "priority")
        raw == IF text \in DOMAIN PriorityTexts THEN PriorityTexts[text] ELSE 0
    IN  Max({-128, Min({127, raw})})

\* The first status without a language, or else the first.
StatusOf(children) ==
    LET plain == SelectInSeq(children, LAMBDA c : c.name = "status" /\ ~c.lang)
    IN  IF plain # 0 THEN children[plain].value ELSE TextNamed(children, "status")

\* What the accessors answer.
Properties ==
    [available |-> IF presence_xml THEN AvailableOf(type) ELSE "unavailable",
     show |-> TextShow(TextNamed(presence, "show")),
     priority |-> PriorityOf(presence), status |-> StatusOf(presence)]

\* set_raw_xml: a presence as it came, with any children.
SetRawXml ==
    /\ Call
    /\ presence_xml' = TRUE
    /\ \E p \in {"-1000", "1000", "odd"}, s \in Show, first \in Status, a \in Available :
       \E second \in Status \ {first} :
           /\ presence' = <<Child("show", ShowText(s), FALSE), Child("status", first, TRUE),
                            Child("priority", p, FALSE), Child("status", second, FALSE)>>
           /\ type' = IF a = "available" THEN "" ELSE a
           /\ wanted' = [available |-> a, show |-> s, status |-> second,
                         priority |-> CASE p = "-1000" -> -128 [] p = "1000" -> 127
                                        [] OTHER -> 0]
    /\ UNCHANGED contact_vars

\* Each setter, the one that refuses its argument too, makes the element when
\* there is none; a presence with an element and no type is available.
Made ==
    IF presence_xml THEN wanted ELSE [wanted EXCEPT !.available = "available"]
Setter == Call /\ presence_xml' = TRUE /\ UNCHANGED contact_vars

SetAvailable ==
    /\ Setter
    /\ \E a \in Available :
           /\ type' = IF a = "available" THEN "" ELSE a
           /\ wanted' = [Made EXCEPT !.available = a]
    /\ UNCHANGED presence

\* What the setters do: the old children go, and a value that is not the
\* default gets a child of its own.
Replace(name, text) ==
    LET rest == ClearNamedChildren(presence, name)
    IN  IF text = "" THEN rest ELSE Append(rest, Child(name, text, FALSE))

SetPresenceShow ==
    /\ Setter
    /\ \E s \in Show :
           /\ presence' = Replace("show", ShowText(s))
           /\ wanted' = [Made EXCEPT !.show = s]
    /\ UNCHANGED type

\* A priority out of range is refused.
SetPriority ==
    /\ Setter
    /\ \E p \in {-129, -128, 0, 5} :
           IF p < -128 THEN wanted' = Made /\ UNCHANGED presence
           ELSE /\ presence' = Replace("priority", PriorityText(p))
                /\ wanted' = [Made EXCEPT !.priority = p]
    /\ UNCHANGED type

SetStatus ==
    /\ Setter
    /\ \E s \in Status \cup {""} :
           /\ presence' = Replace("status", s)
           /\ wanted' = [Made EXCEPT !.status = s]
    /\ UNCHANGED type

\* The two objects share nothing.
ContactNext ==
    \/ SetXmlFromWire \/ CreateRawXmlSkeleton \/ AddGroup \/ RemoveGroup
    \/ GetGroupCount \/ GetGroup
PresenceNext ==
    SetRawXml \/ SetAvailable \/ SetPresenceShow \/ SetPriority \/ SetStatus

Next == ContactNext \/ PresenceNext

Spec == Init /\ [][Next]_vars

-----------------------------------------------------------------------------

TypeOK ==
    /\ \A i \in DOMAIN groups : groups[i] \in [name : Group, id : 1 .. next_id]
    /\ group_count \in -1 .. Len(groups) /\ index_returned \in -1 .. Len(groups) - 1
    /\ group_returned \in 0 .. next_id
    /\ contact_xml \in BOOLEAN /\ presence_xml \in BOOLEAN /\ miscounted \in BOOLEAN
    /\ type \in {"", "unavailable", "error"}
    /\ calls \in 0 .. MaxCalls

\* The cached pointer is never to a deleted child nor to one that has moved,
\* whatever was added, removed or asked for in between.
GroupByIndex ==
    group_returned # 0 => Where(group_returned) = index_returned + 1

\* GetGroupCount answers with the number of groups, and GetGroup with the group
\* at the index asked for or, beyond the last, with no text: unless a group was
\* added before the groups were counted, and until the caches are reset.
AnswersAgree ==
    /\ result.call = "count" /\ ~miscounted => result.answer = Len(groups)
    /\ result.call = "group" =>
           \/ miscounted /\ result.answer = ""
           \/ result.answer = IF result.index < Len(groups)
                              THEN groups[result.index + 1].name ELSE ""

\* Every property of a presence reads what was set last, also when the
\* element came from the wire with several children of one name.
PresenceReadsBack == Properties = wanted

\* The number of groups is the number of groups.  It is not, once a group
\* was added before they were counted.
GroupsCounted == GroupCount = Len(groups)

\* A contact whose groups are to be counted has one, asserts GetGroupCount.  The
\* server need not put it into any.
CountIsPositive == contact_xml /\ group_count = -1 => groups # <<>>
=============================================================================
