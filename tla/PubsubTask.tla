------------------------------ MODULE PubsubTask ------------------------------
(***************************************************************************)
(* A task that follows pubsub nodes (talk/xmpp pubsub_task.cc): it asks    *)
(* for the items of a node when it subscribes to it, listens to the events *)
(* the server publishes, and calls the handler of the node.  Stanzas in    *)
(* both directions arrive in order.  An item is a version of the node; a   *)
(* node the server never had is answered with an error.                    *)
(***************************************************************************)
EXTENDS Naturals, Sequences

CONSTANTS
    Node,
    Foreign,        \* whether items come with children of other names
    MaxCalls, MaxChanges    \* bounds

Retracted == 0
Unheard == MaxChanges + 1

VARIABLES
    subscribed_nodes,
    value,          \* the server's item of each node, Unheard before the first
    version,        \* changes so far
    gets,           \* requests on their way
    wire,           \* stanzas on their way to the client
    queue,          \* the task's stanzas
    items,          \* the <items> being walked and what is left of it
    learned,        \* what the handler was told last since the node was subscribed
    answered,       \* nodes whose last request was answered
    errors,         \* error answers that came
    reported,       \* calls of OnPubsubError
    calls

vars == <<subscribed_nodes, value, version, gets, wire, queue, items, learned, answered,
          errors, reported, calls>>

NoItems == [node |-> "", left |-> <<>>]

Init ==
    /\ subscribed_nodes = {} /\ value = [n \in Node |-> Unheard] /\ version = 0
    /\ gets = <<>> /\ wire = <<>> /\ queue = <<>> /\ items = NoItems
    /\ learned = [n \in Node |-> Unheard] /\ answered = {}
    /\ errors = 0 /\ reported = 0 /\ calls = 0

Idle == items = NoItems
Called == calls < MaxCalls /\ calls' = calls + 1

-----------------------------------------------------------------------------
(* The task's owner.                                                       *)

\* SubscribeToNode: the handler is in place before the request goes out.
Subscribe(n) ==
    /\ Called /\ Idle
    /\ subscribed_nodes' = subscribed_nodes \cup {n}
    /\ gets' = Append(gets, n)
    /\ answered' = answered \ {n}
    /\ learned' = [learned EXCEPT ![n] = Unheard]
    /\ UNCHANGED <<value, version, wire, queue, items, errors, reported>>

Unsubscribe(n) ==
    /\ Called /\ Idle /\ n \in subscribed_nodes
    /\ subscribed_nodes' = subscribed_nodes \ {n}
    /\ UNCHANGED <<value, version, gets, wire, queue, items, learned, answered, errors,
                   reported>>

-----------------------------------------------------------------------------
(* The server.                                                             *)

Child(kind, v) == [kind |-> kind, v |-> v]
Stanza(name, n, children) == [name |-> name, node |-> n, items |-> children]
Padding == IF Foreign THEN {<<>>, <<Child("foreign", 0)>>} ELSE {<<>>}

\* An event goes to everyone, subscribed or not.
Change(n, retract, padding) ==
    /\ version < MaxChanges /\ (retract => value[n] \notin {Unheard, Retracted})
    /\ version' = version + 1
    /\ value' = [value EXCEPT ![n] = IF retract THEN Retracted ELSE version']
    /\ wire' = Append(wire, Stanza("event", n,
                   padding \o <<Child(IF retract THEN "retract" ELSE "item", value'[n])>>))
    /\ UNCHANGED <<subscribed_nodes, gets, queue, items, learned, answered, errors,
                   reported, calls>>

Answer ==
    /\ gets # <<>>
    /\ LET n == Head(gets) IN
       wire' = Append(wire,
           IF value[n] = Unheard THEN Stanza("error", n, <<>>)
           ELSE Stanza("pubsub", n,
                       IF value[n] = Retracted THEN <<>> ELSE <<Child("item", value[n])>>))
    /\ gets' = Tail(gets)
    /\ UNCHANGED <<subscribed_nodes, value, version, queue, items, learned, answered,
                   errors, reported, calls>>

-----------------------------------------------------------------------------
(* The task.                                                               *)

\* What is queued is the child of the stanza: the event, or the <pubsub> of the
\* answer, which an error answer repeats.
QueuedChild(s) == IF s.name = "event" THEN s ELSE [s EXCEPT !.name = "pubsub"]

HandleStanza ==
    /\ wire # <<>>
    /\ queue' = Append(queue, QueuedChild(Head(wire)))
    /\ errors' = IF Head(wire).name = "error" THEN errors + 1 ELSE errors
    /\ wire' = Tail(wire)
    /\ UNCHANGED <<subscribed_nodes, value, version, gets, items, learned, answered,
                   reported, calls>>

NextStanza(q) == Head(q)

HasHandler(s) == s.node \in subscribed_nodes

\* ProcessResponse, HandlePubsubEventMessage, HandlePubsubIqGetResponse.
ProcessResponse ==
    /\ queue # <<>> /\ Idle
    /\ LET s == NextStanza(queue) IN
       /\ queue' = Tail(queue)
       /\ IF s.name = "error"
          THEN reported' = reported + 1 /\ UNCHANGED <<items, answered>>
          ELSE /\ items' = IF HasHandler(s) /\ s.items # <<>>
                           THEN [node |-> s.node, left |-> s.items] ELSE items
               /\ answered' = IF s.name = "pubsub" THEN answered \cup {s.node} ELSE answered
               /\ UNCHANGED reported
    /\ UNCHANGED <<subscribed_nodes, value, version, gets, wire, learned, errors, calls>>

\* HandlePubsubItems: one round of its loop.  A child of another name is looked
\* at for ever.
HandleItem ==
    /\ items.left # <<>> /\ Head(items.left).kind # "foreign"
    /\ learned' = [learned EXCEPT ![items.node] = Head(items.left).v]
    /\ items' = IF Len(items.left) = 1 THEN NoItems ELSE [items EXCEPT !.left = Tail(@)]
    /\ UNCHANGED <<subscribed_nodes, value, version, gets, wire, queue, answered, errors,
                   reported, calls>>

Next ==
    \/ \E n \in Node :
          \/ Subscribe(n) \/ Unsubscribe(n)
          \/ \E retract \in BOOLEAN, padding \in Padding : Change(n, retract, padding)
    \/ Answer \/ HandleStanza \/ ProcessResponse \/ HandleItem

Fairness ==
    /\ WF_vars(Answer) /\ WF_vars(HandleStanza)
    /\ WF_vars(ProcessResponse) /\ WF_vars(HandleItem)

Spec == Init /\ [][Next]_vars /\ Fairness

-----------------------------------------------------------------------------

TypeOK ==
    /\ subscribed_nodes \subseteq Node /\ answered \subseteq Node
    /\ value \in [Node -> 0 .. Unheard] /\ learned \in [Node -> 0 .. Unheard]
    /\ items.node \in Node \cup {""} /\ calls \in 0 .. MaxCalls

Quiet == gets = <<>> /\ wire = <<>> /\ queue = <<>> /\ Idle

\* When nothing is on its way the handler of a subscribed node has been told
\* the node's item last, although answers, events and changes of what is
\* subscribed cross (SubscribeToNode, HandlePubsubItems).  A node without an
\* item is one it was told nothing of, or its retraction.
LearnsTheLast ==
    Quiet => \A n \in subscribed_nodes :
        \/ learned[n] = value[n]
        \/ value[n] = Retracted /\ learned[n] = Unheard

\* The task comes to the answer of a subscription, which tells its handler the
\* items but not an error, and gets through its stanzas (ProcessResponse,
\* HandlePubsubItems).  With a child of another name it does not.
SubscriptionsAnswered == \A n \in Node : n \in subscribed_nodes ~> n \in answered

\* Called when there is an error, says the header of OnPubsubError.  It does
\* not hold: the attribute is looked for on the child that was queued.
ErrorsReported == Quiet => reported = errors
=============================================================================
