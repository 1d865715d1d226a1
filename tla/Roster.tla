-------------------------------- MODULE Roster --------------------------------
(***************************************************************************)
(* The roster module (talk/xmpp/rostermoduleimpl.cc): the contacts and the *)
(* presences a session knows of, what it tells its handler, and what it    *)
(* asks the server for; and PumpThread::PrivateRosterModule, which makes a *)
(* new module for every login.                                             *)
(*                                                                         *)
(* One action is one stanza handed to the module (HandleStanza,            *)
(* IqResponse) or one call by the application.  The server is external: it *)
(* keeps a roster, answers requests in order and pushes every change to a  *)
(* session that has asked for the roster.  An XML element is abstracted to *)
(* what the module reads of it: the jid, the subscription and a version    *)
(* that stands for name and groups.                                        *)
(***************************************************************************)
EXTENDS Integers, Sequences, FiniteSets, SequencesExt

CONSTANTS
    Contact,        \* bare jids of contacts
    Resource,       \* resources a contact is present with
    MaxSessions,    \* bound: logins
    MaxInputs       \* bound: calls of the application, changes by the server
                    \* and presences of contacts

VARIABLES
    engine,         \* number of the engine the module is registered with
    alive,          \* engines that have not been deleted
    contacts,       \* contacts_
    presences,      \* incoming_presence_vector_, by the jid of each element
    bucket,         \* incoming_presence_map_: the same elements by bare jid
    presence_xml,   \* type of the stanza each element holds
    view,           \* the list a handler keeps from the callbacks it gets
    told,           \* the last presence it was told of
    up, down,       \* stanzas on their way to and from the server
    server,         \* the roster the server has: version, 0 when absent
    interested,     \* the server has been asked for the roster
    last,           \* type of the last presence sent by each full jid
    dead_call,      \* a deleted engine has been called
    inputs          \* what is left of the bound

module_vars == <<engine, contacts, presences, bucket, presence_xml>>
handler_vars == <<view, told>>
server_vars == <<server, interested, last>>
vars == <<module_vars, alive, handler_vars, up, down, server_vars, dead_call,
                   inputs>>

Version == 1 .. 2
FullJid == Contact \X Resource
BareJid(jid) == jid[1]

\* The subscription requests, and the presence types the module stores.
RequestType == {"subscribe", "unsubscribe", "subscribed", "unsubscribed"}
PresenceType == {"available", "unavailable"}

Item(jid, subscription, version) ==
    [jid |-> jid, subscription |-> subscription, version |-> version]
Push(item) == [name |-> "push", items |-> <<item>>]

\* What the module sends: presence, the request for the roster, and the
\* presences that ask for or answer a subscription.
Broadcast == [name |-> "presence", jid |-> "none"]
RosterGet == [name |-> "get", jid |-> "none"]
SubscriptionStanza(jid, type) == [name |-> type, jid |-> jid]

\* DeleteIncomingPresence and DeleteContacts, and a new module.
EmptyModule ==
    /\ contacts' = <<>>
    /\ presences' = <<>>
    /\ bucket' = [c \in Contact |-> <<>>]
    /\ presence_xml' = [j \in FullJid |-> "none"]

Init ==
    /\ engine = 0 /\ alive = {} /\ contacts = <<>> /\ presences = <<>>
    /\ bucket = [c \in Contact |-> <<>>]
    /\ presence_xml = [j \in FullJid |-> "none"]
    /\ view = <<>> /\ told = "none" /\ up = <<>> /\ down = <<>>
    /\ server = [c \in Contact |-> 1]
    /\ interested = FALSE /\ last = [j \in FullJid |-> "none"]
    /\ dead_call = FALSE /\ inputs = MaxInputs

-----------------------------------------------------------------------------
(* What the module does with a stanza.                                     *)

\* std::find_if with RosterPredicate: the first contact with that jid, 0 when
\* there is none.
Position(list, jid) == SelectInSeq(list, LAMBDA c : c.jid = jid)

\* A handler that keeps a copy of the list: ContactsAdded, ContactChanged and
\* ContactRemoved name a position, and it reads the module at the time.
Added(copy, list, index, number) ==
    SubSeq(copy, 1, index) \o SubSeq(list, index + 1, index + number)
        \o SubSeq(copy, index + 1, Len(copy))
Changed(copy, list, index) == [copy EXCEPT ![index + 1] = list[index + 1]]
Removed(copy, index) == RemoveAt(copy, index + 1)

\* The search skipped for every item but a first one.
RosterItemAppended(s, item, all_new) ==
    [list |-> Append(s.list, item),
     view |-> IF all_new THEN s.view
              ELSE Added(s.view, Append(s.list, item), Len(s.list), 1)]

\* One item of InternalRosterItems: the list and the handler's copy after it.
\* While the list was empty at the start nothing is looked up.
RosterItem(s, item, all_new) ==
    LET p == IF all_new THEN 0 ELSE Position(s.list, item.jid)
        removed == RemoveAt(s.list, p)
        changed == [s.list EXCEPT ![p] = item]
        more == Append(s.list, item)
    IN  CASE p # 0 /\ item.subscription = "remove" ->
               [list |-> removed, view |-> Removed(s.view, p - 1)]
          [] p # 0 /\ item.subscription # "remove" ->
               [list |-> changed, view |-> Changed(s.view, changed, p - 1)]
          [] p = 0 /\ all_new -> [list |-> more, view |-> s.view]
          [] OTHER -> [list |-> more,
                       view |-> Added(s.view, more, Len(more) - 1, 1)]

InternalRosterItems(items) ==
    LET all_new == contacts = <<>>
        end == FoldLeft(LAMBDA s, item : RosterItem(s, item, all_new),
                        [list |-> contacts, view |-> view], items)
    IN  /\ contacts' = end.list
        /\ view' = IF all_new THEN Added(end.view, end.list, 0, Len(end.list))
                              ELSE end.view

\* Whether the bucket of its bare jid holds an element of that full jid.
KnownPresence(jid) == Contains(bucket[BareJid(jid)], jid)

\* A presence of that jid is updated in place, or else added to its bucket
\* and to the vector; the handler is told of the element.
InternalIncomingPresence(jid, type) ==
    /\ presence_xml' = [presence_xml EXCEPT ![jid] = type]
    /\ bucket' = IF KnownPresence(jid) THEN bucket
                 ELSE [bucket EXCEPT ![BareJid(jid)] = Append(@, jid)]
    /\ presences' = IF KnownPresence(jid) THEN presences
                    ELSE Append(presences, jid)
    /\ told' = type

\* PrivateRosterModule::SubscriptionRequest: every request is approved.
Approve(jid) == up' = Append(up, SubscriptionStanza(jid, "subscribed"))

\* HandleStanza for presence: the presence of a resource, a request for a
\* subscription (all four are handled alike) or an error.
HandlePresence ==
    /\ down # <<>> /\ Head(down).name = "presence"
    /\ down' = Tail(down)
    /\ LET s == Head(down) IN
       \/ /\ s.type \in PresenceType
          /\ InternalIncomingPresence(s.from, s.type)
          /\ UNCHANGED up
       \/ /\ s.type = "subscribe"
          /\ Approve(BareJid(s.from))
          /\ UNCHANGED <<presences, bucket, presence_xml, told>>
       \/ /\ s.type = "error"
          /\ told' = "error"
          /\ UNCHANGED <<up, presences, bucket, presence_xml>>
    /\ UNCHANGED <<engine, alive, contacts, view, server_vars, dead_call,
                   inputs>>

\* HandleStanza for a roster push, which is acknowledged.
HandlePush ==
    /\ down # <<>> /\ Head(down).name = "push"
    /\ down' = Tail(down)
    /\ InternalRosterItems(Head(down).items)
    /\ up' = Append(up, [name |-> "result", jid |-> Head(down).items[1].jid])
    /\ UNCHANGED <<engine, alive, presences, bucket, presence_xml, told,
                   server_vars, dead_call,
                   inputs>>

\* IqResponse: the roster, an empty result or an error, for the handler.
IqResponse ==
    /\ down # <<>> /\ Head(down).name \in {"roster", "done", "error"}
    /\ down' = Tail(down)
    /\ CASE Head(down).name = "roster" ->
              InternalRosterItems(Head(down).items) /\ UNCHANGED told
         [] Head(down).name = "done" -> UNCHANGED <<contacts, view, told>>
         [] OTHER -> told' = "RosterError" /\ UNCHANGED <<contacts, view>>
    /\ UNCHANGED <<engine, alive, presences, bucket, presence_xml, up,
                   server_vars, dead_call,
                   inputs>>

-----------------------------------------------------------------------------
(* Calls of the application, and of the pump.                              *)

\* RegisterEngine of a new module: one engine, never exchanged.
RegisterEngine == engine' = engine + 1 /\ alive' = alive \cup {engine + 1}

\* ~XmppRosterModuleImpl, ~XmppModuleImpl: the lists go, and the old engine
\* is told to forget the handler, whether it still exists or not.
DestroyModule == dead_call' = (dead_call \/ (engine # 0 /\ engine \notin alive))

\* PrivateRosterModule::Start, after the registration.
StartModule == up' = <<Broadcast, RosterGet>>

\* PumpThread::DoLogin: a new client and engine; the new module replaces the
\* old one and asks for the roster.
DoLogin ==
    /\ engine < MaxSessions
    /\ ~dead_call
    /\ DestroyModule
    /\ RegisterEngine
    /\ EmptyModule
    /\ view' = <<>> /\ told' = "none"
    /\ StartModule
    /\ down' = <<>> /\ interested' = FALSE
    /\ last' = [j \in FullJid |-> "none"]
    /\ UNCHANGED <<server, inputs>>

\* The runner deletes the client of a session that is over, and with it the
\* engine; nobody tells the module.
EngineDeleted ==
    /\ engine \in alive
    /\ alive' = alive \ {engine}
    /\ up' = <<>> /\ down' = <<>>
    /\ UNCHANGED <<module_vars, handler_vars, server_vars, dead_call,
                   inputs>>

\* RequestRosterChange with a valid contact.
RequestRosterChange ==
    /\ engine \in alive /\ inputs > 0
    /\ inputs' = inputs - 1
    /\ \E c \in Contact, v \in Version :
           up' = Append(up, [name |-> "set", jid |-> c, version |-> v])
    /\ UNCHANGED <<module_vars, alive, handler_vars, down, server_vars,
                   dead_call>>

\* RequestRosterRemove: jid and subscription are written on the query itself,
\* AddAttr(.., 1), and no item is sent.
RequestRosterRemove ==
    /\ engine \in alive /\ inputs > 0
    /\ inputs' = inputs - 1
    /\ up' = Append(up, [name |-> "query without item", jid |-> "none"])
    /\ UNCHANGED <<module_vars, alive, handler_vars, down, server_vars,
                   dead_call>>

\* RequestSubscription, CancelSubscription, ApproveSubscriber and
\* CancelSubscriber.
SendSubscriptionRequest ==
    /\ engine \in alive /\ inputs > 0
    /\ inputs' = inputs - 1
    /\ \E c \in Contact, type \in RequestType :
           up' = Append(up, SubscriptionStanza(c, type))
    /\ UNCHANGED <<module_vars, alive, handler_vars, down, server_vars,
                   dead_call>>

\* SendDirectedPresence: only a presence without a type, or an unavailable
\* one, is sent.
SendDirectedPresence ==
    /\ engine \in alive /\ inputs > 0
    /\ inputs' = inputs - 1
    /\ \E c \in Contact, type \in {"", "unavailable", "error"} :
           up' = IF type = "error" THEN up
                 ELSE Append(up, [name |-> "presence", jid |-> c])
    /\ UNCHANGED <<module_vars, alive, handler_vars, down, server_vars,
                   dead_call>>

-----------------------------------------------------------------------------
(* The server.                                                             *)

PushTo(item) == IF interested THEN <<Push(item)>> ELSE <<>>

\* All contacts of the server, in some order.
FullRoster ==
    LET listed == SetToSeq({c \in Contact : server[c] # 0})
    IN  [i \in DOMAIN listed |-> Item(listed[i], "both", server[listed[i]])]

\* It takes the next request.
ServerAnswers ==
    /\ up # <<>>
    /\ up' = Tail(up)
    /\ LET r == Head(up) IN
       CASE r.name = "get" ->
              /\ interested' = TRUE
              /\ down' = Append(down, [name |-> "roster", items |-> FullRoster])
              /\ UNCHANGED server
         [] r.name = "set" ->
              /\ server' = [server EXCEPT ![r.jid] = r.version]
              /\ down' = down \o PushTo(Item(r.jid, "both", r.version))
                              \o <<[name |-> "done"]>>
              /\ UNCHANGED interested
         [] r.name = "query without item" ->
              /\ down' = Append(down, [name |-> "error"])
              /\ UNCHANGED <<server, interested>>
         [] OTHER -> UNCHANGED <<down, server, interested>>
    /\ UNCHANGED <<module_vars, alive, handler_vars, last, dead_call,
                   inputs>>

\* Another client of the account adds, changes or removes a contact.
ServerChanges ==
    /\ engine \in alive /\ inputs > 0
    /\ inputs' = inputs - 1
    /\ \E c \in Contact, v \in Version \cup {0} :
           /\ server[c] # v
           /\ server' = [server EXCEPT ![c] = v]
           /\ down' = down \o PushTo(Item(c, IF v = 0 THEN "remove" ELSE "both", v))
    /\ UNCHANGED <<module_vars, alive, handler_vars, up, interested, last,
                   dead_call>>

\* A contact's presence, request or error.
ServerPresence ==
    /\ engine \in alive /\ inputs > 0
    /\ inputs' = inputs - 1
    /\ \E j \in FullJid, type \in PresenceType \cup {"subscribe", "error"} :
           /\ down' = Append(down, [name |-> "presence", from |-> j, type |-> type])
           /\ last' = IF type \in PresenceType THEN [last EXCEPT ![j] = type]
                                               ELSE last
    /\ UNCHANGED <<module_vars, alive, handler_vars, up, server, interested,
                   dead_call>>

Next ==
    \/ HandlePresence \/ HandlePush \/ IqResponse
    \/ DoLogin \/ EngineDeleted
    \/ RequestRosterChange \/ RequestRosterRemove \/ SendSubscriptionRequest
    \/ SendDirectedPresence
    \/ ServerAnswers \/ ServerChanges \/ ServerPresence

Spec == Init /\ [][Next]_vars

-----------------------------------------------------------------------------

TypeOK ==
    /\ engine \in 0 .. MaxSessions /\ alive \subseteq 1 .. MaxSessions
    /\ \A i \in DOMAIN contacts :
           contacts[i] \in [jid : Contact, subscription : {"both", "remove"},
                            version : 0 .. 2]
    /\ presences \in Seq(FullJid)
    /\ bucket \in [Contact -> Seq(FullJid)]
    /\ presence_xml \in [FullJid -> PresenceType \cup {"none"}]
    /\ server \in [Contact -> 0 .. 2] /\ interested \in BOOLEAN

\* A handler that does nothing but follow ContactsAdded, ContactChanged and
\* ContactRemoved has the list of the module, position for position.
HandlerMirrors == view = contacts

\* When the session has its roster and no stanza is on its way, the contacts
\* are the server's: every push, whatever list it met, had the effect the
\* server meant, and no contact is listed twice (InternalRosterItems skips
\* the search while the list is empty).
FollowsServer ==
    interested /\ down = <<>> /\ engine \in alive =>
        /\ Len(contacts) = Cardinality({c \in Contact : server[c] # 0})
        /\ \A c \in Contact : server[c] # 0 =>
               Contains(contacts, Item(c, "both", server[c]))

\* The vector of all presences and the buckets by bare jid hold the same
\* elements, each once, and each has the type its contact sent last.
PresenceFollows ==
    /\ \A j \in FullJid :
           /\ Cardinality({i \in DOMAIN presences : presences[i] = j})
                = IF presence_xml[j] = "none" THEN 0 ELSE 1
           /\ \A c \in Contact :
                  Cardinality({i \in DOMAIN bucket[c] : bucket[c][i] = j})
                    = IF presence_xml[j] # "none" /\ BareJid(j) = c THEN 1 ELSE 0
    /\ (down = <<>> /\ engine \in alive => presence_xml = last)

\* The roster module never calls an engine that has been deleted:
\* moduleimpl.h:38 asks for modules to be unregistered before that.
NoDeadEngine == ~dead_call
=============================================================================
