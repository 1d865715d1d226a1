---------------------------- MODULE HangoutPubSub ----------------------------
(***************************************************************************)
(* The states of the members of a call, published in the nodes of a room   *)
(* (talk/xmpp/hangoutpubsubclient.cc on pubsubclient.cc and                *)
(* pubsubtasks.cc): presenter, mute and block states.                      *)
(*                                                                         *)
(* One client is modelled; the room and the other members are external.    *)
(* The room applies publications and retractions in the order it gets      *)
(* them, tells every item to the client, and answers each request; to the  *)
(* client everything travels in order.  Only the member itself or a remote *)
(* mute sets a mute state, and only the member takes it back.              *)
(***************************************************************************)
EXTENDS Naturals, Sequences, FiniteSets, SequencesExt, Functions

CONSTANTS
    Me, Other,      \* nicknames, different ones
    Kind,           \* state clients: presenter, audio, video, block
    MaxInputs       \* bound: calls and publications of the other

VARIABLES
    info_by_itemid, \* item id |-> [publisher, published]
    state_by_key,   \* kind |-> keys whose state is not the default
    heard,          \* kind |-> keys an application heard to be set
    tasks,          \* publishing tasks under way: id |-> [kind, published]
    answers,        \* what they came to: [kind, published, signal, ok]
    asked,          \* RequestAll: no | asked | answered | failed
    to_room, to_client,
    items,          \* room: item id |-> [publisher, published, state]
    inputs          \* what is left of the bound

view == <<info_by_itemid, state_by_key, heard>>
vars == <<view, tasks, answers, asked, to_room, to_client, items, inputs>>

Nick == {Me, Other}

\* PublishedNickKeySerializer and PublisherAndPublishedNicksKeySerializer
Key(kind, publisher, published) ==
    IF kind = "block" THEN <<publisher, published>> ELSE <<published>>
ItemId(kind, publisher, published) == <<kind, Key(kind, publisher, published)>>

\* Every item of the presenter counts as a change.
StatesEqual(kind, s, t) == kind # "presenter" /\ s = t

\* An element of a node: a retraction carries the id and nothing else.
Item(id, publisher, published, state) ==
    [id |-> id, retracted |-> FALSE,
     info |-> [publisher |-> publisher, published |-> published], state |-> state]
Retraction(id) == [id |-> id, retracted |-> TRUE]

Init ==
    /\ info_by_itemid = [id \in {} |-> {}]
    /\ state_by_key = [k \in Kind |-> {}]
    /\ heard = [k \in Kind |-> {}]
    /\ tasks = <<>> /\ answers = {} /\ asked = "no"
    /\ to_room = <<>> /\ to_client = <<>>
    /\ items = [id \in {} |-> {}]
    /\ inputs = MaxInputs

Input == inputs > 0 /\ inputs' = inputs - 1

-----------------------------------------------------------------------------
(* Calls.                                                                  *)

\* RequestAll, RequestItems: the receiving task is started before the
\* requesting one.
RequestAll ==
    /\ Input /\ asked = "no"
    /\ asked' = "asked"
    /\ to_room' = Append(to_room, [name |-> "get"])
    /\ UNCHANGED <<view, tasks, answers, to_client, items>>

\* Publish: the default state is a retraction, but not for the presenter.
Request(kind, published, state) ==
    LET id == ItemId(kind, Me, published)
    IN  [name |-> "set", id |-> Len(tasks) + 1,
         item |-> IF StatesEqual(kind, state, FALSE) THEN Retraction(id)
                  ELSE Item(id, Me, published, state)]

Publish(kind, published, state) ==
    /\ Input
    /\ tasks' = Append(tasks, [kind |-> kind, published |-> published])
    /\ to_room' = Append(to_room, Request(kind, published, state))
    /\ UNCHANGED <<view, answers, asked, to_client, items>>

\* PublishPresenterState, PublishAudioMuteState, PublishVideoMuteState,
\* PublishVideoPauseState and PublishRecordingState
PublishState == \E k \in Kind \ {"block"}, s \in BOOLEAN : Publish(k, Me, s)
RemoteMute == "audio" \in Kind /\ Publish("audio", Other, TRUE)
BlockMedia == "block" \in Kind /\ Publish("block", Other, TRUE)

-----------------------------------------------------------------------------
(* Stanzas from the room.                                                  *)

Forget(info, id) == Restrict(info, DOMAIN info \ {id})

\* What a change signals, as the keys the application takes for set: a remote
\* unmute and an unblock are not signalled.
SignalStateChange(kind, keys, key, info, old_state, new_state) ==
    LET remote_action == info.publisher # info.published
        told == IF new_state THEN keys \cup {key} ELSE keys \ {key}
    IN  CASE kind = "audio" -> IF remote_action /\ ~new_state THEN keys ELSE told
          [] kind = "block" -> IF ~old_state /\ new_state THEN told ELSE keys
          [] OTHER -> told

\* OnItem, in the state client of the item's kind; to the others it looks
\* like the retraction of an item they do not know.
OnItem(v, item) ==
    LET kind == item.id[1]
        known == item.id \in DOMAIN v.info
        info == IF item.retracted THEN v.info[item.id] ELSE item.info
        key == Key(kind, info.publisher, info.published)
        old_state == key \in v.state[kind]
        new_state == IF item.retracted THEN FALSE ELSE item.state
        noted == [v EXCEPT !.info = IF item.retracted THEN Forget(@, item.id)
                                    ELSE (item.id :> info) @@ @]
    IN  IF item.retracted /\ ~known THEN v
        ELSE IF (item.retracted /\ ~old_state) \/ StatesEqual(kind, new_state, old_state)
             THEN noted
        ELSE [noted EXCEPT
                !.state[kind] = IF new_state THEN @ \cup {key} ELSE @ \ {key},
                !.heard[kind] = SignalStateChange(kind, @, key, info, old_state,
                                                  new_state)]

\* Only the first item is looked at.
FirstItem(list) ==
    FoldLeft(OnItem, [info |-> info_by_itemid, state |-> state_by_key,
                      heard |-> heard], SelectSeq(list, LAMBDA item : item = list[1]))
\* OnItems
EachItem(list) ==
    FoldLeft(OnItem, [info |-> info_by_itemid, state |-> state_by_key,
                      heard |-> heard], list)
OnItems(list) ==
    LET v == EachItem(list)
    IN  /\ info_by_itemid' = v.info /\ state_by_key' = v.state /\ heard' = v.heard

\* OnAudioMutePublishResult and OnAudioMutePublishError: the nickname is read
\* from the item that was published, and a retraction has none.
AudioMuteSignal(item) ==
    IF item.retracted \/ item.info.published # Me THEN "RemoteMute" ELSE "Publish"

\* The other handlers of results and errors.
PublishSignal(kind, item) ==
    CASE kind = "audio" -> AudioMuteSignal(item)
      [] kind = "block" -> "MediaBlock"
      [] OTHER -> "Publish"

\* PubSubReceiveTask and PubSubRequestTask hand on their items, a publishing
\* task its result; nobody listens to events before RequestAll.
HandleStanza ==
    /\ to_client # <<>>
    /\ to_client' = Tail(to_client)
    /\ LET s == Head(to_client) IN
       \/ /\ s.name = "event" /\ asked # "no"
          /\ OnItems(<<s.item>>) /\ UNCHANGED <<answers, asked>>
       \/ /\ s.name = "event" /\ asked = "no"
          /\ UNCHANGED <<view, answers, asked>>
       \/ /\ s.name = "items"
          /\ OnItems(s.items) /\ asked' = "answered" /\ UNCHANGED answers
       \/ /\ s.name = "error"
          /\ asked' = "failed" /\ UNCHANGED <<view, answers>>
       \/ /\ s.name = "result"
          /\ answers' = answers \cup
                 {[kind |-> tasks[s.id].kind, published |-> tasks[s.id].published,
                   signal |-> PublishSignal(tasks[s.id].kind, s.item), ok |-> s.ok]}
          /\ UNCHANGED <<view, asked>>
    /\ UNCHANGED <<tasks, to_room, items, inputs>>

-----------------------------------------------------------------------------
(* The room.                                                               *)

Applied(item) ==
    IF item.retracted THEN Restrict(items, DOMAIN items \ {item.id})
    ELSE (item.id :> [info |-> item.info, state |-> item.state]) @@ items

AllItems ==
    LET ids == SetToSeq(DOMAIN items)
    IN  [i \in DOMAIN ids |->
            Item(ids[i], items[ids[i]].info.publisher, items[ids[i]].info.published,
                 items[ids[i]].state)]

RoomTakes ==
    /\ to_room # <<>>
    /\ to_room' = Tail(to_room)
    /\ LET r == Head(to_room) IN
       \/ /\ r.name = "get"
          /\ to_client' = Append(to_client, [name |-> "items", items |-> AllItems])
          /\ UNCHANGED items
       \/ /\ r.name = "get"
          /\ to_client' = Append(to_client, [name |-> "error"])
          /\ UNCHANGED items
       \/ /\ r.name = "set"
          /\ to_client' = Append(to_client, [name |-> "result", id |-> r.id,
                                            item |-> r.item, ok |-> FALSE])
          /\ UNCHANGED items
       \/ /\ r.name = "set"
          /\ items' = Applied(r.item)
          /\ to_client' = to_client \o <<[name |-> "event", item |-> r.item],
                             [name |-> "result", id |-> r.id, item |-> r.item,
                              ok |-> TRUE]>>
    /\ UNCHANGED <<view, tasks, answers, asked, inputs>>

\* The other publishes a state of its own, mutes or blocks the client, or
\* takes back what is its own.
OtherPublishes ==
    /\ Input
    /\ \E kind \in Kind, published \in Nick, state \in BOOLEAN :
           LET id == ItemId(kind, Other, published)
               item == IF StatesEqual(kind, state, FALSE) THEN Retraction(id)
                       ELSE Item(id, Other, published, state)
           IN  /\ published = Me => kind = "block" \/ (kind = "audio" /\ state)
               /\ published = Other => kind # "block"
               /\ items' = Applied(item)
               /\ to_client' = Append(to_client, [name |-> "event", item |-> item])
    /\ UNCHANGED <<view, tasks, answers, asked, to_room>>

Next ==
    \/ RequestAll \/ PublishState \/ RemoteMute \/ BlockMedia
    \/ HandleStanza \/ RoomTakes \/ OtherPublishes

Spec == Init /\ [][Next]_vars

-----------------------------------------------------------------------------

TypeOK ==
    /\ DOMAIN info_by_itemid \subseteq Kind \X {Key(k, n, m) : k \in Kind, n, m \in Nick}
    /\ state_by_key \in [Kind -> SUBSET {Key(k, n, m) : k \in Kind, n, m \in Nick}]
    /\ \A a \in answers : a.kind \in Kind /\ a.published \in Nick
    /\ asked \in {"no", "asked", "answered", "failed"}

SetInRoom(kind) ==
    {id[2] : id \in {d \in DOMAIN items : d[1] = kind /\ items[d].state}}

\* Once everything sent has arrived, the client knows exactly the states that
\* are set in the room, whichever events crossed its request and whoever
\* published or retracted them.
ViewFollowsNode ==
    asked = "answered" /\ to_client = <<>> =>
        \A k \in Kind : state_by_key[k] = SetInRoom(k)

\* An application hears of every state that is set; and but for mutes, which
\* may be remote, and blocks, of every one that is taken back.
ChangesHeard ==
    \A k \in Kind :
        IF k \in {"audio", "block"} THEN state_by_key[k] \subseteq heard[k]
        ELSE heard[k] = state_by_key[k]

\* The same for mutes.  It does not hold: a member that unmutes itself after
\* a remote mute is taken for remotely unmuted, since a retraction is given
\* the publisher of the last publication.
UnmutesHeard == "audio" \in Kind => heard["audio"] = state_by_key["audio"]

\* PublishAudioMuteState is answered by SignalPublishAudioMuteResult or
\* SignalPublishAudioMuteError.  It does not hold: the result of a retraction has no nickname and is signalled as
\* the result of a remote mute of nobody.
AnsweredAsAsked ==
    \A a \in answers :
        a.kind = "audio" /\ a.published = Me => a.signal = "Publish"
=============================================================================
