------------------------------- MODULE ChatRoom -------------------------------
(***************************************************************************)
(* One chat room (talk/xmpp/chatroommoduleimpl.cc): the state of the user, *)
(* the members the module knows, the callbacks it makes, and the           *)
(* enumerators of its members.                                             *)
(*                                                                         *)
(* One action is one call of the application or one stanza of the room     *)
(* handed to HandleStanza.  The room is external: it takes the user in or  *)
(* refuses, tells those inside who comes and goes, and may put the user    *)
(* out; a presence with the muc element from outside is a request to       *)
(* enter.  Stanzas are not lost or reordered in either direction.          *)
(***************************************************************************)
EXTENDS Integers, Sequences, FiniteSets, SequencesExt

CONSTANTS
    Others,         \* the other occupants: numbers but 0, in the order of their jids
    Mine,           \* nicknames of the user, in the same order, none of them in Others
    MaxInputs       \* bound: calls of the application and events in the room

NoName == 0     \* the empty nickname, and a NULL member

VARIABLES
    state,          \* chatroom_state_
    nickname,       \* nickname_
    members,        \* keys of chatroom_jid_members_
    version,        \* chatroom_jid_members_version_
    present,        \* the members a handler knows from its callbacks
    entered,        \* statuses it was told, the last one first
    cursor,         \* an enumerator: version, position, before_beginning_
    current,        \* what its current() returned last
    to_room, to_user,   \* stanzas on their way
    inside,         \* room: nickname the user has in it, NoName when outside
    room,           \* room: the other occupants
    unseen,         \* others who went last while the user was outside
    crossed,        \* a status change met a user who had been put out
    inputs          \* what is left of the bound

member_vars == <<members, version, present>>
cursor_vars == <<cursor, current>>
room_vars == <<inside, room, unseen, crossed>>
vars == <<state, nickname, member_vars, entered, cursor_vars, to_room, to_user,
          room_vars, inputs>>

State == {"NOT_IN_ROOM", "REQUESTED_ENTER", "IN_ROOM", "REQUESTED_EXIT"}

\* The rows of Transitions that are valid, by who makes them, with what is
\* fired; every other row is refused.
ServerTransition ==
    [REQUESTED_ENTER |-> [IN_ROOM |-> "ENTER_SUCCESS", NOT_IN_ROOM |-> "ENTER_FAILURE"],
     IN_ROOM |-> [NOT_IN_ROOM |-> "EXIT_INVOLUNTARILY"],
     REQUESTED_EXIT |-> [NOT_IN_ROOM |-> "EXIT_VOLUNTARILY"],
     NOT_IN_ROOM |-> [none |-> "none"]]
ClientTransition ==
    {<<"NOT_IN_ROOM", "REQUESTED_ENTER">>, <<"IN_ROOM", "REQUESTED_EXIT">>}

\* GetEnterFailureFromXml and GetExitFailureFromXml, from the code the
\* stanza carries.
EnterFailure(code) ==
    CASE code = 401 -> "PASSWORD_REQUIRED" [] code = 403 -> "MEMBER_BANNED"
      [] code = 405 -> "ROOM_LOCKED" [] code = 406 -> "OUTDATED_CLIENT"
      [] code = 407 -> "NOT_A_MEMBER" [] code = 409 -> "NICKNAME_CONFLICT"
      [] code = 503 -> "MAX_USERS" [] OTHER -> "FAILURE_UNSPECIFIED"
ExitFailure(code) ==
    CASE code = 307 -> "KICKED" [] code = 322 -> "NOT_A_MEMBER"
      [] code = 332 -> "SYSTEM_SHUTDOWN" [] OTHER -> "EXITED_UNSPECIFIED"

Presence(nick, type, code) ==
    [name |-> "presence", nick |-> nick, type |-> type, code |-> code]

Init ==
    /\ state = "NOT_IN_ROOM" /\ nickname = NoName
    /\ members = {} /\ version = 0 /\ present = {} /\ entered = <<>>
    /\ cursor = [version |-> -1, at |-> 1, before |-> TRUE] /\ current = NoName
    /\ to_room = <<>> /\ to_user = <<>>
    /\ inside = NoName /\ room = {}
    /\ unseen = {} /\ crossed = FALSE /\ inputs = MaxInputs

Input == inputs > 0 /\ inputs' = inputs - 1

-----------------------------------------------------------------------------
(* Calls of the application.                                               *)

\* set_nickname, and set_chatroom_jid with it: only outside the room.
SetNickname ==
    /\ Input /\ state = "NOT_IN_ROOM"
    /\ nickname' \in Mine
    /\ UNCHANGED <<state, member_vars, entered, cursor_vars, to_room, to_user,
                   room_vars>>

\* ClientChangeMyPresence
ClientChange(new_state) ==
    /\ <<state, new_state>> \in ClientTransition
    /\ state' = new_state

RequestEnterChatroom ==
    /\ Input /\ nickname # NoName
    /\ ClientChange("REQUESTED_ENTER")
    /\ to_room' = Append(to_room, [name |-> "enter", nick |-> nickname])
    /\ UNCHANGED <<nickname, member_vars, entered, cursor_vars, to_user, room_vars>>

RequestExitChatroom ==
    /\ Input
    /\ ClientChange("REQUESTED_EXIT")
    /\ to_room' = Append(to_room, [name |-> "exit", nick |-> nickname])
    /\ UNCHANGED <<nickname, member_vars, entered, cursor_vars, to_user, room_vars>>

\* RequestConnectionStatusChange: a presence with the muc element, like the
\* one that enters the room.
RequestConnectionStatusChange ==
    /\ Input /\ state = "IN_ROOM"
    /\ to_room' = Append(to_room, [name |-> "status", nick |-> nickname])
    /\ UNCHANGED <<state, nickname, member_vars, entered, cursor_vars, to_user,
                   room_vars>>

\* SendMessage, with a message that is for the room.
SendMessage ==
    /\ Input /\ state = "IN_ROOM"
    /\ to_room' = Append(to_room, [name |-> "message", nick |-> nickname])
    /\ UNCHANGED <<state, nickname, member_vars, entered, cursor_vars, to_user,
                   room_vars>>

-----------------------------------------------------------------------------
(* Stanzas of the room.                                                    *)

\* FireEnteredStatus and FireExitStatus
Status(transition, code) ==
    CASE transition = "ENTER_SUCCESS" -> "SUCCESS"
      [] transition = "ENTER_FAILURE" -> EnterFailure(code)
      [] transition = "EXIT_INVOLUNTARILY" -> ExitFailure(code)
      [] OTHER -> "REQUESTED"

\* ChangePresence: the transition of a presence of the user's own, "none"
\* when it is no change or not valid.
Transition(new_state) ==
    IF new_state \in DOMAIN ServerTransition[state]
    THEN ServerTransition[state][new_state] ELSE "none"

\* ServerChangeMyPresence: any type attribute means outside.
ServerChangeMyPresence(s) ==
    LET new_state == IF s.type = "" THEN "IN_ROOM" ELSE "NOT_IN_ROOM"
        t == IF new_state = state THEN "none" ELSE Transition(new_state)
    IN  /\ state' = IF t = "none" THEN state ELSE new_state
        /\ entered' = IF t = "none" THEN entered
                      ELSE <<Status(t, s.code)>> \o entered
        /\ UNCHANGED member_vars

RemoveMember(nick) == members \ {nick}

\* The version is left alone when a member goes.
NextVersion(type) == version + 1

\* ServerChangedOtherPresence: MemberEntered, MemberChanged and MemberExited.
ServerChangedOtherPresence(s) ==
    /\ UNCHANGED <<state, entered>>
    /\ CASE s.type = "" ->
              /\ members' = members \cup {s.nick}
              /\ present' = IF s.nick \in members THEN present
                            ELSE present \cup {s.nick}
              /\ version' = NextVersion(s.type)
         [] s.type = "unavailable" /\ s.nick \in members ->
              /\ members' = RemoveMember(s.nick)
              /\ present' = present \ {s.nick}
              /\ version' = NextVersion(s.type)
         [] OTHER -> UNCHANGED member_vars

\* HandleStanza, for a stanza from the room.
HandleStanza ==
    /\ to_user # <<>>
    /\ to_user' = Tail(to_user)
    /\ LET s == Head(to_user) IN
       IF s.name = "message" THEN UNCHANGED <<state, entered, member_vars>>
       ELSE IF s.nick = nickname THEN ServerChangeMyPresence(s)
       ELSE ServerChangedOtherPresence(s)
    /\ UNCHANGED <<nickname, cursor_vars, to_room, room_vars, inputs>>

-----------------------------------------------------------------------------
(* XmppChatroomMemberEnumeratorImpl: an iterator of the map and the        *)
(* version of the map it was made for.                                     *)

InOrder == SetToSortSeq(members, LAMBDA m, n : m < n)

CreateMemberEnumerator ==
    /\ Input
    /\ cursor' = [version |-> version, at |-> 1, before |-> TRUE]
    /\ current' = NoName
    /\ UNCHANGED <<state, nickname, member_vars, entered, to_room, to_user,
                   room_vars>>

IsValid == cursor.version = version
IsAfterEnd(c) == c.at > Len(InOrder)
CurrentOf(c) == IF c.before \/ IsAfterEnd(c) THEN NoName ELSE InOrder[c.at]

MoveTo(c) == cursor' = c /\ current' = CurrentOf(c)
IterateUnchanged ==
    UNCHANGED <<state, nickname, member_vars, entered, to_room, to_user,
                room_vars, inputs>>

EnumeratorNext ==
    /\ IsValid
    /\ \/ /\ cursor.before
          /\ MoveTo([cursor EXCEPT !.before = FALSE, !.at = 1])
       \/ /\ ~cursor.before /\ ~IsAfterEnd(cursor)
          /\ MoveTo([cursor EXCEPT !.at = @ + 1])
    /\ IterateUnchanged

EnumeratorPrev ==
    /\ IsValid /\ ~cursor.before
    /\ \/ /\ cursor.at = 1
          /\ MoveTo([cursor EXCEPT !.before = TRUE])
       \/ /\ cursor.at > 1
          /\ MoveTo([cursor EXCEPT !.at = @ - 1])
    /\ IterateUnchanged

-----------------------------------------------------------------------------
(* The room.                                                               *)

Occupants == SetToSortSeq(room, LAMBDA m, n : m < n)

\* Everybody inside, then the user.
Welcome(nick) ==
    [i \in DOMAIN Occupants |->
        Presence(Occupants[i], "", 0)] \o <<Presence(nick, "", 0)>>

RoomTakes ==
    /\ to_room # <<>>
    /\ to_room' = Tail(to_room)
    /\ LET r == Head(to_room) IN
       \/ /\ r.name \in {"enter", "status"} /\ inside = NoName
          /\ inside' = r.nick
          /\ to_user' = to_user \o Welcome(r.nick)
          /\ crossed' = (crossed \/ r.name = "status")
       \/ /\ r.name = "enter" /\ inside = NoName
          /\ \E code \in {401, 409} :
                 to_user' = Append(to_user, Presence(r.nick, "error", code))
          /\ UNCHANGED <<inside, crossed>>
       \/ /\ r.name \in {"enter", "status"} /\ inside # NoName
          /\ to_user' = Append(to_user, Presence(inside, "", 0))
          /\ UNCHANGED <<inside, crossed>>
       \/ /\ r.name = "exit" /\ inside # NoName
          /\ to_user' = Append(to_user, Presence(inside, "unavailable", 0))
          /\ inside' = NoName /\ UNCHANGED crossed
       \/ /\ r.name = "exit" /\ inside = NoName
          /\ UNCHANGED <<to_user, inside, crossed>>
       \/ /\ r.name = "message"
          /\ to_user' = IF inside = NoName THEN to_user
                        ELSE Append(to_user, [name |-> "message"])
          /\ UNCHANGED <<inside, crossed>>
    /\ UNCHANGED <<state, nickname, member_vars, entered, cursor_vars, room, unseen,
                   inputs>>

\* Somebody enters, changes or leaves; those inside are told.
RoomChanges ==
    /\ Input
    /\ \E nick \in Others, type \in {"", "unavailable"} :
           /\ type = "unavailable" => nick \in room
           /\ room' = IF type = "" THEN room \cup {nick} ELSE room \ {nick}
           /\ unseen' = IF type = "unavailable" /\ inside = NoName
                        THEN unseen \cup {nick} ELSE unseen \ {nick}
           /\ to_user' = IF inside = NoName THEN to_user
                         ELSE Append(to_user, Presence(nick, type, 0))
    /\ UNCHANGED <<state, nickname, member_vars, entered, cursor_vars, to_room,
                   inside, crossed>>

\* The user is put out.
RoomPutsOut ==
    /\ Input /\ inside # NoName
    /\ \E code \in {307, 332} :
           to_user' = Append(to_user, Presence(inside, "unavailable", code))
    /\ inside' = NoName
    /\ UNCHANGED <<state, nickname, member_vars, entered, cursor_vars, to_room,
                   room, unseen, crossed>>

Next ==
    \/ SetNickname \/ RequestEnterChatroom \/ RequestExitChatroom
    \/ RequestConnectionStatusChange \/ SendMessage
    \/ HandleStanza
    \/ CreateMemberEnumerator \/ EnumeratorNext \/ EnumeratorPrev
    \/ RoomTakes \/ RoomChanges \/ RoomPutsOut

Spec == Init /\ [][Next]_vars

-----------------------------------------------------------------------------

TypeOK ==
    /\ state \in State /\ nickname \in Mine \cup {NoName}
    /\ members \subseteq Others \cup Mine /\ version \in Nat
    /\ cursor.at \in 1 .. Cardinality(Others \cup Mine) + 1
    /\ current \in Others \cup Mine \cup {NoName}
    /\ inside \in Mine \cup {NoName} /\ room \subseteq Others

\* Once nothing is on its way, user and room agree on whether the user is
\* inside, whatever crossed on the way: an exit that meets an expulsion, a
\* second request, a refusal.  The one exception is a status change that
\* reaches the room after it has put the user out: it enters the user again,
\* and the module refuses the welcome, not having asked for it.
RoomAgrees ==
    to_room = <<>> /\ to_user = <<>> /\ ~crossed =>
        state = IF inside = NoName THEN "NOT_IN_ROOM" ELSE "IN_ROOM"

\* In every visit, once nothing is on its way to the user, the members the
\* module knows, who are those a handler knows from its callbacks, are the other
\* occupants and, as members are not forgotten on the way out, those from an
\* earlier visit who went while the user was outside, and no one else.
MembersFollow ==
    /\ present = members
    /\ to_user = <<>> /\ inside # NoName /\ ~crossed =>
           room \subseteq members /\ members \ room \subseteq unseen

\* The members are the other occupants.  They are not in a second visit.
MembersAlwaysFollow ==
    to_user = <<>> /\ inside # NoName /\ ~crossed => members = room

\* Entering and leaving alternate in what the handler is told, an exit only
\* follows a success, and an expulsion is never reported as a refusal.
StatusesAlternate ==
    \A i \in DOMAIN entered :
        LET was == IF i = Len(entered) THEN "out" ELSE entered[i + 1]
        IN  entered[i] \in {"KICKED", "SYSTEM_SHUTDOWN", "EXITED_UNSPECIFIED",
                            "REQUESTED"} <=> was = "SUCCESS"

\* What a valid enumerator returned is still a member: an iterator of a map
\* that has changed is never dereferenced.
EnumeratorSafe == IsValid => current \in members \cup {NoName}

\* IsValid returns true if the collection has changed, says its comment.  It
\* returns true as long as it has not.
ValidWhenChanged == cursor.version # version => IsValid
=============================================================================
