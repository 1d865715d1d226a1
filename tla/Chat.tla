-------------------------------- MODULE Chat --------------------------------
(***************************************************************************)
(* The chat program (examples/chat): a thread reads the lines of the       *)
(* console and posts them to the main thread, where they drive a menu,     *)
(* while the presences of the same thread change the list that the menu    *)
(* offers.                                                                 *)
(*                                                                         *)
(* A line means what the state of the menu makes of it when it is handled, *)
(* which may be later than it was typed.  The user is modelled as one who  *)
(* knows the program: intent is what the lines typed so far lead to when   *)
(* the list is the one on the screen.  The session is external but for     *)
(* what becomes of the tasks; it begins and ends once.                     *)
(***************************************************************************)
EXTENDS Naturals, Sequences

CONSTANTS
    Contact,        \* the contacts in the order of their addresses
    MaxLines,       \* bound: lines of the console
    MaxPresences    \* bound: presences

VARIABLES
    inbox,          \* lines posted to the main thread
    reading,        \* the console thread reads
    main,           \* the main thread: runs, quits, left or done
    session,        \* START, OPEN, then CLOSED by the server or LEFT
    tasks,          \* the tasks of the program: none, live or deleted
    ui,             \* ui_state_
    roster,         \* roster_list_: who of Contact is in it
    dest,           \* chat_dest_jid_
    lost,           \* a task that is not there has been used
    \* history
    shown,          \* the list on the screen
    intent,         \* what the user takes ui_state_ and chat_dest_jid_ to be
    misled,         \* a choice was made from another list than the one shown
    sent,           \* messages with the destination meant and the one they got
    lines, presences    \* what is left of the bounds

vars == <<inbox, reading, main, session, tasks, ui, roster, dest, lost, shown, intent,
          misled, sent, lines, presences>>

\* "a" is an address as well as a text.
Line == {"", "0", "1", "2", "a"}
Digit == [l \in {"0", "1", "2"} |-> CASE l = "0" -> 0 [] l = "1" -> 1 [] OTHER -> 2]

Init ==
    /\ inbox = <<>> /\ reading = TRUE /\ main = "runs"
    /\ session = "START" /\ tasks = "none"
    /\ ui = "BASE" /\ roster = {} /\ dest = "" /\ lost = FALSE
    /\ shown = <<>> /\ intent = [ui |-> "BASE", dest |-> ""] /\ misled = FALSE
    /\ sent = <<>> /\ lines = MaxLines /\ presences = MaxPresences

\* The map is sorted by address.
List == SelectSeq(Contact, LAMBDA c : c \in roster)

\* GetRosterItem.
GetRosterItem(index, list) == IF index < Len(list) THEN <<list[index + 1]>> ELSE <<>>

-----------------------------------------------------------------------------
\* HandleBaseInput, HandleJidInput, HandleChatInput: state and destination after
\* a line, given the list the choice is made from.
HandleBaseInput(m, l) == IF l = "2" THEN [m EXCEPT !.ui = "PROMPTJID"] ELSE m
HandleJidInput(m, l, list) ==
    IF l \in DOMAIN Digit
    THEN LET found == GetRosterItem(Digit[l], list)
         IN  IF found = <<>> THEN [m EXCEPT !.ui = "BASE"]
             ELSE [ui |-> "CHATTING", dest |-> found[1]]
    ELSE [ui |-> "CHATTING", dest |-> l]
HandleChatInput(m, l) == IF l = "" THEN [m EXCEPT !.ui = "BASE"] ELSE m

\* OnConsoleMessage.
OnConsoleMessage(m, l, list) ==
    CASE m.ui = "BASE" -> HandleBaseInput(m, l)
      [] m.ui = "PROMPTJID" -> HandleJidInput(m, l, list)
      [] OTHER -> HandleChatInput(m, l)

\* PrintRoster, for the menu and for the prompt.
PrintRoster(l) == shown' = IF ui = "BASE" /\ l \in {"1", "2"} THEN List ELSE shown

\* TextChatSendTask::Send, without a look at whether the task is there.
Send(meant) ==
    /\ sent' = Append(sent, [meant |-> meant, to |-> dest])
    /\ lost' = (tasks # "live")

\* ConsoleTask::Stop joins the console thread, and the messages to the console
\* go with it.
StopConsole == reading' = FALSE /\ inbox' = <<>>

-----------------------------------------------------------------------------
\* RunConsole, on the console thread: nothing is posted to a thread that quits.
RunConsole(l) ==
    /\ reading /\ lines > 0 /\ lines' = lines - 1
    /\ IF main = "runs"
       THEN /\ inbox' = Append(inbox, [line |-> l, meant |-> intent, list |-> shown])
            /\ intent' = OnConsoleMessage(intent, l, shown)
       ELSE UNCHANGED <<inbox, intent>>
    /\ UNCHANGED <<reading, main, session, tasks, ui, roster, dest, lost, shown, misled,
                   sent, presences>>

\* OnMessage, on the main thread, which empties its queue before it ends.
OnMessage ==
    /\ main \in {"runs", "quits"} /\ ~lost /\ inbox # <<>> /\ inbox' = Tail(inbox)
    /\ LET in    == Head(inbox)
           l     == in.line
           now   == OnConsoleMessage([ui |-> ui, dest |-> dest], l, List)
       IN  /\ ui' = now.ui /\ dest' = now.dest
           /\ PrintRoster(l)
           /\ misled' = (misled \/ (ui = "PROMPTJID" /\ l \in DOMAIN Digit
                                       /\ GetRosterItem(Digit[l], List)
                                            # GetRosterItem(Digit[l], in.list)))
           /\ IF ui = "CHATTING" /\ l # "" THEN Send(in.meant.dest)
              ELSE UNCHANGED <<sent, lost>>
           /\ main' = IF ui = "BASE" /\ l = "0" THEN "quits" ELSE main
    /\ UNCHANGED <<reading, session, tasks, roster, intent, lines, presences>>

\* OnXmppOpen.
OnXmppOpen ==
    /\ main = "runs" /\ ~lost /\ session = "START" /\ session' = "OPEN"
    /\ tasks' = "live"
    /\ UNCHANGED <<inbox, reading, main, ui, roster, dest, lost, shown, intent, misled,
                   sent, lines, presences>>

\* The server ends the session; the runner of the pump then deletes the client
\* and the tasks under it, and what was sent meanwhile.
EngineCloses ==
    /\ main = "runs" /\ ~lost /\ session # "CLOSED" /\ session' = "CLOSED"
    /\ UNCHANGED <<inbox, reading, main, tasks, ui, roster, dest, lost, shown, intent, misled,
                   sent, lines, presences>>
RunTasks ==
    /\ main = "runs" /\ ~lost /\ session = "CLOSED" /\ tasks = "live"
    /\ tasks' = "deleted"
    /\ UNCHANGED <<inbox, reading, main, session, ui, roster, dest, lost, shown, intent,
                   misled, sent, lines, presences>>

\* OnPresenceUpdate.
OnPresenceUpdate(c, available) ==
    /\ main = "runs" /\ ~lost /\ session = "OPEN" /\ tasks = "live"
    /\ presences > 0 /\ presences' = presences - 1
    /\ roster' = IF available THEN roster \union {c} ELSE roster \ {c}
    /\ UNCHANGED <<inbox, reading, main, session, tasks, ui, dest, lost, shown, intent,
                   misled, sent, lines>>

\* main: Run returns, the pump disconnects a session that has not ended, and the
\* program is deleted: it takes leave with a task, deletes its tasks, and waits
\* for the console thread, whose lines go with the console.
Leave ==
    /\ main = "quits" /\ ~lost /\ inbox = <<>> /\ main' = "left"
    /\ session' = IF session = "CLOSED" THEN "CLOSED" ELSE "LEFT"
    /\ UNCHANGED <<inbox, reading, tasks, ui, roster, dest, lost, shown, intent, misled,
                   sent, lines, presences>>
Delete ==
    /\ main = "left" /\ ~lost /\ main' = "done"
    /\ lost' = (tasks = "deleted")
    /\ tasks' = "deleted"
    /\ StopConsole
    /\ UNCHANGED <<session, ui, roster, dest, shown, intent, misled, sent, lines,
                   presences>>

Next ==
    \/ \E l \in Line : RunConsole(l)
    \/ OnMessage
    \/ OnXmppOpen \/ EngineCloses \/ RunTasks
    \/ \E i \in DOMAIN Contact, available \in BOOLEAN : OnPresenceUpdate(Contact[i], available)
    \/ Leave \/ Delete

Spec == Init /\ [][Next]_vars

-----------------------------------------------------------------------------

TypeOK ==
    /\ \A k \in DOMAIN inbox : inbox[k].line \in Line
    /\ reading \in BOOLEAN /\ main \in {"runs", "quits", "left", "done"}
    /\ session \in {"START", "OPEN", "CLOSED", "LEFT"} /\ tasks \in {"none", "live", "deleted"}
    /\ ui \in {"BASE", "PROMPTJID", "CHATTING"}

\* A message goes to the contact the user has picked from the list on the
\* screen, or to the address that was typed, however far ahead the lines were
\* typed, unless the list has changed between a choice and its handling; and
\* till then the state of the menu is the one the user has in mind.
SentAsMeant ==
    misled \/ /\ \A k \in DOMAIN sent : sent[k].to = sent[k].meant
              /\ inbox = <<>> => intent = [ui |-> ui, dest |-> dest]
              /\ inbox # <<>> => Head(inbox).meant = [ui |-> ui, dest |-> dest]

\* The program uses its tasks only while they are there, unless the user chats
\* before the session has begun or the server has ended it, and hears nothing of
\* the console once it has gone.
TasksThere ==
    /\ lost => session \in {"START", "CLOSED"}
    /\ main = "done" => inbox = <<>> /\ ~reading

\* What the program does not do: it takes a choice from a list that has changed.
NeverMisled == ~misled
=============================================================================
