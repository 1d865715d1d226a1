------------------------------ MODULE XmppEngine ------------------------------
(***************************************************************************)
(* The XMPP engine of talk/xmpp: XmppEngineImpl (connection state, output  *)
(* buffer, re-entrancy guard, stanza and iq dispatch) together with the    *)
(* XmppLoginTask it drives (stream start, TLS, SASL, bind, session).       *)
(*                                                                         *)
(* The engine is single-threaded but re-entrant: while HandleInput parses  *)
(* a buffer it calls stanza handlers and iq handlers, and these may call   *)
(* the engine again (send, disconnect, add and remove handlers).  One      *)
(* parse event, one turn of XmppLoginTask::Advance, one handler call or    *)
(* one call of the public interface is one action; `pc' says which of them *)
(* is next.  A call made from outside (pc = "idle") is the outermost       *)
(* EnterExit; a call made from a callback is a nested one.                 *)
(*                                                                         *)
(* Data: a stanza is a record of the fields the engine looks at; an item   *)
(* of output is a name, and for application stanzas their submission       *)
(* number.  The output handler and the session handler are set before      *)
(* Connect and do not call back synchronously (XmppClient's do not).       *)
(***************************************************************************)
EXTENDS Integers, Sequences, FiniteSets

CONSTANTS
    Stanza,       \* the elements the server may send (records, see StanzaType)
    Jid,          \* peers an iq is addressed to
    Handler,      \* stanza handlers
    Registration, \* the <<handler, level>> pairs the application may register
    TlsOption,    \* values SetTls may have been given
    MaxInput,     \* bound: parse events of a behaviour
    MaxSend,      \* bound: application stanzas submitted
    MaxIq         \* bound: how many of them are iq requests

States == {"START", "OPENING", "OPEN", "CLOSED"}

Errors == {"NONE", "XML", "STREAM", "VERSION", "UNAUTHORIZED", "TLS", "AUTH",
           "BIND", "CONNECTION_CLOSED", "DOCUMENT_CLOSED", "SOCKET"}

\* LOGINSTATE_*; "GONE" stands for login_task_ == NULL, which is where every
\* turn that ends in LOGINSTATE_DONE leaves it (IsDone() => reset()).
LoginStates == {"INIT", "STREAMSTART_SENT", "STARTED_XMPP", "TLS_INIT",
                "TLS_REQUESTED", "AUTH_INIT", "SASL_RUNNING", "BIND_INIT",
                "BIND_REQUESTED", "SESSION_REQUESTED", "GONE"}

Feature == {"starttls", "mechanisms", "bind", "session"}

\* HL_PEEK .. HL_ALL
Level == 1 .. 5
PEEK  == 1

StanzaType ==
    [name  : {"stream", "features", "proceed", "challenge", "success",
              "sasl", "streamerror", "iq", "message"},
     ok    : BOOLEAN,             \* attributes/payload as the consumer wants them
     feats : SUBSET Feature,      \* children of <features/>
     type  : {"get", "set", "result", "error", ""},
     id    : Int,                 \* iq id, -1 when there is none
     from  : Jid]

ASSUME StanzaAssumption == Stanza \subseteq StanzaType
ASSUME RegistrationAssumption == Registration \subseteq Handler \X Level
ASSUME TlsAssumption == TlsOption \subseteq {"DISABLED", "ENABLED", "REQUIRED"}
ASSUME BoundAssumption == MaxInput \in Nat /\ MaxSend \in Nat /\ MaxIq \in Nat

None == [name |-> "none"]

VARIABLES
    state,          \* state_
    error,          \* error_code_
    login,          \* login_task_ and its state_
    authNeeded,     \* XmppLoginTask::authNeeded_
    tls_option,     \* tls_option_
    encrypted,      \* encrypted_
    features,       \* pelFeatures_
    iqId,           \* XmppLoginTask::iqId_, -1 while empty
    next_id,        \* next_id_
    queued,         \* pvecQueuedStanzas_
    raised_reset,   \* raised_reset_
    parser,         \* where the stanza parser is in the current document
    output_handler, \* output_handler_ != NULL
    output,         \* output_: written, not yet flushed
    iq_entries,     \* iq_entries_
    handlers,       \* stanza_handlers_, a sequence per level
    frame,          \* state_ saved by the outermost EnterExit, "none" outside
    pc,             \* what the engine does next
    pel,            \* the stanza being processed, or None
    at,             \* <<level, index>> of the handler being called
    \* history
    wire,           \* everything WriteOutput was given
    closes,         \* how often CloseConnection was called
    notified,       \* states OnStateChange was called with
    submitted,      \* application stanzas accepted
    iqs,            \* ids given to SendIq
    answered,       \* ids whose IqResponse was called
    removed,        \* ids given up with RemoveIqHandler
    seen,           \* handlers called for the current stanza
    peekers,        \* peek handlers registered throughout its dispatch
    asked,          \* the option SetTls was given
    inputs          \* parse events so far

login_vars   == <<login, authNeeded, tls_option, encrypted, features, iqId>>
history_vars == <<submitted, iqs, answered, removed, asked>>
call_vars    == <<seen, peekers, at>>
out_vars     == <<output_handler, output, wire, closes, notified>>
conn_vars    == <<state, error>>
io_vars      == <<raised_reset, parser, out_vars>>
reg_vars     == <<iq_entries, handlers>>
where_vars   == <<frame, pc, pel>>
vars == <<conn_vars, login_vars, next_id, queued, io_vars, reg_vars,
          where_vars, call_vars, history_vars, inputs>>

-----------------------------------------------------------------------------
\* Output items
Item(n)  == <<n, 0>>
App(n)   == <<"app", n>>
ItemType == {"stream", "starttls", "auth", "response", "bind", "session",
             "error", "raw", "end", "app"} \X Nat

\* Everything handed to the stream so far, flushed or not.
Out == wire \o output

Written(n) == \E i \in 1 .. Len(Out) : Out[i][1] = n

Outermost == pc = "idle"

\* Callbacks are the places from which the application calls the engine while
\* HandleInput is running.
InCallback == pc \in {"dispatch", "iqcb"}
MayCall    == Outermost \/ InCallback

\* ~EnterExit, for a guard that saved `entry', leaves state `st' and finds `out'
\* in output_.  `outermost' is engine_entered_ == 0 after the decrement.

\* The output handler is let go with the connection it closed.
LetGo(closing) == output_handler /\ ~closing

\* OnStateChange: the outermost guard reports, if the state is another one.
Report(entry, st, outermost) ==
    IF outermost /\ st # entry THEN Append(notified, st) ELSE notified

Leave(entry, st, out, outermost) ==
    LET closing  == st # entry /\ st = "CLOSED"
        flushing == closing \/ outermost
    IN  /\ IF output_handler /\ flushing
           THEN wire' = wire \o out /\ output' = <<>>
           ELSE wire' = wire /\ output' = out
        /\ output_handler' = LetGo(closing)
        /\ closes' = IF output_handler /\ closing THEN closes + 1 ELSE closes
        /\ raised_reset' = (raised_reset /\ ~outermost)
        /\ parser' = IF raised_reset /\ outermost THEN "start" ELSE parser
        /\ notified' = Report(entry, st, outermost)

\* A public call that leaves state_ alone and appends `items' to output_.
Emit(items) ==
    Leave(state, state, output \o items, Outermost) /\ UNCHANGED <<state, error>>

-----------------------------------------------------------------------------
Init ==
    /\ state = "START" /\ error = "NONE"
    /\ login = "INIT" /\ authNeeded = TRUE /\ encrypted = FALSE
    /\ tls_option = "REQUIRED" /\ asked = tls_option
    /\ features = {} /\ iqId = -1 /\ next_id = 0 /\ queued = <<>>
    /\ raised_reset = FALSE /\ parser = "start"
    /\ output_handler = TRUE /\ output = <<>>
    /\ iq_entries = <<>> /\ handlers = [l \in Level |-> <<>>]
    /\ frame = "none" /\ pc = "idle" /\ pel = None /\ at = <<0, 0>>
    /\ wire = <<>> /\ closes = 0 /\ notified = <<>>
    /\ submitted = 0 /\ iqs = {} /\ answered = {} /\ removed = {}
    /\ seen = {} /\ peekers = {} /\ inputs = 0

-----------------------------------------------------------------------------
(* The public interface *)

\* SetTls; the other settings are data the model leaves out.
SetTls(o) ==
    /\ Outermost /\ state = "START"
    /\ tls_option' = o /\ asked' = o
    /\ UNCHANGED <<conn_vars, login, authNeeded, encrypted, features, iqId,
                   next_id, queued, io_vars, reg_vars, where_vars, call_vars,
                   submitted, iqs, answered, removed, inputs>>

\* Connect: the login task gets its first turn inside the EnterExit.
Connect ==
    /\ Outermost /\ state = "START"
    /\ state' = "OPENING" /\ frame' = "START" /\ pc' = "login"
    /\ UNCHANGED <<error, login_vars, next_id, queued, io_vars, reg_vars, pel,
                   call_vars, history_vars, inputs>>

\* HandleInput, up to the call of the parser.
HandleInput ==
    /\ Outermost /\ state \in {"OPENING", "OPEN"}
    /\ frame' = state /\ pc' = "input"
    /\ UNCHANGED <<conn_vars, login_vars, next_id, queued, io_vars, reg_vars,
                   pel, call_vars, history_vars, inputs>>

\* The parser, or the login task's first turn, has returned: the outermost
\* EnterExit is left.
Return ==
    /\ pc = "input"
    /\ Leave(frame, state, output, TRUE)
    /\ frame' = "none" /\ pc' = "idle"
    /\ UNCHANGED <<conn_vars, login_vars, next_id, queued, reg_vars, pel,
                   call_vars, history_vars, inputs>>

\* ConnectionClosed(subcode): the socket tells the engine it is gone.
ConnectionClosed(e) ==
    /\ Outermost /\ state # "CLOSED" /\ e \in {"SOCKET", "CONNECTION_CLOSED"}
    /\ state' = "CLOSED" /\ error' = e
    /\ Leave(state, "CLOSED", output, TRUE)
    /\ UNCHANGED <<login_vars, next_id, queued, reg_vars, where_vars,
                   call_vars, history_vars, inputs>>

\* Disconnect, from outside or from a callback.  error_code_ stays ERROR_NONE.
Disconnect ==
    /\ MayCall /\ state # "CLOSED"
    /\ state' = "CLOSED"
    /\ Leave(state, "CLOSED",
             IF state = "OPEN" THEN Append(output, Item("end")) ELSE output,
             Outermost)
    /\ UNCHANGED <<error, login_vars, next_id, queued, reg_vars, where_vars,
                   call_vars, history_vars, inputs>>

\* Does a stanza have to wait?  While the login task exists, not just while the
\* state is STATE_OPENING.
HeldInOpening == state = "OPENING"
Held == login # "GONE"

\* The body of SendStanza: queued in the login task while it exists.
Submit ==
    /\ MayCall /\ state # "CLOSED" /\ submitted < MaxSend
    /\ submitted' = submitted + 1
    /\ IF Held
       THEN queued' = Append(queued, App(submitted + 1)) /\ Emit(<<>>)
       ELSE UNCHANGED queued /\ Emit(<<App(submitted + 1)>>)

SendStanza ==
    /\ Submit
    /\ UNCHANGED <<login_vars, next_id, reg_vars, where_vars, call_vars, iqs,
                   answered, removed, asked, inputs>>

\* SendIq with an id taken from NextId, as every caller in the repository does.
SendIq(to) ==
    /\ Cardinality(iqs) < MaxIq
    /\ Submit
    /\ iqs' = iqs \union {next_id} /\ next_id' = next_id + 1
    /\ iq_entries' = Append(iq_entries, [id |-> next_id, to |-> to])
    /\ UNCHANGED <<login_vars, handlers, where_vars, call_vars, answered,
                   removed, asked, inputs>>

\* SendRaw.  Bound: once.
SendRaw ==
    /\ MayCall /\ state # "CLOSED" /\ login = "GONE"
    /\ ~Written("raw")
    /\ Emit(<<Item("raw")>>)
    /\ UNCHANGED <<login_vars, next_id, queued, reg_vars, where_vars,
                   call_vars, history_vars, inputs>>

Without(s, i) == SubSeq(s, 1, i - 1) \o SubSeq(s, i + 1, Len(s))

\* RemoveIqHandler with the cookie of an entry still in the table (any other
\* cookie is refused and changes nothing).
RemoveIqHandler ==
    /\ MayCall
    /\ \E i \in 1 .. Len(iq_entries) :
          /\ iq_entries' = Without(iq_entries, i)
          /\ removed' = removed \union {iq_entries[i].id}
    /\ UNCHANGED <<conn_vars, login_vars, next_id, queued, io_vars, handlers,
                   where_vars, call_vars, submitted, iqs, answered, asked,
                   inputs>>

\* AddStanzaHandler.  Bound: a handler sits on a level at most once (XmppClient
\* registers a task once).
AddStanzaHandler(h, l) ==
    /\ MayCall /\ state # "CLOSED" /\ <<h, l>> \in Registration
    /\ \A i \in 1 .. Len(handlers[l]) : handlers[l][i] # h
    /\ handlers' = [handlers EXCEPT ![l] = Append(@, h)]
    /\ UNCHANGED <<conn_vars, login_vars, next_id, queued, io_vars, iq_entries,
                   where_vars, call_vars, history_vars, inputs>>

\* RemoveStanzaHandler erases the handler from every level.  The loops of
\* IncomingStanza keep their index.
Erase(s, h) ==
    IF \E i \in 1 .. Len(s) : s[i] = h
    THEN Without(s, CHOOSE i \in 1 .. Len(s) : s[i] = h) ELSE s

RemoveStanzaHandler(h) ==
    /\ MayCall
    /\ \E l \in Level : \E i \in 1 .. Len(handlers[l]) : handlers[l][i] = h
    /\ handlers' = [l \in Level |-> Erase(handlers[l], h)]
    /\ peekers' = peekers \ {h}
    /\ UNCHANGED <<conn_vars, login_vars, next_id, queued, io_vars, iq_entries,
                   where_vars, seen, at, history_vars, inputs>>

-----------------------------------------------------------------------------
(* Parse events.  XmppStanzaParser reports the document element as the     *)
(* start of the stream, every child of it as a stanza and its end tag as   *)
(* the end of the stream; an XML error silences the parser until Reset.    *)

\* After an error, and while a reset is pending, the rest of the buffer is void.
IgnoringReset == raised_reset
Ignoring == error # "NONE" \/ raised_reset

Parsing == pc = "input" /\ frame # "START" /\ inputs < MaxInput

\* SignalError: the first error closes the engine, a later one is not recorded.
SignalLastError(e) == state' = "CLOSED" /\ error' = e
SignalError(e) ==
    IF state # "CLOSED" THEN state' = "CLOSED" /\ error' = e
                        ELSE UNCHANGED conn_vars

ToLogin(s) ==
    /\ pel' = s /\ pc' = "login"
    /\ UNCHANGED <<conn_vars, iq_entries, answered, call_vars>>

\* IncomingStart, on the document element, whatever it is.
IncomingStart(s) ==
    /\ Parsing /\ parser = "start"
    /\ parser' = "stream" /\ inputs' = inputs + 1
    /\ IF Ignoring
       THEN UNCHANGED <<conn_vars, pc, pel, iq_entries, answered, call_vars>>
       ELSE IF login # "GONE" THEN ToLogin(s)
       ELSE SignalError("XML") /\ UNCHANGED <<pc, pel, iq_entries, answered,
                                              call_vars>>
    /\ UNCHANGED <<login_vars, next_id, queued, raised_reset, out_vars,
                   handlers, frame, submitted, iqs, removed, asked>>

\* IncomingEnd: the end tag of the stream, or an XML error.
IncomingEnd(isError) ==
    /\ pc = "input" /\ frame # "START" /\ parser # "broken"
    /\ IF isError THEN parser' = "broken"
                  ELSE parser = "stream" /\ parser' = "ended"
    /\ IF Ignoring THEN UNCHANGED conn_vars
       ELSE SignalError(IF isError THEN "XML" ELSE "DOCUMENT_CLOSED")
    /\ UNCHANGED <<login_vars, next_id, queued, raised_reset, out_vars,
                   reg_vars, where_vars, call_vars, history_vars, inputs>>

\* The first handler at or after position p = <<level, index>>, in precedence
\* order; <<6, 1>> when there is none.
At(p) ==
    IF p[1] \in Level /\ p[2] <= Len(handlers[p[1]]) THEN p
    ELSE LET later == {l \in Level : l > p[1] /\ handlers[l] # <<>>}
         IN  IF later = {} THEN <<6, 1>>
             ELSE <<CHOOSE l \in later : \A m \in later : l <= m, 1>>

\* HandleIqResponse: the entries a stanza answers.
Answers(s) ==
    IF s.name = "iq" /\ s.type \in {"result", "error"} /\ s.id # -1
    THEN {i \in 1 .. Len(iq_entries) :
              iq_entries[i].id = s.id /\ iq_entries[i].to = s.from}
    ELSE {}

\* The first matching entry leaves the table before its handler is called.
Called(s, i) ==
    /\ answered' = answered \union {iq_entries[i].id}
    /\ pel' = s /\ pc' = "iqcb"
    /\ UNCHANGED <<conn_vars, call_vars>>

CallAndKeep(s) ==
    \E i \in Answers(s) : Called(s, i) /\ UNCHANGED iq_entries

CallIqHandler(s) ==
    \E i \in Answers(s) :
        /\ \A j \in Answers(s) : i <= j
        /\ iq_entries' = Without(iq_entries, i)
        /\ Called(s, i)

Dispatch(s) ==
    /\ pel' = s /\ pc' = "next"
    /\ at' = At(<<PEEK, 1>>)
    /\ seen' = {}
    /\ peekers' = {handlers[PEEK][i] : i \in 1 .. Len(handlers[PEEK])}
    /\ UNCHANGED <<conn_vars, iq_entries, answered>>

\* IncomingStanza
IncomingStanza(s) ==
    /\ Parsing /\ parser = "stream" /\ inputs' = inputs + 1
    /\ \/ /\ Ignoring
          /\ UNCHANGED <<conn_vars, pc, pel, iq_entries, answered, call_vars>>
       \/ /\ ~Ignoring /\ s.name = "streamerror"
          /\ SignalError("STREAM")
          /\ UNCHANGED <<pc, pel, iq_entries, answered, call_vars>>
       \/ /\ ~Ignoring /\ s.name # "streamerror" /\ login # "GONE"
          /\ ToLogin(s)
       \/ /\ ~Ignoring /\ s.name # "streamerror" /\ login = "GONE"
          /\ IF Answers(s) # {} THEN CallIqHandler(s) ELSE Dispatch(s)
    /\ UNCHANGED <<login_vars, next_id, queued, io_vars, handlers, frame,
                   submitted, iqs, removed, asked>>

IqHandlerReturns ==
    /\ pc = "iqcb" /\ pc' = "input" /\ pel' = None
    /\ UNCHANGED <<conn_vars, login_vars, next_id, queued, io_vars, reg_vars,
                   frame, call_vars, history_vars, inputs>>

\* The next handler in precedence order is called, ...
CallHandler ==
    /\ pc = "next" /\ at[1] \in Level
    /\ pc' = "dispatch"
    /\ seen' = seen \union {handlers[at[1]][at[2]]}
    /\ UNCHANGED <<conn_vars, login_vars, next_id, queued, io_vars, reg_vars,
                   frame, pel, at, peekers, history_vars, inputs>>

\* ... and returns; the answer of a peek handler is not looked at.
SamePosition == At(at)
NextIndex    == <<at[1], at[2] + 1>>
NextPosition == At(<<at[1], at[2] + 1>>)

HandlerReturns(handled) ==
    /\ pc = "dispatch"
    /\ IF handled /\ at[1] # PEEK
       THEN pc' = "input" /\ pel' = None /\ at' = <<0, 0>>
       ELSE pc' = "next" /\ at' = NextPosition /\ UNCHANGED pel
    /\ UNCHANGED <<conn_vars, login_vars, next_id, queued, io_vars, reg_vars,
                   frame, seen, peekers, history_vars, inputs>>

\* Nobody wanted it: an iq request is answered with an error (SendStanzaError,
\* refused when a handler has closed the engine meanwhile).
Unhandled ==
    /\ pc = "next" /\ at[1] \notin Level
    /\ pc' = "input" /\ pel' = None /\ at' = <<0, 0>>
    /\ output' = IF pel.name = "iq" /\ pel.type \notin {"error", "result"}
                    /\ state # "CLOSED"
                 THEN Append(output, Item("error")) ELSE output
    /\ UNCHANGED <<conn_vars, login_vars, next_id, queued, raised_reset,
                   parser, output_handler, wire, closes, notified, reg_vars,
                   frame, seen, peekers, history_vars, inputs>>

-----------------------------------------------------------------------------
(* XmppLoginTask::Advance, one action per case of its switch; pc = "login" *)
(* while it runs, pel is the stanza NextStanza() will return.              *)

InLogin(s) == pc = "login" /\ login = s

\* What no case but those named below touches.
LoginFrame == UNCHANGED <<parser, output_handler, wire, closes, notified,
                          reg_vars, frame, call_vars, history_vars, inputs>>

\* return true/false: wait for another stanza
Wait == pc' = "input" /\ pel' = None

Write(i) == output' = Append(output, Item(i))

\* Failure: the login task is done, its queue dies with it.
Failure(e) ==
    /\ login' = "GONE" /\ queued' = <<>>
    /\ SignalError(e) /\ Wait
    /\ UNCHANGED <<authNeeded, tls_option, encrypted, features, iqId, next_id,
                   raised_reset, output>>

\* state_ = s; continue
Continue(s) ==
    /\ login' = s
    /\ UNCHANGED <<conn_vars, pc, queued>>

\* LOGINSTATE_INIT: a new stream; what is left of the old document is ignored
\* until the parser has been reset.
RaiseReset == raised_reset' = TRUE

StartStream ==
    /\ InLogin("INIT")
    /\ RaiseReset /\ features' = {}
    /\ Write("stream") /\ Continue("STREAMSTART_SENT")
    /\ UNCHANGED <<authNeeded, tls_option, encrypted, iqId, next_id, pel>>
    /\ LoginFrame

NoStanza ==
    /\ pc = "login" /\ pel = None
    /\ login \in {"STREAMSTART_SENT", "STARTED_XMPP", "TLS_REQUESTED",
                  "SASL_RUNNING", "BIND_REQUESTED", "SESSION_REQUESTED"}
    /\ Wait
    /\ UNCHANGED <<conn_vars, login_vars, next_id, queued, raised_reset,
                   output>>
    /\ LoginFrame

Has(s) == InLogin(s) /\ pel # None

\* HandleStartStream
StreamStarted ==
    /\ Has("STREAMSTART_SENT")
    /\ \/ /\ pel.name = "stream" /\ pel.ok
          /\ login' = "STARTED_XMPP" /\ Wait
          /\ UNCHANGED <<conn_vars, queued, authNeeded, tls_option, encrypted,
                         features, iqId, next_id, raised_reset, output>>
       \/ ~(pel.name = "stream" /\ pel.ok) /\ Failure("VERSION")
    /\ LoginFrame

\* LOGINSTATE_STARTED_XMPP: HandleFeatures, then TLS, SASL or bind.
TlsMissing == tls_option = "REQUIRED" /\ "starttls" \notin pel.feats

UseTlsIfEnabled == tls_option = "ENABLED" /\ "starttls" \in pel.feats
UseTls == tls_option \in {"REQUIRED", "ENABLED"} /\ "starttls" \in pel.feats

AfterTls == IF authNeeded THEN "AUTH_INIT" ELSE "BIND_INIT"

HandleFeatures ==
    /\ Has("STARTED_XMPP")
    /\ \/ pel.name # "features" /\ Failure("VERSION")
       \/ /\ pel.name = "features"
          /\ features' = pel.feats
          /\ \/ /\ TlsMissing
                /\ login' = "GONE" /\ queued' = <<>> /\ SignalError("TLS") /\ Wait
             \/ /\ UseTls
                /\ Continue("TLS_INIT") /\ pel' = None
             \/ /\ ~TlsMissing /\ ~UseTls
                /\ Continue(AfterTls) /\ pel' = None
          /\ UNCHANGED <<authNeeded, tls_option, encrypted, iqId, next_id,
                         raised_reset, output>>
    /\ LoginFrame

RequestTls ==
    /\ InLogin("TLS_INIT")
    /\ IF "starttls" \in features
       THEN /\ Write("starttls") /\ Continue("TLS_REQUESTED")
            /\ UNCHANGED <<authNeeded, tls_option, encrypted, features, iqId,
                           next_id, raised_reset, pel>>
       ELSE Failure("TLS")
    /\ LoginFrame

\* LOGINSTATE_TLS_REQUESTED, with XmppEngineImpl::StartTls
TlsAnswered ==
    /\ Has("TLS_REQUESTED")
    /\ IF pel.name = "proceed"
       THEN /\ encrypted' = (encrypted \/ output_handler)
            /\ tls_option' = "ENABLED"
            /\ Continue("INIT") /\ pel' = None
            /\ UNCHANGED <<authNeeded, features, iqId, next_id, raised_reset,
                           output>>
       ELSE Failure("TLS")
    /\ LoginFrame

\* LOGINSTATE_AUTH_INIT: `chosen' is whether the SASL handler found a mechanism
\* among those offered and could start it.
StartSasl(chosen) ==
    /\ InLogin("AUTH_INIT")
    /\ IF "mechanisms" \in features /\ chosen
       THEN /\ Write("auth") /\ Continue("SASL_RUNNING")
            /\ UNCHANGED <<authNeeded, tls_option, encrypted, features, iqId,
                           next_id, raised_reset, pel>>
       ELSE Failure("AUTH")
    /\ LoginFrame

\* LOGINSTATE_SASL_RUNNING; `able' is whether the mechanism answers a challenge.
SaslStep(able) ==
    /\ Has("SASL_RUNNING")
    /\ \/ /\ pel.name \notin {"challenge", "success", "sasl"}
          /\ Failure("AUTH")
       \/ /\ pel.name = "challenge" /\ ~able
          /\ Failure("AUTH")
       \/ /\ pel.name = "challenge" /\ able
          /\ Write("response") /\ Continue("SASL_RUNNING") /\ pel' = None
          /\ UNCHANGED <<authNeeded, tls_option, encrypted, features, iqId,
                         next_id, raised_reset>>
       \/ /\ pel.name = "sasl"
          /\ Failure("UNAUTHORIZED")
       \/ /\ pel.name = "success"
          /\ authNeeded' = FALSE
          /\ Continue("INIT") /\ pel' = None
          /\ UNCHANGED <<tls_option, encrypted, features, iqId, next_id,
                         raised_reset, output>>
    /\ LoginFrame

\* NextId
CountDown == iqId' = next_id /\ next_id' = next_id - 1
TakeId    == iqId' = next_id /\ next_id' = next_id + 1

RequestBind ==
    /\ InLogin("BIND_INIT")
    /\ IF {"bind", "session"} \subseteq features
       THEN /\ TakeId
            /\ Write("bind") /\ Continue("BIND_REQUESTED")
            /\ UNCHANGED <<authNeeded, tls_option, encrypted, features,
                           raised_reset, pel>>
       ELSE Failure("BIND")
    /\ LoginFrame

\* An iq result or error with the id of the request; anything else is dropped.
\* (A type that is neither get nor set counts, the missing one included.)
AnswersLogin == pel.name = "iq" /\ pel.id = iqId /\ pel.type \notin {"get", "set"}

DropStanza ==
    /\ Has("BIND_REQUESTED") \/ Has("SESSION_REQUESTED")
    /\ ~AnswersLogin /\ Wait
    /\ UNCHANGED <<conn_vars, login_vars, next_id, queued, raised_reset,
                   output>>
    /\ LoginFrame

\* LOGINSTATE_BIND_REQUESTED; ok: the payload is a bind element with a full jid
BindAnswered ==
    /\ Has("BIND_REQUESTED") /\ AnswersLogin
    /\ IF pel.type = "result" /\ pel.ok
       THEN /\ TakeId
            /\ Write("session") /\ Continue("SESSION_REQUESTED") /\ pel' = None
            /\ UNCHANGED <<authNeeded, tls_option, encrypted, features,
                           raised_reset>>
       ELSE Failure("BIND")
    /\ LoginFrame

\* FlushQueuedStanzas
FlushQueuedStanzas == output' = output \o queued /\ queued' = <<>>

\* LOGINSTATE_SESSION_REQUESTED, with SignalBound
SessionAnswered ==
    /\ Has("SESSION_REQUESTED") /\ AnswersLogin
    /\ IF pel.type = "result"
       THEN /\ state' = IF state = "OPENING" THEN "OPEN" ELSE state
            /\ FlushQueuedStanzas
            /\ login' = "GONE" /\ Wait
            /\ UNCHANGED <<error, authNeeded, tls_option, encrypted, features,
                           iqId, next_id, raised_reset>>
       ELSE Failure("BIND")
    /\ LoginFrame

-----------------------------------------------------------------------------
Advance ==
    \/ StartStream \/ NoStanza \/ StreamStarted \/ HandleFeatures \/ RequestTls
    \/ TlsAnswered \/ RequestBind \/ DropStanza \/ BindAnswered
    \/ SessionAnswered
    \/ \E b \in BOOLEAN : StartSasl(b) \/ SaslStep(b)

\* The application and the socket.
Call ==
    \/ Connect \/ HandleInput \/ Disconnect \/ SendStanza \/ SendRaw
    \/ RemoveIqHandler
    \/ \E o \in TlsOption : SetTls(o)
    \/ \E e \in Errors : ConnectionClosed(e)
    \/ \E j \in Jid : SendIq(j)
    \/ \E h \in Handler : RemoveStanzaHandler(h)
    \/ \E h \in Handler, l \in Level : AddStanzaHandler(h, l)

Parse ==
    \/ \E s \in Stanza : IncomingStart(s) \/ IncomingStanza(s)
    \/ \E b \in BOOLEAN : IncomingEnd(b)

\* What the engine does without anybody's help once it has been entered.
Run ==
    \/ Advance \/ Return \/ IqHandlerReturns \/ CallHandler \/ Unhandled
    \/ \E b \in BOOLEAN : HandlerReturns(b)

Next == Call \/ Parse \/ Run

Spec == Init /\ [][Next]_vars

\* The engine runs to completion: its loops are ordinary code on one thread,
\* and handlers return.
FairSpec == Spec /\ WF_vars(Run)

-----------------------------------------------------------------------------
(* Properties *)

\* Every variable stays in its range.
LoginTypeOK ==
    /\ login \in LoginStates /\ authNeeded \in BOOLEAN
    /\ tls_option \in {"DISABLED", "ENABLED", "REQUIRED"}
    /\ asked \in {"DISABLED", "ENABLED", "REQUIRED"}
    /\ encrypted \in BOOLEAN /\ features \in SUBSET Feature
    /\ iqId \in Int /\ next_id \in Nat
    /\ queued \in Seq(ItemType)

IoTypeOK ==
    /\ raised_reset \in BOOLEAN
    /\ parser \in {"start", "stream", "ended", "broken"}
    /\ output_handler \in BOOLEAN
    /\ output \in Seq(ItemType) /\ wire \in Seq(ItemType)
    /\ closes \in Nat /\ notified \in Seq(States)

DispatchTypeOK ==
    /\ iq_entries \in Seq([id : Nat, to : Jid])
    /\ handlers \in [Level -> Seq(Handler)]
    /\ at \in Nat \X Nat
    /\ seen \in SUBSET Handler /\ peekers \in SUBSET Handler
    /\ iqs \in SUBSET Nat /\ answered \in SUBSET Nat /\ removed \in SUBSET Nat

ControlTypeOK ==
    /\ state \in States /\ error \in Errors
    /\ frame \in States \union {"none"}
    /\ pc \in {"idle", "input", "login", "next", "dispatch", "iqcb"}
    /\ pel \in Stanza \union {None}
    /\ submitted \in Nat /\ inputs \in Nat

TypeOK == LoginTypeOK /\ IoTypeOK /\ DispatchTypeOK /\ ControlTypeOK

\* With TLS_REQUIRED no credentials are written before the server has agreed to
\* TLS, however the login goes and wherever the stream is restarted
\* (XmppLoginTask::Advance, STARTED_XMPP to SASL_RUNNING).
AuthAfterTls ==
    asked = "REQUIRED" /\ (Written("auth") \/ Written("response")) => encrypted

\* The session is opened only for a user the server has authenticated, on a
\* stream that was bound (SignalBound, XmppLoginTask::authNeeded_).
OpenIsAuthenticated ==
    /\ Written("bind") => ~authNeeded
    /\ state = "OPEN" => login = "GONE" /\ ~authNeeded /\ Written("session")

\* Whenever input is awaited during a login whose stream has been started anew,
\* the parser is ready for a new document and nothing of the old one was taken
\* for it (RaiseReset, ~EnterExit).
FreshParser ==
    pc = "idle" /\ state = "OPENING" =>
        /\ ~raised_reset
        /\ login = "STREAMSTART_SENT" <=> parser = "start"

\* A login shows its credentials, opens its session and restarts its stream in
\* the order that the options of the application ask for (XmppLoginTask::Advance).
LoginInOrder == AuthAfterTls /\ OpenIsAuthenticated /\ FreshParser

\* The numbers of the stanzas in a piece of output, 0 for any other item.
Number(item) == IF item[1] = "app" THEN item[2] ELSE 0
Numbers(items) == [k \in 1 .. Len(items) |-> Number(items[k])]

\* The engine implements a session: what it tells, writes and closes is what
\* Session promises, whatever callbacks call it from inside (~EnterExit,
\* SignalError, FlushQueuedStanzas).
Promise == INSTANCE Session WITH
    inside <- pc # "idle", accepted <- submitted, told <- notified,
    delivered <- Numbers(wire)
SessionImplemented == Promise!Spec

\* Stanzas submitted while the login task lives wait in its queue and reach the
\* stream after the login, once, in the order of submission and before any
\* submitted later; until the engine is closed none is lost (SendStanza,
\* FlushQueuedStanzas, ~EnterExit).
SubmittedInOrder ==
    LET numbers == Numbers(Out)
        flushed == submitted - Len(queued)
    IN  /\ Promise!InOrder(numbers)
        /\ \A i \in 1 .. Len(numbers) : numbers[i] <= flushed
        /\ Written("app") => Written("session")
        /\ queued = [k \in 1 .. Len(queued) |-> App(flushed + k)]
        /\ state # "CLOSED" =>
               \A n \in 1 .. flushed : \E i \in 1 .. Len(numbers) : numbers[i] = n
        /\ pc = "idle" /\ state # "CLOSED" => output = <<>>

\* An iq is in the table, answered or given up, exactly one of the three, so its
\* handler is called at most once and never after RemoveIqHandler; and an id the
\* login uses is never an application's (SendIq, HandleIqResponse, NextId).
Ids == {iq_entries[i].id : i \in 1 .. Len(iq_entries)}

IqOnce ==
    /\ Cardinality(Ids) = Len(iq_entries)
    /\ Ids \union answered \union removed = iqs
    /\ Ids \intersect answered = {}
    /\ Ids \intersect removed = {}
    /\ answered \intersect removed = {}
    /\ iqId \notin iqs

\* Handlers see stanzas only of a session: the login task has all of them before,
\* and after a close only what is left of the buffer in which a handler called
\* Disconnect still reaches them (IncomingStanza).
CallbacksInSession ==
    pc \in {"next", "dispatch", "iqcb"} =>
        /\ login = "GONE" /\ ~authNeeded /\ error = "NONE"
        /\ state = "OPEN" \/ (state = "CLOSED" /\ Written("end"))

\* The position the dispatch goes on from is one of the handlers registered now,
\* whatever the handlers called so far have removed (IncomingStanza's loops).
HandlerInRange ==
    pc = "next" /\ at[1] \in Level => at[2] \in 1 .. Len(handlers[at[1]])

\* Every call of the engine comes back: the loops of Advance and of the dispatch
\* end, whatever handlers add and remove meanwhile.
CallsReturn == pc # "idle" ~> pc = "idle"

\* xmppengineimpl.h:137: "After Disconnect completes, it is guaranteed that no
\* further callbacks will be made."
NoCallbackAfterDisconnect ==
    [][state = "CLOSED" /\ pc \in {"input", "next"}
          => pc' \notin {"dispatch", "iqcb"}]_vars

\* The comment in IncomingStanza: "give every "peek" handler a shot at all
\* stanzas", for those registered while it is dispatched.
EveryPeekHandlerCalled == pc = "next" /\ at[1] # PEEK => peekers \subseteq seen
=============================================================================
