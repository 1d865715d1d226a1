-------------------------------- MODULE Sasl --------------------------------
(***************************************************************************)
(* Authentication: what a SASL handler chooses and makes                   *)
(* (plainsaslhandler.h, xmppauth.cc), what its mechanism sends             *)
(* (saslplainmechanism.h, saslcookiemechanism.h, saslmechanism.cc), how    *)
(* the login task drives it (xmpplogintask.cc), and the string that a      *)
(* password is formatted in (cryptstring.h).  Bytes are numbers.           *)
(***************************************************************************)
EXTENDS Integers, Sequences, SequencesExt, FiniteSets

CONSTANTS
    NodeOfUser, FullJid,    \* the user's name and address
    Secret,                 \* passwords and tokens
    StartCapacity,          \* of a FormatCryptString
    Junk,                   \* what fresh storage may hold
    MaxAnswers              \* bound: answers of the server

\* The mechanisms of constants.h, and one that nothing here knows.
Mechanisms == {"PLAIN", "X-OAUTH2", "X-GOOGLE-TOKEN", "X-GOOGLE-COOKIE", "SCRAM"}
None == ""
NUL == 0

VARIABLES
    handler,        \* [plain, allow_plain, pass, mechanism, token]
    pass,           \* pass_ of the client
    encrypted,      \* IsEncrypted
    offered,        \* mechanisms of the features
    choice,         \* the mechanism that runs
    state,          \* of the login
    freed,          \* storage that was given back
    sent,           \* what went to the server
    answers

vars == <<handler, pass, encrypted, offered, choice, state, freed, sent, answers>>

Handlers ==
    [plain : BOOLEAN, allow_plain : BOOLEAN, pass : Secret,
     mechanism : Mechanisms \cup {None}, token : Secret]
NoHandler == [plain |-> TRUE, allow_plain |-> FALSE, pass |-> <<>>,
              mechanism |-> None, token |-> <<>>]

Init ==
    /\ pass = <<>> /\ handler = NoHandler /\ encrypted = FALSE /\ offered = {} /\ choice = None
    /\ state = "NONE" /\ freed = {} /\ sent = <<>> /\ answers = 0

\* Encoded, Decoded and Strict of Base64.
B64 == INSTANCE Encodings WITH
    Byte <- 0 .. 255, MaxBytes <- 0, Char <- 0 .. 255, MaxChars <- 0,
    Alphabet <- <<>>, Value <- {}, MaxLength <- 0, MaxRoom <- 0,
    call <- "none", source <- <<>>, room <- 0, coded <- <<>>, decoded <- <<>>,
    fields <- <<>>, flags <- "", used <- 0

-----------------------------------------------------------------------------

Fresh(n) == [i \in 1 .. n |-> Junk]

\* The first byte is set, each other one copied from the one before it.
Zeroed(block) ==
    LET byte[i \in 1 .. Len(block)] == IF i = 1 THEN 0 ELSE byte[i - 1] IN
    [i \in 1 .. Len(block) |-> byte[i]]

RECURSIVE Doubled(_, _)
Doubled(n, least) == IF 2 * n >= least THEN 2 * n ELSE Doubled(2 * n, least)

\* FormatCryptString: its storage, how much of it is used, what it has freed.
Empty == [storage |-> [Fresh(StartCapacity) EXCEPT ![1] = NUL], length |-> 0, freed |-> {}]

\* The old storage is given back as it is.
JustCopy(c, n) ==
    IF Len(c.storage) >= n THEN c
    ELSE [c EXCEPT !.storage = SubSeq(@, 1, c.length)
                                  \o Fresh(Doubled(Len(@), n) - c.length),
                   !.freed = @ \cup {c.storage}]
EnsureStorage(c, n) ==
    IF Len(c.storage) >= n THEN c
    ELSE [c EXCEPT !.storage = SubSeq(@, 1, c.length)
                                  \o Fresh(Doubled(Len(@), n) - c.length),
                   !.freed = @ \cup {Zeroed(c.storage)}]

\* Both Appends: the data and the 0 behind it.
AppendTo(c, data) ==
    LET room == EnsureStorage(c, c.length + Len(data) + 1)
        from == c.length
    IN  [room EXCEPT
            !.storage = [i \in DOMAIN @ |->
                            IF i \in from + 1 .. from + Len(data) THEN data[i - from]
                            ELSE IF i = from + Len(data) + 1 THEN NUL ELSE @[i]],
            !.length = from + Len(data)]

GetData(c) == SubSeq(c.storage, 1, c.length)
AllFreed(c) == c.freed \cup {Zeroed(c.storage)}

-----------------------------------------------------------------------------

\* XmppAuth takes what it was given if it is offered, else PLAIN: whether the
\* stream is encrypted is not asked.
AuthChoice(h, mechanisms) ==
    IF h.mechanism \in mechanisms \cap {"X-OAUTH2", "X-GOOGLE-TOKEN", "X-GOOGLE-COOKIE"}
    THEN h.mechanism
    ELSE IF "PLAIN" \in mechanisms THEN "PLAIN" ELSE None

PlainChoice(h, mechanisms, enc) ==
    IF (enc \/ h.allow_plain) /\ "PLAIN" \in mechanisms THEN "PLAIN" ELSE None

ChooseBestSaslMechanism(h, mechanisms, enc) ==
    IF h.plain THEN PlainChoice(h, mechanisms, enc) ELSE AuthChoice(h, mechanisms)

\* CreateSaslMechanism: the mechanisms a handler makes; none for the cookie.
Creatable(h) == IF h.plain THEN {"PLAIN"} ELSE {"PLAIN", "X-OAUTH2", "X-GOOGLE-TOKEN"}

\* StartSaslAuth of the plain mechanism formats user and password, that of the
\* others a string.
PlainFormat(h) ==
    AppendTo(AppendTo(AppendTo(AppendTo(Empty, <<NUL>>), NodeOfUser), <<NUL>>), h.pass)
CookieCredential(h) == <<NUL>> \o FullJid \o <<NUL>> \o h.token
StartSaslAuth(h, mechanism) ==
    [name |-> "auth", mechanism |-> mechanism,
     service |-> IF mechanism = "X-OAUTH2" THEN "oauth2" ELSE None,
     body |-> B64!Encoded(IF mechanism = "PLAIN" THEN GetData(PlainFormat(h))
                          ELSE CookieCredential(h))]

\* A challenge is answered with an abort: no mechanism overrides that.
HandleSaslChallenge == [name |-> "abort", mechanism |-> None, service |-> None, body |-> <<>>]

-----------------------------------------------------------------------------

\* XmppClient::Connect: the settings of the application.
Connect ==
    /\ state = "NONE" /\ pass' \in Secret \ {<<>>} /\ state' = "START"
    /\ UNCHANGED <<handler, encrypted, offered, choice, freed, sent, answers>>

\* XmppClient::ProcessStart and ProcessTokenLogin: the handler gets the
\* password, the client forgets it.
ProcessStart ==
    /\ state = "START"
    /\ handler' \in {h \in Handlers : h.pass = pass /\ (h.plain => h.token = <<>> /\ h.mechanism = None)
                                       /\ (h.plain \/ ~h.allow_plain)}
    /\ pass' = <<>> /\ encrypted' \in BOOLEAN /\ state' = "AUTH_INIT"
    /\ UNCHANGED <<offered, choice, freed, sent, answers>>

\* LOGINSTATE_AUTH_INIT, from the features of the server on.
AuthInit ==
    /\ state = "AUTH_INIT"
    /\ offered' \in SUBSET Mechanisms
    /\ LET best == ChooseBestSaslMechanism(handler, offered', encrypted) IN
       IF best \in Creatable(handler)
       THEN /\ choice' = best /\ state' = "SASL_RUNNING"
            /\ sent' = Append(sent, StartSaslAuth(handler, best))
            /\ freed' = freed \cup IF best = "PLAIN" THEN AllFreed(PlainFormat(handler)) ELSE {}
       ELSE state' = "ERROR_AUTH" /\ UNCHANGED <<choice, sent, freed>>
    /\ UNCHANGED <<handler, pass, encrypted, answers>>

\* A challenge keeps the state running.
Answered(name) ==
    CASE name = "challenge" -> "SASL_RUNNING"
      [] name = "success" -> "AUTHENTICATED"
      [] name = "other" -> "ERROR_AUTH"
      [] OTHER -> "ERROR_UNAUTHORIZED"

\* LOGINSTATE_SASL_RUNNING: the next stanza, of the SASL namespace or other.
SaslRunning(name) ==
    /\ state = "SASL_RUNNING" /\ answers < MaxAnswers
    /\ state' = Answered(name)
    /\ sent' = IF name = "challenge" THEN Append(sent, HandleSaslChallenge) ELSE sent
    /\ answers' = answers + 1
    /\ UNCHANGED <<handler, pass, encrypted, offered, choice, freed>>

Next ==
    \/ Connect \/ ProcessStart \/ AuthInit
    \/ \E name \in {"challenge", "success", "failure", "other"} : SaslRunning(name)

Spec == Init /\ [][Next]_vars

-----------------------------------------------------------------------------

TypeOK ==
    /\ handler \in Handlers \cup {NoHandler} /\ choice \in Mechanisms \cup {None}
    /\ state \in {"NONE", "START", "AUTH_INIT", "SASL_RUNNING", "AUTHENTICATED",
                  "ERROR_AUTH", "ERROR_UNAUTHORIZED"}
    /\ Len(sent) <= 1 + answers

\* The parts between the zeros.
Parts(bytes) ==
    LET zeros == {i \in DOMAIN bytes : bytes[i] = NUL} IN
    IF Cardinality(zeros) # 2 THEN <<>>
    ELSE LET first == CHOOSE i \in zeros : \A j \in zeros : i <= j
             last == CHOOSE i \in zeros : \A j \in zeros : i >= j
         IN  <<SubSeq(bytes, 1, first - 1), SubSeq(bytes, first + 1, last - 1),
               SubSeq(bytes, last + 1, Len(bytes))>>

\* The server decodes the user and the very secret that the client was given,
\* however long they are (SaslPlainMechanism::StartSaslAuth on
\* FormatCryptString, SaslCookieMechanism::StartSaslAuth).
ServerReadsSecret ==
    \A i \in DOMAIN sent : sent[i].name = "auth" =>
        LET read == B64!Decoded(B64!Strict, sent[i].body) IN
        /\ read.ok
        /\ Parts(read.out) = IF sent[i].mechanism = "PLAIN"
                             THEN <<<<>>, NodeOfUser, handler.pass>>
                             ELSE <<<<>>, FullJid, handler.token>>

\* All storage that held a part of a password is overwritten before it is
\* given back (FormatCryptString::EnsureStorage, ~FormatCryptString), and the
\* client keeps no copy.
NothingLeftBehind ==
    /\ \A block \in freed : \A i \in DOMAIN block : block[i] = 0
    /\ sent # <<>> => pass = <<>>

\* A mechanism runs only if the server offered it, and a plain handler sends
\* the password over a stream that is not encrypted only when it may
\* (PlainSaslHandler::ChooseBestSaslMechanism).
SentAsAllowed ==
    sent # <<>> =>
        /\ sent[1].mechanism \in offered
        /\ handler.plain => encrypted \/ handler.allow_plain

\* Not so: "Should pick the best method according to this handler"
\* (saslhandler.h:42): XmppAuth picks the cookie, which it does not make,
\* where PLAIN was offered.
PicksWhatItMakes ==
    state = "ERROR_AUTH" /\ answers = 0 => ~("PLAIN" \in offered /\ ~handler.plain)
=============================================================================
