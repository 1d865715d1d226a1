---------------------------- MODULE MCXmppEngine ----------------------------
(* Instances of XmppEngine for TLC.                                        *)
EXTENDS XmppEngine

CONSTANTS srv, h1, h2, h3

Plain(n, b) ==
    [name |-> n, ok |-> b, feats |-> {}, type |-> "", id |-> -1, from |-> srv]
Features(f) == [Plain("features", TRUE) EXCEPT !.feats = f]
Iq(t, i, b) == [Plain("iq", b) EXCEPT !.type = t, !.id = i]

\* The login: every element it tells apart, and the features a server combines.
LoginStanzas ==
    {Plain(n, TRUE) : n \in {"stream", "proceed", "challenge", "success",
                             "sasl", "streamerror", "message"}}
    \union {Plain("stream", FALSE)}
    \union {Features(f) : f \in {{}, {"starttls"}, {"mechanisms"},
                                 {"starttls", "mechanisms"},
                                 {"bind", "session"}, {"bind"}}}
    \union {Iq("result", i, b) : i \in 0 .. 3, b \in BOOLEAN}
    \union {Iq("error", i, TRUE) : i \in 0 .. 3}
    \union {Iq("get", 1, TRUE)}

\* The session: one way through the login, and stanzas to dispatch.
SessionStanzas ==
    {Plain("stream", TRUE), Plain("success", TRUE),
     Features({"mechanisms"}), Features({"bind", "session"}),
     Plain("message", TRUE)}
    \union {Iq("result", i, TRUE) : i \in 0 .. 3}
    \union {Iq("get", 9, TRUE)}

Registrations == {<<h1, 1>>, <<h2, 1>>, <<h2, 5>>}
=============================================================================
