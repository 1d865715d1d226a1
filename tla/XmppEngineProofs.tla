-------------------------- MODULE XmppEngineProofs --------------------------
(***************************************************************************)
(* Theorems about XmppEngine.  First its types, the guard, the iq table    *)
(* and the login.  Then the session that it keeps up: the stanzas it was   *)
(* given reach the stream once and in order, an iq is answered at most     *)
(* once, and all of it implements Session.                                 *)
(*                                                                         *)
(* There a step is looked at from two sides.  Its shape is how it enters   *)
(* or leaves the EnterExit guard, and decides what the application is told *)
(* and whether the connection is closed; its move is what it does with the *)
(* stanzas.                                                                *)
(***************************************************************************)
EXTENDS XmppEngine, FiniteSetTheorems, SequenceTheorems, TLAPS

(* An element of a sequence over S is in S. *)
LEMMA ElementType ==
    ASSUME NEW S, NEW s \in Seq(S), NEW i \in 1 .. Len(s)
    PROVE  s[i] \in S
OBVIOUS

(* Appending to a sequence over S. *)
LEMMA AppendType ==
    ASSUME NEW S, NEW s \in Seq(S), NEW e \in S
    PROVE  Append(s, e) \in Seq(S) /\ <<e>> \in Seq(S)
OBVIOUS

(* Removing one element keeps a sequence over S (RemoveIqHandler). *)
LEMMA WithoutType ==
    ASSUME NEW S, NEW s \in Seq(S), NEW i \in 1 .. Len(s)
    PROVE  Without(s, i) \in Seq(S)
BY DEF Without

(* Removing a handler keeps a vector of handlers (RemoveStanzaHandler). *)
LEMMA EraseType ==
    ASSUME NEW S, NEW s \in Seq(S), NEW h
    PROVE  Erase(s, h) \in Seq(S)
<1>1. CASE \E i \in 1 .. Len(s) : s[i] = h
  <2>1. (CHOOSE i \in 1 .. Len(s) : s[i] = h) \in 1 .. Len(s)
    BY <1>1
  <2>2. QED BY <1>1, <2>1, WithoutType DEF Erase
<1>2. CASE ~ \E i \in 1 .. Len(s) : s[i] = h
  BY <1>2 DEF Erase
<1>3. QED BY <1>1, <1>2

(* Leaving an EnterExit guard keeps the output state well-typed. *)
LEMMA LeaveType ==
    ASSUME IoTypeOK, NEW entry, NEW st \in States, NEW out \in Seq(ItemType),
           NEW outermost \in BOOLEAN, Leave(entry, st, out, outermost)
    PROVE  IoTypeOK'
<1> DEFINE closing == st # entry /\ st = "CLOSED"
           flushing == closing \/ outermost
<1>1. /\ IF output_handler /\ flushing
         THEN wire' = wire \o out /\ output' = <<>>
         ELSE wire' = wire /\ output' = out
      /\ output_handler' = LetGo(closing)
      /\ closes' = IF output_handler /\ closing THEN closes + 1 ELSE closes
      /\ raised_reset' = (raised_reset /\ ~outermost)
      /\ parser' = IF raised_reset /\ outermost THEN "start" ELSE parser
      /\ notified' = Report(entry, st, outermost)
  BY DEF Leave
<1>2. /\ wire \in Seq(ItemType) /\ closes \in Nat /\ notified \in Seq(States)
      /\ parser \in {"start", "stream", "ended", "broken"}
  BY DEF IoTypeOK
<1> HIDE DEF closing, flushing
<1>3. wire' \in Seq(ItemType) /\ output' \in Seq(ItemType)
  <2>1. wire \o out \in Seq(ItemType) /\ <<>> \in Seq(ItemType)
    BY <1>2
  <2>2. QED BY <1>1, <1>2, <2>1
<1>4. output_handler' \in BOOLEAN /\ raised_reset' \in BOOLEAN
  <2>1. output_handler' \in BOOLEAN
    BY <1>1, Zenon DEF LetGo
  <2>2. raised_reset' \in BOOLEAN
    BY <1>1, Zenon
  <2>3. QED BY <2>1, <2>2
<1>5. closes' \in Nat
  BY <1>1, <1>2
<1>6. parser' \in {"start", "stream", "ended", "broken"}
  BY <1>1, <1>2
<1>7. notified' \in Seq(States)
  BY <1>1, <1>2 DEF Report
<1>8. QED BY <1>3, <1>4, <1>5, <1>6, <1>7 DEF IoTypeOK
(* What the engine writes are output items. *)
LEMMA ItemIsItem ==
    /\ \A n \in {"stream", "starttls", "auth", "response", "bind", "session",
                "error", "raw", "end"} : Item(n) \in ItemType
    /\ \A n \in Nat : App(n) \in ItemType
BY DEF Item, App, ItemType

(* A public call that only writes keeps the output state well-typed. *)
LEMMA EmitType ==
    ASSUME IoTypeOK, state \in States, NEW items \in Seq(ItemType), Emit(items)
    PROVE  IoTypeOK'
<1>1. output \o items \in Seq(ItemType)
  BY DEF IoTypeOK
<1>2. Leave(state, state, output \o items, Outermost) /\ Outermost \in BOOLEAN
  BY DEF Emit, Outermost
<1>3. QED BY <1>1, <1>2, LeaveType

(* The next position of a dispatch is a registered handler or the end. *)
LEMMA AtType ==
    ASSUME DispatchTypeOK, NEW p \in Nat \X Nat, p[2] >= 1
    PROVE  /\ At(p) \in Nat \X Nat
           /\ At(p)[1] \in Level => At(p)[2] \in 1 .. Len(handlers[At(p)[1]])
<1> DEFINE later == {l \in Level : l > p[1] /\ handlers[l] # <<>>}
<1>1. CASE p[1] \in Level /\ p[2] <= Len(handlers[p[1]])
  <2>1. At(p) = p
    BY <1>1 DEF At
  <2>2. Len(handlers[p[1]]) \in Nat
    BY <1>1 DEF DispatchTypeOK
  <2>3. QED BY <1>1, <2>1, <2>2
<1>2. CASE ~(p[1] \in Level /\ p[2] <= Len(handlers[p[1]])) /\ later = {}
  BY <1>2 DEF At, Level
<1>3. CASE ~(p[1] \in Level /\ p[2] <= Len(handlers[p[1]])) /\ later # {}
  <2> DEFINE l == CHOOSE l \in later : \A m \in later : l <= m
  <2>1. \E k \in later : \A m \in later : k <= m
    <3>1. later \subseteq {1, 2, 3, 4, 5}
      BY DEF Level
    <3>2. CASE 1 \in later
      BY <3>1, <3>2
    <3>3. CASE 1 \notin later /\ 2 \in later
      BY <3>1, <3>3
    <3>4. CASE 1 \notin later /\ 2 \notin later /\ 3 \in later
      BY <3>1, <3>4
    <3>5. CASE 1 \notin later /\ 2 \notin later /\ 3 \notin later /\ 4 \in later
      BY <3>1, <3>5
    <3>6. CASE 1 \notin later /\ 2 \notin later /\ 3 \notin later /\ 4 \notin later
      BY <1>3, <3>1, <3>6
    <3> HIDE DEF later
    <3>7. QED BY <3>2, <3>3, <3>4, <3>5, <3>6
  <2>2. l \in later
    BY <2>1
  <2>3. At(p) = <<l, 1>>
    BY <1>3 DEF At
  <2>4. l \in Level /\ handlers[l] # <<>> /\ handlers[l] \in Seq(Handler)
    BY <2>2 DEF DispatchTypeOK
  <2>5. Len(handlers[l]) >= 1
    BY <2>4
  <2> HIDE DEF l
  <2>6. QED BY <2>3, <2>4, <2>5 DEF Level
<1>4. QED BY <1>1, <1>2, <1>3

\* The inductive invariant: types alone are not enough, the handler to be called
\* must exist for CallHandler to add a handler to `seen'.
IInv == TypeOK /\ HandlerInRange

(* A turn of Advance leaves well-typed login state behind and touches       *)
(* nothing of what its frame names.                                        *)
LEMMA AdvanceType ==
    ASSUME TypeOK, Advance
    PROVE  /\ LoginTypeOK' /\ ControlTypeOK'
           /\ output' \in Seq(ItemType) /\ raised_reset' \in BOOLEAN
           /\ pc' # "next" /\ LoginFrame
<1> DEFINE Goal == /\ LoginTypeOK' /\ ControlTypeOK'
                   /\ output' \in Seq(ItemType) /\ raised_reset' \in BOOLEAN
                   /\ pc' # "next" /\ LoginFrame
<1> SUFFICES Goal OBVIOUS
<1> USE DEF InLogin, Has, Wait, Failure, Continue, SignalError, conn_vars,
            login_vars, history_vars
<1>a. /\ output \in Seq(ItemType) /\ queued \in Seq(ItemType) /\ <<>> \in Seq(ItemType)
      /\ raised_reset \in BOOLEAN /\ authNeeded \in BOOLEAN
      /\ output_handler \in BOOLEAN /\ LoginTypeOK /\ ControlTypeOK
  BY DEF TypeOK, LoginTypeOK, IoTypeOK
<1>b. pel # None => pel.feats \in SUBSET Feature
  BY <1>a, StanzaAssumption DEF ControlTypeOK, StanzaType
<1>1. CASE StartStream
  <2>1. LoginFrame /\ inputs' = inputs /\ submitted' = submitted /\ frame' = frame
        /\ asked' = asked
    BY <1>1 DEF StartStream, RaiseReset, LoginFrame
  <2>2. pc' \in {"input", "login"}
    BY <1>1 DEF StartStream, RaiseReset
  <2>3. ControlTypeOK'
    BY <1>1, <1>a, <2>1, <2>2 DEF StartStream, RaiseReset, ControlTypeOK, States, Errors
  <2>4. LoginTypeOK'
    BY <1>1, <1>a, <1>b, <2>1 DEF StartStream, RaiseReset, LoginTypeOK, LoginStates
  <2>5. output' \in Seq(ItemType) /\ raised_reset' \in BOOLEAN
    BY <1>1, <1>a, ItemIsItem DEF StartStream, RaiseReset, Write
  <2>6. QED BY <2>1, <2>2, <2>3, <2>4, <2>5
<1>2. CASE NoStanza
  <2>1. LoginFrame /\ inputs' = inputs /\ submitted' = submitted /\ frame' = frame
        /\ asked' = asked
    BY <1>2 DEF NoStanza, LoginFrame
  <2>2. pc' \in {"input", "login"}
    BY <1>2 DEF NoStanza
  <2>3. ControlTypeOK'
    BY <1>2, <1>a, <2>1, <2>2 DEF NoStanza, ControlTypeOK, States, Errors
  <2>4. LoginTypeOK'
    BY <1>2, <1>a, <1>b, <2>1 DEF NoStanza, LoginTypeOK, LoginStates
  <2>5. output' \in Seq(ItemType) /\ raised_reset' \in BOOLEAN
    BY <1>2, <1>a, ItemIsItem DEF NoStanza, Write
  <2>6. QED BY <2>1, <2>2, <2>3, <2>4, <2>5
<1>3. CASE StreamStarted
  <2>1. LoginFrame /\ inputs' = inputs /\ submitted' = submitted /\ frame' = frame
        /\ asked' = asked
    BY <1>3 DEF StreamStarted, LoginFrame
  <2>2. pc' \in {"input", "login"}
    BY <1>3 DEF StreamStarted
  <2>3. ControlTypeOK'
    BY <1>3, <1>a, <2>1, <2>2 DEF StreamStarted, ControlTypeOK, States, Errors
  <2>4. LoginTypeOK'
    BY <1>3, <1>a, <1>b, <2>1 DEF StreamStarted, LoginTypeOK, LoginStates
  <2>5. output' \in Seq(ItemType) /\ raised_reset' \in BOOLEAN
    BY <1>3, <1>a, ItemIsItem DEF StreamStarted, Write
  <2>6. QED BY <2>1, <2>2, <2>3, <2>4, <2>5
<1>4. CASE HandleFeatures
  <2>1. LoginFrame /\ inputs' = inputs /\ submitted' = submitted /\ frame' = frame
        /\ asked' = asked
    BY <1>4 DEF HandleFeatures, AfterTls, LoginFrame
  <2>2. pc' \in {"input", "login"}
    BY <1>4 DEF HandleFeatures, AfterTls
  <2>3. ControlTypeOK'
    BY <1>4, <1>a, <2>1, <2>2 DEF HandleFeatures, AfterTls, ControlTypeOK, States, Errors
  <2>4. LoginTypeOK'
    BY <1>4, <1>a, <1>b, <2>1 DEF HandleFeatures, AfterTls, LoginTypeOK, LoginStates
  <2>5. output' \in Seq(ItemType) /\ raised_reset' \in BOOLEAN
    BY <1>4, <1>a, ItemIsItem DEF HandleFeatures, AfterTls, Write
  <2>6. QED BY <2>1, <2>2, <2>3, <2>4, <2>5
<1>5. CASE RequestTls
  <2>1. LoginFrame /\ inputs' = inputs /\ submitted' = submitted /\ frame' = frame
        /\ asked' = asked
    BY <1>5 DEF RequestTls, LoginFrame
  <2>2. pc' \in {"input", "login"}
    BY <1>5 DEF RequestTls
  <2>3. ControlTypeOK'
    BY <1>5, <1>a, <2>1, <2>2 DEF RequestTls, ControlTypeOK, States, Errors
  <2>4. LoginTypeOK'
    BY <1>5, <1>a, <1>b, <2>1 DEF RequestTls, LoginTypeOK, LoginStates
  <2>5. output' \in Seq(ItemType) /\ raised_reset' \in BOOLEAN
    BY <1>5, <1>a, ItemIsItem DEF RequestTls, Write
  <2>6. QED BY <2>1, <2>2, <2>3, <2>4, <2>5
<1>6. CASE TlsAnswered
  <2>1. LoginFrame /\ inputs' = inputs /\ submitted' = submitted /\ frame' = frame
        /\ asked' = asked
    BY <1>6 DEF TlsAnswered, LoginFrame
  <2>2. pc' \in {"input", "login"}
    BY <1>6 DEF TlsAnswered
  <2>3. ControlTypeOK'
    BY <1>6, <1>a, <2>1, <2>2 DEF TlsAnswered, ControlTypeOK, States, Errors
  <2>4. LoginTypeOK'
    BY <1>6, <1>a, <1>b, <2>1 DEF TlsAnswered, LoginTypeOK, LoginStates
  <2>5. output' \in Seq(ItemType) /\ raised_reset' \in BOOLEAN
    BY <1>6, <1>a, ItemIsItem DEF TlsAnswered, Write
  <2>6. QED BY <2>1, <2>2, <2>3, <2>4, <2>5
<1>7. CASE RequestBind
  <2>1. LoginFrame /\ inputs' = inputs /\ submitted' = submitted /\ frame' = frame
        /\ asked' = asked
    BY <1>7 DEF RequestBind, TakeId, LoginFrame
  <2>2. pc' \in {"input", "login"}
    BY <1>7 DEF RequestBind, TakeId
  <2>3. ControlTypeOK'
    BY <1>7, <1>a, <2>1, <2>2 DEF RequestBind, TakeId, ControlTypeOK, States, Errors
  <2>4. LoginTypeOK'
    <3>1. iqId' \in Int /\ next_id' \in Nat
      <4>1. next_id \in Nat /\ iqId \in Int
        BY <1>a DEF LoginTypeOK
      <4>2. \/ iqId' = next_id /\ next_id' = next_id + 1
            \/ iqId' = iqId /\ next_id' = next_id
        BY <1>7 DEF RequestBind, TakeId
      <4>3. QED BY <4>1, <4>2
    <3>2. UNCHANGED <<authNeeded, tls_option, encrypted, features, asked>>
      BY <1>7, <2>1 DEF RequestBind
    <3>3. login' \in LoginStates /\ queued' \in Seq(ItemType)
      BY <1>7, <1>a DEF RequestBind, LoginStates
    <3>4. QED BY <1>a, <3>1, <3>2, <3>3 DEF LoginTypeOK
  <2>5. output' \in Seq(ItemType) /\ raised_reset' \in BOOLEAN
    <3>1. output' = output \/ output' = Append(output, Item("bind"))
      BY <1>7 DEF RequestBind, TakeId, Write
    <3>2. raised_reset' = raised_reset
      BY <1>7 DEF RequestBind, TakeId
    <3>3. QED BY <1>a, <3>1, <3>2, ItemIsItem
  <2>6. QED BY <2>1, <2>2, <2>3, <2>4, <2>5
<1>8. CASE DropStanza
  <2>1. LoginFrame /\ inputs' = inputs /\ submitted' = submitted /\ frame' = frame
        /\ asked' = asked
    BY <1>8 DEF DropStanza, LoginFrame
  <2>2. pc' \in {"input", "login"}
    BY <1>8 DEF DropStanza
  <2>3. ControlTypeOK'
    BY <1>8, <1>a, <2>1, <2>2 DEF DropStanza, ControlTypeOK, States, Errors
  <2>4. LoginTypeOK'
    BY <1>8, <1>a, <1>b, <2>1 DEF DropStanza, LoginTypeOK, LoginStates
  <2>5. output' \in Seq(ItemType) /\ raised_reset' \in BOOLEAN
    BY <1>8, <1>a, ItemIsItem DEF DropStanza, Write
  <2>6. QED BY <2>1, <2>2, <2>3, <2>4, <2>5
<1>9. CASE BindAnswered
  <2>1. LoginFrame /\ inputs' = inputs /\ submitted' = submitted /\ frame' = frame
        /\ asked' = asked
    BY <1>9 DEF BindAnswered, TakeId, LoginFrame
  <2>2. pc' \in {"input", "login"}
    BY <1>9 DEF BindAnswered, TakeId
  <2>3. ControlTypeOK'
    BY <1>9, <1>a, <2>1, <2>2 DEF BindAnswered, TakeId, ControlTypeOK, States, Errors
  <2>4. LoginTypeOK'
    <3>1. iqId' \in Int /\ next_id' \in Nat
      <4>1. next_id \in Nat /\ iqId \in Int
        BY <1>a DEF LoginTypeOK
      <4>2. \/ iqId' = next_id /\ next_id' = next_id + 1
            \/ iqId' = iqId /\ next_id' = next_id
        BY <1>9 DEF BindAnswered, TakeId
      <4>3. QED BY <4>1, <4>2
    <3>2. UNCHANGED <<authNeeded, tls_option, encrypted, features, asked>>
      BY <1>9, <2>1 DEF BindAnswered
    <3>3. login' \in LoginStates /\ queued' \in Seq(ItemType)
      BY <1>9, <1>a DEF BindAnswered, LoginStates
    <3>4. QED BY <1>a, <3>1, <3>2, <3>3 DEF LoginTypeOK
  <2>5. output' \in Seq(ItemType) /\ raised_reset' \in BOOLEAN
    BY <1>9, <1>a, ItemIsItem DEF BindAnswered, TakeId, Write
  <2>6. QED BY <2>1, <2>2, <2>3, <2>4, <2>5
<1>10. CASE SessionAnswered
  <2>1. LoginFrame /\ inputs' = inputs /\ submitted' = submitted /\ frame' = frame
        /\ asked' = asked
    BY <1>10 DEF SessionAnswered, FlushQueuedStanzas, LoginFrame
  <2>2. pc' \in {"input", "login"}
    BY <1>10 DEF SessionAnswered, FlushQueuedStanzas
  <2>3. ControlTypeOK'
    BY <1>10, <1>a, <2>1, <2>2 DEF SessionAnswered, FlushQueuedStanzas, ControlTypeOK, States, Errors
  <2>4. LoginTypeOK'
    BY <1>10, <1>a, <1>b, <2>1 DEF SessionAnswered, FlushQueuedStanzas, LoginTypeOK, LoginStates
  <2>5. output' \in Seq(ItemType) /\ raised_reset' \in BOOLEAN
    <3>1. output' = output \/ output' = output \o queued
      BY <1>10 DEF SessionAnswered, FlushQueuedStanzas
    <3>2. raised_reset' = raised_reset
      BY <1>10 DEF SessionAnswered
    <3>3. output \o queued \in Seq(ItemType)
      BY <1>a
    <3>4. QED BY <1>a, <3>1, <3>2, <3>3
  <2>6. QED BY <2>1, <2>2, <2>3, <2>4, <2>5
<1>11. ASSUME NEW b \in BOOLEAN, StartSasl(b) PROVE Goal
  <2>1. LoginFrame /\ inputs' = inputs /\ submitted' = submitted /\ frame' = frame
        /\ asked' = asked
    BY <1>11 DEF StartSasl, LoginFrame
  <2>2. pc' \in {"input", "login"}
    BY <1>11 DEF StartSasl
  <2>3. ControlTypeOK'
    BY <1>11, <1>a, <2>1, <2>2 DEF StartSasl, ControlTypeOK, States, Errors
  <2>4. LoginTypeOK'
    BY <1>11, <1>a, <1>b, <2>1 DEF StartSasl, LoginTypeOK, LoginStates
  <2>5. output' \in Seq(ItemType) /\ raised_reset' \in BOOLEAN
    BY <1>11, <1>a, ItemIsItem DEF StartSasl, Write
  <2>6. QED BY <2>1, <2>2, <2>3, <2>4, <2>5
<1>12. ASSUME NEW b \in BOOLEAN, SaslStep(b) PROVE Goal
  <2>1. LoginFrame /\ inputs' = inputs /\ submitted' = submitted /\ frame' = frame
        /\ asked' = asked
    BY <1>12 DEF SaslStep, LoginFrame
  <2>2. pc' \in {"input", "login"}
    BY <1>12 DEF SaslStep
  <2>3. ControlTypeOK'
    BY <1>12, <1>a, <2>1, <2>2 DEF SaslStep, ControlTypeOK, States, Errors
  <2>4. LoginTypeOK'
    BY <1>12, <1>a, <1>b, <2>1 DEF SaslStep, LoginTypeOK, LoginStates
  <2>5. output' \in Seq(ItemType) /\ raised_reset' \in BOOLEAN
    <3>1. output' = output \/ output' = Append(output, Item("response"))
      BY <1>12 DEF SaslStep, Write
    <3>2. raised_reset' = raised_reset
      BY <1>12 DEF SaslStep
    <3>3. QED BY <1>a, <3>1, <3>2, ItemIsItem
  <2>6. QED BY <2>1, <2>2, <2>3, <2>4, <2>5
<1>13. QED BY <1>1, <1>2, <1>3, <1>4, <1>5, <1>6, <1>7, <1>8, <1>9, <1>10, <1>11, <1>12 DEF Advance

(* The invariant holds when the engine is created. *)
LEMMA InitType == Init => IInv
<1> SUFFICES ASSUME Init PROVE IInv
  OBVIOUS
<1>0. <<>> \in Seq(ItemType) /\ <<>> \in Seq(States) /\ -1 \in Int
  OBVIOUS
<1>1. LoginTypeOK
  <2>1. tls_option = "REQUIRED" /\ asked = "REQUIRED" /\ login = "INIT"
    BY DEF Init
  <2>2. queued \in Seq(ItemType) /\ iqId \in Int /\ next_id \in Nat
    BY <1>0 DEF Init
  <2>3. authNeeded \in BOOLEAN /\ encrypted \in BOOLEAN
    BY DEF Init
  <2>4. features \in SUBSET Feature
    BY DEF Init
  <2>5. QED BY <2>1, <2>2, <2>3, <2>4 DEF LoginTypeOK, LoginStates
<1>2. IoTypeOK
  <2>1. output \in Seq(ItemType) /\ wire \in Seq(ItemType) /\ notified \in Seq(States)
    BY <1>0 DEF Init
  <2>2. raised_reset \in BOOLEAN /\ output_handler \in BOOLEAN
    BY DEF Init
  <2>3. closes \in Nat /\ parser = "start"
    BY DEF Init
  <2>4. QED BY <2>1, <2>2, <2>3 DEF IoTypeOK
<1>3. DispatchTypeOK
  BY DEF Init, DispatchTypeOK
<1>4. ControlTypeOK
  BY DEF Init, ControlTypeOK, States, Errors
<1>5. HandlerInRange
  BY DEF Init, HandlerInRange
<1>6. QED BY <1>1, <1>2, <1>3, <1>4, <1>5 DEF IInv, TypeOK

(* Every step keeps the inductive invariant. *)
LEMMA StepType ==
    ASSUME IInv, Next
    PROVE  IInv'
<1> USE DEF Outermost, InCallback, MayCall, Parsing, conn_vars, login_vars,
            io_vars, out_vars, reg_vars, where_vars, call_vars, history_vars
<1>a. /\ LoginTypeOK /\ IoTypeOK /\ DispatchTypeOK /\ ControlTypeOK
      /\ HandlerInRange /\ TypeOK
  BY DEF IInv, TypeOK
<1>b. /\ output \in Seq(ItemType) /\ queued \in Seq(ItemType) /\ submitted \in Nat
      /\ next_id \in Nat /\ iq_entries \in Seq([id : Nat, to : Jid])
      /\ handlers \in [Level -> Seq(Handler)] /\ at \in Nat \X Nat
      /\ state \in States /\ inputs \in Nat
  BY <1>a DEF LoginTypeOK, IoTypeOK, DispatchTypeOK, ControlTypeOK
<1>c. App(submitted + 1) \in ItemType /\ <<>> \in Seq(ItemType)
  <2>1. submitted + 1 \in Nat
    BY <1>b
  <2>2. QED BY <2>1, ItemIsItem
<1>1. ASSUME NEW o \in TlsOption, SetTls(o) PROVE IInv'
  <2>1. LoginTypeOK'
    <3>1. o \in {"DISABLED", "ENABLED", "REQUIRED"}
      BY <1>1, TlsAssumption
    <3>2. QED BY <1>1, <1>a, <3>1 DEF SetTls, LoginTypeOK
  <2>2. IoTypeOK'
    BY <1>1, <1>a, <1>b DEF SetTls, IoTypeOK
  <2>3. DispatchTypeOK'
    BY <1>1, <1>a, <1>b DEF SetTls, DispatchTypeOK
  <2>4. ControlTypeOK'
    BY <1>1, <1>a, <1>b DEF SetTls, ControlTypeOK, States, Errors
  <2>5. HandlerInRange'
    BY <1>1, <1>a DEF SetTls, HandlerInRange
  <2>6. QED BY <2>1, <2>2, <2>3, <2>4, <2>5 DEF IInv, TypeOK
<1>2. CASE Connect
  <2>1. LoginTypeOK'
    BY <1>2, <1>a, <1>b DEF Connect, LoginTypeOK
  <2>2. IoTypeOK'
    BY <1>2, <1>a, <1>b DEF Connect, IoTypeOK
  <2>3. DispatchTypeOK'
    BY <1>2, <1>a, <1>b DEF Connect, DispatchTypeOK
  <2>4. ControlTypeOK'
    BY <1>2, <1>a, <1>b DEF Connect, ControlTypeOK, States, Errors
  <2>5. HandlerInRange'
    BY <1>2, <1>a DEF Connect, HandlerInRange
  <2>6. QED BY <2>1, <2>2, <2>3, <2>4, <2>5 DEF IInv, TypeOK
<1>3. CASE HandleInput
  <2>1. LoginTypeOK'
    BY <1>3, <1>a, <1>b DEF HandleInput, LoginTypeOK
  <2>2. IoTypeOK'
    BY <1>3, <1>a, <1>b DEF HandleInput, IoTypeOK
  <2>3. DispatchTypeOK'
    BY <1>3, <1>a, <1>b DEF HandleInput, DispatchTypeOK
  <2>4. ControlTypeOK'
    BY <1>3, <1>a, <1>b DEF HandleInput, ControlTypeOK, States, Errors
  <2>5. HandlerInRange'
    BY <1>3, <1>a DEF HandleInput, HandlerInRange
  <2>6. QED BY <2>1, <2>2, <2>3, <2>4, <2>5 DEF IInv, TypeOK
<1>4. CASE Return
  <2>1. LoginTypeOK'
    BY <1>4, <1>a, <1>b DEF Return, LoginTypeOK
  <2>2. IoTypeOK'
    BY <1>4, <1>a, <1>b, LeaveType, ItemIsItem DEF Return, States
  <2>3. DispatchTypeOK'
    BY <1>4, <1>a, <1>b DEF Return, DispatchTypeOK
  <2>4. ControlTypeOK'
    BY <1>4, <1>a, <1>b DEF Return, ControlTypeOK, States, Errors
  <2>5. HandlerInRange'
    BY <1>4, <1>a DEF Return, HandlerInRange
  <2>6. QED BY <2>1, <2>2, <2>3, <2>4, <2>5 DEF IInv, TypeOK
<1>5. ASSUME NEW e \in Errors, ConnectionClosed(e) PROVE IInv'
  <2>1. LoginTypeOK'
    BY <1>5, <1>a, <1>b DEF ConnectionClosed, LoginTypeOK
  <2>2. IoTypeOK'
    BY <1>5, <1>a, <1>b, LeaveType, ItemIsItem DEF ConnectionClosed, States
  <2>3. DispatchTypeOK'
    BY <1>5, <1>a, <1>b DEF ConnectionClosed, DispatchTypeOK
  <2>4. ControlTypeOK'
    BY <1>5, <1>a, <1>b DEF ConnectionClosed, ControlTypeOK, States, Errors
  <2>5. HandlerInRange'
    BY <1>5, <1>a DEF ConnectionClosed, HandlerInRange
  <2>6. QED BY <2>1, <2>2, <2>3, <2>4, <2>5 DEF IInv, TypeOK
<1>6. CASE Disconnect
  <2>1. LoginTypeOK'
    BY <1>6, <1>a, <1>b DEF Disconnect, LoginTypeOK
  <2>2. IoTypeOK'
    <3> DEFINE out == IF state = "OPEN" THEN Append(output, Item("end")) ELSE output
    <3>1. out \in Seq(ItemType)
      BY <1>b, ItemIsItem
    <3>2. Leave(state, "CLOSED", out, Outermost)
      BY <1>6 DEF Disconnect
    <3>3. "CLOSED" \in States /\ Outermost \in BOOLEAN
      BY DEF States
    <3> HIDE DEF out, Outermost
    <3>4. QED BY <1>a, <3>1, <3>2, <3>3, LeaveType
  <2>3. DispatchTypeOK'
    BY <1>6, <1>a, <1>b DEF Disconnect, DispatchTypeOK
  <2>4. ControlTypeOK'
    BY <1>6, <1>a, <1>b DEF Disconnect, ControlTypeOK, States, Errors
  <2>5. HandlerInRange'
    BY <1>6, <1>a DEF Disconnect, HandlerInRange
  <2>6. QED BY <2>1, <2>2, <2>3, <2>4, <2>5 DEF IInv, TypeOK
<1>7. CASE SendStanza
  <2>1. LoginTypeOK'
    <3>1. queued' \in Seq(ItemType)
      <4>1. queued' = queued \/ queued' = Append(queued, App(submitted + 1))
        BY <1>7 DEF SendStanza, Submit
      <4>2. QED BY <1>b, <1>c, <4>1, AppendType
    <3>2. next_id' \in Nat
      BY <1>7, <1>b DEF SendStanza
    <3>3. UNCHANGED <<login, authNeeded, tls_option, encrypted, features, iqId, asked>>
      BY <1>7 DEF SendStanza
    <3>4. QED BY <1>a, <3>1, <3>2, <3>3 DEF LoginTypeOK
  <2>2. IoTypeOK'
    <3>1. Emit(<<>>) \/ Emit(<<App(submitted + 1)>>)
      BY <1>7 DEF SendStanza, Submit
    <3>2. <<App(submitted + 1)>> \in Seq(ItemType) /\ <<>> \in Seq(ItemType)
      BY <1>c, AppendType
    <3>3. QED BY <1>a, <1>b, <3>1, <3>2, EmitType
  <2>3. DispatchTypeOK'
    BY <1>7, <1>a, <1>b DEF SendStanza, Submit, Emit, DispatchTypeOK
  <2>4. ControlTypeOK'
    BY <1>7, <1>a, <1>b DEF SendStanza, Submit, Emit, ControlTypeOK, States, Errors
  <2>5. HandlerInRange'
    BY <1>7, <1>a DEF SendStanza, Submit, Emit, HandlerInRange
  <2>6. QED BY <2>1, <2>2, <2>3, <2>4, <2>5 DEF IInv, TypeOK
<1>8. ASSUME NEW to \in Jid, SendIq(to) PROVE IInv'
  <2>1. LoginTypeOK'
    <3>1. queued' \in Seq(ItemType)
      <4>1. queued' = queued \/ queued' = Append(queued, App(submitted + 1))
        BY <1>8 DEF SendIq, Submit
      <4>2. QED BY <1>b, <1>c, <4>1, AppendType
    <3>2. next_id' \in Nat
      BY <1>8, <1>b DEF SendIq
    <3>3. UNCHANGED <<login, authNeeded, tls_option, encrypted, features, iqId, asked>>
      BY <1>8 DEF SendIq
    <3>4. QED BY <1>a, <3>1, <3>2, <3>3 DEF LoginTypeOK
  <2>2. IoTypeOK'
    <3>1. Emit(<<>>) \/ Emit(<<App(submitted + 1)>>)
      BY <1>8 DEF SendIq, Submit
    <3>2. <<App(submitted + 1)>> \in Seq(ItemType) /\ <<>> \in Seq(ItemType)
      BY <1>c, AppendType
    <3>3. QED BY <1>a, <1>b, <3>1, <3>2, EmitType
  <2>3. DispatchTypeOK'
    <3>1. UNCHANGED <<handlers, at, seen, peekers, answered, removed>>
      BY <1>8 DEF SendIq, where_vars, call_vars
    <3>2. QED BY <1>8, <1>a, <1>b, <3>1 DEF SendIq, DispatchTypeOK
  <2>4. ControlTypeOK'
    BY <1>8, <1>a, <1>b DEF SendIq, Submit, Emit, ControlTypeOK, States, Errors
  <2>5. HandlerInRange'
    BY <1>8, <1>a DEF SendIq, Submit, Emit, HandlerInRange
  <2>6. QED BY <2>1, <2>2, <2>3, <2>4, <2>5 DEF IInv, TypeOK
<1>9. CASE SendRaw
  <2>1. LoginTypeOK'
    BY <1>9, <1>a, <1>b DEF SendRaw, Emit, LoginTypeOK
  <2>2. IoTypeOK'
    <3>1. Emit(<<Item("raw")>>)
      BY <1>9 DEF SendRaw
    <3>2. <<Item("raw")>> \in Seq(ItemType)
      BY ItemIsItem, AppendType, <<>> \in Seq(ItemType)
    <3>3. QED BY <1>a, <1>b, <3>1, <3>2, EmitType
  <2>3. DispatchTypeOK'
    BY <1>9, <1>a, <1>b DEF SendRaw, Emit, DispatchTypeOK
  <2>4. ControlTypeOK'
    BY <1>9, <1>a, <1>b DEF SendRaw, Emit, ControlTypeOK, States, Errors
  <2>5. HandlerInRange'
    BY <1>9, <1>a DEF SendRaw, Emit, HandlerInRange
  <2>6. QED BY <2>1, <2>2, <2>3, <2>4, <2>5 DEF IInv, TypeOK
<1>10. CASE RemoveIqHandler
  <2>1. LoginTypeOK'
    BY <1>10, <1>a, <1>b DEF RemoveIqHandler, LoginTypeOK
  <2>2. IoTypeOK'
    BY <1>10, <1>a, <1>b DEF RemoveIqHandler, IoTypeOK
  <2>3. DispatchTypeOK'
    <3>1. PICK i \in 1 .. Len(iq_entries) :
             /\ iq_entries' = Without(iq_entries, i)
             /\ removed' = removed \union {iq_entries[i].id}
      BY <1>10 DEF RemoveIqHandler
    <3>2. iq_entries[i] \in [id : Nat, to : Jid]
      BY <1>b, ElementType
    <3>3. iq_entries' \in Seq([id : Nat, to : Jid])
      BY <1>b, <3>1, WithoutType
    <3>4. removed' \in SUBSET Nat
      BY <1>a, <3>1, <3>2 DEF DispatchTypeOK
    <3>5. UNCHANGED <<handlers, at, seen, peekers, iqs, answered>>
      BY <1>10 DEF RemoveIqHandler
    <3>6. QED BY <1>a, <3>3, <3>4, <3>5 DEF DispatchTypeOK
  <2>4. ControlTypeOK'
    BY <1>10, <1>a, <1>b DEF RemoveIqHandler, ControlTypeOK, States, Errors
  <2>5. HandlerInRange'
    BY <1>10, <1>a DEF RemoveIqHandler, HandlerInRange
  <2>6. QED BY <2>1, <2>2, <2>3, <2>4, <2>5 DEF IInv, TypeOK
<1>11. ASSUME NEW h \in Handler, NEW l \in Level, AddStanzaHandler(h, l) PROVE IInv'
  <2>1. LoginTypeOK'
    BY <1>11, <1>a, <1>b DEF AddStanzaHandler, LoginTypeOK
  <2>2. IoTypeOK'
    BY <1>11, <1>a, <1>b DEF AddStanzaHandler, IoTypeOK
  <2>3. DispatchTypeOK'
    BY <1>11, <1>a, <1>b DEF AddStanzaHandler, DispatchTypeOK
  <2>4. ControlTypeOK'
    BY <1>11, <1>a, <1>b DEF AddStanzaHandler, ControlTypeOK, States, Errors
  <2>5. HandlerInRange'
    BY <1>11, <1>a DEF AddStanzaHandler, HandlerInRange
  <2>6. QED BY <2>1, <2>2, <2>3, <2>4, <2>5 DEF IInv, TypeOK
<1>12. ASSUME NEW h \in Handler, RemoveStanzaHandler(h) PROVE IInv'
  <2>1. LoginTypeOK'
    BY <1>12, <1>a, <1>b DEF RemoveStanzaHandler, LoginTypeOK
  <2>2. IoTypeOK'
    BY <1>12, <1>a, <1>b DEF RemoveStanzaHandler, IoTypeOK
  <2>3. DispatchTypeOK'
    <3>1. \A l \in Level : Erase(handlers[l], h) \in Seq(Handler)
      BY <1>b, EraseType
    <3>2. handlers' \in [Level -> Seq(Handler)]
      BY <1>12, <3>1 DEF RemoveStanzaHandler
    <3>3. peekers' \in SUBSET Handler
      BY <1>12, <1>a DEF RemoveStanzaHandler, DispatchTypeOK
    <3>4. UNCHANGED <<iq_entries, at, seen, iqs, answered, removed>>
      BY <1>12 DEF RemoveStanzaHandler
    <3>5. QED BY <1>a, <3>2, <3>3, <3>4 DEF DispatchTypeOK
  <2>4. ControlTypeOK'
    BY <1>12, <1>a, <1>b DEF RemoveStanzaHandler, ControlTypeOK, States, Errors
  <2>5. HandlerInRange'
    BY <1>12, <1>a DEF RemoveStanzaHandler, HandlerInRange
  <2>6. QED BY <2>1, <2>2, <2>3, <2>4, <2>5 DEF IInv, TypeOK
<1>13. ASSUME NEW s \in Stanza, IncomingStart(s) PROVE IInv'
  <2>1. LoginTypeOK'
    BY <1>13, <1>a, <1>b DEF IncomingStart, SignalError, ToLogin, LoginTypeOK
  <2>2. IoTypeOK'
    BY <1>13, <1>a, <1>b DEF IncomingStart, SignalError, ToLogin, IoTypeOK
  <2>3. DispatchTypeOK'
    BY <1>13, <1>a, <1>b DEF IncomingStart, SignalError, ToLogin, DispatchTypeOK
  <2>4. ControlTypeOK'
    BY <1>13, <1>a, <1>b DEF IncomingStart, SignalError, ToLogin, ControlTypeOK, States, Errors
  <2>5. HandlerInRange'
    BY <1>13, <1>a DEF IncomingStart, SignalError, ToLogin, HandlerInRange
  <2>6. QED BY <2>1, <2>2, <2>3, <2>4, <2>5 DEF IInv, TypeOK
<1>14. ASSUME NEW s \in Stanza, IncomingStanza(s) PROVE IInv'
  <2>1. LoginTypeOK'
    BY <1>14, <1>a, <1>b DEF IncomingStanza, SignalError, ToLogin, CallIqHandler, Called, Dispatch, LoginTypeOK
  <2>2. IoTypeOK'
    BY <1>14, <1>a, <1>b DEF IncomingStanza, SignalError, ToLogin, CallIqHandler, Called, Dispatch, IoTypeOK
  <2>3. DispatchTypeOK'
    <3>1. CASE UNCHANGED <<iq_entries, answered, call_vars>>
      <4>1. UNCHANGED <<handlers, iqs, removed>>
        BY <1>14 DEF IncomingStanza
      <4>2. QED BY <1>a, <3>1, <4>1 DEF DispatchTypeOK
    <3>2. CASE CallIqHandler(s)
      <4>1. PICK i \in Answers(s) :
               iq_entries' = Without(iq_entries, i) /\ Called(s, i)
        BY <3>2 DEF CallIqHandler
      <4>2. i \in 1 .. Len(iq_entries)
        BY DEF Answers
      <4>3. iq_entries[i] \in [id : Nat, to : Jid]
        BY <1>b, <4>2, ElementType
      <4>4. iq_entries' \in Seq([id : Nat, to : Jid])
        BY <1>b, <4>1, <4>2, WithoutType
      <4>5. answered' \in SUBSET Nat
        BY <1>a, <4>1, <4>3 DEF Called, DispatchTypeOK
      <4>6. UNCHANGED <<handlers, at, seen, peekers, iqs, removed>>
        BY <1>14, <4>1 DEF IncomingStanza, Called
      <4>7. QED BY <1>a, <4>4, <4>5, <4>6 DEF DispatchTypeOK
    <3>3. CASE Dispatch(s)
      <4>1. at' = At(<<PEEK, 1>>) /\ seen' = {}
            /\ peekers' = {handlers[PEEK][i] : i \in 1 .. Len(handlers[PEEK])}
        BY <3>3 DEF Dispatch
      <4>2. <<PEEK, 1>> \in Nat \X Nat /\ <<PEEK, 1>>[2] >= 1
        BY DEF PEEK
      <4>3. at' \in Nat \X Nat
        BY <1>a, <4>1, <4>2, AtType
      <4>4. handlers[PEEK] \in Seq(Handler)
        BY <1>b DEF PEEK, Level
      <4>5. peekers' \in SUBSET Handler
        BY <4>1, <4>4
      <4>6. UNCHANGED <<handlers, iq_entries, answered, iqs, removed>>
        BY <1>14, <3>3 DEF IncomingStanza, Dispatch
      <4>7. QED BY <1>a, <4>1, <4>3, <4>5, <4>6 DEF DispatchTypeOK
    <3>4. QED BY <1>14, <3>1, <3>2, <3>3 DEF IncomingStanza, ToLogin
  <2>4. ControlTypeOK'
    BY <1>14, <1>a, <1>b DEF IncomingStanza, SignalError, ToLogin, CallIqHandler, Called, Dispatch, ControlTypeOK, States, Errors
  <2>5. HandlerInRange'
    <3>1. CASE Dispatch(s)
      <4>1. at' = At(<<PEEK, 1>>) /\ handlers' = handlers
        BY <1>14, <3>1 DEF Dispatch, IncomingStanza
      <4>2. <<PEEK, 1>> \in Nat \X Nat /\ <<PEEK, 1>>[2] >= 1
        BY DEF PEEK
      <4>3. QED BY <1>a, <4>1, <4>2, AtType DEF HandlerInRange
    <3>2. CASE ~Dispatch(s)
      <4>1. pc' # "next"
        BY <1>14, <3>2 DEF IncomingStanza, ToLogin, CallIqHandler, Called
      <4>2. QED BY <4>1 DEF HandlerInRange
    <3>3. QED BY <3>1, <3>2
  <2>6. QED BY <2>1, <2>2, <2>3, <2>4, <2>5 DEF IInv, TypeOK
<1>15. ASSUME NEW b \in BOOLEAN, IncomingEnd(b) PROVE IInv'
  <2>1. LoginTypeOK'
    BY <1>15, <1>a, <1>b DEF IncomingEnd, SignalError, LoginTypeOK
  <2>2. IoTypeOK'
    BY <1>15, <1>a, <1>b DEF IncomingEnd, SignalError, IoTypeOK
  <2>3. DispatchTypeOK'
    BY <1>15, <1>a, <1>b DEF IncomingEnd, SignalError, DispatchTypeOK
  <2>4. ControlTypeOK'
    BY <1>15, <1>a, <1>b DEF IncomingEnd, SignalError, ControlTypeOK, States, Errors
  <2>5. HandlerInRange'
    BY <1>15, <1>a DEF IncomingEnd, SignalError, HandlerInRange
  <2>6. QED BY <2>1, <2>2, <2>3, <2>4, <2>5 DEF IInv, TypeOK
<1>16. CASE IqHandlerReturns
  <2>1. LoginTypeOK'
    BY <1>16, <1>a, <1>b DEF IqHandlerReturns, LoginTypeOK
  <2>2. IoTypeOK'
    BY <1>16, <1>a, <1>b DEF IqHandlerReturns, IoTypeOK
  <2>3. DispatchTypeOK'
    BY <1>16, <1>a, <1>b DEF IqHandlerReturns, DispatchTypeOK
  <2>4. ControlTypeOK'
    BY <1>16, <1>a, <1>b DEF IqHandlerReturns, ControlTypeOK, States, Errors
  <2>5. HandlerInRange'
    BY <1>16, <1>a DEF IqHandlerReturns, HandlerInRange
  <2>6. QED BY <2>1, <2>2, <2>3, <2>4, <2>5 DEF IInv, TypeOK
<1>17. CASE CallHandler
  <2>1. LoginTypeOK'
    BY <1>17, <1>a, <1>b DEF CallHandler, LoginTypeOK
  <2>2. IoTypeOK'
    BY <1>17, <1>a, <1>b DEF CallHandler, IoTypeOK
  <2>3. DispatchTypeOK'
    <3>1. at[1] \in Level /\ at[2] \in 1 .. Len(handlers[at[1]])
      BY <1>17, <1>a DEF CallHandler, HandlerInRange
    <3>2. handlers[at[1]] \in Seq(Handler)
      BY <1>b, <3>1
    <3>3. handlers[at[1]][at[2]] \in Handler
      BY <3>1, <3>2
    <3>4. QED BY <1>17, <1>a, <3>3 DEF CallHandler, DispatchTypeOK
  <2>4. ControlTypeOK'
    BY <1>17, <1>a, <1>b DEF CallHandler, ControlTypeOK, States, Errors
  <2>5. HandlerInRange'
    BY <1>17, <1>a DEF CallHandler, HandlerInRange
  <2>6. QED BY <2>1, <2>2, <2>3, <2>4, <2>5 DEF IInv, TypeOK
<1>18. ASSUME NEW b \in BOOLEAN, HandlerReturns(b) PROVE IInv'
  <2>1. LoginTypeOK'
    BY <1>18, <1>a, <1>b DEF HandlerReturns, LoginTypeOK
  <2>2. IoTypeOK'
    BY <1>18, <1>a, <1>b DEF HandlerReturns, IoTypeOK
  <2>3. DispatchTypeOK'
    <3>1. NextPosition \in Nat \X Nat
      BY <1>a, <1>b, AtType, <<at[1], at[2] + 1>> \in Nat \X Nat,
         <<at[1], at[2] + 1>>[2] >= 1 DEF NextPosition
    <3>2. at' \in Nat \X Nat
      BY <1>18, <3>1 DEF HandlerReturns
    <3>3. UNCHANGED <<iq_entries, handlers, seen, peekers, iqs, answered, removed>>
      BY <1>18 DEF HandlerReturns
    <3>4. QED BY <1>a, <3>2, <3>3 DEF DispatchTypeOK
  <2>4. ControlTypeOK'
    BY <1>18, <1>a, <1>b DEF HandlerReturns, ControlTypeOK, States, Errors
  <2>5. HandlerInRange'
    <3>1. <<at[1], at[2] + 1>> \in Nat \X Nat /\ <<at[1], at[2] + 1>>[2] >= 1
      BY <1>b
    <3>2. NextPosition[1] \in Level
             => NextPosition[2] \in 1 .. Len(handlers[NextPosition[1]])
      BY <1>a, <3>1, AtType DEF NextPosition
    <3>3. CASE pc' = "next"
      <4>1. at' = NextPosition /\ handlers' = handlers
        BY <1>18, <3>3 DEF HandlerReturns
      <4>2. QED BY <3>2, <4>1 DEF HandlerInRange
    <3>4. CASE pc' # "next"
      BY <3>4 DEF HandlerInRange
    <3>5. QED BY <3>3, <3>4
  <2>6. QED BY <2>1, <2>2, <2>3, <2>4, <2>5 DEF IInv, TypeOK
<1>19. CASE Unhandled
  <2>1. LoginTypeOK'
    BY <1>19, <1>a, <1>b DEF Unhandled, LoginTypeOK
  <2>2. IoTypeOK'
    <3>1. output' = output \/ output' = Append(output, Item("error"))
      BY <1>19 DEF Unhandled
    <3>2. output' \in Seq(ItemType)
      <4>1. Item("error") \in ItemType
        BY ItemIsItem
      <4>2. QED BY <1>b, <3>1, <4>1, AppendType
    <3>3. UNCHANGED <<raised_reset, parser, output_handler, wire, closes, notified>>
      BY <1>19 DEF Unhandled
    <3>4. QED BY <1>a, <3>2, <3>3 DEF IoTypeOK
  <2>3. DispatchTypeOK'
    BY <1>19, <1>a, <1>b DEF Unhandled, DispatchTypeOK
  <2>4. ControlTypeOK'
    BY <1>19, <1>a, <1>b DEF Unhandled, ControlTypeOK, States, Errors
  <2>5. HandlerInRange'
    BY <1>19, <1>a DEF Unhandled, HandlerInRange
  <2>6. QED BY <2>1, <2>2, <2>3, <2>4, <2>5 DEF IInv, TypeOK
<1>20. CASE Advance
  <2>1. /\ LoginTypeOK' /\ ControlTypeOK' /\ pc' # "next" /\ LoginFrame
        /\ output' \in Seq(ItemType) /\ raised_reset' \in BOOLEAN
    BY <1>20, <1>a, AdvanceType
  <2>2. IoTypeOK'
    BY <2>1, <1>a DEF LoginFrame, IoTypeOK
  <2>3. DispatchTypeOK'
    BY <2>1, <1>a DEF LoginFrame, DispatchTypeOK
  <2>4. QED BY <2>1, <2>2, <2>3 DEF IInv, TypeOK, HandlerInRange
<1>21. QED BY <1>1, <1>2, <1>3, <1>4, <1>5, <1>6, <1>7, <1>8, <1>9, <1>10, <1>11, <1>12, <1>13, <1>14, <1>15, <1>16, <1>17, <1>18, <1>19, <1>20 DEF Next, Call, Parse, Run

(* IInv is an invariant of the specification. *)
THEOREM InvariantHolds == Spec => []IInv
<1>1. IInv /\ UNCHANGED vars => IInv'
  BY DEF vars, conn_vars, login_vars, io_vars, out_vars, reg_vars, where_vars,
         call_vars, history_vars, IInv, TypeOK, LoginTypeOK, IoTypeOK,
         DispatchTypeOK, ControlTypeOK, HandlerInRange
<1>2. QED BY <1>1, InitType, StepType, PTL DEF Spec

(* Every variable of the engine stays in its range, for any set of stanzas *)
(* the server may send and any handlers.                                   *)
THEOREM TypeCorrect == Spec => []TypeOK
<1>1. IInv => TypeOK
  BY DEF IInv
<1>2. QED BY <1>1, InvariantHolds, PTL

(* The dispatch loops of IncomingStanza never index a handler that is not  *)
(* there, whatever the handlers called so far have added or removed.       *)
THEOREM DispatchInRange == Spec => []HandlerInRange
<1>1. IInv => HandlerInRange
  BY DEF IInv
<1>2. QED BY <1>1, InvariantHolds, PTL

-----------------------------------------------------------------------------
(***************************************************************************)
(* The login: credentials are shown, the session is opened and the stream  *)
(* is restarted in the order that the options ask for, and callbacks run   *)
(* only in a session.                                                      *)
(***************************************************************************)

-----------------------------------------------------------------------------
(* What a step adds to the output.                                         *)

(* Leaving an EnterExit guard moves output to the wire and loses none.     *)
LEMMA LeaveKeepsOutput ==
    ASSUME IoTypeOK, NEW entry, NEW st, NEW out \in Seq(ItemType),
           NEW outermost, Leave(entry, st, out, outermost)
    PROVE  Out' = wire \o out
<1>1. wire \in Seq(ItemType)
  BY DEF IoTypeOK
<1>2. CASE wire' = wire \o out /\ output' = <<>>
  BY <1>1, <1>2 DEF Out
<1>3. CASE wire' = wire /\ output' = out
  BY <1>3 DEF Out
<1>4. QED BY <1>2, <1>3 DEF Leave

(* A guard that is left with the output it found has written nothing.      *)
LEMMA LeaveWritesNothing ==
    ASSUME IoTypeOK, NEW entry, NEW st, NEW outermost,
           Leave(entry, st, output, outermost)
    PROVE  Out' = Out
<1>1. output \in Seq(ItemType)
  BY DEF IoTypeOK
<1>2. QED BY <1>1, LeaveKeepsOutput DEF Out

(* What has been written once the output has grown.                        *)
LEMMA WrittenGrows ==
    ASSUME IoTypeOK, NEW items \in Seq(ItemType), Out' = Out \o items
    PROVE  \A n : Written(n)' <=> Written(n) \/ \E k \in 1 .. Len(items) : items[k][1] = n
<1>1. Out \in Seq(ItemType)
  BY DEF Out, IoTypeOK
<1> SUFFICES ASSUME NEW n
             PROVE  Written(n)' <=> Written(n) \/ \E k \in 1 .. Len(items) : items[k][1] = n
  OBVIOUS
<1>2. /\ Len(Out') = Len(Out) + Len(items)
      /\ \A i \in 1 .. Len(Out) : Out'[i] = Out[i]
      /\ \A k \in 1 .. Len(items) : Out'[Len(Out) + k] = items[k]
  BY <1>1
<1>3. Len(Out) \in Nat /\ Len(items) \in Nat
  BY <1>1
<1>4. Written(n) => Written(n)'
  BY <1>2, <1>3 DEF Written
<1>5. ASSUME NEW k \in 1 .. Len(items), items[k][1] = n
      PROVE  Written(n)'
  <2>1. Len(Out) + k \in 1 .. Len(Out')
    BY <1>2, <1>3
  <2>2. QED BY <1>2, <1>5, <2>1 DEF Written
<1>6. ASSUME NEW i \in 1 .. Len(Out'), Out'[i][1] = n
      PROVE  Written(n) \/ \E k \in 1 .. Len(items) : items[k][1] = n
  <2>1. CASE i <= Len(Out)
    BY <1>2, <1>3, <1>6, <2>1 DEF Written
  <2>2. CASE i > Len(Out)
    <3>1. i - Len(Out) \in 1 .. Len(items) /\ i = Len(Out) + (i - Len(Out))
      BY <1>2, <1>3, <2>2
    <3>2. QED BY <1>2, <1>6, <3>1
  <2>3. QED BY <1>3, <2>1, <2>2
<1>7. QED BY <1>4, <1>5, <1>6 DEF Written

(* One item more.                                                          *)
LEMMA WrittenOne ==
    ASSUME IoTypeOK, NEW item \in ItemType, wire' = wire, output' = Append(output, item)
    PROVE  \A n : Written(n)' <=> Written(n) \/ n = item[1]
<1>1. wire \in Seq(ItemType) /\ output \in Seq(ItemType) /\ <<item>> \in Seq(ItemType)
  BY DEF IoTypeOK
<1>2. Out' = Out \o <<item>>
  BY <1>1 DEF Out
<1>3. Len(<<item>>) = 1 /\ <<item>>[1] = item
  OBVIOUS
<1>4. \A n : (\E k \in 1 .. Len(<<item>>) : <<item>>[k][1] = n) <=> n = item[1]
  BY <1>3
<1>5. QED BY <1>1, <1>2, <1>4, WrittenGrows

(* The same output, the same items.                                        *)
LEMMA WrittenSame ==
    ASSUME Out' = Out
    PROVE  \A n : Written(n)' <=> Written(n)
BY DEF Written

(* A public call adds what it was given to write.                          *)
LEMMA EmitWrites ==
    ASSUME IoTypeOK, NEW items \in Seq(ItemType), Emit(items)
    PROVE  /\ Out' = Out \o items
           /\ \A n : Written(n)' <=> Written(n) \/ \E k \in 1 .. Len(items) : items[k][1] = n
<1>1. wire \in Seq(ItemType) /\ output \in Seq(ItemType) /\ output \o items \in Seq(ItemType)
  BY DEF IoTypeOK
<1>2. Out' = wire \o (output \o items)
  BY <1>1, LeaveKeepsOutput DEF Emit
<1>3. Out' = Out \o items
  BY <1>1, <1>2 DEF Out
<1>4. QED BY <1>3, WrittenGrows

-----------------------------------------------------------------------------
(* The inductive invariant.                                                *)

\* Where the engine may be, and what it knows there: an error closes it, and so
\* does nothing else that lets the output handler go; the login task runs in an
\* opening engine only, and handlers after it.
ControlInv ==
    /\ error # "NONE" => state = "CLOSED"
    /\ ~output_handler => state = "CLOSED"
    /\ state = "START" =>
           /\ pc = "idle" /\ login = "INIT" /\ ~raised_reset /\ parser = "start"
           /\ ~Written("auth") /\ ~Written("response")
    /\ pc \in {"idle", "input"} => pel = None
    /\ pc = "login" => state = "OPENING"
    /\ state = "OPENING" => login # "GONE"
    /\ login = "GONE" => state \in {"OPEN", "CLOSED"}
    /\ pc # "idle" /\ login # "GONE" /\ error = "NONE" => state = "OPENING"
    /\ pc \in {"next", "dispatch", "iqcb"} => login = "GONE" /\ error = "NONE"
    /\ pc # "idle" /\ login = "GONE" /\ error = "NONE" =>
           state = "OPEN" \/ (state = "CLOSED" /\ Written("end"))

\* While the server has not agreed to the TLS that was asked for, the login is
\* before its credentials.
TlsInv ==
    asked = "REQUIRED" /\ ~encrypted =>
        /\ tls_option = "REQUIRED"
        /\ ~Written("auth") /\ ~Written("response")
        /\ login \in {"INIT", "STREAMSTART_SENT", "STARTED_XMPP", "TLS_INIT",
                      "TLS_REQUESTED", "GONE"}

\* What comes after the authentication.
AuthInv ==
    /\ Written("bind") => ~authNeeded
    /\ login \in {"BIND_INIT", "BIND_REQUESTED", "SESSION_REQUESTED"} => ~authNeeded
    /\ login = "SESSION_REQUESTED" => Written("session")
    /\ state = "OPEN" => login = "GONE" /\ ~authNeeded /\ Written("session")
    /\ pc # "idle" /\ login = "GONE" /\ error = "NONE" => ~authNeeded

\* A reset is pending only between the stream header and the end of the buffer;
\* without one, the login waits for a header exactly when the parser does.
ResetInv ==
    state = "OPENING" =>
        /\ raised_reset => login = "STREAMSTART_SENT" /\ pel = None /\ pc # "idle"
        /\ pc # "login" =>
               /\ login # "INIT"
               /\ ~raised_reset => (login = "STREAMSTART_SENT" <=> parser = "start")
        /\ pc = "login" =>
               /\ login = "INIT" => pel = None
               /\ ~raised_reset /\ login # "INIT" => parser # "start"
               /\ ~raised_reset /\ login = "STREAMSTART_SENT" => pel # None

LoginInv == ControlInv /\ TlsInv /\ AuthInv /\ ResetInv

LEMMA InitLogin == Init => LoginInv
<1> SUFFICES ASSUME Init PROVE LoginInv
  OBVIOUS
<1>1. Out = <<>>
  BY DEF Init, Out
<1>2. \A n : ~Written(n)
  BY <1>1 DEF Written
<1>3. QED BY <1>2 DEF Init, LoginInv, ControlInv, TlsInv, AuthInv, ResetInv

(* A stanza is written at once, or waits while the login task lives.       *)
LEMMA SubmitWrites ==
    ASSUME TypeOK, Submit
    PROVE  \A n : Written(n)' <=> Written(n) \/ (login = "GONE" /\ n = "app")
<1>1. IoTypeOK /\ App(submitted + 1) \in ItemType /\ <<App(submitted + 1)>> \in Seq(ItemType)
      /\ <<>> \in Seq(ItemType)
  BY ItemIsItem DEF TypeOK, ControlTypeOK
<1>2. CASE Held
  <2>1. Emit(<<>>)
    BY <1>2 DEF Submit
  <2>2. \A n : ~\E k \in 1 .. Len(<<>>) : <<>>[k][1] = n
    OBVIOUS
  <2>3. QED BY <1>1, <1>2, <2>1, <2>2, EmitWrites DEF Held
<1>3. CASE ~Held
  <2>1. Emit(<<App(submitted + 1)>>)
    BY <1>3 DEF Submit
  <2>2. \A n : (\E k \in 1 .. Len(<<App(submitted + 1)>>) : <<App(submitted + 1)>>[k][1] = n)
                  <=> n = "app"
    BY DEF App
  <2>3. QED BY <1>1, <1>3, <2>1, <2>2, EmitWrites DEF Held
<1>4. QED BY <1>2, <1>3

(* A stanza is not the absence of one.                                     *)
LEMMA StanzaIsSome == \A s \in Stanza : s # None
<1> SUFFICES ASSUME NEW s \in Stanza PROVE s # None
  OBVIOUS
<1>1. s.name # "none"
  BY StanzaAssumption DEF StanzaType
<1>2. QED BY <1>1 DEF None

(* Each turn of XmppLoginTask::Advance keeps the order of the login.       *)
LEMMA AdvanceKeepsLogin ==
    ASSUME TypeOK, LoginInv, Advance
    PROVE  LoginInv'
<1> USE DEF InLogin, Has, Wait, Failure, Continue, SignalError, LoginFrame,
            conn_vars, login_vars, history_vars
<1>a. ControlInv /\ TlsInv /\ AuthInv /\ ResetInv /\ encrypted \in BOOLEAN
      /\ login \in LoginStates /\ IoTypeOK
  BY DEF LoginInv, TypeOK, LoginTypeOK
<1>1. CASE StartStream
  <2>1. \A n : Written(n)' <=> Written(n) \/ n = "stream"
    BY <1>1, <1>a, ItemIsItem, WrittenOne DEF StartStream, RaiseReset, Write, Item
  <2>2. ControlInv'
    BY <1>1, <1>a, <2>1 DEF StartStream, RaiseReset, ControlInv
  <2>3. TlsInv'
    BY <1>1, <1>a, <2>1 DEF StartStream, RaiseReset, TlsInv, ControlInv
  <2>4. AuthInv'
    BY <1>1, <1>a, <2>1 DEF StartStream, RaiseReset, AuthInv, ControlInv
  <2>5. ResetInv'
    BY <1>1, <1>a, <2>1 DEF StartStream, RaiseReset, ResetInv, ControlInv
  <2>6. QED BY <2>2, <2>3, <2>4, <2>5 DEF LoginInv
<1>2. CASE NoStanza
  <2>1. \A n : Written(n)' <=> Written(n)
    BY <1>2, WrittenSame DEF NoStanza, Out
  <2>2. ControlInv'
    BY <1>2, <1>a, <2>1 DEF NoStanza, ControlInv
  <2>3. TlsInv'
    BY <1>2, <1>a, <2>1 DEF NoStanza, TlsInv, ControlInv
  <2>4. AuthInv'
    BY <1>2, <1>a, <2>1 DEF NoStanza, AuthInv, ControlInv
  <2>5. ResetInv'
    BY <1>2, <1>a, <2>1 DEF NoStanza, ResetInv, ControlInv
  <2>6. QED BY <2>2, <2>3, <2>4, <2>5 DEF LoginInv
<1>3. CASE StreamStarted
  <2>1. \A n : Written(n)' <=> Written(n)
    BY <1>3, WrittenSame DEF StreamStarted, Out
  <2>2. ControlInv'
    BY <1>3, <1>a, <2>1 DEF StreamStarted, ControlInv
  <2>3. TlsInv'
    BY <1>3, <1>a, <2>1 DEF StreamStarted, TlsInv, ControlInv
  <2>4. AuthInv'
    BY <1>3, <1>a, <2>1 DEF StreamStarted, AuthInv, ControlInv
  <2>5. ResetInv'
    BY <1>3, <1>a, <2>1 DEF StreamStarted, ResetInv, ControlInv
  <2>6. QED BY <2>2, <2>3, <2>4, <2>5 DEF LoginInv
<1>4. CASE HandleFeatures
  <2>1. \A n : Written(n)' <=> Written(n)
    BY <1>4, WrittenSame DEF HandleFeatures, Out
  <2>2. ControlInv'
    BY <1>4, <1>a, <2>1 DEF HandleFeatures, TlsMissing, UseTls, AfterTls, ControlInv
  <2>3. TlsInv'
    BY <1>4, <1>a, <2>1 DEF HandleFeatures, TlsMissing, UseTls, AfterTls, TlsInv, ControlInv
  <2>4. AuthInv'
    BY <1>4, <1>a, <2>1 DEF HandleFeatures, TlsMissing, UseTls, AfterTls, AuthInv, ControlInv
  <2>5. ResetInv'
    BY <1>4, <1>a, <2>1 DEF HandleFeatures, TlsMissing, UseTls, AfterTls, ResetInv, ControlInv
  <2>6. QED BY <2>2, <2>3, <2>4, <2>5 DEF LoginInv
<1>5. CASE RequestTls
  <2>1. \/ /\ \A n : Written(n)' <=> Written(n) \/ n = "starttls"
           /\ output' = Append(output, Item("starttls"))
        \/ (\A n : Written(n)' <=> Written(n)) /\ output' = output
    <3>1. wire' = wire /\ (output' = output \/ output' = Append(output, Item("starttls")))
      BY <1>5 DEF RequestTls, Write
    <3>2. CASE output' = output
      BY <3>1, <3>2, WrittenSame DEF Out
    <3>3. CASE output' = Append(output, Item("starttls"))
      BY <1>a, <3>1, <3>3, ItemIsItem, WrittenOne DEF Item
    <3>4. QED BY <3>1, <3>2, <3>3
  <2>2. ControlInv'
    BY <1>5, <1>a, <2>1 DEF RequestTls, ControlInv
  <2>3. TlsInv'
    BY <1>5, <1>a, <2>1 DEF RequestTls, TlsInv, ControlInv
  <2>4. AuthInv'
    BY <1>5, <1>a, <2>1 DEF RequestTls, AuthInv, ControlInv
  <2>5. ResetInv'
    BY <1>5, <1>a, <2>1 DEF RequestTls, ResetInv, ControlInv
  <2>6. QED BY <2>2, <2>3, <2>4, <2>5 DEF LoginInv
<1>6. CASE TlsAnswered
  <2>1. \A n : Written(n)' <=> Written(n)
    BY <1>6, WrittenSame DEF TlsAnswered, Out
  <2>2. ControlInv'
    BY <1>6, <1>a, <2>1 DEF TlsAnswered, ControlInv
  <2>3. TlsInv'
    BY <1>6, <1>a, <2>1 DEF TlsAnswered, TlsInv, ControlInv
  <2>4. AuthInv'
    BY <1>6, <1>a, <2>1 DEF TlsAnswered, AuthInv, ControlInv
  <2>5. ResetInv'
    BY <1>6, <1>a, <2>1 DEF TlsAnswered, ResetInv, ControlInv
  <2>6. QED BY <2>2, <2>3, <2>4, <2>5 DEF LoginInv
<1>7. CASE RequestBind
  <2>1. \/ /\ \A n : Written(n)' <=> Written(n) \/ n = "bind"
           /\ output' = Append(output, Item("bind"))
        \/ (\A n : Written(n)' <=> Written(n)) /\ output' = output
    <3>1. wire' = wire /\ (output' = output \/ output' = Append(output, Item("bind")))
      BY <1>7 DEF RequestBind, Write
    <3>2. CASE output' = output
      BY <3>1, <3>2, WrittenSame DEF Out
    <3>3. CASE output' = Append(output, Item("bind"))
      BY <1>a, <3>1, <3>3, ItemIsItem, WrittenOne DEF Item
    <3>4. QED BY <3>1, <3>2, <3>3
  <2>2. ControlInv'
    BY <1>7, <1>a, <2>1 DEF RequestBind, TakeId, ControlInv
  <2>3. TlsInv'
    BY <1>7, <1>a, <2>1 DEF RequestBind, TakeId, TlsInv, ControlInv
  <2>4. AuthInv'
    BY <1>7, <1>a, <2>1 DEF RequestBind, TakeId, AuthInv, ControlInv
  <2>5. ResetInv'
    BY <1>7, <1>a, <2>1 DEF RequestBind, TakeId, ResetInv, ControlInv
  <2>6. QED BY <2>2, <2>3, <2>4, <2>5 DEF LoginInv
<1>8. CASE DropStanza
  <2>1. \A n : Written(n)' <=> Written(n)
    BY <1>8, WrittenSame DEF DropStanza, Out
  <2>2. ControlInv'
    BY <1>8, <1>a, <2>1 DEF DropStanza, ControlInv
  <2>3. TlsInv'
    BY <1>8, <1>a, <2>1 DEF DropStanza, TlsInv, ControlInv
  <2>4. AuthInv'
    BY <1>8, <1>a, <2>1 DEF DropStanza, AuthInv, ControlInv
  <2>5. ResetInv'
    BY <1>8, <1>a, <2>1 DEF DropStanza, ResetInv, ControlInv
  <2>6. QED BY <2>2, <2>3, <2>4, <2>5 DEF LoginInv
<1>9. CASE BindAnswered
  <2>1. \/ /\ \A n : Written(n)' <=> Written(n) \/ n = "session"
           /\ output' = Append(output, Item("session"))
        \/ (\A n : Written(n)' <=> Written(n)) /\ output' = output
    <3>1. wire' = wire /\ (output' = output \/ output' = Append(output, Item("session")))
      BY <1>9 DEF BindAnswered, Write
    <3>2. CASE output' = output
      BY <3>1, <3>2, WrittenSame DEF Out
    <3>3. CASE output' = Append(output, Item("session"))
      BY <1>a, <3>1, <3>3, ItemIsItem, WrittenOne DEF Item
    <3>4. QED BY <3>1, <3>2, <3>3
  <2>a. output \in Seq(ItemType)
    BY <1>a DEF IoTypeOK
  <2>b. Append(output, Item("session")) # output
    BY <2>a
  <2>c. login' = "SESSION_REQUESTED" => Written("session")'
    BY <1>9, <2>1, <2>b DEF BindAnswered, Write
  <2>2. ControlInv'
    BY <1>9, <1>a, <2>1 DEF BindAnswered, TakeId, ControlInv
  <2>3. TlsInv'
    BY <1>9, <1>a, <2>1 DEF BindAnswered, TakeId, TlsInv, ControlInv
  <2>4. AuthInv'
    BY <1>9, <1>a, <2>1, <2>c DEF BindAnswered, TakeId, AuthInv, ControlInv
  <2>5. ResetInv'
    BY <1>9, <1>a, <2>1 DEF BindAnswered, TakeId, ResetInv, ControlInv
  <2>6. QED BY <2>2, <2>3, <2>4, <2>5 DEF LoginInv
<1>10. ASSUME NEW b \in BOOLEAN, StartSasl(b) PROVE LoginInv'
  <2>1. \/ /\ \A n : Written(n)' <=> Written(n) \/ n = "auth"
           /\ output' = Append(output, Item("auth"))
        \/ (\A n : Written(n)' <=> Written(n)) /\ output' = output
    <3>1. wire' = wire /\ (output' = output \/ output' = Append(output, Item("auth")))
      BY <1>10 DEF StartSasl, Write
    <3>2. CASE output' = output
      BY <3>1, <3>2, WrittenSame DEF Out
    <3>3. CASE output' = Append(output, Item("auth"))
      BY <1>a, <3>1, <3>3, ItemIsItem, WrittenOne DEF Item
    <3>4. QED BY <3>1, <3>2, <3>3
  <2>2. ControlInv'
    BY <1>10, <1>a, <2>1 DEF StartSasl, ControlInv
  <2>3. TlsInv'
    BY <1>10, <1>a, <2>1 DEF StartSasl, TlsInv, ControlInv
  <2>4. AuthInv'
    BY <1>10, <1>a, <2>1 DEF StartSasl, AuthInv, ControlInv
  <2>5. ResetInv'
    BY <1>10, <1>a, <2>1 DEF StartSasl, ResetInv, ControlInv
  <2>6. QED BY <2>2, <2>3, <2>4, <2>5 DEF LoginInv
<1>11. ASSUME NEW b \in BOOLEAN, SaslStep(b) PROVE LoginInv'
  <2>1. \/ /\ \A n : Written(n)' <=> Written(n) \/ n = "response"
           /\ output' = Append(output, Item("response"))
        \/ (\A n : Written(n)' <=> Written(n)) /\ output' = output
    <3>1. wire' = wire /\ (output' = output \/ output' = Append(output, Item("response")))
      BY <1>11 DEF SaslStep, Write
    <3>2. CASE output' = output
      BY <3>1, <3>2, WrittenSame DEF Out
    <3>3. CASE output' = Append(output, Item("response"))
      BY <1>a, <3>1, <3>3, ItemIsItem, WrittenOne DEF Item
    <3>4. QED BY <3>1, <3>2, <3>3
  <2>2. ControlInv'
    BY <1>11, <1>a, <2>1 DEF SaslStep, ControlInv
  <2>3. TlsInv'
    BY <1>11, <1>a, <2>1 DEF SaslStep, TlsInv, ControlInv
  <2>4. AuthInv'
    BY <1>11, <1>a, <2>1 DEF SaslStep, AuthInv, ControlInv
  <2>5. ResetInv'
    BY <1>11, <1>a, <2>1 DEF SaslStep, ResetInv, ControlInv
  <2>6. QED BY <2>2, <2>3, <2>4, <2>5 DEF LoginInv
<1>12. CASE SessionAnswered
  <2>1. \A n : Written(n) => Written(n)'
    <3>1. wire' = wire /\ (output' = output \/ output' = output \o queued)
      BY <1>12 DEF SessionAnswered, FlushQueuedStanzas
    <3>2. wire \in Seq(ItemType) /\ output \in Seq(ItemType) /\ queued \in Seq(ItemType)
      BY DEF TypeOK, IoTypeOK, LoginTypeOK
    <3>3. CASE output' = output
      BY <3>1, <3>3, WrittenSame DEF Out
    <3>4. CASE output' = output \o queued
      <4>1. Out' = Out \o queued
        BY <3>1, <3>2, <3>4 DEF Out
      <4>2. QED BY <1>a, <3>2, <4>1, WrittenGrows
    <3>5. QED BY <3>1, <3>3, <3>4
  <2>2. ControlInv'
    BY <1>12, <1>a, <2>1 DEF SessionAnswered, FlushQueuedStanzas, ControlInv
  <2>3. TlsInv'
    BY <1>12, <1>a, <2>1 DEF SessionAnswered, FlushQueuedStanzas, TlsInv, ControlInv
  <2>4. AuthInv'
    BY <1>12, <1>a, <2>1 DEF SessionAnswered, FlushQueuedStanzas, AuthInv, ControlInv
  <2>5. ResetInv'
    BY <1>12, <1>a, <2>1 DEF SessionAnswered, FlushQueuedStanzas, ResetInv, ControlInv
  <2>6. QED BY <2>2, <2>3, <2>4, <2>5 DEF LoginInv
<1>13. QED BY <1>1, <1>2, <1>3, <1>4, <1>5, <1>6, <1>7, <1>8, <1>9, <1>10, <1>11, <1>12 DEF Advance

(* Each step keeps the order of the login.                                 *)
LEMMA StepKeepsLogin ==
    ASSUME IInv, LoginInv, Next
    PROVE  LoginInv'
<1> USE DEF SignalError, conn_vars, login_vars, io_vars, out_vars, where_vars,
            history_vars
<1>a. /\ ControlInv /\ TlsInv /\ AuthInv /\ ResetInv
      /\ TypeOK /\ IoTypeOK /\ ControlTypeOK /\ login \in LoginStates
  BY DEF LoginInv, IInv, TypeOK, LoginTypeOK
<1>1. ASSUME NEW o \in TlsOption, SetTls(o) PROVE LoginInv'
  <2>1. \A n : Written(n)' <=> Written(n)
    BY <1>1, WrittenSame DEF SetTls, Out
  <2>2. ControlInv'
    BY <1>1, <1>a, <2>1 DEF SetTls, Outermost, ControlInv
  <2>3. TlsInv'
    BY <1>1, <1>a, <2>1 DEF SetTls, Outermost, TlsInv, ControlInv
  <2>4. AuthInv'
    BY <1>1, <1>a, <2>1 DEF SetTls, Outermost, AuthInv, ControlInv
  <2>5. ResetInv'
    BY <1>1, <1>a, <2>1 DEF SetTls, Outermost, ResetInv, ControlInv
  <2>6. QED BY <2>2, <2>3, <2>4, <2>5 DEF LoginInv
<1>2. CASE Connect
  <2>1. \A n : Written(n)' <=> Written(n)
    BY <1>2, WrittenSame DEF Connect, Out
  <2>2. ControlInv'
    BY <1>2, <1>a, <2>1 DEF Connect, Outermost, ControlInv
  <2>3. TlsInv'
    BY <1>2, <1>a, <2>1 DEF Connect, Outermost, TlsInv, ControlInv
  <2>4. AuthInv'
    BY <1>2, <1>a, <2>1 DEF Connect, Outermost, AuthInv, ControlInv
  <2>5. ResetInv'
    BY <1>2, <1>a, <2>1 DEF Connect, Outermost, ResetInv, ControlInv
  <2>6. QED BY <2>2, <2>3, <2>4, <2>5 DEF LoginInv
<1>3. CASE HandleInput
  <2>1. \A n : Written(n)' <=> Written(n)
    BY <1>3, WrittenSame DEF HandleInput, Out
  <2>2. ControlInv'
    BY <1>3, <1>a, <2>1 DEF HandleInput, Outermost, ControlInv, AuthInv
  <2>3. TlsInv'
    BY <1>3, <1>a, <2>1 DEF HandleInput, Outermost, TlsInv, ControlInv
  <2>4. AuthInv'
    BY <1>3, <1>a, <2>1 DEF HandleInput, Outermost, AuthInv, ControlInv
  <2>5. ResetInv'
    BY <1>3, <1>a, <2>1 DEF HandleInput, Outermost, ResetInv, ControlInv
  <2>6. QED BY <2>2, <2>3, <2>4, <2>5 DEF LoginInv
<1>4. CASE RemoveIqHandler
  <2>1. \A n : Written(n)' <=> Written(n)
    BY <1>4, WrittenSame DEF RemoveIqHandler, Out
  <2>2. ControlInv'
    BY <1>4, <1>a, <2>1 DEF RemoveIqHandler, MayCall, ControlInv
  <2>3. TlsInv'
    BY <1>4, <1>a, <2>1 DEF RemoveIqHandler, MayCall, TlsInv, ControlInv
  <2>4. AuthInv'
    BY <1>4, <1>a, <2>1 DEF RemoveIqHandler, MayCall, AuthInv, ControlInv
  <2>5. ResetInv'
    BY <1>4, <1>a, <2>1 DEF RemoveIqHandler, MayCall, ResetInv, ControlInv
  <2>6. QED BY <2>2, <2>3, <2>4, <2>5 DEF LoginInv
<1>5. ASSUME NEW h \in Handler, NEW l \in Level, AddStanzaHandler(h, l) PROVE LoginInv'
  <2>1. \A n : Written(n)' <=> Written(n)
    BY <1>5, WrittenSame DEF AddStanzaHandler, Out
  <2>2. ControlInv'
    BY <1>5, <1>a, <2>1 DEF AddStanzaHandler, MayCall, ControlInv
  <2>3. TlsInv'
    BY <1>5, <1>a, <2>1 DEF AddStanzaHandler, MayCall, TlsInv, ControlInv
  <2>4. AuthInv'
    BY <1>5, <1>a, <2>1 DEF AddStanzaHandler, MayCall, AuthInv, ControlInv
  <2>5. ResetInv'
    BY <1>5, <1>a, <2>1 DEF AddStanzaHandler, MayCall, ResetInv, ControlInv
  <2>6. QED BY <2>2, <2>3, <2>4, <2>5 DEF LoginInv
<1>6. ASSUME NEW h \in Handler, RemoveStanzaHandler(h) PROVE LoginInv'
  <2>1. \A n : Written(n)' <=> Written(n)
    BY <1>6, WrittenSame DEF RemoveStanzaHandler, Out
  <2>2. ControlInv'
    BY <1>6, <1>a, <2>1 DEF RemoveStanzaHandler, MayCall, ControlInv
  <2>3. TlsInv'
    BY <1>6, <1>a, <2>1 DEF RemoveStanzaHandler, MayCall, TlsInv, ControlInv
  <2>4. AuthInv'
    BY <1>6, <1>a, <2>1 DEF RemoveStanzaHandler, MayCall, AuthInv, ControlInv
  <2>5. ResetInv'
    BY <1>6, <1>a, <2>1 DEF RemoveStanzaHandler, MayCall, ResetInv, ControlInv
  <2>6. QED BY <2>2, <2>3, <2>4, <2>5 DEF LoginInv
<1>7. ASSUME NEW s \in Stanza, IncomingStart(s) PROVE LoginInv'
  <2>1. \A n : Written(n)' <=> Written(n)
    BY <1>7, WrittenSame DEF IncomingStart, Out
  <2>2. ControlInv'
    BY <1>7, <1>a, StanzaIsSome, <2>1 DEF IncomingStart, Parsing, Ignoring, ToLogin, ControlInv
  <2>3. TlsInv'
    BY <1>7, <1>a, StanzaIsSome, <2>1 DEF IncomingStart, Parsing, Ignoring, ToLogin, TlsInv, ControlInv
  <2>4. AuthInv'
    BY <1>7, <1>a, StanzaIsSome, <2>1 DEF IncomingStart, Parsing, Ignoring, ToLogin, AuthInv, ControlInv
  <2>5. ResetInv'
    BY <1>7, <1>a, StanzaIsSome, <2>1 DEF IncomingStart, Parsing, Ignoring, ToLogin, ResetInv, ControlInv
  <2>6. QED BY <2>2, <2>3, <2>4, <2>5 DEF LoginInv
<1>8. ASSUME NEW s \in Stanza, IncomingStanza(s) PROVE LoginInv'
  <2>1. \A n : Written(n)' <=> Written(n)
    BY <1>8, WrittenSame DEF IncomingStanza, Out
  <2>2. ControlInv'
    BY <1>8, <1>a, StanzaIsSome, <2>1 DEF IncomingStanza, Parsing, Ignoring, ToLogin, CallIqHandler, Called, Dispatch, ControlInv
  <2>3. TlsInv'
    BY <1>8, <1>a, StanzaIsSome, <2>1 DEF IncomingStanza, Parsing, Ignoring, ToLogin, CallIqHandler, Called, Dispatch, TlsInv, ControlInv
  <2>4. AuthInv'
    BY <1>8, <1>a, StanzaIsSome, <2>1 DEF IncomingStanza, Parsing, Ignoring, ToLogin, CallIqHandler, Called, Dispatch, AuthInv, ControlInv
  <2>5. ResetInv'
    BY <1>8, <1>a, StanzaIsSome, <2>1 DEF IncomingStanza, Parsing, Ignoring, ToLogin, CallIqHandler, Called, Dispatch, ResetInv, ControlInv
  <2>6. QED BY <2>2, <2>3, <2>4, <2>5 DEF LoginInv
<1>9. ASSUME NEW b \in BOOLEAN, IncomingEnd(b) PROVE LoginInv'
  <2>1. \A n : Written(n)' <=> Written(n)
    BY <1>9, WrittenSame DEF IncomingEnd, Out
  <2>2. ControlInv'
    BY <1>9, <1>a, <2>1 DEF IncomingEnd, Ignoring, ControlInv
  <2>3. TlsInv'
    BY <1>9, <1>a, <2>1 DEF IncomingEnd, Ignoring, TlsInv, ControlInv
  <2>4. AuthInv'
    BY <1>9, <1>a, <2>1 DEF IncomingEnd, Ignoring, AuthInv, ControlInv
  <2>5. ResetInv'
    BY <1>9, <1>a, <2>1 DEF IncomingEnd, Ignoring, ResetInv, ControlInv
  <2>6. QED BY <2>2, <2>3, <2>4, <2>5 DEF LoginInv
<1>10. CASE IqHandlerReturns
  <2>1. \A n : Written(n)' <=> Written(n)
    BY <1>10, WrittenSame DEF IqHandlerReturns, Out
  <2>2. ControlInv'
    BY <1>10, <1>a, <2>1 DEF IqHandlerReturns, ControlInv
  <2>3. TlsInv'
    BY <1>10, <1>a, <2>1 DEF IqHandlerReturns, TlsInv, ControlInv
  <2>4. AuthInv'
    BY <1>10, <1>a, <2>1 DEF IqHandlerReturns, AuthInv, ControlInv
  <2>5. ResetInv'
    BY <1>10, <1>a, <2>1 DEF IqHandlerReturns, ResetInv, ControlInv
  <2>6. QED BY <2>2, <2>3, <2>4, <2>5 DEF LoginInv
<1>11. CASE CallHandler
  <2>1. \A n : Written(n)' <=> Written(n)
    BY <1>11, WrittenSame DEF CallHandler, Out
  <2>2. ControlInv'
    BY <1>11, <1>a, <2>1 DEF CallHandler, ControlInv
  <2>3. TlsInv'
    BY <1>11, <1>a, <2>1 DEF CallHandler, TlsInv, ControlInv
  <2>4. AuthInv'
    BY <1>11, <1>a, <2>1 DEF CallHandler, AuthInv, ControlInv
  <2>5. ResetInv'
    BY <1>11, <1>a, <2>1 DEF CallHandler, ResetInv, ControlInv
  <2>6. QED BY <2>2, <2>3, <2>4, <2>5 DEF LoginInv
<1>12. ASSUME NEW b \in BOOLEAN, HandlerReturns(b) PROVE LoginInv'
  <2>1. \A n : Written(n)' <=> Written(n)
    BY <1>12, WrittenSame DEF HandlerReturns, Out
  <2>2. ControlInv'
    BY <1>12, <1>a, <2>1 DEF HandlerReturns, ControlInv
  <2>3. TlsInv'
    BY <1>12, <1>a, <2>1 DEF HandlerReturns, TlsInv, ControlInv
  <2>4. AuthInv'
    BY <1>12, <1>a, <2>1 DEF HandlerReturns, AuthInv, ControlInv
  <2>5. ResetInv'
    BY <1>12, <1>a, <2>1 DEF HandlerReturns, ResetInv, ControlInv
  <2>6. QED BY <2>2, <2>3, <2>4, <2>5 DEF LoginInv
<1>13. CASE Return
  <2>1. \A n : Written(n)' <=> Written(n)
    BY <1>13, <1>a, LeaveWritesNothing, WrittenSame DEF Return
  <2>2. ControlInv'
    BY <1>13, <1>a, <2>1 DEF Return, Leave, LetGo, ControlInv
  <2>3. TlsInv'
    BY <1>13, <1>a, <2>1 DEF Return, Leave, LetGo, TlsInv, ControlInv
  <2>4. AuthInv'
    BY <1>13, <1>a, <2>1 DEF Return, Leave, LetGo, AuthInv, ControlInv
  <2>5. ResetInv'
    BY <1>13, <1>a, <2>1 DEF Return, Leave, LetGo, ResetInv, ControlInv
  <2>6. QED BY <2>2, <2>3, <2>4, <2>5 DEF LoginInv
<1>14. ASSUME NEW e \in Errors, ConnectionClosed(e) PROVE LoginInv'
  <2>1. \A n : Written(n)' <=> Written(n)
    BY <1>14, <1>a, LeaveWritesNothing, WrittenSame DEF ConnectionClosed
  <2>2. ControlInv'
    BY <1>14, <1>a, <2>1 DEF ConnectionClosed, Outermost, Leave, LetGo, ControlInv
  <2>3. TlsInv'
    BY <1>14, <1>a, <2>1 DEF ConnectionClosed, Outermost, Leave, LetGo, TlsInv, ControlInv
  <2>4. AuthInv'
    BY <1>14, <1>a, <2>1 DEF ConnectionClosed, Outermost, Leave, LetGo, AuthInv, ControlInv
  <2>5. ResetInv'
    BY <1>14, <1>a, <2>1 DEF ConnectionClosed, Outermost, Leave, LetGo, ResetInv, ControlInv
  <2>6. QED BY <2>2, <2>3, <2>4, <2>5 DEF LoginInv
<1>15. CASE Disconnect
  <2>1. /\ state = "OPEN" => \A n : Written(n)' <=> Written(n) \/ n = "end"
        /\ state # "OPEN" => \A n : Written(n)' <=> Written(n)
    <3>1. wire \in Seq(ItemType) /\ output \in Seq(ItemType)
      BY <1>a DEF IoTypeOK
    <3>2. CASE state = "OPEN"
      <4>1. Item("end") \in ItemType /\ <<Item("end")>> \in Seq(ItemType)
        BY ItemIsItem
      <4>2. Leave(state, "CLOSED", Append(output, Item("end")), Outermost)
        BY <1>15, <3>2 DEF Disconnect
      <4>3. Append(output, Item("end")) \in Seq(ItemType)
        BY <3>1, <4>1
      <4>4. Out' = wire \o Append(output, Item("end"))
        BY <1>a, <4>2, <4>3, LeaveKeepsOutput
      <4>5. Out' = Out \o <<Item("end")>>
        BY <3>1, <4>1, <4>4 DEF Out
      <4>6. \A n : (\E k \in 1 .. Len(<<Item("end")>>) : <<Item("end")>>[k][1] = n)
                      <=> n = "end"
        BY DEF Item
      <4>7. QED BY <1>a, <3>2, <4>1, <4>5, <4>6, WrittenGrows
    <3>3. CASE state # "OPEN"
      <4>1. Leave(state, "CLOSED", output, Outermost)
        BY <1>15, <3>3 DEF Disconnect
      <4>2. QED BY <1>a, <3>3, <4>1, LeaveWritesNothing, WrittenSame
    <3>4. QED BY <3>2, <3>3
  <2>2. ControlInv'
    BY <1>15, <1>a, <2>1 DEF Disconnect, MayCall, Outermost, InCallback, Leave, LetGo, ControlInv
  <2>3. TlsInv'
    BY <1>15, <1>a, <2>1 DEF Disconnect, MayCall, Outermost, InCallback, Leave, LetGo, TlsInv, ControlInv
  <2>4. AuthInv'
    BY <1>15, <1>a, <2>1 DEF Disconnect, MayCall, Outermost, InCallback, Leave, LetGo, AuthInv, ControlInv
  <2>5. ResetInv'
    BY <1>15, <1>a, <2>1 DEF Disconnect, MayCall, Outermost, InCallback, Leave, LetGo, ResetInv, ControlInv
  <2>6. QED BY <2>2, <2>3, <2>4, <2>5 DEF LoginInv
<1>16. CASE SendStanza
  <2>1. \A n : Written(n)' <=> Written(n) \/ (login = "GONE" /\ n = "app")
    BY <1>16, <1>a, SubmitWrites DEF SendStanza
  <2>2. ControlInv'
    BY <1>16, <1>a, <2>1 DEF SendStanza, Submit, MayCall, Outermost, InCallback, Emit, Leave, LetGo, ControlInv
  <2>3. TlsInv'
    BY <1>16, <1>a, <2>1 DEF SendStanza, Submit, MayCall, Outermost, InCallback, Emit, Leave, LetGo, TlsInv, ControlInv
  <2>4. AuthInv'
    BY <1>16, <1>a, <2>1 DEF SendStanza, Submit, MayCall, Outermost, InCallback, Emit, Leave, LetGo, AuthInv, ControlInv
  <2>5. ResetInv'
    BY <1>16, <1>a, <2>1 DEF SendStanza, Submit, MayCall, Outermost, InCallback, Emit, Leave, LetGo, ResetInv, ControlInv
  <2>6. QED BY <2>2, <2>3, <2>4, <2>5 DEF LoginInv
<1>17. ASSUME NEW j \in Jid, SendIq(j) PROVE LoginInv'
  <2>1. \A n : Written(n)' <=> Written(n) \/ (login = "GONE" /\ n = "app")
    BY <1>17, <1>a, SubmitWrites DEF SendIq
  <2>2. ControlInv'
    BY <1>17, <1>a, <2>1 DEF SendIq, Submit, MayCall, Outermost, InCallback, Emit, Leave, LetGo, ControlInv
  <2>3. TlsInv'
    BY <1>17, <1>a, <2>1 DEF SendIq, Submit, MayCall, Outermost, InCallback, Emit, Leave, LetGo, TlsInv, ControlInv
  <2>4. AuthInv'
    BY <1>17, <1>a, <2>1 DEF SendIq, Submit, MayCall, Outermost, InCallback, Emit, Leave, LetGo, AuthInv, ControlInv
  <2>5. ResetInv'
    BY <1>17, <1>a, <2>1 DEF SendIq, Submit, MayCall, Outermost, InCallback, Emit, Leave, LetGo, ResetInv, ControlInv
  <2>6. QED BY <2>2, <2>3, <2>4, <2>5 DEF LoginInv
<1>18. CASE SendRaw
  <2>1. \A n : Written(n)' <=> Written(n) \/ n = "raw"
    <3>1. Emit(<<Item("raw")>>)
      BY <1>18 DEF SendRaw
    <3>2. Item("raw") \in ItemType /\ <<Item("raw")>> \in Seq(ItemType)
      BY ItemIsItem
    <3>3. QED BY <1>a, <3>1, <3>2, EmitWrites DEF Item
  <2>2. ControlInv'
    BY <1>18, <1>a, <2>1 DEF SendRaw, MayCall, Outermost, InCallback, Emit, Leave, LetGo, ControlInv
  <2>3. TlsInv'
    BY <1>18, <1>a, <2>1 DEF SendRaw, MayCall, Outermost, InCallback, Emit, Leave, LetGo, TlsInv, ControlInv
  <2>4. AuthInv'
    BY <1>18, <1>a, <2>1 DEF SendRaw, MayCall, Outermost, InCallback, Emit, Leave, LetGo, AuthInv, ControlInv
  <2>5. ResetInv'
    BY <1>18, <1>a, <2>1 DEF SendRaw, MayCall, Outermost, InCallback, Emit, Leave, LetGo, ResetInv, ControlInv
  <2>6. QED BY <2>2, <2>3, <2>4, <2>5 DEF LoginInv
<1>19. CASE Unhandled
  <2>1. (\A n : Written(n)' <=> Written(n) \/ n = "error") \/ (\A n : Written(n)' <=> Written(n))
    <3>1. wire' = wire /\ (output' = output \/ output' = Append(output, Item("error")))
      BY <1>19 DEF Unhandled
    <3>2. CASE output' = output
      BY <3>1, <3>2, WrittenSame DEF Out
    <3>3. CASE output' = Append(output, Item("error"))
      BY <1>a, <3>1, <3>3, ItemIsItem, WrittenOne DEF Item
    <3>4. QED BY <3>1, <3>2, <3>3
  <2>2. ControlInv'
    BY <1>19, <1>a, <2>1 DEF Unhandled, ControlInv
  <2>3. TlsInv'
    BY <1>19, <1>a, <2>1 DEF Unhandled, TlsInv, ControlInv
  <2>4. AuthInv'
    BY <1>19, <1>a, <2>1 DEF Unhandled, AuthInv, ControlInv
  <2>5. ResetInv'
    BY <1>19, <1>a, <2>1 DEF Unhandled, ResetInv, ControlInv
  <2>6. QED BY <2>2, <2>3, <2>4, <2>5 DEF LoginInv
<1>20. CASE Advance
  BY <1>20, <1>a, AdvanceKeepsLogin
<1>21. QED BY <1>1, <1>2, <1>3, <1>4, <1>5, <1>6, <1>7, <1>8, <1>9, <1>10, <1>11, <1>12, <1>13, <1>14, <1>15, <1>16, <1>17, <1>18, <1>19, <1>20 DEF Next, Call, Parse, Run

-----------------------------------------------------------------------------

(* LoginInv is an invariant of the specification.                          *)
THEOREM LoginHolds == Spec => []LoginInv
<1>1. LoginInv /\ UNCHANGED vars => LoginInv'
  <2> SUFFICES ASSUME LoginInv, UNCHANGED vars PROVE LoginInv'
    OBVIOUS
  <2>1. \A n : Written(n)' <=> Written(n)
    BY WrittenSame DEF vars, io_vars, out_vars, Out
  <2>2. QED BY <2>1 DEF vars, conn_vars, login_vars, io_vars, out_vars, reg_vars,
               where_vars, call_vars, history_vars, LoginInv, ControlInv, TlsInv,
               AuthInv, ResetInv
<1>2. QED BY <1>1, InitLogin, InvariantHolds, StepKeepsLogin, PTL DEF Spec

(* With TLS required no credentials are written before the server agrees,  *)
(* only an authenticated user gets a session, and each new stream meets a  *)
(* fresh parser, whatever the server sends and whenever it fails           *)
(* (XmppLoginTask::Advance).                                               *)
THEOREM LoginIsInOrder == Spec => []LoginInOrder
<1>1. TypeOK /\ LoginInv => LoginInOrder
  BY DEF TypeOK, LoginTypeOK, LoginInv, ControlInv, TlsInv, AuthInv, ResetInv,
         LoginInOrder, AuthAfterTls, OpenIsAuthenticated, FreshParser
<1>2. QED BY <1>1, TypeCorrect, LoginHolds, PTL

(* Handlers are called in an authenticated session only, or in what is     *)
(* left of the buffer in which one of them disconnected (IncomingStanza).  *)
THEOREM CallbacksAreInSession == Spec => []CallbacksInSession
<1>1. LoginInv => CallbacksInSession
  BY DEF LoginInv, ControlInv, AuthInv, CallbacksInSession
<1>2. QED BY <1>1, LoginHolds, PTL

-----------------------------------------------------------------------------
(* Numbers and their order.                                                *)

\* t begins with s.
Extends(t, s) == Len(s) <= Len(t) /\ \A i \in 1 .. Len(s) : t[i] = s[i]

(* The numbers of the items of two pieces of output.                       *)
LEMMA NumbersType ==
    ASSUME NEW s \in Seq(ItemType)
    PROVE  /\ Numbers(s) \in Seq(Nat) /\ Len(Numbers(s)) = Len(s)
           /\ \A i \in 1 .. Len(s) : Numbers(s)[i] = Number(s[i])
<1>1. \A i \in 1 .. Len(s) : Number(s[i]) \in Nat
  <2> SUFFICES ASSUME NEW i \in 1 .. Len(s) PROVE Number(s[i]) \in Nat
    OBVIOUS
  <2>1. s[i] \in ItemType
    BY ElementType
  <2>2. QED BY <2>1 DEF Number, ItemType
<1>2. QED BY <1>1 DEF Numbers

LEMMA NumbersConcat ==
    ASSUME NEW s \in Seq(ItemType), NEW t \in Seq(ItemType)
    PROVE  /\ Len(Numbers(s \o t)) = Len(s) + Len(t)
           /\ Extends(Numbers(s \o t), Numbers(s))
           /\ \A k \in 1 .. Len(t) : Numbers(s \o t)[Len(s) + k] = Number(t[k])
<1>1. /\ s \o t \in Seq(ItemType) /\ Len(s \o t) = Len(s) + Len(t)
      /\ Len(s) \in Nat /\ Len(t) \in Nat
      /\ \A i \in 1 .. Len(s) : (s \o t)[i] = s[i]
      /\ \A k \in 1 .. Len(t) : (s \o t)[Len(s) + k] = t[k]
  OBVIOUS
<1>2. /\ Len(Numbers(s \o t)) = Len(s) + Len(t) /\ Len(Numbers(s)) = Len(s)
      /\ \A i \in 1 .. Len(s) + Len(t) : Numbers(s \o t)[i] = Number((s \o t)[i])
      /\ \A i \in 1 .. Len(s) : Numbers(s)[i] = Number(s[i])
  BY <1>1, NumbersType
<1>3. \A i \in 1 .. Len(s) : i \in 1 .. Len(s) + Len(t)
  BY <1>1
<1>4. \A k \in 1 .. Len(t) : Len(s) + k \in 1 .. Len(s) + Len(t)
  BY <1>1
<1>5. QED BY <1>1, <1>2, <1>3, <1>4 DEF Extends

\* Every number up to n occurs in s.
Complete(s, n) == \A m \in 1 .. n : \E i \in 1 .. Len(s) : s[i] = m

\* No number in s is greater than n.
AtMost(s, n) == \A i \in 1 .. Len(s) : s[i] <= n

(* The beginning of what is in order is in order.                          *)
LEMMA PrefixInOrder ==
    ASSUME NEW s \in Seq(Nat), NEW t \in Seq(Nat), Extends(t, s), Promise!InOrder(t)
    PROVE  Promise!InOrder(s)
<1>1. /\ Len(s) \in Nat /\ Len(t) \in Nat /\ Len(s) <= Len(t)
      /\ \A i \in 1 .. Len(s) : t[i] = s[i]
  BY DEF Extends
<1>2. \A i \in 1 .. Len(s) : i \in 1 .. Len(t) /\ \A j \in 1 .. i - 1 : j \in 1 .. Len(s)
  BY <1>1
<1>3. QED BY <1>1, <1>2 DEF Promise!InOrder

(* Items without a number disturb nothing.                                 *)
LEMMA ZerosInOrder ==
    ASSUME NEW s \in Seq(Nat), NEW t \in Seq(Nat), NEW n \in Nat, Extends(t, s),
           \A i \in Len(s) + 1 .. Len(t) : t[i] = 0,
           Promise!InOrder(s), AtMost(s, n)
    PROVE  Promise!InOrder(t) /\ AtMost(t, n) /\ (Complete(s, n) => Complete(t, n))
<1>1. /\ Len(s) \in Nat /\ Len(t) \in Nat /\ Len(s) <= Len(t)
      /\ \A i \in 1 .. Len(s) : t[i] = s[i]
  BY DEF Extends
<1>2. \A i \in 1 .. Len(t) : i \in 1 .. Len(s) \/ t[i] = 0
  BY <1>1
<1>3. \A i \in 1 .. Len(s) : i \in 1 .. Len(t) /\ \A j \in 1 .. i - 1 : j \in 1 .. Len(s)
  BY <1>1
<1>4. Promise!InOrder(t)
  BY <1>1, <1>2, <1>3 DEF Promise!InOrder
<1>5. AtMost(t, n)
  BY <1>1, <1>2 DEF AtMost
<1>6. QED BY <1>1, <1>3, <1>4, <1>5 DEF Complete

(* Counting on from a complete sequence keeps it in order and complete.    *)
LEMMA CountingInOrder ==
    ASSUME NEW s \in Seq(Nat), NEW t \in Seq(Nat), NEW n \in Nat, NEW m \in Nat,
           Extends(t, s), Len(t) = Len(s) + m,
           \A k \in 1 .. m : t[Len(s) + k] = n + k,
           Promise!InOrder(s), AtMost(s, n), Complete(s, n)
    PROVE  Promise!InOrder(t) /\ AtMost(t, n + m) /\ Complete(t, n + m)
<1>1. /\ Len(s) \in Nat /\ Len(t) \in Nat /\ Len(s) <= Len(t)
      /\ \A i \in 1 .. Len(s) : t[i] = s[i] /\ s[i] \in Nat
  BY DEF Extends
<1>2. \A i \in 1 .. Len(t) : i > Len(s) => /\ i - Len(s) \in 1 .. m
                                          /\ t[i] = n + (i - Len(s))
  <2> SUFFICES ASSUME NEW i \in 1 .. Len(t), i > Len(s)
               PROVE  i - Len(s) \in 1 .. m /\ t[i] = n + (i - Len(s))
    OBVIOUS
  <2>1. i - Len(s) \in 1 .. m /\ i = Len(s) + (i - Len(s))
    BY <1>1
  <2>2. QED BY <2>1
<1>3. \A i \in 1 .. Len(s) : i \in 1 .. Len(t) /\ t[i] <= n
  BY <1>1 DEF AtMost
<1>4. AtMost(t, n + m)
  <2> SUFFICES ASSUME NEW i \in 1 .. Len(t) PROVE t[i] <= n + m
    BY DEF AtMost
  <2>1. CASE i <= Len(s)
    BY <1>1, <1>3, <2>1
  <2>2. CASE i > Len(s)
    BY <1>1, <1>2, <2>2
  <2>3. QED BY <1>1, <2>1, <2>2
<1>5. Complete(t, n + m)
  <2> SUFFICES ASSUME NEW x \in 1 .. n + m PROVE \E i \in 1 .. Len(t) : t[i] = x
    BY DEF Complete
  <2>1. CASE x <= n
    <3>1. x \in 1 .. n
      BY <2>1
    <3>2. PICK i \in 1 .. Len(s) : s[i] = x
      BY <3>1 DEF Complete
    <3>3. QED BY <1>1, <1>3, <3>2
  <2>2. CASE x > n
    <3>1. x - n \in 1 .. m /\ n + (x - n) = x
      BY <2>2
    <3>2. Len(s) + (x - n) \in 1 .. Len(t)
      BY <1>1, <3>1
    <3>3. t[Len(s) + (x - n)] = x
      BY <3>1
    <3>4. QED BY <3>2, <3>3
  <2>3. QED BY <2>1, <2>2
<1>6. Promise!InOrder(t)
  <2> SUFFICES ASSUME NEW i \in 1 .. Len(t), t[i] # 0
               PROVE  /\ \A j \in 1 .. i - 1 : t[j] < t[i]
                      /\ t[i] = 1 \/ \E j \in 1 .. i - 1 : t[j] = t[i] - 1
    BY DEF Promise!InOrder
  <2>1. CASE i <= Len(s)
    <3>1. i \in 1 .. Len(s) /\ \A j \in 1 .. i - 1 : j \in 1 .. Len(s)
      BY <1>1, <2>1
    <3>2. QED BY <1>1, <3>1 DEF Promise!InOrder
  <2>2. CASE i > Len(s)
    <3>1. t[i] = n + (i - Len(s)) /\ i - Len(s) \in 1 .. m
      BY <1>2, <2>2
    <3>2. ASSUME NEW j \in 1 .. i - 1 PROVE t[j] < t[i]
      <4>1. CASE j <= Len(s)
        <5>1. t[j] <= n /\ t[j] \in Nat
          BY <1>1, <1>3, <4>1
        <5>2. QED BY <3>1, <5>1
      <4>2. CASE j > Len(s)
        <5>1. j \in 1 .. Len(t)
          BY <1>1
        <5>2. t[j] = n + (j - Len(s))
          BY <1>2, <4>2, <5>1
        <5>3. QED BY <1>1, <3>1, <5>2
      <4>3. QED BY <1>1, <4>1, <4>2
    <3>3. t[i] = 1 \/ \E j \in 1 .. i - 1 : t[j] = t[i] - 1
      <4>1. CASE i - Len(s) = 1 /\ n = 0
        BY <3>1, <4>1
      <4>2. CASE i - Len(s) = 1 /\ n > 0
        <5>1. n \in 1 .. n
          BY <4>2
        <5>2. PICK j \in 1 .. Len(s) : s[j] = n
          BY <5>1 DEF Complete
        <5>3. j \in 1 .. i - 1 /\ t[j] = n
          <6>1. t[j] = s[j] /\ Len(s) \in Nat
            BY <1>1
          <6>2. QED BY <2>2, <5>2, <6>1
        <5>4. t[i] - 1 = n
          BY <3>1, <4>2
        <5>5. QED BY <5>3, <5>4
      <4>3. CASE i - Len(s) > 1
        <5>1. i - 1 \in 1 .. Len(t) /\ i - 1 > Len(s) /\ i - 1 \in 1 .. i - 1
          BY <1>1, <4>3
        <5>2. t[i - 1] = n + ((i - 1) - Len(s))
          BY <1>2, <5>1
        <5>3. t[i - 1] = t[i] - 1
          BY <1>1, <3>1, <5>2
        <5>4. QED BY <5>1, <5>3
      <4>4. QED BY <1>1, <3>1, <4>1, <4>2, <4>3
    <3>4. QED BY <3>2, <3>3
  <2>3. QED BY <1>1, <2>1, <2>2
<1>7. QED BY <1>4, <1>5, <1>6

-----------------------------------------------------------------------------
(* What a step does with the stanzas.                                      *)

Names == {"stream", "starttls", "auth", "response", "bind", "session", "error",
          "raw", "end"}

\* The login task lives on, or was gone before.
SameLife == login' = "GONE" <=> login = "GONE"

\* Nothing is written, ...
Keeps ==
    Out' = Out /\ submitted' = submitted /\ queued' = queued /\ SameLife

\* ... the queue dies with the login task, ...
Loses ==
    /\ Out' = Out /\ submitted' = submitted /\ queued' = <<>>
    /\ login' = "GONE" /\ state' = "CLOSED"

\* ... the engine speaks for itself, ...
Says ==
    /\ \E n \in Names : Out' = Out \o <<Item(n)>>
    /\ submitted' = submitted /\ queued' = queued /\ SameLife

\* ... a stanza is written, ...
Sends ==
    /\ login = "GONE" /\ login' = login /\ state = "OPEN"
    /\ submitted' = submitted + 1 /\ queued' = queued
    /\ Out' = Out \o <<App(submitted + 1)>>

\* ... or waits, ...
Waits ==
    /\ login # "GONE" /\ login' = login /\ state # "CLOSED"
    /\ submitted' = submitted + 1 /\ queued' = Append(queued, App(submitted + 1))
    /\ Out' = Out

\* ... or those that waited are written.
Flushes ==
    /\ login = "SESSION_REQUESTED" /\ login' = "GONE" /\ state = "OPENING"
    /\ submitted' = submitted /\ queued' = <<>>
    /\ Out' = Out \o queued

Moves == Keeps \/ Loses \/ Says \/ Sends \/ Waits \/ Flushes

(* The engine's own items among those that are written.                    *)
LEMMA SaysOne ==
    ASSUME IoTypeOK, NEW n \in Names, wire' = wire, output' = Append(output, Item(n))
    PROVE  Out' = Out \o <<Item(n)>>
<1>1. wire \in Seq(ItemType) /\ output \in Seq(ItemType) /\ Item(n) \in ItemType
  BY ItemIsItem DEF IoTypeOK, Names
<1>2. QED BY <1>1 DEF Out

(* A stanza is written at once or waits.                                   *)
LEMMA SubmitMoves ==
    ASSUME TypeOK, LoginInv, Submit, login' = login
    PROVE  Moves
<1>1. /\ IoTypeOK /\ <<App(submitted + 1)>> \in Seq(ItemType) /\ <<>> \in Seq(ItemType)
      /\ Out \in Seq(ItemType)
  BY ItemIsItem DEF TypeOK, ControlTypeOK, IoTypeOK, Out
<1>2. CASE Held
  <2>1. Emit(<<>>)
    BY <1>2 DEF Submit
  <2>2. Out' = Out \o <<>>
    BY <1>1, <2>1, EmitWrites
  <2>3. Out' = Out
    BY <1>1, <2>2
  <2>4. QED BY <1>2, <2>3 DEF Submit, Held, Moves, Waits
<1>3. CASE ~Held
  <2>1. Emit(<<App(submitted + 1)>>)
    BY <1>3 DEF Submit
  <2>2. Out' = Out \o <<App(submitted + 1)>>
    BY <1>1, <2>1, EmitWrites
  <2>3. state = "OPEN" /\ login = "GONE"
    BY <1>3 DEF Submit, Held, LoginInv, ControlInv
  <2>4. QED BY <1>3, <2>2, <2>3 DEF Submit, Moves, Sends
<1>4. QED BY <1>2, <1>3

(* Each turn of XmppLoginTask::Advance makes one of the moves.             *)
LEMMA AdvanceMoves ==
    ASSUME TypeOK, LoginInv, Advance
    PROVE  Moves
<1> USE DEF InLogin, Has, Wait, Failure, Continue, SignalError, LoginFrame,
            conn_vars, login_vars, history_vars, SameLife, Write
<1>a. IoTypeOK /\ (pc = "login" => state = "OPENING")
  BY DEF TypeOK, LoginInv, ControlInv
<1>1. CASE StartStream
  <2>1. CASE output' = Append(output, Item("stream")) /\ login' # "GONE"
    <3>1. "stream" \in Names /\ wire' = wire
      BY <1>1 DEF StartStream, Names
    <3>2. Out' = Out \o <<Item("stream")>>
      BY <1>a, <2>1, <3>1, SaysOne
    <3>3. submitted' = submitted /\ queued' = queued /\ login # "GONE"
      BY <1>1, <2>1 DEF StartStream
    <3>4. QED BY <2>1, <3>1, <3>2, <3>3 DEF Moves, Says
  <2>2. CASE ~(output' = Append(output, Item("stream")) /\ login' # "GONE")
    BY <1>1, <1>a, <2>2 DEF StartStream, Out, Moves
  <2>3. QED BY <2>1, <2>2
<1>2. CASE NoStanza
  BY <1>2, <1>a DEF NoStanza, Out, Moves, Keeps
<1>3. CASE StreamStarted
  BY <1>3, <1>a DEF StreamStarted, Out, Moves, Keeps, Loses
<1>4. CASE HandleFeatures
  BY <1>4, <1>a DEF HandleFeatures, AfterTls, Out, Moves, Keeps, Loses
<1>5. CASE RequestTls
  <2>1. CASE output' = Append(output, Item("starttls")) /\ login' # "GONE"
    <3>1. "starttls" \in Names /\ wire' = wire
      BY <1>5 DEF RequestTls, Names
    <3>2. Out' = Out \o <<Item("starttls")>>
      BY <1>a, <2>1, <3>1, SaysOne
    <3>3. submitted' = submitted /\ queued' = queued /\ login # "GONE"
      BY <1>5, <2>1 DEF RequestTls
    <3>4. QED BY <2>1, <3>1, <3>2, <3>3 DEF Moves, Says
  <2>2. CASE ~(output' = Append(output, Item("starttls")) /\ login' # "GONE")
    BY <1>5, <1>a, <2>2 DEF RequestTls, Out, Moves, Loses
  <2>3. QED BY <2>1, <2>2
<1>6. CASE TlsAnswered
  BY <1>6, <1>a DEF TlsAnswered, Out, Moves, Keeps, Loses
<1>7. CASE RequestBind
  <2>1. CASE output' = Append(output, Item("bind")) /\ login' # "GONE"
    <3>1. "bind" \in Names /\ wire' = wire
      BY <1>7 DEF RequestBind, Names
    <3>2. Out' = Out \o <<Item("bind")>>
      BY <1>a, <2>1, <3>1, SaysOne
    <3>3. submitted' = submitted /\ queued' = queued /\ login # "GONE"
      BY <1>7, <2>1 DEF RequestBind
    <3>4. QED BY <2>1, <3>1, <3>2, <3>3 DEF Moves, Says
  <2>2. CASE ~(output' = Append(output, Item("bind")) /\ login' # "GONE")
    BY <1>7, <1>a, <2>2 DEF RequestBind, TakeId, Out, Moves, Loses
  <2>3. QED BY <2>1, <2>2
<1>8. CASE DropStanza
  BY <1>8, <1>a DEF DropStanza, Out, Moves, Keeps
<1>9. CASE BindAnswered
  <2>1. CASE output' = Append(output, Item("session")) /\ login' # "GONE"
    <3>1. "session" \in Names /\ wire' = wire
      BY <1>9 DEF BindAnswered, Names
    <3>2. Out' = Out \o <<Item("session")>>
      BY <1>a, <2>1, <3>1, SaysOne
    <3>3. submitted' = submitted /\ queued' = queued /\ login # "GONE"
      BY <1>9, <2>1 DEF BindAnswered
    <3>4. QED BY <2>1, <3>1, <3>2, <3>3 DEF Moves, Says
  <2>2. CASE ~(output' = Append(output, Item("session")) /\ login' # "GONE")
    BY <1>9, <1>a, <2>2 DEF BindAnswered, TakeId, Out, Moves, Loses
  <2>3. QED BY <2>1, <2>2
<1>10. ASSUME NEW b \in BOOLEAN, StartSasl(b) PROVE Moves
  <2>1. CASE output' = Append(output, Item("auth")) /\ login' # "GONE"
    <3>1. "auth" \in Names /\ wire' = wire
      BY <1>10 DEF StartSasl, Names
    <3>2. Out' = Out \o <<Item("auth")>>
      BY <1>a, <2>1, <3>1, SaysOne
    <3>3. submitted' = submitted /\ queued' = queued /\ login # "GONE"
      BY <1>10, <2>1 DEF StartSasl
    <3>4. QED BY <2>1, <3>1, <3>2, <3>3 DEF Moves, Says
  <2>2. CASE ~(output' = Append(output, Item("auth")) /\ login' # "GONE")
    BY <1>10, <1>a, <2>2 DEF StartSasl, Out, Moves, Loses
  <2>3. QED BY <2>1, <2>2
<1>11. ASSUME NEW b \in BOOLEAN, SaslStep(b) PROVE Moves
  <2>1. CASE output' = Append(output, Item("response")) /\ login' # "GONE"
    <3>1. "response" \in Names /\ wire' = wire
      BY <1>11 DEF SaslStep, Names
    <3>2. Out' = Out \o <<Item("response")>>
      BY <1>a, <2>1, <3>1, SaysOne
    <3>3. submitted' = submitted /\ queued' = queued /\ login # "GONE"
      BY <1>11, <2>1 DEF SaslStep
    <3>4. QED BY <2>1, <3>1, <3>2, <3>3 DEF Moves, Says
  <2>2. CASE ~(output' = Append(output, Item("response")) /\ login' # "GONE")
    BY <1>11, <1>a, <2>2 DEF SaslStep, Out, Moves, Keeps, Loses
  <2>3. QED BY <2>1, <2>2
<1>12. CASE SessionAnswered
  <2>1. CASE pel.type = "result"
    <3>1. /\ wire' = wire /\ output' = output \o queued /\ queued' = <<>>
          /\ login = "SESSION_REQUESTED" /\ login' = "GONE" /\ submitted' = submitted
          /\ state = "OPENING"
      BY <1>12, <1>a, <2>1 DEF SessionAnswered, FlushQueuedStanzas
    <3>2. wire \in Seq(ItemType) /\ output \in Seq(ItemType) /\ queued \in Seq(ItemType)
      BY DEF TypeOK, IoTypeOK, LoginTypeOK
    <3>3. Out' = Out \o queued
      BY <3>1, <3>2 DEF Out
    <3>4. QED BY <3>1, <3>3 DEF Moves, Flushes
  <2>2. CASE pel.type # "result"
    BY <1>12, <1>a, <2>2 DEF SessionAnswered, Out, Moves, Loses
  <2>3. QED BY <2>1, <2>2
<1>13. QED BY <1>1, <1>2, <1>3, <1>4, <1>5, <1>6, <1>7, <1>8, <1>9, <1>10, <1>11, <1>12 DEF Advance

(* Each step makes one of the moves.                                       *)
LEMMA StepMoves ==
    ASSUME IInv, LoginInv, Next
    PROVE  Moves
<1> USE DEF SignalError, conn_vars, login_vars, io_vars, out_vars, where_vars,
            history_vars, SameLife
<1>a. /\ TypeOK /\ IoTypeOK /\ wire \in Seq(ItemType) /\ output \in Seq(ItemType)
      /\ "end" \in Names /\ "raw" \in Names /\ "error" \in Names
  BY DEF IInv, TypeOK, IoTypeOK, Names
<1>1. ASSUME NEW o \in TlsOption, SetTls(o) PROVE Moves
  BY <1>1 DEF SetTls, Out, Moves, Keeps
<1>2. CASE Connect
  BY <1>2 DEF Connect, Out, Moves, Keeps
<1>3. CASE HandleInput
  BY <1>3 DEF HandleInput, Out, Moves, Keeps
<1>4. CASE RemoveIqHandler
  BY <1>4 DEF RemoveIqHandler, Out, Moves, Keeps
<1>5. ASSUME NEW h \in Handler, NEW l \in Level, AddStanzaHandler(h, l) PROVE Moves
  BY <1>5 DEF AddStanzaHandler, Out, Moves, Keeps
<1>6. ASSUME NEW h \in Handler, RemoveStanzaHandler(h) PROVE Moves
  BY <1>6 DEF RemoveStanzaHandler, Out, Moves, Keeps
<1>7. ASSUME NEW s \in Stanza, IncomingStart(s) PROVE Moves
  BY <1>7 DEF IncomingStart, ToLogin, Out, Moves, Keeps
<1>8. ASSUME NEW s \in Stanza, IncomingStanza(s) PROVE Moves
  BY <1>8 DEF IncomingStanza, ToLogin, Out, Moves, Keeps
<1>9. ASSUME NEW b \in BOOLEAN, IncomingEnd(b) PROVE Moves
  BY <1>9 DEF IncomingEnd, Out, Moves, Keeps
<1>10. CASE IqHandlerReturns
  BY <1>10 DEF IqHandlerReturns, Out, Moves, Keeps
<1>11. CASE CallHandler
  BY <1>11 DEF CallHandler, Out, Moves, Keeps
<1>12. ASSUME NEW b \in BOOLEAN, HandlerReturns(b) PROVE Moves
  BY <1>12 DEF HandlerReturns, Out, Moves, Keeps
<1>13. CASE Return
  <2>1. Out' = Out
    BY <1>13, <1>a, LeaveWritesNothing DEF Return
  <2>2. QED BY <1>13, <2>1 DEF Return, Moves, Keeps
<1>14. ASSUME NEW e \in Errors, ConnectionClosed(e) PROVE Moves
  <2>1. Out' = Out
    BY <1>14, <1>a, LeaveWritesNothing DEF ConnectionClosed
  <2>2. QED BY <1>14, <2>1 DEF ConnectionClosed, Moves, Keeps
<1>15. CASE Disconnect
  <2>1. CASE state = "OPEN"
    <3>1. Leave(state, "CLOSED", Append(output, Item("end")), Outermost)
      BY <1>15, <2>1 DEF Disconnect
    <3>2. Item("end") \in ItemType /\ Append(output, Item("end")) \in Seq(ItemType)
      BY <1>a, ItemIsItem
    <3>3. Out' = wire \o Append(output, Item("end"))
      BY <1>a, <3>1, <3>2, LeaveKeepsOutput
    <3>4. Out' = Out \o <<Item("end")>>
      BY <1>a, <3>2, <3>3 DEF Out
    <3>5. QED BY <1>15, <1>a, <3>4 DEF Disconnect, Moves, Says
  <2>2. CASE state # "OPEN"
    <3>1. Leave(state, "CLOSED", output, Outermost)
      BY <1>15, <2>2 DEF Disconnect
    <3>2. Out' = Out
      BY <1>a, <3>1, LeaveWritesNothing
    <3>3. QED BY <1>15, <3>2 DEF Disconnect, Moves, Keeps
  <2>3. QED BY <2>1, <2>2
<1>16. CASE SendStanza
  BY <1>16, <1>a, SubmitMoves DEF SendStanza
<1>17. ASSUME NEW j \in Jid, SendIq(j) PROVE Moves
  BY <1>17, <1>a, SubmitMoves DEF SendIq
<1>18. CASE SendRaw
  <2>1. Emit(<<Item("raw")>>) /\ <<Item("raw")>> \in Seq(ItemType)
    BY <1>18, ItemIsItem DEF SendRaw
  <2>2. Out' = Out \o <<Item("raw")>>
    BY <1>a, <2>1, EmitWrites
  <2>3. QED BY <1>18, <1>a, <2>2 DEF SendRaw, Moves, Says
<1>19. CASE Unhandled
  <2>1. CASE output' = output
    BY <1>19, <2>1 DEF Unhandled, Out, Moves, Keeps
  <2>2. CASE output' = Append(output, Item("error"))
    <3>1. Out' = Out \o <<Item("error")>>
      BY <1>19, <1>a, <2>2, SaysOne DEF Unhandled
    <3>2. QED BY <1>19, <1>a, <3>1 DEF Unhandled, Moves, Says
  <2>3. QED BY <1>19, <2>1, <2>2 DEF Unhandled
<1>20. CASE Advance
  BY <1>20, <1>a, AdvanceMoves
<1>21. QED BY <1>1, <1>2, <1>3, <1>4, <1>5, <1>6, <1>7, <1>8, <1>9, <1>10, <1>11, <1>12, <1>13, <1>14, <1>15, <1>16, <1>17, <1>18, <1>19, <1>20 DEF Next, Call, Parse, Run

-----------------------------------------------------------------------------
(* Submitted stanzas.                                                      *)

\* The stanzas that have left the queue of the login task.
Flushed == submitted - Len(queued)

\* The order of the stanzas: they wait while the login task lives, and none is
\* written before it has gone.
OrderInv ==
    /\ Len(queued) <= submitted
    /\ queued = [k \in 1 .. Len(queued) |-> App(Flushed + k)]
    /\ login = "GONE" => queued = <<>>
    /\ Written("app") => login = "GONE" /\ Written("session")
    /\ Promise!InOrder(Numbers(Out))
    /\ AtMost(Numbers(Out), Flushed)
    /\ state # "CLOSED" => Complete(Numbers(Out), Flushed)

(* What was written stays written, and what a move adds is known.          *)
LEMMA MovesWrite ==
    ASSUME TypeOK, Moves
    PROVE  /\ \A n : Written(n) => Written(n)'
           /\ ~Sends /\ ~Flushes => (Written("app")' => Written("app"))
<1>1. Out \in Seq(ItemType) /\ queued \in Seq(ItemType) /\ IoTypeOK
  BY DEF TypeOK, IoTypeOK, LoginTypeOK, Out
<1>2. CASE Out' = Out
  BY <1>2, WrittenSame
<1>3. CASE Says
  <2>1. PICK n \in Names : Out' = Out \o <<Item(n)>>
    BY <1>3 DEF Says
  <2>2. <<Item(n)>> \in Seq(ItemType) /\ n # "app"
    BY ItemIsItem DEF Names
  <2>3. \A m : (\E k \in 1 .. Len(<<Item(n)>>) : <<Item(n)>>[k][1] = m) <=> m = n
    BY DEF Item
  <2>4. QED BY <1>1, <2>1, <2>2, <2>3, WrittenGrows
<1>4. CASE Sends
  <2>1. <<App(submitted + 1)>> \in Seq(ItemType)
    BY ItemIsItem DEF TypeOK, ControlTypeOK
  <2>2. QED BY <1>1, <1>4, <2>1, WrittenGrows DEF Sends
<1>5. CASE Flushes
  BY <1>1, <1>5, WrittenGrows DEF Flushes
<1>6. QED BY <1>2, <1>3, <1>4, <1>5 DEF Moves, Keeps, Loses, Waits

(* Each move keeps the stanzas in their order.                             *)
LEMMA MovesKeepOrder ==
    ASSUME TypeOK, LoginInv, OrderInv, Moves, state = "CLOSED" => state' = "CLOSED"
    PROVE  OrderInv'
<1>1. /\ Out \in Seq(ItemType) /\ queued \in Seq(ItemType) /\ IoTypeOK
      /\ submitted \in Nat /\ Len(queued) \in Nat /\ Flushed \in Nat
      /\ Numbers(Out) \in Seq(Nat) /\ Len(Numbers(Out)) = Len(Out)
  <2>1. Out \in Seq(ItemType) /\ queued \in Seq(ItemType) /\ IoTypeOK /\ submitted \in Nat
    BY DEF TypeOK, IoTypeOK, LoginTypeOK, ControlTypeOK, Out
  <2>2. Len(queued) \in Nat
    BY <2>1
  <2>3. QED BY <2>1, <2>2, NumbersType DEF OrderInv, Flushed
<1>2. CASE Keeps
  <2>1. Flushed' = Flushed /\ Numbers(Out)' = Numbers(Out)
    BY <1>2 DEF Keeps, Flushed, Numbers
  <2>2. Written("app")' <=> Written("app")
    BY <1>2, WrittenSame DEF Keeps
  <2>3. Written("session")' <=> Written("session")
    BY <1>2, WrittenSame DEF Keeps
  <2>4. QED BY <1>2, <2>1, <2>2, <2>3 DEF Keeps, SameLife, OrderInv
<1>3. CASE Loses
  <2>1. Flushed' = submitted /\ Numbers(Out)' = Numbers(Out) /\ Len(queued') = 0
    BY <1>1, <1>3 DEF Loses, Flushed, Numbers
  <2>2. (Written("app")' <=> Written("app")) /\ (Written("session")' <=> Written("session"))
    BY <1>3, WrittenSame DEF Loses
  <2>3. AtMost(Numbers(Out)', Flushed')
    BY <1>1, <2>1 DEF OrderInv, AtMost, Flushed
  <2>4. queued' = [k \in 1 .. Len(queued') |-> App(Flushed' + k)]
    BY <1>3, <2>1 DEF Loses
  <2>5. Len(queued') <= submitted'
    BY <1>1, <1>3, <2>1 DEF Loses
  <2>6. QED BY <1>3, <2>1, <2>2, <2>3, <2>4, <2>5 DEF Loses, OrderInv
<1>4. CASE Says
  <2>1. PICK n \in Names : Out' = Out \o <<Item(n)>>
    BY <1>4 DEF Says
  <2>2. <<Item(n)>> \in Seq(ItemType) /\ Len(<<Item(n)>>) = 1 /\ Number(<<Item(n)>>[1]) = 0
    BY ItemIsItem DEF Names, Item, Number
  <2>3. /\ Len(Numbers(Out')) = Len(Out) + 1 /\ Extends(Numbers(Out'), Numbers(Out))
        /\ Numbers(Out')[Len(Out) + 1] = 0 /\ Numbers(Out') \in Seq(Nat)
    <3>1. Out' \in Seq(ItemType) /\ 1 \in 1 .. Len(<<Item(n)>>)
      BY <1>1, <2>1, <2>2
    <3>2. QED BY <1>1, <2>1, <2>2, <3>1, NumbersConcat, NumbersType
  <2>4. \A i \in Len(Numbers(Out)) + 1 .. Len(Numbers(Out')) : Numbers(Out')[i] = 0
    BY <1>1, <2>3
  <2>5. /\ Promise!InOrder(Numbers(Out')) /\ AtMost(Numbers(Out'), Flushed)
        /\ state # "CLOSED" => Complete(Numbers(Out'), Flushed)
    BY <1>1, <2>3, <2>4, ZerosInOrder DEF OrderInv
  <2>6. Flushed' = Flushed /\ Numbers(Out)' = Numbers(Out')
    BY <1>4 DEF Says, Flushed, Numbers
  <2>7. (Written("app")' => Written("app")) /\ (Written("session") => Written("session")')
    <3>1. ~Sends /\ ~Flushes
      BY <1>1, <1>4 DEF Says, Sends, Flushes, SameLife
    <3>2. QED BY <3>1, MovesWrite
  <2>8. QED BY <1>4, <2>5, <2>6, <2>7 DEF Says, SameLife, OrderInv
<1>5. CASE Sends
  <2>1. queued = <<>> /\ Flushed = submitted /\ state # "CLOSED" /\ Len(queued) = 0
    BY <1>1, <1>5 DEF Sends, OrderInv, Flushed
  <2>2. /\ <<App(submitted + 1)>> \in Seq(ItemType) /\ Len(<<App(submitted + 1)>>) = 1
        /\ Number(<<App(submitted + 1)>>[1]) = submitted + 1
    BY <1>1, ItemIsItem DEF App, Number
  <2>3. /\ Len(Numbers(Out')) = Len(Out) + 1 /\ Extends(Numbers(Out'), Numbers(Out))
        /\ Numbers(Out')[Len(Out) + 1] = submitted + 1 /\ Numbers(Out') \in Seq(Nat)
    <3>1. Out' \in Seq(ItemType) /\ 1 \in 1 .. Len(<<App(submitted + 1)>>)
      BY <1>1, <1>5, <2>2 DEF Sends
    <3>2. QED BY <1>1, <1>5, <2>2, <3>1, NumbersConcat, NumbersType DEF Sends
  <2>4. \A k \in 1 .. 1 : Numbers(Out')[Len(Numbers(Out)) + k] = Flushed + k
    BY <1>1, <2>1, <2>3
  <2>5. /\ Promise!InOrder(Numbers(Out')) /\ AtMost(Numbers(Out'), Flushed + 1)
        /\ Complete(Numbers(Out'), Flushed + 1)
    <3>1. /\ Promise!InOrder(Numbers(Out)) /\ AtMost(Numbers(Out), Flushed)
          /\ Complete(Numbers(Out), Flushed)
      BY <2>1 DEF OrderInv
    <3>2. Numbers(Out) \in Seq(Nat) /\ Flushed \in Nat /\ Len(Numbers(Out)) = Len(Out)
      BY <1>1
    <3>3. QED BY <2>3, <2>4, <3>1, <3>2, CountingInOrder
  <2>6. Flushed' = Flushed + 1 /\ Numbers(Out)' = Numbers(Out') /\ queued' = <<>>
    BY <1>1, <1>5, <2>1 DEF Sends, Flushed, Numbers
  <2>7. Written("session")'
    <3>1. Written("session")
      BY <1>5 DEF Sends, LoginInv, AuthInv
    <3>2. QED BY <3>1, MovesWrite
  <2>8. queued' = [k \in 1 .. Len(queued') |-> App(Flushed' + k)] /\ Len(queued') = 0
    BY <2>6
  <2>9. QED BY <1>1, <1>5, <2>1, <2>5, <2>6, <2>7, <2>8 DEF Sends, OrderInv
<1>6. CASE Waits
  <2>1. Len(queued') = Len(queued) + 1 /\ submitted' = submitted + 1
    BY <1>1, <1>6 DEF Waits
  <2>2. Flushed' = Flushed /\ Numbers(Out)' = Numbers(Out) /\ submitted = Flushed + Len(queued)
    BY <1>1, <1>6, <2>1 DEF Waits, Flushed, Numbers
  <2>3. queued' = [k \in 1 .. Len(queued') |-> App(Flushed' + k)]
    <3>1. App(submitted + 1) = App(Flushed + (Len(queued) + 1))
      BY <1>1, <2>2
    <3>2. queued = [k \in 1 .. Len(queued) |-> App(Flushed + k)]
      BY DEF OrderInv
    <3>3. queued' = Append([k \in 1 .. Len(queued) |-> App(Flushed + k)],
                           App(Flushed + (Len(queued) + 1)))
      BY <1>6, <3>1, <3>2 DEF Waits
    <3>4. ASSUME NEW n \in Nat
          PROVE  Append([k \in 1 .. n |-> App(Flushed + k)], App(Flushed + (n + 1)))
                     = [k \in 1 .. n + 1 |-> App(Flushed + k)]
      OBVIOUS
    <3>5. QED BY <1>1, <2>1, <2>2, <3>3, <3>4
  <2>4. (Written("app")' <=> Written("app")) /\ (Written("session")' <=> Written("session"))
    BY <1>6, WrittenSame DEF Waits
  <2>5. Len(queued') <= submitted'
    BY <1>1, <2>1 DEF OrderInv
  <2>6. QED BY <1>6, <2>2, <2>3, <2>4, <2>5 DEF Waits, OrderInv
<1>7. CASE Flushes
  <2>1. /\ Len(Numbers(Out')) = Len(Out) + Len(queued) /\ Extends(Numbers(Out'), Numbers(Out))
        /\ \A k \in 1 .. Len(queued) : Numbers(Out')[Len(Out) + k] = Number(queued[k])
        /\ Numbers(Out') \in Seq(Nat)
    <3>1. Out' = Out \o queued /\ Out' \in Seq(ItemType)
      BY <1>1, <1>7 DEF Flushes
    <3>2. QED BY <1>1, <3>1, NumbersConcat, NumbersType
  <2>2. \A k \in 1 .. Len(queued) : Number(queued[k]) = Flushed + k
    <3>1. \A k \in 1 .. Len(queued) : queued[k] = App(Flushed + k)
      BY <1>1 DEF OrderInv
    <3>2. QED BY <3>1 DEF App, Number
  <2>3. \A k \in 1 .. Len(queued) : Numbers(Out')[Len(Numbers(Out)) + k] = Flushed + k
    BY <1>1, <2>1, <2>2
  <2>4. state # "CLOSED"
    BY <1>7 DEF Flushes
  <2>5. /\ Promise!InOrder(Numbers(Out')) /\ AtMost(Numbers(Out'), Flushed + Len(queued))
        /\ Complete(Numbers(Out'), Flushed + Len(queued))
    BY <1>1, <2>1, <2>3, <2>4, CountingInOrder DEF OrderInv
  <2>6. /\ Flushed' = Flushed + Len(queued) /\ Numbers(Out)' = Numbers(Out')
        /\ queued' = <<>> /\ Len(queued') = 0
    BY <1>1, <1>7 DEF Flushes, Flushed, Numbers
  <2>7. Written("session")'
    <3>1. Written("session")
      BY <1>7 DEF Flushes, LoginInv, AuthInv
    <3>2. QED BY <3>1, MovesWrite
  <2>8. queued' = [k \in 1 .. Len(queued') |-> App(Flushed' + k)]
    BY <2>6
  <2>9. QED BY <1>1, <1>7, <2>5, <2>6, <2>7, <2>8 DEF Flushes, OrderInv
<1>8. QED BY <1>2, <1>3, <1>4, <1>5, <1>6, <1>7 DEF Moves

-----------------------------------------------------------------------------
(* What the application is told, and when the connection is closed.        *)

Rank == [START |-> 0, OPENING |-> 1, OPEN |-> 2, CLOSED |-> 3]

\* The state the application was told last: the one in which the guard was
\* entered, while the engine runs.
Reported == IF pc = "idle" THEN state ELSE frame

\* The guard saves a state that is not yet closed, the connection is closed with
\* the output handler, and each state told is later than those told before.
TellInv ==
    /\ pc = "idle" <=> frame = "none"
    /\ frame # "CLOSED"
    /\ closes = IF output_handler THEN 0 ELSE 1
    /\ pc = "idle" /\ state = "CLOSED" => ~output_handler
    /\ pc # "idle" => Rank[frame] <= Rank[state]
    /\ \A i \in 1 .. Len(notified) : Rank[notified[i]] <= Rank[Reported]
    /\ Reported = IF notified = <<>> THEN "START" ELSE notified[Len(notified)]

\* How the state changes.
Climbs ==
    /\ state' \in {state} \union Promise!After[state]
    /\ error' # error => state # "CLOSED" /\ state' = "CLOSED"

Quiet == UNCHANGED <<output_handler, wire, closes, notified>>

\* A step enters the guard, ...
Enters ==
    /\ pc = "idle" /\ pc' # "idle" /\ frame' = state /\ state # "CLOSED"
    /\ Quiet

\* ... goes on inside of it, ...
Goes == pc # "idle" /\ pc' # "idle" /\ frame' = frame /\ Quiet

\* ... leaves it, ...
Returns ==
    /\ pc' = "idle" /\ frame' = "none"
    /\ \E out : Leave(Reported, state', out, TRUE)

\* ... is a call from a callback ...
Nests ==
    /\ pc # "idle" /\ pc' # "idle" /\ frame' = frame
    /\ \E out : Leave(state, state', out, FALSE)

\* ... or one that needs no guard.
Bypasses ==
    /\ pc = "idle" /\ pc' = "idle" /\ frame' = frame
    /\ state' = state /\ output' = output /\ Quiet

Shape == Enters \/ Goes \/ Returns \/ Nests \/ Bypasses

(* A call that may be made from outside or from a callback.                *)
LEMMA CallShape ==
    ASSUME ControlTypeOK, TellInv, NEW out, Leave(state, state', out, Outermost),
           pc' = pc, frame' = frame
    PROVE  Shape
<1>1. CASE pc = "idle"
  <2>1. Outermost = TRUE /\ Reported = state /\ frame = "none"
    BY <1>1 DEF Outermost, Reported, TellInv
  <2>2. QED BY <1>1, <2>1 DEF Shape, Returns
<1>2. CASE pc # "idle"
  <2>1. Outermost = FALSE
    BY <1>2 DEF Outermost
  <2>2. QED BY <1>2, <2>1 DEF Shape, Nests
<1>3. QED BY <1>1, <1>2

(* Each step has one of the shapes, and the state climbs.                  *)
LEMMA StepShape ==
    ASSUME IInv, LoginInv, TellInv, Next
    PROVE  Shape /\ Climbs
<1> USE DEF SignalError, conn_vars, login_vars, io_vars, out_vars, where_vars,
            history_vars, Climbs, Quiet
<1>a. /\ ControlTypeOK /\ TypeOK /\ state \in States
      /\ pc = "login" => state = "OPENING"
      /\ pc = "idle" <=> frame = "none"
  BY DEF IInv, TypeOK, ControlTypeOK, LoginInv, ControlInv, TellInv
<1>b. Promise!After = [START |-> {"OPENING", "CLOSED"}, OPENING |-> {"OPEN", "CLOSED"},
                       OPEN |-> {"CLOSED"}, CLOSED |-> {}]
  BY DEF Promise!After
<1>c. "CLOSED" \in {state} \union Promise!After[state]
  BY <1>a, <1>b DEF States
<1>1. ASSUME NEW o \in TlsOption, SetTls(o) PROVE Shape /\ Climbs
  <2>1. Climbs
    BY <1>1, <1>a, <1>b, <1>c DEF SetTls, Outermost
  <2>2. Shape
    BY <1>1, <1>a DEF SetTls, Outermost, Shape, Bypasses
  <2>3. QED BY <2>1, <2>2
<1>2. CASE Connect
  <2>1. Climbs
    BY <1>2, <1>a, <1>b, <1>c DEF Connect, Outermost
  <2>2. Shape
    BY <1>2, <1>a DEF Connect, Outermost, Shape, Enters
  <2>3. QED BY <2>1, <2>2
<1>3. CASE HandleInput
  <2>1. Climbs
    BY <1>3, <1>a, <1>b, <1>c DEF HandleInput, Outermost
  <2>2. Shape
    BY <1>3, <1>a DEF HandleInput, Outermost, Shape, Enters
  <2>3. QED BY <2>1, <2>2
<1>4. CASE RemoveIqHandler
  <2>1. Climbs
    BY <1>4, <1>a, <1>b, <1>c DEF RemoveIqHandler
  <2>2. Shape
    BY <1>4, <1>a DEF RemoveIqHandler, Shape, Goes, Bypasses
  <2>3. QED BY <2>1, <2>2
<1>5. ASSUME NEW h \in Handler, NEW l \in Level, AddStanzaHandler(h, l) PROVE Shape /\ Climbs
  <2>1. Climbs
    BY <1>5, <1>a, <1>b, <1>c DEF AddStanzaHandler
  <2>2. Shape
    BY <1>5, <1>a DEF AddStanzaHandler, Shape, Goes, Bypasses
  <2>3. QED BY <2>1, <2>2
<1>6. ASSUME NEW h \in Handler, RemoveStanzaHandler(h) PROVE Shape /\ Climbs
  <2>1. Climbs
    BY <1>6, <1>a, <1>b, <1>c DEF RemoveStanzaHandler
  <2>2. Shape
    BY <1>6, <1>a DEF RemoveStanzaHandler, Shape, Goes, Bypasses
  <2>3. QED BY <2>1, <2>2
<1>7. ASSUME NEW s \in Stanza, IncomingStart(s) PROVE Shape /\ Climbs
  <2>1. Climbs
    BY <1>7, <1>a, <1>b, <1>c DEF IncomingStart, Parsing, ToLogin
  <2>2. Shape
    BY <1>7, <1>a DEF IncomingStart, Parsing, ToLogin, Shape, Goes
  <2>3. QED BY <2>1, <2>2
<1>8. ASSUME NEW s \in Stanza, IncomingStanza(s) PROVE Shape /\ Climbs
  <2>1. Climbs
    BY <1>8, <1>a, <1>b, <1>c DEF IncomingStanza, Parsing, ToLogin, CallIqHandler, Called, Dispatch
  <2>2. Shape
    BY <1>8, <1>a DEF IncomingStanza, Parsing, ToLogin, CallIqHandler, Called, Dispatch, Shape, Goes
  <2>3. QED BY <2>1, <2>2
<1>9. ASSUME NEW b \in BOOLEAN, IncomingEnd(b) PROVE Shape /\ Climbs
  <2>1. Climbs
    BY <1>9, <1>a, <1>b, <1>c DEF IncomingEnd
  <2>2. Shape
    BY <1>9, <1>a DEF IncomingEnd, Shape, Goes
  <2>3. QED BY <2>1, <2>2
<1>10. CASE IqHandlerReturns
  <2>1. Climbs
    BY <1>10, <1>a, <1>b, <1>c DEF IqHandlerReturns
  <2>2. Shape
    BY <1>10, <1>a DEF IqHandlerReturns, Shape, Goes
  <2>3. QED BY <2>1, <2>2
<1>11. CASE CallHandler
  <2>1. Climbs
    BY <1>11, <1>a, <1>b, <1>c DEF CallHandler
  <2>2. Shape
    BY <1>11, <1>a DEF CallHandler, Shape, Goes
  <2>3. QED BY <2>1, <2>2
<1>12. ASSUME NEW b \in BOOLEAN, HandlerReturns(b) PROVE Shape /\ Climbs
  <2>1. Climbs
    BY <1>12, <1>a, <1>b, <1>c DEF HandlerReturns
  <2>2. Shape
    BY <1>12, <1>a DEF HandlerReturns, Shape, Goes
  <2>3. QED BY <2>1, <2>2
<1>13. CASE Unhandled
  <2>1. Climbs
    BY <1>13, <1>a, <1>b, <1>c DEF Unhandled
  <2>2. Shape
    BY <1>13, <1>a DEF Unhandled, Shape, Goes
  <2>3. QED BY <2>1, <2>2
<1>14. CASE Return
  <2>1. Reported = frame /\ state' = state
    BY <1>14 DEF Return, Reported
  <2>2. Shape
    BY <1>14, <2>1 DEF Return, Shape, Returns
  <2>3. QED BY <1>14, <2>2 DEF Return
<1>15. ASSUME NEW e \in Errors, ConnectionClosed(e) PROVE Shape /\ Climbs
  <2>1. Leave(state, state', output, TRUE) /\ pc = "idle" /\ Reported = state
    BY <1>15 DEF ConnectionClosed, Outermost, Reported
  <2>2. Shape
    BY <1>15, <1>a, <2>1 DEF ConnectionClosed, Shape, Returns
  <2>3. QED BY <1>15, <1>c, <2>2 DEF ConnectionClosed
<1>16. CASE Disconnect
  <2>1. Shape
    BY <1>16, <1>a, CallShape DEF Disconnect
  <2>2. QED BY <1>16, <1>c, <2>1 DEF Disconnect
<1>17. ASSUME NEW items, Emit(items), UNCHANGED where_vars PROVE Shape /\ Climbs
  <2>1. Leave(state, state', output \o items, Outermost)
    BY <1>17 DEF Emit
  <2>2. Shape
    BY <1>17, <1>a, <2>1, CallShape
  <2>3. QED BY <1>17, <2>2 DEF Emit
<1>18. CASE SendStanza
  BY <1>18, <1>17 DEF SendStanza, Submit
<1>19. ASSUME NEW j \in Jid, SendIq(j) PROVE Shape /\ Climbs
  BY <1>19, <1>17 DEF SendIq, Submit
<1>20. CASE SendRaw
  BY <1>20, <1>17 DEF SendRaw
<1>21. CASE Advance
  <2> USE DEF InLogin, Has, Wait, Failure, Continue, LoginFrame
  <2>1. pc = "login" /\ pc' # "idle" /\ frame' = frame /\ Quiet
    BY <1>21 DEF Advance, StartStream, NoStanza, StreamStarted, HandleFeatures, RequestTls,
       TlsAnswered, RequestBind, DropStanza, BindAnswered, SessionAnswered,
       StartSasl, SaslStep
  <2>2. Shape
    BY <2>1 DEF Shape, Goes
  <2>3. state' \in {"OPENING", "OPEN", "CLOSED"} /\ (error' # error => state' = "CLOSED")
    BY <1>21, <1>a, <2>1 DEF Advance, StartStream, NoStanza, StreamStarted, HandleFeatures,
       RequestTls, TlsAnswered, RequestBind, DropStanza, BindAnswered,
       SessionAnswered, StartSasl, SaslStep
  <2>4. Climbs
    BY <1>a, <1>b, <2>1, <2>3
  <2>5. QED BY <2>2, <2>4
<1>22. QED BY <1>1, <1>2, <1>3, <1>4, <1>5, <1>6, <1>7, <1>8, <1>9, <1>10, <1>11, <1>12, <1>13, <1>14, <1>15, <1>16, <1>18, <1>19, <1>20, <1>21 DEF Next, Call, Parse, Run

(* Ranks tell states apart.                                                *)
LEMMA RankOrder ==
    /\ \A s \in States : Rank[s] \in 0 .. 3
    /\ \A s, t \in States : Rank[s] = Rank[t] => s = t
    /\ \A s \in States : \A t \in {s} \union Promise!After[s] : Rank[s] <= Rank[t]
BY DEF Rank, States, Promise!After

(* Leaving the guard as the outermost: the state is told unless it was.    *)
LEMMA ReturnTells ==
    ASSUME TypeOK, TellInv, state' \in States, Rank[Reported] <= Rank[state'],
           frame' = "none", pc' = "idle", ~output_handler => state = "CLOSED",
           Climbs, NEW out, Leave(Reported, state', out, TRUE)
    PROVE  TellInv'
<1>1. /\ output_handler \in BOOLEAN /\ notified \in Seq(States) /\ Reported \in States
      /\ Reported' = state' /\ (pc # "idle" => Reported # "CLOSED")
  BY DEF TypeOK, IoTypeOK, ControlTypeOK, Reported, TellInv
<1> DEFINE closing == state' # Reported /\ state' = "CLOSED"
<1>2. /\ output_handler' = (output_handler /\ ~closing)
      /\ closes' = IF output_handler /\ closing THEN closes + 1 ELSE closes
      /\ notified' = IF state' # Reported THEN Append(notified, state') ELSE notified
  BY DEF Leave, LetGo, Report
<1>3. closes' = IF output_handler' THEN 0 ELSE 1
  <2>1. CASE output_handler /\ closing
    <3>1. (output_handler /\ ~closing) = FALSE
      BY <2>1, Zenon
    <3>2. closes = 0
      BY <2>1 DEF TellInv
    <3>3. output_handler' = FALSE
      BY <1>2, <3>1
    <3>4. closes' = 1
      BY <1>2, <2>1, <3>2
    <3>5. QED BY <3>3, <3>4
  <2>2. CASE ~(output_handler /\ closing)
    <3>1. (output_handler /\ ~closing) = output_handler
      BY <1>1, <2>2, Zenon
    <3>2. QED BY <1>2, <2>2, <3>1 DEF TellInv
  <2>3. QED BY <2>1, <2>2
<1>4. state' = "CLOSED" => ~output_handler'
  <2> SUFFICES ASSUME state' = "CLOSED" PROVE ~output_handler'
    OBVIOUS
  <2>1. CASE state' # Reported
    BY <1>2, <2>1
  <2>2. CASE state' = Reported
    <3>1. pc = "idle" /\ state = "CLOSED"
      BY <1>1, <2>2 DEF Reported
    <3>2. QED BY <1>2, <3>1 DEF TellInv
  <2>3. QED BY <2>1, <2>2
<1>5. \A i \in 1 .. Len(notified') : Rank[notified'[i]] <= Rank[Reported']
  <2>1. \A i \in 1 .. Len(notified) : Rank[notified[i]] <= Rank[state']
    <3> SUFFICES ASSUME NEW i \in 1 .. Len(notified) PROVE Rank[notified[i]] <= Rank[state']
      OBVIOUS
    <3>1. notified[i] \in States
      BY <1>1
    <3>2. Rank[notified[i]] <= Rank[Reported]
      BY DEF TellInv
    <3>3. QED BY <1>1, <3>1, <3>2, RankOrder
  <2>2. CASE notified' = notified
    BY <1>1, <2>1, <2>2
  <2>3. CASE notified' = Append(notified, state')
    <3>1. \A i \in 1 .. Len(notified') : notified'[i] = state' \/
              (i \in 1 .. Len(notified) /\ notified'[i] = notified[i])
      BY <1>1, <2>3
    <3>2. Rank[state'] <= Rank[state']
      BY RankOrder
    <3>3. QED BY <1>1, <2>1, <3>1, <3>2
  <2>4. QED BY <1>2, <2>2, <2>3
<1>6. Reported' = IF notified' = <<>> THEN "START" ELSE notified'[Len(notified')]
  <2>1. CASE state' = Reported
    BY <1>1, <1>2, <2>1 DEF TellInv
  <2>2. CASE state' # Reported
    BY <1>1, <1>2, <2>2
  <2>3. QED BY <2>1, <2>2
<1>7. QED BY <1>3, <1>4, <1>5, <1>6 DEF TellInv

(* Each step keeps what the application has been told in step.             *)
LEMMA StepTells ==
    ASSUME IInv, LoginInv, TellInv, Next, state' \in States
    PROVE  TellInv'
<1>1. /\ TypeOK /\ state \in States /\ frame \in States \union {"none"}
      /\ notified \in Seq(States) /\ output_handler \in BOOLEAN
      /\ ~output_handler => state = "CLOSED"
  BY DEF IInv, TypeOK, ControlTypeOK, IoTypeOK, LoginInv, ControlInv
<1>2. Shape /\ Climbs
  BY StepShape
<1>3. Rank[state] \in 0 .. 3 /\ Rank[state'] \in 0 .. 3 /\ Rank[state] <= Rank[state']
  BY <1>1, <1>2, RankOrder DEF Climbs
<1>4. pc # "idle" => frame \in States /\ Rank[frame] \in 0 .. 3
  BY <1>1, RankOrder DEF TellInv
<1>5. CASE Enters
  <2>1. Reported' = Reported /\ frame' = state
    BY <1>5 DEF Enters, Reported
  <2>2. frame' # "none" /\ frame' # "CLOSED"
    BY <1>1, <1>5 DEF Enters, States
  <2>3. QED BY <1>3, <1>5, <2>1, <2>2 DEF Enters, Quiet, TellInv
<1>6. CASE Goes
  <2>1. Reported' = Reported
    BY <1>6 DEF Goes, Reported
  <2>2. pc' # "idle" => Rank[frame'] <= Rank[state']
    BY <1>3, <1>4, <1>6 DEF Goes, TellInv
  <2>3. QED BY <1>6, <2>1, <2>2 DEF Goes, Quiet, TellInv
<1>7. CASE Returns
  <2>1. Rank[Reported] <= Rank[state']
    BY <1>3, <1>4 DEF Reported, TellInv
  <2>2. PICK out : Leave(Reported, state', out, TRUE)
    BY <1>7 DEF Returns
  <2>3. QED BY <1>1, <1>2, <1>7, <2>1, <2>2, ReturnTells DEF Returns
<1>8. CASE Nests
  <2>1. Reported' = Reported
    BY <1>8 DEF Nests, Reported
  <2>2. PICK out : Leave(state, state', out, FALSE)
    BY <1>8 DEF Nests
  <2>3. notified' = notified
    BY <2>2 DEF Leave, Report
  <2>4. closes' = IF output_handler' THEN 0 ELSE 1
    <3> DEFINE closing == state' # state /\ state' = "CLOSED"
    <3>1. /\ output_handler' = (output_handler /\ ~closing)
          /\ closes' = IF output_handler /\ closing THEN closes + 1 ELSE closes
      BY <2>2 DEF Leave, LetGo
    <3>2. CASE output_handler /\ closing
      <4>1. (output_handler /\ ~closing) = FALSE
        BY <3>2, Zenon
      <4>2. closes = 0
        BY <3>2 DEF TellInv
      <4>3. output_handler' = FALSE
        BY <3>1, <4>1
      <4>4. closes' = 1
        BY <3>1, <3>2, <4>2
      <4>5. QED BY <4>3, <4>4
    <3>3. CASE ~(output_handler /\ closing)
      <4>1. (output_handler /\ ~closing) = output_handler
        BY <1>1, <3>3, Zenon
      <4>2. QED BY <3>1, <3>3, <4>1 DEF TellInv
    <3>4. QED BY <3>2, <3>3
  <2>5. pc' # "idle" => Rank[frame'] <= Rank[state']
    BY <1>3, <1>4, <1>8 DEF Nests, TellInv
  <2>6. QED BY <1>8, <2>1, <2>3, <2>4, <2>5 DEF Nests, TellInv
<1>9. CASE Bypasses
  <2>1. Reported' = Reported
    BY <1>9 DEF Bypasses, Reported
  <2>2. QED BY <1>9, <2>1 DEF Bypasses, Quiet, TellInv
<1>10. QED BY <1>2, <1>5, <1>6, <1>7, <1>8, <1>9 DEF Shape

-----------------------------------------------------------------------------
(* The session.                                                            *)

\* Between calls nothing that was written waits for the wire.
IdleInv == pc = "idle" /\ state # "CLOSED" => output = <<>>

SessionInv == IInv /\ LoginInv /\ TellInv /\ OrderInv /\ IdleInv

LEMMA InitSession == Init => SessionInv
<1> SUFFICES ASSUME Init PROVE SessionInv
  OBVIOUS
<1>1. IInv /\ LoginInv
  BY InitType, InitLogin
<1>2. TellInv
  BY DEF Init, TellInv, Rank, Reported
<1>3. Out = <<>> /\ Flushed = 0
  <2>1. Out = <<>>
    BY DEF Init, Out
  <2>2. submitted = 0 /\ Len(queued) = 0
    BY DEF Init
  <2>3. QED BY <2>1, <2>2 DEF Flushed
<1>4. Numbers(Out) = <<>> /\ \A n : ~Written(n)
  BY <1>3 DEF Numbers, Written
<1>5. queued = <<>> /\ Len(queued) = 0 /\ submitted = 0 /\ login = "INIT"
  BY DEF Init
<1>6. queued = [k \in 1 .. Len(queued) |-> App(Flushed + k)]
  BY <1>5
<1>7. OrderInv
  BY <1>3, <1>4, <1>5, <1>6 DEF OrderInv, AtMost, Complete, Promise!InOrder
<1>8. IdleInv
  BY DEF Init, IdleInv
<1>9. QED BY <1>1, <1>2, <1>7, <1>8 DEF SessionInv

(* Each step keeps the session.                                            *)
LEMMA StepKeepsSession ==
    ASSUME SessionInv, Next
    PROVE  SessionInv'
<1>1. IInv /\ LoginInv /\ TellInv /\ OrderInv /\ IdleInv /\ TypeOK /\ output_handler \in BOOLEAN
  BY DEF SessionInv, IInv, TypeOK, IoTypeOK
<1>2. IInv' /\ LoginInv'
  BY <1>1, StepType, StepKeepsLogin
<1>3. state' \in States
  BY <1>2 DEF IInv, TypeOK, ControlTypeOK
<1>4. TellInv'
  BY <1>1, <1>3, StepTells
<1>5. Shape /\ Climbs
  BY <1>1, StepShape
<1>6. state = "CLOSED" => state' = "CLOSED"
  BY <1>5 DEF Climbs, Promise!After
<1>7. OrderInv'
  BY <1>1, <1>6, StepMoves, MovesKeepOrder
<1>8. IdleInv'
  <2> SUFFICES ASSUME pc' = "idle", state' # "CLOSED" PROVE output' = <<>>
    BY DEF IdleInv
  <2>1. state # "CLOSED"
    BY <1>6
  <2>2. output_handler
    BY <1>1, <2>1 DEF LoginInv, ControlInv
  <2>3. CASE Returns
    <3>1. PICK out : Leave(Reported, state', out, TRUE)
      BY <2>3 DEF Returns
    <3>2. QED BY <2>2, <3>1 DEF Leave
  <2>4. CASE Bypasses
    BY <1>1, <2>1, <2>4 DEF Bypasses, IdleInv
  <2>5. QED BY <1>5, <2>3, <2>4 DEF Shape, Enters, Goes, Nests
<1>9. QED BY <1>2, <1>4, <1>7, <1>8 DEF SessionInv

(* SessionInv is an invariant of the specification.                        *)
THEOREM SessionHolds == Spec => []SessionInv
<1>1. SessionInv /\ UNCHANGED vars => SessionInv'
  <2> SUFFICES ASSUME SessionInv, UNCHANGED vars PROVE SessionInv'
    OBVIOUS
  <2> USE DEF vars, conn_vars, login_vars, io_vars, out_vars, reg_vars, where_vars,
              call_vars, history_vars
  <2>1. \A n : Written(n)' <=> Written(n)
    BY WrittenSame DEF Out
  <2>2. IInv'
    BY DEF SessionInv, IInv, TypeOK, HandlerInRange, LoginTypeOK, IoTypeOK,
           DispatchTypeOK, ControlTypeOK
  <2>3. LoginInv'
    BY <2>1 DEF SessionInv, LoginInv, ControlInv, TlsInv, AuthInv, ResetInv
  <2>4. TellInv' /\ IdleInv'
    BY DEF SessionInv, TellInv, IdleInv, Reported
  <2>5. Out' = Out /\ Flushed' = Flushed
    BY DEF Out, Flushed
  <2>6. OrderInv'
    BY <2>1, <2>5 DEF SessionInv, OrderInv, Numbers
  <2>7. QED BY <2>2, <2>3, <2>4, <2>6 DEF SessionInv
<1>2. QED BY <1>1, InitSession, StepKeepsSession, PTL DEF Spec

(* A stanza that was submitted waits for the login, or reaches the stream  *)
(* once and in its order, and none is lost before the engine is closed     *)
(* (SendStanza, FlushQueuedStanzas, ~EnterExit).                           *)
THEOREM StanzasAreInOrder == Spec => []SubmittedInOrder
<1>1. SessionInv => SubmittedInOrder
  <2> SUFFICES ASSUME SessionInv PROVE SubmittedInOrder
    OBVIOUS
  <2>1. OrderInv /\ IdleInv
    BY DEF SessionInv
  <2>2. AtMost(Numbers(Out), submitted - Len(queued))
    BY <2>1 DEF OrderInv, Flushed
  <2>3. state # "CLOSED" => Complete(Numbers(Out), submitted - Len(queued))
    BY <2>1 DEF OrderInv, Flushed
  <2>4. queued = [k \in 1 .. Len(queued) |-> App((submitted - Len(queued)) + k)]
    BY <2>1 DEF OrderInv, Flushed
  <2>5. QED BY <2>1, <2>2, <2>3, <2>4 DEF SubmittedInOrder, OrderInv, IdleInv, AtMost, Complete
<1>2. QED BY <1>1, SessionHolds, PTL

(* What reaches the wire: the output as it was, or all of it.              *)
LEMMA WireGrows ==
    ASSUME SessionInv, SessionInv', Shape, Moves
    PROVE  /\ wire' = wire \/ (wire' = Out' /\ output_handler)
           /\ Extends(Numbers(Out'), Numbers(wire')) /\ Extends(Numbers(wire'), Numbers(wire))
<1>1. /\ wire \in Seq(ItemType) /\ output \in Seq(ItemType) /\ output_handler \in BOOLEAN
      /\ wire' \in Seq(ItemType) /\ output' \in Seq(ItemType) /\ queued \in Seq(ItemType)
      /\ submitted \in Nat
  BY DEF SessionInv, IInv, TypeOK, IoTypeOK, LoginTypeOK, ControlTypeOK
<1>2. wire' = wire \/ (wire' = Out' /\ output_handler)
  <2>1. ASSUME NEW entry, NEW out, NEW outermost, Leave(entry, state', out, outermost)
        PROVE  wire' = wire \/ (wire' = Out' /\ output_handler)
    <3>1. wire' = wire \/ (output' = <<>> /\ output_handler)
      BY <2>1 DEF Leave
    <3>2. QED BY <1>1, <3>1 DEF Out
  <2>2. QED BY <2>1 DEF Shape, Enters, Goes, Returns, Nests, Bypasses, Quiet
<1>3. Out' = wire' \o output' /\ Out = wire \o output /\ Out \in Seq(ItemType)
  BY <1>1 DEF Out
<1>4. Extends(Numbers(Out'), Numbers(wire'))
  BY <1>1, <1>3, NumbersConcat
<1>5. Extends(Numbers(Out), Numbers(wire))
  BY <1>1, <1>3, NumbersConcat
<1>6. \E items \in Seq(ItemType) : Out' = Out \o items
  <2>1. CASE Out' = Out
    <3>1. Out' = Out \o <<>> /\ <<>> \in Seq(ItemType)
      BY <1>3, <2>1
    <3>2. QED BY <3>1
  <2>2. CASE Says
    <3>1. PICK n \in Names : Out' = Out \o <<Item(n)>>
      BY <2>2 DEF Says
    <3>2. <<Item(n)>> \in Seq(ItemType)
      BY ItemIsItem DEF Names
    <3>3. QED BY <3>1, <3>2
  <2>3. CASE Sends
    <3>1. <<App(submitted + 1)>> \in Seq(ItemType)
      BY <1>1, ItemIsItem
    <3>2. QED BY <2>3, <3>1 DEF Sends
  <2>4. CASE Flushes
    BY <1>1, <2>4 DEF Flushes
  <2>5. QED BY <2>1, <2>2, <2>3, <2>4 DEF Moves, Keeps, Loses, Waits
<1>7. Extends(Numbers(Out'), Numbers(Out))
  BY <1>3, <1>6, NumbersConcat
<1>8. Extends(Numbers(wire'), Numbers(wire))
  <2>1. CASE wire' = wire
    <3>1. Len(Numbers(wire)) \in Nat
      BY <1>1, NumbersType
    <3>2. QED BY <2>1, <3>1 DEF Extends
  <2>2. CASE wire' = Out'
    <3>1. Len(Numbers(wire)) \in Nat /\ Len(Numbers(Out)) \in Nat /\ Len(Numbers(Out')) \in Nat
      BY <1>1, <1>3, NumbersType
    <3>2. \A i \in 1 .. Len(Numbers(wire)) : i \in 1 .. Len(Numbers(Out))
      BY <1>5, <3>1 DEF Extends
    <3>3. QED BY <1>5, <1>7, <2>2, <3>1, <3>2 DEF Extends
  <2>3. QED BY <1>2, <2>1, <2>2
<1>9. QED BY <1>2, <1>4, <1>8

(* Each step is one that Session allows.                                   *)
LEMMA StepImplements ==
    ASSUME SessionInv, Next
    PROVE  Promise!Next
<1>1. /\ SessionInv' /\ IInv /\ LoginInv /\ TellInv /\ TypeOK
      /\ IInv' /\ LoginInv' /\ TellInv' /\ OrderInv' /\ IdleInv' /\ TypeOK'
  BY StepKeepsSession DEF SessionInv, IInv
<1>2. Shape /\ Climbs /\ Moves
  BY <1>1, StepShape, StepMoves
<1>3. /\ wire \in Seq(ItemType) /\ wire' \in Seq(ItemType) /\ Out' \in Seq(ItemType)
      /\ queued' \in Seq(ItemType) /\ submitted \in Nat /\ submitted' \in Nat
      /\ notified \in Seq(States) /\ notified' \in Seq(States)
      /\ state \in States /\ state' \in States
      /\ output_handler \in BOOLEAN /\ output_handler' \in BOOLEAN
  BY <1>1 DEF TypeOK, IoTypeOK, LoginTypeOK, ControlTypeOK, Out
<1>4. /\ wire' = wire \/ (wire' = Out' /\ output_handler)
      /\ Extends(Numbers(Out'), Numbers(wire')) /\ Extends(Numbers(wire'), Numbers(wire))
  BY <1>1, <1>2, WireGrows
<1>5. /\ Numbers(wire) \in Seq(Nat) /\ Numbers(wire') \in Seq(Nat) /\ Numbers(Out') \in Seq(Nat)
      /\ Len(Numbers(wire)) = Len(wire) /\ Len(Numbers(wire')) = Len(wire')
      /\ Len(Numbers(Out')) = Len(Out')
      /\ \A i \in 1 .. Len(wire') : Numbers(wire')[i] = Number(wire'[i])
      /\ Len(wire) \in Nat /\ Len(wire') \in Nat /\ Len(Out') \in Nat
  BY <1>3, NumbersType
<1>6. Numbers(wire)' = Numbers(wire') /\ Numbers(Out)' = Numbers(Out')
  BY DEF Numbers
<1>7. Promise!Accept
  BY <1>1, <1>2, <1>3 DEF Promise!Accept, Moves, Keeps, Loses, Says, Sends, Waits, Flushes
<1>8. Promise!Write
  <2>1. Promise!IsPrefix(Numbers(wire), Numbers(wire'))
    <3> DEFINE s == Numbers(wire)
               t == Numbers(wire')
    <3>1. /\ s \in Seq(Nat) /\ t \in Seq(Nat) /\ Len(s) \in Nat /\ Len(t) \in Nat
          /\ Len(s) <= Len(t) /\ \A i \in 1 .. Len(s) : t[i] = s[i]
      BY <1>4, <1>5 DEF Extends
    <3> HIDE DEF s, t
    <3>2. SubSeq(s, 1, Len(s)) = SubSeq(t, 1, Len(s))
      BY <3>1
    <3>3. QED BY <3>1, <3>2 DEF Promise!IsPrefix, s, t
  <2>2. Promise!InOrder(Numbers(wire'))
    BY <1>1, <1>4, <1>5, <1>6, PrefixInOrder DEF OrderInv
  <2>3. AtMost(Numbers(wire'), submitted')
    <3>1. Flushed' <= submitted' /\ Flushed' \in Nat
      <4>1. Len(queued') \in Nat /\ Len(queued') <= submitted'
        BY <1>1, <1>3 DEF OrderInv
      <4>2. QED BY <1>3, <4>1 DEF Flushed
    <3>2. \A i \in 1 .. Len(Numbers(Out')) : Numbers(Out')[i] <= Flushed' /\ Numbers(Out')[i] \in Nat
      BY <1>1, <1>5, <1>6 DEF OrderInv, AtMost
    <3>3. \A i \in 1 .. Len(Numbers(wire')) : /\ i \in 1 .. Len(Numbers(Out'))
                                             /\ Numbers(wire')[i] = Numbers(Out')[i]
      BY <1>4, <1>5 DEF Extends
    <3>4. QED BY <1>3, <3>1, <3>2, <3>3 DEF AtMost
  <2>4. Numbers(wire') # Numbers(wire) => closes = 0
    BY <1>1, <1>4 DEF TellInv
  <2>5. \A i \in 1 .. Len(wire') : Numbers(wire')[i] # 0 => state' \in {"OPEN", "CLOSED"}
    <3> SUFFICES ASSUME NEW i \in 1 .. Len(wire'), Numbers(wire')[i] # 0
                 PROVE  state' \in {"OPEN", "CLOSED"}
      OBVIOUS
    <3>1. wire'[i][1] = "app"
      BY <1>5 DEF Number
    <3>2. i \in 1 .. Len(Out') /\ Out'[i] = wire'[i]
      <4>1. output' \in Seq(ItemType)
        BY <1>1 DEF TypeOK, IoTypeOK
      <4>2. QED BY <1>3, <4>1 DEF Out
    <3>3. Written("app")'
      BY <3>1, <3>2 DEF Written
    <3>4. login' = "GONE"
      BY <1>1, <3>3 DEF OrderInv
    <3>5. QED BY <1>1, <3>4 DEF LoginInv, ControlInv
  <2>6. \A i \in Len(Numbers(wire)) + 1 .. Len(Numbers(wire')) :
            Numbers(wire')[i] # 0 => state' \in {"OPEN", "CLOSED"}
    <3>1. \A i \in Len(Numbers(wire)) + 1 .. Len(Numbers(wire')) : i \in 1 .. Len(wire')
      BY <1>5
    <3>2. QED BY <2>5, <3>1
  <2>7. QED BY <1>6, <2>1, <2>2, <2>3, <2>4, <2>6 DEF Promise!Write, AtMost
<1>9. Promise!Change
  BY <1>2 DEF Climbs, Promise!Change
<1>10. Promise!Tell
  <2>1. CASE notified' = notified
    BY <2>1 DEF Promise!Tell
  <2>2. CASE notified' # notified
    <3>1. /\ notified' = Append(notified, state') /\ state' # Reported
          /\ pc' = "idle"
      <4>1. Returns
        BY <1>2, <2>2 DEF Shape, Enters, Goes, Nests, Bypasses, Quiet, Leave, Report
      <4>2. QED BY <2>2, <4>1 DEF Returns, Leave, Report
    <3>2. /\ Reported \in States /\ Rank[Reported] <= Rank[state']
      <4>1. CASE pc = "idle"
        BY <1>2, <1>3, <4>1, RankOrder DEF Reported, Climbs
      <4>2. CASE pc # "idle"
        <5>1. frame \in States /\ Rank[frame] <= Rank[state]
          BY <1>1, <4>2 DEF TypeOK, ControlTypeOK, TellInv
        <5>2. Rank[state] <= Rank[state']
          BY <1>2, <1>3, RankOrder DEF Climbs
        <5>3. /\ Rank[frame] \in 0 .. 3 /\ Rank[state] \in 0 .. 3 /\ Rank[state'] \in 0 .. 3
          BY <1>3, <5>1, RankOrder
        <5>4. Rank[frame] <= Rank[state']
          BY <5>1, <5>2, <5>3
        <5>5. QED BY <4>2, <5>1, <5>4 DEF Reported
      <4>3. QED BY <4>1, <4>2
    <3>3. Rank[Reported] < Rank[state'] /\ Rank[Reported] \in 0 .. 3 /\ Rank[state'] \in 0 .. 3
      <4>1. Rank[Reported] # Rank[state']
        BY <1>3, <3>1, <3>2, RankOrder
      <4>2. Rank[Reported] \in 0 .. 3 /\ Rank[state'] \in 0 .. 3
        BY <1>3, <3>2, RankOrder
      <4>3. QED BY <3>2, <4>1, <4>2
    <3>4. \A i \in 1 .. Len(notified) : notified[i] # state'
      <4> SUFFICES ASSUME NEW i \in 1 .. Len(notified), notified[i] = state' PROVE FALSE
        OBVIOUS
      <4>1. Rank[notified[i]] <= Rank[Reported]
        BY <1>1 DEF TellInv
      <4>2. Rank[notified[i]] = Rank[state']
        OBVIOUS
      <4>3. QED BY <3>3, <4>1, <4>2
    <3>5. QED BY <3>1, <3>4 DEF Promise!Tell, Promise!Contains
  <2>3. QED BY <2>1, <2>2
<1>11. Promise!Close
  <2>1. closes \in {0, 1} /\ closes' \in {0, 1}
    BY <1>1 DEF TellInv
  <2>2. closes' # closes => state' = "CLOSED" /\ output_handler
    BY <1>2 DEF Shape, Enters, Goes, Returns, Nests, Bypasses, Quiet, Leave
  <2>3. output_handler => closes = 0
    BY <1>1 DEF TellInv
  <2>4. QED BY <2>1, <2>2, <2>3 DEF Promise!Close
<1>12. Promise!Leave
  <2> SUFFICES ASSUME pc' = "idle"
               PROVE  /\ state' = IF notified' = <<>> THEN "START" ELSE notified'[Len(notified')]
                      /\ state' = "CLOSED" <=> closes' = 1
                      /\ state' = "OPEN" => \A n \in 1 .. submitted' :
                             Promise!Contains(Numbers(wire'), n)
    BY <1>6 DEF Promise!Leave, Promise!Last
  <2>1. Reported' = state'
    BY DEF Reported
  <2>2. state' = IF notified' = <<>> THEN "START" ELSE notified'[Len(notified')]
    BY <1>1, <2>1 DEF TellInv
  <2>3. state' = "CLOSED" <=> closes' = 1
    BY <1>1 DEF TellInv, LoginInv, ControlInv
  <2>4. ASSUME state' = "OPEN" PROVE \A n \in 1 .. submitted' : Promise!Contains(Numbers(wire'), n)
    <3>1. output' = <<>>
      BY <1>1, <2>4 DEF IdleInv
    <3>2. Out' = wire'
      BY <1>3, <3>1 DEF Out
    <3>3. queued' = <<>>
      BY <1>1, <2>4 DEF OrderInv, LoginInv, AuthInv
    <3>4. Flushed' = submitted'
      <4>1. Len(queued') = 0
        BY <3>3
      <4>2. Flushed' = submitted' - Len(queued')
        BY DEF Flushed
      <4>3. submitted' \in Nat
        BY <1>3, Zenon
      <4>4. \A n \in Nat : n - 0 = n
        OBVIOUS
      <4>5. QED BY <4>1, <4>2, <4>3, <4>4, Zenon
    <3>5. Complete(Numbers(Out'), submitted')
      BY <1>1, <1>6, <2>4, <3>4 DEF OrderInv
    <3>6. QED BY <3>2, <3>5 DEF Complete, Promise!Contains
  <2>5. QED BY <2>2, <2>3, <2>4
<1>13. QED BY <1>7, <1>8, <1>9, <1>10, <1>11, <1>12 DEF Promise!Next

(* The engine implements Session: what it writes, tells and closes is what *)
(* its interface promises, whatever callbacks call it from inside          *)
(* (~EnterExit, SignalError, FlushQueuedStanzas).                          *)
THEOREM EngineImplementsSession == Spec => SessionImplemented
<1>1. Init => Promise!Init
  <2> SUFFICES ASSUME Init PROVE Promise!Init
    OBVIOUS
  <2>1. Numbers(wire) = <<>>
    BY DEF Init, Numbers
  <2>2. (pc # "idle") = FALSE
    BY DEF Init
  <2>3. QED BY <2>1, <2>2 DEF Init, Promise!Init
<1>2. SessionInv /\ Next => Promise!Next
  BY StepImplements
<1>3. UNCHANGED vars => UNCHANGED Promise!vars
  BY DEF vars, conn_vars, io_vars, out_vars, where_vars, history_vars, Promise!vars, Numbers
<1>4. QED BY <1>1, <1>2, <1>3, SessionHolds, PTL DEF Spec, SessionImplemented, Promise!Spec

-----------------------------------------------------------------------------
(* Iqs.                                                                    *)

IdsOf(entries) == {entries[i].id : i \in 1 .. Len(entries)}
Distinct(entries) ==
    \A i, j \in 1 .. Len(entries) : entries[i].id = entries[j].id => i = j

\* Ids are given out in order, to the application and the login alike, so an id
\* is in one place only.
IqInv ==
    /\ Distinct(iq_entries)
    /\ \A n \in iqs : n < next_id
    /\ iqId < next_id /\ iqId \notin iqs
    /\ IdsOf(iq_entries) \union answered \union removed = iqs
    /\ IdsOf(iq_entries) \intersect answered = {}
    /\ IdsOf(iq_entries) \intersect removed = {}
    /\ answered \intersect removed = {}

(* Taking an entry out takes out its id, and that id only.                 *)
LEMMA WithoutId ==
    ASSUME NEW S, NEW s \in Seq(S), NEW k \in 1 .. Len(s), Distinct(s)
    PROVE  Distinct(Without(s, k)) /\ IdsOf(Without(s, k)) = IdsOf(s) \ {s[k].id}
<1> DEFINE t == Without(s, k)
           Old(i) == IF i < k THEN i ELSE i + 1
<1>1. /\ Len(s) \in Nat /\ Len(t) = Len(s) - 1
      /\ \A i \in 1 .. Len(t) : t[i] = s[Old(i)]
  <2> DEFINE a == SubSeq(s, 1, k - 1)
             b == SubSeq(s, k + 1, Len(s))
  <2>1. /\ Len(s) \in Nat /\ a \in Seq(S) /\ b \in Seq(S)
        /\ Len(a) = k - 1 /\ Len(b) = Len(s) - k
        /\ \A i \in 1 .. k - 1 : a[i] = s[i]
        /\ \A i \in 1 .. Len(s) - k : b[i] = s[k + i]
    OBVIOUS
  <2>2. t = a \o b
    BY DEF Without
  <2> HIDE DEF a, b, t
  <2>3. /\ Len(t) = Len(s) - 1
        /\ \A i \in 1 .. Len(t) : t[i] = IF i < k THEN a[i] ELSE b[i - (k - 1)]
    <3>1. a \in Seq(S) /\ b \in Seq(S)
      BY <2>1
    <3>2. /\ Len(t) = Len(a) + Len(b)
          /\ \A i \in 1 .. Len(a) + Len(b) :
                 t[i] = IF i <= Len(a) THEN a[i] ELSE b[i - Len(a)]
      BY <2>2, <3>1, ConcatProperties
    <3>3. /\ Len(a) = k - 1 /\ Len(a) + Len(b) = Len(s) - 1
          /\ k \in Nat /\ Len(s) \in Nat
      BY <2>1
    <3>4. QED
      BY <3>2, <3>3
  <2>4. \A i \in 1 .. Len(t) : t[i] = s[Old(i)]
    <3> SUFFICES ASSUME NEW i \in 1 .. Len(t) PROVE t[i] = s[Old(i)]
      OBVIOUS
    <3>1. CASE i < k
      BY <2>1, <2>3, <3>1
    <3>2. CASE ~(i < k)
      <4>1. i - (k - 1) \in 1 .. Len(s) - k /\ k + (i - (k - 1)) = i + 1
        BY <2>1, <2>3, <3>2
      <4>2. QED BY <2>1, <2>3, <3>2, <4>1
    <3>3. QED BY <3>1, <3>2
  <2>5. QED BY <2>1, <2>3, <2>4
<1> HIDE DEF t
<1>2. \A i \in 1 .. Len(t) : Old(i) \in 1 .. Len(s) /\ Old(i) # k
  BY <1>1
<1>3. \A i, j \in 1 .. Len(t) : Old(i) = Old(j) => i = j
  BY <1>1
<1>4. \A j \in 1 .. Len(s) : j # k => \E i \in 1 .. Len(t) : Old(i) = j
  <2> SUFFICES ASSUME NEW j \in 1 .. Len(s), j # k
               PROVE  \E i \in 1 .. Len(t) : Old(i) = j
    OBVIOUS
  <2>1. CASE j < k
    BY <1>1, <2>1
  <2>2. CASE j > k
    <3>1. j - 1 \in 1 .. Len(t) /\ Old(j - 1) = j
      BY <1>1, <2>2
    <3>2. QED BY <3>1
  <2>3. QED BY <2>1, <2>2
<1> HIDE DEF Old
<1>5. Distinct(t)
  BY <1>1, <1>2, <1>3 DEF Distinct
<1>6. IdsOf(t) \subseteq IdsOf(s) \ {s[k].id}
  BY <1>1, <1>2 DEF IdsOf, Distinct
<1>7. ASSUME NEW x \in IdsOf(s), x # s[k].id PROVE x \in IdsOf(t)
  <2>1. PICK j \in 1 .. Len(s) : x = s[j].id
    BY DEF IdsOf
  <2>2. PICK i \in 1 .. Len(t) : Old(i) = j
    BY <1>4, <1>7, <2>1
  <2>3. t[i] = s[j]
    BY <1>1, <2>2
  <2>4. QED BY <2>1, <2>3 DEF IdsOf
<1>8. QED BY <1>5, <1>6, <1>7 DEF t

(* A new entry adds its id.                                                *)
LEMMA AppendId ==
    ASSUME NEW S, NEW s \in Seq(S), NEW e \in S, Distinct(s), e.id \notin IdsOf(s)
    PROVE  Distinct(Append(s, e)) /\ IdsOf(Append(s, e)) = IdsOf(s) \union {e.id}
<1> DEFINE t == Append(s, e)
<1>1. /\ Len(s) \in Nat /\ Len(t) = Len(s) + 1 /\ t[Len(s) + 1] = e
      /\ \A i \in 1 .. Len(s) : t[i] = s[i]
  OBVIOUS
<1> HIDE DEF t
<1>2. \A i \in 1 .. Len(t) : i \in 1 .. Len(s) \/ i = Len(s) + 1
  BY <1>1
<1>3. \A i \in 1 .. Len(s) : i \in 1 .. Len(t) /\ s[i].id # e.id
  BY <1>1 DEF IdsOf
<1>4. Len(s) + 1 \in 1 .. Len(t)
  BY <1>1
<1>5. Distinct(t)
  BY <1>1, <1>2, <1>3 DEF Distinct
<1>6. IdsOf(t) = IdsOf(s) \union {e.id}
  BY <1>1, <1>2, <1>3, <1>4 DEF IdsOf
<1>7. QED BY <1>5, <1>6 DEF t

\* What most steps do about ids: nothing, or the login takes one.
SameIds ==
    /\ UNCHANGED <<iq_entries, iqs, answered, removed>>
    /\ (iqId' = iqId /\ next_id' = next_id) \/ TakeId

(* Each step keeps the ids apart.                                          *)
LEMMA StepKeepsIqs ==
    ASSUME IInv, IqInv, Next
    PROVE  IqInv'
<1> USE DEF SignalError, conn_vars, login_vars, io_vars, out_vars, reg_vars,
            where_vars, call_vars, history_vars
<1>a. /\ iq_entries \in Seq([id : Nat, to : Jid]) /\ next_id \in Nat /\ iqId \in Int
      /\ iqs \in SUBSET Nat
  BY DEF IInv, TypeOK, LoginTypeOK, DispatchTypeOK
<1>b. SameIds => IqInv'
  <2>1. CASE iqId' = iqId /\ next_id' = next_id
    BY <2>1 DEF SameIds, IqInv
  <2>2. CASE TakeId
    <3> SUFFICES ASSUME SameIds PROVE IqInv'
      OBVIOUS
    <3>1. iqId' = next_id /\ next_id' = next_id + 1 /\ iqs' = iqs
      BY <2>2 DEF SameIds, TakeId
    <3>2. /\ \A n \in iqs' : n < next_id'
          /\ iqId' < next_id' /\ iqId' \notin iqs'
      BY <1>a, <3>1 DEF IqInv
    <3>3. QED BY <3>2 DEF SameIds, IqInv
  <2>3. QED BY <2>1, <2>2 DEF SameIds
<1>c. ASSUME NEW k \in 1 .. Len(iq_entries), iq_entries' = Without(iq_entries, k)
      PROVE  /\ Distinct(iq_entries') /\ iq_entries[k].id \in IdsOf(iq_entries)
             /\ IdsOf(iq_entries') = IdsOf(iq_entries) \ {iq_entries[k].id}
  <2>1. Distinct(iq_entries)
    BY DEF IqInv
  <2>2. /\ Distinct(Without(iq_entries, k))
        /\ IdsOf(Without(iq_entries, k)) = IdsOf(iq_entries) \ {iq_entries[k].id}
    BY <1>a, <2>1, WithoutId
  <2>3. QED BY <1>c, <2>2 DEF IdsOf
<1>1. ASSUME NEW j \in Jid, SendIq(j) PROVE IqInv'
  <2> DEFINE e == [id |-> next_id, to |-> j]
  <2>1. /\ iq_entries' = Append(iq_entries, e) /\ iqs' = iqs \union {next_id}
        /\ next_id' = next_id + 1 /\ iqId' = iqId /\ answered' = answered
        /\ removed' = removed
    BY <1>1 DEF SendIq
  <2>2. next_id \notin iqs
    BY <1>a DEF IqInv
  <2>3. e.id = next_id /\ e \in [id : Nat, to : Jid] /\ next_id \notin IdsOf(iq_entries)
    BY <1>a, <2>2 DEF IqInv
  <2> HIDE DEF e
  <2>4. /\ Distinct(iq_entries')
        /\ IdsOf(iq_entries') = IdsOf(iq_entries) \union {next_id}
    <3>1. Distinct(iq_entries) /\ e.id \notin IdsOf(iq_entries)
      BY <2>3 DEF IqInv
    <3>2. /\ Distinct(Append(iq_entries, e))
          /\ IdsOf(Append(iq_entries, e)) = IdsOf(iq_entries) \union {e.id}
      <4> DEFINE Entry == [id : Nat, to : Jid]
      <4>1. iq_entries \in Seq(Entry) /\ e \in Entry
        BY <1>a, <2>3
      <4> HIDE DEF Entry
      <4>2. QED BY <3>1, <4>1, AppendId
    <3>3. QED BY <2>1, <2>3, <3>2
  <2>5. /\ \A n \in iqs' : n < next_id'
        /\ iqId' < next_id' /\ iqId' \notin iqs'
    BY <1>a, <2>1 DEF IqInv
  <2>6. QED BY <2>1, <2>2, <2>4, <2>5 DEF IqInv
<1>2. CASE RemoveIqHandler
  <2>1. PICK k \in 1 .. Len(iq_entries) : /\ iq_entries' = Without(iq_entries, k)
                                          /\ removed' = removed \union {iq_entries[k].id}
    BY <1>2 DEF RemoveIqHandler
  <2>2. iqs' = iqs /\ answered' = answered /\ iqId' = iqId /\ next_id' = next_id
    BY <1>2 DEF RemoveIqHandler
  <2>3. QED BY <1>c, <2>1, <2>2 DEF IqInv
<1>3. ASSUME NEW s \in Stanza, IncomingStanza(s) PROVE IqInv'
  <2>1. iqs' = iqs /\ removed' = removed /\ iqId' = iqId /\ next_id' = next_id
    BY <1>3 DEF IncomingStanza
  <2>2. CASE iq_entries' = iq_entries /\ answered' = answered
    BY <1>b, <2>1, <2>2 DEF SameIds
  <2>3. CASE \E k \in Answers(s) : /\ iq_entries' = Without(iq_entries, k)
                                   /\ answered' = answered \union {iq_entries[k].id}
    <3>1. PICK k \in 1 .. Len(iq_entries) : /\ iq_entries' = Without(iq_entries, k)
                                            /\ answered' = answered \union {iq_entries[k].id}
      BY <2>3 DEF Answers
    <3>2. QED BY <1>c, <2>1, <3>1 DEF IqInv
  <2>4. QED BY <1>3, <2>2, <2>3 DEF IncomingStanza, ToLogin, CallIqHandler, Called, Dispatch
<1>4. CASE Advance
  <2> USE DEF InLogin, Has, Wait, Failure, Continue, LoginFrame
  <2>1. UNCHANGED <<iq_entries, iqs, answered, removed>>
    BY <1>4 DEF Advance, StartStream, NoStanza, StreamStarted, HandleFeatures, RequestTls,
       TlsAnswered, RequestBind, DropStanza, BindAnswered, SessionAnswered,
       StartSasl, SaslStep
  <2>2. (iqId' = iqId /\ next_id' = next_id) \/ TakeId
    BY <1>4 DEF Advance, StartStream, NoStanza, StreamStarted, HandleFeatures, RequestTls,
       TlsAnswered, RequestBind, DropStanza, BindAnswered, SessionAnswered,
       StartSasl, SaslStep
  <2>3. QED BY <1>b, <2>1, <2>2 DEF SameIds
<1>5. ASSUME NEW h \in Handler, RemoveStanzaHandler(h) PROVE IqInv'
  BY <1>b, <1>5 DEF RemoveStanzaHandler, SameIds
<1>6. ASSUME NEW h \in Handler, NEW l \in Level, AddStanzaHandler(h, l) PROVE IqInv'
  BY <1>b, <1>6 DEF AddStanzaHandler, SameIds
<1>7. CASE Connect \/ HandleInput \/ Disconnect \/ SendRaw \/ SendStanza
  BY <1>b, <1>7 DEF Connect, HandleInput, Disconnect, SendRaw, SendStanza, SameIds
<1>8. CASE (\E o \in TlsOption : SetTls(o)) \/ (\E e \in Errors : ConnectionClosed(e))
  BY <1>b, <1>8 DEF SetTls, ConnectionClosed, SameIds
<1>9. CASE (\E s \in Stanza : IncomingStart(s)) \/ (\E b \in BOOLEAN : IncomingEnd(b))
  BY <1>b, <1>9 DEF IncomingStart, ToLogin, IncomingEnd, SameIds
<1>10. CASE Return \/ IqHandlerReturns \/ CallHandler \/ Unhandled
  BY <1>b, <1>10 DEF Return, IqHandlerReturns, CallHandler, Unhandled, SameIds
<1>11. CASE \E b \in BOOLEAN : HandlerReturns(b)
  BY <1>b, <1>11 DEF HandlerReturns, SameIds
<1>12. QED BY <1>1, <1>2, <1>3, <1>4, <1>5, <1>6, <1>7, <1>8, <1>9, <1>10, <1>11
           DEF Next, Call, Parse, Run

(* An iq waits, has been answered or has been given up, one of the three:  *)
(* its handler is called at most once, never after RemoveIqHandler, and    *)
(* never for an answer to the login (SendIq, HandleIqResponse, NextId).    *)
THEOREM IqsAreAnsweredOnce == Spec => []IqOnce
<1>1. Init => IqInv
  <2> SUFFICES ASSUME Init PROVE IqInv
    OBVIOUS
  <2>1. iq_entries = <<>> /\ Len(iq_entries) = 0
    BY DEF Init
  <2>2. IdsOf(iq_entries) = {} /\ Distinct(iq_entries)
    BY <2>1 DEF IdsOf, Distinct
  <2>3. QED BY <2>2 DEF Init, IqInv
<1>2. IInv /\ IqInv /\ [Next]_vars => IqInv'
  <2>1. IqInv /\ UNCHANGED vars => IqInv'
    BY DEF vars, login_vars, reg_vars, history_vars, IqInv
  <2>2. QED BY <2>1, StepKeepsIqs
<1>3. IInv /\ IqInv => IqOnce
  <2> SUFFICES ASSUME IInv, IqInv PROVE IqOnce
    OBVIOUS
  <2>1. Ids = IdsOf(iq_entries)
    BY DEF Ids, IdsOf
  <2>2. iq_entries \in Seq([id : Nat, to : Jid]) /\ Len(iq_entries) \in Nat
    BY DEF IInv, TypeOK, DispatchTypeOK
  <2>3. Cardinality(Ids) = Len(iq_entries)
    <3> DEFINE f == [i \in 1 .. Len(iq_entries) |-> iq_entries[i].id]
    <3>1. f \in Bijection(1 .. Len(iq_entries), Ids)
      BY DEF IqInv, Distinct, Ids, Bijection, Injection, Surjection, IsInjective
    <3>2. ExistsBijection(1 .. Len(iq_entries), Ids)
      BY <3>1 DEF ExistsBijection
    <3>3. QED BY <2>2, <3>2, FS_CountingElements
  <2>4. QED BY <2>1, <2>3 DEF IqInv, IqOnce
<1>4. QED BY <1>1, <1>2, <1>3, InvariantHolds, PTL DEF Spec
=============================================================================
