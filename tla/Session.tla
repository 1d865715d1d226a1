------------------------------- MODULE Session -------------------------------
(***************************************************************************)
(* What XmppEngine (xmppengine.h) promises of a session, whatever the      *)
(* server and the handlers do: one stream of stanzas over one connection   *)
(* that is opened once and closed once.  A step is one turn of the engine: *)
(* it may accept a stanza, write some, change the state and tell of it.    *)
(***************************************************************************)
EXTENDS Naturals, Sequences, SequencesExt

VARIABLES
    state, error,   \* GetState, GetError
    inside,         \* whether a call of the engine is under way
    accepted,       \* stanzas accepted by SendStanza
    delivered,      \* what the output handler was given: the number of a stanza,
                    \* 0 for what the engine has to say itself
    told,           \* states OnStateChange was called with
    closes          \* calls of CloseConnection

vars == <<state, error, inside, accepted, delivered, told, closes>>

\* The states that may follow a state.
After == [START |-> {"OPENING", "CLOSED"}, OPENING |-> {"OPEN", "CLOSED"},
          OPEN |-> {"CLOSED"}, CLOSED |-> {}]

Init ==
    /\ state = "START" /\ error = "NONE" /\ inside = FALSE
    /\ accepted = 0 /\ delivered = <<>> /\ told = <<>> /\ closes = 0

-----------------------------------------------------------------------------

\* An engine that is closed accepts nothing.
Accept == accepted' \in {accepted} \cup (IF state = "CLOSED" THEN {} ELSE {accepted + 1})

\* Each stanza comes after the one that was accepted before it, and once.
InOrder(numbers) ==
    \A i \in 1 .. Len(numbers) : numbers[i] # 0 =>
        /\ \A j \in 1 .. i - 1 : numbers[j] < numbers[i]
        /\ numbers[i] = 1 \/ \E j \in 1 .. i - 1 : numbers[j] = numbers[i] - 1

\* What was written stays written.  Stanzas are written in their order, none is
\* left out, none before the session is open, and nothing after the connection
\* was closed.
Write ==
    /\ IsPrefix(delivered, delivered')
    /\ InOrder(delivered')
    /\ \A i \in 1 .. Len(delivered') : delivered'[i] <= accepted'
    /\ delivered' # delivered => closes = 0
    /\ \A i \in Len(delivered) + 1 .. Len(delivered') :
           delivered'[i] # 0 => state' \in {"OPEN", "CLOSED"}

\* A state that ends nothing has no error, and the first error stays.
Change ==
    /\ state' \in {state} \cup After[state]
    /\ error' # error => state # "CLOSED" /\ state' = "CLOSED"

\* A state is told once.
Tell == told' = told \/ (told' = Append(told, state') /\ ~Contains(told, state'))

Close == closes' = closes \/ (closes = 0 /\ closes' = 1 /\ state' = "CLOSED")

\* Whoever leaves the engine has heard all: the state was told, a closed engine
\* has closed its connection, an open one has written what it accepted.
Leave ==
    ~inside' =>
        /\ state' = IF told' = <<>> THEN "START" ELSE Last(told')
        /\ state' = "CLOSED" <=> closes' = 1
        /\ state' = "OPEN" => \A n \in 1 .. accepted' : Contains(delivered', n)

Next == Accept /\ Write /\ Change /\ Tell /\ Close /\ Leave

Spec == Init /\ [][Next]_vars
=============================================================================
