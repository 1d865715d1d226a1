------------------------------- MODULE Addresses -------------------------------
(***************************************************************************)
(* IP addresses and socket addresses (talk/base ipaddress.cc,              *)
(* socketaddress.cc): their order, prefixes, texts and system forms.  An   *)
(* address is its family and its bytes, a text a sequence of tokens.  One  *)
(* socket address goes through the calls; known has all it ever was.       *)
(*                                                                         *)
(* Jabber identifiers (talk/xmpp/jid.cc): [node@]domain[/resource], read   *)
(* from a string or put together from parts, checked and normalized.       *)
(* Characters are bytes.  The limits of a label (63) and of a part (1023)  *)
(* are constants.  One action is one constructor, of a behaviour of its    *)
(* own.                                                                    *)
(***************************************************************************)
EXTENDS Integers, Sequences, FiniteSets, FiniteSetsExt, SequencesExt

CONSTANTS
    IP4, IP6,       \* bytes of addresses
    Host,           \* names that are no literals, in their order
    Port, Scope,
    MaxCalls,       \* bound
    Char,           \* bytes of the strings that are read as a Jid
    MaxLength,      \* bound: of such a string
    PartChar,       \* bytes of parts, of at most two
    MaxLabel, MaxPart

IP(family, bytes) == [family |-> family, bytes |-> bytes]
Unspec == IP("UNSPEC", <<>>)
Zeros(n) == [k \in 1 .. n |-> 0]
AnyOf(family) == IP(family, Zeros(IF family = "INET" THEN 4 ELSE 16))
IPs == {Unspec} \cup {IP("INET", b) : b \in IP4} \cup {IP("INET6", b) : b \in IP6}

VARIABLES
    address, known, calls,
    node_name, domain_name, resource_name,
    from            \* [parts]: what the Jid was made from

jid_vars == <<node_name, domain_name, resource_name, from>>
vars == <<address, known, calls, jid_vars>>

-----------------------------------------------------------------------------
(* IP addresses.                                                           *)

\* The first place where the bytes differ decides.
BytesBefore(x, y) ==
    \E k \in DOMAIN x : x[k] < y[k] /\ SubSeq(x, 1, k - 1) = SubSeq(y, 1, k - 1)

FamilyBefore(x, y) == x = "UNSPEC" \/ (x = "INET" /\ y = "INET6")

\* operator<.
IPBefore(x, y) ==
    IF x.family # y.family THEN FamilyBefore(x.family, y.family)
    ELSE BytesBefore(x.bytes, y.bytes)

IPIsAny(x) == x.family # "UNSPEC" /\ x = AnyOf(x.family)
IPIsLoopback(x) ==
    x \in {IP("INET", <<127, 0, 0, 1>>), IP("INET6", Append(Zeros(15), 1))}

IsPrivateV4(b) ==
    \/ b[1] \in {127, 10}
    \/ b[1] = 172 /\ b[2] \div 16 = 1
    \/ <<b[1], b[2]>> \in {<<192, 168>>, <<169, 254>>}

IPIsPrivate(x) ==
    \/ x.family = "INET" /\ IsPrivateV4(x.bytes)
    \/ x.family = "INET6" /\ (SubSeq(x.bytes, 1, 2) = <<254, 128>> \/ IPIsLoopback(x))

\* IPIsHelper, of whole bytes.
HasPrefix(x, prefix) == SubSeq(x.bytes, 1, Len(prefix)) = prefix
IPIs6Bone(x) == HasPrefix(x, <<63, 254>>)
IPIs6To4(x) == HasPrefix(x, <<32, 2>>)
IPIsTeredo(x) == HasPrefix(x, <<32, 1, 0, 0>>)
IPIsV4Compatibility(x) == HasPrefix(x, Zeros(12))
MappedPrefix == Zeros(10) \o <<255, 255>>
IPIsV4Mapped(x) == HasPrefix(x, MappedPrefix)
IPIsSiteLocal(x) == x.bytes[1] = 254 /\ x.bytes[2] \div 64 = 3
IPIsULA(x) == x.bytes[1] \div 2 = 126

IPAddressPrecedence(x) ==
    IF x.family = "UNSPEC" THEN 0
    ELSE IF x.family = "INET" THEN 30
    ELSE IF IPIsLoopback(x) THEN 60
    ELSE IF IPIsULA(x) THEN 50
    ELSE IF IPIsV4Mapped(x) THEN 30
    ELSE IF IPIs6To4(x) THEN 20
    ELSE IF IPIsTeredo(x) THEN 10
    ELSE IF IPIsV4Compatibility(x) \/ IPIsSiteLocal(x) \/ IPIs6Bone(x) THEN 1
    ELSE 40

AsIPv6Address(x) == IF x.family = "INET" THEN IP("INET6", MappedPrefix \o x.bytes) ELSE x

ExtractMappedAddress(b) == SubSeq(b, 13, 16)

Normalized(x) ==
    IF x.family = "INET6" /\ IPIsV4Mapped(x) THEN IP("INET", ExtractMappedAddress(x.bytes))
    ELSE x

\* The lowest n bits of a word of four bytes cleared.
Shifted(word, n) ==
    [k \in 1 .. 4 |-> LET above == 8 * (4 - k)
                          low == IF n <= above THEN 0 ELSE IF n >= above + 8 THEN 8
                                 ELSE n - above
                      IN  word[k] - (word[k] % (2 ^ low))]

InnerLength(length) == 32 - (length % 32)

Word(b, i) == SubSeq(b, 4 * i + 1, 4 * i + 4)

TruncateIP(x, length) ==
    IF x.family = "UNSPEC" \/ length >= 8 * Len(x.bytes) THEN x
    ELSE IF length = 0 THEN AnyOf(x.family)
    ELSE IF x.family = "INET" THEN IP("INET", Shifted(x.bytes, 32 - length))
    ELSE LET position == length \div 32
             Part(i) == IF i < position THEN Word(x.bytes, i)
                        ELSE IF i > position THEN Zeros(4)
                        ELSE Shifted(Word(x.bytes, i), InnerLength(length))
         IN  IP("INET6", Part(0) \o Part(1) \o Part(2) \o Part(3))

\* The number of 0 bits below the lowest 1 of a word.
TrailingZeroes(word) ==
    LET last == SelectLastInSeq(word, LAMBDA b : b # 0)
        low == CHOOSE n \in 0 .. 7 : /\ word[last] % (2 ^ n) = 0
                                     /\ word[last] % (2 ^ (n + 1)) # 0
    IN  8 * (4 - last) + low

\* It looks at the first word that is not all ones.
CountIPMaskBits(mask) ==
    LET ones == [k \in 1 .. 4 |-> 255]
        words == Len(mask.bytes) \div 4
        full == {i \in 0 .. words - 1 : \A j \in 0 .. i : Word(mask.bytes, j) = ones}
        i == IF mask.family = "INET" THEN 0 ELSE Cardinality(full)
    IN  IF mask.family = "UNSPEC" THEN 0
        ELSE IF i = words \/ Word(mask.bytes, i) = Zeros(4) THEN 32 * i
        ELSE 32 * i + 32 - TrailingZeroes(Word(mask.bytes, i))

-----------------------------------------------------------------------------
(* Texts.                                                                  *)

Token(c, v) == [c |-> c, v |-> v]
Mark(c) == Token(c, <<>>)

\* inet_ntop; the text of an IPv6 address has a colon, that of a name none.
IPText(x) ==
    CASE x.family = "UNSPEC" -> <<>>
      [] x.family = "INET" -> <<Token("v4", x.bytes)>>
      [] x.family = "INET6" -> <<Token("v6", SubSeq(x.bytes, 1, 8)), Mark(":"),
                                 Token("v6", SubSeq(x.bytes, 9, 16))>>
NameText(h) == <<Token("name", <<h>>)>>

\* inet_pton of either family.
IPFromString(text) ==
    IF Len(text) = 1 /\ text[1].c = "v4" THEN IP("INET", text[1].v)
    ELSE IF Len(text) = 3 /\ text[1].c = "v6" THEN IP("INET6", text[1].v \o text[3].v)
    ELSE Unspec

-----------------------------------------------------------------------------
(* Socket addresses.                                                       *)

Nil == [hostname |-> <<>>, literal |-> FALSE, ip |-> Unspec, port |-> 0, scope |-> 0]

WithIP(a, ip) == [a EXCEPT !.hostname = <<>>, !.literal = FALSE, !.ip = ip, !.scope = 0]
WithHost(a, text) ==
    [a EXCEPT !.hostname = text, !.literal = IPFromString(text) # Unspec,
              !.ip = IPFromString(text), !.scope = 0]
WithResolved(a, ip) == [a EXCEPT !.ip = ip, !.scope = 0]

HostAsURIString(a) ==
    IF ~a.literal /\ a.hostname # <<>> THEN a.hostname
    ELSE IF a.ip.family = "INET6" THEN <<Mark("[")>> \o IPText(a.ip) \o <<Mark("]")>>
    ELSE IPText(a.ip)

AddressText(a) == HostAsURIString(a) \o <<Mark(":"), Token("port", <<a.port>>)>>

Found(text, c) == SelectInSeq(text, LAMBDA t : t.c = c)

\* The port comes first.  Without a bracket the first colon ends the host.
FromString(a, text) ==
    LET bracketed == text[1].c = "["
        close == Found(text, "]")
        colon == IF bracketed THEN close + Found(SubSeq(text, close + 1, Len(text)), ":")
                 ELSE Found(text, ":")
        host == IF bracketed THEN SubSeq(text, 2, close - 1) ELSE SubSeq(text, 1, colon - 1)
        rest == SubSeq(text, colon + 1, Len(text))
        port == IF Len(rest) = 1 /\ rest[1].c = "port" THEN rest[1].v[1] ELSE 0
    IN  WithHost([a EXCEPT !.port = port], host)

HostBefore(x, y) == IF x = <<>> THEN y # <<>>
                    ELSE y # <<>> /\ SelectInSeq(Host, LAMBDA h : NameText(h) = x)
                                     < SelectInSeq(Host, LAMBDA h : NameText(h) = y)

EqualIPs(a, b) == a.ip = b.ip /\ (IPIsAny(a.ip) => a.hostname = b.hostname)
Equal(a, b) == EqualIPs(a, b) /\ a.port = b.port

\* operator<: names are looked at when both addresses are zero.
Before(a, b) ==
    \/ IPBefore(a.ip, b.ip)
    \/ /\ a.ip = b.ip
       /\ \/ IPIsAny(b.ip) /\ HostBefore(a.hostname, b.hostname)
          \/ (IPIsAny(b.ip) => a.hostname = b.hostname) /\ a.port < b.port

\* ToSockAddrStorageHelper and SocketAddressFromSockAddrStorage.
SockAddr(ip, port, scope) ==
    [ip |-> ip, port |-> port, scope |-> IF ip.family = "INET6" THEN scope ELSE 0]
ToDualStackSockAddrStorage(a) == SockAddr(AsIPv6Address(a.ip), a.port, a.scope)
ToSockAddrStorage(a) == SockAddr(a.ip, a.port, a.scope)
FromSockAddrStorage(s) ==
    [Nil EXCEPT !.ip = s.ip, !.port = s.port,
                !.scope = IF s.ip.family = "INET6" THEN s.scope ELSE 0]

IsComplete(a) == ~IPIsAny(a.ip) /\ a.port # 0
IsLoopbackIP(a) == IPIsLoopback(a.ip) \/ (IPIsAny(a.ip) /\ a.hostname = NameText("localhost"))
IsUnresolvedIP(a) == a.ip = Unspec /\ ~a.literal /\ a.hostname # <<>>

Become(a) ==
    /\ calls < MaxCalls /\ calls' = calls + 1
    /\ address' = a /\ known' = known \cup {a}

SetIP(ip) == Become(WithIP(address, ip))
SetHost(text) == Become(WithHost(address, text))
\* What was looked up is a name.
SetResolvedIP(ip) == IsUnresolvedIP(address) /\ Become(WithResolved(address, ip))
SetPort(port) == Become([address EXCEPT !.port = port])
SetScopeID(scope) == Become([address EXCEPT !.scope = scope])

CallSocketAddress ==
    \/ \E ip \in IPs : SetIP(ip) \/ SetHost(IPText(ip)) \/ SetResolvedIP(ip)
    \/ \E h \in ToSet(Host) : SetHost(NameText(h))
    \/ \E port \in Port : SetPort(port)
    \/ \E scope \in Scope : SetScopeID(scope)

-----------------------------------------------------------------------------
(* Jids.  Their characters: 0 for what is not valid.                       *)

Texts(chars, n) == UNION {[1 .. k -> chars] : k \in 0 .. n}
jid == [node |-> node_name, domain |-> domain_name, resource |-> resource_name]

\* Jid::Jid()
None == [node |-> <<>>, domain |-> <<>>, resource |-> <<>>]

Lower(ch) == IF ch \in 65 .. 90 THEN ch + 32 ELSE ch

\* PrepNodeAscii; " & ' / : < > @ and space are not valid.
PrepNodeAscii(ch) ==
    IF ch \in 0 .. 23 \cup {32, 34, 38, 39, 47, 58, 60, 62, 64, 127} THEN 0 ELSE Lower(ch)

PrepResourceAscii(ch) == IF ch \in 0 .. 23 \cup {127} THEN 0 ELSE ch

\* PrepDomainLabelAscii: letters, digits and - are left.
PrepDomainLabelAscii(ch) ==
    IF ch \in 0 .. 44 \cup {46, 47} \cup 58 .. 64 \cup 91 .. 96 \cup 123 .. 127
    THEN 0 ELSE Lower(ch)

-----------------------------------------------------------------------------
(* The parts: a record of whether it is valid, and what it becomes.        *)

Invalid == [valid |-> FALSE, part |-> <<>>]
Valid(part) == [valid |-> TRUE, part |-> part]

PrepNode(node) ==
    LET result == [i \in DOMAIN node |-> PrepNodeAscii(node[i])]
    IN  IF 0 \in Range(result) \/ Len(node) > MaxPart THEN Invalid ELSE Valid(result)

\* A character that is not valid stays, as a NUL.
PrepResource(resource) ==
    IF Len(resource) > MaxPart THEN Invalid
    ELSE Valid([i \in DOMAIN resource |-> PrepResourceAscii(resource[i])])

PrepDomainLabel(label) ==
    LET result == [i \in DOMAIN label |-> PrepDomainLabelAscii(label[i])]
    IN  IF 0 \in Range(result) \/ Len(label) \notin 1 .. MaxLabel THEN Invalid
        ELSE IF 45 \in {result[1], result[Len(label)]} THEN Invalid
        ELSE Valid(result)

\* Every label is, and there is one between two dots and at both ends.
PrepDomain(domain) ==
    LET dots == SetToSortSeq({i \in DOMAIN domain : domain[i] = 46}, <)
        label(i) == PrepDomainLabel(
                        SubSeq(domain, IF i = 1 THEN 1 ELSE dots[i - 1] + 1,
                               IF i > Len(dots) THEN Len(domain) ELSE dots[i] - 1))
        labels == [i \in 1 .. Len(dots) + 1 |-> label(i)]
    IN  IF (\E i \in DOMAIN labels : ~labels[i].valid) \/ Len(domain) > MaxPart THEN Invalid
        ELSE Valid([i \in DOMAIN domain |-> Lower(domain[i])])

\* All three parts, or none.
ValidateOrReset(node, domain, resource) ==
    IF PrepNode(node).valid /\ PrepDomain(domain).valid /\ PrepResource(resource).valid
    THEN [node |-> PrepNode(node).part, domain |-> PrepDomain(domain).part,
          resource |-> PrepResource(resource).part]
    ELSE None

-----------------------------------------------------------------------------

First(s, ch) == LET places == {i \in DOMAIN s : s[i] = ch}
                IN  IF places = {} THEN Len(s) + 1 ELSE Min(places)

\* Unless it is part of the resource.
SplitAt(s) == IF First(s, 64) < First(s, 47) THEN First(s, 64) ELSE 0

\* Jid::Jid(jid_string)
Parsed(s) ==
    LET slash == First(s, 47)
        at == SplitAt(s)
    IN  IF s = <<>> THEN None
        ELSE ValidateOrReset(SubSeq(s, 1, at - 1), SubSeq(s, at + 1, slash - 1),
                             SubSeq(s, slash + 1, Len(s)))

IsEmpty(j) == j = None
IsValid(j) == j.domain # <<>>
IsFull(j) == IsValid(j) /\ j.resource # <<>>
IsBare(j) == IsEmpty(j) \/ (IsValid(j) /\ j.resource = <<>>)

Str(j) ==
    IF ~IsValid(j) THEN <<>>
    ELSE (IF j.node # <<>> THEN j.node \o <<64>> ELSE <<>>) \o j.domain
         \o (IF j.resource # <<>> THEN <<47>> \o j.resource ELSE <<>>)

BareJid(j) ==
    IF ~IsValid(j) THEN None
    ELSE IF ~IsFull(j) THEN j
    ELSE ValidateOrReset(j.node, j.domain, <<>>)

BareEquals(j, other) == j.node = other.node /\ j.domain = other.domain

\* Compare: part by part, and a part byte by byte.
CompareParts(s, t) ==
    LET differ == {i \in DOMAIN s \cap DOMAIN t : s[i] # t[i]}
    IN  IF differ # {} THEN s[Min(differ)] - t[Min(differ)] ELSE Len(s) - Len(t)
Compare(j, other) ==
    LET node == CompareParts(j.node, other.node)
        domain == CompareParts(j.domain, other.domain)
    IN  IF node # 0 THEN node ELSE IF domain # 0 THEN domain
        ELSE CompareParts(j.resource, other.resource)

BecomeJid(j) == node_name' = j.node /\ domain_name' = j.domain /\ resource_name' = j.resource

JidFromString ==
    \E s \in Texts(Char, MaxLength) : from' = <<s>> /\ BecomeJid(Parsed(s))

JidFromParts ==
    \E node, domain \in Texts(PartChar, 2), resource \in Texts(PartChar, 1) :
        from' = <<node, domain, resource>> /\ BecomeJid(ValidateOrReset(node, domain, resource))

Init ==
    /\ address = Nil /\ known = {Nil} /\ calls = 0
    /\ node_name = <<>> /\ domain_name = <<>> /\ resource_name = <<>> /\ from = <<>>

Next ==
    /\ from = <<>>
    /\ \/ CallSocketAddress /\ UNCHANGED jid_vars
       \/ /\ calls = 0 /\ UNCHANGED <<address, known, calls>>
          /\ JidFromString \/ JidFromParts

Spec == Init /\ [][Next]_vars

-----------------------------------------------------------------------------

TypeOK ==
    /\ address.ip \in IPs /\ address.port \in Port \cup {0} /\ address \in known
    /\ address.scope \in Scope \cup {0} /\ address.literal \in BOOLEAN
    /\ \A part \in {node_name, domain_name, resource_name} : part \in Seq(0 .. 255)
    /\ Len(node_name) <= MaxPart /\ Len(domain_name) <= MaxPart

\* Exactly one of less, equal and greater holds, and less is transitive, for
\* whatever a socket address can be: the maps keyed by addresses find them
\* (operator<, operator==).
OrderIsTotal ==
    \A a, b \in known :
        /\ Cardinality({k \in 1 .. 3 : <<Before(a, b), Equal(a, b), Before(b, a)>>[k]}) = 1
        /\ \A c \in known : Before(a, b) /\ Before(b, c) => Before(a, c)

\* The text of an address is read back as an address with that text, with its
\* port, and with its IP unless a name stands for it (ToString, FromString).
PrintedIsParsed ==
    LET read == FromString(Nil, AddressText(address)) IN
    /\ AddressText(read) = AddressText(address) /\ read.port = address.port
    /\ (address.literal \/ address.hostname = <<>>) => read.ip = address.ip

\* What the system is given, as it is or on a dual-stack socket, is read back
\* as the same address (ToDualStackSockAddrStorage, Normalized).
SystemKeepsAddresses ==
    LET plain == FromSockAddrStorage(ToSockAddrStorage(address))
        dual == FromSockAddrStorage(ToDualStackSockAddrStorage(address))
    IN  /\ plain.ip = address.ip /\ plain.port = address.port
        /\ Normalized(dual.ip) = Normalized(address.ip) /\ dual.port = address.port
        /\ address.ip.family = "INET6" => dual.scope = address.scope
        /\ IPAddressPrecedence(dual.ip) = IPAddressPrecedence(Normalized(address.ip))

\* A mask of length bits counts as length bits, and truncating keeps exactly
\* the bits before length, at every boundary of a byte and of a word
\* (TruncateIP, CountIPMaskBits).
PrefixesKept ==
    LET x == address.ip
        width == 8 * Len(x.bytes)
        ones == IP(x.family, [k \in 1 .. Len(x.bytes) |-> 255])
        Bit(y, n) == (y.bytes[1 + (n \div 8)] \div (2 ^ (7 - (n % 8)))) % 2
    IN  calls <= 1 => \A length \in 0 .. width :
            /\ CountIPMaskBits(TruncateIP(ones, length)) = length
            /\ \A n \in 0 .. width - 1 :
                   Bit(TruncateIP(x, length), n) = IF n < length THEN Bit(x, n) ELSE 0

\* A jid is the key of the rosters and the way to every resource: it reads back
\* from its string, part by part, also when a part holds what separates them;
\* it is valid or has no part at all; and normalizing it changes nothing
\* (Jid::Jid, ValidateOrReset, Str).
JidReadsBack ==
    /\ Parsed(Str(jid)) = jid
    /\ IsValid(jid) \/ IsEmpty(jid)
    /\ ValidateOrReset(node_name, domain_name, resource_name) = jid

\* The bare jid is bare, belongs to the jid, and sorts before it or with it
\* (BareJid, BareEquals, Compare).
BareBelongs ==
    LET bare == BareJid(jid)
    IN  /\ IsBare(bare) /\ BareEquals(bare, jid) /\ BareJid(bare) = bare
        /\ Compare(bare, jid) <= 0 /\ (Compare(bare, jid) = 0 <=> bare = jid)

\* A complete address has both IP and port set, says the header.  It does not
\* hold of a name that has not been resolved.
CompleteIsResolved == IsComplete(address) => ~IsUnresolvedIP(address)

\* Addresses of different names that have not been resolved are different.  It
\* does not hold: names are compared when the IP is zero, not when there is none.
NamesDiffer ==
    \A a, b \in known : IsUnresolvedIP(a) /\ IsUnresolvedIP(b) /\ Equal(a, b)
                            => a.hostname = b.hostname

\* Bits after the first 0 are not counted, says the header.  It does not hold of
\* a mask with holes: the bits after its last 1 are not.
CountsLeadingOnes ==
    LET b == address.ip.bytes
        Ones(n) == \A k \in 0 .. n - 1 : (b[1 + (k \div 8)] \div (2 ^ (7 - (k % 8)))) % 2 = 1
    IN  Ones(CountIPMaskBits(address.ip))

\* Every IPv4 address of 127.0.0.0/8 is a loopback address, says the header.  It
\* does not hold: one of them is.
LoopbackIsARange ==
    address.ip.family = "INET" /\ address.ip.bytes[1] = 127 => IsLoopbackIP(address)

\* The characters of a resource are checked as the comment above PrepResource
\* says.  It does not hold: PrepResource does not look at what
\* PrepResourceAscii finds.
ResourceChecked == 0 \notin Range(resource_name)
=============================================================================
