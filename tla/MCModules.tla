------------------------------ MODULE MCModules ------------------------------
(***************************************************************************)
(* The modules that one thread uses at a time, in one run: those on top of *)
(* a session and those for data.  They share no state: in a behaviour only *)
(* one of them, part, moves.  FifoBuffer is extended, so that its theorems  *)
(* speak of what is checked here; the others are instances.                *)
(***************************************************************************)
EXTENDS FifoBuffer

Zeros(n) == [i \in 1 .. n |-> 0]

\* Characters that each encoding treats in its own way, and some it copies.
Alphabet ==
    [escape |-> {92, 44, 97}, encode |-> {37, 44, 50, 53}, url |-> {37, 43, 32, 50},
     xml |-> {38, 60, 35, 59, 49}, html |-> {38, 39, 195, 169}]

\* The code points on both sides of each length of UTF-8.
Value == {0, 65, 127, 128, 2047, 2048, 65535, 65536, 2097151, 2097152}

\* Addresses of each kind that the predicates tell apart.
IP4 == {<<0, 0, 0, 0>>, <<127, 0, 0, 2>>, <<172, 31, 200, 5>>}
IP6 ==
    {Zeros(16), Append(Zeros(15), 1), <<253, 1>> \o Zeros(10) \o <<200, 128, 255, 7>>,
     Zeros(10) \o <<255, 255, 10, 1, 2, 3>>}

\* Namespaces whose prefixes are suggested as ns, ns and bab.
Spelling == [n \in {"", "A", "B"} |->
    IF n = "" THEN <<>> ELSE IF n = "A" THEN <<"b", ".", "/", "X", "m", "l", "s", "/">>
    ELSE <<"a", "1", "b", "a", "b", "a", "b", ".", "x", "s">>]

\* Passwords and tokens that fit into the storage as it is, or make it grow.
Secret == {<<>>, <<1, 2, 3, 4, 5, 6, 7, 8>>}

\* Texts to print, and documents from elsewhere: an attribute of one namespace
\* under two prefixes, one twice in it, a prefix for no namespace, prefixes that
\* are unknown or illegal, and declarations of the document itself.
Texts == {<<"a", "<", "quote", "&", "]]>", "cr", "lf", "cr", "a", "lf">>, <<"ctl">>}
Values == [B |-> {<<"quote", "<", "lf">>, <<"ctl">>}, XML |-> {<<"cr", "lf">>}]
Given(base, ns) == [prefix |-> <<base, 1>>, ns |-> ns]
Bound == <<Given(<<"a">>, "A"), Given(<<"b">>, "A")>>
Attribute(base, local) == [prefix |-> <<base, 1>>, local |-> local, raw |-> <<>>]
Tag(base, decls, attrs) ==
    [kind |-> "start", prefix |-> <<base, 1>>, decls |-> decls, attrs |-> attrs]
XmlDecl(version, encoding, standalone) ==
    [kind |-> "xml", version |-> version, encoding |-> encoding, standalone |-> standalone]
Document(tag) == <<tag, [kind |-> "end"]>>
Foreign ==
    {Document(Tag(<<"a">>, Bound, <<Attribute(<<"a">>, "x"), Attribute(<<"b">>, local)>>)) :
        local \in {"x", "y"}}
    \cup {Document(Tag(base, <<>>, <<>>)) : base \in {<<"a">>, <<"X", "m", "l">>, <<"x", "m", "l">>}}
    \cup {Document(Tag(<<>>, <<Given(<<"a">>, "")>> \o Bound, <<>>))}
    \cup {<<XmlDecl(v, e, s)>> \o Document(Tag(<<>>, <<>>, <<>>)) :
             v \in {"1.0", "1.1"}, e \in {"", "UTF-8", "latin1"}, s \in {0, 1}}

\* Three pointers, and one inside of each of two objects.
Inside == [p \in {"a", "b", "c", "n1", "n2"} |->
              CASE p = "n1" -> "o1" [] p = "n2" -> "o2" [] OTHER -> "nothing"]

VARIABLES
    part,           \* the module that moves
    roster_engine, roster_alive, roster_contacts, roster_presences,
    roster_bucket, roster_presence_xml, roster_view, roster_told, roster_up,
    roster_down, roster_server, roster_interested, roster_last,
    roster_dead_call, roster_inputs,
    data_contact_xml, data_groups, data_group_count, data_index_returned,
    data_group_returned, data_next_id, data_miscounted, data_result,
    data_presence_xml, data_presence, data_type, data_wanted, data_calls,
    room_state, room_nickname, room_members, room_version, room_present,
    room_entered, room_cursor, room_current, room_to_room, room_to_user,
    room_inside, room_room, room_unseen, room_crossed, room_inputs,
    hangout_info_by_itemid, hangout_state_by_key, hangout_heard, hangout_tasks,
    hangout_answers, hangout_asked, hangout_to_room, hangout_to_client,
    hangout_items, hangout_inputs,
    flow_seek, flow_start, flow_pos, flow_length, flow_lines, flow_tap,
    flow_tap_result, flow_flow, flow_buffer, flow_end_of_stream, flow_result,
    flow_sink, flow_mark, flow_blocks,
    bytes_bytes, bytes_start, bytes_end, bytes_version, bytes_byte_order,
    bytes_position, bytes_log, bytes_read, bytes_numbers, bytes_got,
    bytes_calls,
    codes_call, codes_source, codes_room, codes_coded, codes_decoded,
    codes_fields, codes_flags, codes_used,
    ip_address, ip_known, ip_calls, ip_node_name, ip_domain_name,
    ip_resource_name, ip_from,
    xml_ns_stack, xml_frames, xml_open, xml_doc, xml_wire, xml_parser,
    xml_sentError_, xml_told, xml_blank, xml_elements,
    element_children, element_child, element_attrs, element_attr,
    element_cdata_, element_made, element_freed, element_alive, element_meant,
    element_misplaced, element_calls,
    sasl_handler, sasl_pass, sasl_encrypted, sasl_offered, sasl_choice,
    sasl_state, sasl_freed, sasl_sent, sasl_answers,
    slots_signals, slots_slots, slots_m_connected_slots, slots_m_senders,
    slots_emitting, slots_ids, slots_misused, slots_calls,
    log_streams_, log_dbg_sev_, log_min_sev_, log_crit_, log_updating,
    log_message, log_left, log_heard, log_deleted, log_missed, log_broken,
    log_crowded, log_raced, log_count, log_calls, log_unprintable_count_,
    log_loggable, log_input, log_mode, log_udata, log_consecutive, log_log,
    log_seen, log_unlogged, log_chunks,
    owner_kind, owner_ptr, owner_prev, owner_next, owner_count, owner_object,
    owner_gone, owner_todo, owner_fault

Roster == INSTANCE Roster WITH
    Contact <- {"a", "b"}, Resource <- {1, 2}, MaxSessions <- 1,
    MaxInputs <- 2, engine <- roster_engine, alive <- roster_alive,
    contacts <- roster_contacts, presences <- roster_presences,
    bucket <- roster_bucket, presence_xml <- roster_presence_xml,
    view <- roster_view, told <- roster_told, up <- roster_up,
    down <- roster_down, server <- roster_server,
    interested <- roster_interested, last <- roster_last,
    dead_call <- roster_dead_call, inputs <- roster_inputs
RosterData == INSTANCE RosterData WITH
    Group <- {"g", "h"}, Status <- {"busy", "out"}, MaxCalls <- 5,
    contact_xml <- data_contact_xml, groups <- data_groups, group_count <- data_group_count,
    index_returned <- data_index_returned,
    group_returned <- data_group_returned, next_id <- data_next_id,
    miscounted <- data_miscounted, result <- data_result,
    presence_xml <- data_presence_xml, presence <- data_presence, type <- data_type,
    wanted <- data_wanted, calls <- data_calls
ChatRoom == INSTANCE ChatRoom WITH
    Others <- {1, 2}, Mine <- {8, 9}, MaxInputs <- 6, state <- room_state,
    nickname <- room_nickname, members <- room_members,
    version <- room_version, present <- room_present, entered <- room_entered,
    cursor <- room_cursor, current <- room_current, to_room <- room_to_room,
    to_user <- room_to_user, inside <- room_inside, room <- room_room,
    unseen <- room_unseen, crossed <- room_crossed, inputs <- room_inputs
HangoutPubSub == INSTANCE HangoutPubSub WITH
    Me <- "me", Other <- "other", Kind <- {"presenter", "audio", "block"},
    MaxInputs <- 3, info_by_itemid <- hangout_info_by_itemid,
    state_by_key <- hangout_state_by_key, heard <- hangout_heard,
    tasks <- hangout_tasks, answers <- hangout_answers, asked <- hangout_asked,
    to_room <- hangout_to_room, to_client <- hangout_to_client,
    items <- hangout_items, inputs <- hangout_inputs
StreamFlow == INSTANCE StreamFlow WITH
    Text <- <<1, 0, 0, 2>>, EndOfLine <- 0, Old <- <<7, 8, 9>>, BufferLen <- 2,
    Block <- 2, MaxBlocks <- 2, seek <- flow_seek, start <- flow_start,
    pos <- flow_pos, length <- flow_length, lines <- flow_lines,
    tap <- flow_tap, tap_result <- flow_tap_result, flow <- flow_flow,
    buffer <- flow_buffer, end_of_stream <- flow_end_of_stream,
    result <- flow_result, sink <- flow_sink, mark <- flow_mark,
    blocks <- flow_blocks
ByteBuffer == INSTANCE ByteBuffer WITH
    DefaultSize <- 4, Width <- {2, 3}, Lengths <- {1, 3}, MaxCalls <- 4,
    bytes <- bytes_bytes, start <- bytes_start, end <- bytes_end,
    version <- bytes_version, byte_order <- bytes_byte_order,
    position <- bytes_position, log <- bytes_log, read <- bytes_read,
    numbers <- bytes_numbers, got <- bytes_got, calls <- bytes_calls
Encodings == INSTANCE Encodings WITH
    Alphabet <- Alphabet, MaxLength <- 3, MaxRoom <- 7, Value <- Value,
    Byte <- {0, 65, 255}, MaxBytes <- 4, Char <- {0, 16, 63, 253, 254, 255},
    MaxChars <- 4, call <- codes_call, source <- codes_source,
    room <- codes_room, coded <- codes_coded, decoded <- codes_decoded,
    fields <- codes_fields, flags <- codes_flags, used <- codes_used
Addresses == INSTANCE Addresses WITH
    IP4 <- IP4, IP6 <- IP6, Host <- <<"x", "y">>, Port <- {1, 2}, Scope <- {1},
    MaxCalls <- 2, Char <- {97, 65, 64, 47, 46, 45, 24, 1}, MaxLength <- 4,
    PartChar <- {65, 64, 47, 46, 1}, MaxLabel <- 2, MaxPart <- 3,
    address <- ip_address, known <- ip_known, calls <- ip_calls,
    node_name <- ip_node_name, domain_name <- ip_domain_name,
    resource_name <- ip_resource_name, from <- ip_from
XmlNames == INSTANCE XmlNames WITH
    Namespace <- {"", "A", "B"}, Spelling <- Spelling, Text <- Texts, Value <- Values,
    Foreign <- Foreign, MaxDepth <- 2, MaxNodes <- 3, MaxElements <- 2,
    ns_stack <- xml_ns_stack, frames <- xml_frames, open <- xml_open,
    doc <- xml_doc, wire <- xml_wire, parser <- xml_parser,
    sentError_ <- xml_sentError_, told <- xml_told, blank <- xml_blank,
    elements <- xml_elements
XmlElement == INSTANCE XmlElement WITH
    Name <- {"x", "y"}, Text <- {"s"}, MaxNodes <- 4, MaxCalls <- 4,
    children <- element_children, child <- element_child,
    attrs <- element_attrs, attr <- element_attr, cdata_ <- element_cdata_,
    made <- element_made, freed <- element_freed, alive <- element_alive,
    meant <- element_meant, misplaced <- element_misplaced,
    calls <- element_calls
Sasl == INSTANCE Sasl WITH
    NodeOfUser <- <<7>>, FullJid <- <<7, 64, 8>>, Secret <- Secret,
    StartCapacity <- 2, Junk <- 9, MaxAnswers <- 2, handler <- sasl_handler,
    pass <- sasl_pass, encrypted <- sasl_encrypted, offered <- sasl_offered,
    choice <- sasl_choice, state <- sasl_state, freed <- sasl_freed,
    sent <- sasl_sent, answers <- sasl_answers
Sigslot == INSTANCE Sigslot WITH
    Signal <- {1, 2}, Slot <- {1, 2}, MaxCalls <- 5, signals <- slots_signals,
    slots <- slots_slots, m_connected_slots <- slots_m_connected_slots,
    m_senders <- slots_m_senders, emitting <- slots_emitting, ids <- slots_ids,
    misused <- slots_misused, calls <- slots_calls
Logging == INSTANCE Logging WITH
    Thread <- {1, 2}, Stream <- {1, 2}, Severity <- {1, 2},
    Byte <- {"space", "newline", "control", "Passwd"}, kMinPrintableLine <- 2,
    LINE_SIZE <- 1, MaxMessages <- 2, MaxCalls <- 2,
    MaxLength <- [lines |-> 3, stateless |-> 2, hex |-> 2],
    streams_ <- log_streams_, dbg_sev_ <- log_dbg_sev_,
    min_sev_ <- log_min_sev_, crit_ <- log_crit_, updating <- log_updating,
    raced <- log_raced, loggable <- log_loggable, mode <- log_mode,
    unlogged <- log_unlogged, message <- log_message, left <- log_left, heard <- log_heard,
    deleted <- log_deleted, missed <- log_missed, broken <- log_broken,
    crowded <- log_crowded, count <- log_count, calls <- log_calls,
    unprintable_count_ <- log_unprintable_count_, input <- log_input,
    udata <- log_udata, consecutive <- log_consecutive, log <- log_log,
    seen <- log_seen, chunks <- log_chunks
Ownership == INSTANCE Ownership WITH
    Object <- {"o1", "o2"}, Pointer <- DOMAIN Inside, Home <- Inside,
    kind <- owner_kind, ptr <- owner_ptr, prev <- owner_prev,
    next <- owner_next, count <- owner_count, object <- owner_object,
    gone <- owner_gone, todo <- owner_todo, fault <- owner_fault

Part == {"Roster", "RosterContact", "RosterPresence", "ChatRoom",
         "HangoutPubSub", "FifoBuffer", "StreamFlow", "ByteBuffer", "Encodings",
         "Addresses", "XmlNames", "XmlElement", "Sasl", "Sigslot", "Logging",
         "Ownership"}

AllInit ==
    /\ part \in Part
    /\ Roster!Init
    /\ RosterData!Init
    /\ ChatRoom!Init
    /\ HangoutPubSub!Init
    /\ Init
    /\ StreamFlow!Init
    /\ ByteBuffer!Init
    /\ Encodings!Init
    /\ Addresses!Init
    /\ XmlNames!Init
    /\ XmlElement!Init
    /\ Sasl!Init
    /\ Sigslot!Init
    /\ Logging!Init
    /\ Ownership!Init
    /\ (part # "Ownership" => owner_kind = "linked_ptr")
    /\ (part # "ByteBuffer" => bytes_byte_order = "ORDER_NETWORK")
    /\ (part # "XmlElement" => element_meant.attrs = <<>>)

roster_vars ==
    <<roster_engine, roster_alive, roster_contacts, roster_presences,
      roster_bucket, roster_presence_xml, roster_view, roster_told, roster_up,
      roster_down, roster_server, roster_interested, roster_last,
      roster_dead_call, roster_inputs>>
data_vars ==
    <<data_contact_xml, data_groups, data_group_count, data_index_returned,
      data_group_returned, data_next_id, data_miscounted, data_result,
      data_presence_xml, data_presence, data_type, data_wanted, data_calls>>
room_vars ==
    <<room_state, room_nickname, room_members, room_version, room_present,
      room_entered, room_cursor, room_current, room_to_room, room_to_user,
      room_inside, room_room, room_unseen, room_crossed, room_inputs>>
hangout_vars ==
    <<hangout_info_by_itemid, hangout_state_by_key, hangout_heard,
      hangout_tasks, hangout_answers, hangout_asked, hangout_to_room,
      hangout_to_client, hangout_items, hangout_inputs>>
flow_vars ==
    <<flow_seek, flow_start, flow_pos, flow_length, flow_lines, flow_tap,
      flow_tap_result, flow_flow, flow_buffer, flow_end_of_stream, flow_result,
      flow_sink, flow_mark, flow_blocks>>
bytes_vars ==
    <<bytes_bytes, bytes_start, bytes_end, bytes_version, bytes_byte_order,
      bytes_position, bytes_log, bytes_read, bytes_numbers, bytes_got,
      bytes_calls>>
codes_vars ==
    <<codes_call, codes_source, codes_room, codes_coded, codes_decoded,
      codes_fields, codes_flags, codes_used>>
ip_vars ==
    <<ip_address, ip_known, ip_calls, ip_node_name, ip_domain_name,
      ip_resource_name, ip_from>>
xml_vars ==
    <<xml_ns_stack, xml_frames, xml_open, xml_doc, xml_wire, xml_parser,
      xml_sentError_, xml_told, xml_blank, xml_elements>>
element_vars ==
    <<element_children, element_child, element_attrs, element_attr,
      element_cdata_, element_made, element_freed, element_alive,
      element_meant, element_misplaced, element_calls>>
sasl_vars ==
    <<sasl_handler, sasl_pass, sasl_encrypted, sasl_offered, sasl_choice,
      sasl_state, sasl_freed, sasl_sent, sasl_answers>>
slots_vars ==
    <<slots_signals, slots_slots, slots_m_connected_slots, slots_m_senders,
      slots_emitting, slots_ids, slots_misused, slots_calls>>
log_vars ==
    <<log_streams_, log_dbg_sev_, log_min_sev_, log_crit_, log_updating,
      log_message, log_left, log_heard, log_deleted, log_missed, log_broken,
      log_crowded, log_raced, log_count, log_calls, log_unprintable_count_,
      log_loggable, log_input, log_mode, log_udata, log_consecutive, log_log,
      log_seen, log_unlogged, log_chunks>>
owner_vars ==
    <<owner_kind, owner_ptr, owner_prev, owner_next, owner_count, owner_object,
      owner_gone, owner_todo, owner_fault>>
all_vars == <<part, roster_vars, data_vars, room_vars, hangout_vars,
          vars, flow_vars, bytes_vars, codes_vars, ip_vars, xml_vars,
          element_vars, sasl_vars, slots_vars, log_vars, owner_vars>>

RosterStep ==
    /\ part = "Roster" /\ Roster!Next
    /\ UNCHANGED <<part, data_vars, room_vars, hangout_vars, vars, flow_vars,
                   bytes_vars, codes_vars, ip_vars, xml_vars, element_vars,
                   sasl_vars, slots_vars, log_vars, owner_vars>>
RosterDataStep ==
    /\ \/ part = "RosterContact" /\ RosterData!ContactNext
       \/ part = "RosterPresence" /\ RosterData!PresenceNext
    /\ UNCHANGED <<part, roster_vars, room_vars, hangout_vars, vars, flow_vars,
                   bytes_vars, codes_vars, ip_vars, xml_vars, element_vars,
                   sasl_vars, slots_vars, log_vars, owner_vars>>
ChatRoomStep ==
    /\ part = "ChatRoom" /\ ChatRoom!Next
    /\ UNCHANGED <<part, roster_vars, data_vars, hangout_vars, vars, flow_vars,
                   bytes_vars, codes_vars, ip_vars, xml_vars, element_vars,
                   sasl_vars, slots_vars, log_vars, owner_vars>>
HangoutPubSubStep ==
    /\ part = "HangoutPubSub" /\ HangoutPubSub!Next
    /\ UNCHANGED <<part, roster_vars, data_vars, room_vars, vars, flow_vars,
                   bytes_vars, codes_vars, ip_vars, xml_vars, element_vars,
                   sasl_vars, slots_vars, log_vars, owner_vars>>
FifoBufferStep ==
    /\ part = "FifoBuffer" /\ Next
    /\ UNCHANGED <<part, roster_vars, data_vars, room_vars, hangout_vars,
                   flow_vars, bytes_vars, codes_vars, ip_vars, xml_vars,
                   element_vars, sasl_vars, slots_vars, log_vars, owner_vars>>
StreamFlowStep ==
    /\ part = "StreamFlow" /\ StreamFlow!Next
    /\ UNCHANGED <<part, roster_vars, data_vars, room_vars, hangout_vars, vars,
                   bytes_vars, codes_vars, ip_vars, xml_vars, element_vars,
                   sasl_vars, slots_vars, log_vars, owner_vars>>
ByteBufferStep ==
    /\ part = "ByteBuffer" /\ ByteBuffer!Next
    /\ UNCHANGED <<part, roster_vars, data_vars, room_vars, hangout_vars, vars,
                   flow_vars, codes_vars, ip_vars, xml_vars, element_vars,
                   sasl_vars, slots_vars, log_vars, owner_vars>>
EncodingsStep ==
    /\ part = "Encodings" /\ Encodings!Next
    /\ UNCHANGED <<part, roster_vars, data_vars, room_vars, hangout_vars, vars,
                   flow_vars, bytes_vars, ip_vars, xml_vars, element_vars,
                   sasl_vars, slots_vars, log_vars, owner_vars>>
AddressesStep ==
    /\ part = "Addresses" /\ Addresses!Next
    /\ UNCHANGED <<part, roster_vars, data_vars, room_vars, hangout_vars, vars,
                   flow_vars, bytes_vars, codes_vars, xml_vars, element_vars,
                   sasl_vars, slots_vars, log_vars, owner_vars>>
XmlNamesStep ==
    /\ part = "XmlNames" /\ XmlNames!Next
    /\ UNCHANGED <<part, roster_vars, data_vars, room_vars, hangout_vars, vars,
                   flow_vars, bytes_vars, codes_vars, ip_vars, element_vars,
                   sasl_vars, slots_vars, log_vars, owner_vars>>
XmlElementStep ==
    /\ part = "XmlElement" /\ XmlElement!Next
    /\ UNCHANGED <<part, roster_vars, data_vars, room_vars, hangout_vars, vars,
                   flow_vars, bytes_vars, codes_vars, ip_vars, xml_vars,
                   sasl_vars, slots_vars, log_vars, owner_vars>>
SaslStep ==
    /\ part = "Sasl" /\ Sasl!Next
    /\ UNCHANGED <<part, roster_vars, data_vars, room_vars, hangout_vars, vars,
                   flow_vars, bytes_vars, codes_vars, ip_vars, xml_vars,
                   element_vars, slots_vars, log_vars, owner_vars>>
SigslotStep ==
    /\ part = "Sigslot" /\ Sigslot!Next
    /\ UNCHANGED <<part, roster_vars, data_vars, room_vars, hangout_vars, vars,
                   flow_vars, bytes_vars, codes_vars, ip_vars, xml_vars,
                   element_vars, sasl_vars, log_vars, owner_vars>>
LoggingStep ==
    /\ part = "Logging" /\ Logging!Next
    /\ UNCHANGED <<part, roster_vars, data_vars, room_vars, hangout_vars, vars,
                   flow_vars, bytes_vars, codes_vars, ip_vars, xml_vars,
                   element_vars, sasl_vars, slots_vars, owner_vars>>
OwnershipStep ==
    /\ part = "Ownership" /\ Ownership!Next
    /\ UNCHANGED <<part, roster_vars, data_vars, room_vars, hangout_vars, vars,
                   flow_vars, bytes_vars, codes_vars, ip_vars, xml_vars,
                   element_vars, sasl_vars, slots_vars, log_vars>>

AllNext ==
    \/ RosterStep \/ RosterDataStep \/ ChatRoomStep \/ HangoutPubSubStep
    \/ FifoBufferStep \/ StreamFlowStep \/ ByteBufferStep \/ EncodingsStep
    \/ AddressesStep \/ XmlNamesStep \/ XmlElementStep \/ SaslStep
    \/ SigslotStep \/ LoggingStep \/ OwnershipStep

AllSpec == AllInit /\ [][AllNext]_all_vars

-----------------------------------------------------------------------------

(* What is to hold of each module is said where it moves: elsewhere it stands *)
(* in one of its initial states, which are among those that it moves from.    *)

\* The roster module, whatever order pushes, lists and presences come in: a
\* handler that follows the callbacks has the list of the module, the list is
\* the server's when nothing is on its way, and the indexes of the presences
\* hold each one once, with what its contact sent last
\* (XmppRosterModuleImpl::InternalRosterItems, InternalIncomingPresence).
\* A contact never uses a group that is gone or has moved, its count and its
\* groups are those of its element unless a group was added before they were
\* counted, and a presence reads what was set last (XmppRosterContactImpl,
\* XmppPresenceImpl).
RosterFollows ==
    /\ part = "Roster" =>
           /\ Roster!TypeOK /\ Roster!HandlerMirrors /\ Roster!FollowsServer
           /\ Roster!PresenceFollows
    /\ part \in {"RosterContact", "RosterPresence"} =>
           /\ RosterData!TypeOK /\ RosterData!GroupByIndex
           /\ RosterData!AnswersAgree /\ RosterData!PresenceReadsBack

\* A chat room and a hangout: user and room agree once nothing is on its way,
\* unless a status change met a user who had been put out; in every visit
\* members and callbacks are the occupants, and beside them only those who went
\* while the user was outside; statuses alternate; an enumerator that says it is
\* valid is at a member that is still there (XmppChatroomModuleImpl).  The
\* states of a hangout are those of the room once nothing is on its way, and every state
\* that is set has been signalled (PubSubStateClient).
RoomsFollow ==
    /\ part = "ChatRoom" =>
           /\ ChatRoom!TypeOK /\ ChatRoom!RoomAgrees /\ ChatRoom!MembersFollow
           /\ ChatRoom!StatusesAlternate /\ ChatRoom!EnumeratorSafe
    /\ part = "HangoutPubSub" =>
           /\ HangoutPubSub!TypeOK /\ HangoutPubSub!ViewFollowsNode
           /\ HangoutPubSub!ChangesHeard

\* Signals and slots know of each other and an emission calls every slot that
\* stays connected, whatever slots do but connect a slot its signal has already
\* or disconnect during an emission what comes next (sigslot.h); the walk of a
\* message over the log streams is not changed under way, and a lone stream
\* misses nothing unless the list changes within a LogToDebug (logging.cc).  What
\* a smart pointer owns is there, is deleted once, by its last owner, and is not
\* used afterwards (linked_ptr.h, scoped_ref_ptr.h, scoped_ptr.h).
ListenersHear ==
    /\ part = "Sigslot" =>
           /\ Sigslot!TypeOK /\ Sigslot!BothEndsKnow /\ Sigslot!AllCalled
    /\ part = "Logging" =>
           /\ Logging!TypeOK /\ Logging!WalksAreWhole
           /\ Logging!LoneStreamMissesNothing
    /\ part = "Ownership" =>
           /\ Ownership!TypeOK /\ Ownership!Owned /\ Ownership!NothingGoneUsed

\* Who met SR_BLOCK is told when it may go on, but for a writer that only
\* SetCapacity made room for (FifoBuffer); Flow moves every byte once and in
\* order though either side blocks, and ReadLine loses none: a line is cut only
\* where Read blocks or the stream ends (StreamInterface, Flow); a ByteBuffer
\* gives back what was written (bytebuffer.cc).
BytesArrive ==
    /\ part = "FifoBuffer" => /\ TypeOK /\ BlockedIsTold
    /\ part = "StreamFlow" =>
           /\ StreamFlow!TypeOK /\ StreamFlow!FlowKeepsBytes
           /\ StreamFlow!TapAndLines
    /\ part = "ByteBuffer" =>
           /\ ByteBuffer!TypeOK /\ ByteBuffer!KeepsWhatWasWritten
           /\ ByteBuffer!NumbersReadBack

\* What is encoded is decoded to itself, in place too and in any room, and
\* nothing else is accepted by a strict Base64 (stringencode.cc, base64.cc);
\* LogMultiline accounts for each byte and shows only printable characters.  A
\* Jid and an address read back what they print, their orders and prefixes are
\* those of what they stand for (jid.cc, ipaddress.cc, socketaddress.cc).  What
\* is printed of a document is parsed to the same names and, but for the ends of
\* lines, to the same texts, whatever prefixes are in scope and in whatever parts
\* it comes, unless the parser refuses it: for an element of no namespace under a
\* default one, a control character, or the end of CDATA (XmlPrinterImpl,
\* XmlnsStack, XmlParser, XmlBuilder).  The lists of an element are what was put
\* in, after any calls but the insertion of a child behind the last one, which
\* last_child_ does not follow (XmlElement).
ReadsBack ==
    /\ part = "Encodings" =>
           /\ Encodings!TypeOK /\ Encodings!DecodesWhatItEncoded
           /\ Encodings!InPlace /\ Encodings!HexAndUtf8Back
           /\ Encodings!ListsKept /\ Encodings!DecodesOwn
    /\ part = "Logging" =>
           /\ Logging!BytesAccounted /\ Logging!OnlyPrintableLogged
    /\ part = "Addresses" =>
           /\ Addresses!TypeOK /\ Addresses!OrderIsTotal
           /\ Addresses!PrintedIsParsed /\ Addresses!SystemKeepsAddresses
           /\ Addresses!PrefixesKept /\ Addresses!JidReadsBack
           /\ Addresses!BareBelongs
    /\ part = "XmlNames" =>
           /\ XmlNames!TypeOK /\ XmlNames!BuilderFollows
           /\ XmlNames!NamesArrive /\ XmlNames!PrintedAgain
    /\ part = "XmlElement" =>
           /\ XmlElement!TypeOK /\ XmlElement!ListsHold
           /\ XmlElement!WalksVisit

\* The server reads the user and the secret, only as the handler allows, and no
\* storage that held a password is given back with it (PlainSaslHandler,
\* XmppAuth, SaslPlainMechanism, FormatCryptString).
SecretsArrive ==
    /\ part = "Sasl" =>
           /\ Sasl!TypeOK /\ Sasl!ServerReadsSecret /\ Sasl!NothingLeftBehind
           /\ Sasl!SentAsAllowed
=============================================================================
