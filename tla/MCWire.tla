------------------------------- MODULE MCWire -------------------------------
(***************************************************************************)
(* Wire with objects of every kind: the handshake's with the lengths the   *)
(* server and client give them, the others with texts whose lengths are    *)
(* around the boundaries: of alignment, of the short length byte (253 and  *)
(* 254), and those that bring a frame near 127 bytes.                      *)
(***************************************************************************)
EXTENDS Wire

Lengths == {0, 1, 2, 3, 4, 53, 54, 55, 253, 254, 255}
I64(n) == LE(n, 4) \o Zero
Nonce(n) == [i \in 1..16 |-> n]
Text(n) == [i \in 1..n |-> 97]
O(k, b) == [kind |-> k, body |-> b]
Plain(o) == [sealed |-> FALSE, outer |-> o, inner |-> {}]
Sealed(o) == [sealed |-> TRUE, outer |-> o, inner |-> {}]
Enclosing(o, i) == [sealed |-> FALSE, outer |-> o, inner |-> {i}]

PqInner == O("PqInnerData",
    [pq |-> Text(8), p |-> Text(4), q |-> <<5, 6, 7, 8>>, nonce |-> Nonce(1),
     server_nonce |-> Nonce(2), new_nonce |-> Text(32)])
ServerInner == O("ServerDHInnerData",
    [nonce |-> Nonce(1), server_nonce |-> Nonce(2), g |-> LE(2, 4),
     dh_prime |-> Text(256), g_a |-> Text(255), server_time |-> LE(0, 4)])
ClientInner == O("ClientDHInnerData",
    [nonce |-> Nonce(1), server_nonce |-> Nonce(2), retry_id |-> I64(0),
     g_b |-> Text(256)])

Handshake ==
    {Plain(O("ReqPq", [nonce |-> Nonce(1)])),
     Plain(O("ResPQ", [nonce |-> Nonce(1), server_nonce |-> Nonce(2),
        pq |-> Text(8), p |-> Text(4), q |-> <<5, 6, 7, 8>>,
        server_public_key_fingerprints |-> <<I64(7)>>])),
     Enclosing(O("ReqDHParams", [nonce |-> Nonce(1), server_nonce |-> Nonce(2),
        p |-> Text(4), q |-> <<5, 6, 7, 8>>, public_key_fingerprint |-> I64(7),
        encrypted_data |-> <<>>]), PqInner),
     Enclosing(O("ServerDHParamsOk", [nonce |-> Nonce(1),
        server_nonce |-> Nonce(2), encrypted_answer |-> <<>>,
        signature |-> Text(64)]), ServerInner),
     Enclosing(O("SetClientDHParams", [nonce |-> Nonce(1),
        server_nonce |-> Nonce(2), encrypted_data |-> <<>>]), ClientInner),
     Plain(O("DHGenOk", [nonce |-> Nonce(1), server_nonce |-> Nonce(2),
        new_nonce_hash1 |-> Nonce(3)]))}

Msg(n, read) == [id |-> I64(1), chat_id |-> I64(2), sender_id |-> I64(3),
    text |-> Text(n), timestamp |-> I64(400), is_outgoing |-> TRUE,
    read |-> read, delivered |-> ~read]
Info(n, people, last) == [id |-> I64(1), title |-> Text(n),
    is_group |-> (people > 2), participants |-> [i \in 1..people |-> I64(i)],
    last_message |-> last, unread_count |-> LE(0, 4)]

Texts ==
    UNION {{O("SendMessage", [chat_id |-> I64(1), text |-> Text(n),
                              random_id |-> I64(999)]),
            O("SignUp", [phone |-> Text(3), password |-> Text(n)]),
            O("Message", Msg(n, n = 0)),
            O("CreateGroup", [title |-> Text(n), participants |-> <<I64(1)>>]),
            O("DialogInfo", Info(n, 2, <<Msg(0, TRUE)>>))} : n \in Lengths}

Others ==
    {O("SendMessageAck", [message_id |-> I64(1)]),
     O("GetHistory", [chat_id |-> I64(1), offset |-> LE(1, 4), limit |-> LE(2, 4)]),
     O("UserStatusUpdate", [user_id |-> I64(1), status |-> "LastMonth"]),
     O("UserStatusUpdate", [user_id |-> I64(1), status |-> "Online"]),
     O("Chat", [id |-> I64(1), title |-> Text(5), participants |-> <<>>,
                is_group |-> FALSE]),
     O("CreatePrivateDialog", [user_id |-> I64(1)]),
     O("AddGroupParticipant", [dialog_id |-> I64(1), user_id |-> I64(2)]),
     O("RemoveGroupParticipant", [dialog_id |-> I64(1), user_id |-> I64(2)]),
     O("GetDialogs", <<>>)}
    \cup {O("HistoryResult", [messages |-> [i \in 1..n |-> Msg(i, FALSE)],
                              total_count |-> LE(n, 4)]) : n \in 0..3}
    \cup {O("DialogList", [dialogs |-> [i \in 1..n |-> Info(0, 0, <<>>)]]) :
              n \in 0..4}
    \cup {O("DialogInfo", Info(n, n, <<>>)) : n \in 0..3}

MCItems == Handshake \cup {Sealed(o) : o \in Texts \cup Others}
MCFollowers ==
    {item \in MCItems : item.outer.kind \in {"ReqPq", "SendMessageAck"}}
MCPayloads == UNION {{Payload(o, item.sealed) : o \in Enclosed(item)} :
                     item \in MCItems}
MCPieces == {1, 3}
=============================================================================
