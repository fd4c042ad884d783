------------------------------- MODULE TlCodec -------------------------------
(***************************************************************************)
(* The TL serialisation of kosta-core: primitive types, vectors, options,  *)
(* and the structures of constructors.rs with their constructor ids.       *)
(*                                                                         *)
(* Bytes are numbers 0..255.  Where a number is only carried (ids, times,  *)
(* nonces) the value is its bytes in memory order, which to_le_bytes and   *)
(* from_le_bytes keep; where the code computes with it (lengths, counts,   *)
(* flags, codes) it is converted.  An optional value is a sequence of at   *)
(* most one element.                                                       *)
(*                                                                         *)
(* A type is a sequence: a vector or option is followed by what it holds.  *)
(***************************************************************************)
EXTENDS Octets, SequencesExt

(* Little-endian, of a number of w bytes.                                  *)
LE(n, w) == [i \in 1..w |-> (n \div 256 ^ (i - 1)) % 256]
FromLE(s) == FoldLeft(LAMBDA n, b : 256 * n + b, 0, Reverse(s))
-----------------------------------------------------------------------------
(* The structures.  Each write_bytes writes the fields in the order given  *)
(* here, and each read_bytes reads them in it.                             *)

Int32(f) == <<f, <<"int">>>>
Long(f) == <<f, <<"long">>>>
Int128(f) == <<f, <<"int128">>>>
Int256(f) == <<f, <<"int256">>>>
Bytes(f) == <<f, <<"bytes">>>>
Bool(f) == <<f, <<"bool">>>>
VectorOf(type, f) == <<f, <<"vector", type>>>>

HandshakeFields == [
    ReqPq |-> <<Int128("nonce")>>,
    ResPQ |-> <<Int128("nonce"), Int128("server_nonce"), Bytes("pq"),
                Bytes("p"), Bytes("q"), VectorOf("long", "server_public_key_fingerprints")>>,
    PqInnerData |-> <<Bytes("pq"), Bytes("p"), Bytes("q"), Int128("nonce"),
                      Int128("server_nonce"), Int256("new_nonce")>>,
    ReqDHParams |-> <<Int128("nonce"), Int128("server_nonce"), Bytes("p"),
                      Bytes("q"), Long("public_key_fingerprint"), Bytes("encrypted_data")>>,
    ServerDHParamsOk |-> <<Int128("nonce"), Int128("server_nonce"),
                           Bytes("encrypted_answer"), Bytes("signature")>>]
ExchangeFields == [
    ServerDHInnerData |-> <<Int128("nonce"), Int128("server_nonce"), Int32("g"),
                            Bytes("dh_prime"), Bytes("g_a"), Int32("server_time")>>,
    ClientDHInnerData |-> <<Int128("nonce"), Int128("server_nonce"),
                            Long("retry_id"), Bytes("g_b")>>,
    SetClientDHParams |-> <<Int128("nonce"), Int128("server_nonce"),
                            Bytes("encrypted_data")>>,
    DHGenOk |-> <<Int128("nonce"), Int128("server_nonce"),
                  Int128("new_nonce_hash1")>>]
MessageFields == [
    Message |-> <<Long("id"), Long("chat_id"), Long("sender_id"),
                  Bytes("text"), Long("timestamp"), Bool("is_outgoing"),
                  Bool("read"), Bool("delivered")>>,
    Chat |-> <<Long("id"), Bytes("title"), VectorOf("long", "participants"),
               Bool("is_group")>>,
    SendMessage |-> <<Long("chat_id"), Bytes("text"), Long("random_id")>>,
    SendMessageAck |-> <<Long("message_id")>>,
    GetHistory |-> <<Long("chat_id"), Int32("offset"), Int32("limit")>>]
UserFields == [
    HistoryResult |-> <<VectorOf("Message", "messages"), Int32("total_count")>>,
    UserStatusUpdate |-> <<Long("user_id"), <<"status", <<"status">>>>>>,
    SignUp |-> <<Bytes("phone"), Bytes("password")>>]
DialogFields == [
    DialogInfo |-> <<Long("id"), Bytes("title"), Bool("is_group"),
                     VectorOf("long", "participants"),
                     <<"last_message", <<"option", "Message">>>>,
                     Int32("unread_count")>>,
    DialogList |-> <<VectorOf("DialogInfo", "dialogs")>>,
    CreatePrivateDialog |-> <<Long("user_id")>>,
    CreateGroup |-> <<Bytes("title"), VectorOf("long", "participants")>>,
    AddGroupParticipant |-> <<Long("dialog_id"), Long("user_id")>>,
    RemoveGroupParticipant |-> <<Long("dialog_id"), Long("user_id")>>,
    GetDialogs |-> <<>>]

Tables == <<HandshakeFields, ExchangeFields, MessageFields, UserFields,
            DialogFields>>
Kinds == UNION {DOMAIN Tables[i] : i \in DOMAIN Tables}
Fields == [k \in Kinds |-> LET i == CHOOSE j \in DOMAIN Tables : k \in DOMAIN Tables[j]
                           IN  Tables[i][k]]

(* The constructor ids, as the source writes them.                         *)
Id == [
    ReqPq |-> <<\h60, \h46, \h97, \h78>>,
    ResPQ |-> <<\h9a, \h2b, \h3c, \h4d>>,
    PqInnerData |-> <<\h83, \hc9, \h5a, \hec>>,
    ReqDHParams |-> <<\hd7, \h12, \he4, \hbe>>,
    ServerDHParamsOk |-> <<\hd0, \he6, \h04, \h41>>,
    ServerDHInnerData |-> <<\hb5, \h89, \h0d, \hba>>,
    ClientDHInnerData |-> <<\h66, \h43, \hb6, \h54>>,
    SetClientDHParams |-> <<\hf5, \h04, \h5f, \h1f>>,
    DHGenOk |-> <<\h3b, \hcb, \hf7, \h34>>,
    Message |-> <<\h9b, \h9c, \h4b, \h5d>>,
    Chat |-> <<\h7a, \h8f, \h3c, \h1e>>,
    SendMessage |-> <<\h1a, \h2b, \h3c, \h4d>>,
    SendMessageAck |-> <<\h2b, \h3c, \h4d, \h5e>>,
    GetHistory |-> <<\h3c, \h4d, \h5e, \h6f>>,
    HistoryResult |-> <<\h4d, \h5e, \h6f, \h70>>,
    UserStatusUpdate |-> <<\h5e, \h6f, \h70, \h81>>,
    SignUp |-> <<\h8a, \h9b, \h7c, \h6d>>,
    CreatePrivateDialog |-> <<\ha1, \hb2, \hc3, \hd4>>,
    CreateGroup |-> <<\hb2, \hc3, \hd4, \he5>>,
    AddGroupParticipant |-> <<\hc3, \hd4, \he5, \hf6>>,
    RemoveGroupParticipant |-> <<\hd4, \he5, \hf6, \h07>>,
    GetDialogs |-> <<\hf6, \h07, \h18, \h29>>,
    DialogInfo |-> <<\h07, \h18, \h29, \h3a>>,
    DialogList |-> <<\h18, \h29, \h3a, \h4b>>]
-----------------------------------------------------------------------------
(* Writing *)

Width == [int |-> 4, long |-> 8, int128 |-> 16, int256 |-> 32]
Statuses == <<"Online", "Offline", "Typing", "Recently", "LastWeek", "LastMonth">>

(* What write_tl_bytes puts behind n bytes, and read_tl_bytes skips: the   *)
(* length in front is not counted.                                         *)
Padding_None(n) == 0
Padding(n) == (4 - (n % 4)) % 4

WriteBytes(s) ==
    (IF Len(s) <= 253 THEN <<Len(s)>> ELSE <<254>> \o LE(Len(s), 3))
        \o s \o [i \in 1..Padding(Len(s)) |-> 0]

RECURSIVE Write(_, _)
Write(type, v) ==
    LET t == Head(type)
    IN  CASE t \in DOMAIN Width -> v
          [] t = "bytes" -> WriteBytes(v)
          [] t = "bool" -> LE(IF v THEN 1 ELSE 0, 4)
          [] t = "status" -> LE((CHOOSE i \in 1..6 : Statuses[i] = v) - 1, 4)
          [] t \in {"vector", "option"} ->
                 LE(Len(v), 4)
                 \o FlattenSeq([i \in DOMAIN v |-> Write(Tail(type), v[i])])
          [] t \in Kinds ->
                 FlattenSeq([i \in DOMAIN Fields[t] |->
                     Write(Fields[t][i][2], v[Fields[t][i][1]])])

WriteBoxed(o) == Reverse(Id[o.kind]) \o Write(<<o.kind>>, o.body)
-----------------------------------------------------------------------------
(* Reading *)

ReadBytes_ShortOnly(in) ==
    UNION {{Is(SubSeq(d.value, 1, n.value[1]), d.rest) :
               d \in Take(n.rest, n.value[1] + Padding(n.value[1]))} :
           n \in Take(in, 1)}
ReadBytes(in) ==
    LET lengths == UNION {IF n.value[1] = 254
                          THEN {Is(FromLE(l.value), l.rest) : l \in Take(n.rest, 3)}
                          ELSE {Is(n.value[1], n.rest)} : n \in Take(in, 1)}
    IN  UNION {{Is(SubSeq(d.value, 1, n.value), d.rest) :
                   d \in Take(n.rest, n.value + Padding(n.value))} : n \in lengths}

Zero == <<0, 0, 0, 0>>
RECURSIVE Read(_, _), ReadAll(_, _)
(* One value after the other, each of its type.                            *)
ReadAll(types, in) ==
    IF types = <<>> THEN {Is(<<>>, in)}
    ELSE UNION {{Is(<<first.value>> \o others.value, others.rest) :
                    others \in ReadAll(Tail(types), first.rest)} :
                first \in Read(Head(types), in)}
(* A vector that claims more elements than there are bytes cannot be read. *)
(* The program asks for memory for all it claims first, and may end there  *)
(* if the count is negative or huge; no object that is sent claims so.     *)
ReadVector(type, in) ==
    UNION {IF n.value[4] # 0 \/ FromLE(n.value) > Len(n.rest) THEN {}
           ELSE ReadAll([i \in 1..FromLE(n.value) |-> type], n.rest) :
           n \in Take(in, 4)}
ReadStruct(k, in) ==
    LET f == Fields[k]
        at(name) == CHOOSE i \in DOMAIN f : f[i][1] = name
    IN  {Is([name \in {f[i][1] : i \in DOMAIN f} |-> r.value[at(name)]], r.rest) :
             r \in ReadAll([i \in DOMAIN f |-> f[i][2]], in)}
Read(type, in) ==
    LET t == Head(type)
    IN  CASE t \in DOMAIN Width -> Take(in, Width[t])
          [] t = "bytes" -> ReadBytes(in)
          [] t = "bool" -> {Is(n.value # Zero, n.rest) : n \in Take(in, 4)}
          [] t = "status" ->
                 {Is(Statuses[n.value[1] + 1], n.rest) :
                     n \in {m \in Take(in, 4) : /\ m.value[1] < 6
                                               /\ Tail(m.value) = <<0, 0, 0>>}}
          [] t = "vector" -> ReadVector(Tail(type), in)
          [] t = "option" ->
                 UNION {IF n.value = Zero THEN {Is(<<>>, n.rest)}
                        ELSE ReadAll(<<Tail(type)>>, n.rest) : n \in Take(in, 4)}
          [] t \in Kinds -> ReadStruct(t, in)

(* Bytes behind the object are left alone.                                 *)
ReadBoxed(in) ==
    UNION {{[kind |-> k, body |-> r.value] : r \in Read(<<k>>, id.rest)} :
           <<id, k>> \in {p \in Take(in, 4) \X Kinds :
                            Reverse(Id[p[2]]) = p[1].value}}
=============================================================================
