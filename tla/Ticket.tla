------------------------------- MODULE Ticket -------------------------------
(***************************************************************************)
(* PeerTicket (src/transport/p2p.rs): the line of text by which a sender   *)
(* tells a receiver, over any chat, how to reach its iroh endpoint.        *)
(*                                                                         *)
(* The scheme, an endpoint id, a field name and the part of an address     *)
(* that cannot be shortened to another valid one are each one character;   *)
(* the hosts of URLs and the port numbers are not.                         *)
(***************************************************************************)
EXTENDS Text

CONSTANTS
    Chars,       \* the characters
    EndpointIds  \* those among them that are endpoint ids

SCHEME == "ksp-share://"

(* What iroh knows of an endpoint: its addresses, in the order of their    *)
(* set.                                                                    *)
TransportAddr == [kind : {"Relay", "Ip", "Custom"}, value : Seq(Chars)]
EndpointAddr == [id : EndpointIds, addrs : Seq(TransportAddr)]

(* A ticket without addresses, and one with an address more: of several    *)
(* relays the last, and no address of other kinds.                         *)
NoAddrs(id) == [id |-> id, relay |-> None, direct |-> <<>>]
WithAddr(ticket, a) ==
    CASE a.kind = "Relay" -> [ticket EXCEPT !.relay = Some(a.value)]
      [] a.kind = "Ip" -> [ticket EXCEPT !.direct = Append(@, a.value)]
      [] OTHER -> ticket

FromAddr(addr) == FoldLeft(WithAddr, NoAddrs(addr.id), addr.addrs)

(* The relay, then the direct addresses. *)
Addrs(ticket) ==
    (IF ticket.relay = None THEN <<>>
     ELSE <<[kind |-> "Relay", value |-> UnwrapOr(ticket.relay, <<>>)]>>)
      \o [i \in DOMAIN ticket.direct |-> [kind |-> "Ip", value |-> ticket.direct[i]]]

ToAddr(ticket) == [id |-> ticket.id, addrs |-> Range(Addrs(ticket))]

-----------------------------------------------------------------------------
(* Percent escapes.  Code has the characters in use that are not safe. *)

Code ==
    [c \in {"%", "&", "=", "?", "[", "]"} |->
       CASE c = "%" -> 37 [] c = "&" -> 38 [] c = "=" -> 61
         [] c = "?" -> 63 [] c = "[" -> 91 [] c = "]" -> 93]

HexDigits ==
    <<"0", "1", "2", "3", "4", "5", "6", "7", "8", "9", "A", "B", "C", "D", "E", "F">>
LowerHexDigits ==
    <<"0", "1", "2", "3", "4", "5", "6", "7", "8", "9", "a", "b", "c", "d", "e", "f">>

HexDigit(nibble) == HexDigits[nibble + 1]

HexValue ==
    [d \in Range(HexDigits) \cup Range(LowerHexDigits) |->
       CHOOSE n \in 0..15 : d \in {HexDigits[n + 1], LowerHexDigits[n + 1]}]

ASSUME TicketAssumption ==
    /\ EndpointIds \subseteq Chars \ {"?", "%"}
    /\ {SCHEME, "relay", "direct", "/"} \cup DOMAIN Code \cup Range(HexDigits) \subseteq Chars

Unescaped(text) == text  \* seeded fault

PercentEncode(text) ==
    FlattenSeq([i \in DOMAIN text |->
        IF text[i] \in DOMAIN Code
        THEN <<"%", HexDigit(Code[text[i]] \div 16), HexDigit(Code[text[i]] % 16)>>
        ELSE <<text[i]>>])

(* Every "%" opens an escape of two hex digits.  A seeded fault lets an    *)
(* escape pass that the end of the text cuts short.                        *)
EscapesOkOrCut(text) ==
    \A i \in DOMAIN text :
      text[i] = "%" => \A j \in {i + 1, i + 2} \cap DOMAIN text : text[j] \in DOMAIN HexValue

EscapesOk(text) ==
    \A i \in DOMAIN text :
      text[i] = "%" => /\ i + 2 <= Len(text)
                       /\ text[i + 1] \in DOMAIN HexValue
                       /\ text[i + 2] \in DOMAIN HexValue

PercentDecode(text) ==
    LET byte(i) == 16 * HexValue[text[i + 1]] + HexValue[text[i + 2]]
        escape == {i \in DOMAIN text : text[i] = "%" /\ i + 2 <= Len(text)}
        piece(i) == CASE i \in escape -> <<CHOOSE c \in DOMAIN Code : Code[c] = byte(i)>>
                      [] {i - 1, i - 2} \cap escape # {} -> <<>>
                      [] OTHER -> <<text[i]>>
    IN FlattenSeq([i \in DOMAIN text |-> piece(i)])

-----------------------------------------------------------------------------
(* encode.  The first field follows a question mark, the others an         *)
(* ampersand; in a seeded fault they all follow question marks.            *)

Key == [Relay |-> "relay", Ip |-> "direct"]

FieldAnew(separator, a) == <<"?", Key[a.kind], "=">> \o PercentEncode(a.value)

Field(separator, a) == <<separator, Key[a.kind], "=">> \o PercentEncode(a.value)

Encode(ticket) ==
    LET addrs == Addrs(ticket)
    IN <<SCHEME, ticket.id>>
         \o FlattenSeq([i \in DOMAIN addrs |-> Field(IF i = 1 THEN "?" ELSE "&", addrs[i])])

-----------------------------------------------------------------------------
(* decode. *)

(* RelayUrl::from_str: a URL with a host; the path "/" is supplied. *)
ParseRelayUrl(v) ==
    IF Len(v) > 1 /\ v[1] = "https://" /\ v[2] \notin {"/", "?"}
    THEN Some(IF Contains(v, "/") THEN v ELSE Append(v, "/"))
    ELSE None

(* SocketAddr::from_str: an IPv4 address, or an IPv6 address in brackets,  *)
(* perhaps with a scope; and a port.                                       *)
Ip == {<<"ip4">>, <<"[", "ip6", "]">>, <<"[", "ip6", "%", "1", "]">>}
ParseSocketAddr(v) ==
    IF \E host \in Ip :
         /\ IsPrefix(Append(host, ":"), v)
         /\ Len(v) > Len(host) + 1
         /\ \A i \in (Len(host) + 2)..Len(v) : v[i] \in Range(SubSeq(HexDigits, 1, 10))
    THEN Some(v)
    ELSE None

(* One field: its address, None if it is refused.  A seeded fault takes    *)
(* every value for a valid address.                                        *)
FieldUnparsed(kv) ==
    IF Contains(kv, "=")
    THEN Some([kind |-> "Ip", value |-> From(kv, Len(UpTo(kv, {"="})) + 2)]) ELSE None

ParseAddr(key, v) ==
    CASE key = <<"relay">> -> {[kind |-> "Relay", value |-> url] : url \in ParseRelayUrl(v)}
      [] key = <<"direct">> -> {[kind |-> "Ip", value |-> a] : a \in ParseSocketAddr(v)}
      [] OTHER -> None

ParseField(kv) ==
    LET key == UpTo(kv, {"="})
        escaped == From(kv, Len(key) + 2)
    IN IF ~Contains(kv, "=") \/ ~EscapesOk(escaped) THEN None
       ELSE ParseAddr(key, PercentDecode(escaped))

(* The loop over the fields, and its early return. *)
AddField(ticket, kv) ==
    IF kv = <<>> THEN ticket ELSE {WithAddr(t, a) : t \in ticket, a \in ParseField(kv)}

Decode(text) ==
    LET rest == Tail(text)
        id == UpTo(rest, {"?"})
        query == From(rest, Len(id) + 2)
    IN IF text = <<>> \/ text[1] # SCHEME \/ Len(id) # 1 \/ id[1] \notin EndpointIds
       THEN None
       ELSE FoldLeft(AddField, Some(NoAddrs(id[1])), Split(query, "&"))
=============================================================================
