----------------------------- MODULE MCPeering -----------------------------
(* Endpoints with several relays, none, a relay whose URL looks like more  *)
(* fields of a ticket, and IPv6 addresses, which need escapes.             *)
EXTENDS Peering

Relay(url) == [kind |-> "Relay", value |-> <<"https://">> \o url]
Direct(host, port) == [kind |-> "Ip", value |-> host \o <<":">> \o port]
Custom == [kind |-> "Custom", value |-> <<"x">>]

PlainRelay == Relay(<<"r", "e", "/">>)
OddRelay == Relay(<<"r", "/", "?", "&", "direct", "=", "ip4", ":", "2">>)
PercentRelay == Relay(<<"r", "/", "%", "2", "5">>)
V4 == Direct(<<"ip4">>, <<"1", "2">>)
V6 == Direct(<<"[", "ip6", "]">>, <<"1">>)
Scoped == Direct(<<"[", "ip6", "%", "1", "]">>, <<"1", "1">>)

MCChars == STRING

MCEndpoints ==
    {"s1" :> addrs @@ "s2" :> <<V4>> : addrs \in
       {<<>>, <<Custom, PlainRelay, V4, Scoped>>, <<OddRelay, PercentRelay, V6>>,
        <<PlainRelay, OddRelay, V4, V6>>, <<Scoped, V4>>}}
=============================================================================
