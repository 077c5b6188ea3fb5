---------------------------- MODULE MCTspSession ----------------------------
(* Instance of TspSession for TLC.                                         *)
EXTENDS TspSession

S1 == [host |-> "b1", port |-> -1]
S2 == [host |-> "b2", port |-> 3653]
S3 == [host |-> "b2", port |-> 65536]
MCServers == {S1, S2, S3}

Base == [server |-> S1, transport |-> "TCP", tunnel_mode |-> "V6ANYV4", auth_method |-> "any",
         client_v4 |-> "auto", keepalive |-> TRUE, proxy_client |-> FALSE, host_type |-> "router",
         prefixlen |-> 0, dns_server |-> <<"d1", "d2">>, no_questions |-> TRUE, nodaemon |-> FALSE]
MCConfigs == {Base, [Base EXCEPT !.auth_method = "ANONYMOUS", !.nodaemon = TRUE,
                                 !.tunnel_mode = "V6V4", !.client_v4 = "10.0.0.9", !.host_type = "host"]}
AutoConfigs == {[Base EXCEPT !.auth_method = "PLAIN"]}

MCKeys == {[p |-> 255, q |-> 1, g |-> 256, pub_key |-> 65535],
           [p |-> 255, q |-> 1, g |-> 0, pub_key |-> 65535]}

MCOffers == {{<<"TUNNEL", "V6V4">>, <<"TUNNEL", "V6UDPV4">>, <<"AUTH", "PASSDSS-3DES-1">>, <<"AUTH", "ANONYMOUS">>},
             {<<"TUNNEL", "V6UDPV4">>, <<"AUTH", "DIGEST-MD5">>, <<"AUTH", "PLAIN">>, <<"AUTH", "NEW">>},
             {<<"TUNNEL", "V6V4">>, <<"AUTH", "PLAIN">>}}

Node(path, attr, content) == [path |-> path, attr |-> attr, content |-> content]
Tunnel == <<"tunnel">>
Server == <<"tunnel", "server">>
Client == <<"tunnel", "client">>
Address(end, kind, content) == Node(Append(end, "address"), kind, content)
Doc(type, a6) ==
  <<Node(Tunnel, type, ""),
    Node(Server, NULL, ""), Address(Server, "ipv4", "s4"), Address(Server, "ipv6", "s6"),
    Node(Client, NULL, ""), Address(Client, "ipv4", "c4"), Address(Client, "ipv6", a6), Address(Client, "dn", "name"),
    Node(Client \o <<"dns_server">>, NULL, ""), Address(Client \o <<"dns_server">>, "ipv6", "d6"),
    Node(Client \o <<"router">>, "static", ""), Node(Client \o <<"router", "prefix">>, "48", "p6"),
    Node(Client \o <<"router", "as">>, "23456", ""),
    Node(Client \o <<"router", "dns_server">>, NULL, ""), Address(Client \o <<"router", "dns_server">>, "ipv6", "d7"),
    Node(Client \o <<"keepalive">>, "30", ""), Address(Client \o <<"keepalive">>, "ipv6", "k6")>>

\* Neither the tunnel nor an address of the client has a type, and the server's
\* addresses come last, with a router that has a name server.
Untyped == [Doc(NULL, "a1") EXCEPT ![6].attr = NULL]
ServerRouter ==
  SubSeq(Untyped, 1, 1) \o SubSeq(Untyped, 5, 17) \o SubSeq(Untyped, 2, 4)
    \o <<Node(Server \o <<"router">>, "static", ""), Node(Server \o <<"router", "dns_server">>, NULL, ""),
         Address(Server \o <<"router", "dns_server">>, "ipv4", "d4")>>

MCAnswers == {Doc("v6v4", "a1"), Doc("v6udpv4", "a2"), Doc("v4v6", "a1"), Doc("v6udpv4", "bad"), ServerRouter,
              [Doc("v6v4", "a1") EXCEPT ![3].path = <<"?">> \o @]}

MCRedirections == {<<Node(Tunnel, "v6v4", ""), Node(<<"tunnel", "broker">>, NULL, ""),
                     Address(<<"tunnel", "broker">>, "ipv4", "b4")>>}

MCLeftovers == {"v6udpv4", Fault}
=============================================================================
