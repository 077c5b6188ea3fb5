------------------------------- MODULE TspXml -------------------------------
(***************************************************************************)
(* The XML of the tunnel negotiation: the request (xml_req.c), the parser  *)
(* driven by node tables (xmlparse.c) and the procedures that fill in a    *)
(* tTunnel (xml_tun.c).                                                    *)
(*                                                                         *)
(* A document is the sequence of its nodes in the order in which           *)
(* XMLParse() meets them, a node before those inside it: the path of names *)
(* that leads to the node, the value of its attribute (the tunnel's type;  *)
(* the others of that node are not used), its content.  What XMLParse()    *)
(* passes over, such as the text and the nodes after text at the beginning *)
(* of a node, is not in it; where it meets nodes twice, after a node       *)
(* closed at once (<x/>), they are in it twice.  A node that it cannot     *)
(* read has "?" before its path, or only that if its start tag cannot be   *)
(* read either.  NULL is a pointer that was not set.                       *)
(***************************************************************************)
EXTENDS Sequences, SequencesExt

CONSTANT Leftovers   \* what a string that was freed may read as; Fault: a signal

NULL  == "NULL"
Fault == "fault"

\* The node tables: which names are known below which path.
Tables ==
  {<<"tunnel">>, <<"tunnel", "server">>, <<"tunnel", "client">>, <<"tunnel", "broker">>,
   <<"tunnel", "server", "address">>, <<"tunnel", "server", "router">>,
   <<"tunnel", "server", "router", "prefix">>, <<"tunnel", "server", "router", "as">>,
   <<"tunnel", "server", "router", "dns_server">>,
   <<"tunnel", "server", "router", "dns_server", "address">>,
   <<"tunnel", "client", "address">>,
   <<"tunnel", "client", "dns_server">>, <<"tunnel", "client", "dns_server", "address">>,
   <<"tunnel", "client", "router">>, <<"tunnel", "client", "router", "prefix">>,
   <<"tunnel", "client", "router", "as">>, <<"tunnel", "client", "router", "dns_server">>,
   <<"tunnel", "client", "router", "dns_server", "address">>,
   <<"tunnel", "client", "keepalive">>, <<"tunnel", "client", "keepalive", "address">>,
   <<"tunnel", "broker", "address">>}

findNode(path) == path \in Tables

\* The attributes that a procedure reads: one value for each entry of a table, in
\* the program's data.  The client and the server share the table of the router.
Entry(path) == <<IF Len(path) = 1 THEN "" ELSE path[Len(path) - 1], Last(path)>>
Entries ==
  {Entry(path) : path \in {p \in Tables : Last(p) \in {"tunnel", "address", "router", "prefix", "as", "keepalive"}}}

\* An entry's value is the set of what reading it may give.  None is ever reset.
Unset == [e \in Entries |-> {NULL}]

\* The values point into a copy of the text that lives as long as the call of
\* XMLParse() that has found them.
AllFreed(attributes) == [e \in Entries |-> IF attributes[e] = {NULL} THEN {NULL} ELSE Leftovers]

\* The attributes once the start tag of a node was read: its own is stored, what an
\* earlier call stored below it is gone.
Stored(attributes, n) ==
  [e \in Entries |->
     IF e = Entry(n.path) /\ n.attr # NULL THEN {n.attr}
     ELSE IF e[1] = Last(n.path) THEN AllFreed(attributes)[e]
     ELSE attributes[e]]

\* memset(t, 0, sizeof(tTunnel)).
ClearTunnel ==
  [type |-> NULL,
   client_address_ipv4 |-> NULL, client_address_ipv6 |-> NULL, client_dns_name |-> NULL,
   client_dns_server_address_ipv6 |-> NULL,
   server_address_ipv4 |-> NULL, server_address_ipv6 |-> NULL,
   router_protocol |-> NULL, prefix |-> NULL, prefix_length |-> NULL,
   keepalive_interval |-> NULL, keepalive_address |-> NULL,
   dns_server_address_ipv4 |-> <<>>, dns_server_address_ipv6 |-> <<>>,
   broker_redirect_ipv4 |-> <<>>, broker_redirect_ipv6 |-> <<>>, broker_redirect_dn |-> <<>>]

Assign(t, field, str) == IF str = NULL THEN t ELSE [t EXCEPT ![field] = str]

\* The new element becomes the head of the list.
AssignToList(t, field, str) ==
  IF str = NULL THEN t ELSE [t EXCEPT ![field] = <<str>> \o @]

\* The address of a client, by the value of its attribute "type"; one without
\* a meaning there is ignored.
ClientAddress(t, type, content) ==
  CASE type = "ipv4" -> Assign(t, "client_address_ipv4", content)
    [] type = "ipv6" -> Assign(t, "client_address_ipv6", content)
    [] type = "dn"   -> Assign(t, "client_dns_name", content)
    [] OTHER         -> t

ServerAddress(t, type, content) ==
  CASE type = "ipv4" -> Assign(t, "server_address_ipv4", content)
    [] type = "ipv6" -> Assign(t, "server_address_ipv6", content)
    [] OTHER         -> t

BrokerAddress(t, type, content) ==
  CASE type = "ipv4" -> AssignToList(t, "broker_redirect_ipv4", content)
    [] type = "ipv6" -> AssignToList(t, "broker_redirect_ipv6", content)
    [] type = "dn"   -> AssignToList(t, "broker_redirect_dn", content)
    [] OTHER         -> t

KeepaliveAddress(t, type, content) ==
  IF type \in {"ipv4", "ipv6"} THEN Assign(t, "keepalive_address", content) ELSE t

RouterAddress(t, type, content) ==
  CASE type = "ipv4" -> AssignToList(t, "dns_server_address_ipv4", content)
    [] type = "ipv6" -> AssignToList(t, "dns_server_address_ipv6", content)
    [] OTHER         -> t

DnsServerAddress(t, type, content) ==
  IF type = "ipv6" THEN Assign(t, "client_dns_server_address_ipv6", content) ELSE t

\* The flags client, server, keepalive, router, dns_server and broker say
\* inside which nodes the address stands; the server's are one.
PROC_address(t, path, type, content) ==
  CASE path = <<"tunnel", "client", "keepalive", "address">>            -> KeepaliveAddress(t, type, content)
    [] path = <<"tunnel", "client", "router", "dns_server", "address">> -> RouterAddress(t, type, content)
    [] path = <<"tunnel", "client", "dns_server", "address">>           -> DnsServerAddress(t, type, content)
    [] path = <<"tunnel", "client", "address">>                         -> ClientAddress(t, type, content)
    [] path \in {<<"tunnel", "server", "address">>,
                 <<"tunnel", "server", "router", "dns_server", "address">>} -> ServerAddress(t, type, content)
    [] path = <<"tunnel", "broker", "address">>                         -> BrokerAddress(t, type, content)

\* What the procedure of a node does to the tunnel when its attribute reads as
\* value.  The numbers of the autonomous systems are not used.
Procedure(t, n, value) ==
  CASE Last(n.path) = "tunnel"    -> Assign(t, "type", value)
    [] Last(n.path) = "address"   -> PROC_address(t, n.path, value, n.content)
    [] Last(n.path) = "prefix"    -> Assign(Assign(t, "prefix_length", value), "prefix", n.content)
    [] Last(n.path) = "router"    -> Assign(t, "router_protocol", value)
    [] Last(n.path) = "keepalive" -> Assign(t, "keepalive_interval", value)
    [] OTHER                      -> t

\* Only the address compares the string, which strcmp() needs.
IsFatal(n, value) == value = Fault \/ (Last(n.path) = "address" /\ value = NULL)

Malformed(n) == Head(n.path) = "?"

\* A node that is malformed: its attribute may have been stored.
Stopped(r, n) ==
  [r EXCEPT !.rc = 1,
            !.attributes = IF findNode(Tail(n.path)) THEN Stored(@, [n EXCEPT !.path = Tail(@)]) ELSE @]

\* What one node may make of r: unknown names are skipped, after a malformed node
\* nothing is read.
XMLParseNode(r, n) ==
  IF r.rc # 0 \/ r.dead THEN {r}
  ELSE IF Malformed(n) THEN {Stopped(r, n)}
  ELSE IF ~findNode(n.path) THEN {r}
  ELSE LET attributes == Stored(r.attributes, n)
           values == IF Entry(n.path) \in Entries THEN attributes[Entry(n.path)] ELSE {NULL}
       IN {[rc |-> 0, t |-> Procedure(r.t, n, v), attributes |-> attributes, dead |-> IsFatal(n, v)] :
             v \in values}

XMLParseNext(rs, n) == UNION {XMLParseNode(r, n) : r \in rs}

XMLParse(doc, attributes) ==
  FoldLeft(XMLParseNext,
           {[rc |-> 0, t |-> ClearTunnel, attributes |-> attributes, dead |-> FALSE]}, doc)

\* What parsing the document may give: result code (there has to be a node),
\* tunnel, the attributes that it leaves to the next one, and whether the process
\* has died.
tspExtractPayload(doc, attributes) ==
  {[r EXCEPT !.rc = IF doc = <<>> THEN 1 ELSE @, !.attributes = AllFreed(@)] :
     r \in XMLParse(doc, attributes)}

-----------------------------------------------------------------------------
(* xml_req.c                                                               *)

\* The request for a tunnel.
tspBuildCreateRequest(conf) ==
  [type |-> conf.tunnel_mode, proxy |-> conf.proxy_client, client |-> conf.client_v4,
   keepalive |-> conf.keepalive,
   router |-> conf.host_type = "router",
   prefixlen |-> IF conf.prefixlen = 0 THEN 48 ELSE conf.prefixlen,
   dns_server |-> IF conf.host_type = "router" THEN conf.dns_server ELSE <<>>]

\* What building it does to the configuration: the default length is stored,
\* and strtok() cuts the list of name servers after the first one.
AfterCreateRequest(conf) ==
  IF conf.host_type # "router" THEN conf
  ELSE [conf EXCEPT !.prefixlen = IF @ = 0 THEN 48 ELSE @,
                    !.dns_server = SubSeq(@, 1, IF Len(@) > 1 THEN 1 ELSE Len(@))]
=============================================================================
