------------------------------ MODULE MCConfig ------------------------------
(* Instance of Config for TLC.                                             *)
EXTENDS Config

MCNumeral == [n \in {"0", "30", "64", "300", "600", "65600", "1", "2", "32", "1048576"} |->
  CASE n = "0" -> 0 [] n = "30" -> 30 [] n = "64" -> 64 [] n = "300" -> 300 [] n = "600" -> 600
    [] n = "65600" -> 65600 [] n = "1" -> 1 [] n = "2" -> 2 [] n = "1048576" -> 1048576 [] OTHER -> 32]
MCSize == [long |-> 2000]
MCOutside == [PRINTABLE |-> {"tab"}, SERVER |-> {"a_b"}, DNS |-> {"a_b"}, DNSLIST |-> {"a_b"},
              FILENAME |-> {"a,b"}]
MCPadded == [n \in {" x ", "  "} |-> IF n = " x " THEN "x" ELSE ""]

NV(n, v) == [kind |-> "nv", name |-> n, value |-> v]
Comment == [kind |-> "comment", name |-> "# text", value |-> ""]
EmptyLine == [kind |-> "empty", name |-> "", value |-> ""]
Equals == [kind |-> "equals", name |-> "", value |-> ""]
Name(n) == [kind |-> "name", name |-> n, value |-> ""]

Base == <<NV("server", "s"), NV("template", "linux"), NV("auth_method", "anonymous"),
          NV("tunnel_mode", "v6v4"), NV("if_tunnel_v6v4", "sit1")>>
Broken == <<NV("auth_method", "any"), EmptyLine, Equals>>
MCFiles ==
  {<<NV("proxy_client", "yes"), NV("keepalive", "no")>> \o Base,
   <<NV("server", "s"), Comment, NV("keepalive_interval", "600"), NV("keepalive_interval", "1048576"),
     Name("userid"), NV("template", "linux"), NV("auth_method", "anonymous"), NV("if_tunnel_v6v4", "sit1"),
     NV("if_tunnel_v6udpv4", "tun1")>>}
MCEdits == {Broken}
DefaultFile == <<NV("template", "linux"), NV("auth_method", "anonymous"),
                   NV("if_tunnel_v6v4", "sit1"), NV("if_tunnel_v6udpv4", "tun1")>>
MCDefaultFiles == {DefaultFile, Broken}
MCChanges == {<<"passwd", " x ">>, <<"passwd", "  ">>,
              <<"auth_method", "plain">>, <<"proxy_client", "yes">>, <<"userid", "long">>, <<"server", "a_b">>}
MCCommandLines == {<<<<"i", "">>, <<"s", "auto">>, <<"r", "9">>>>, <<<<"h", "">>>>}
=============================================================================
