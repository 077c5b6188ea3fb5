----------------------------- MODULE MCRedirect -----------------------------
(* Instance of Redirect for TLC.                                           *)
EXTENDS Redirect

Node(path, attr, content) == [path |-> path, attr |-> attr, content |-> content]
Broker(kind, address) == Node(<<"tunnel", "broker", "address">>, kind, address)
Redirection(brokers) == <<Node(<<"tunnel">>, NULL, ""), Node(<<"tunnel", "broker">>, NULL, "")>> \o brokers

MCLeftovers == {"ipv6", Fault}

MCPayloads ==
  <<{Redirection(<<Broker("ipv4", "a"), Broker("ipv4", "d"), Broker("ipv6", "b")>>),
     Redirection(<<Broker("ipv4", "a"), Broker("ipv6", "b"), Broker("ipv4", "long")>>),
     Redirection(<<Broker("ipv4", "a"), Broker("ipv6", "b"), Broker("ipv4", "d"), Broker("dn", "c")>>),
     Redirection(<<Broker("ipv4", "a"), Node(<<"?">>, NULL, NULL)>>)},
    {Redirection(<<>>), Redirection(<<Broker("ipv4", "a")>>), Redirection(<<Broker(NULL, "a")>>),
     Redirection(<<Broker("dn", "c"), Broker("ipv4", "a")>>)}>>
=============================================================================
