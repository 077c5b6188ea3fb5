------------------------------ MODULE MCTspMain ------------------------------
(* Instances of TspMain for TLC.                                            *)
EXTENDS TspMain

CONSTANTS b1, b2, b3  \* the brokers

Conf(mode, retry, boot, same) ==
  [tunnel_mode |-> mode, auto_retry_connect |-> retry, boot_mode |-> boot,
   always_use_same_server |-> same]

\* Each option the loop reads, changed on its own.  V6V4 takes the same path as
\* V6ANYV4 everywhere.
SafetyConfs ==
  {Conf("V6ANYV4", TRUE,  FALSE, FALSE), Conf("V6UDPV4", FALSE, FALSE, FALSE),
   Conf("V4V6",    TRUE,  FALSE, FALSE), Conf("V6UDPV4", TRUE, TRUE, FALSE),
   Conf("V6UDPV4", TRUE,  FALSE, TRUE)}

\* Redirections to one broker and to two; files without a list, with one, and
\* with more brokers than MAX_REDIRECT_BROKERS_IN_LIST.
MCRedirections == {<<b2>>, <<b1, b2>>}
MCBrokerFiles  == {NoFile, <<b1, b2>>, <<b1, b1, b1>>}

MCLastServerFiles == {NoServer, b1}

\* Every status of the switch; one stands for each group it treats alike.
AllOutcomes ==
  {"SUCCESS", "ERR_AUTHENTICATION_FAILURE", "ERR_INTERFACE_SETUP_FAILED",
   "ERR_KEEPALIVE_TIMEOUT", "ERR_TUNNEL_IO", "ERR_TUN_LEASE_EXPIRED",
   "ERR_INVAL_TSP_VERSION", "ERR_SOCKET_IO", "ERR_TSP_SERVER_TOO_BUSY",
   "ERR_FAIL_SOCKET_CONNECT", "EVNT_BROKER_REDIRECTION", "ERR_BROKER_REDIRECTION"}

RotationConfs == {Conf(mode, TRUE, boot, same) :
                    mode \in {"V6UDPV4", "V6ANYV4"}, boot \in BOOLEAN,
                    same \in BOOLEAN}

\* The lists of the broker_list file, the empty and the too long one included,
\* and those that name an IPv6 broker (b3) first or last.
RotationFiles == {NoFile, <<b1>>, <<b1, b2>>, <<b1, b1, b1>>, <<b1, b3>>, <<b3, b2>>}

NoServerReachable == {"ERR_FAIL_SOCKET_CONNECT"}

\* The instance of the statement that the code does not keep.
OneTransport  == {Conf("V6UDPV4", TRUE, FALSE, FALSE)}
NoBrokerFile  == {NoFile}
NoLastServer  == {NoServer}

=============================================================================
