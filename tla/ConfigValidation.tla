-------------------------- MODULE ConfigValidation --------------------------
(***************************************************************************)
(* The validation of gogoc.conf: one routine per variable                  *)
(* (gogocvalidation.cc), the defaults and the checks that relate variables *)
(* (gogocconfig.cc).                                                       *)
(*                                                                         *)
(* Values are strings; the constants give what the routines look at: the   *)
(* number a string is the numeral of, the length of a long string, the     *)
(* strings with a character outside of a set of characters, the numeric    *)
(* addresses and the directories that exist.                               *)
(***************************************************************************)
EXTENDS Integers, Sequences, SequencesExt

CONSTANTS
  Padded,       \* strings with blanks at the ends, and what is between them
  Numeral,      \* the strings that are numerals, and the longs they stand for
  UINT32,       \* 2^32: values of an int
  Size,         \* the lengths of long strings
  Outside,      \* Outside[c]: strings with a character that is not in c
  Addresses,    \* canonical numeric addresses
  Directories   \* paths of existing directories

ASSUME NumeralAssumption ==
  (\A s \in DOMAIN Numeral : Numeral[s] \in Int) /\ (\A s \in DOMAIN Size : Size[s] \in Nat)

\* The numerals among the defaults.
ASSUME DefaultAssumption ==
  {"30", "300"} \subseteq DOMAIN Numeral /\ Numeral["30"] = 30 /\ Numeral["300"] = 300

\* Half of the ints hold the longest delay.
ASSUME WidthAssumption == UINT32 \in Nat /\ UINT32 > 2 * 3600 + 1

\* trim() of namevalueparser.cc.
trim(s) == IF s \in DOMAIN Padded THEN Padded[s] ELSE s

Longer(s, max) == s \in DOMAIN Size /\ Size[s] > max

\* Blanks before the digits are skipped, and what follows them is not looked at.
strtol(s)    == IF trim(s) \in DOMAIN Numeral THEN Numeral[trim(s)] ELSE 0
AllDigits(s) == s \in DOMAIN Numeral /\ Numeral[s] >= 0

\* The conversion to a 16-bit short, and to an int.
Short(n) == ((n + 2^15) % 2^16) - 2^15
ToInt(n) == ((n + UINT32 \div 2) % UINT32) - UINT32 \div 2

RetryDelays == 0 .. 3600

CharacterSets == {"PRINTABLE", "SERVER", "FILENAME", "DNSLIST", "DNS"}

YesNo       == {"", "yes", "no"}
HostTypes   == {"", "host", "router"}
AuthMethods == {"", "anonymous", "any", "digest-md5", "plain", "passdss-3des-1"}
TunnelModes == {"", "v6anyv4", "v6v4", "v6udpv4", "v4v6", "dslite"}
Templates   == {"freebsd", "netbsd", "linux", "windows", "darwin", "cisco", "sunos", "openbsd",
                "openwrt", "gogocpe"}
RotationSizes == {"", "16", "32", "128", "1024"}
Facilities  == {"", "USER", "LOCAL0", "LOCAL1", "LOCAL2", "LOCAL3", "LOCAL4", "LOCAL5", "LOCAL6", "LOCAL7"}

Validate_UserID(s)    == ~Longer(s, 253) /\ s \notin Outside["PRINTABLE"]
Validate_Passwd(s)    == ~Longer(s, 128) /\ s \notin Outside["PRINTABLE"]
Validate_Server(s)    == ~Longer(s, 1025) /\ s \notin Outside["SERVER"]
Validate_HostType(s)  == s \in HostTypes
Validate_PrefixLen(s) == s = "" \/ (AllDigits(s) /\ Short(strtol(s)) \in 1 .. 128)
Validate_IfPrefix(s)  == s \notin Outside["FILENAME"]
Validate_DnsServer(s) == ~Longer(s, 1025) /\ s \notin Outside["DNSLIST"]
DirExists(s)          == s \in Directories
Validate_gogocDir(s)  == s = "" \/ DirExists(s)
Validate_AuthMethod(s) == s \in AuthMethods
Validate_AutoRetryConnect(s) == s \in YesNo
Validate_RetryDelay(s) == s = "" \/ (AllDigits(s) /\ strtol(s) \in RetryDelays)
Validate_RetryDelayMax(s) == s = "" \/ (AllDigits(s) /\ strtol(s) \in RetryDelays)
Validate_KeepAlive(s) == s \in YesNo
Validate_KeepAliveInterval(s) == s = "" \/ AllDigits(s)
Validate_TunnelMode(s) == s \in TunnelModes
Validate_IfTunV6V4(s)    == s \notin Outside["DNS"]
Validate_IfTunV6UDPV4(s) == s \notin Outside["DNS"]
Validate_IfTunV4V6(s)    == s \notin Outside["DNS"]
Validate_ClientV4(s)  == s \in {"", "auto"} \cup Addresses
Validate_DSLite(s)    == s \in {""} \cup Addresses
Validate_ClientV6(s)  == s \in {"", "auto"} \cup Addresses
Validate_Template(s)  == s \in Templates
Validate_ProxyClient(s)   == s \in YesNo
Validate_BrokerLstFile(s) == ~Longer(s, 256) /\ s \notin Outside["FILENAME"]
Validate_LastServFile(s)  == ~Longer(s, 256) /\ s \notin Outside["FILENAME"]
Validate_AlwaysUseLastSrv(s) == s \in YesNo
Validate_LogLevel(s)      == s = "" \/ strtol(s) \in 0 .. 3
Validate_LogFileName(s)   == ~Longer(s, 256) /\ s \notin Outside["FILENAME"]
Validate_LogRotation(s)   == s \in YesNo
Validate_LogRotationSz(s) == s \in RotationSizes
Validate_LogRotationDel(s) == s \in YesNo
Validate_SysLogFacility(s) == s \in Facilities
Validate_haccessProxyEnabled(s) == s \in YesNo
Validate_haccessWebEnabled(s)   == s \in YesNo
Validate_haccessDocumentRoot(s) == s = "" \/ DirExists(s)

\* The routine that accepts a value of a variable (VERIFY_AND_SET).
Accepts(n, s) ==
  CASE n = "userid" -> Validate_UserID(s)
    [] n = "passwd" -> Validate_Passwd(s)
    [] n = "server" -> Validate_Server(s)
    [] n \in {"dslite_server", "dslite_client"} -> Validate_DSLite(s)
    [] n = "host_type" -> Validate_HostType(s)
    [] n = "prefixlen" -> Validate_PrefixLen(s)
    [] n = "if_prefix" -> Validate_IfPrefix(s)
    [] n = "dns_server" -> Validate_DnsServer(s)
    [] n = "gogoc_dir" -> Validate_gogocDir(s)
    [] n = "auth_method" -> Validate_AuthMethod(s)
    [] n = "auto_retry_connect" -> Validate_AutoRetryConnect(s)
    [] n = "retry_delay" -> Validate_RetryDelay(s)
    [] n = "retry_delay_max" -> Validate_RetryDelayMax(s)
    [] n = "keepalive" -> Validate_KeepAlive(s)
    [] n = "keepalive_interval" -> Validate_KeepAliveInterval(s)
    [] n = "tunnel_mode" -> Validate_TunnelMode(s)
    [] n = "if_tunnel_v6v4" -> Validate_IfTunV6V4(s)
    [] n = "if_tunnel_v6udpv4" -> Validate_IfTunV6UDPV4(s)
    [] n = "if_tunnel_v4v6" -> Validate_IfTunV4V6(s)
    [] n = "client_v4" -> Validate_ClientV4(s)
    [] n = "client_v6" -> Validate_ClientV6(s)
    [] n = "template" -> Validate_Template(s)
    [] n = "proxy_client" -> Validate_ProxyClient(s)
    [] n = "broker_list" -> Validate_BrokerLstFile(s)
    [] n = "last_server" -> Validate_LastServFile(s)
    [] n = "always_use_same_server" -> Validate_AlwaysUseLastSrv(s)
    [] n \in {"log_console", "log_stderr", "log_syslog", "log_file"} -> Validate_LogLevel(s)
    [] n = "log_filename" -> Validate_LogFileName(s)
    [] n = "log_rotation" -> Validate_LogRotation(s)
    [] n = "log_rotation_size" -> Validate_LogRotationSz(s)
    [] n = "log_rotation_delete" -> Validate_LogRotationDel(s)
    [] n = "syslog_facility" -> Validate_SysLogFacility(s)
    [] n = "haccess_proxy_enabled" -> Validate_haccessProxyEnabled(s)
    [] n = "haccess_web_enabled" -> Validate_haccessWebEnabled(s)
    [] n = "haccess_document_root" -> Validate_haccessDocumentRoot(s)

\* CFG_DFLT_*, as compiled for Unix.
Default ==
  [userid |-> "", passwd |-> "", server |-> "", dns_server |-> "", template |-> "",
   if_tunnel_v6v4 |-> "", if_tunnel_v6udpv4 |-> "", if_tunnel_v4v6 |-> "",
   host_type |-> "host", prefixlen |-> "64", if_prefix |-> "", gogoc_dir |-> "",
   auth_method |-> "any", auto_retry_connect |-> "yes", retry_delay |-> "30",
   retry_delay_max |-> "300", keepalive |-> "yes", keepalive_interval |-> "30",
   tunnel_mode |-> "v6anyv4", client_v4 |-> "auto", client_v6 |-> "auto",
   proxy_client |-> "no", broker_list |-> "tsp-broker-list.txt",
   last_server |-> "tsp-last-server.txt", always_use_same_server |-> "no",
   log_filename |-> "gogoc.log", log_rotation |-> "yes", log_rotation_size |-> "32",
   log_rotation_delete |-> "no", syslog_facility |-> "USER",
   log_stderr |-> "1", log_syslog |-> "0", log_console |-> "0", log_file |-> "0",
   haccess_proxy_enabled |-> "no", haccess_web_enabled |-> "no",
   haccess_document_root |-> "", dslite_client |-> "192.0.0.2", dslite_server |-> "192.0.0.1"]

Variables == DOMAIN Default

\* What the code compares names and values with, and what it has for defaults.
Words == YesNo \cup HostTypes \cup AuthMethods \cup TunnelModes \cup Templates \cup RotationSizes
         \cup Facilities \cup {"auto"} \cup Variables \cup {Default[n] : n \in Variables}

\* All strings; the provers do not see that a word is in STRING.
String == STRING \cup Words

\* A string with blanks at the ends is no word, numeral, address or directory; without
\* them it has no others, is no longer, and has no characters that it did not have.
ASSUME PaddedAssumption ==
  \A s \in DOMAIN Padded :
    /\ s \notin Words \cup DOMAIN Numeral \cup Addresses \cup Directories
    /\ Padded[s] \in String \ DOMAIN Padded
    /\ Padded[s] \in DOMAIN Size => s \in DOMAIN Size /\ Size[Padded[s]] <= Size[s]
    /\ \A c \in CharacterSets : Padded[s] \in Outside[c] => s \in Outside[c]

GetVariableValue(nv, n) == IF n \in DOMAIN nv THEN nv[n] ELSE ""

\* Get_*: a variable that is missing or empty has its default.
Get(nv, n) == LET v == GetVariableValue(nv, n) IN IF v = "" THEN Default[n] ELSE v

\* The checks of single variables; auto_retry_connect is not among them.
IndividualErrors(nv) ==
  {n \in Variables \ {"auto_retry_connect"} : ~Accepts(n, GetVariableValue(nv, n))}

\* Interfaces that a tunnel mode needs; dslite is not thought of there.
InterfacesFor(mode) ==
  CASE mode = "v6anyv4" -> {"if_tunnel_v6v4", "if_tunnel_v6udpv4"}
    [] mode = "v6v4"    -> {"if_tunnel_v6v4"}
    [] mode = "v6udpv4" -> {"if_tunnel_v6udpv4"}
    [] mode = "v4v6"    -> {"if_tunnel_v4v6"}
    [] OTHER            -> {}

\* The checks that relate variables, given the values of all.
Related(conf) ==
  <<[error |-> "SUPPLYPASSWDWHENNOTANON", fails |-> conf.auth_method # "anonymous" /\ conf.passwd = ""],
    [error |-> "PROXYCINVALIDMODE", fails |-> conf.proxy_client = "yes" /\ conf.tunnel_mode = "v6udpv4"],
    [error |-> "PROXYANDKEEPALIVE", fails |-> conf.proxy_client = "yes" /\ conf.keepalive = "yes"],
    [error |-> "KAINTERVALINVALID", fails |-> conf.keepalive = "yes" /\ strtol(conf.keepalive_interval) = 0],
    [error |-> "IFTUNREQUIRED", fails |-> \E n \in InterfacesFor(conf.tunnel_mode) : conf[n] = ""],
    [error |-> "IFPREFIXMUSTBESPEC", fails |-> conf.host_type = "router" /\ conf.if_prefix = ""],
    [error |-> "RETRYDELAYGREATER", fails |-> strtol(conf.retry_delay) > strtol(conf.retry_delay_max)]>>

First(checks) ==
  LET failed == {i \in DOMAIN checks : checks[i].fails}
  IN {checks[i].error : i \in {j \in failed : \A k \in failed : j <= k}}

RelatedErrorsOfGiven(nv) ==
  First(Related([n \in Variables |-> GetVariableValue(nv, n)]))

\* After an error the next Get_*() throws: only the first one is found.
RelatedErrors(nv) == First(Related([n \in Variables |-> Get(nv, n)]))

\* m_lsValidationErrors; the data are valid if there are none.
ValidateConfigData(nv) ==
  IF IndividualErrors(nv) # {} THEN IndividualErrors(nv) ELSE RelatedErrors(nv)
=============================================================================
