------------------------------ MODULE MsgCodec ------------------------------
(***************************************************************************)
(* The messages that gogoCLIENT and its GUI exchange: how the Send_*       *)
(* methods of ServerMsgSender and ClientMsgSender lay a structure out in   *)
(* the bytes of a Message, how the translators read it back, and what the  *)
(* requests make gogoCLIENT do.  Messaging models how messages travel;     *)
(* here they arrive, one at a time.                                        *)
(*                                                                         *)
(* A character is a number from 1 on, a string a sequence of them or NULL; *)
(* integers are small and little-endian.                                   *)
(***************************************************************************)
EXTENDS Integers, Sequences, SequencesExt, FiniteSets

CONSTANTS
  Strings,           \* strings that structures hold, NULL among them
  Numbers,           \* values of integers
  MaxList,           \* the longest list of brokers or of devices
  MSG_MAX_USERDATA,  \* bytes of data in a message
  NULL

ASSUME MsgCodecAssumption ==
  /\ Strings \ {NULL} \subseteq Seq(1 .. 255) /\ Numbers \subseteq 0 .. 255
  /\ MaxList \in Nat \ {0} /\ MSG_MAX_USERDATA \in Nat

VARIABLES
  info,       \* gogoCLIENT's status, tunnel, broker list file and HACCESS status
  message,    \* the message under way, or NULL
  meant,      \* the structure it was made from
  handled,    \* what the last handler received: its name and the structure
  processing, \* m_eProcessorState of the GUI
  aborted     \* an assertion failed

codecVars == <<info, message, meant, handled, processing, aborted>>

-----------------------------------------------------------------------------
(* Fields, in the order of the bytes.  sizeof(int), enumerations and       *)
(* time_t: four; signed short: two.                                        *)

Size == [int |-> 4, short |-> 2]
StrField(name) == [name |-> name, type |-> "string"]
IntField(name) == [name |-> name, type |-> "int"]
ShortField(name) == [name |-> name, type |-> "short"]

\* memcpy() of the terminated string, or a single zero for NULL.
PutString(s) == IF s = NULL THEN <<0>> ELSE Append(s, 0)
PutNumber(v, type) == [i \in 1 .. Size[type] |-> IF i = 1 THEN v ELSE 0]

Put(field, struct) ==
  IF field.type = "string" THEN PutString(struct[field.name])
  ELSE PutNumber(struct[field.name], field.type)

Encode(layout, struct) == FlattenSeq([i \in DOMAIN layout |-> Put(layout[i], struct)])

Garbage == -1
\* Reading outside the message meets whatever the receive buffer holds.
ByteAt(data, i) == IF i \in DOMAIN data THEN data[i] ELSE Garbage

\* pal_strlen() and pal_strdup() at an offset.
StrLen(data, off) == CHOOSE n \in 0 .. Len(data) : /\ ByteAt(data, off + n + 1) \in {0, Garbage}
                                                   /\ \A k \in 1 .. n : ByteAt(data, off + k) \notin {0, Garbage}
GetString(data, off) == SubSeq(data, off + 1, off + StrLen(data, off))
GetNumber(data, off) == ByteAt(data, off + 1)

\* One field at the cursor: c is the cursor and what has been read.
Get(data, c, field) ==
  IF field.type = "string"
  THEN [cursor |-> c.cursor + StrLen(data, c.cursor) + 1,
        read |-> [c.read EXCEPT ![field.name] = GetString(data, c.cursor)]]
  ELSE [cursor |-> c.cursor + Size[field.type],
        read |-> [c.read EXCEPT ![field.name] = GetNumber(data, c.cursor)]]

\* The fields not translated stay uninitialised.
Decode(layout, names, data) ==
  LET c[i \in 0 .. Len(layout)] ==
        IF i = 0 THEN [cursor |-> 0, read |-> [n \in names |-> Garbage]]
        ELSE Get(data, c[i - 1], layout[i])
  IN c[Len(layout)]

-----------------------------------------------------------------------------
(* The structures of gogocmsgdata.h and haccessmsgdata.h.                  *)

gogocStatusInfo == [eStatus : Numbers, nStatus : Numbers]

\* Strings vary one at a time: the others are NULL.
TunnelStrings == {"szBrokerName", "szIPV4AddrLocalEndpoint", "szIPV6AddrLocalEndpoint", "szIPV6AddrDns",
                  "szIPV4AddrRemoteEndpoint", "szIPV6AddrRemoteEndpoint", "szDelegatedPrefix", "szUserDomain"}
gogocTunnelInfo ==
  { [n \in TunnelStrings \cup {"eTunnelType", "tunnelUpTime"} |->
       IF n = one THEN s ELSE IF n \in TunnelStrings THEN NULL ELSE v]
    : one \in TunnelStrings, s \in Strings, v \in Numbers }

Lists(S) == UNION { [1 .. n -> S] : n \in 0 .. MaxList }
gogocBrokerList == Lists([szAddress : Strings, nDistance : Numbers])
MAPPING_STATUS == Lists([device_name : Strings, mapping_status : Numbers])

HACCESSStatusInfo ==
  [haccess_proxy_status : Numbers, haccess_web_status : Numbers, haccess_devmapmod_status : Numbers,
   haccess_devmap_statuses : MAPPING_STATUS]

HACCESSConfigInfo ==
  [haccess_doc_root : Strings, haccess_proxy_enabled : Numbers, haccess_web_enabled : Numbers,
   haccess_devmap_changed : Numbers]

-----------------------------------------------------------------------------
(* The senders.                                                            *)

SentStatusInfo == <<IntField("eStatus"), IntField("nStatus")>>
Send_StatusInfo(i) == [id |-> "STATUSINFO", data |-> Encode(SentStatusInfo, i)]

SentTunnelInfo ==
  <<StrField("szBrokerName"), IntField("eTunnelType"), StrField("szIPV4AddrLocalEndpoint"), StrField("szIPV6AddrLocalEndpoint"),
    StrField("szIPV4AddrRemoteEndpoint"), StrField("szIPV6AddrRemoteEndpoint"), StrField("szDelegatedPrefix"),
    StrField("szUserDomain"), IntField("tunnelUpTime")>>
Send_TunnelInfo(i) == [id |-> "TUNNELINFO", data |-> Encode(SentTunnelInfo, i)]

SentBroker == <<StrField("szAddress"), IntField("nDistance")>>
Send_BrokerList(l) ==
  [id |-> "BROKERLIST", data |-> FlattenSeq([k \in DOMAIN l |-> Encode(SentBroker, l[k])])]

SentFeatures == <<IntField("haccess_proxy_status"), IntField("haccess_web_status"), IntField("haccess_devmapmod_status")>>
SentMapping == <<StrField("device_name"), IntField("mapping_status")>>
Send_HACCESSStatusInfo(i) ==
  [id |-> "HACCESSSTATUSINFO",
   data |-> Encode(SentFeatures, i)
            \o FlattenSeq([k \in DOMAIN i.haccess_devmap_statuses |-> Encode(SentMapping, i.haccess_devmap_statuses[k])])]

SentConfigInfo ==
  <<StrField("haccess_doc_root"), ShortField("haccess_proxy_enabled"), ShortField("haccess_web_enabled"), ShortField("haccess_devmap_changed")>>
Send_HACCESSConfigInfo(i) == [id |-> "HACCESSCONFIGINFO", data |-> Encode(SentConfigInfo, i)]

Send_Request(id) == [id |-> id, data |-> <<>>]
RequestIds == {"REQUEST_STATUSINFO", "REQUEST_TUNNELINFO", "REQUEST_BROKERLIST", "REQUEST_HACCESSSTATUSINFO"}

\* Message::CreateMessage makes no message of that many bytes, and the sender
\* asserts that there is one.
CreateMessageFails(m) == Len(m.data) >= MSG_MAX_USERDATA

-----------------------------------------------------------------------------
(* The translators; NULL when the cursor does not end where the data       *)
(* does.                                                                   *)

Whole(c, data) == IF c.cursor = Len(data) THEN c.read ELSE NULL

TranslateStatusInfo(data) ==
  Whole(Decode(<<IntField("eStatus"), IntField("nStatus")>>, {"eStatus", "nStatus"}, data), data)

ReceivedTunnelInfoSwapped ==
  <<StrField("szBrokerName"), IntField("eTunnelType"), StrField("szIPV4AddrLocalEndpoint"), StrField("szIPV4AddrRemoteEndpoint"),
    StrField("szIPV6AddrLocalEndpoint"), StrField("szIPV6AddrRemoteEndpoint"), StrField("szDelegatedPrefix"),
    StrField("szUserDomain"), IntField("tunnelUpTime")>>
ReceivedTunnelInfo ==
  <<StrField("szBrokerName"), IntField("eTunnelType"), StrField("szIPV4AddrLocalEndpoint"), StrField("szIPV6AddrLocalEndpoint"),
    StrField("szIPV4AddrRemoteEndpoint"), StrField("szIPV6AddrRemoteEndpoint"), StrField("szDelegatedPrefix"),
    StrField("szUserDomain"), IntField("tunnelUpTime")>>
TranslateTunnelInfo(data) ==
  Whole(Decode(ReceivedTunnelInfo, TunnelStrings \cup {"eTunnelType", "tunnelUpTime"}, data), data)

InFrontOf(element, c) == [c EXCEPT !.read = <<element>> \o @]

\* The list from an offset on, and the cursor after it.  nCursor counts from the beginning of the data,
\* yet is added to the pointer to the element: past the first element the
\* distance is read somewhere else.
BuildBrokerList(data) ==
  LET list[off \in Nat] ==
        IF off >= Len(data) THEN [cursor |-> off, read |-> <<>>]
        ELSE LET nNameLen == StrLen(data, off) + 1
                 nCursor == off + nNameLen
             IN InFrontOf([szAddress |-> GetString(data, off), nDistance |-> GetNumber(data, off + nCursor)],
                          list[nCursor + Size["int"]])
  IN list[0]
TranslateBrokerList(data) == Whole(BuildBrokerList(data), data)

BuildMappingStatuses(data, start) ==
  LET list[off \in Nat] ==
        IF off >= Len(data) THEN [cursor |-> off, read |-> <<>>]
        ELSE LET nNameLen == StrLen(data, off) + 1
             IN InFrontOf([device_name |-> GetString(data, off), mapping_status |-> GetNumber(data, off + nNameLen)],
                          list[off + nNameLen + Size["int"]])
  IN list[start]

TranslateHACCESSStatusInfo(data) ==
  LET c == Decode(SentFeatures, {f.name : f \in ToSet(SentFeatures)}, data)
      l == BuildMappingStatuses(data, c.cursor)
      statusInfo == [haccess_proxy_status |-> c.read.haccess_proxy_status,
                     haccess_web_status |-> c.read.haccess_web_status,
                     haccess_devmapmod_status |-> c.read.haccess_devmapmod_status,
                     haccess_devmap_statuses |-> l.read]
  IN Whole([cursor |-> l.cursor, read |-> statusInfo], data)

TranslateHACCESSConfigInfo(data) ==
  Whole(Decode(SentConfigInfo, {f.name : f \in ToSet(SentConfigInfo)}, data), data)

-----------------------------------------------------------------------------
(* Who sends what, when.                                                   *)

NotHandled == [by |-> "none", struct |-> NULL, of |-> NULL]

\* CreateMessage() and PostMessage(); the last message has been dealt with.
Post(m, struct) ==
  /\ message = NULL /\ ~aborted
  /\ handled' = NotHandled
  /\ aborted' = CreateMessageFails(m)
  /\ message' = IF CreateMessageFails(m) THEN NULL ELSE m
  /\ meant' = struct

GUIRequests(id) ==
  /\ Post(Send_Request(id), NULL)
  /\ UNCHANGED <<info, processing>>

GUISendsConfig(i) ==
  /\ Post(Send_HACCESSConfigInfo(i), i)
  /\ UNCHANGED <<info, processing>>

\* send_status_info() and the like in gogoCLIENT's main thread.
Notify(m, struct) ==
  /\ Post(m, struct)
  /\ UNCHANGED <<info, processing>>

send_status_info == Notify(Send_StatusInfo(info.status), info.status)
send_tunnel_info == Notify(Send_TunnelInfo(info.tunnel), info.tunnel)
send_haccess_status_info == info.haccess # NULL /\ Notify(Send_HACCESSStatusInfo(info.haccess), info.haccess)

\* RetrieveBrokerList() succeeds without a list when none was saved, and
\* Send_BrokerList() asserts that there is one; a file that cannot be read
\* (NULL) is an error and nothing is sent.
send_broker_list ==
  /\ info.brokers # NULL
  /\ IF info.brokers = <<>>
     THEN /\ message = NULL /\ ~aborted /\ aborted' = TRUE
          /\ UNCHANGED <<info, message, meant, handled, processing>>
     ELSE Notify(Send_BrokerList(info.brokers), info.brokers)

\* ServerMsgTranslator::ProcessMessage and the Recv_* of ClientMessengerImpl:
\* a request is answered from the same globals.
Answer(m, struct) ==
  /\ aborted' = CreateMessageFails(m)
  /\ message' = IF CreateMessageFails(m) THEN NULL ELSE m
  /\ meant' = struct
NoAnswer == message' = NULL /\ meant' = NULL /\ UNCHANGED aborted

GogocProcesses ==
  /\ message # NULL /\ message.id \in RequestIds \cup {"HACCESSCONFIGINFO"}
  /\ \/ message.id = "REQUEST_STATUSINFO" /\ Answer(Send_StatusInfo(info.status), info.status) /\ UNCHANGED handled
     \/ message.id = "REQUEST_TUNNELINFO" /\ Answer(Send_TunnelInfo(info.tunnel), info.tunnel) /\ UNCHANGED handled
     \/ /\ message.id = "REQUEST_BROKERLIST" /\ UNCHANGED handled
        /\ \/ info.brokers = NULL /\ NoAnswer
           \/ info.brokers # NULL /\ info.brokers = <<>> /\ aborted' = TRUE /\ message' = NULL /\ meant' = NULL
           \/ info.brokers \notin {NULL, <<>>} /\ Answer(Send_BrokerList(info.brokers), info.brokers)
     \/ /\ message.id = "REQUEST_HACCESSSTATUSINFO" /\ UNCHANGED handled
        /\ IF info.haccess = NULL THEN NoAnswer ELSE Answer(Send_HACCESSStatusInfo(info.haccess), info.haccess)
     \/ /\ message.id = "HACCESSCONFIGINFO" /\ NoAnswer
        /\ handled' = [by |-> "NotifyhaccessConfigInfo", struct |-> TranslateHACCESSConfigInfo(message.data), of |-> meant]
  /\ UNCHANGED <<info, processing>>

\* Recv_StatusInfo() and the like of GUIMessengerImpl: the callback is called.
Recv_Info(struct) == [by |-> message.id, of |-> meant, struct |-> struct]

\* ClientMsgTranslator::ProcessMessage.
GUIProcesses ==
  /\ message # NULL /\ message.id \notin RequestIds \cup {"HACCESSCONFIGINFO"}
  /\ message' = NULL
  /\ handled' =
       IF ~processing THEN handled
       ELSE Recv_Info(CASE message.id = "STATUSINFO" -> TranslateStatusInfo(message.data)
                        [] message.id = "TUNNELINFO" -> TranslateTunnelInfo(message.data)
                        [] message.id = "BROKERLIST" -> TranslateBrokerList(message.data)
                        [] message.id = "HACCESSSTATUSINFO" -> TranslateHACCESSStatusInfo(message.data))
  /\ meant' = NULL
  /\ UNCHANGED <<info, processing, aborted>>

\* EnableProcessing() and DisableProcessing().
GUISwitches ==
  /\ processing' = ~processing
  /\ UNCHANGED <<info, message, meant, handled, aborted>>

Quiet == [eStatus |-> 0, nStatus |-> 0]
NoTunnel == [n \in TunnelStrings \cup {"eTunnelType", "tunnelUpTime"} |-> IF n \in TunnelStrings THEN NULL ELSE 0]
Nothing == [status |-> Quiet, tunnel |-> NoTunnel, brokers |-> <<>>, haccess |-> NULL]

\* The rest of gogoCLIENT changes what it has to tell.  One part at a time
\* differs from Nothing, and what changes after a message was made is not in it.
MainChanges ==
  /\ ~aborted /\ message = NULL /\ info = Nothing
  /\ handled' = NotHandled
  /\ \/ \E s \in gogocStatusInfo : info' = [Nothing EXCEPT !.status = s]
     \/ \E t \in gogocTunnelInfo : info' = [Nothing EXCEPT !.tunnel = t]
     \/ \E l \in gogocBrokerList \cup {NULL} : info' = [Nothing EXCEPT !.brokers = l]
     \/ \E h \in HACCESSStatusInfo \cup {NULL} : info' = [Nothing EXCEPT !.haccess = h]
  /\ UNCHANGED <<message, meant, processing, aborted>>

MainForgets ==
  /\ ~aborted /\ message = NULL
  /\ info' = Nothing /\ handled' = NotHandled
  /\ UNCHANGED <<message, meant, processing, aborted>>

CodecInit ==
  /\ info = Nothing
  /\ message = NULL /\ meant = NULL /\ handled = NotHandled
  /\ processing = TRUE /\ aborted = FALSE

CodecNext ==
  \/ \E id \in RequestIds : GUIRequests(id)
  \/ \E i \in HACCESSConfigInfo : GUISendsConfig(i)
  \/ send_status_info \/ send_tunnel_info \/ send_broker_list \/ send_haccess_status_info
  \/ GogocProcesses \/ GUIProcesses \/ GUISwitches \/ MainChanges \/ MainForgets

CodecSpec == CodecInit /\ [][CodecNext]_codecVars

-----------------------------------------------------------------------------
(* Properties.                                                             *)

Received(s) == IF s = NULL THEN <<>> ELSE s
ReceivedMappings(l) == [k \in DOMAIN l |-> [l[k] EXCEPT !.device_name = Received(@)]]

\* A handler is given what the sender was: every field of every structure, in
\* the place of the field, a string that is not there as an empty one.  Lost on
\* the way are the address of the name server (never sent) and the distances
\* after the first in a list of brokers (BuildBrokerList).  No translator's
\* assertion on the length fails.
InfoKept ==
  LET got == handled.struct
      was == handled.of
  IN CASE handled.by = "none" -> TRUE
       [] handled.by = "STATUSINFO" -> got = was
       [] handled.by = "TUNNELINFO" ->
            got = [n \in DOMAIN was |-> IF n = "szIPV6AddrDns" THEN Garbage
                                        ELSE IF n \in TunnelStrings THEN Received(was[n]) ELSE was[n]]
       [] handled.by = "BROKERLIST" ->
            /\ Len(got) = Len(was)
            /\ \A k \in DOMAIN was : got[k].szAddress = Received(was[k].szAddress)
            /\ got[1].nDistance = was[1].nDistance
       [] handled.by = "HACCESSSTATUSINFO" ->
            got = [was EXCEPT !.haccess_devmap_statuses = ReceivedMappings(@)]
       [] handled.by = "NotifyhaccessConfigInfo" ->
            got = [was EXCEPT !.haccess_doc_root = Received(@)]
=============================================================================
