------------------------------- MODULE Config -------------------------------
(***************************************************************************)
(* The configuration file: a graphical front end loads it into a           *)
(* GOGOCConfig object, changes variables, saves, cancels or restores the   *)
(* defaults; a starting client reads it (config.c, through                 *)
(* gogoc_c_wrapper.cc, or with the reader of the Android build).  The file *)
(* is written and read line by line, so that a reader may see it half      *)
(* written, and the front end may be killed while it writes.               *)
(*                                                                         *)
(* A line is an assignment name=value, a name without "=", a comment, an   *)
(* empty line or only "=".  Lines are shorter than the parser's buffer.    *)
(***************************************************************************)
EXTENDS ConfigValidation

CONSTANTS
  Files,         \* contents of the file at the start
  Edits,         \* contents that somebody may give it later
  DefaultFiles,  \* what the default configuration file may hold
  Changes,       \* <<name, value>> pairs the front end sets
  CommandLines,  \* options of the client, as sequences of <<letter, argument>>
  Builds,        \* builds of the client
  MaxChanges     \* bound on changes from outside and by the front end

\* A line of a file.  A comment begins with "#", as no variable does.
Line ==
  {l \in [kind : {"nv", "name", "comment", "empty", "equals"}, name : String, value : String] :
     l.kind = "comment" => l.name \notin Variables}

ASSUME ConfigAssumption ==
  Files \cup Edits \cup DefaultFiles \subseteq Seq(Line) /\ Changes \subseteq Variables \X String

VARIABLES
  file,     \* lines of gogoc.conf
  gui,      \* [st, nv, ffd, valid, at, then]: the front end's object
  client,   \* [st, build, cmd, got, status, conf]: a starting client
  saved,    \* what Save() last returned true for, while nothing else wrote
            \* the file: [done, nv, lost: a write failed] (not in the code)
  changes   \* changes so far

vars == <<file, gui, client, saved, changes>>

NULL == "NULL"
Empty == <<>>

\* A map with another value for n, and a map over another.
Put(m, n, v) == [x \in DOMAIN m \cup {n} |-> IF x = n THEN v ELSE m[x]]
Over(g, m) == [x \in DOMAIN g \cup DOMAIN m |-> IF x \in DOMAIN g THEN g[x] ELSE m[x]]

-----------------------------------------------------------------------------
(* namevalueparser.cc, namevalueconfig.cc                                  *)

AddEmptyLine(p)   == [p EXCEPT !.ffd = Append(@, <<"empty", "">>)]
AddComment(p, l)  == [p EXCEPT !.ffd = Append(@, <<"comment", l.name>>)]

AddNameValue(p, name, value) ==
  IF trim(name) = "" THEN p
  ELSE [p EXCEPT !.ffd = Append(@, <<"nv", trim(name)>>), !.nv = Put(@, trim(name), trim(value))]

\* A line without "=" is a variable without a value.  Only a line of nothing
\* but "=" is refused, and the data stay as they are by then.
ReadLine(p, l) ==
  IF ~p.ok THEN p
  ELSE CASE l.kind = "empty"   -> AddEmptyLine(p)
         [] l.kind = "comment" -> AddComment(p, l)
         [] l.kind = "name"    -> AddNameValue(p, l.name, "")
         [] l.kind = "equals"  -> [p EXCEPT !.ok = FALSE]
         [] OTHER              -> AddNameValue(p, l.name, l.value)

ReadConfigurationData(lines) ==
  FoldLeft(ReadLine, [ok |-> TRUE, nv |-> Empty, ffd |-> <<>>], lines)

\* What is written for an element of the file's data.
Written(e, nv) ==
  CASE e[1] = "nv" -> IF e[2] \in DOMAIN nv
                      THEN <<[kind |-> "nv", name |-> e[2], value |-> nv[e[2]]]>> ELSE <<>>
    [] OTHER       -> <<[kind |-> e[1], name |-> e[2], value |-> ""]>>

SetKnownVariable(o, n, v) == [o EXCEPT !.nv = Put(@, n, v)]

SetVariableValue(o, n, v) ==
  [o EXCEPT !.nv = Put(@, n, v),
            !.ffd = IF \E i \in DOMAIN @ : @[i][2] = n THEN @ ELSE Append(@, <<"nv", n>>)]

-----------------------------------------------------------------------------
(* The front end: gogocconfig.cc, config.cc                                *)

NoObject == [st |-> "none", nv |-> Empty, ffd |-> <<>>, valid |-> FALSE, at |-> 0, then |-> NULL]
NotSaved == [done |-> FALSE, nv |-> Empty, lost |-> FALSE]

Loaded(o) == LET p == ReadConfigurationData(file) IN [o EXCEPT !.nv = p.nv, !.ffd = p.ffd]

\* A file that cannot be parsed leaves the object unusable.
Load ==
  /\ gui.st = "none"
  /\ LET p == ReadConfigurationData(file) IN
     gui' = [Loaded(gui) EXCEPT !.st = "ready", !.valid = p.ok /\ ValidateConfigData(p.nv) = {}]
  /\ UNCHANGED <<file, client, saved, changes>>

\* Set_*: refused for data that are not valid and for a value that is not.
Set(n, v) ==
  /\ gui.st = "ready" /\ gui.valid /\ Accepts(n, v)
  /\ changes < MaxChanges /\ changes' = changes + 1
  /\ gui' = SetVariableValue(gui, n, v)
  /\ UNCHANGED <<file, client, saved>>

\* The file is truncated.
OpenForWriting(o, then) ==
  /\ gui' = [o EXCEPT !.st = "writing", !.at = 1, !.then = then]
  /\ file' = <<>>
  /\ saved' = NotSaved

\* Data that do not pass are not saved, but are marked as valid all the same.
Save(opens) ==
  /\ gui.st = "ready"
  /\ IF ValidateConfigData(gui.nv) # {} THEN gui' = [gui EXCEPT !.valid = TRUE] /\ UNCHANGED <<file, saved>>
     ELSE IF opens THEN OpenForWriting(gui, "saved")
     ELSE gui' = [gui EXCEPT !.valid = TRUE] /\ UNCHANGED <<file, saved>>
  /\ UNCHANGED <<client, changes>>

\* Loads the file again; validity stays as it was, even if that fails midway.
CancelChanges ==
  /\ gui.st = "ready"
  /\ gui' = Loaded(gui)
  /\ UNCHANGED <<file, client, saved, changes>>

\* The default file takes the place of the data, and is written unvalidated.
LoadDefaults(lines) ==
  /\ gui.st = "ready"
  /\ changes < MaxChanges /\ changes' = changes + 1
  /\ LET p == ReadConfigurationData(lines) IN
     IF p.ok THEN OpenForWriting([gui EXCEPT !.nv = p.nv, !.ffd = p.ffd], "defaults")
     ELSE gui' = [gui EXCEPT !.nv = p.nv, !.ffd = p.ffd] /\ UNCHANGED <<file, saved>>
  /\ UNCHANGED client

\* Whether a line could be written is not looked at; after a failure (there is
\* no room) the stream writes nothing more.
WriteLine(written) ==
  /\ gui.st = "writing" /\ gui.at <= Len(gui.ffd)
  /\ saved.lost => ~written
  /\ gui' = [gui EXCEPT !.at = @ + 1]
  /\ IF written THEN file' = file \o Written(gui.ffd[gui.at], gui.nv) /\ UNCHANGED saved
     ELSE saved' = [saved EXCEPT !.lost = TRUE] /\ UNCHANGED file
  /\ UNCHANGED <<client, changes>>

\* Both return true.
WriteEnds ==
  /\ gui.st = "writing" /\ gui.at > Len(gui.ffd)
  /\ gui' = [gui EXCEPT !.st = "ready", !.at = 0, !.then = NULL,
                        !.valid = gui.then = "saved" \/ ValidateConfigData(gui.nv) = {}]
  /\ saved' = IF gui.then = "saved" THEN [saved EXCEPT !.done = TRUE, !.nv = gui.nv] ELSE saved
  /\ UNCHANGED <<file, client, changes>>

\* The front end ends or is killed.
Quit ==
  /\ gui.st # "none" /\ gui' = NoObject
  /\ UNCHANGED <<file, client, saved, changes>>

-----------------------------------------------------------------------------
(* The client: cli.c, config.c, gogoc_c_wrapper.cc                         *)

NoCmdLine == [client_v4 |-> NULL, if_tunnel_v6v4 |-> NULL, if_tunnel_v6udpv4 |-> NULL, exit |-> FALSE]

\* The delay of -r is stored and never used; -b, -n and -y are not about conf.
ParseArguments(argv) ==
  LET option(c, o) ==
        IF c.exit THEN c
        ELSE CASE o[1] = "s"  -> [c EXCEPT !.client_v4 = o[2]]
               [] o[1] = "i"  -> [c EXCEPT !.if_tunnel_v6v4 = o[2]]
               [] o[1] = "u"  -> [c EXCEPT !.if_tunnel_v6udpv4 = o[2]]
               [] o[1] \in {"b", "n", "y", "f", "r"} -> c
               [] OTHER       -> [c EXCEPT !.exit = TRUE]
  IN FoldLeft(option, NoCmdLine, argv)

\* tConf: what the getters of the C wrapper make of the data.
Booleans == {"auto_retry_connect", "keepalive", "proxy_client", "always_use_same_server",
             "log_rotation", "log_rotation_delete", "haccess_web_enabled", "haccess_proxy_enabled"}
LogLevels == {"log_stderr", "log_syslog", "log_console", "log_file"}
Integers_ == {"prefixlen", "retry_delay", "retry_delay_max", "keepalive_interval",
              "log_rotation_size"} \cup LogLevels
Texts == Variables \ (Booleans \cup Integers_)

\* A mode that is not compiled in leaves the field at zero.
TunnelMode(s) == IF s \in {"v6anyv4", "v6v4", "v6udpv4"} THEN s ELSE "0"

\* The getters cast what strtol() returns: to a short for the log levels, to an int
\* for the rest.
Cast(n, long) == IF n \in LogLevels THEN Short(long) ELSE ToInt(long)

Filled(nv) ==
  [text |-> [n \in Texts |-> IF n = "tunnel_mode" THEN TunnelMode(Get(nv, n)) ELSE Get(nv, n)],
   number |-> [n \in Integers_ |-> Cast(n, strtol(Get(nv, n)))],
   bool |-> [n \in Booleans |-> Get(nv, n) \in {"yes", "YES"}]]

tspReadConfigFile(lines) ==
  LET p == ReadConfigurationData(lines) IN
  IF ~p.ok \/ ValidateConfigData(p.nv) # {} \/ Get(p.nv, "server") = ""
  THEN [status |-> "ERR_INVAL_CFG_FILE", conf |-> Filled(Empty)]
  ELSE [status |-> "SUCCESS", conf |-> Filled(p.nv)]

\* The Android build: its own defaults, and the variables it reads.
AndroidDefaults ==
  [Filled(Empty) EXCEPT
     !.text = Over([auth_method |-> "anonymous", server |-> "anonymous.freenet6.net", template |-> "android",
                    gogoc_dir |-> "dataDir", log_filename |-> "dataDir log",
                    broker_list |-> "broker_list_file", last_server |-> "last_server_file",
                    if_tunnel_v6v4 |-> "sit1", if_tunnel_v6udpv4 |-> "tun", if_tunnel_v4v6 |-> "sit0"], @),
     !.number = Over([log_stderr |-> 0, log_file |-> 3], @),
     !.bool = Over([log_rotation_delete |-> TRUE], @)]

AndroidReads == {"userid", "passwd", "server", "auth_method", "gogoc_dir", "template", "broker_list",
                 "last_server", "if_prefix", "dns_server", "if_tunnel_v6v4", "if_tunnel_v6udpv4",
                 "if_tunnel_v4v6"}

AndroidLineSlip(r, l) ==
  IF l.kind # "nv" THEN r
  ELSE IF l.name = "if_tunnel_v6udpv4" THEN [r EXCEPT !.conf.text["if_tunnel_v6v4"] = l.value]
  ELSE IF l.name \in AndroidReads THEN [r EXCEPT !.conf.text[l.name] = l.value] ELSE r

\* Nothing is trimmed or checked; a name that it knows without "=" gives
\* strdup() a NULL pointer.
AndroidLine(r, l) ==
  IF r.status # "SUCCESS" \/ l.kind \in {"comment", "empty"} THEN r
  ELSE IF l.kind = "name"
  THEN IF l.name \in AndroidReads \cup {"tunnel_mode"} THEN [r EXCEPT !.status = "crash"] ELSE r
  ELSE IF \/ l.name \in AndroidReads
          \/ l.name = "tunnel_mode" /\ l.value \in {"v6anyv4", "v6v4", "v6udpv4", "v4v6"}
  THEN [r EXCEPT !.conf.text[l.name] = l.value] ELSE r

tspReadConfigFile_Android(lines) ==
  FoldLeft(AndroidLine, [status |-> "SUCCESS", conf |-> AndroidDefaults], lines)

NoClient == [st |-> "none", build |-> NULL, cmd |-> NoCmdLine, got |-> <<>>, status |-> NULL,
             conf |-> Filled(Empty)]

\* A client starts; help and unknown options end it at once.
StartClient(build, argv) ==
  /\ client.st = "none"
  /\ ~ParseArguments(argv).exit
  /\ client' = [NoClient EXCEPT !.st = "reading", !.build = build, !.cmd = ParseArguments(argv)]
  /\ UNCHANGED <<file, gui, saved, changes>>

\* A line of the file as it is now.
ReadNextLine ==
  /\ client.st = "reading" /\ Len(client.got) < Len(file)
  /\ client' = [client EXCEPT !.got = Append(@, file[Len(@) + 1])]
  /\ UNCHANGED <<file, gui, saved, changes>>

\* Options replace what the file says.
Overridden(r, cmd) ==
  LET given == {n \in {"client_v4", "if_tunnel_v6v4", "if_tunnel_v6udpv4"} : cmd[n] # NULL}
  IN IF r.status = "SUCCESS"
     THEN [r EXCEPT !.conf.text = [n \in DOMAIN @ |-> IF n \in given THEN cmd[n] ELSE @[n]]] ELSE r

tspInitialize ==
  /\ client.st = "reading" /\ Len(client.got) >= Len(file)
  /\ LET read == IF client.build = "android" THEN tspReadConfigFile_Android(client.got)
                 ELSE tspReadConfigFile(client.got)
         r == Overridden(read, client.cmd)
     IN client' = [client EXCEPT !.st = "started", !.status = r.status, !.conf = r.conf]
  /\ UNCHANGED <<file, gui, saved, changes>>

ClientEnds ==
  /\ client.st = "started" /\ client' = NoClient
  /\ UNCHANGED <<file, gui, saved, changes>>

-----------------------------------------------------------------------------

\* Somebody edits the file.
Edit(lines) ==
  /\ changes < MaxChanges /\ changes' = changes + 1
  /\ gui.st # "writing"
  /\ file' = lines /\ saved' = NotSaved
  /\ UNCHANGED <<gui, client>>

Init ==
  /\ file \in Files /\ gui = NoObject /\ client = NoClient
  /\ saved = NotSaved /\ changes = 0

Next ==
  \/ Load \/ CancelChanges \/ WriteEnds \/ Quit
  \/ \E lines \in DefaultFiles : LoadDefaults(lines)
  \/ \E c \in Changes : Set(c[1], c[2])
  \/ \E opens \in BOOLEAN : Save(opens)
  \/ \E written \in BOOLEAN : WriteLine(written)
  \/ \E build \in Builds, argv \in CommandLines : StartClient(build, argv)
  \/ ReadNextLine \/ tspInitialize \/ ClientEnds
  \/ \E lines \in Edits : Edit(lines)

Spec == Init /\ [][Next]_vars

-----------------------------------------------------------------------------
(* Properties                                                              *)

\* The requirements of ValidateConfigData() on related variables, on tConf; the
\* interfaces in unnamed may be without a name, the numbers in wide wrong.
Consistent(conf, unnamed, wide) ==
  /\ conf.text["server"] # ""
  /\ conf.text["auth_method"] # "anonymous" => conf.text["passwd"] # ""
  /\ conf.bool["proxy_client"] =>
       conf.text["tunnel_mode"] # "v6udpv4" /\ ~conf.bool["keepalive"]
  /\ conf.bool["keepalive"] => conf.number["keepalive_interval"] > 0 \/ "keepalive_interval" \in wide
  /\ conf.text["tunnel_mode"] # "0" =>
       \A n \in InterfacesFor(conf.text["tunnel_mode"]) \ unnamed : conf.text[n] # ""
  /\ conf.text["host_type"] = "router" => conf.text["if_prefix"] # ""
  /\ conf.number["retry_delay"] <= conf.number["retry_delay_max"]

\* The interfaces that a command line names by the empty string, which nothing checks.
Unnamed(cmd) == {n \in {"if_tunnel_v6v4", "if_tunnel_v6udpv4"} : cmd[n] = ""}

\* The variables whose number does not fit the type that the getter casts it to.
Wide(nv) == {n \in Integers_ : Cast(n, strtol(Get(nv, n))) # strtol(Get(nv, n))}

\* A client that starts with a configuration file has a configuration that
\* holds together, with the defaults of what the file leaves out, even when it
\* read the file half written, and with the options of the command line.  Excepted
\* are the name of an interface that an option leaves empty, and an interval of the
\* keepalives beyond the range of an int: the validation, which looks at a long and
\* knows no maximum (gogocvalidation.cc:430), passes 2^32, which the getter makes 0.
AcceptedConsistent ==
  client.st = "started" /\ client.build = "desktop" /\ client.status = "SUCCESS" =>
    Consistent(client.conf, Unnamed(client.cmd), Wide(ReadConfigurationData(client.got).nv))

\* The configuration that the file holds now is the one that was saved.
ReadsBack ==
  LET p == ReadConfigurationData(file) IN
  /\ p.ok /\ ValidateConfigData(p.nv) = {}
  /\ \A n \in Variables : Get(p.nv, n) = trim(Get(saved.nv, n))

\* Once Save() has returned true and until somebody else writes the file, a
\* client that reads it accepts it and gets the values saved, whatever sequence
\* of loading, setting, cancelling and restoring led there.  Excepted are writes
\* that fail, and values of nothing but blanks, which are gone when read.
SavedReadBack ==
  /\ saved.done /\ ~saved.lost
  /\ \A n \in DOMAIN saved.nv : trim(saved.nv[n]) = "" => saved.nv[n] = ""
  => ReadsBack

\* A file that both builds can read: no blanks around names and values.
Plain(lines) ==
  \A i \in DOMAIN lines : lines[i].kind = "nv" =>
    /\ trim(lines[i].name) = lines[i].name
    /\ trim(lines[i].value) = lines[i].value

\* What the desktop build accepts means the same to the Android build: each
\* variable that both read and that has a value there has that value.
BuildsAgree ==
  LET p == ReadConfigurationData(client.got) IN
     client.st = "started" /\ client.build = "android" /\ client.status = "SUCCESS"
       /\ Plain(client.got) /\ p.ok /\ ValidateConfigData(p.nv) = {} =>
     \A n \in AndroidReads : GetVariableValue(p.nv, n) # "" =>
       client.conf.text[n] = p.nv[n] \/ (n \in DOMAIN NoCmdLine /\ client.cmd[n] # NULL)
=============================================================================
