----------------------------- MODULE CommandLines -----------------------------
(***************************************************************************)
(* How a setting of pkt2.js becomes an argument of a command line (the args() *)
(* functions of pkt2-impl.cpp) and the argument a field of the Config of the  *)
(* program that is started (parseCmd() of the *-config.cpp files).            *)
(*                                                                          *)
(* An argument is an option with a value; a number stands for its decimal     *)
(* digits.  argtable, which parses command lines, is external.               *)
(***************************************************************************)
EXTENDS Integers, Sequences

CONSTANTS
    realpath,  \* existing path |-> its canonical form
    accounts   \* file with a Google service account |-> the e-mail address in it

\* realpath() finds no file without a name.
ASSUME RealpathAssumption == "" \notin DOMAIN realpath

PacketBus == "ipc:///tmp/packet.pkt2"
MessageBus == "ipc:///tmp/message.pkt2"
ControlBus == "ipc:///tmp/control.pkt2"
DEF_SERVER_KEY == "AAAAITL4VBA"

Arg(o, v) == <<[opt |-> o, val |-> v]>>
When(c, o, v) == IF c THEN Arg(o, v) ELSE <<>>
Each(o, values) == [i \in 1..Len(values) |-> [opt |-> o, val |-> values[i]]]

\* An argument that belongs to no option.
Stray(v) == Arg("", v)

-----------------------------------------------------------------------------
(* What load_config() reads, with the values of settings that are missing.    *)

CfgCommon ==
    [proto_path |-> "proto", bus_in |-> PacketBus, bus_out |-> MessageBus,
     max_file_descriptors |-> 0, max_buffer_size |-> 0, verbosity |-> 0]

tcp_listeners ==
    [ip |-> "0.0.0.0", port |-> 50052, compression_type |-> 0, escape_code |-> "",
     compression_offset |-> 0, frequence_file |-> "", codemap_file |-> "", valid_sizes |-> <<>>]

mqtt_listeners ==
    [client |-> "", topic |-> "", broker |-> "tcp://localhost", port |-> 1883, qos |-> 1,
     keep_alive |-> 20]

file_listeners == [file |-> "", mode |-> 0]

packet2message == [force_message |-> "", sizes |-> <<>>]

write_file == [file |-> "", mode |-> 0, messages |-> <<>>]

write_lmdb == [dbpath |-> "", messages |-> <<>>]

write_pq ==
    [user |-> "", password |-> "", scheme |-> "", host |-> "localhost", port |-> 5432,
     messages |-> <<>>]

write_fcm ==
    [key |-> "", imei |-> "", user |-> "", password |-> "", scheme |-> "", host |-> "localhost",
     port |-> 5432, messages |-> <<>>]

write_google_sheets ==
    [json_service_file_name |-> "", bearer_file_name |-> ".token-bearer.txt", email |-> "",
     spreadsheet |-> "", sheet |-> "", messages |-> <<>>]

repeators == [in |-> "", bind |-> FALSE, outs |-> <<>>]

\* The arrays of pkt2.js that are read.  "scripts" is not: CfgScripts stays empty.
Settings ==
    [tcp_listeners |-> tcp_listeners, mqtt_listeners |-> mqtt_listeners,
     file_listeners |-> file_listeners, packet2message |-> packet2message,
     write_file |-> write_file, write_lmdb |-> write_lmdb, write_pq |-> write_pq,
     write_fcm |-> write_fcm, write_google_sheets |-> write_google_sheets,
     repeators |-> repeators]

Kinds == DOMAIN Settings

-----------------------------------------------------------------------------
(* args(): the command line of an entry e under the common settings c.        *)

Verbose(c) == [i \in 1..c.verbosity |-> [opt |-> "-v", val |-> ""]]
Maxfd(c) == When(c.max_file_descriptors # 0, "--maxfd", c.max_file_descriptors)
NonzeroBuffer(c) == When(c.max_buffer_size \notin {0, 4096}, "-b", c.max_buffer_size)
Buffer(c) == When(c.max_buffer_size # 4096, "-b", c.max_buffer_size)
Protos(c) == When(c.proto_path \notin {"", "proto"}, "-p", c.proto_path)

CfgListenerTcp(e, c) ==
    When(e.ip # "0.0.0.0", "-i", e.ip)
    \o When(e.port # 50052, "-l", e.port)
    \o When(e.compression_type # 0, "-c", e.compression_type)
    \o When(e.escape_code = "", "-e", e.escape_code)
    \o When(e.compression_offset # 0, "-s", e.compression_offset)
    \o When(e.frequence_file # "", "-f", e.frequence_file)
    \o When(e.codemap_file # "", "-m", e.codemap_file)
    \o Each("-p", e.valid_sizes)
    \o Verbose(c)
    \o When(c.bus_in # PacketBus, "-o", c.bus_in)
    \o Maxfd(c) \o NonzeroBuffer(c)

\* Wrong on purpose: the broker that is the loader's default is left out.
CfgListenerMqtt_Default(e, c) ==
    Arg("-c", e.client) \o When(e.broker # "tcp://localhost", "-a", e.broker) \o Arg("-t", e.topic)
    \o Arg("-p", e.port) \o Arg("-q", e.qos)
    \o Verbose(c)
    \o When(c.bus_in # PacketBus, "-o", c.bus_in)
    \o Maxfd(c)

\* keep_alive is not passed.
CfgListenerMqtt(e, c) ==
    Arg("-c", e.client) \o Arg("-a", e.broker) \o Arg("-t", e.topic)
    \o Arg("-p", e.port) \o Arg("-q", e.qos)
    \o Verbose(c)
    \o When(c.bus_in # PacketBus, "-o", c.bus_in)
    \o Maxfd(c)

CfgListenerFile(e, c) ==
    Arg("-i", e.file) \o Arg("-t", e.mode)
    \o Verbose(c)
    \o When(c.bus_in # PacketBus, "-o", c.bus_in)
    \o Maxfd(c)

\* Wrong on purpose: an option that pkt2receiver does not have.
CfgPacket2Message_Force(e, c) ==
    When(e.force_message # "", "--force-message", e.force_message)
    \o Each("-a", e.sizes)
    \o Verbose(c)
    \o When(c.bus_in # PacketBus, "-i", c.bus_in)
    \o When(c.bus_out # MessageBus, "-o", c.bus_out)
    \o Protos(c) \o NonzeroBuffer(c) \o Maxfd(c)

CfgPacket2Message(e, c) ==
    When(e.force_message # "", "--message", e.force_message)
    \o Each("-a", e.sizes)
    \o Verbose(c)
    \o When(c.bus_in # PacketBus, "-i", c.bus_in)
    \o When(c.bus_out # MessageBus, "-o", c.bus_out)
    \o Protos(c) \o NonzeroBuffer(c) \o Maxfd(c)

\* mode goes to the option of the format number; an empty proto_path is passed.
CfgWriteFile(e, c) ==
    Arg("-o", e.file) \o Arg("--format", e.mode)
    \o Each("-a", e.messages)
    \o Verbose(c)
    \o When(c.bus_out # MessageBus, "-i", c.bus_out)
    \o When(c.proto_path # "proto", "-p", c.proto_path)

\* What the database and Google handlers have in common.
CfgWrite(e, c) ==
    Each("-a", e.messages)
    \o Verbose(c)
    \o When(c.bus_out # MessageBus, "-i", c.bus_out)
    \o Protos(c) \o Buffer(c)

CfgWriteLmdb(e, c) == Arg("--dbpath", e.dbpath) \o CfgWrite(e, c)

Database(e) ==
    Arg("--user", e.user) \o Arg("--password", e.password) \o Arg("--database", e.scheme)
    \o Arg("--host", e.host) \o When(e.port # 5432, "--port", e.port)

CfgWritePq(e, c) == Database(e) \o CfgWrite(e, c)

\* PUSH_BACK_ARG_STR is two statements, of which the if () governs the first.
CfgWriteFcm(e, c) ==
    (IF e.key \notin {"", DEF_SERVER_KEY} THEN Arg("--key", e.key) ELSE Stray(e.key))
    \o (IF e.imei = "imei" THEN Arg("--imei", e.imei) ELSE Stray(e.imei))
    \o Database(e) \o CfgWrite(e, c)

CfgWriteGoogleSheets(e, c) ==
    Arg("-g", e.json_service_file_name) \o Arg("-B", e.bearer_file_name)
    \o Arg("-e", e.email) \o Arg("-s", e.spreadsheet) \o Arg("-t", e.sheet)
    \o CfgWrite(e, c)

CfgRepeator(e, c) ==
    When(e.in # ControlBus, "-i", e.in)
    \o When(e.bind, "-s", "")
    \o (IF e.outs = <<"tcp://0.0.0.0:50000">> THEN <<>> ELSE Each("-o", e.outs))
    \o Verbose(c) \o Buffer(c)

args(kind, e, c) ==
    CASE kind = "tcp_listeners" -> CfgListenerTcp(e, c)
      [] kind = "mqtt_listeners" -> CfgListenerMqtt(e, c)
      [] kind = "file_listeners" -> CfgListenerFile(e, c)
      [] kind = "packet2message" -> CfgPacket2Message(e, c)
      [] kind = "write_file" -> CfgWriteFile(e, c)
      [] kind = "write_lmdb" -> CfgWriteLmdb(e, c)
      [] kind = "write_pq" -> CfgWritePq(e, c)
      [] kind = "write_fcm" -> CfgWriteFcm(e, c)
      [] kind = "write_google_sheets" -> CfgWriteGoogleSheets(e, c)
      [] kind = "repeators" -> CfgRepeator(e, c)

-----------------------------------------------------------------------------
(* parseCmd(): for each field of Config the option it is set from, how often   *)
(* that may occur, and the value without it.                                 *)

One(o, d) == [opt |-> o, holds |-> "value", min |-> 0, max |-> 1, def |-> d]
Required(o) == [One(o, "") EXCEPT !.min = 1]
Path(o, d) == [One(o, d) EXCEPT !.holds = "path"]
Account(o, d) == [One(o, d) EXCEPT !.holds = "account"]
Email(o) == [Required(o) EXCEPT !.holds = "email"]
Text(o, d) == [One(o, d) EXCEPT !.holds = "mode"]
Many(o, n, d) == [opt |-> o, holds |-> "list", min |-> 0, max |-> n, def |-> d]
Count(o, n) == [opt |-> o, holds |-> "count", min |-> 0, max |-> n, def |-> 0]

tcpreceiver ==
    [intface |-> One("-i", "0.0.0.0"), port |-> One("-l", 50052), message_url |-> One("-o", PacketBus),
     buffer_size |-> One("-b", 4096), retries |-> One("-r", 0), retry_delay |-> One("-y", 60),
     compression_type |-> One("-c", 0), escape_code |-> One("-e", ""), eof_code |-> One("-E", ""),
     compression_offset |-> One("-s", 0), frequence_file |-> One("-f", ""),
     codemap_file |-> One("-m", ""), valid_sizes |-> Many("-p", 256, <<>>),
     daemonize |-> Count("-d", 1), max_fd |-> One("--maxfd", 0), verbosity |-> Count("-v", 3)]

mqtt_receiver ==
    [topics |-> Many("-t", 32, <<"pkt2">>), broker_address |-> One("-a", "tcp://127.0.0.1"),
     broker_port |-> One("-p", 1883), qos |-> One("-q", 1), client_id |-> One("-c", "mqtt-receiver"),
     keep_alive_interval |-> One("-k", 20), reconnect_delay |-> One("-w", 5),
     message_url |-> One("-o", PacketBus), retries |-> One("-r", 0), retry_delay |-> One("-y", 60),
     daemonize |-> Count("-d", 1), max_fd |-> One("--maxfd", 0), verbosity |-> Count("-v", 3)]

freceiver ==
    [file_mode |-> Text("-t", 0), filename_in |-> One("-i", ""), packet_size |-> One("-s", 0),
     message_url |-> One("-o", PacketBus), mode |-> One("-m", -1), proto_path |-> Path("-p", "proto"),
     buffer_size |-> One("-b", 4096), retries |-> One("-r", 0), retry_delay |-> One("-y", 60),
     daemonize |-> Count("-d", 1), max_fd |-> One("--maxfd", 0), verbosity |-> Count("-v", 3),
     sql_dialect |-> One("--sql-dialect", 0), tableAliases |-> Many("-T", 100, <<>>),
     fieldAliases |-> Many("-F", 100, <<>>), properties |-> Many("-P", 100, <<>>)]

pkt2receiver ==
    [in_url |-> One("-i", PacketBus), out_url |-> One("-o", MessageBus),
     control_url |-> One("--control", ControlBus), dump_url |-> One("--dump", "ipc:///tmp/dump.pkt2"),
     proto_path |-> Path("-p", "proto"), force_message |-> One("--message", ""),
     allowed_packet_sizes |-> Many("-a", 128, <<>>), buffer_size |-> One("-b", 4096),
     retries |-> One("-r", 0), retry_delay |-> One("-y", 60), max_fd |-> One("--maxfd", 0),
     tableAliases |-> Many("-T", 100, <<>>), fieldAliases |-> Many("-F", 100, <<>>),
     properties |-> Many("-P", 100, <<>>), daemonize |-> Count("-d", 1), verbosity |-> Count("-v", 3)]

handlerline ==
    [message_url |-> One("-i", MessageBus), allowed_messages |-> Many("-a", 128, <<>>),
     file_name |-> One("-o", ""), retries |-> One("-r", 0), retry_delay |-> One("-y", 60),
     daemonize |-> Count("-d", 1), verbosity |-> Count("-v", 3), proto_path |-> Path("-p", "proto"),
     mode |-> One("-m", 0), format_number |-> One("--format", 0), buffer_size |-> One("-b", 4096),
     sql_dialect |-> One("--sql-dialect", 0), tableAliases |-> Many("-T", 100, <<>>),
     fieldAliases |-> Many("-F", 100, <<>>), properties |-> Many("-P", 100, <<>>)]

\* path is the directory of the database.
handlerlmdb ==
    [message_url |-> One("-i", MessageBus), allowed_messages |-> Many("-a", 128, <<>>),
     retries |-> One("-r", 0), retry_delay |-> One("-y", 60), daemonize |-> Count("-d", 1),
     max_fd |-> One("--maxfd", 0), verbosity |-> Count("-v", 3), proto_path |-> Path("-p", "proto"),
     path |-> Path("--dbpath", "db"), flags |-> One("-f", 0), mode |-> One("-m", 436),
     buffer_size |-> One("-b", 4096)]

handlerpq ==
    [message_url |-> One("-i", MessageBus), allowed_messages |-> Many("-a", 128, <<>>),
     retries |-> One("-r", 0), retry_delay |-> One("-y", 60), daemonize |-> Count("-d", 1),
     verbosity |-> Count("-v", 3), proto_path |-> Path("-p", "proto"), dbconn |-> One("--conninfo", ""),
     dbuser |-> One("--user", ""), dbname |-> One("--database", ""), dbpassword |-> One("--password", ""),
     dbhost |-> One("--host", "localhost"), dbport |-> One("--port", 5432),
     dboptionsfile |-> One("--options-file", ""), dbsocket |-> One("--dbsocket", ""),
     dbcharset |-> One("--dbcharset", "utf8"), dbclientflags |-> One("--dbclientflags", 0),
     mode |-> One("-m", 4), format_number |-> One("--format", 0), buffer_size |-> One("-b", 4096),
     tableAliases |-> Many("-T", 100, <<>>), fieldAliases |-> Many("-F", 100, <<>>),
     properties |-> Many("-P", 100, <<>>), sql_dialect |-> One("--sql-dialect", 0)]

handler_fcm ==
    [message_url |-> One("-i", MessageBus), allowed_messages |-> Many("-a", 128, <<>>),
     retries |-> One("-r", 0), retry_delay |-> One("-y", 60), daemonize |-> Count("-d", 1),
     verbosity |-> Count("-v", 3), proto_path |-> Path("-p", "proto"),
     server_key |-> One("--key", DEF_SERVER_KEY), imei_field_name |-> One("--imei", "imei"),
     dbconn |-> One("--conninfo", ""), dbuser |-> One("--user", ""), dbname |-> One("--database", ""),
     dbpassword |-> One("--password", ""), dbhost |-> One("--host", "localhost"),
     dbport |-> One("--port", 5432), dboptionsfile |-> One("--options-file", ""),
     dbsocket |-> One("--dbsocket", ""), dbcharset |-> One("--dbcharset", "utf8"),
     dbclientflags |-> One("--dbclientflags", 0), format_number |-> One("--format", 0),
     buffer_size |-> One("-b", 4096)]

\* Config() reads the file of the account, and takes an empty e-mail from it.
handler_google_sheets ==
    [proto_path |-> Path("-p", "proto"), message_url |-> One("-i", MessageBus),
     allowed_messages |-> Many("-a", 128, <<>>), retries |-> One("-r", 0), retry_delay |-> One("-y", 60),
     daemonize |-> Count("-d", 1), verbosity |-> Count("-v", 3), mode |-> One("-m", 0),
     json |-> Account("-g", "cert/pkt2-sheets.json"), token_file |-> One("-B", ".token-bearer.txt"),
     subject_email |-> Email("-e"), spreadsheet |-> Required("-s"), sheet |-> Required("-t"),
     format_number |-> One("--format", 0), buffer_size |-> One("-b", 4096),
     tableAliases |-> Many("-T", 100, <<>>), fieldAliases |-> Many("-F", 100, <<>>),
     properties |-> Many("-P", 100, <<>>)]

repeator ==
    [in_url |-> One("-i", ControlBus), out_urls |-> Many("-o", 100, <<"tcp://0.0.0.0:50000">>),
     bind |-> Count("-s", 1), buffer_size |-> One("-b", 4096), retries |-> One("-r", 0),
     retry_delay |-> One("-y", 60), daemonize |-> Count("-d", 1), verbosity |-> Count("-v", 3)]

Options ==
    [tcp_listeners |-> tcpreceiver, mqtt_listeners |-> mqtt_receiver, file_listeners |-> freceiver,
     packet2message |-> pkt2receiver, write_file |-> handlerline, write_lmdb |-> handlerlmdb,
     write_pq |-> handlerpq, write_fcm |-> handler_fcm, write_google_sheets |-> handler_google_sheets,
     repeators |-> repeator]

-----------------------------------------------------------------------------
(* arg_parse(), and what follows it in every parseCmd().                      *)

Occurrences(line, o) ==
    LET found[n \in 0..Len(line)] ==
            IF n = 0 THEN <<>> ELSE IF line[n].opt = o THEN Append(found[n - 1], line[n]) ELSE found[n - 1]
    IN found[Len(line)]

Given(line, f) ==
    LET found == Occurrences(line, f.opt) IN IF found = <<>> THEN f.def ELSE found[1].val

\* -t "1" reads hexadecimal lines, "2" integers, anything else bytes.
FileMode(v) == IF v \in {1, 2} THEN v ELSE 0

\* F are the fields of the program.  An unknown option, one too many, a required one
\* that is missing, an argument without option, a path that does not exist and a file
\* without account end the program.
Accepts(F, line) ==
    /\ \A i \in 1..Len(line) : \E f \in DOMAIN F : F[f].opt = line[i].opt
    /\ \A f \in DOMAIN F : Len(Occurrences(line, F[f].opt)) \in F[f].min..F[f].max
    /\ \A f \in DOMAIN F : F[f].holds = "path" => Given(line, F[f]) \in DOMAIN realpath
    /\ \A f \in DOMAIN F : F[f].holds = "account" => Given(line, F[f]) \in DOMAIN accounts

Config(F, line) ==
    [f \in DOMAIN F |->
        LET found == Occurrences(line, F[f].opt) IN
        CASE F[f].holds \in {"value", "account"} -> Given(line, F[f])
          [] F[f].holds = "email" ->
                IF Given(line, F[f]) = "" THEN accounts[Given(line, F.json)] ELSE Given(line, F[f])
          [] F[f].holds = "path" -> realpath[Given(line, F[f])]
          [] F[f].holds = "mode" -> FileMode(Given(line, F[f]))
          [] F[f].holds = "count" -> Len(found)
          [] F[f].holds = "list" ->
                IF found = <<>> THEN F[f].def ELSE [i \in 1..Len(found) |-> found[i].val]]
=============================================================================
