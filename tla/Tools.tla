--------------------------------- MODULE Tools ---------------------------------
(***************************************************************************)
(* The programs that pkt2 does not start: dumpers, gateways, emitters,        *)
(* converters, and pkt2 itself.  parseCmd() of each is a table as in           *)
(* CommandLines.  Sockets says what each program opens on the buses.           *)
(***************************************************************************)
EXTENDS CommandLines

\* The options of f and those of g besides.
f ++ g == [x \in DOMAIN f \cup DOMAIN g |-> IF x \in DOMAIN f THEN f[x] ELSE g[x]]

DumpBus == "ipc:///tmp/dump.pkt2"

Database_options ==
    [dbconn |-> One("--conninfo", ""), dbuser |-> One("--user", ""), dbname |-> One("--database", ""),
     dbpassword |-> One("--password", ""), dbhost |-> One("--host", "localhost"),
     dbport |-> One("--port", 5432), dboptionsfile |-> One("--options-file", ""),
     dbsocket |-> One("--dbsocket", ""), dbcharset |-> One("--dbcharset", "utf8"),
     dbclientflags |-> One("--dbclientflags", 0)]

Aliases ==
    [tableAliases |-> Many("-T", 100, <<>>), fieldAliases |-> Many("-F", 100, <<>>),
     properties |-> Many("-P", 100, <<>>)]

Retry(n, delay) ==
    [retries |-> One("-r", n), retry_delay |-> One("-y", delay), verbosity |-> Count("-v", 3)]

Daemon == [daemonize |-> Count("-d", 1)]

Account_options ==
    [json |-> Account("-g", "cert/pkt2-sheets.json"), token_file |-> One("-B", ".token-bearer.txt"),
     subject_email |-> Email("-e"), spreadsheet |-> Required("-s"), sheet |-> Required("-t"),
     format_number |-> One("--format", 0)]

pkt2dumppq ==
    [packet_url |-> One("-i", DumpBus), max_fd |-> One("--maxfd", 0), createtable |-> Count("--createtable", 1),
     buffer_size |-> One("-b", 4096)] ++ Retry(0, 60) ++ Daemon ++ Database_options

pkt2dumpfcm ==
    [packet_url |-> One("-i", DumpBus), max_fd |-> One("--maxfd", 0), server_key |-> One("-k", DEF_SERVER_KEY),
     imei_field_offset |-> One("--imei-offset", 10), imei_field_size |-> One("--imei-size", 15),
     packet_size |-> One("--packet-size", 0), timezone |-> One("--timezone", 9 * 3600),
     test_data_hex |-> One("-x", ""), buffer_size |-> One("-b", 4096)]
    ++ Retry(0, 60) ++ Daemon ++ Database_options

message2gateway ==
    [message_in_url |-> One("-i", PacketBus), message_out_url |-> One("-o", MessageBus),
     proto_path |-> Path("-p", "proto"), file_name |-> One("-f", ""), from_stdin |-> Count("-s", 1),
     buffer_size |-> One("-b", 4096), force_message |-> One("--force", "")] ++ Retry(0, 60) ++ Daemon

\* The packet is an argument without option.
pkt2gateway ==
    [message_out_url |-> One("-o", MessageBus), packet |-> One("", ""), mode |-> One("-m", "raw"),
     file_name |-> One("-f", ""), proto_path |-> Path("-p", "proto"),
     force_message |-> One("--message", "")] ++ Retry(1, 0) ++ Aliases

tcpemitter ==
    [intface |-> One("-i", "0.0.0.0"), port |-> One("-l", 50052), message_out_url |-> One("-o", MessageBus),
     proto_path |-> Path("-p", "proto"), file_name |-> One("-f", ""), count |-> One("-n", 1),
     delay |-> One("-w", 0)] ++ Retry(0, 60) ++ Daemon

messageemitter ==
    [intface |-> One("-i", "0.0.0.0"), port |-> One("-l", 50052), message_out_url |-> One("-o", MessageBus),
     proto_path |-> Path("-p", "proto"), file_name |-> One("-f", "")] ++ Retry(0, 60) ++ Daemon

pkt2receiver_check == [control_url |-> One("-c", ControlBus)] ++ Retry(0, 60) ++ Daemon

pkt2js ==
    [filename_input |-> One("-i", ""), filename_output |-> One("-o", ""), mode |-> One("-m", "json"),
     proto_path |-> Path("-p", "proto"), force_message |-> One("-f", ""),
     allowed_packet_sizes |-> Many("-a", 128, <<>>), input_format |-> Count("-x", 1),
     buffer_size |-> One("-b", 4096), max_fd |-> One("--maxfd", 0)] ++ Retry(0, 60) ++ Daemon ++ Aliases

pkt2sheet ==
    [proto_path |-> Path("-p", "proto"), filename_input |-> One("-i", ""), input_mode |-> Count("-x", 1),
     force_message |-> One("-f", ""), allowed_messages |-> Many("-a", 128, <<>>),
     allowed_packet_sizes |-> Many("-A", 128, <<>>), buffer_size |-> One("-b", 4096)]
    ++ Account_options ++ Retry(0, 60) ++ Daemon ++ Aliases

\* -p is accepted and not used.
js2sheet ==
    [protos |-> One("-p", "proto"), filename_input |-> One("-i", ""), buffer_size |-> One("-b", 4096)]
    ++ Account_options ++ Retry(0, 60) ++ Daemon

pkt2 ==
    [file_name |-> Path("-c", "pkt2.js"), path |-> Path("-p", "."), output |-> Count("-o", 1),
     verbosity |-> Count("-v", 3)] ++ Daemon

ToolOptions ==
    [pkt2dumppq |-> pkt2dumppq, pkt2dumpfcm |-> pkt2dumpfcm, message2gateway |-> message2gateway,
     pkt2gateway |-> pkt2gateway, tcpemitter |-> tcpemitter, messageemitter |-> messageemitter,
     pkt2receiver_check |-> pkt2receiver_check, pkt2js |-> pkt2js, pkt2sheet |-> pkt2sheet,
     js2sheet |-> js2sheet, pkt2 |-> pkt2]

-----------------------------------------------------------------------------
(* The sockets a program opens: to which address, whether it binds it, and the  *)
(* protocol of nanomsg.                                                      *)

Bound(url) == [url |-> url, binds |-> TRUE, protocol |-> "bus"]
Connected(url) == [url |-> url, binds |-> FALSE, protocol |-> "bus"]

pkt2receiver_sockets(c) == {Bound(c.control_url), Bound(c.dump_url), Bound(c.in_url), Bound(c.out_url)}

\* Wrong on purpose: the socket is one for subscriptions, as that of handlerlmdb.
linewriter_sockets_Sub(c) == {[Connected(c.message_url) EXCEPT !.protocol = "sub"]}

linewriter_sockets(c) == {Connected(c.message_url)}
pqwriter_sockets(c) == {Connected(c.message_url)}
fcm_writer_sockets(c) == {Connected(c.message_url)}
google_sheets_writer_sockets(c) == {Connected(c.message_url)}
lmdbwriter_sockets(c) == {[Connected(c.message_url) EXCEPT !.protocol = "sub"]}
station_sockets(c) == {Connected(c.message_url)}

repeator_sockets(c) ==
    {Connected(c.in_url)} \cup {[Connected(c.out_urls[i]) EXCEPT !.binds = (c.bind > 0)] : i \in 1..Len(c.out_urls)}

\* freceiver opens none if it prints.
Sockets(kind, c) ==
    CASE kind = "packet2message" -> pkt2receiver_sockets(c)
      [] kind = "write_file" -> linewriter_sockets(c)
      [] kind = "write_lmdb" -> lmdbwriter_sockets(c)
      [] kind = "write_pq" -> pqwriter_sockets(c)
      [] kind = "write_fcm" -> fcm_writer_sockets(c)
      [] kind = "write_google_sheets" -> google_sheets_writer_sockets(c)
      [] kind \in {"tcp_listeners", "mqtt_listeners"} -> station_sockets(c)
      [] kind = "file_listeners" -> (IF c.mode >= 0 THEN {} ELSE station_sockets(c))
      [] kind = "repeators" -> repeator_sockets(c)

\* message2gateway reads a file or its input instead of the bus.
message2gateway_sockets(c) ==
    {Bound(c.message_out_url)}
    \cup (IF c.from_stdin > 0 \/ c.file_name # "" \/ c.message_in_url = "" THEN {} ELSE {Connected(c.message_in_url)})

\* pkt2receiver-check calls nothing; emitters and converters do without a bus.
ToolSockets(tool, c) ==
    CASE tool \in {"pkt2dumppq", "pkt2dumpfcm"} -> {Connected(c.packet_url)}
      [] tool = "message2gateway" -> message2gateway_sockets(c)
      [] tool = "pkt2gateway" -> {Bound(c.message_out_url)}
      [] OTHER -> {}
=============================================================================
