---------------------------- MODULE MCConfiguration ----------------------------
(***************************************************************************)
(* Instances of Configuration for TLC: the pkt2.js of the repository with every *)
(* array, files that set one common setting, or all settings of one entry, to     *)
(* values that are nobody's default, entries without settings, an empty (or      *)
(* missing) file, values of other types, two entries in an array, and a script   *)
(* that fails half way.                                                       *)
(***************************************************************************)
EXTENDS Buses, TLC

MCPaths == ("proto" :> "/pkt2/proto" @@ "protos" :> "/pkt2/protos" @@ "db" :> "/pkt2/db" @@ "." :> "/pkt2"
            @@ "pkt2.js" :> "/pkt2/pkt2.js")

MCAccounts == ("cert/pkt2-sheets.json" :> "pub" @@ "j" :> "pub")

\* What the build installs, and the same with a link of the name that init() uses.
Built == {"tcpreceiver", "mqtt-receiver", "freceiver", "pkt2receiver", "handlerline", "handlerlmdb",
          "handlerpq", "handler-fcm", "handler-google-sheets", "repeator"}
MCBuilds == {Built, Built \cup {"handlerfcm"}}

Sets(s) == [sets |-> s, fails |-> FALSE]

Sample == [
    proto_path |-> "proto", max_file_descriptors |-> 0, max_buffer_size |-> 4096,
    bus_in |-> PacketBus, bus_out |-> MessageBus, verbosity |-> 3,
    tcp_listeners |-> <<tcp_listeners>>,
    mqtt_listeners |-> <<[client |-> "cli01", broker |-> "tcp://127.0.0.1", topic |-> "pkt2",
                          port |-> 1883, qos |-> 1, keep_alive |-> 20]>>,
    file_listeners |-> <<[file |-> "/dev/device", mode |-> 0]>>,
    packet2message |-> <<packet2message>>,
    write_file |-> <<[file |-> "1.txt", mode |-> 0, messages |-> <<"iridium.IE_Packet">>]>>,
    write_lmdb |-> <<[dbpath |-> "db"]>>,
    write_pq |-> <<[user |-> "pkt2", password |-> "123456", scheme |-> "pkt2"]>>,
    write_fcm |-> <<[key |-> "other", imei |-> "imei"]>>,
    write_google_sheets |-> <<[json_service_file_name |-> "cert/pkt2-sheets.json"]>>,
    repeators |-> <<[in |-> ControlBus, outs |-> <<"tcp://0.0.0.0:50000">>]>>]

Others == [
    proto_path |-> {"protos", "nowhere", "", Odd}, max_file_descriptors |-> {1024},
    max_buffer_size |-> {0, 8192}, bus_in |-> {"tcp://in", Odd}, bus_out |-> {"tcp://out"},
    verbosity |-> {0, 4, Odd}]

\* As many sizes as an option of pkt2receiver may have, and one more.
Numbers(n) == [i \in 1..n |-> i]

OtherEntries == [
    tcp_listeners |-> [ip : {"127.0.0.1"}, port : {7000}, compression_type : {1}, escape_code : {"101"},
        compression_offset : {2}, frequence_file : {"f"}, codemap_file : {"m"}, valid_sizes : {<<4, 8>>}],
    mqtt_listeners |-> [client : {"c"}, topic : {"t"}, broker : {"b"}, port : {1884}, qos : {0, 2},
        keep_alive : {30}],
    file_listeners |-> [file : {"", "f"}, mode : {1, 2}],
    packet2message |-> [force_message : {"a.b"}, sizes : {<<81>>, <<1, 2>>, Numbers(128), Numbers(129)}],
    write_file |-> [file : {"2.txt"}, mode : {1}, messages : {<<"a">>, <<"a", "b">>}],
    write_lmdb |-> [dbpath : {"db", "nowhere"}, messages : {<<"a">>}],
    write_pq |-> [user : {"u"}, password : {"p"}, scheme : {"s"}, host : {"h"}, port : {5433},
        messages : {<<"a">>}],
    write_fcm |-> [key : {DEF_SERVER_KEY, "k"}, imei : {"imei", "id"}, user : {"u"}, password : {"p"},
        scheme : {"s"}, host : {"h"}, port : {5433}, messages : {<<"a">>}],
    write_google_sheets |-> [json_service_file_name : {"j", "none"}, bearer_file_name : {"t"}, email : {"e"},
        spreadsheet : {"s"}, sheet : {"t"}, messages : {<<"a">>}],
    repeators |-> [in : {"", "tcp://in"}, bind : BOOLEAN, outs : {<<>>, <<"tcp://a", "tcp://b">>}]]

\* Every array with one entry that leaves all to the defaults.
Bare == [k \in Kinds |-> << <<>> >>]

OneCommon == UNION {{Sets(s :> v) : v \in Others[s]} : s \in DOMAIN Others}
OneKind == UNION {{Sets(k :> <<e>>) : e \in OtherEntries[k]} : k \in DOMAIN OtherEntries}

MCFiles == {Sets(Sample), Sets(Bare), Sets(<<>>), [sets |-> ("bus_in" :> "tcp://failed"), fails |-> TRUE],
            Sets("tcp_listeners" :> <<[port |-> 1], [port |-> 2]>>), Sets("tcp_listeners" :> Odd)}
               \cup OneCommon \cup OneKind

\* Tools are started with no option, and those that have one with another bus.
MCToolLines ==
    [tool \in DOMAIN ToolOptions |->
        CASE tool \in {"pkt2sheet", "js2sheet"} -> {Arg("-e", "e") \o Arg("-s", "s") \o Arg("-t", "t")}
          [] tool \in {"message2gateway", "pkt2gateway"} -> {<<>>, Arg("-o", "tcp://out"), Arg("-p", "nowhere")}
          [] OTHER -> {<<>>}]

MCByHand == {Sets(Sample), Sets("bus_out" :> "tcp://out")}
=============================================================================
