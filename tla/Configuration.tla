----------------------------- MODULE Configuration -----------------------------
(***************************************************************************)
(* The configuration of the loader over its life: pkt2.js, which its user may  *)
(* change at any time, is evaluated by load(), read from the global object of   *)
(* the interpreter by load_config(), turned into command lines by init() and    *)
(* parsed by the programs that start() runs.  A SIGHUP does all this again     *)
(* with the same interpreter and the same CfgCommon.  (What becomes of the     *)
(* processes is the subject of Supervisor.)                                   *)
(***************************************************************************)
EXTENDS CommandLines

CONSTANTS
    Files,    \* contents of pkt2.js: the global variables it sets before it
              \* ends or, if it fails, before it fails
    Odd,      \* a value of a type that load_config() does not ask for
    NoFile,   \* nothing has been loaded
    Builds,   \* sets of executables that may be in the directory of pkt2
    MaxLoads  \* bound: how often the file is loaded

Globals == Kinds \cup DOMAIN CfgCommon

IsList(v) == v \in Seq({v[i] : i \in DOMAIN v})

\* Settings that are lists, in the entries that have them.
Lists == {"valid_sizes", "sizes", "messages", "outs"}

\* A value that load_config() can make something of: the types of the settings of an
\* entry are not tested.
Usable(s, v) ==
    /\ s = "verbosity" => v \in Nat
    /\ s \in Kinds =>
          /\ IsList(v)
          /\ \A i \in 1..Len(v) : /\ \A t \in DOMAIN v[i] \cap Lists : IsList(v[i][t])
                                  /\ "bind" \in DOMAIN v[i] => v[i].bind \in BOOLEAN

ASSUME FilesAssumption ==
    \A f \in Files :
        /\ f.fails \in BOOLEAN /\ DOMAIN f.sets \subseteq Globals
        /\ \A s \in DOMAIN f.sets : f.sets[s] # Odd => Usable(s, f.sets[s])
ASSUME NoFileAssumption == NoFile \notin Files
ASSUME LoadsAssumption == MaxLoads \in Nat

VARIABLES
    pc,
    installed,    \* the executables that there are
    loaded,       \* what was in pkt2.js at the last load()
    global,       \* properties of the global object of the interpreter
    cfgCommon,    \* ProcessDescriptors::cfgCommon
    entries,      \* cfgListenerTcp and its like, by the name of the array
    descriptors,  \* the command lines of descriptors, by the same name
    started,      \* what the programs made of them
    before,       \* what was in pkt2.js when descriptors was made
    loads

vars == <<pc, installed, loaded, global, cfgCommon, entries, descriptors, started, before, loads>>

NothingOf == [k \in Kinds |-> <<>>]

Init ==
    /\ pc = "load"
    /\ installed \in Builds
    /\ loaded = NoFile /\ before = NoFile
    /\ global = <<>>
    /\ cfgCommon = CfgCommon
    /\ entries = NothingOf /\ descriptors = NothingOf /\ started = NothingOf
    /\ loads = 0

-----------------------------------------------------------------------------

\* duk_peval_string(): assignments to global variables add to those of before.
Evaluate(g, f) ==
    [s \in DOMAIN g \cup DOMAIN f.sets |-> IF s \in DOMAIN f.sets THEN f.sets[s] ELSE g[s]]

\* What load_config() stores of a common setting: nothing if it is not there or of
\* another type.
Common(g, c) ==
    [s \in DOMAIN c |-> IF s \in DOMAIN g /\ g[s] # Odd THEN g[s] ELSE c[s]]

\* An entry: settings it does not have are those of the constructor.  Those it has
\* are of their type, which load_config() does not test here.
Entry(k, e) ==
    [s \in DOMAIN Settings[k] |-> IF s \in DOMAIN e THEN e[s] ELSE Settings[k][s]]

ArrayOf(g, k) == IF k \in DOMAIN g /\ g[k] # Odd THEN g[k] ELSE <<>>

Entries(g) == [k \in Kinds |-> [i \in 1..Len(ArrayOf(g, k)) |-> Entry(k, ArrayOf(g, k)[i])]]

\* Wrong on purpose: the entries of before are not cleared.
Load_NoClear(file) ==
    /\ pc = "load"
    /\ loads < MaxLoads
    /\ loads' = loads + 1
    /\ loaded' = file
    /\ global' = Evaluate(global, file)
    /\ cfgCommon' = Common(global', cfgCommon)
    /\ entries' = [k \in Kinds |-> entries[k] \o Entries(global')[k]]
    /\ pc' = IF file.fails THEN "done" ELSE "init"
    /\ UNCHANGED <<installed, descriptors, started, before>>

\* load(), with load_config(), of what is in pkt2.js now: they run to the end also if the script fails, and
\* then pkt2() returns.
Load(file) ==
    /\ pc = "load"
    /\ loads < MaxLoads
    /\ loads' = loads + 1
    /\ loaded' = file
    /\ global' = Evaluate(global, file)
    /\ cfgCommon' = Common(global', cfgCommon)
    /\ entries' = Entries(global')
    /\ pc' = IF file.fails THEN "done" ELSE "init"
    /\ UNCHANGED <<installed, descriptors, started, before>>

Lines(E, c) == [k \in Kinds |-> [i \in 1..Len(E[k]) |-> args(k, E[k][i], c)]]

init ==
    /\ pc = "init"
    /\ descriptors' = Lines(entries, cfgCommon)
    /\ before' = loaded
    /\ pc' = "start"
    /\ UNCHANGED <<installed, loaded, global, cfgCommon, entries, started, loads>>

\* The names in init().
Program ==
    [tcp_listeners |-> "tcpreceiver", mqtt_listeners |-> "mqtt-receiver", file_listeners |-> "freceiver",
     packet2message |-> "pkt2receiver", write_file |-> "handlerline", write_lmdb |-> "handlerlmdb",
     write_pq |-> "handlerpq", write_fcm |-> "handlerfcm", write_google_sheets |-> "handler-google-sheets",
     repeators |-> "repeator"]

\* A program ends with an error if parseCmd() does not like its command line.
Run(k, line) ==
    IF Program[k] \in installed /\ Accepts(Options[k], line)
    THEN [accepted |-> TRUE, config |-> Config(Options[k], line)]
    ELSE [accepted |-> FALSE, config |-> <<>>]

Runs(D) == [k \in Kinds |-> [i \in 1..Len(D[k]) |-> Run(k, D[k][i])]]

Start ==
    /\ pc = "start"
    /\ started' = Runs(descriptors)
    /\ pc' = "watch"
    /\ UNCHANGED <<installed, loaded, global, cfgCommon, entries, descriptors, before, loads>>

\* SIGHUP: the children are stopped, goto START.
Reload ==
    /\ pc = "watch"
    /\ started' = NothingOf
    /\ pc' = "load"
    /\ UNCHANGED <<installed, loaded, global, cfgCommon, entries, descriptors, before, loads>>

Next == (\E file \in Files : Load(file)) \/ init \/ Start \/ Reload

Spec == Init /\ [][Next]_vars

-----------------------------------------------------------------------------

TypeOK ==
    /\ pc \in {"load", "init", "start", "watch", "done"}
    /\ installed \in Builds
    /\ loaded \in Files \cup {NoFile} /\ before \in Files \cup {NoFile}
    /\ DOMAIN global \subseteq Globals
    /\ DOMAIN cfgCommon = DOMAIN CfgCommon
    /\ DOMAIN entries = Kinds /\ DOMAIN descriptors = Kinds /\ DOMAIN started = Kinds
    /\ loads \in 0..MaxLoads

\* The field of Config that a setting is meant for.
Means ==
    [tcp_listeners |-> [ip |-> "intface", port |-> "port", compression_type |-> "compression_type",
        escape_code |-> "escape_code", compression_offset |-> "compression_offset",
        frequence_file |-> "frequence_file", codemap_file |-> "codemap_file",
        valid_sizes |-> "valid_sizes", bus_in |-> "message_url", max_buffer_size |-> "buffer_size",
        max_file_descriptors |-> "max_fd", verbosity |-> "verbosity"],
     mqtt_listeners |-> [client |-> "client_id", topic |-> "topics", broker |-> "broker_address",
        port |-> "broker_port", qos |-> "qos", keep_alive |-> "keep_alive_interval",
        bus_in |-> "message_url", max_file_descriptors |-> "max_fd", verbosity |-> "verbosity"],
     file_listeners |-> [file |-> "filename_in", mode |-> "file_mode", bus_in |-> "message_url",
        proto_path |-> "proto_path", max_buffer_size |-> "buffer_size",
        max_file_descriptors |-> "max_fd", verbosity |-> "verbosity"],
     packet2message |-> [force_message |-> "force_message", sizes |-> "allowed_packet_sizes",
        proto_path |-> "proto_path", bus_in |-> "in_url", bus_out |-> "out_url",
        max_file_descriptors |-> "max_fd", max_buffer_size |-> "buffer_size",
        verbosity |-> "verbosity"],
     write_file |-> [file |-> "file_name", mode |-> "mode", messages |-> "allowed_messages",
        proto_path |-> "proto_path", bus_out |-> "message_url", max_buffer_size |-> "buffer_size",
        verbosity |-> "verbosity"],
     write_lmdb |-> [dbpath |-> "path", messages |-> "allowed_messages", proto_path |-> "proto_path",
        bus_out |-> "message_url", max_buffer_size |-> "buffer_size",
        max_file_descriptors |-> "max_fd", verbosity |-> "verbosity"],
     write_pq |-> [user |-> "dbuser", password |-> "dbpassword", scheme |-> "dbname",
        host |-> "dbhost", port |-> "dbport", messages |-> "allowed_messages",
        proto_path |-> "proto_path", bus_out |-> "message_url", max_buffer_size |-> "buffer_size",
        verbosity |-> "verbosity"],
     write_fcm |-> [key |-> "server_key", imei |-> "imei_field_name", user |-> "dbuser",
        password |-> "dbpassword", scheme |-> "dbname", host |-> "dbhost", port |-> "dbport",
        messages |-> "allowed_messages", proto_path |-> "proto_path", bus_out |-> "message_url",
        max_buffer_size |-> "buffer_size", verbosity |-> "verbosity"],
     write_google_sheets |-> [json_service_file_name |-> "json", bearer_file_name |-> "token_file",
        email |-> "subject_email", spreadsheet |-> "spreadsheet", sheet |-> "sheet",
        messages |-> "allowed_messages", proto_path |-> "proto_path", bus_out |-> "message_url",
        max_buffer_size |-> "buffer_size", verbosity |-> "verbosity"],
     repeators |-> [in |-> "in_url", bind |-> "bind", outs |-> "out_urls",
        max_buffer_size |-> "buffer_size", verbosity |-> "verbosity"]]

\* What freceiver and handlerline take without -b.
DefaultBuffer == 4096

\* The values of settings that do not reach the program: those that args() loses
\* (escape_code, keep-alive, mode of write_file), those it takes for "as the
\* program likes", modes that freceiver does not know, and the common settings of
\* which it says nothing to a program that has an option for them (402-423,
\* 516-546, 561-600): such a program keeps its own default.
Lost(k, s, v) ==
    \/ k = "tcp_listeners" /\ s = "escape_code" /\ v # ""
    \/ k = "mqtt_listeners" /\ s = "keep_alive" /\ v # 20
    \/ k = "write_file" /\ s = "mode" /\ v # 0
    \/ k = "file_listeners" /\ s = "mode" /\ v \notin 0..2
    \/ k \in {"tcp_listeners", "packet2message"} /\ s = "max_buffer_size" /\ v = 0
    \/ k = "repeators" /\ s = "outs" /\ v = <<>>
    \/ k = "write_google_sheets" /\ s = "email" /\ v = ""
    \/ s = "proto_path" /\ v = ""
    \/ k \in {"file_listeners", "write_file"} /\ s = "max_buffer_size" /\ v # DefaultBuffer
    \/ k = "file_listeners" /\ s = "proto_path" /\ v # "proto"
    \/ k = "write_lmdb" /\ s = "max_file_descriptors" /\ v # 0

\* A value as the field of Config holds it.
AsHeld(k, s, v) ==
    CASE Options[k][Means[k][s]].holds = "path" -> realpath[v]
      [] s = "bind" -> (IF v THEN 1 ELSE 0)
      [] s = "topic" -> <<v>>
      [] OTHER -> v

Obeys(k, i, s, v) ==
    started[k][i].accepted /\ ~Lost(k, s, v) =>
        started[k][i].config[Means[k][s]] = AsHeld(k, s, v)

(***************************************************************************)
(* What pkt2.js sets is what the programs hold: for each array it sets there   *)
(* are as many programs as entries, each with the settings of its entry, and    *)
(* every program has the common settings that the file sets, whatever was       *)
(* loaded before.  So no option is left out although the program's default      *)
(* differs from the loader's, and none goes to the wrong field, but for the      *)
(* values named in Lost, four pairs of a program and a common setting that args() *)
(* never passes to it among them.  (pkt2-impl.cpp 203-910, *-config.cpp)        *)
(***************************************************************************)
ProgramsObeyFile ==
    pc = "watch" =>
        /\ \A k \in Kinds \cap DOMAIN loaded.sets : loaded.sets[k] # Odd =>
              /\ Len(started[k]) = Len(loaded.sets[k])
              /\ \A i \in 1..Len(started[k]), s \in DOMAIN Settings[k] :
                    Obeys(k, i, s, Entry(k, loaded.sets[k][i])[s])
        /\ \A k \in Kinds : \A i \in 1..Len(started[k]) :
              \A s \in DOMAIN Means[k] \cap DOMAIN CfgCommon \cap DOMAIN loaded.sets :
                    loaded.sets[s] # Odd => Obeys(k, i, s, loaded.sets[s])

Receivers == {"tcp_listeners", "mqtt_listeners", "file_listeners"}
Handlers == {"write_file", "write_lmdb", "write_pq", "write_fcm", "write_google_sheets"}

\* What an entry and the common settings must be like for the program to start:
\* freceiver and those that get no -p look for the directory "proto"; argtable takes so
\* many sizes, messages and addresses.
Startable(k, e, c) ==
    /\ Program[k] \in installed
    /\ c.verbosity <= 3
    /\ k = "tcp_listeners" => Len(e.valid_sizes) <= 256
    /\ k = "packet2message" => Len(e.sizes) <= 128
    /\ k \in Handlers => Len(e.messages) <= 128
    /\ k = "repeators" => Len(e.outs) <= 100
    /\ k = "write_fcm" => e.key \notin {"", DEF_SERVER_KEY} /\ e.imei = "imei"
    /\ k = "write_lmdb" => e.dbpath \in DOMAIN realpath
    /\ k = "write_google_sheets" => e.json_service_file_name \in DOMAIN accounts
    /\ k = "file_listeners" => "proto" \in DOMAIN realpath
    /\ k = "write_file" => c.proto_path \in DOMAIN realpath
    /\ k \in Handlers \cup {"packet2message"} =>
          (IF c.proto_path = "" THEN "proto" ELSE c.proto_path) \in DOMAIN realpath

(***************************************************************************)
(* No program refuses a command line that pkt2 makes for it, which would be     *)
(* tried again every second, except for the settings that Startable excludes.   *)
(***************************************************************************)
RefusedForAReason ==
    pc = "watch" =>
        \A k \in Kinds : \A i \in 1..Len(started[k]) :
            started[k][i].accepted <=> Startable(k, entries[k][i], cfgCommon)

(***************************************************************************)
(* A SIGHUP that finds pkt2.js as it was gives the same command lines: no entry  *)
(* is doubled and no setting drifts.  (load(), pkt2-impl.cpp 1412-1442)         *)
(***************************************************************************)
ReloadChangesNothing ==
    [][pc = "init" /\ loaded = before => descriptors' = descriptors \/ pc' = pc]_vars

-----------------------------------------------------------------------------
(* What makes a second load of the same file harmless.                        *)

\* The file last loaded has nothing to add to the globals, nor those to the rest.
Absorbed ==
    loaded # NoFile =>
        /\ Evaluate(global, loaded) = global
        /\ Common(global, cfgCommon) = cfgCommon
        /\ Entries(global) = entries

\* The command lines are those of the file last loaded, once init() has run.
Current ==
    /\ pc \in {"start", "watch", "load"} => before = loaded
    /\ pc = "init" => loaded # NoFile
    /\ pc # "done" /\ before = loaded /\ before # NoFile => descriptors = Lines(entries, cfgCommon)

\* load_config() can make something of what is in the globals, and the programs run
\* with the command lines that are there.
Ready ==
    /\ \A s \in DOMAIN global : global[s] # Odd => Usable(s, global[s])
    /\ cfgCommon.verbosity \in Nat
    /\ pc \in {"init", "start", "watch"} => loaded # NoFile
    /\ pc = "watch" => started = Runs(descriptors)

IInv == TypeOK /\ Absorbed /\ Current /\ Ready

=============================================================================
