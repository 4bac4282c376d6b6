------------------------------- MODULE Stations -------------------------------
(***************************************************************************)
(* The programs at the edge, which take packets from stations and put them on  *)
(* the packet bus: tcpreceiver, mqtt-receiver and freceiver.  They share       *)
(* nothing but the bus, so one of them is looked at at a time.                *)
(***************************************************************************)
EXTENDS TcpReceiver, MqttReceiver, FileReceiver

CONSTANT Frequencies \* the frequency files the tree is built from, as functions

VARIABLE station \* the program that runs

stationVars == <<station, tpc, tdec, tdata, tsize, tlength, tconn, tcount, tsent, tstop,
                 mpc, mstop, mout, mlink, mqueue, mcallback, msent, mhandled, mlost, mcount,
                 fpc, fjob, frest, finput, fpacket, fout, fstop, fsignals>>

NoDecoder == CHOOSE d \in Decoders : d.mode = 0
NoJob == CHOOSE j \in Jobs : TRUE

Init ==
    /\ station \in {"tcpreceiver", "mqtt-receiver", "freceiver"}
    /\ \E d \in Decoders : TcpInit(d) /\ (station # "tcpreceiver" => d = NoDecoder)
    /\ MqttInit
    /\ \E j \in Jobs : FileInit(j) /\ (station # "freceiver" => j = NoJob)

Tcp(A) == station = "tcpreceiver" /\ A /\ UNCHANGED <<station, mqttVars, fileVars>>
Mqtt(A) == station = "mqtt-receiver" /\ A /\ UNCHANGED <<station, tcpVars, fileVars>>
File(A) == station = "freceiver" /\ A /\ UNCHANGED <<station, tcpVars, mqttVars>>

Next == Tcp(TcpNext) \/ Mqtt(MqttNext) \/ File(FileNext)

\* The main threads go on; a callback that runs returns.
Fairness ==
    /\ WF_stationVars(Mqtt(MqttMain))
    /\ WF_stationVars(Mqtt(MqttThread))

Spec == Init /\ [][Next]_stationVars /\ Fairness

\* The tree that buildTree() makes of any file of frequencies is a shortest prefix
\* code, whatever order the priority queue gives to equal frequencies.
ShortestCodes ==
    (station = "tcpreceiver" /\ tpc = "start" /\ tcount = 0 /\ tdec = NoDecoder) =>
        \A f \in Frequencies : \A t \in buildTree(f) : IsShortestCode(f, t)

=============================================================================
