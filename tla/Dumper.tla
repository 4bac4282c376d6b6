--------------------------------- MODULE Dumper ---------------------------------
(***************************************************************************)
(* pkt2dumppq and pkt2dumpfcm: packets of the dump bus go to a table or to         *)
(* Firebase.  The buffer is theirs (-b n) or, with -b 0, that which nanomsg         *)
(* allocates for each packet; freeing a buffer that is not one's own, or twice,     *)
(* crashes the program.                                                       *)
(***************************************************************************)
EXTENDS Notifier

VARIABLES
    own,     \* buffer_size > 0
    buffer,  \* what it points to: "null", "own", "freed" or, of nanomsg, "message"
    holds,   \* the packet in the buffer of nanomsg
    leaked   \* packets whose buffer nobody points to and nobody has freed

dumpVars == <<own, buffer, holds, leaked>>

Dumpers == {"pqdumper", "fcmdumper"}

DumpInit(o) == own = o /\ buffer = (IF o THEN "own" ELSE "null") /\ holds = None /\ leaked = {}

InBuffer(m) ==
    IF own THEN UNCHANGED <<buffer, holds, leaked>>
    ELSE /\ buffer' = "message" /\ holds' = m
         /\ leaked' = IF buffer = "message" THEN leaked \cup {holds} ELSE leaked

\* nn_recv(); a packet without room for the header is dropped, and its buffer with it.
dumper_run(s, there) ==
    /\ At(s, "loop") /\ ~stop /\ inbox # <<>>
    /\ inbox' = Tail(inbox)
    /\ InBuffer(Head(inbox))
    /\ LET short == getPayloadSize(Head(inbox).size) < 0 IN
       /\ pc' = IF short THEN "loop" ELSE there
       /\ msg' = IF short THEN msg ELSE Head(inbox)
    /\ NoFault /\ UNCHANGED <<sink, stop, own>>

\* nn_recv() gives -1, which is no size of a packet either.
dumper_fails(s) == ReceiveFails(s) /\ UNCHANGED dumpVars

pqdumper_run ==
    (dumper_run("pqdumper", "insert") \/ dumper_fails("pqdumper")) /\ UNCHANGED <<pqVars, fcmVars>>

fcmdumper_run ==
    (dumper_run("fcmdumper", "lookup") \/ dumper_fails("fcmdumper")) /\ UNCHANGED <<pqVars, fcmVars>>

\* execSQL() of pqdumper.cpp, without a transaction.
Insert ==
    /\ At("pqdumper", "insert") /\ Goes("free")
    /\ \/ NoFault /\ table' = [table EXCEPT ![msg] = @ + 1]
       \/ Fault /\ (table' = [table EXCEPT ![msg] = @ + 1] \/ UNCHANGED table)
    /\ UNCHANGED <<mode, txn, fcmVars, dumpVars>>

\* Wrong on purpose: the buffer is freed whoever allocated it.
nn_freemsg_Always ==
    /\ sink \in Dumpers /\ pc = "free"
    /\ buffer' = "freed"
    /\ NoFault /\ Goes("loop") /\ UNCHANGED <<own, holds, leaked, pqVars, fcmVars>>

\* With -b 0 the buffer of nanomsg is given back.
nn_freemsg ==
    /\ sink \in Dumpers /\ pc = "free"
    /\ buffer' = IF own THEN buffer ELSE "freed"
    /\ NoFault /\ Goes("loop") /\ UNCHANGED <<own, holds, leaked, pqVars, fcmVars>>

\* free(buffer) after the loop.
FreeBuffer ==
    /\ sink \in Dumpers /\ pc = "loop" /\ stop
    /\ Goes(IF buffer \in {"null", "own"} THEN "ended" ELSE "crashed")
    /\ NoFault /\ UNCHANGED <<dumpVars, pqVars, fcmVars>>

DumpStep ==
    \/ pqdumper_run \/ fcmdumper_run \/ Insert \/ nn_freemsg \/ FreeBuffer
    \/ sink = "fcmdumper" /\ FcmDumpStep /\ UNCHANGED <<pqVars, dumpVars>>

(***************************************************************************)
(* A buffer of their own keeps the dumpers from freeing anything twice, and       *)
(* from losing memory; with -b 0 what is lost is the buffers of packets that were   *)
(* too short.  (pqdumper.cpp 127-177, fcmdumper.cpp 240-296)                    *)
(***************************************************************************)
BuffersAccounted ==
    sink \in Dumpers =>
        /\ own => buffer = "own" /\ leaked = {} /\ pc # "crashed"
        /\ \A m \in leaked : getPayloadSize(m.size) < 0
=============================================================================
