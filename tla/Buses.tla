--------------------------------- MODULE Buses ---------------------------------
(***************************************************************************)
(* Who meets whom on the buses: the programs that pkt2 starts from pkt2.js, over *)
(* reloads and crashes, and the tools a user starts beside them.  An address is  *)
(* bound by at most one program; a program that cannot bind what it wants ends    *)
(* and, if it is a child of pkt2, is started again.  A program may connect        *)
(* before anybody has bound the address.  (nanomsg is external.)                *)
(***************************************************************************)
EXTENDS Configuration, Tools, FiniteSets

CONSTANTS
    ToolLines,  \* tool |-> command lines with which it is started
    ByHand,     \* bound: files that are loaded when tools are started
    MaxTools,   \* bound: how many tools run at a time
    MaxOutlive  \* bound: no later load than this one while tools run

ASSUME ToolLinesAssumption == DOMAIN ToolLines \subseteq DOMAIN ToolOptions
ASSUME ByHandAssumption == ByHand \subseteq Files
\* A dumper is not told to read from another address than its default.
ASSUME DumpersAssumption ==
    \A tool \in {"pkt2dumppq", "pkt2dumpfcm"} \cap DOMAIN ToolLines : \A line \in ToolLines[tool] :
        IsList(line) /\ \A i \in 1..Len(line) : line[i].opt # "-i"

VARIABLES
    up,   \* the children that have bound what they want to bind, as <<kind, i>>
    hand  \* the tools that run, as [tool, config]

busVars == <<vars, up, hand>>

Children == UNION {{<<k, i>> : i \in {j \in 1..Len(started[k]) : started[k][j].accepted}} : k \in Kinds}

ChildSockets(p) == Sockets(p[1], started[p[1]][p[2]].config)

Binds(S) == {s.url : s \in {t \in S : t.binds}}

Taken ==
    UNION {Binds(ChildSockets(p)) : p \in up}
    \cup UNION {Binds(ToolSockets(r.tool, r.config)) : r \in hand}

BusInit == Init /\ up = {} /\ hand = {}

\* What pkt2 does; a reload stops the children.
Loader ==
    \/ /\ \E file \in Files : Load(file) /\ (hand # {} => loads < MaxOutlive)
       /\ UNCHANGED <<up, hand>>
    \/ (init \/ Start) /\ UNCHANGED <<up, hand>>
    \/ Reload /\ up' = {} /\ UNCHANGED hand

\* nn_bind() in run() of a child.
Opens(p) ==
    /\ p \in Children \ up
    /\ Binds(ChildSockets(p)) # {}
    /\ Binds(ChildSockets(p)) \cap Taken = {}
    /\ up' = up \cup {p}
    /\ UNCHANGED <<vars, hand>>

\* A child is gone, and what it had bound is free.
Dies(p) ==
    /\ up' = up \ {p}
    /\ UNCHANGED <<vars, hand>>

RunTool(tool, line) ==
    /\ pc = "watch" /\ loaded \in ByHand
    /\ Cardinality(hand) < MaxTools
    /\ Accepts(ToolOptions[tool], line)
    /\ LET config == Config(ToolOptions[tool], line) IN
       /\ Binds(ToolSockets(tool, config)) \cap Taken = {}
       /\ hand' = hand \cup {[tool |-> tool, config |-> config]}
    /\ UNCHANGED <<vars, up>>

ToolEnds(r) ==
    /\ hand' = hand \ {r}
    /\ UNCHANGED <<vars, up>>

BusNext ==
    \/ Loader
    \/ \E p \in Children : Opens(p)
    \/ \E p \in up : Dies(p)
    \/ \E tool \in DOMAIN ToolLines : \E line \in ToolLines[tool] : RunTool(tool, line)
    \/ \E r \in hand : ToolEnds(r)

BusSpec == BusInit /\ [][BusNext]_busVars

-----------------------------------------------------------------------------

\* A socket that connects is linked to one that has bound the address if both
\* are of the same protocol.
LinkedTo(S, T) ==
    \A s \in {t \in S : ~t.binds} : \E b \in T : b.binds /\ b.url = s.url /\ b.protocol = s.protocol

Pipeline == {p \in Children : p[1] \in (Receivers \cup Handlers) \ {"write_lmdb"}}
Dumpers == {r \in hand : r.tool \in {"pkt2dumppq", "pkt2dumpfcm"}}

(***************************************************************************)
(* Whenever pkt2receiver is up, every receiver of packets and every handler       *)
(* that runs is linked to it, and so is every dumper, whatever was loaded        *)
(* before and although each program has defaults of its own.  handlerlmdb is     *)
(* not: its socket is one for subscriptions.  (README.md 891-935)               *)
(***************************************************************************)
PipelineLinked ==
    \A q \in up : q[1] = "packet2message" =>
        /\ \A p \in Pipeline : LinkedTo(ChildSockets(p), ChildSockets(q))
        /\ \A r \in Dumpers : LinkedTo(ToolSockets(r.tool, r.config), ChildSockets(q))

-----------------------------------------------------------------------------
(* What makes every bus that is bound one that the pipeline can use.            *)

\* Only while pkt2 watches are there programs that run.
OnlyWatched == pc # "watch" => started = NothingOf

\* What is bound is bound by programs that run with the command lines there are.
UpAreChildren == up \subseteq Children

DumpersAsBuilt == \A r \in Dumpers : r.config.packet_url = DumpBus

BusIInv == IInv /\ OnlyWatched /\ UpAreChildren /\ DumpersAsBuilt
=============================================================================
