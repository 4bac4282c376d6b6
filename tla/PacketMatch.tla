------------------------------ MODULE PacketMatch ------------------------------
(***************************************************************************)
(* How a packet finds its message (pkt2packetvariable.cpp,                    *)
(* pkt2optionscache.cpp).  The cache is built from the declarations; a packet  *)
(* is composed from a declaration (getEmptyPacket(), values), or comes from    *)
(* elsewhere; find1() looks for the first message, in the order of the names,  *)
(* whose size and tags the packet has.  A search that fails inserts a default  *)
(* entry under the empty name into the very map that is searched.             *)
(***************************************************************************)
EXTENDS PacketFields

CONSTANTS
    Messages,  \* the declarations in the order of their names
    Values,    \* what is written into fields without a tag
    Noise      \* packets that come from elsewhere

N == Len(Messages)

\* zone: the field of the packet that holds the embedded message, 0 if there is
\* none of that name; of: the declaration of the embedded message.
Embedded == [zone : Nat, of : 1..N]

ASSUME MessagesAssumption ==
    /\ Messages \in Seq([fields : Seq(Field), embedded : SUBSET Embedded])
    /\ \A m \in 1..N : \A e \in Messages[m].embedded : e.zone <= Len(Messages[m].fields)
ASSUME ValuesAssumption == Values \subseteq Word
ASSUME NoiseAssumption == Noise \subseteq Seq(Byte)

VARIABLES
    pc,
    cache,        \* keys of pkt2packet_variable: positions in Messages, 0 for ""
    packet_size,  \* Pkt2PacketVariable::packet_size, 0 for the default entry
    m,            \* the message being loaded
    i,            \* index of the field in a loop over fields
    composed,     \* the message that the packet was composed for, or 0
    data,         \* the packet
    it,           \* iterator of find1()
    found,        \* *found
    result        \* the entry that find1() returned

vars == <<pc, cache, packet_size, m, i, composed, data, it, found, result>>

Fields(k) == IF k = 0 THEN <<>> ELSE Messages[k].fields
EmbeddedIn(k) == IF k = 0 THEN {} ELSE Messages[k].embedded

Init ==
    /\ pc = "load"
    /\ cache = {}
    /\ packet_size = [k \in 0..N |-> 0]
    /\ m = 1 /\ i = 1
    /\ composed = 0
    /\ data = <<>>
    /\ it = 0 /\ found = FALSE /\ result = 0

-----------------------------------------------------------------------------
(* Pkt2OptionsCache::addDeclarations()                                       *)

\* One round of the loop of getPacketSize().
getPacketSize ==
    /\ pc = "load" /\ m <= N /\ i <= Len(Fields(m))
    /\ packet_size' = [packet_size EXCEPT ![m] = IF End(Fields(m)[i]) > @ THEN End(Fields(m)[i]) ELSE @]
    /\ i' = i + 1
    /\ UNCHANGED <<pc, cache, m, composed, data, it, found, result>>

AddDeclaration ==
    /\ pc = "load" /\ m <= N /\ i > Len(Fields(m))
    /\ cache' = cache \cup {m}
    /\ m' = m + 1 /\ i' = 1
    /\ UNCHANGED <<pc, packet_size, composed, data, it, found, result>>

Loaded ==
    /\ pc = "load" /\ m > N
    /\ pc' = "idle"
    /\ UNCHANGED <<cache, packet_size, m, i, composed, data, it, found, result>>

-----------------------------------------------------------------------------
(* Pkt2PacketVariable::getEmptyPacket(), and the values of a packet.          *)

Compose(k) ==
    /\ pc = "idle"
    /\ composed' = k
    /\ data' = [j \in 1..packet_size[k] |-> 0]
    /\ i' = 1
    /\ pc' = "tags"
    /\ UNCHANGED <<cache, packet_size, m, it, found, result>>

\* One round of the loop of setTags().
SetTag ==
    /\ pc = "tags" /\ i <= Len(Fields(composed))
    /\ LET f == Fields(composed)[i] IN
          data' = IF HasTag(f) THEN setFieldUInt(data, f, Constant(f)) ELSE data
    /\ i' = i + 1
    /\ UNCHANGED <<pc, cache, packet_size, m, composed, it, found, result>>

TagsSet ==
    /\ pc = "tags" /\ i > Len(Fields(composed))
    /\ i' = 1
    /\ pc' = "values"
    /\ UNCHANGED <<cache, packet_size, m, composed, data, it, found, result>>

\* A value is put into a field that is no tag.
SetValue ==
    /\ pc = "values" /\ i <= Len(Fields(composed))
    /\ LET f == Fields(composed)[i] IN
          IF HasTag(f) THEN UNCHANGED data
                       ELSE \E v \in Values : data' = setFieldUInt(data, f, v)
    /\ i' = i + 1
    /\ UNCHANGED <<pc, cache, packet_size, m, composed, it, found, result>>

\* The packet is sent, and find1() is called at the other end.
Send ==
    /\ pc = "values" /\ i > Len(Fields(composed))
    /\ it' = 0 /\ found' = FALSE
    /\ pc' = "search"
    /\ UNCHANGED <<cache, packet_size, m, i, composed, data, result>>

Arrive(p) ==
    /\ pc = "idle"
    /\ composed' = 0
    /\ data' = p
    /\ it' = 0 /\ found' = FALSE
    /\ pc' = "search"
    /\ UNCHANGED <<cache, packet_size, m, i, result>>

-----------------------------------------------------------------------------
(* Pkt2OptionsCache::find1()                                                 *)

\* Wrong on purpose: an empty packet is not refused.
TagsHold_Empty(k, p) ==
    /\ Len(p) = packet_size[k]
    /\ \A j \in 1..Len(Fields(k)) :
          HasTag(Fields(k)[j]) => extractFieldUInt(p, Fields(k)[j]) = Constant(Fields(k)[j])

\* Pkt2PacketVariable::validTags()
TagsHold(k, p) ==
    /\ Len(p) # 0 /\ Len(p) = packet_size[k]
    /\ \A j \in 1..Len(Fields(k)) :
          HasTag(Fields(k)[j]) => extractFieldUInt(p, Fields(k)[j]) = Constant(Fields(k)[j])

\* packet.substr(offset, size)
Zone(p, f) == SubSeq(p, f.offset + 1, IF End(f) < Len(p) THEN End(f) ELSE Len(p))

\* Pkt2OptionsCache::validTags().  It calls itself for the embedded messages with
\* the name of the field, which no message bears: what is embedded in them is
\* not looked at.
validTags(k, p) ==
    /\ TagsHold(k, p)
    /\ \A e \in EmbeddedIn(k) :
          e.zone # 0 /\ e.of \in cache => TagsHold(e.of, Zone(p, Fields(k)[e.zone]))

\* One round of the loop over the map.
NextEntry ==
    /\ pc = "search" /\ it <= N
    /\ IF it \in cache /\ validTags(it, data)
       THEN found' = TRUE /\ result' = it /\ pc' = "found" /\ UNCHANGED it
       ELSE it' = it + 1 /\ UNCHANGED <<pc, found, result>>
    /\ UNCHANGED <<cache, packet_size, m, i, composed, data>>

\* The end of the map: pkt2packet_variable[""] is returned, and inserted if need be.
NotFound ==
    /\ pc = "search" /\ it > N
    /\ cache' = cache \cup {0}
    /\ result' = 0
    /\ pc' = "found"
    /\ UNCHANGED <<packet_size, m, i, composed, data, it, found>>

\* The caller has used the answer.
Done ==
    /\ pc = "found"
    /\ pc' = "idle"
    /\ UNCHANGED <<cache, packet_size, m, i, composed, data, it, found, result>>

-----------------------------------------------------------------------------

Next ==
    \/ getPacketSize \/ AddDeclaration \/ Loaded
    \/ \E k \in 1..N : Compose(k)
    \/ SetTag \/ TagsSet \/ SetValue \/ Send
    \/ \E p \in Noise : Arrive(p)
    \/ NextEntry \/ NotFound \/ Done

Spec == Init /\ [][Next]_vars

-----------------------------------------------------------------------------

TypeOK ==
    /\ pc \in {"load", "idle", "tags", "values", "search", "found"}
    /\ cache \subseteq 0..N
    /\ packet_size \in [0..N -> Nat]
    /\ m \in 1..(N + 1) /\ i \in Nat \ {0}
    /\ composed \in 0..N
    /\ data \in Seq(Byte)
    /\ it \in 0..(N + 1)
    /\ found \in BOOLEAN
    /\ result \in 0..N

(***************************************************************************)
(* What find1() returns depends on the packet alone and not on the searches   *)
(* before it, although those may have changed the map: it finds the first     *)
(* declared message that fits, and finds one if there is one.                 *)
(* (pkt2optionscache.cpp 103-128)                                            *)
(***************************************************************************)
FirstThatFits ==
    pc = "found" =>
        /\ found <=> \E k \in 1..N : validTags(k, data)
        /\ found => /\ result \in 1..N
                    /\ validTags(result, data)
                    /\ \A k \in 1..N : validTags(k, data) => result <= k

\* A declaration whose tags fit their fields, whose tagged fields no other
\* overlaps, with at least one byte, and without embedded messages.
Consistent(k) ==
    LET F == Fields(k) IN
        /\ \E j \in 1..Len(F) : End(F[j]) > 0
        /\ \A j \in 1..Len(F) : HasTag(F[j]) => FitsIn(Constant(F[j]), F[j])
        /\ \A j, l \in 1..Len(F) : j # l /\ HasTag(F[j]) => Apart(F[j], F[l])
        /\ EmbeddedIn(k) = {}

(***************************************************************************)
(* A packet composed from a consistent declaration is recognised, whatever    *)
(* the order of its bytes, also where the tag is the constant zero, whatever  *)
(* values it bears and whatever searches went before: as that message, or as  *)
(* one that comes earlier in the order of names and has its tags too.         *)
(***************************************************************************)
ComposedIsFound ==
    pc = "found" /\ composed # 0 /\ Consistent(composed) => found /\ result <= composed
=============================================================================
