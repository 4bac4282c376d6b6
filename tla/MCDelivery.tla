------------------------------- MODULE MCDelivery -------------------------------
EXTENDS Delivery

M(i, c, f, d, z) == [id |-> i, class |-> c, fields |-> f, imei |-> d, size |-> z]

MCMessages == {M(1, "good", 2, "d1", 9), M(2, "other", 1, NoImei, 9), M(3, "noise", 1, "d2", 3),
               M(4, "good", 3, "d2", 9), M(5, "good", 1, NoImei, 6), M(6, "noise", 1, NoImei, 3)}

One(i) == CHOOSE m \in MCMessages : m.id = i
Ids(is) == [i \in 1..Len(is) |-> One(is[i])]

MCInboxes ==
    [s \in {"pqwriter", "fcm-writer", "sheets", "pqdumper", "fcmdumper", "message2gateway-stream",
            "message2gateway-socket", "pkt2gateway", "repeator", "tcpemitter", "messageemitter", "pkt2js"} |->
        CASE s \in {"pqdumper", "fcmdumper"} -> Ids(<<1, 2, 3, 4, 5>>)
          [] s = "message2gateway-stream" -> Ids(<<1, 2, 4, 6>>)
          [] s = "pkt2gateway" -> Ids(<<1>>)
          [] s = "sheets" -> <<>>
          [] OTHER -> Ids(<<1, 2, 3, 4, 5>>)]

\* A device with two owners and one with one; user 1 has one token.
MCOwners == [d \in {"d1", "d2", NoImei} |->
    IF d = "d1" THEN <<"t1", "t2">> ELSE IF d = "d2" THEN <<"t2">> ELSE <<>>]
MCRoot == <<"t3">>

MCOuts == <<"a", "b">>

\* One writer of each kind, with rows that it appends and rows that it leaves out.
MCWriters == 1..3
MCProgram == <<"handler", "pkt2sheet", "js2sheet">>
R(i, c) == [id |-> i, class |-> c]
MCRows == <<
    <<R(1, "good"), R(2, "other")>>,
    <<R(3, "size"), R(4, "good")>>,
    <<R(5, "noise"), R(6, "good")>> >>

MCColumns == 0..1500

MCByteTexts == UNION {[1..n -> {0, 1, 127, 130, 255}] : n \in 0..4}

MCCharacters == {Comma, Quote, "x"}
CSVTexts == UNION {[1..n -> MCCharacters] : n \in 0..2}
MCCSVFields == UNION {[1..n -> CSVTexts] : n \in 1..3}

\* Scalars, arrays of up to two elements and objects of up to one, to a depth of three.
Event(is) == <<[is |-> is, text |-> IF is = "null" THEN <<>> ELSE <<"x">>]>>
Scalars == {Event("null"), Event("value")}
Nested(T) ==
    T \cup {Event("start") \o a \o b \o Event("end") : a, b \in T \cup {<<>>}}
      \cup {Event("start") \o Event("key") \o a \o Event("end") : a \in T}
MCJsonTexts == Nested(Nested(Scalars))
=============================================================================
