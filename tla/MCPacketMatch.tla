---------------------------- MODULE MCPacketMatch ----------------------------
(***************************************************************************)
(* Instances of PacketMatch and Values for TLC: bytes of one bit, integers of   *)
(* four bytes and of two.  Among the messages are ones that differ only in the   *)
(* order of bytes, one whose tag is the constant zero, a field longer than an    *)
(* integer, fields that overlap, an embedded message, one embedded in that, and  *)
(* a message that declares no packet.                                        *)
(*                                                                         *)
(* Their variables have every type, indexes with and without a gap, in embedded  *)
(* messages too, repeated fields, formats, empty aliases, and an identifier that *)
(* is also the position of a value.                                          *)
(***************************************************************************)
EXTENDS Values

F(offset, size, swap, tag) == [offset |-> offset, size |-> size, swap |-> swap, tag |-> tag]
One == <<1, 0, 0, 0>>
Two == <<0, 1, 0, 0>>

MCMessages == <<
    [fields |-> <<F(0, 3, FALSE, Zero)>>, embedded |-> {[zone |-> 1, of |-> 2]}],
    [fields |-> <<F(1, 2, TRUE, One), F(0, 1, FALSE, Zero)>>, embedded |-> {}],
    [fields |-> <<F(0, 1, FALSE, AllOnes), F(1, 2, FALSE, One)>>, embedded |-> {}],
    [fields |-> <<F(0, 3, FALSE, Zero), F(3, 1, FALSE, One)>>, embedded |-> {[zone |-> 1, of |-> 1], [zone |-> 0, of |-> 3]}],
    [fields |-> <<F(0, 5, FALSE, Two), F(5, 1, TRUE, Zero)>>, embedded |-> {}],
    [fields |-> <<F(0, 2, FALSE, One), F(1, 2, FALSE, Zero)>>, embedded |-> {}],
    [fields |-> <<>>, embedded |-> {}] >>

X(type, get, index) ==
    [type |-> type, repeated |-> FALSE, of |-> 0, get |-> get, index |-> index, format |-> FALSE, hidden |-> FALSE]
Sub(of, zone) == [X("message", <<zone>>, 0) EXCEPT !.of = of]
Hidden(x) == [x EXCEPT !.hidden = TRUE]
Many(x) == [x EXCEPT !.repeated = TRUE]

MCVariables == <<
    <<X("int64", <<1>>, 0), Sub(2, 1), X("uint32", <<2, 2>>, 0)>>,
    <<X("uint32", <<1>>, 1), X("string", <<2>>, 2), Hidden(X("bool", <<1>>, 0)), X("int32", <<1>>, 0)>>,
    <<X("bytes", <<1>>, 2), X("double", <<2>>, 0), X("uint64", <<2>>, 1), X("enum", <<2>>, 0)>>,
    <<Sub(1, 1), Sub(3, 9), X("float", <<2>>, 0), Many(X("uint32", <<1>>, 0))>>,
    <<X("enum", <<1>>, 1), X("bool", <<2>>, 2), [X("uint32", <<2>>, 0) EXCEPT !.format = TRUE], Many(X("enum", <<1>>, 0))>>,
    <<X("uint32", <<1>>, 2), X("string", <<2>>, 0), Many(Sub(7, 9)), Hidden(X("int64", <<2>>, 0))>>,
    <<X("string", <<1>>, 0), X("bool", <<1>>, 0)>> >>

MCInputs == <<
    <<"message">>, <<"int", "uint">>, <<"string", "uint">>, <<"message", "double">>,
    <<"uint", "none">>, <<"int", "bytes">>, <<>> >>

\* 3 is the largest float of two bytes; 2 stands for a small one.
MCExponents == {2, 3, 15}

MCIds == <<51, 52, 53, 54, 55, 56, 1>>

\* Messages of the second and third type with all their keys, and of the others with
\* repeated fields, one of a type that is not declared, and one that has no end.
Second(a, t) == [of |-> 2, leaves |-> <<Leaf(2, 1, Number(a)), Leaf(2, 2, t),
                                        Leaf(2, 3, Number(1)), Leaf(2, 4, Number(3))>>]
Third(t, b) == [of |-> 3, leaves |-> <<Leaf(3, 1, t), Leaf(3, 2, Number(2)),
                                       Leaf(3, 3, Number(b)), Leaf(3, 4, Number(1))>>]
Texts_ == {Empty, Number(0), Number(1), Number(2), Word_(0)}

MCOthers ==
    {Second(a, t) : a \in 0..3, t \in Texts_}
    \cup {Third(t, b) : t \in Texts_, b \in {0, 1, 15}}
    \cup {[of |-> 4, leaves |-> getMessage(4) \o <<Leaf(4, 4, Number(1)), Leaf(4, 4, Number(2))>>],
          [of |-> 5, leaves |-> getMessage(5)],
          [of |-> 5, leaves |-> Append(getMessage(5), Leaf(5, 4, Number(1)))],
          [of |-> 6, leaves |-> SubSeq(getMessage(6), 1, 2) \o getMessage(7) \o getMessage(7)
                                \o <<Leaf(6, 4, Number(15))>>],
          [of |-> 0, leaves |-> <<>>]}

MCNoise == UNION {[1..n -> Byte] : n \in 0..4}
MCValues == [1..4 -> Byte]
MCHidden == {7}
MCProperties == <<1>>
=============================================================================
