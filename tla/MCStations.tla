------------------------------ MODULE MCStations ------------------------------
(***************************************************************************)
(* Small instances of the station receivers: bytes of two bits, packets of up  *)
(* to three bytes.                                                           *)
(***************************************************************************)
EXTENDS Stations

\* Files of frequencies and of codes, as lines.  The symbol 9 ends the first one.
Sample == << <<0, 1>>, <<1, 2>>, <<2, 1>>, <<0, 3>>, <<9, 1>>, <<3, 1>> >>
Full == << <<0, 4>>, <<1, 2>>, <<2, 1>>, <<3, 1>> >>
Codes == { << <<0, <<1, 1>> >>, <<1, <<1, 0>> >>, <<2, <<0>> >> >>,
           << <<0, <<0>> >>, <<1, <<1, 1>> >>, <<2, <<1, 0>> >> >> }

Plainly == [config |-> "plain", mode |-> 0, tree |-> LeafNode(1, 0), codes |-> <<>>, esc |-> <<>>, eof |-> NoCode, force |-> 0,
            offset |-> 0, junk |-> 0, goes |-> TRUE, valid_sizes |-> {}]

\* With an EOF code, that of symbol 2.
Ended(f) ==
    {[Plainly EXCEPT !.config = "ended", !.mode = 1, !.tree = t, !.codes = t.code, !.eof = t.code[2]] :
        t \in buildTree(loadFrequencies(f))}

\* A file of codes is given instead.
Mapped ==
    UNION {{[Plainly EXCEPT !.config = "mapped", !.mode = 1, !.tree = t, !.codes = loadCodeMap(c), !.eof = loadCodeMap(c)[2]] :
                t \in buildTreeFromCodes(loadCodeMap(c))} : c \in Codes}

\* Unknown symbols are escaped by the code of symbol 3 of the full table.
Escaped == {[d EXCEPT !.config = "escaped", !.esc = d.tree.code[3]] : d \in Ended(Full)}

\* What the bit stream leaves unset.
Unset == {[d EXCEPT !.config = "unset", !.junk = j, !.goes = g] : d \in Ended(Sample), j \in {0, 3}, g \in BOOLEAN}

\* Without: what the constructor leaves unset may be anything.
Sized ==
    {[Plainly EXCEPT !.config = "sized", !.mode = 1, !.tree = t, !.codes = t.code, !.eof = e, !.force = z] :
        t \in buildTree(loadFrequencies(Sample)), e \in {NoCode, Wild}, z \in {0, 2}}

MCDecoders ==
    {Plainly} \cup Ended(Sample) \cup Mapped \cup Escaped \cup Unset \cup Sized
    \cup {[d EXCEPT !.config = "checked", !.valid_sizes = {2}] : d \in Ended(Sample)}
    \cup {[d EXCEPT !.config = "offset", !.offset = 1] : d \in Ended(Sample)}

MCPackets == {<<0>>, <<3>>, <<0, 1>>, <<3, 0>>, <<1, 0, 0>>}

MCFrequencies == [Byte -> 0..3] \ {[b \in Byte |-> 0]}

MCJobs ==
    [file_mode : {"bin", "int"}, print : BOOLEAN, stdin : BOOLEAN, packet_size : {0, 1, 2},
          file : {<<>>, <<1, 2, 3>>, <<1, 2, 3, 4, 5>>}]
    \cup [file_mode : {"hex"}, print : BOOLEAN, stdin : BOOLEAN, packet_size : {0, 2},
          file : {<< <<1, 2>>, <<3, 4, 5>> >>, << <<1>>, <<>>, <<2, 3>> >>}]
=============================================================================
