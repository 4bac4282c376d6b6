------------------------------- MODULE Huffman -------------------------------
(***************************************************************************)
(* The compression of packets (huff/): the tree of codes, built from a file  *)
(* of frequencies or from a table of codes, the encoder, which is what a      *)
(* station runs, and the decoder of tcpreceiver.                             *)
(*                                                                          *)
(* A tree is represented by its codes: the path from the root to the leaf of  *)
(* each symbol.  Symbols are bytes.  Mode 2, a decoder with a table of its     *)
(* own, is not modelled.                                                     *)
(***************************************************************************)
EXTENDS Integers, Sequences, FiniteSets, SequencesExt

CONSTANTS
    Bits,       \* bits of a byte: 8
    PointerSize \* sizeof(value) in findShortestHuffCodeNSize(), a pointer: 8

ASSUME BitsAssumption == Bits \in Nat \ {0, 1} /\ PointerSize \in Nat

Byte == 0..(2^Bits - 1)

\* A code is a sequence of bits.  The absent EOF code, and the pointer to one that
\* nothing has set.
NoCode == <<-1>>
Wild == <<-2>>

-----------------------------------------------------------------------------
(* Streams of bits, the lowest bit of a byte first (bitstream.cpp).           *)

Bit(b, k) == (b \div 2^(k - 1)) % 2
ToBits(b) == [k \in 1..Bits |-> Bit(b, k)]
At(bits, k) == IF k <= Len(bits) THEN bits[k] ELSE 0
ByteAt(bits, first) == CHOOSE b \in Byte : \A k \in 1..Bits : Bit(b, k) = At(bits, first + k - 1)

\* obitstream: the last byte is filled up with zeros.
Packed(bits) ==
    [j \in 1..((Len(bits) + Bits - 1) \div Bits) |-> ByteAt(bits, (j - 1) * Bits + 1)]

Unpacked(bytes) == FlattenSeq([j \in 1..Len(bytes) |-> ToBits(bytes[j])])

\* ibitstream: eof() is noticed only by the read after the one that failed, and
\* the failed read leaves the byte it has: the last byte is read twice.  junk is
\* what the byte holds before the first read.  read_buffer() ends without return:
\* goes is what its caller takes for the result.
Stream(bytes, junk, goes) ==
    IF goes THEN Unpacked(bytes \o <<IF bytes = <<>> THEN junk ELSE bytes[Len(bytes)]>>)
    ELSE <<>>

\* Integers of variable length: all but the last byte have the highest bit set.
More == 2^(Bits - 1)

write_varint[n \in Nat] == IF n < More THEN <<n>> ELSE <<More + (n % More)>> \o write_varint[n \div More]

varint[bytes \in Seq(Byte)] == IF bytes = <<>> THEN 0 ELSE (bytes[1] % More) + More * varint[Tail(bytes)]

\* The length of the integer and its value; nothing if it is too long.
get_varint(bytes) ==
    LET ends == {j \in 1..Len(bytes) : j < 8 /\ bytes[j] < More}
        n == CHOOSE j \in ends : \A k \in ends : j <= k
    IN IF ends = {} THEN [len |-> 0, value |-> 0]
       ELSE [len |-> n, value |-> varint[SubSeq(bytes, 1, n)]]

-----------------------------------------------------------------------------
(* Trees.                                                                   *)

LeafNode(f, c) == [f |-> f, code |-> [s \in {c} |-> <<>>]]

InternalNode(left, right) ==
    [f |-> left.f + right.f,
     code |-> [s \in DOMAIN left.code \cup DOMAIN right.code |->
                  IF s \in DOMAIN left.code THEN <<0>> \o left.code[s] ELSE <<1>> \o right.code[s]]]

\* What such a tree is told by: a leaf per symbol, none of them on the way to another.
IsPrefixCode(code) ==
    /\ \A s \in DOMAIN code : s \in Byte /\ code[s] \in Seq({0, 1})
    /\ \A s, t \in DOMAIN code : s # t => ~IsPrefix(code[s], code[t])

\* What the priority queue may have on top: it orders by frequency only.
Tops(trees) == {t \in trees : \A u \in trees : t.f <= u.f}

\* The two topmost trees are joined; the first is the left one, or the right one.
Joins(trees, firstIsLeft) ==
    {(trees \ {p[1], p[2]}) \cup {IF firstIsLeft THEN InternalNode(p[1], p[2]) ELSE InternalNode(p[2], p[1])} :
        p \in {q \in trees \X trees : q[1] \in Tops(trees) /\ q[2] \in Tops(trees \ {q[1]})}}

\* The trees that joining until one is left may give.
Joined(trees, firstIsLeft) ==
    LET after[n \in 0..Cardinality(trees)] ==
            IF n = 0 THEN {trees} ELSE UNION {Joins(forest, firstIsLeft) : forest \in after[n - 1]}
    IN IF trees = {} THEN {} ELSE UNION after[Cardinality(trees) - 1]

\* Wrong on purpose: the symbol is taken for its frequency.
buildTree_Stack(frequencies) ==
    LET used == {s \in DOMAIN frequencies : frequencies[s] # 0}
    IN Joined({LeafNode(s, s) : s \in used}, TRUE)

\* The empty set is NULL.
buildTree(frequencies) ==
    LET used == {s \in DOMAIN frequencies : frequencies[s] # 0}
    IN Joined({LeafNode(frequencies[s], s) : s \in used}, TRUE)

\* The codes themselves are not looked at: only which symbols have one.
buildTreeFromCodes(codes) ==
    LET Rank(s) == Cardinality({t \in DOMAIN codes : t < s})
    IN Joined({LeafNode(Cardinality(DOMAIN codes) + 1 - Rank(s), s) : s \in DOMAIN codes}, FALSE)

\* A file is read up to the first line whose symbol is none; of several lines for
\* a symbol the last counts.  A line is a pair.
Lines(file) ==
    LET bad == {j \in 1..Len(file) : file[j][1] \notin Byte}
    IN IF bad = {} THEN file ELSE SubSeq(file, 1, (CHOOSE j \in bad : \A k \in bad : j <= k) - 1)
LastLine(lines, s) == CHOOSE j \in 1..Len(lines) : lines[j][1] = s /\ \A k \in (j + 1)..Len(lines) : lines[k][1] # s
Column(lines) == {lines[j][1] : j \in 1..Len(lines)}

loadFrequencies(file) ==
    [s \in Byte |-> IF s \in Column(Lines(file)) THEN Lines(file)[LastLine(Lines(file), s)][2] ELSE 0]

loadCodeMap(file) == [s \in Column(Lines(file)) |-> Lines(file)[LastLine(Lines(file), s)][2]]

\* find_code(): bits after the leaf do not matter.
find_code(tree, code) == {s \in DOMAIN tree.code : IsPrefix(tree.code[s], code)}

-----------------------------------------------------------------------------
(* Compression.  esc is the only escape code, of Bits bits, and may be empty.   *)

\* bitsRequired()
Log2(v) == CHOOSE k \in 0..(Bits - 1) : 2^k <= v /\ v < 2^(k + 1)
bitsRequired(v) == IF v = 0 THEN 0 ELSE Log2(v)

Encodable(codes, v) == v \in DOMAIN codes \/ Bits - bitsRequired(v) < PointerSize

\* bitsRequired() shifts the byte it is given to zero, and zero is then written.
CodeOf(codes, esc, v) ==
    CASE v \notin DOMAIN codes -> esc \o ToBits(0)
      [] v \in DOMAIN codes /\ codes[v] = esc -> esc \o ToBits(v)
      [] OTHER -> codes[v]

compress_buffer(codes, esc, eof, data) ==
    FlattenSeq([j \in 1..Len(data) |-> CodeOf(codes, esc, data[j])])
    \o (IF eof = NoCode THEN <<>> ELSE eof)

\* Without EOF code the length goes first.
compress(codes, esc, eof, offset, data) ==
    (IF eof = NoCode THEN write_varint[Len(data)] ELSE <<>>)
    \o SubSeq(data, 1, offset)
    \o Packed(compress_buffer(codes, esc, eof, SubSeq(data, offset + 1, Len(data))))

\* The offset is left out twice: here and in compress().
encode_buffer2buffer(codes, esc, eof, offset, data) ==
    SubSeq(data, 1, offset) \o compress(codes, esc, eof, offset, SubSeq(data, offset + 1, Len(data)))

-----------------------------------------------------------------------------
(* Decompression.                                                           *)

\* Wrong on purpose: the walk goes on with the bit that was read last.
Root_Kept(bit) == <<bit>>
Root(bit) == <<>>

\* The leaves that set_code_flag() marks: as escape, as end.
Escapes(d) == IF d.esc = <<>> THEN {} ELSE find_code(d.tree, d.esc)
Ends(d) == IF d.eof = NoCode THEN {} ELSE find_code(d.tree, d.eof)

\* One turn of the loop of decompress_stream(), at bit w.k and node w.n.  It leaves only at
\* a leaf: once the bits are used up it turns for ever.  With an EOF code the size is not
\* looked at.
DecodeBit(d, size, stream, w) ==
    LET code == d.tree.code
        m == IF \E s \in DOMAIN code : code[s] = w.n THEN w.n ELSE Append(w.n, stream[w.k])
        leaf == {s \in DOMAIN code : code[s] = m}
        full == d.eof = NoCode /\ w.r + 1 >= size
        Go(j, b) == [w EXCEPT !.k = j, !.n = Root(stream[w.k]), !.r = @ + 1, !.out = Append(@, b)]
    IN IF w.how = "returns" \/ w.k > Len(stream) THEN w
       ELSE CASE leaf = {} -> [w EXCEPT !.k = @ + 1, !.n = m]
              [] leaf # {} /\ (full \/ leaf \subseteq Ends(d)) -> [w EXCEPT !.how = "returns", !.r = @ + 1]
              [] leaf # {} /\ ~full /\ ~(leaf \subseteq Ends(d)) /\ leaf \subseteq Escapes(d) ->
                    Go(w.k + 1 + Bits, ByteAt(stream, w.k + 1))
              [] OTHER -> Go(w.k + 1, CHOOSE s \in leaf : TRUE)

\* Every turn takes a bit of the stream.
DecodeLoop(d, size, stream) ==
    LET walk[j \in 0..Len(stream)] ==
            IF j = 0 THEN [how |-> "hangs", k |-> 1, n |-> <<>>, r |-> 0, out |-> <<>>]
            ELSE DecodeBit(d, size, stream, walk[j - 1])
    IN walk[Len(stream)]

decompress_stream(d, bytes, size) == DecodeLoop(d, size, Stream(bytes, d.junk, d.goes))

\* A negative size is a huge one, for which std::string throws; a wild pointer is
\* taken to end the program as well.
decompress(d, buffer, size) ==
    LET sized == d.force = 0 /\ d.eof = NoCode
        head == IF sized THEN get_varint(buffer) ELSE [len |-> 0, value |-> d.force]
        start == head.len + d.offset
        done == decompress_stream(d, SubSeq(buffer, start + 1, size), head.value)
    IN IF size < start \/ d.eof = Wild THEN [how |-> "aborts", sz |-> 0, out |-> <<>>]
       ELSE [how |-> done.how, sz |-> d.offset + done.r,
             out |-> SubSeq(buffer, head.len + 1, start) \o done.out]

\* Wrong on purpose: the bytes before the offset are counted once more.
Written_Shifted(buffer, offset, out, sz) ==
    [j \in 1..Len(buffer) |->
        IF j \in (2 * offset + 2)..(2 * offset + 1 + sz) THEN At(out, j - 2 * offset - 1) ELSE buffer[j]]

\* memmove() of sz bytes of the text, and the zero that ends it.
Written(buffer, offset, out, sz) ==
    [j \in 1..Len(buffer) |->
        IF j \in (offset + 1)..(offset + sz) THEN At(out, j - offset) ELSE buffer[j]]

\* The packet in the buffer is decompressed in place.  size -1 is a failed read().
decode_buffer2buffer(d, buffer, size) ==
    IF d.mode = 0 THEN [how |-> "returns", length |-> size, buffer |-> buffer]
    ELSE
    LET tail == SubSeq(buffer, d.offset + 1, Len(buffer))
        done == decompress(d, tail, size - d.offset)
        sz == IF done.sz > Len(buffer) THEN Len(buffer) ELSE done.sz
    IN CASE done.how # "returns" -> [how |-> done.how, length |-> 0, buffer |-> buffer]
         [] done.how = "returns" /\ d.offset + sz \in d.valid_sizes ->
                [how |-> "returns", length |-> size, buffer |-> buffer]
         [] OTHER -> [how |-> "returns", length |-> d.offset + sz,
                      buffer |-> Written(buffer, d.offset, done.out, sz)]

-----------------------------------------------------------------------------
(* Reference.                                                               *)

Cost(code, frequencies) ==
    SumFunction([s \in DOMAIN code |-> Len(code[s]) * frequencies[s]])

\* The lengths that some prefix code of n symbols has: the sum of 2^-l is one.
FullLengths(symbols) ==
    LET n == Cardinality(symbols)
    IN {l \in [symbols -> 1..(n - 1)] :
           SumFunction([s \in symbols |-> 2^(n - l[s])]) = 2^n}

\* Whatever ties the priority queue breaks, the tree is a prefix code of exactly the
\* symbols that occur, and no prefix code makes the sample shorter.
IsShortestCode(frequencies, tree) ==
    LET code == tree.code
        used == {s \in DOMAIN frequencies : frequencies[s] # 0}
    IN /\ DOMAIN code = used
       /\ \A s, t \in used : s # t => ~IsPrefix(code[s], code[t])
       /\ Cardinality(used) > 1 => \A l \in FullLengths(used) :
              Cost(code, frequencies) <= SumFunction([s \in used |-> l[s] * frequencies[s]])
=============================================================================
