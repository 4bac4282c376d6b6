-------------------------------- MODULE Values --------------------------------
(***************************************************************************)
(* From a recognised packet to what a handler writes.  The fields of the      *)
(* packet become properties of a JavaScript object (javascript-context.cpp),   *)
(* the expressions of the declaration make a message of them                  *)
(* (packet2message.cpp, messagecomposer.cpp), which is sent over the bus       *)
(* (utilprotobuf.cpp).  A handler takes it apart again                         *)
(* (messagedecomposer.cpp) into named values, and writes these as SQL, JSON or *)
(* lines (messageformat.cpp, fieldnamevalueindexstrings.cpp) or under a key    *)
(* (getKey() of pkt2optionscache.cpp).                                       *)
(*                                                                         *)
(* A message is the sequence of the scalars in it, its leaves, in the order in *)
(* which all of this code visits them.                                       *)
(***************************************************************************)
EXTENDS PacketMatch, SequencesExt, FiniteSets

CONSTANTS
    Variables,     \* the fields of the messages, declared with (pkt2.variable)
    Inputs,        \* the types of the fields of the packets
    Exponents,     \* the doubles and floats that << prints with an exponent, or as inf or nan
    Ids,           \* Packet.id, or the hash of the name
    HiddenTables,  \* messages whose alias is the empty text
    Properties,    \* the properties of the command line, in the order of the map
    Others         \* what other programs put on the bus

Half == Width \div 2

\* How many values that many bytes have.
Span[n \in 0..Width] == IF n = 0 THEN 1 ELSE Base * Span[n - 1]

\* A text: a number, the empty one, "false", or any other, base64 encoded so many times.
Empty == [is |-> "empty", n |-> 0, b64 |-> 0]
Text == [is : {"number", "false", "word"}, n : Int, b64 : Nat] \cup {Empty}
Number(n) == [is |-> "number", n |-> n, b64 |-> 0]
Exponent(n) == [is |-> "exponent", n |-> n, b64 |-> 0]
False == [is |-> "false", n |-> -3, b64 |-> 0]
Word_(n) == [is |-> "word", n |-> n, b64 |-> 0]
Undefined == Word_(-1)
Formatted == Word_(-2)

b64_encode(t) == IF t.is = "empty" THEN t ELSE [t EXCEPT !.b64 = @ + 1]
\* Digits, points and minus signs; a number with an exponent is none.
isNumber(t) == t.is = "number" /\ t.b64 = 0

\* get: where the expression finds the value, from the root of the packet: embedded
\* messages and last a field.  For an embedded message: the field that holds it.
Numeric == {"double", "float", "int64", "uint64", "int32", "uint32", "bool", "enum"}
Variable ==
    [type : Numeric \cup {"string", "bytes", "message"}, repeated : BOOLEAN, of : 0..N,
     get : Seq(Nat \ {0}) \ {<<>>}, index : Nat, format : BOOLEAN, hidden : BOOLEAN]

V(k) == Variables[k]

\* Messages are not embedded in themselves: the code would compose one for ever.
ASSUME VariablesAssumption ==
    /\ Width % 4 = 0
    /\ Variables \in Seq(Seq(Variable)) /\ Len(Variables) = N
    /\ \E rank \in [1..N -> 1..N] : \A k \in 1..N : \A f \in 1..Len(V(k)) :
          V(k)[f].type = "message" => V(k)[f].of \in 1..N /\ rank[V(k)[f].of] < rank[k]
ASSUME InputsAssumption ==
    /\ Inputs \in Seq(Seq({"uint", "int", "double", "string", "bytes", "none", "message"})) /\ Len(Inputs) = N
    /\ \A k \in 1..N : Len(Inputs[k]) = Len(Messages[k].fields)
ASSUME IdsAssumption == Ids \in Seq(Nat) /\ Len(Ids) = N
ASSUME PropertiesAssumption == Properties \in Seq(Nat)

VARIABLES
    stage,
    message,       \* [of, leaves]
    frame,         \* the message on the bus
    values,        \* FieldNameValueIndexStrings::values
    index2values,  \* its first element is the identifier of the message
    mode,          \* the format that is written
    output         \* the statements or lines

valueVars == <<stage, message, frame, values, index2values, mode, output>>

NoMessage == [of |-> 0, leaves |-> <<>>]

ValuesInit ==
    /\ Init
    /\ stage = "none" /\ message = NoMessage
    /\ frame = [message_type |-> 0, message_size |-> 0, body |-> <<>>]
    /\ values = <<>> /\ index2values = <<>>
    /\ mode = "none" /\ output = <<>>

-----------------------------------------------------------------------------
(* javascript-context.cpp: the object "field"                                *)

ToNumber(w) ==
    LET upTo[j \in 0..Width] == IF j = 0 THEN 0 ELSE upTo[j - 1] + w[j] * Span[j - 1]
    IN  upTo[Width]

\* The conversion to int64_t keeps the sign where the size is that of an integer.
extractFieldInt(p, f) ==
    LET n == ToNumber(extractFieldUInt(p, f)) IN
        IF f.size \in {1, Width \div 4, Half, Width} /\ 2 * n >= Span[f.size] THEN n - Span[f.size] ELSE n

\* 0 unless the size is that of a float or a double.
extractFieldDouble(p, f) == IF f.size \in {Half, Width} THEN ToNumber(extractFieldUInt(p, f)) ELSE 0

\* duk_push_uint() takes half the bits.
pushField(p, f, type) ==
    CASE type = "uint"    -> Number(ToNumber(extractFieldUInt(p, f)) % Span[Half])
      [] type = "int"     -> Number(extractFieldInt(p, f) % Span[Half])
      [] type = "double"  -> Number(extractFieldDouble(p, f))
      [] type = "string"  -> LET s == Zone(p, f) IN
                             IF s = <<>> \/ Head(s) = 0 THEN Empty ELSE Word_(s[Len(s)])
      [] type = "bytes"   -> IF f.size = 0 THEN Empty ELSE Word_(ToNumber(extractFieldUInt(p, f)))
      [] type = "none"    -> False
      [] type = "message" -> Undefined

\* findFieldNumber(): the field that holds the embedded message, 0 if there is none.
findFieldNumber(k, v) == IF v.get[1] \in 1..Len(Fields(k)) THEN v.get[1] ELSE 0

\* Where an expression comes by one step into an embedded message: those are objects in
\* the one that pushMessage() makes if they are declared and have a field.  Otherwise the
\* evaluation fails, which is entry 0.
Inside(at, x) ==
    LET v == V(at.k)[x]
        z == findFieldNumber(at.k, v)
    IN  IF at.k # 0 /\ x \in 1..Len(V(at.k)) /\ v.type = "message" /\ v.of \in cache /\ z # 0
        THEN [k |-> v.of, p |-> Zone(at.p, Fields(at.k)[z])]
        ELSE [k |-> 0, p |-> <<>>]

\* What the expression finds in the object that pushMessage() makes of the packet.
pushMessage(k, p, get) ==
    LET at[j \in 0..(Len(get) - 1)] == IF j = 0 THEN [k |-> k, p |-> p] ELSE Inside(at[j - 1], get[j])
        in == at[Len(get) - 1]
        f == get[Len(get)]
    IN  CASE in.k = 0 -> Empty
          [] in.k # 0 /\ f \in 1..Len(Fields(in.k)) -> pushField(in.p, Fields(in.k)[f], Inputs[in.k][f])
          [] OTHER -> Undefined

-----------------------------------------------------------------------------
(* messagecomposer.cpp                                                       *)

\* In bytes, as memory and keys hold them.
SizeOf == [double |-> Width, float |-> Half, int64 |-> Width, uint64 |-> Width,
           int32 |-> Half, uint32 |-> Half, bool |-> 1, enum |-> Half]

\* What is no number is 0; anything that does not begin with 0, f or F is true.
parse(type, t) ==
    CASE type = "string" -> t
      [] type = "bytes"  -> b64_encode(t)
      [] type = "bool"   -> Number(IF t.is \in {"empty", "false"} \/ t = Number(0) THEN 0 ELSE 1)
      [] OTHER           -> Number(IF isNumber(t) THEN t.n % Span[SizeOf[type]] ELSE 0)

Leaf(k, f, t) == [of |-> k, f |-> f, val |-> t]

\* The expression of the field is evaluated; one that fails gives the empty text.
extractVariable(k, f, root, p) == pushMessage(root, p, V(k)[f].get)

\* oncomposefield(): nothing if the message is not declared.
oncomposefield(k, f, root, p) == IF k \in cache THEN extractVariable(k, f, root, p) ELSE Empty

\* The scalars of a message and of those embedded in it, in the order of the fields.  A
\* repeated message is visited once or not at all, a repeated scalar never.
Visited(k, once) ==
    LET to[depth \in 0..N] == [j \in 1..N |->
            IF depth = 0 THEN <<>>
            ELSE FlattenSeq([f \in 1..Len(V(j)) |->
                CASE V(j)[f].type = "message" /\ (once \/ ~V(j)[f].repeated) -> to[depth - 1][V(j)[f].of]
                  [] V(j)[f].type # "message" /\ ~V(j)[f].repeated -> <<[of |-> j, f |-> f]>>
                  [] OTHER -> <<>>])]
    IN  to[N][k]

composeField(k, f, root, p) == Leaf(k, f, parse(V(k)[f].type, oncomposefield(k, f, root, p)))

\* oncomposefield() always answers false, which ends the loop of a repeated field before
\* the first element is added; compose() answers "repeated", so that the one element of
\* a repeated message is composed again until MAX_FLD_ALLOWED, with the same result.
compose(k, p) ==
    LET S == Visited(k, TRUE) IN [j \in 1..Len(S) |-> composeField(S[j].of, S[j].f, k, p)]

\* A new message: every field has its default value, repeated ones have no element.
getMessage(k) ==
    LET S == Visited(k, FALSE) IN
        [j \in 1..Len(S) |-> Leaf(S[j].of, S[j].f,
                                  IF V(S[j].of)[S[j].f].type \in {"string", "bytes"} THEN Empty ELSE Number(0))]

\* No field of the message is repeated, nor one of those embedded in it.
Single(k) ==
    \E S \in SUBSET (1..N) :
        /\ k \in S
        /\ \A j \in S : \A f \in 1..Len(V(j)) : ~V(j)[f].repeated /\ (V(j)[f].type = "message" => V(j)[f].of \in S)

\* What memory holds for a scalar of this type.
Held(type) == IF type \in Numeric THEN {Number(n) : n \in 0..(Span[SizeOf[type]] - 1)} ELSE Text

\* A message is of its type: a value for each scalar that is not repeated, each of its
\* type, and only those if nothing is repeated.
Conforms(m_) ==
    /\ m_.leaves \in Seq([of : 1..N, f : Nat, val : Text])
    /\ \A j \in 1..Len(m_.leaves) : LET l == m_.leaves[j] IN
          /\ l.f \in 1..Len(V(l.of)) /\ V(l.of)[l.f].type # "message"
          /\ l.val \in Held(V(l.of)[l.f].type)
    /\ \A f \in 1..Len(V(m_.of)) : V(m_.of)[f].type # "message" /\ ~V(m_.of)[f].repeated =>
          \E j \in 1..Len(m_.leaves) : m_.leaves[j].of = m_.of /\ m_.leaves[j].f = f
    /\ Single(m_.of) => [j \in 1..Len(m_.leaves) |-> [of |-> m_.leaves[j].of, f |-> m_.leaves[j].f]] = Visited(m_.of, FALSE)

ASSUME OthersAssumption == \A o \in Others : o.of \in 1..N => Conforms(o)

-----------------------------------------------------------------------------
(* Pkt2PacketVariable and pkt2optionscache.cpp: indexes and keys              *)

IndexesOf(k) == {V(k)[f].index : f \in 1..Len(V(k))} \ {0}
LastIndex(k) == IF IndexesOf(k) = {} THEN 0 ELSE CHOOSE x \in IndexesOf(k) : \A y \in IndexesOf(k) : y <= x

\* Of two fields with one index the last is kept; operator[] of the map puts the first
\* field wherever an index is missing, and so lengthens the loop.
keyIndexes(k) ==
    [n \in 1..LastIndex(k) |->
        LET F == {f \in 1..Len(V(k)) : V(k)[f].index = n} IN
            IF F = {} THEN 1 ELSE CHOOSE f \in F : \A g \in F : g <= f]

\* The first index that leads to a field of that name, 0 if there is none.
getIndex(k, f) ==
    LET I == {n \in 1..LastIndex(k) : k \in cache /\ keyIndexes(k)[n] = f} IN
        IF I = {} THEN 0 ELSE CHOOSE n \in I : \A o \in I : n <= o

getMessageId(k) == Ids[k]

\* The bytes of a number in memory, and those of a text, which stand for it: the digits of
\* a number, or the kind of another and which it is.
InMemory(n, size) == [j \in 1..size |-> (n \div Span[j - 1]) % Base]
Spelt(t) == CASE t.is = "empty" -> <<>>
              [] isNumber(t) -> IF t.n < Base THEN <<t.n>> ELSE <<t.n \div Base, t.n % Base>>
              [] OTHER -> <<IF t.is = "number" THEN 1 ELSE 0, IF t.is = "word" THEN 1 ELSE 0, t.n, t.b64>>

\* Wrong on purpose: the place in the buffer is not moved on after a number.
PUSH_KEY_Stays(type, t) ==
    IF type \in {"string", "bytes"} THEN Spelt(IF type = "bytes" THEN b64_encode(t) ELSE t) ELSE <<>>

\* A number of type enum is written, but the next one is written over it.
PUSH_KEY(type, t) ==
    CASE type = "string" -> Spelt(t)
      [] type = "bytes"  -> Spelt(b64_encode(t))
      [] type \in {"enum", "message"} -> <<>>
      [] OTHER -> InMemory(t.n, SizeOf[type])

Of(m_, f) ==
    LET j == CHOOSE h \in 1..Len(m_.leaves) : m_.leaves[h].of = m_.of /\ m_.leaves[h].f = f
    IN  m_.leaves[j].val

getKey(m_) ==
    <<getMessageId(m_.of)>> \o
    FlattenSeq([n \in 1..LastIndex(m_.of) |->
        LET f == keyIndexes(m_.of)[n] IN
            IF V(m_.of)[f].type = "message" THEN <<>> ELSE PUSH_KEY(V(m_.of)[f].type, Of(m_, f))])

-----------------------------------------------------------------------------
(* messagedecomposer.cpp                                                     *)

\* A negative number if the sign bit is set; ten digits of a double, with an exponent
\* where that is shorter or there are more; bytes are encoded, once more.
toString(type, t) ==
    CASE type \in {"int32", "int64", "enum"} ->
             Number(IF 2 * t.n >= Span[SizeOf[type]] THEN t.n - Span[SizeOf[type]] ELSE t.n)
      [] type \in {"double", "float"} -> IF t.n \in Exponents THEN Exponent(t.n) ELSE t
      [] type = "bytes" -> b64_encode(t)
      [] OTHER -> t

\* Fields with a format give what that expression gives; a failure gives the text of the error.
format(k, f, t) == IF k \in cache /\ V(k)[f].format THEN Formatted ELSE t

Shown(l) == format(l.of, l.f, toString(V(l.of)[l.f].type, l.val))

\* addJavascriptMessage() puts a copy of every field, embedded messages and all, into the
\* object "value" for the formats; it has no end if a repeated enum has elements.
addJavascriptMessageEnds(m_) == ~\E j \in 1..Len(m_.leaves) :
    LET v == V(m_.leaves[j].of)[m_.leaves[j].f] IN v.type = "enum" /\ v.repeated

-----------------------------------------------------------------------------
(* fieldnamevalueindexstrings.cpp                                            *)

\* Texts and whatever does not look like a number are quoted.
Quoted(e) == e.type \in {"string", "bytes"} \/ ~isNumber(e.value)

\* What lies at some positions, in their order; the fields without an empty alias.
Nth(P, r) == CHOOSE j \in P : Cardinality({h \in P : h <= j}) = r
Picked(S, P) == [r \in 1..Cardinality(P) |-> S[Nth(P, r)]]
Visible(S) == Picked(S, {j \in 1..Len(S) : ~S[j].hidden})
Names(S) == [j \in 1..Len(S) |-> S[j].field]
Texts(S) == [j \in 1..Len(S) |-> S[j].value]
Quotes(S) == [j \in 1..Len(S) |-> Quoted(S[j])]

Statement(table, keys, columns, texts, quotes) ==
    [table |-> table, keys |-> keys, columns |-> columns, values |-> texts, quoted |-> quotes]

\* A property is a field 0 of its own, of text; "received", whose numbers are not quoted,
\* is not among them.
PropertyNames == [j \in 1..Len(Properties) |-> <<0, Properties[j]>>]
PropertyTexts == [j \in 1..Len(Properties) |-> Word_(Properties[j])]
PropertyQuotes == [j \in 1..Len(Properties) |-> TRUE]

toStringInsert ==
    LET S == Visible(values) IN
        IF message.of \in HiddenTables \/ Len(S) + Len(Properties) = 0 THEN <<>>
        ELSE <<Statement(message.of, <<>>, Names(S) \o PropertyNames, Texts(S) \o PropertyTexts,
                         Quotes(S) \o PropertyQuotes)>>

\* The values that lie at a position which index2values holds, the identifier of the
\* message and the 0 of a missing index among them, are left out.
IsIndexed(j) == \E n \in 1..Len(index2values) : index2values[n] = j - 1

\* A row for each value, after the identifier and the values of the indexes.
toStringInsert2 ==
    LET S == Picked(values, {j \in 1..Len(values) : ~values[j].hidden /\ ~IsIndexed(j)})
        keys == [n \in 1..(Len(index2values) - 1) |-> values[index2values[n + 1] + 1].value]
    IN  [r \in 1..Len(S) |->
            Statement(IF Quoted(S[r]) THEN "str" ELSE "num", <<Number(index2values[1])>> \o keys,
                      <<S[r].field>>, <<S[r].value>>, <<Quoted(S[r])>>)]

\* All values, those with an empty alias too.
toStringCSV ==
    IF message.of \in HiddenTables THEN <<>>
    ELSE <<Statement(message.of, <<>>, <<>>, Texts(values) \o PropertyTexts, <<>>)>>

\* The same with another delimiter.
toStringTab == toStringCSV

toStringJSON ==
    LET S == Visible(values) IN
        IF message.of \in HiddenTables THEN <<>>
        ELSE <<Statement(message.of, <<>>, Names(S) \o PropertyNames, Texts(S) \o PropertyTexts,
                         Quotes(S) \o PropertyQuotes)>>

\* The numbers that a column of this type holds: signed of 32 or 64 bits, unsigned ones,
\* any of 20 digits, floating point, or texts.
getSqlDialectTypeName(type, dialect) ==
    CASE type \in {"string", "bytes"} -> "text"
      [] type \in {"double", "float"} -> "real"
      [] type \in {"bool", "enum"} -> IF dialect = "sqlite" THEN "int64" ELSE "int32"
      [] type = "int32" -> IF dialect = "sqlite" THEN "int64" ELSE "int32"
      [] type = "int64" -> "int64"
      [] type = "uint32" -> IF dialect = "mysql" THEN "uint32" ELSE "int64"
      [] type = "uint64" -> CASE dialect = "mysql" -> "uint64"
                              [] dialect = "postgresql" -> "digits20"
                              [] OTHER -> "int64"

Column(l, dialect) == [name |-> <<l.of, l.f>>, type |-> getSqlDialectTypeName(V(l.of)[l.f].type, dialect)]

\* Wrong on purpose: the fields with an empty alias have columns.
toCreateSQLTableFields_All(k, dialect) ==
    LET S == getMessage(k)
    IN  [j \in 1..Len(S) |-> Column(S[j], dialect)]

\* The columns of a table, taken from a new message.
toCreateSQLTableFields(k, dialect) ==
    LET L == getMessage(k)
        S == Picked(L, {j \in 1..Len(L) : ~V(L[j].of)[L[j].f].hidden})
    IN  [j \in 1..Len(S) |-> Column(S[j], dialect)]

-----------------------------------------------------------------------------
(* The way of a message                                                      *)

\* Packet2Message::parsePacket()
parsePacket ==
    /\ stage = "none" /\ pc = "found" /\ found
    /\ message' = [of |-> result, leaves |-> compose(result, data)]
    /\ stage' = "composed"
    /\ UNCHANGED <<frame, values, index2values, mode, output>>

stringDelimitedMessage ==
    /\ stage = "composed"
    /\ frame' = [message_type |-> message.of, message_size |-> Len(message.leaves), body |-> message.leaves]
    /\ stage' = "sent"
    /\ UNCHANGED <<message, values, index2values, mode, output>>

\* A bound: what a handler does with the messages of others does not depend on the
\* packets of the receiver, so they come before the first of these.
NoPacketYet == pc = "idle" /\ data = <<>> /\ composed = 0 /\ cache \subseteq 1..N

\* Another program sends a message; it may be of a type that is not declared here.
OtherSends(m_) ==
    /\ stage = "none" /\ NoPacketYet
    /\ frame' = [message_type |-> m_.of, message_size |-> Len(m_.leaves), body |-> m_.leaves]
    /\ stage' = "sent"
    /\ UNCHANGED <<message, values, index2values, mode, output>>

\* A handler reads it; one of an unknown type is skipped.
readDelimitedMessage ==
    /\ stage = "sent"
    /\ IF frame.message_type \in 1..N
       THEN /\ message' = [of |-> frame.message_type, leaves |-> SubSeq(frame.body, 1, frame.message_size)]
            /\ stage' = "read"
       ELSE stage' = "done" /\ UNCHANGED message
    /\ UNCHANGED <<frame, values, index2values, mode, output>>

\* The constructors of FieldNameValueIndexStrings and MessageDecomposer.
Decompose ==
    /\ stage = "read"
    /\ index2values' = <<getMessageId(message.of)>>
    /\ values' = <<>>
    /\ stage' = IF addJavascriptMessageEnds(message) THEN "adding" ELSE "stuck"
    /\ UNCHANGED <<message, frame, mode, output>>

\* Wrong on purpose: the position is taken after the value is added.
Indexed_After(index) ==
    IF index = 0 THEN index2values
    ELSE [n \in 1..(IF index + 1 > Len(index2values) THEN index + 1 ELSE Len(index2values)) |->
             CASE n = index + 1 -> Len(values) + 1
               [] n # index + 1 /\ n <= Len(index2values) -> index2values[n]
               [] OTHER -> 0]

\* index2values is made longer if need be, with zeros, and holds the position of the value.
Indexed(index) ==
    IF index = 0 THEN index2values
    ELSE [n \in 1..(IF index + 1 > Len(index2values) THEN index + 1 ELSE Len(index2values)) |->
             CASE n = index + 1 -> Len(values)
               [] n # index + 1 /\ n <= Len(index2values) -> index2values[n]
               [] OTHER -> 0]

\* decomposeField() calls addFieldValueString() for each scalar, and that add().
addFieldValueString ==
    /\ stage = "adding" /\ Len(values) < Len(message.leaves)
    /\ LET l == message.leaves[Len(values) + 1]
           v == V(l.of)[l.f]
       IN  /\ index2values' = Indexed(getIndex(l.of, l.f))
           /\ values' = Append(values, [index |-> getIndex(l.of, l.f), type |-> v.type, hidden |-> v.hidden,
                                        field |-> <<l.of, l.f>>, value |-> Shown(l)])
    /\ UNCHANGED <<stage, message, frame, mode, output>>

Put(how, text) ==
    /\ stage = "adding" /\ Len(values) = Len(message.leaves)
    /\ mode' = how
    /\ output' = text
    /\ stage' = "written"
    /\ UNCHANGED <<message, frame, values, index2values>>

put_sql == Put("sql", toStringInsert)
put_sql2 == Put("sql2", toStringInsert2)
put_json == Put("json", toStringJSON)
put_csv == Put("csv", toStringCSV)
put_tab == Put("tab", toStringTab)

\* The message has been handled, or the handler hung and was killed.
Handled ==
    /\ stage \in {"written", "done", "stuck"}
    /\ stage' = "none" /\ message' = NoMessage
    /\ frame' = [message_type |-> 0, message_size |-> 0, body |-> <<>>]
    /\ values' = <<>> /\ index2values' = <<>> /\ mode' = "none" /\ output' = <<>>

ValuesNext ==
    \/ stage = "none" /\ Next /\ UNCHANGED valueVars
    \/ /\ \/ parsePacket \/ stringDelimitedMessage \/ readDelimitedMessage
          \/ \E m_ \in Others : OtherSends(m_)
          \/ Decompose \/ addFieldValueString
          \/ put_sql \/ put_sql2 \/ put_json \/ put_csv \/ put_tab
          \/ Handled
       /\ UNCHANGED vars

ValuesSpec == ValuesInit /\ [][ValuesNext]_<<vars, valueVars>>

-----------------------------------------------------------------------------

\* The indexes run from 1 without gaps or repetition, over fields that are single and no
\* enums or messages, and only the last is a text.
WellKeyed(k) ==
    /\ \A n \in 1..LastIndex(k) : Cardinality({f \in 1..Len(V(k)) : V(k)[f].index = n}) = 1
    /\ \A n \in 1..LastIndex(k) :
          LET v == V(k)[keyIndexes(k)[n]] IN
              /\ ~v.repeated /\ v.type \notin {"enum", "message"}
              /\ v.type \in {"string", "bytes"} => n = LastIndex(k)

(***************************************************************************)
(* The key of the store tells messages apart: two with the same key have one   *)
(* identifier and, if that is of one type, agree in all their indexed fields,   *)
(* whatever their types and sizes, although the key is a plain concatenation.   *)
(* (pkt2optionscache.cpp 231-304)                                            *)
(***************************************************************************)
KeysTellApart ==
    stage = "read" /\ WellKeyed(message.of) =>
        \A o \in Others :
            o.of \in 1..N /\ WellKeyed(o.of) /\ getKey(o) = getKey(message) =>
                /\ getMessageId(o.of) = getMessageId(message.of)
                /\ o.of = message.of => \A n \in 1..LastIndex(o.of) :
                      Of(o, keyIndexes(o.of)[n]) = Of(message, keyIndexes(o.of)[n])

IndexOf(l) == getIndex(l.of, l.f)

\* Every index belongs to one value, there are at most two, from 1 on, and the
\* identifier of the message is no position of a value.
Plain(m_) ==
    LET L == m_.leaves
        K == {j \in 1..Len(L) : IndexOf(L[j]) # 0}
    IN  /\ {IndexOf(L[j]) : j \in K} = 1..Cardinality(K)
        /\ Cardinality(K) <= 2
        /\ getMessageId(m_.of) >= Len(L)

(***************************************************************************)
(* The second kind of SQL writes each value of a message once: what is no      *)
(* index has a row of its own, with its own name and value, under the           *)
(* identifier and the indexes of that message, also where the value or the      *)
(* index comes from an embedded or repeated field, and the indexes have none.    *)
(* (fieldnamevalueindexstrings.cpp 83-105, 370-443)                           *)
(***************************************************************************)
RowsTellAll ==
    stage = "written" /\ mode = "sql2" /\ Plain(message) =>
        LET L == message.leaves
            rows == {j \in 1..Len(L) : IndexOf(L[j]) = 0 /\ ~V(L[j].of)[L[j].f].hidden}
            keys == {j \in 1..Len(L) : IndexOf(L[j]) # 0}
        IN  /\ Len(output) = Cardinality(rows)
            /\ \A j \in rows : LET row == output[Cardinality({h \in rows : h <= j})] IN
                  /\ row.columns = <<<<L[j].of, L[j].f>>>> /\ row.values = <<Shown(L[j])>>
                  /\ Len(row.keys) = Cardinality(keys) + 1 /\ row.keys[1] = Number(Ids[message.of])
                  /\ \A h \in keys : row.keys[IndexOf(L[h]) + 1] = Shown(L[h])

Holds(type, t) ==
    CASE type = "int32" -> -Span[Half] <= 2 * t.n /\ 2 * t.n < Span[Half]
      [] type = "int64" -> -Span[Width] <= 2 * t.n /\ 2 * t.n < Span[Width]
      [] type = "uint32" -> 0 <= t.n /\ t.n < Span[Half]
      [] type = "uint64" -> 0 <= t.n /\ t.n < Span[Width]
      [] type \in {"digits20", "real"} -> TRUE

\* What is written in quotes for a column: a text, and a double with an exponent.
InQuotes(column, t) == column.type = "text" \/ (column.type = "real" /\ t.n \in Exponents)

\* A statement and the columns of its table.
Fits(S, C, dialect) ==
    /\ Len(S.columns) = Len(C) + Len(Properties)
    /\ Len(S.values) = Len(S.columns)
    /\ \A j \in 1..Len(C) :
          /\ S.columns[j] = C[j].name
          /\ S.quoted[j] <=> InQuotes(C[j], S.values[j])
          /\ ~S.quoted[j] /\ ~(V(C[j].name[1])[C[j].name[2]].type = "uint64" /\ dialect \in {"sqlite", "firebird"})
                => Holds(C[j].type, S.values[j])

(***************************************************************************)
(* A message without repeated fields fits the table that CREATE TABLE made      *)
(* for it in the dialects for which it is given: the INSERT names its columns,   *)
(* in their order, and gives each a value of its type - a text in quotes, or a   *)
(* number that the column holds - with one exception: a double or float that is   *)
(* printed with an exponent (1e-05, 1e+10) is no number for isNumber() and is    *)
(* written in quotes for a column of type double; what that does is left to the  *)
(* database.  Left out: formatted values, properties, and uint64 in SQLite and   *)
(* Firebird.                                                                 *)
(* (fieldnamevalueindexstrings.cpp 122-362, messagedecomposer.cpp 415-476)      *)
(***************************************************************************)
SchemaFits ==
    stage = "written" /\ mode = "sql" /\ output # <<>>
    /\ Single(message.of)
    /\ (\A j \in 1..Len(message.leaves) : ~V(message.leaves[j].of)[message.leaves[j].f].format) =>
        \A dialect \in {"sqlite", "mysql", "postgresql", "firebird"} :
            Fits(output[1], toCreateSQLTableFields(message.of, dialect), dialect)
=============================================================================
