--------------------------- MODULE PacketMatchProofs ---------------------------
(***************************************************************************)
(* Proofs about fields, tags and the search, for every base, width, set of    *)
(* declarations and sequence of packets; and about what becomes of a packet     *)
(* then: the message that is composed of it, its way over the bus, and the      *)
(* keys, rows and tables that handlers make of it.                           *)
(***************************************************************************)
EXTENDS Values, SequenceTheorems, FiniteSetTheorems, WellFoundedInduction, TLAPS

USE BaseAssumption, WidthAssumption

-----------------------------------------------------------------------------
(* Fields.                                                                  *)

LEMMA ByteFacts == 0 \in Byte /\ Base - 1 \in Byte /\ Byte \subseteq Nat
  BY DEF Byte

LEMMA WordFacts == Zero \in Word /\ AllOnes \in Word
  BY ByteFacts DEF Zero, AllOnes, Word

\* The constant of a tag is an integer.
LEMMA ConstantIsWord == \A f \in Field : Constant(f) \in Word
  BY WordFacts DEF Constant, Field

\* Reversing twice is the identity, and reversing stays within the field.
LEMMA PlaceInField ==
    ASSUME NEW f \in Field, NEW k \in 1..f.size
    PROVE  Place(f, k) \in 1..f.size /\ Place(f, Place(f, k)) = k
  <1>1. f.size \in Nat
    BY DEF Field
  <1> QED BY <1>1 DEF Place

LEMMA PlaceInWord ==
    ASSUME NEW f \in Field, NEW k \in 1..f.size, k <= Width
    PROVE  Place(f, k) \in 1..Width
  <1>1. f.size \in Nat /\ (f.swap => f.size <= Width)
    BY DEF Field
  <1> QED BY <1>1 DEF Place

LEMMA SetKeepsType ==
    ASSUME NEW p \in Seq(Byte), NEW f \in Field, NEW v \in Word
    PROVE  setFieldUInt(p, f, v) \in Seq(Byte) /\ Len(setFieldUInt(p, f, v)) = Len(p)
  <1> DEFINE q == setFieldUInt(p, f, v)
  <1>1. f.offset \in Nat /\ f.size \in Nat
    BY DEF Field
  <1>2. ASSUME NEW k \in 1..Len(p) PROVE q[k] \in Byte
    <2>1. CASE f.offset < k /\ k <= End(f) /\ k <= f.offset + Width
      <3>1. k - f.offset \in 1..f.size /\ k - f.offset <= Width
        BY <1>1, <2>1 DEF End
      <3>2. Place(f, k - f.offset) \in 1..Width
        BY <3>1, PlaceInWord
      <3>3. q[k] = v[Place(f, k - f.offset)]
        BY <2>1 DEF setFieldUInt
      <3> QED BY <3>2, <3>3 DEF Word
    <2>2. CASE ~(f.offset < k /\ k <= End(f) /\ k <= f.offset + Width)
      BY <2>2 DEF setFieldUInt
    <2> QED BY <2>1, <2>2
  <1>3. q = [k \in 1..Len(p) |-> q[k]]
    BY DEF setFieldUInt
  <1>4. q \in [1..Len(p) -> Byte]
    BY <1>2, <1>3
  <1> HIDE DEF q
  <1>5. q \in Seq(Byte) /\ Len(q) = Len(p)
    BY <1>4
  <1> QED BY <1>5 DEF q

(***************************************************************************)
(* Reading a field gives back the integer that was written into it, in        *)
(* either byte order, if the field lies in the packet and the integer fits.   *)
(***************************************************************************)
THEOREM RoundTrip ==
    ASSUME NEW p \in Seq(Byte), NEW f \in Field, NEW v \in Word,
           End(f) <= Len(p), FitsIn(v, f)
    PROVE  extractFieldUInt(setFieldUInt(p, f, v), f) = v
  <1> DEFINE q == setFieldUInt(p, f, v)
  <1>1. f.offset \in Nat /\ f.size \in Nat
    BY DEF Field
  <1>2. Len(q) = Len(p)
    BY SetKeepsType
  <1>3. ASSUME NEW k \in 1..Width PROVE extractFieldUInt(q, f)[k] = v[k]
    <2>1. CASE k > f.size
      BY <2>1, <1>1 DEF extractFieldUInt, FitsIn
    <2>2. CASE k <= f.size
      <3>1. k \in 1..f.size
        BY <1>1, <2>2
      <3>2. Place(f, k) \in 1..f.size /\ Place(f, Place(f, k)) = k /\ Place(f, k) \in 1..Width
        BY <3>1, PlaceInField, PlaceInWord
      <3>3. extractFieldUInt(q, f)[k] = q[f.offset + Place(f, k)]
        <4>1. ~(Len(q) < End(f))
          BY <1>1, <1>2 DEF End
        <4> HIDE DEF q
        <4> QED BY <2>2, <3>1, <4>1 DEF extractFieldUInt, extractField
      <3>4. f.offset + Place(f, k) \in 1..Len(p)
        BY <1>1, <3>2 DEF End
      <3>5. (f.offset + Place(f, k)) - f.offset = Place(f, k)
        BY <1>1, <3>2
      <3>6. q[f.offset + Place(f, k)] = v[Place(f, Place(f, k))]
        <4>1. /\ f.offset < f.offset + Place(f, k)
              /\ f.offset + Place(f, k) <= End(f)
              /\ f.offset + Place(f, k) <= f.offset + Width
          BY <1>1, <3>2 DEF End
        <4> QED BY <3>4, <3>5, <4>1 DEF setFieldUInt
      <3> QED BY <3>2, <3>3, <3>6
    <2> QED BY <2>1, <2>2, <1>1
  <1>4. extractFieldUInt(q, f) = [k \in 1..Width |-> extractFieldUInt(q, f)[k]]
    BY DEF extractFieldUInt
  <1>5. v = [k \in 1..Width |-> v[k]]
    BY DEF Word
  <1> HIDE DEF q
  <1>6. extractFieldUInt(q, f) = v
    BY <1>3, <1>4, <1>5
  <1> QED BY <1>6 DEF q

(***************************************************************************)
(* Writing a field leaves alone what the fields apart from it hold.           *)
(***************************************************************************)
THEOREM WritesAreLocal ==
    ASSUME NEW p \in Seq(Byte), NEW f \in Field, NEW g \in Field, NEW v \in Word,
           End(g) <= Len(p), Apart(f, g)
    PROVE  extractFieldUInt(setFieldUInt(p, f, v), g) = extractFieldUInt(p, g)
  <1> DEFINE q == setFieldUInt(p, f, v)
  <1>1. f.offset \in Nat /\ f.size \in Nat /\ g.offset \in Nat /\ g.size \in Nat
    BY DEF Field
  <1>2. Len(q) = Len(p)
    BY SetKeepsType
  <1>3. ASSUME NEW k \in 1..g.size PROVE q[g.offset + Place(g, k)] = p[g.offset + Place(g, k)]
    <2>1. Place(g, k) \in 1..g.size
      BY PlaceInField
    <2>2. g.offset + Place(g, k) \in 1..Len(p)
      BY <1>1, <2>1 DEF End
    <2>3. ~(f.offset < g.offset + Place(g, k) /\ g.offset + Place(g, k) <= End(f))
      BY <1>1, <2>1 DEF Apart, End
    <2> QED BY <2>2, <2>3 DEF setFieldUInt
  <1> HIDE DEF q
  <1>4. extractField(q, g) = extractField(p, g)
    BY <1>2, <1>3 DEF extractField
  <1>5. extractFieldUInt(q, g) = extractFieldUInt(p, g)
    BY <1>4 DEF extractFieldUInt
  <1> QED BY <1>5 DEF q

-----------------------------------------------------------------------------
(* The state machine.                                                       *)

LEMMA FieldsFacts ==
    /\ N \in Nat
    /\ \A k \in 0..N : Fields(k) \in Seq(Field) /\ Len(Fields(k)) \in Nat
    /\ \A k \in 0..N : \A e \in EmbeddedIn(k) : e.of \in 1..N
    /\ Fields(0) = <<>> /\ EmbeddedIn(0) = {}
  <1>1. N \in Nat
    BY MessagesAssumption DEF N
  <1>2. \A k \in 1..N : Messages[k] \in [fields : Seq(Field), embedded : SUBSET Embedded]
    <2> DEFINE S == [fields : Seq(Field), embedded : SUBSET Embedded]
    <2>1. Messages \in Seq(S)
      BY MessagesAssumption
    <2> HIDE DEF S
    <2>2. \A k \in 1..Len(Messages) : Messages[k] \in S
      BY <2>1
    <2> QED BY <2>2 DEF S, N
  <1>3. \A k \in 1..N : Messages[k].fields \in Seq(Field) /\ Messages[k].embedded \subseteq Embedded
    BY <1>2
  <1>4. \A e \in Embedded : e.of \in 1..N
    BY DEF Embedded
  <1>5. \A k \in 0..N : k = 0 \/ k \in 1..N
    BY <1>1
  <1>6. \A k \in 0..N : Fields(k) \in Seq(Field)
    BY <1>3, <1>5 DEF Fields
  <1>7. \A k \in 0..N : Len(Fields(k)) \in Nat
    BY <1>6
  <1>8. \A k \in 0..N : \A e \in EmbeddedIn(k) : e.of \in 1..N
    BY <1>3, <1>4, <1>5 DEF EmbeddedIn
  <1> QED BY <1>1, <1>6, <1>7, <1>8 DEF Fields, EmbeddedIn

\* The type invariant but for the flag, which needs no other variable.
Typed ==
    /\ pc \in {"load", "idle", "tags", "values", "search", "found"}
    /\ cache \subseteq 0..N
    /\ packet_size \in [0..N -> Nat]
    /\ m \in 1..(N + 1) /\ i \in Nat \ {0}
    /\ composed \in 0..N
    /\ data \in Seq(Byte)
    /\ it \in 0..(N + 1)
    /\ result \in 0..N

\* What every field is known to be.
LEMMA OneField ==
    ASSUME NEW k \in 0..N, NEW j \in 1..Len(Fields(k))
    PROVE  /\ Fields(k)[j] \in Field
           /\ End(Fields(k)[j]) \in Nat
           /\ Constant(Fields(k)[j]) \in Word
  <1>1. Fields(k)[j] \in Field
    BY FieldsFacts
  <1>2. End(Fields(k)[j]) \in Nat
    BY <1>1 DEF Field, End
  <1> QED BY <1>1, <1>2, ConstantIsWord

\* Loading has seen every field of the messages before m, and those of m before i.
Sized ==
    /\ packet_size[0] = 0
    /\ \A k \in 1..N : k < m => k \in cache
    /\ pc # "load" => m = N + 1
    /\ \A k \in 1..N : \A j \in 1..Len(Fields(k)) :
          k < m \/ (pc = "load" /\ k = m /\ j < i) => End(Fields(k)[j]) <= packet_size[k]

Under == pc \in {"tags", "values", "search", "found"} /\ composed # 0

\* A packet under composition has its size, and the tags that are set.
Tagged ==
    /\ pc \in {"tags", "values"} => composed # 0
    /\ Under => Len(data) = packet_size[composed]
    /\ Under /\ Consistent(composed) =>
          \A j \in 1..Len(Fields(composed)) :
              HasTag(Fields(composed)[j]) /\ (pc = "tags" => j < i) =>
                  extractFieldUInt(data, Fields(composed)[j]) = Constant(Fields(composed)[j])

\* No entry that find1() has passed fits.
Passed ==
    pc = "search" =>
        /\ ~found
        /\ \A k \in 0..N : k < it /\ k \in cache => ~validTags(k, data)

IInv == Typed /\ Sized /\ Tagged /\ Passed /\ FirstThatFits /\ ComposedIsFound

LEMMA InitIInv == Init => IInv
  <1> SUFFICES ASSUME Init PROVE IInv
    OBVIOUS
  <1> USE FieldsFacts
  <1>1. Typed
    BY DEF Init, Typed
  <1>2. Sized
    BY DEF Init, Sized
  <1>3. Tagged /\ Passed /\ FirstThatFits /\ ComposedIsFound
    BY DEF Init, Tagged, Under, Passed, FirstThatFits, ComposedIsFound
  <1> QED BY <1>1, <1>2, <1>3 DEF IInv

\* The steps of loading.
LEMMA LoadStep ==
    ASSUME IInv, getPacketSize \/ AddDeclaration \/ Loaded
    PROVE  IInv'
  <1> USE DEF IInv
  <1>n. N \in Nat
    BY FieldsFacts
  <1>0. pc = "load" /\ pc' \in {"load", "idle"} /\ UNCHANGED <<composed, data, it, found, result>>
    BY DEF getPacketSize, AddDeclaration, Loaded
  <1>1. Tagged' /\ Passed' /\ FirstThatFits' /\ ComposedIsFound'
    BY <1>0 DEF Tagged, Under, Passed, FirstThatFits, ComposedIsFound
  <1>2. CASE getPacketSize
    <2>1. m \in 1..N /\ m \in 0..N /\ i \in 1..Len(Fields(m))
      BY <1>2 DEF getPacketSize, Typed
    <2>2. End(Fields(m)[i]) \in Nat
      BY <2>1, OneField
    <2> DEFINE e == End(Fields(m)[i])
    <2>3. packet_size' = [packet_size EXCEPT ![m] = IF e > packet_size[m] THEN e ELSE packet_size[m]]
      BY <1>2 DEF getPacketSize
    <2>4. UNCHANGED <<pc, cache, m>> /\ i' = i + 1
      BY <1>2 DEF getPacketSize
    <2> HIDE DEF e
    <2>5. e \in Nat
      BY <2>2 DEF e
    <2> DEFINE larger == IF e > packet_size[m] THEN e ELSE packet_size[m]
    <2>a. packet_size \in [0..N -> Nat] /\ packet_size[m] \in Nat
      BY <2>1 DEF Typed
    <2>b. larger \in Nat /\ larger >= e /\ larger >= packet_size[m]
      BY <2>5, <2>a
    <2>c. packet_size' = [packet_size EXCEPT ![m] = larger]
      BY <2>3
    <2> HIDE DEF larger
    <2>d. packet_size' \in [0..N -> Nat]
      BY <2>1, <2>a, <2>b, <2>c
    <2>6. Typed'
      BY <1>0, <2>1, <2>4, <2>d DEF Typed
    <2>7. /\ packet_size'[m] >= e /\ packet_size'[m] >= packet_size[m]
          /\ \A k \in 0..N : k # m => packet_size'[k] = packet_size[k]
          /\ packet_size'[m] \in Nat /\ packet_size[m] \in Nat
      BY <2>1, <2>a, <2>b, <2>c
    <2>8. ASSUME NEW k \in 1..N, NEW j \in 1..Len(Fields(k)), k < m \/ (k = m /\ j < i + 1)
          PROVE  End(Fields(k)[j]) <= packet_size'[k]
      <3>1. CASE k < m
        <4>1. End(Fields(k)[j]) <= packet_size[k]
          BY <3>1 DEF Sized
        <4> QED BY <4>1, <2>1, <2>7, <3>1, k \in 0..N
      <3>2. CASE k = m /\ j < i
        <4>1. End(Fields(k)[j]) <= packet_size[k]
          BY <1>0, <3>2 DEF Sized
        <4>2. End(Fields(k)[j]) \in Nat
          BY OneField, k \in 0..N
        <4> QED BY <4>1, <4>2, <2>7, <3>2
      <3>3. CASE k = m /\ j = i
        BY <2>5, <2>7, <3>3 DEF e
      <3> QED BY <2>8, <3>1, <3>2, <3>3, <2>1, i \in Nat DEF Typed
    <2>9. Sized'
      <3>1. packet_size'[0] = 0
        BY <1>n, <2>1, <2>7 DEF Sized
      <3> QED BY <1>0, <2>1, <2>4, <2>8, <3>1 DEF Sized
    <2> QED BY <1>1, <2>6, <2>9
  <1>3. CASE AddDeclaration
    <2>1. Typed'
      BY <1>n, <1>0, <1>3 DEF AddDeclaration, Typed
    <2>2. m \in 1..N /\ i > Len(Fields(m)) /\ i \in Nat /\ m' = m + 1 /\ i' = 1
          /\ cache' = cache \cup {m} /\ UNCHANGED <<pc, packet_size>>
      BY <1>3 DEF AddDeclaration, Typed
    <2>3. ASSUME NEW k \in 1..N, NEW j \in 1..Len(Fields(k)), k < m + 1
          PROVE  End(Fields(k)[j]) <= packet_size[k]
      <3>1. k < m \/ (k = m /\ j < i)
        BY <2>2, <2>3
      <3> QED BY <1>0, <3>1 DEF Sized
    <2>4. Sized'
      BY <1>0, <2>2, <2>3 DEF Sized
    <2> QED BY <1>1, <2>1, <2>4
  <1>4. CASE Loaded
    <2>1. Typed'
      BY <1>0, <1>4 DEF Loaded, Typed
    <2>2. Sized'
      BY <1>n, <1>0, <1>4 DEF Loaded, Sized, Typed
    <2> QED BY <1>1, <2>1, <2>2
  <1> QED BY <1>2, <1>3, <1>4

\* All fields lie in the packets of their message once loading is over.
LEMMA FieldsFit ==
    ASSUME Typed, Sized, pc # "load", NEW k \in 1..N, NEW j \in 1..Len(Fields(k))
    PROVE  End(Fields(k)[j]) <= packet_size[k]
  BY FieldsFacts DEF Sized

\* Writing one field of a consistent declaration leaves its other tags alone.
LEMMA WriteKeepsTags ==
    ASSUME IInv, pc \in {"tags", "values"}, Consistent(composed),
           NEW l \in 1..Len(Fields(composed)), NEW v \in Word,
           NEW j \in 1..Len(Fields(composed)), j # l, HasTag(Fields(composed)[j])
    PROVE  extractFieldUInt(setFieldUInt(data, Fields(composed)[l], v), Fields(composed)[j])
               = extractFieldUInt(data, Fields(composed)[j])
  <1> DEFINE f == Fields(composed)[l]
             g == Fields(composed)[j]
  <1>1. composed \in 1..N /\ composed \in 0..N /\ data \in Seq(Byte) /\ Len(data) = packet_size[composed]
    BY FieldsFacts DEF IInv, Typed, Tagged, Under
  <1>2. f \in Field /\ g \in Field
    BY <1>1, OneField
  <1>3. End(g) <= Len(data)
    BY <1>1, FieldsFit DEF IInv
  <1>4. Apart(f, g)
    BY DEF Consistent, Apart
  <1> HIDE DEF f, g
  <1>5. extractFieldUInt(setFieldUInt(data, f, v), g) = extractFieldUInt(data, g)
    BY <1>1, <1>2, <1>3, <1>4, WritesAreLocal
  <1> QED BY <1>5 DEF f, g

\* What the steps of composing leave alone.
LEMMA ComposeFrame ==
    ASSUME IInv, pc \in {"idle", "tags", "values"}, pc' \in {"tags", "values", "search"},
           UNCHANGED <<cache, packet_size, m>>, pc' = "search" => it' = 0 /\ found' = FALSE
    PROVE  Sized' /\ Passed' /\ FirstThatFits' /\ ComposedIsFound'
  <1>1. Sized'
    BY DEF IInv, Sized
  <1>2. Passed'
    BY FieldsFacts DEF Passed
  <1> QED BY <1>1, <1>2 DEF FirstThatFits, ComposedIsFound

LEMMA ComposeStep ==
    ASSUME IInv,
           \/ \E k \in 1..N : Compose(k)
           \/ SetTag \/ TagsSet \/ SetValue \/ Send
           \/ \E p \in Noise : Arrive(p)
    PROVE  IInv'
  <1>n. N \in Nat
    BY FieldsFacts
  <1>0. Sized' /\ Passed' /\ FirstThatFits' /\ ComposedIsFound'
    <2>1. /\ pc \in {"idle", "tags", "values"} /\ pc' \in {"tags", "values", "search"}
          /\ UNCHANGED <<cache, packet_size, m>> /\ (pc' = "search" => it' = 0 /\ found' = FALSE)
      BY DEF Compose, SetTag, TagsSet, SetValue, Send, Arrive
    <2> QED BY <2>1, ComposeFrame
  <1>1. ASSUME NEW k \in 1..N, Compose(k) PROVE IInv'
    <2>1. packet_size[k] \in Nat /\ packet_size' = packet_size
      BY <1>n, <1>1 DEF Compose, IInv, Typed
    <2>2. data' \in Seq(Byte) /\ Len(data') = packet_size[k]
      <3>1. data' \in [1..packet_size[k] -> Byte]
        BY <1>1, ByteFacts DEF Compose
      <3> QED BY <2>1, <3>1
    <2>3. Typed'
      BY <1>n, <1>1, <2>2 DEF Compose, IInv, Typed
    <2>4. Tagged'
      BY <1>1, <2>1, <2>2 DEF Compose, Tagged, Under
    <2> QED BY <1>0, <2>3, <2>4 DEF IInv
  <1>2. CASE SetTag
    <2>1. /\ pc = "tags" /\ pc' = "tags" /\ i' = i + 1 /\ i \in 1..Len(Fields(composed))
          /\ UNCHANGED <<cache, packet_size, m, composed, it, result>>
      BY <1>2 DEF SetTag, IInv, Typed
    <2>2. composed \in 1..N /\ composed \in 0..N /\ data \in Seq(Byte) /\ Len(data) = packet_size[composed]
      BY <1>n, <2>1 DEF IInv, Typed, Tagged, Under
    <2> DEFINE f == Fields(composed)[i]
    <2>3. f \in Field /\ Constant(f) \in Word
      BY <2>1, <2>2, OneField
    <2>4. data' = IF HasTag(f) THEN setFieldUInt(data, f, Constant(f)) ELSE data
      BY <1>2 DEF SetTag
    <2>5. data' \in Seq(Byte) /\ Len(data') = Len(data)
      BY <2>2, <2>3, <2>4, SetKeepsType
    <2>6. Typed'
      BY <2>1, <2>5 DEF IInv, Typed
    <2>7. ASSUME Consistent(composed), NEW j \in 1..Len(Fields(composed)),
                 HasTag(Fields(composed)[j]), j < i + 1
          PROVE  extractFieldUInt(data', Fields(composed)[j]) = Constant(Fields(composed)[j])
      <3>1. CASE j = i
        <4>1. FitsIn(Constant(f), f)
          BY <2>1, <2>7, <3>1 DEF Consistent
        <4>2. End(f) <= Len(data)
          BY <2>1, <2>2, FieldsFit DEF IInv
        <4>3. HasTag(f)
          BY <2>7, <3>1
        <4> HIDE DEF f
        <4>4. extractFieldUInt(data', f) = Constant(f)
          BY <2>2, <2>3, <2>4, <4>1, <4>2, <4>3, RoundTrip
        <4> QED BY <3>1, <4>4 DEF f
      <3>2. CASE j # i
        <4>1. extractFieldUInt(data, Fields(composed)[j]) = Constant(Fields(composed)[j])
          BY <2>1, <2>2, <2>7, <3>2 DEF IInv, Tagged, Under
        <4>2. CASE HasTag(f)
          <5>1. extractFieldUInt(setFieldUInt(data, f, Constant(f)), Fields(composed)[j])
                  = extractFieldUInt(data, Fields(composed)[j])
            BY <2>1, <2>3, <2>7, <3>2, WriteKeepsTags
          <5> QED BY <2>4, <4>1, <4>2, <5>1
        <4>3. CASE ~HasTag(f)
          BY <2>4, <4>1, <4>3
        <4> QED BY <4>2, <4>3
      <3> QED BY <3>1, <3>2
    <2>8. Tagged'
      BY <2>1, <2>2, <2>5, <2>7 DEF Tagged, Under
    <2> QED BY <1>0, <2>6, <2>8 DEF IInv
  <1>3. CASE TagsSet
    <2>1. /\ pc = "tags" /\ pc' = "values" /\ i' = 1 /\ i > Len(Fields(composed)) /\ i \in Nat
          /\ UNCHANGED <<cache, packet_size, m, composed, data, it, result>>
      BY <1>3 DEF TagsSet, IInv, Typed
    <2>2. Typed'
      BY <2>1 DEF IInv, Typed
    <2>3. \A j \in 1..Len(Fields(composed)) : j < i
      BY <2>1, FieldsFacts DEF IInv, Typed
    <2>4. Tagged'
      BY <2>1, <2>3 DEF IInv, Tagged, Under
    <2> QED BY <1>0, <2>2, <2>4 DEF IInv
  <1>4. CASE SetValue
    <2>1. /\ pc = "values" /\ pc' = "values" /\ i' = i + 1 /\ i \in 1..Len(Fields(composed))
          /\ UNCHANGED <<cache, packet_size, m, composed, it, result>>
      BY <1>4 DEF SetValue, IInv, Typed
    <2>2. composed \in 1..N /\ composed \in 0..N /\ data \in Seq(Byte) /\ Len(data) = packet_size[composed]
      BY <1>n, <2>1 DEF IInv, Typed, Tagged, Under
    <2> DEFINE f == Fields(composed)[i]
    <2>3. f \in Field
      BY <2>1, <2>2, OneField
    <2>4. CASE HasTag(f)
      <3>1. data' = data
        BY <1>4, <2>4 DEF SetValue
      <3>2. Typed' /\ Tagged'
        BY <2>1, <3>1 DEF IInv, Typed, Tagged, Under
      <3> QED BY <1>0, <3>2 DEF IInv
    <2>5. CASE ~HasTag(f)
      <3>1. PICK v \in Values : data' = setFieldUInt(data, f, v)
        BY <1>4, <2>5 DEF SetValue
      <3>2. v \in Word
        BY ValuesAssumption
      <3>3. data' \in Seq(Byte) /\ Len(data') = Len(data)
        BY <2>2, <2>3, <3>1, <3>2, SetKeepsType
      <3>4. Typed'
        BY <2>1, <3>3 DEF IInv, Typed
      <3>5. ASSUME Consistent(composed), NEW j \in 1..Len(Fields(composed)), HasTag(Fields(composed)[j])
            PROVE  extractFieldUInt(data', Fields(composed)[j]) = Constant(Fields(composed)[j])
        <4>1. j # i
          BY <2>5, <3>5
        <4>2. extractFieldUInt(data, Fields(composed)[j]) = Constant(Fields(composed)[j])
          BY <2>1, <2>2, <3>5 DEF IInv, Tagged, Under
        <4>3. extractFieldUInt(setFieldUInt(data, f, v), Fields(composed)[j])
                = extractFieldUInt(data, Fields(composed)[j])
          BY <2>1, <3>2, <3>5, <4>1, WriteKeepsTags
        <4> QED BY <3>1, <4>2, <4>3
      <3>6. Tagged'
        BY <2>1, <2>2, <3>3, <3>5 DEF Tagged, Under
      <3> QED BY <1>0, <3>4, <3>6 DEF IInv
    <2> QED BY <2>4, <2>5
  <1>5. CASE Send
    <2>1. /\ pc = "values" /\ pc' = "search" /\ it' = 0
          /\ UNCHANGED <<cache, packet_size, m, i, composed, data, result>>
      BY <1>5 DEF Send
    <2>2. Typed' /\ Tagged'
      BY <1>n, <2>1 DEF IInv, Typed, Tagged, Under
    <2> QED BY <1>0, <2>2 DEF IInv
  <1>6. ASSUME NEW p \in Noise, Arrive(p) PROVE IInv'
    <2>1. Typed'
      BY <1>n, <1>6, NoiseAssumption DEF Arrive, IInv, Typed
    <2>2. Tagged'
      BY <1>6 DEF Arrive, Tagged, Under
    <2> QED BY <1>0, <2>1, <2>2 DEF IInv
  <1> QED BY <1>1, <1>2, <1>3, <1>4, <1>5, <1>6

\* The default entry never fits, and a composed packet fits its declaration.
LEMMA DefaultNeverFits == IInv => ~validTags(0, data)
  BY DEF IInv, Sized, validTags, TagsHold

LEMMA ComposedFits ==
    ASSUME IInv, pc \in {"search", "found"}, composed # 0, Consistent(composed)
    PROVE  validTags(composed, data)
  <1>1. composed \in 1..N /\ composed \in 0..N /\ Len(data) = packet_size[composed]
        /\ packet_size[composed] \in Nat
    BY FieldsFacts DEF IInv, Typed, Tagged, Under
  <1>2. Len(data) # 0
    <2>1. PICK j \in 1..Len(Fields(composed)) : End(Fields(composed)[j]) > 0
      BY DEF Consistent
    <2>2. End(Fields(composed)[j]) <= packet_size[composed] /\ End(Fields(composed)[j]) \in Nat
      BY <1>1, FieldsFit, OneField DEF IInv
    <2> QED BY <1>1, <2>1, <2>2
  <1>3. TagsHold(composed, data)
    BY <1>1, <1>2 DEF TagsHold, IInv, Tagged, Under
  <1>4. EmbeddedIn(composed) = {}
    BY DEF Consistent
  <1> QED BY <1>3, <1>4 DEF validTags

LEMMA SearchStep ==
    ASSUME IInv, NextEntry \/ NotFound \/ Done
    PROVE  IInv'
  <1>n. N \in Nat
    BY FieldsFacts
  <1>0. /\ UNCHANGED <<packet_size, m, i, composed, data>> /\ pc \in {"search", "found"}
        /\ pc' \in {"search", "found", "idle"}
        /\ cache \subseteq cache'
    BY DEF NextEntry, NotFound, Done
  <1>1. Sized' /\ Tagged'
    BY <1>0 DEF IInv, Sized, Tagged, Under
  <1>2. m = N + 1 /\ \A k \in 1..N : k \in cache
    BY <1>0, <1>n DEF IInv, Sized
  <1>3. CASE Done
    <2>1. Typed' /\ Passed' /\ FirstThatFits' /\ ComposedIsFound'
      BY <1>3 DEF Done, IInv, Typed, Passed, FirstThatFits, ComposedIsFound
    <2> QED BY <1>1, <2>1 DEF IInv
  <1>4. CASE NotFound
    <2>1. /\ pc = "search" /\ pc' = "found" /\ it > N /\ cache' = cache \cup {0} /\ result' = 0
          /\ UNCHANGED <<it, found>>
      BY <1>4 DEF NotFound
    <2>2. Typed'
      BY <1>0, <1>n, <2>1 DEF IInv, Typed
    <2>3. ~found /\ \A k \in 1..N : ~validTags(k, data)
      BY <1>2, <1>n, <2>1 DEF IInv, Passed, Typed
    <2>4. \A k \in 1..N : validTags(k, data)' = validTags(k, data)
      <3>1. \A k \in 1..N : \A e \in EmbeddedIn(k) : e.of \in cache /\ e.of \in cache'
        BY <1>0, <1>2, <1>n, FieldsFacts
      <3> QED BY <1>0, <3>1 DEF validTags, TagsHold
    <2>5. FirstThatFits'
      BY <2>1, <2>3, <2>4 DEF FirstThatFits
    <2>6. composed = 0 \/ ~Consistent(composed)
      BY <1>n, <2>1, <2>3, ComposedFits DEF IInv, Typed
    <2>7. ComposedIsFound' /\ Passed'
      BY <1>0, <2>1, <2>6 DEF ComposedIsFound, Passed
    <2> QED BY <1>1, <2>2, <2>5, <2>7 DEF IInv
  <1>5. CASE NextEntry
    <2>0. pc = "search" /\ it \in 0..N /\ cache' = cache
      BY <1>n, <1>5 DEF NextEntry, IInv, Typed
    <2>v. \A k \in 0..N : validTags(k, data)' = validTags(k, data)
      BY <1>0, <2>0 DEF validTags, TagsHold
    <2>1. CASE it \in cache /\ validTags(it, data)
      <3>1. found' = TRUE /\ result' = it /\ pc' = "found" /\ it' = it
        BY <1>5, <2>1 DEF NextEntry
      <3>2. it \in 1..N
        BY <1>n, <2>0, <2>1, DefaultNeverFits
      <3>3. Typed'
        BY <1>0, <1>n, <2>0, <3>1, <3>2 DEF IInv, Typed
      <3>4. \A k \in 1..N : validTags(k, data) => it <= k
        BY <1>n, <1>2, <2>0 DEF IInv, Passed
      <3>5. FirstThatFits'
        BY <1>0, <2>1, <2>v, <3>1, <3>2, <3>4, <1>n DEF FirstThatFits
      <3>6. ASSUME composed # 0, Consistent(composed) PROVE it <= composed
        <4>1. composed \in 1..N
          BY <1>n, <3>6 DEF IInv, Typed
        <4> QED BY <2>0, <3>4, <3>6, <4>1, ComposedFits
      <3>7. ComposedIsFound' /\ Passed'
        BY <1>0, <3>1, <3>6 DEF ComposedIsFound, Passed
      <3> QED BY <1>1, <3>3, <3>5, <3>7 DEF IInv
    <2>2. CASE ~(it \in cache /\ validTags(it, data))
      <3>1. it' = it + 1 /\ UNCHANGED <<pc, found, result>>
        BY <1>5, <2>2 DEF NextEntry
      <3>2. Typed'
        BY <1>0, <1>n, <2>0, <3>1 DEF IInv, Typed
      <3>3. ~found' /\ \A k \in 0..N : k < it' /\ k \in cache' => ~validTags(k, data)
        BY <1>n, <2>0, <2>2, <3>1 DEF IInv, Passed
      <3>4. Passed'
        BY <2>v, <3>3 DEF Passed
      <3>5. FirstThatFits' /\ ComposedIsFound'
        BY <2>0, <3>1 DEF FirstThatFits, ComposedIsFound
      <3> QED BY <1>1, <3>2, <3>4, <3>5 DEF IInv
    <2> QED BY <2>1, <2>2
  <1> QED BY <1>3, <1>4, <1>5

LEMMA StepIInv == IInv /\ [Next]_vars => IInv'
  <1> SUFFICES ASSUME IInv, [Next]_vars PROVE IInv'
    OBVIOUS
  <1>1. CASE UNCHANGED vars
    <2>1. Typed' /\ Sized' /\ Tagged'
      BY <1>1 DEF vars, IInv, Typed, Sized, Tagged, Under
    <2>2. Passed' /\ FirstThatFits'
      BY <1>1 DEF vars, IInv, Passed, FirstThatFits, validTags, TagsHold
    <2>3. ComposedIsFound'
      BY <1>1 DEF vars, IInv, ComposedIsFound
    <2> QED BY <2>1, <2>2, <2>3 DEF IInv
  <1> QED BY <1>1, LoadStep, ComposeStep, SearchStep DEF Next

-----------------------------------------------------------------------------

(***************************************************************************)
(* find1() answers with the first declared message, in the order of names,    *)
(* that the packet fits, and with nothing if it fits none: the entry that a   *)
(* failed search leaves in the map never changes a later answer.             *)
(***************************************************************************)
THEOREM SearchIsExact == Spec => []FirstThatFits
  <1>1. IInv => FirstThatFits
    BY DEF IInv
  <1> QED BY InitIInv, StepIInv, <1>1, PTL DEF Spec

(***************************************************************************)
(* Every packet composed from a consistent declaration is recognised, for     *)
(* every width of integers, every order of bytes and every set of             *)
(* declarations.                                                            *)
(***************************************************************************)
THEOREM ComposedIsRecognised == Spec => []ComposedIsFound
  <1>1. IInv => ComposedIsFound
    BY DEF IInv
  <1> QED BY InitIInv, StepIInv, <1>1, PTL DEF Spec

\* The flag has only Boolean values.
Flag == found \in BOOLEAN

LEMMA FlagStep == Flag /\ [Next]_vars => Flag'
  <1> SUFFICES ASSUME found \in BOOLEAN, [Next]_vars PROVE found' \in BOOLEAN
    BY DEF Flag
  <1>1. found' = found \/ found' = TRUE \/ found' = FALSE
    BY DEF Next, vars, getPacketSize, AddDeclaration, Loaded, Compose, SetTag, TagsSet, SetValue,
       Send, Arrive, NextEntry, NotFound, Done
  <1> QED BY <1>1

(***************************************************************************)
(* Type correctness of the search and of what it works on.                   *)
(***************************************************************************)
THEOREM MatchTypes == Spec => []TypeOK
  <1>1. Init => Flag
    BY DEF Init, Flag
  <1>2. IInv /\ Flag => TypeOK
    BY DEF IInv, Flag, Typed, TypeOK
  <1> QED BY InitIInv, StepIInv, FlagStep, <1>1, <1>2, PTL DEF Spec

-----------------------------------------------------------------------------
(* Induction and recursion over numbers.                                    *)

\* A set of numbers has a least one: the intervals up to them are finite sets, and
\* the strict subsets of finite sets are well founded.
LEMMA Least ==
    ASSUME NEW K, K \subseteq Nat, K # {}
    PROVE  \E a \in K : \A k \in K : a <= k
  <1> DEFINE T == {1..k : k \in K}
             R == StrictSubsetOrdering(Nat)
  <1>1. T \subseteq FiniteSubsetsOf(Nat) /\ T # {}
    <2> SUFFICES ASSUME NEW k \in K PROVE 1..k \in FiniteSubsetsOf(Nat)
      OBVIOUS
    <2>1. IsFiniteSet(1..k)
      BY FS_Interval
    <2> QED BY <2>1 DEF FiniteSubsetsOf
  <1>2. IsWellFoundedOn(R, FiniteSubsetsOf(Nat))
    BY FS_StrictSubsetOrderingWellFounded
  <1>3. PICK x \in T : \A y \in T : ~(<<y, x>> \in R)
    <2> HIDE DEF T, R
    <2> QED BY <1>1, <1>2, WFMin
  <1>4. PICK a \in K : x = 1..a
    OBVIOUS
  <1>5. ASSUME NEW k \in K, k < a PROVE FALSE
    <2>1. 1..k \subseteq 1..a /\ 1..k # 1..a /\ 1..k \in SUBSET Nat /\ 1..a \in SUBSET Nat
      <3>1. a \in 1..a /\ a \notin 1..k
        BY <1>5
      <3> QED BY <1>5, <3>1
    <2>2. <<1..k, 1..a>> \in R
      BY <2>1 DEF StrictSubsetOrdering
    <2> QED BY <2>2, <1>3, <1>4
  <1> QED BY <1>5

\* Induction over numbers, for a set of them.
LEMMA Induction ==
    ASSUME NEW P, 0 \in P, \A n \in Nat : n \in P => n + 1 \in P
    PROVE  \A n \in Nat : n \in P
  <1> DEFINE K == {n \in Nat : n \notin P}
  <1>1. K = {}
    <2> SUFFICES ASSUME K # {} PROVE FALSE
      OBVIOUS
    <2>1. K \subseteq Nat
      OBVIOUS
    <2>2. PICK a \in K : \A k \in K : a <= k
      <3> HIDE DEF K
      <3> QED BY <2>1, Least
    <2>3. a # 0 /\ a - 1 \in Nat /\ a - 1 \notin K
      BY <2>2
    <2> QED BY <2>3
  <1> QED BY <1>1

\* f begins with a, and G takes each value to the next.
Steps(f, n, S, a, G) ==
    /\ f \in [0..n -> S] /\ f[0] = a
    /\ \A j \in 1..n : f[j] = G[<<j, f[j - 1]>>]

\* What a recursion over the numbers up to n defines exists.
LEMMA Recursion ==
    ASSUME NEW S, NEW a \in S, NEW n \in Nat, NEW G \in [(1..n) \X S -> S]
    PROVE  \E f : Steps(f, n, S, a, G)
  <1> DEFINE P == {h \in Nat : h <= n => \E f : Steps(f, h, S, a, G)}
  <1>1. 0 \in P
    <2>1. Steps([j \in 0..0 |-> a], 0, S, a, G)
      BY DEF Steps
    <2> QED BY <2>1
  <1>2. ASSUME NEW h \in Nat, h \in P PROVE h + 1 \in P
    <2> SUFFICES ASSUME h + 1 <= n PROVE \E f : Steps(f, h + 1, S, a, G)
      OBVIOUS
    <2>1. PICK f : Steps(f, h, S, a, G)
      BY <1>2
    <2> DEFINE g == [j \in 0..(h + 1) |-> IF j = h + 1 THEN G[<<h + 1, f[h]>>] ELSE f[j]]
    <2>2. \A j \in 0..h : f[j] \in S /\ g[j] = f[j]
      BY <2>1 DEF Steps
    <2>3. g[h + 1] = G[<<h + 1, f[h]>>] /\ g[h + 1] \in S
      <3>1. h \in 0..h /\ h + 1 \in 1..n
        OBVIOUS
      <3>2. <<h + 1, f[h]>> \in (1..n) \X S
        BY <2>2, <3>1
      <3> QED BY <3>2
    <2>4. g \in [0..(h + 1) -> S]
      <3>1. \A j \in 0..(h + 1) : g[j] \in S
        <4>1. \A j \in 0..(h + 1) : j \in 0..h \/ j = h + 1
          OBVIOUS
        <4> HIDE DEF g
        <4> QED BY <2>2, <2>3, <4>1
      <3> QED BY <3>1
    <2>5. g[0] = a
      BY <2>1, <2>2 DEF Steps
    <2>6. ASSUME NEW j \in 1..(h + 1) PROVE g[j] = G[<<j, g[j - 1]>>]
      <3> HIDE DEF g
      <3>1. CASE j = h + 1
        <4>1. j - 1 = h /\ h \in 0..h
          BY <3>1
        <4> QED BY <2>2, <2>3, <3>1, <4>1
      <3>2. CASE j # h + 1
        <4>1. j \in 1..h /\ j \in 0..h /\ j - 1 \in 0..h
          BY <3>2
        <4>2. f[j] = G[<<j, f[j - 1]>>]
          BY <2>1, <4>1 DEF Steps
        <4> QED BY <2>2, <4>1, <4>2
      <3> QED BY <3>1, <3>2
    <2>7. Steps(g, h + 1, S, a, G)
      <3> HIDE DEF g
      <3> QED BY <2>4, <2>5, <2>6 DEF Steps
    <2> HIDE DEF g
    <2> QED BY <2>7
  <1>3. n \in P
    <2> HIDE DEF P
    <2> QED BY <1>1, <1>2, Induction
  <1> QED BY <1>3

\* A recursive definition whose every step stays in S.
LEMMA StaysIn ==
    ASSUME NEW S, NEW n \in Nat, NEW f, f[0] \in S, \A j \in 1..n : f[j - 1] \in S => f[j] \in S
    PROVE  \A j \in 0..n : f[j] \in S
  <1> DEFINE P == {h \in Nat : h <= n => f[h] \in S}
  <1>1. 0 \in P
    OBVIOUS
  <1>2. ASSUME NEW h \in Nat, h \in P PROVE h + 1 \in P
    <2> SUFFICES ASSUME h + 1 <= n PROVE f[h + 1] \in S
      OBVIOUS
    <2>1. f[h] \in S /\ h + 1 \in 1..n /\ (h + 1) - 1 = h
      BY <1>2
    <2> QED BY <2>1
  <1>3. \A h \in Nat : h \in P
    <2> HIDE DEF P
    <2> QED BY <1>1, <1>2, Induction
  <1> QED BY <1>3

-----------------------------------------------------------------------------
(* Numbers of several bytes.                                                *)

LEMMA SpanFacts ==
    /\ Span[0] = 1 /\ \A j \in 1..Width : Span[j] = Base * Span[j - 1]
    /\ \A j \in 0..Width : Span[j] \in Nat \ {0}
  <1> DEFINE S == Nat \ {0}
             G == [x \in (1..Width) \X S |-> Base * x[2]]
  <1>1. G \in [(1..Width) \X S -> S] /\ 1 \in S
    OBVIOUS
  <1>2. PICK f : Steps(f, Width, S, 1, G)
    <2> HIDE DEF S, G
    <2> QED BY <1>1, Recursion
  <1> DEFINE Is(g) == g = [n \in 0..Width |-> IF n = 0 THEN 1 ELSE Base * g[n - 1]]
  <1>3. Is(f)
    <2>1. \A j \in 1..Width : f[j] = Base * f[j - 1]
      <3> SUFFICES ASSUME NEW j \in 1..Width PROVE f[j] = Base * f[j - 1]
        OBVIOUS
      <3>1. f[j - 1] \in S /\ f[j] = G[<<j, f[j - 1]>>]
        <4> HIDE DEF S, G
        <4>1. j - 1 \in 0..Width
          OBVIOUS
        <4> QED BY <1>2, <4>1 DEF Steps
      <3>2. <<j, f[j - 1]>> \in (1..Width) \X S
        BY <3>1
      <3> QED BY <3>1, <3>2
    <2>2. DOMAIN f = 0..Width /\ f[0] = 1 /\ f = [n \in 0..Width |-> f[n]]
      BY <1>2 DEF Steps
    <2>3. ASSUME NEW n \in 0..Width PROVE f[n] = IF n = 0 THEN 1 ELSE Base * f[n - 1]
      <3>1. n # 0 => n \in 1..Width
        OBVIOUS
      <3> QED BY <2>1, <2>2, <3>1
    <2> QED BY <2>2, <2>3
  <1>4. Is(Span)
    BY <1>3 DEF Span
  <1>5. Span[0] = 1 /\ \A j \in 1..Width : Span[j] = Base * Span[j - 1]
    <2>1. \A n \in 0..Width : Span[n] = IF n = 0 THEN 1 ELSE Base * Span[n - 1]
      BY <1>4
    <2> QED BY <2>1
  <1>6. \A j \in 0..Width : Span[j] \in Nat \ {0}
    <2>1. \A j \in 1..Width : Span[j - 1] \in Nat \ {0} => Span[j] \in Nat \ {0}
      BY <1>5
    <2>2. PICK T : T = Nat \ {0}
      OBVIOUS
    <2>3. Span[0] \in T /\ \A j \in 1..Width : Span[j - 1] \in T => Span[j] \in T
      BY <1>5, <2>1, <2>2
    <2>4. \A j \in 0..Width : Span[j] \in T
      BY <2>3, StaysIn
    <2> QED BY <2>2, <2>4
  <1> QED BY <1>5, <1>6

LEMMA DivDiv ==
    ASSUME NEW n \in Nat, NEW b \in Nat \ {0}, NEW s \in Nat \ {0}
    PROVE  n \div (b * s) = (n \div b) \div s
  OBVIOUS

\* The sizes of the types are 1, Half and Width bytes.
LEMMA Sizes ==
    /\ Half \in 2..Width /\ Half < Width
    /\ \A type \in Numeric : SizeOf[type] \in 1..Width /\ SizeOf[type] \in {1, Half, Width}
  <1>1. Half \in 2..Width /\ Half < Width
    <2>1. Width % 4 = 0
      BY VariablesAssumption, Zenon
    <2>2. Width >= 4
      BY <2>1
    <2> QED BY <2>1, <2>2 DEF Half
  <1> QED BY <1>1 DEF Numeric, SizeOf

LEMMA SpanGrows ==
    ASSUME NEW a \in 0..Width, NEW b \in 0..Width, a < b
    PROVE  2 * Span[a] <= Span[b] /\ Span[a] \in Nat \ {0} /\ Span[b] \in Nat \ {0}
  <1> DEFINE P == {h \in Nat : a + 1 + h <= Width => 2 * Span[a] <= Span[a + 1 + h]}
  <1>0. a \in Nat /\ Span[a] \in Nat \ {0} /\ Span[b] \in Nat \ {0}
    BY SpanFacts
  <1>1. 0 \in P
    <2> SUFFICES ASSUME a + 1 + 0 <= Width PROVE 2 * Span[a] <= Span[a + 1 + 0]
      BY <1>0
    <2>1. a + 1 \in 1..Width /\ (a + 1) - 1 = a /\ a + 1 + 0 = a + 1
      BY <1>0
    <2>2. Span[a + 1] = Base * Span[a]
      BY <2>1, SpanFacts
    <2>3. 2 * Span[a] <= Base * Span[a]
      BY <1>0
    <2> QED BY <2>1, <2>2, <2>3
  <1>2. ASSUME NEW h \in Nat, h \in P PROVE h + 1 \in P
    <2> SUFFICES ASSUME a + 1 + (h + 1) <= Width PROVE 2 * Span[a] <= Span[a + 1 + (h + 1)]
      BY <1>0
    <2>1. PICK c \in 0..Width : c = a + 1 + h /\ c + 1 = a + 1 + (h + 1) /\ c + 1 \in 1..Width /\ (c + 1) - 1 = c
      <3>1. a + 1 + h \in 0..Width
        BY <1>0
      <3>2. (a + 1 + h) + 1 = a + 1 + (h + 1) /\ (a + 1 + h) + 1 \in 1..Width /\ ((a + 1 + h) + 1) - 1 = a + 1 + h
        BY <1>0
      <3> QED BY <3>1, <3>2
    <2>2. Span[c + 1] = Base * Span[c] /\ Span[c] \in Nat \ {0}
      BY <2>1, SpanFacts
    <2>3. 2 * Span[a] <= Span[c]
      BY <1>2, <2>1
    <2>4. 2 * Span[a] <= Base * Span[c]
      BY <1>0, <2>2, <2>3
    <2> QED BY <2>1, <2>2, <2>4
  <1>3. \A h \in Nat : h \in P
    <2> HIDE DEF P
    <2> QED BY <1>1, <1>2, Induction
  <1>4. b - a - 1 \in Nat /\ a + 1 + (b - a - 1) = b
    BY <1>0
  <1>5. b - a - 1 \in P
    BY <1>3, <1>4
  <1>6. 2 * Span[a] <= Span[b]
    BY <1>4, <1>5
  <1> QED BY <1>0, <1>6

\* The bytes of a number in memory tell it.
LEMMA BytesTell ==
    ASSUME NEW size \in 0..Width, NEW x \in 0..(Span[size] - 1), NEW y \in 0..(Span[size] - 1),
           InMemory(x, size) = InMemory(y, size)
    PROVE  x = y
  <1> DEFINE Digit(n, j) == (n \div Span[j - 1]) % Base
             Same(a, b, h) == \A j \in 1..h : Digit(a, j) = Digit(b, j)
             P == {h \in Nat : h <= Width => \A a, b \in 0..(Span[h] - 1) : Same(a, b, h) => a = b}
  <1>1. 0 \in P
    BY SpanFacts
  <1>2. ASSUME NEW h \in Nat, h \in P PROVE h + 1 \in P
    <2> SUFFICES ASSUME h + 1 <= Width, NEW a \in 0..(Span[h + 1] - 1), NEW b \in 0..(Span[h + 1] - 1), Same(a, b, h + 1)
                 PROVE  a = b
      OBVIOUS
    <2>1. PICK t \in Nat \ {0} : t = Span[h] /\ Base * t = Span[h + 1]
      <3>1. h \in 0..Width /\ h + 1 \in 1..Width /\ (h + 1) - 1 = h
        OBVIOUS
      <3> QED BY <3>1, SpanFacts
    <2>2. a \in Nat /\ b \in Nat /\ a < Base * t /\ b < Base * t
      BY <2>1
    <2>3. a \div Base \in 0..(t - 1) /\ b \div Base \in 0..(t - 1)
      BY <2>2
    <2>4. a % Base = b % Base
      <3>1. 1 \in 1..(h + 1) /\ Span[1 - 1] = 1
        BY SpanFacts
      <3>2. Digit(a, 1) = Digit(b, 1)
        BY <3>1
      <3>3. a \div 1 = a /\ b \div 1 = b
        BY <2>2
      <3> QED BY <3>1, <3>2, <3>3
    <2>5. Same(a \div Base, b \div Base, h)
      <3> SUFFICES ASSUME NEW j \in 1..h PROVE Digit(a \div Base, j) = Digit(b \div Base, j)
        OBVIOUS
      <3>1. PICK s \in Nat \ {0} : s = Span[j - 1] /\ Base * s = Span[j]
        <4>1. j \in 1..Width /\ j - 1 \in 0..Width
          OBVIOUS
        <4> QED BY <4>1, SpanFacts
      <3>2. j + 1 \in 1..(h + 1) /\ (j + 1) - 1 = j
        OBVIOUS
      <3>3. Digit(a, j + 1) = Digit(b, j + 1)
        <4> HIDE DEF Digit
        <4> QED BY <3>2
      <3>4. (a \div (Base * s)) % Base = (b \div (Base * s)) % Base
        BY <3>1, <3>2, <3>3
      <3>5. a \div (Base * s) = (a \div Base) \div s /\ b \div (Base * s) = (b \div Base) \div s
        <4>1. Base \in Nat \ {0}
          OBVIOUS
        <4>2. a \in Nat /\ b \in Nat /\ s \in Nat \ {0}
          BY <2>2, <3>1
        <4>3. PICK c \in Nat \ {0} : c = Base
          BY <4>1
        <4>4. a \div (c * s) = (a \div c) \div s
          BY <4>2, DivDiv, ZenonT(60)
        <4>5. b \div (c * s) = (b \div c) \div s
          BY <4>2, DivDiv, ZenonT(60)
        <4> QED BY <4>3, <4>4, <4>5
      <3> QED BY <3>1, <3>4, <3>5
    <2>6. a \div Base = b \div Base
      <3> HIDE DEF Same
      <3> QED BY <1>2, <2>1, <2>3, <2>5
    <2> QED BY <2>2, <2>4, <2>6
  <1>3. \A h \in Nat : h \in P
    <2> HIDE DEF P
    <2> QED BY <1>1, <1>2, Induction
  <1>4. Same(x, y, size)
    <2>1. \A j \in 1..size : InMemory(x, size)[j] = Digit(x, j) /\ InMemory(y, size)[j] = Digit(y, j)
      BY DEF InMemory
    <2> HIDE DEF Digit
    <2> QED BY <2>1
  <1>5. size \in Nat /\ size <= Width /\ size \in P
    BY <1>3
  <1> HIDE DEF Same
  <1> QED BY <1>4, <1>5

-----------------------------------------------------------------------------
(* What is declared.                                                        *)

LEMMA VariableFacts ==
    /\ \A k \in 1..N : V(k) \in Seq(Variable) /\ Len(V(k)) \in Nat
    /\ \A k \in 1..N : \A f \in 1..Len(V(k)) : V(k)[f] \in Variable
  <1>1. Variables \in Seq(Seq(Variable)) /\ Len(Variables) = N
    BY VariablesAssumption, Zenon
  <1> HIDE DEF Variable
  <1>2. ASSUME NEW k \in 1..N PROVE V(k) \in Seq(Variable)
    BY <1>1 DEF V
  <1>3. \A k \in 1..N : V(k) \in Seq(Variable)
    BY <1>2
  <1>4. ASSUME NEW k \in 1..N PROVE Len(V(k)) \in Nat /\ \A f \in 1..Len(V(k)) : V(k)[f] \in Variable
    <2>1. PICK s \in Seq(Variable) : s = V(k)
      BY <1>2
    <2>2. Len(s) \in Nat /\ \A f \in 1..Len(s) : s[f] \in Variable
      OBVIOUS
    <2> QED BY <2>1, <2>2
  <1> QED BY <1>3, <1>4

LEMMA InputFacts ==
    \A k \in 1..N : \A f \in 1..Len(Fields(k)) :
        Inputs[k][f] \in {"uint", "int", "double", "string", "bytes", "none", "message"}
  <1> DEFINE S == {"uint", "int", "double", "string", "bytes", "none", "message"}
  <1>1. /\ Inputs \in Seq(Seq(S)) /\ Len(Inputs) = N
        /\ \A k \in 1..N : Len(Inputs[k]) = Len(Messages[k].fields)
    BY InputsAssumption, Zenon
  <1> HIDE DEF S
  <1>2. ASSUME NEW k \in 1..N, NEW f \in 1..Len(Fields(k)) PROVE Inputs[k][f] \in S
    <2>1. PICK s \in Seq(S) : s = Inputs[k]
      BY <1>1
    <2>2. Len(s) = Len(Fields(k))
      <3>1. k # 0
        BY FieldsFacts
      <3> QED BY <1>1, <2>1, <3>1 DEF Fields
    <2> QED BY <2>1, <2>2
  <1> QED BY <1>2 DEF S

LEMMA OneOfFields ==
    ASSUME NEW k \in 0..N, NEW f \in 1..Len(Fields(k))
    PROVE  Fields(k)[f] \in [offset : Nat, size : Nat, swap : BOOLEAN, tag : Word] /\ Fields(k)[f] \in Field
  <1>1. PICK s \in Seq(Field) : s = Fields(k)
    BY FieldsFacts
  <1>2. s[f] \in Field
    BY <1>1
  <1> QED BY <1>1, <1>2 DEF Field

-----------------------------------------------------------------------------
(* What expressions find.                                                   *)

LEMMA WordIsNumber ==
    ASSUME NEW w \in Word
    PROVE  ToNumber(w) \in Nat
  <1> DEFINE G == [x \in (1..Width) \X Nat |-> x[2] + w[x[1]] * Span[x[1] - 1]]
             Is(g) == g = [j \in 0..Width |-> IF j = 0 THEN 0 ELSE g[j - 1] + w[j] * Span[j - 1]]
  <1>0. \A j \in 1..Width : \A n \in Nat : n + w[j] * Span[j - 1] \in Nat
    <2> SUFFICES ASSUME NEW j \in 1..Width, NEW n \in Nat PROVE n + w[j] * Span[j - 1] \in Nat
      OBVIOUS
    <2>1. PICK s \in Nat : s = Span[j - 1]
      BY SpanFacts
    <2>2. PICK b \in Nat : b = w[j]
      BY DEF Word, Byte
    <2> QED BY <2>1, <2>2
  <1>1. G \in [(1..Width) \X Nat -> Nat] /\ 0 \in Nat
    <2>1. ASSUME NEW x \in (1..Width) \X Nat PROVE x[2] + w[x[1]] * Span[x[1] - 1] \in Nat
      <3>1. x[1] \in 1..Width /\ x[2] \in Nat
        OBVIOUS
      <3> QED BY <1>0, <3>1, Zenon
    <2> QED BY <2>1
  <1>2. PICK f : Steps(f, Width, Nat, 0, G)
    <2> HIDE DEF G
    <2> QED BY <1>1, Recursion
  <1>3. Is(f)
    <2>1. ASSUME NEW j \in 1..Width PROVE f[j] = f[j - 1] + w[j] * Span[j - 1]
      <3>1. f[j - 1] \in Nat /\ f[j] = G[<<j, f[j - 1]>>]
        <4> HIDE DEF G
        <4>1. j - 1 \in 0..Width
          OBVIOUS
        <4> QED BY <1>2, <4>1 DEF Steps
      <3>2. <<j, f[j - 1]>> \in (1..Width) \X Nat
        BY <3>1
      <3> QED BY <3>1, <3>2
    <2>2. DOMAIN f = 0..Width /\ f[0] = 0 /\ f = [n \in 0..Width |-> f[n]]
      BY <1>2 DEF Steps
    <2>3. ASSUME NEW n \in 0..Width PROVE f[n] = IF n = 0 THEN 0 ELSE f[n - 1] + w[n] * Span[n - 1]
      <3>1. n # 0 => n \in 1..Width
        OBVIOUS
      <3> QED BY <2>1, <2>2, <3>1, Zenon
    <2> QED BY <2>2, <2>3
  <1> DEFINE g == CHOOSE g_ : g_ = [j \in 0..Width |-> IF j = 0 THEN 0 ELSE g_[j - 1] + w[j] * Span[j - 1]]
  <1>4. ToNumber(w) = g[Width]
    BY DEF ToNumber
  <1>5. Is(g)
    BY <1>3
  <1> HIDE DEF g
  <1>6. \A j \in 0..Width : g[j] = IF j = 0 THEN 0 ELSE g[j - 1] + w[j] * Span[j - 1]
    BY <1>5
  <1>7. g[0] \in Nat
    BY <1>6
  <1>8. ASSUME NEW j \in 1..Width, g[j - 1] \in Nat PROVE g[j] \in Nat
    <2>1. j \in 0..Width /\ j # 0
      OBVIOUS
    <2>2. g[j] = g[j - 1] + w[j] * Span[j - 1]
      BY <1>6, <2>1, Zenon
    <2> QED BY <1>0, <1>8, <2>2
  <1>9. \A j \in 0..Width : g[j] \in Nat
    BY <1>7, <1>8, StaysIn
  <1> QED BY <1>4, <1>9

LEMMA ZoneIsPacket ==
    ASSUME NEW p \in Seq(Byte), NEW f \in [offset : Nat, size : Nat, swap : BOOLEAN, tag : Word]
    PROVE  Zone(p, f) \in Seq(Byte)
  <1>1. PICK a \in Nat : a = f.offset + 1 /\ a >= 1
    OBVIOUS
  <1>2. PICK b \in Nat : b = (IF End(f) < Len(p) THEN End(f) ELSE Len(p)) /\ b <= Len(p)
    BY DEF End
  <1>3. \A j \in a..b : p[j] \in Byte
    BY <1>1, <1>2
  <1>4. SubSeq(p, a, b) \in Seq(Byte)
    BY <1>3, SubSeqProperties
  <1> QED BY <1>1, <1>2, <1>4 DEF Zone

LEMMA FieldIsWord ==
    ASSUME NEW p \in Seq(Byte), NEW f \in Field
    PROVE  extractFieldUInt(p, f) \in Word
  <1>1. f \in [offset : Nat, size : Nat, swap : BOOLEAN, tag : Word]
    BY DEF Field
  <1>2. ASSUME NEW j \in 1..Width, j <= f.size PROVE extractField(p, f)[j] \in Byte
    <2>1. j \in 1..f.size
      BY <1>1, <1>2
    <2>2. Place(f, j) \in 1..f.size
      BY <1>1, <2>1 DEF Place
    <2>3. CASE Len(p) < End(f)
      BY <2>1, <2>3, ByteFacts DEF extractField
    <2>4. CASE ~(Len(p) < End(f))
      <3>1. f.offset + Place(f, j) \in 1..Len(p)
        BY <1>1, <2>2, <2>4 DEF End
      <3>2. p[f.offset + Place(f, j)] \in Byte
        BY <3>1
      <3> QED BY <2>1, <2>4, <3>2 DEF extractField
    <2> QED BY <2>3, <2>4
  <1>3. \A j \in 1..Width : (IF j <= f.size THEN extractField(p, f)[j] ELSE 0) \in Byte
    BY <1>2, ByteFacts
  <1> QED BY <1>3 DEF Word, extractFieldUInt

LEMMA Texts_ ==
    /\ \A n \in Int : Number(n) \in Text /\ Word_(n) \in Text
    /\ Empty \in Text /\ False \in Text /\ Undefined \in Text /\ Formatted \in Text
    /\ \A t \in Text : b64_encode(t) \in Text
  BY DEF Number, Word_, Empty, False, Undefined, Formatted, Text, b64_encode

LEMMA FieldIsText ==
    ASSUME NEW p \in Seq(Byte), NEW f \in Field,
           NEW type \in {"uint", "int", "double", "string", "bytes", "none", "message"}
    PROVE  pushField(p, f, type) \in Text
  <1>0. f \in [offset : Nat, size : Nat, swap : BOOLEAN, tag : Word]
    BY DEF Field
  <1>1. PICK n \in Nat : n = ToNumber(extractFieldUInt(p, f))
    BY FieldIsWord, WordIsNumber
  <1>2. PICK h \in Nat \ {0} : h = Span[Half]
    <2>1. Half \in 0..Width
      BY Sizes
    <2> QED BY <2>1, SpanFacts
  <1>3. extractFieldInt(p, f) \in Int
    <2>1. CASE f.size \in {1, Width \div 4, Half, Width} /\ 2 * n >= Span[f.size]
      <3>1. f.size \in 0..Width
        BY <1>0, <2>1, Sizes
      <3>2. Span[f.size] \in Nat
        BY <3>1, SpanFacts
      <3>3. n - Span[f.size] \in Int
        BY <3>2
      <3> QED BY <1>1, <2>1, <3>3 DEF extractFieldInt
    <2>2. CASE ~(f.size \in {1, Width \div 4, Half, Width} /\ 2 * n >= Span[f.size])
      BY <1>1, <2>2 DEF extractFieldInt
    <2> QED BY <2>1, <2>2
  <1>4. extractFieldDouble(p, f) \in Int
    BY <1>1 DEF extractFieldDouble
  <1>5. CASE type = "uint"
    <2>1. n % h \in Int
      BY <1>2
    <2> QED BY <1>1, <1>2, <1>5, <2>1, Texts_ DEF pushField
  <1>6. CASE type = "int"
    <2>1. extractFieldInt(p, f) % h \in Int
      BY <1>2, <1>3
    <2> QED BY <1>2, <1>6, <2>1, Texts_ DEF pushField
  <1>7. CASE type = "double"
    BY <1>4, <1>7, Texts_ DEF pushField
  <1>8. CASE type = "string"
    <2>1. PICK s \in Seq(Byte) : s = Zone(p, f)
      BY <1>0, ZoneIsPacket
    <2>2. s # <<>> => s[Len(s)] \in Int
      <3> SUFFICES ASSUME s # <<>> PROVE s[Len(s)] \in Int
        OBVIOUS
      <3>1. Len(s) \in 1..Len(s)
        BY EmptySeq
      <3>2. s[Len(s)] \in Byte
        BY <3>1
      <3> QED BY <3>2 DEF Byte
    <2>3. pushField(p, f, type) = IF s = <<>> \/ Head(s) = 0 THEN Empty ELSE Word_(s[Len(s)])
      BY <1>8, <2>1 DEF pushField
    <2> QED BY <2>2, <2>3, Texts_
  <1>9. CASE type = "bytes"
    BY <1>1, <1>9, Texts_ DEF pushField
  <1>10. CASE type = "none"
    BY <1>10, Texts_ DEF pushField
  <1>11. CASE type = "message"
    BY <1>11, Texts_ DEF pushField
  <1> QED BY <1>5, <1>6, <1>7, <1>8, <1>9, <1>10, <1>11

\* The places that an expression may come to.
Places_ == [k : 0..N, p : Seq(Byte)]

LEMMA InsideIsPlace ==
    ASSUME NEW at \in Places_, NEW x
    PROVE  Inside(at, x) \in Places_
  <1>0. at.k \in 0..N /\ at.p \in Seq(Byte) /\ N \in Nat
    BY FieldsFacts DEF Places_
  <1>1. CASE ~(at.k # 0 /\ x \in 1..Len(V(at.k)) /\ V(at.k)[x].type = "message" /\ V(at.k)[x].of \in cache
               /\ findFieldNumber(at.k, V(at.k)[x]) # 0)
    <2>1. Inside(at, x) = [k |-> 0, p |-> <<>>]
      BY <1>1, Zenon DEF Inside
    <2>2. <<>> \in Seq(Byte) /\ 0 \in 0..N
      BY <1>0
    <2> QED BY <2>1, <2>2 DEF Places_
  <1>2. CASE /\ at.k # 0 /\ x \in 1..Len(V(at.k)) /\ V(at.k)[x].type = "message" /\ V(at.k)[x].of \in cache
             /\ findFieldNumber(at.k, V(at.k)[x]) # 0
    <2>1. PICK v : v = V(at.k)[x]
      OBVIOUS
    <2>2. PICK z : z = findFieldNumber(at.k, v)
      OBVIOUS
    <2>3. Inside(at, x) = [k |-> v.of, p |-> Zone(at.p, Fields(at.k)[z])]
      BY <1>2, <2>1, <2>2, Zenon DEF Inside
    <2>4. v.of \in 0..N
      <3>1. at.k \in 1..N
        BY <1>0, <1>2
      <3>2. v \in Variable
        BY <1>2, <2>1, <3>1, VariableFacts
      <3> QED BY <3>2 DEF Variable
    <2>5. z \in 1..Len(Fields(at.k))
      BY <1>2, <2>1, <2>2 DEF findFieldNumber
    <2>6. Zone(at.p, Fields(at.k)[z]) \in Seq(Byte)
      BY <1>0, <2>5, OneOfFields, ZoneIsPacket
    <2> QED BY <2>3, <2>4, <2>6 DEF Places_
  <1> QED BY <1>1, <1>2

\* Whatever the path of an expression is, it finds a text.
LEMMA FoundIsText ==
    ASSUME NEW k \in 1..N, NEW p \in Seq(Byte), NEW get \in Seq(Nat \ {0}), get # <<>>
    PROVE  pushMessage(k, p, get) \in Text
  <1>1. PICK n \in Nat : n = Len(get) - 1
    BY EmptySeq
  <1> DEFINE start == [k |-> k, p |-> p]
             G == [x \in (1..n) \X Places_ |-> Inside(x[2], get[x[1]])]
             Is(g) == g = [j \in 0..n |-> IF j = 0 THEN start ELSE Inside(g[j - 1], get[j])]
  <1>2. start \in Places_
    BY FieldsFacts DEF Places_
  <1>3. G \in [(1..n) \X Places_ -> Places_]
    <2>1. ASSUME NEW x \in (1..n) \X Places_ PROVE Inside(x[2], get[x[1]]) \in Places_
      <3>1. x[2] \in Places_
        OBVIOUS
      <3> QED BY <3>1, InsideIsPlace
    <2> QED BY <2>1
  <1>4. PICK f : Steps(f, n, Places_, start, G)
    <2> HIDE DEF G, start
    <2> QED BY <1>2, <1>3, Recursion
  <1> HIDE DEF start
  <1>5. Is(f)
    <2>1. ASSUME NEW j \in 1..n PROVE f[j] = Inside(f[j - 1], get[j])
      <3>1. f[j - 1] \in Places_ /\ f[j] = G[<<j, f[j - 1]>>]
        <4> HIDE DEF G
        <4>1. j - 1 \in 0..n
          OBVIOUS
        <4> QED BY <1>4, <4>1 DEF Steps
      <3>2. <<j, f[j - 1]>> \in (1..n) \X Places_
        BY <3>1
      <3> QED BY <3>1, <3>2
    <2>2. DOMAIN f = 0..n /\ f[0] = start /\ f = [j \in 0..n |-> f[j]]
      BY <1>4 DEF Steps
    <2>3. ASSUME NEW j \in 0..n PROVE f[j] = IF j = 0 THEN start ELSE Inside(f[j - 1], get[j])
      <3>1. j # 0 => j \in 1..n
        OBVIOUS
      <3> QED BY <2>1, <2>2, <3>1, Zenon
    <2> QED BY <2>2, <2>3
  <1> DEFINE g == CHOOSE g_ : g_ = [j \in 0..n |-> IF j = 0 THEN start ELSE Inside(g_[j - 1], get[j])]
  <1>6. Is(g)
    BY <1>5
  <1> DEFINE last == get[Len(get)]
             Found(in) == CASE in.k = 0 -> Empty
                            [] in.k # 0 /\ last \in 1..Len(Fields(in.k)) -> pushField(in.p, Fields(in.k)[last], Inputs[in.k][last])
                            [] OTHER -> Undefined
  <1>7. pushMessage(k, p, get) = Found(g[n])
    BY <1>1, Zenon DEF pushMessage, start
  <1> HIDE DEF g
  <1>8. g[n] \in Places_
    <2>1. \A j \in 0..n : g[j] = IF j = 0 THEN start ELSE Inside(g[j - 1], get[j])
      BY <1>6
    <2>2. g[0] \in Places_
      BY <1>2, <2>1
    <2>3. ASSUME NEW j \in 1..n, g[j - 1] \in Places_ PROVE g[j] \in Places_
      <3>1. j \in 0..n /\ j # 0
        OBVIOUS
      <3>2. g[j] = Inside(g[j - 1], get[j])
        BY <2>1, <3>1, Zenon
      <3> QED BY <2>3, <3>2, InsideIsPlace
    <2>4. \A j \in 0..n : g[j] \in Places_
      BY <2>2, <2>3, StaysIn
    <2> QED BY <2>4
  <1>9. ASSUME NEW in \in Places_ PROVE Found(in) \in Text
    <2>0. in.k \in 0..N /\ in.p \in Seq(Byte)
      BY DEF Places_
    <2>1. CASE in.k = 0
      BY <2>1, Texts_
    <2>2. CASE in.k # 0 /\ last \in 1..Len(Fields(in.k))
      <3>1. in.k \in 1..N
        BY <2>0, <2>2, FieldsFacts
      <3>2. Fields(in.k)[last] \in Field
        BY <2>0, <2>2, OneOfFields
      <3>3. Inputs[in.k][last] \in {"uint", "int", "double", "string", "bytes", "none", "message"}
        BY <2>2, <3>1, InputFacts
      <3>4. pushField(in.p, Fields(in.k)[last], Inputs[in.k][last]) \in Text
        BY <2>0, <3>2, <3>3, FieldIsText
      <3> HIDE DEF last
      <3> QED BY <2>2, <3>4
    <2>3. CASE in.k # 0 /\ ~(last \in 1..Len(Fields(in.k)))
      <3> HIDE DEF last
      <3> QED BY <2>3, Texts_
    <2> QED BY <2>1, <2>2, <2>3
  <1> QED BY <1>7, <1>8, <1>9

-----------------------------------------------------------------------------
(* Sequences of sequences, joined.                                          *)

\* f[u] are the first u of some sequences, joined.
Joints(f, s, S) ==
    /\ f \in [0..Len(s) -> Seq(S)] /\ f[0] = <<>>
    /\ \A u \in 1..Len(s) : f[u] = f[u - 1] \o s[u]

\* FlattenSeq() is the last of them.
LEMMA Flattened ==
    ASSUME NEW S, NEW s \in Seq(Seq(S))
    PROVE  \E f : Joints(f, s, S) /\ FlattenSeq(s) = f[Len(s)]
  <1>1. PICK n \in Nat : n = Len(s)
    OBVIOUS
  <1>0. \A u \in 1..n : s[u] \in Seq(S)
    BY <1>1
  <1>2. CASE n = 0
    <2>1. s = <<>>
      BY <1>1, <1>2, EmptySeq
    <2>2. FlattenSeq(s) = s
      BY <1>1, <1>2 DEF FlattenSeq
    <2> DEFINE f == [u \in 0..0 |-> <<>>]
    <2>3. f \in [0..0 -> Seq(S)] /\ f[0] = <<>>
      OBVIOUS
    <2>4. Joints(f, s, S)
      BY <1>1, <1>2, <2>3 DEF Joints
    <2>5. FlattenSeq(s) = f[0]
      BY <2>1, <2>2, <2>3
    <2> HIDE DEF f
    <2> QED BY <1>1, <1>2, <2>4, <2>5
  <1>3. CASE n # 0
    <2> DEFINE Turn(h, u) == IF u = 1 THEN s[u] ELSE h[u - 1] \o s[u]
               Is(h, w) == h = [u \in 1..w |-> Turn(h, u)]
               P == {w \in Nat : \E h : Is(h, w)}
    <2>1. 0 \in P
      <3>1. Is([u \in 1..0 |-> 0], 0)
        OBVIOUS
      <3> QED BY <3>1
    <2>2. ASSUME NEW w \in Nat, w \in P PROVE w + 1 \in P
      <3>1. PICK h : Is(h, w)
        BY <2>2
      <3> DEFINE g == [u \in 1..(w + 1) |-> Turn(h, u)]
      <3>2. ASSUME NEW u \in 1..(w + 1) PROVE Turn(g, u) = Turn(h, u)
        <4>1. CASE u = 1
          BY <4>1
        <4>2. CASE u # 1
          <5>1. u - 1 \in 1..w /\ u - 1 \in 1..(w + 1)
            BY <4>2
          <5>2. h[u - 1] = Turn(h, u - 1) /\ g[u - 1] = Turn(h, u - 1)
            BY <3>1, <5>1
          <5>3. g[u - 1] = h[u - 1]
            BY <5>2
          <5> HIDE DEF g
          <5> QED BY <4>2, <5>3, Zenon
        <4> QED BY <4>1, <4>2
      <3>3. Is(g, w + 1)
        BY <3>2
      <3> HIDE DEF g, Is
      <3> QED BY <3>3
    <2>3. PICK h : Is(h, n)
      <3>1. \A w \in Nat : w \in P
        <4> HIDE DEF P
        <4> QED BY <2>1, <2>2, Induction
      <3> QED BY <3>1
    <2> DEFINE g == CHOOSE h_ : h_ = [u \in 1..n |-> IF u = 1 THEN s[u] ELSE h_[u - 1] \o s[u]]
    <2>4. FlattenSeq(s) = g[n]
      BY <1>1, <1>3 DEF FlattenSeq
    <2>5. Is(g, n)
      BY <2>3
    <2> HIDE DEF g
    <2>6. g[1] = s[1] /\ \A u \in 2..n : g[u] = g[u - 1] \o s[u]
      <3>1. \A u \in 1..n : g[u] = Turn(g, u)
        BY <2>5
      <3>2. 1 \in 1..n /\ Turn(g, 1) = s[1]
        BY <1>3
      <3>3. \A u \in 2..n : u \in 1..n /\ u # 1
        OBVIOUS
      <3>4. \A u \in 2..n : Turn(g, u) = g[u - 1] \o s[u]
        BY <3>3, Zenon
      <3> HIDE DEF Turn
      <3> QED BY <3>1, <3>2, <3>3, <3>4, Zenon
    <2>7. PICK f : f = [u \in 0..n |-> IF u = 0 THEN <<>> ELSE g[u]]
      OBVIOUS
    <2>8. DOMAIN f = 0..n /\ f[0] = <<>> /\ (\A u \in 1..n : f[u] = g[u]) /\ f = [u \in 0..n |-> f[u]]
      BY <2>7
    <2>9. ASSUME NEW u \in 1..n PROVE f[u] = f[u - 1] \o s[u]
      <3>1. CASE u = 1
        <4>1. u - 1 = 0 /\ s[u] \in Seq(S)
          BY <1>0, <3>1
        <4>2. <<>> \o s[u] = s[u]
          BY <4>1, ConcatEmptySeq
        <4> QED BY <2>6, <2>8, <3>1, <4>1, <4>2, Zenon
      <3>2. CASE u # 1
        <4>1. u \in 2..n /\ u - 1 \in 1..n
          BY <3>2
        <4> QED BY <2>6, <2>8, <4>1, Zenon
      <3> QED BY <3>1, <3>2
    <2> DEFINE Q == {w \in Nat : w <= n => f[w] \in Seq(S)}
    <2>10. 0 \in Q
      BY <2>8, EmptySeq
    <2>11. ASSUME NEW w \in Nat, w \in Q PROVE w + 1 \in Q
      <3> SUFFICES ASSUME w + 1 <= n PROVE f[w + 1] \in Seq(S)
        OBVIOUS
      <3>1. w + 1 \in 1..n /\ (w + 1) - 1 = w /\ f[w] \in Seq(S)
        BY <2>11
      <3>2. s[w + 1] \in Seq(S)
        BY <1>0, <3>1
      <3>3. f[w] \o s[w + 1] \in Seq(S)
        BY <3>1, <3>2, ConcatProperties
      <3>4. f[w + 1] = f[w] \o s[w + 1]
        BY <2>9, <3>1
      <3> QED BY <3>3, <3>4
    <2>12. \A w \in Nat : w \in Q
      <3> HIDE DEF Q
      <3> QED BY <2>10, <2>11, Induction
    <2>13. f \in [0..n -> Seq(S)]
      <3>1. \A u \in 0..n : f[u] \in Seq(S)
        BY <2>12
      <3> QED BY <2>8, <3>1
    <2>14. Joints(f, s, S)
      BY <1>1, <2>8, <2>9, <2>13, Zenon DEF Joints
    <2>15. FlattenSeq(s) = f[n]
      <3>1. n \in 1..n
        BY <1>3
      <3> QED BY <2>4, <2>8, <3>1, Zenon
    <2> QED BY <1>1, <2>14, <2>15, Zenon
  <1> QED BY <1>2, <1>3

\* Each of the sequences has its place in what they are joined to.
Placed(f, s) ==
    \A u \in 0..Len(s) : \A j \in 1..u :
        /\ Len(f[j]) = Len(f[j - 1]) + Len(s[j]) /\ Len(f[j]) <= Len(f[u])
        /\ \A k \in 1..Len(s[j]) : f[u][Len(f[j - 1]) + k] = s[j][k]

LEMMA Places ==
    ASSUME NEW S, NEW s \in Seq(Seq(S)), NEW f, Joints(f, s, S)
    PROVE  Placed(f, s)
  <1>1. PICK n \in Nat : n = Len(s)
    OBVIOUS
  <1>2. \A u \in 0..n : f[u] \in Seq(S) /\ Len(f[u]) \in Nat
    <2>1. \A u \in 0..n : f[u] \in Seq(S)
      BY <1>1 DEF Joints
    <2> QED BY <2>1
  <1>3. \A j \in 1..n : s[j] \in Seq(S) /\ Len(s[j]) \in Nat
    BY <1>1
  <1>4. ASSUME NEW j \in 1..n
        PROVE  /\ Len(f[j]) = Len(f[j - 1]) + Len(s[j])
               /\ \A k \in 1..Len(f[j - 1]) : f[j][k] = f[j - 1][k]
               /\ \A k \in 1..Len(s[j]) : f[j][Len(f[j - 1]) + k] = s[j][k]
    <2>1. PICK a \in Seq(S) : a = f[j - 1]
      BY <1>2
    <2>2. PICK b \in Seq(S) : b = s[j]
      BY <1>3
    <2>3. f[j] = a \o b
      BY <1>1, <2>1, <2>2 DEF Joints
    <2>4. /\ Len(a \o b) = Len(a) + Len(b) /\ Len(a) \in Nat /\ Len(b) \in Nat
          /\ \A k \in 1..(Len(a) + Len(b)) : (a \o b)[k] = IF k <= Len(a) THEN a[k] ELSE b[k - Len(a)]
      BY ConcatProperties
    <2>5. PICK c : c = a \o b
      OBVIOUS
    <2>6. PICK l \in Nat : l = Len(a)
      BY <2>4
    <2>7. \A k \in 1..l : c[k] = a[k]
      BY <2>4, <2>5, <2>6
    <2>8. ASSUME NEW k \in 1..Len(b) PROVE c[l + k] = b[k]
      <3>1. l + k \in 1..(l + Len(b)) /\ ~(l + k <= l) /\ (l + k) - l = k
        BY <2>4
      <3> QED BY <2>4, <2>5, <2>6, <3>1
    <2> QED BY <2>1, <2>2, <2>3, <2>4, <2>5, <2>6, <2>7, <2>8
  <1>5. PICK L : L = [u \in 0..n |-> Len(f[u])]
    OBVIOUS
  <1>6. PICK M : M = [j \in 1..n |-> Len(s[j])]
    OBVIOUS
  <1>7. /\ \A u \in 0..n : L[u] \in Nat /\ L[u] = Len(f[u])
        /\ \A j \in 1..n : M[j] \in Nat /\ M[j] = Len(s[j])
    BY <1>2, <1>3, <1>5, <1>6
  <1>8. \A j \in 1..n : /\ L[j] = L[j - 1] + M[j]
                        /\ \A k \in 1..L[j - 1] : f[j][k] = f[j - 1][k]
                        /\ \A k \in 1..M[j] : f[j][L[j - 1] + k] = s[j][k]
    <2> SUFFICES ASSUME NEW j \in 1..n
                 PROVE  /\ L[j] = L[j - 1] + M[j]
                        /\ \A k \in 1..L[j - 1] : f[j][k] = f[j - 1][k]
                        /\ \A k \in 1..M[j] : f[j][L[j - 1] + k] = s[j][k]
      OBVIOUS
    <2>1. j \in 0..n /\ j - 1 \in 0..n
      OBVIOUS
    <2>2. L[j] = Len(f[j]) /\ L[j - 1] = Len(f[j - 1]) /\ M[j] = Len(s[j])
      BY <1>7, <2>1
    <2> QED BY <1>4, <2>2, Zenon
  <1> DEFINE Right(u, j) == L[j] <= L[u] /\ \A k \in 1..M[j] : f[u][L[j - 1] + k] = s[j][k]
             P == {u \in Nat : u <= n => \A j \in 1..u : Right(u, j)}
  <1>9. 0 \in P
    OBVIOUS
  <1>10. ASSUME NEW u \in Nat, u \in P PROVE u + 1 \in P
    <2> HIDE DEF Right
    <2> SUFFICES ASSUME u + 1 <= n, NEW j \in 1..(u + 1) PROVE Right(u + 1, j)
      OBVIOUS
    <2> USE DEF Right
    <2>1. /\ u + 1 \in 1..n /\ (u + 1) - 1 = u /\ u \in 0..n /\ u + 1 \in 0..n
          /\ j \in 0..n /\ j - 1 \in 0..n /\ j \in 1..n
      OBVIOUS
    <2>2. L[u + 1] = L[u] + M[u + 1] /\ \A k \in 1..L[u] : f[u + 1][k] = f[u][k]
      BY <1>8, <2>1
    <2>3. CASE j = u + 1
      <3>1. L[u + 1] <= L[u + 1]
        BY <1>7, <2>1
      <3> QED BY <1>8, <2>1, <2>3, <3>1
    <2>4. CASE j # u + 1
      <3>1. j \in 1..u /\ u <= n
        BY <2>4
      <3>2. Right(u, j)
        BY <1>10, <3>1
      <3>3. L[j] <= L[u + 1]
        BY <1>7, <2>1, <2>2, <3>2
      <3>4. ASSUME NEW k \in 1..M[j] PROVE f[u + 1][L[j - 1] + k] = s[j][k]
        <4>1. L[j] = L[j - 1] + M[j]
          BY <1>8, <2>1
        <4>2. L[j - 1] + k \in 1..L[u]
          BY <1>7, <2>1, <3>2, <4>1
        <4> QED BY <2>2, <3>2, <4>2
      <3> QED BY <3>3, <3>4
    <2> QED BY <2>3, <2>4
  <1>11. \A u \in Nat : u \in P
    <2> HIDE DEF P
    <2> QED BY <1>9, <1>10, Induction
  <1> SUFFICES ASSUME NEW u \in 0..n, NEW j \in 1..u
               PROVE  /\ Len(f[j]) = Len(f[j - 1]) + Len(s[j]) /\ Len(f[j]) <= Len(f[u])
                      /\ \A k \in 1..Len(s[j]) : f[u][Len(f[j - 1]) + k] = s[j][k]
    BY <1>1, Zenon DEF Placed
  <1>12. u \in Nat /\ u <= n /\ j \in 1..n /\ j \in 0..n /\ j - 1 \in 0..n
    OBVIOUS
  <1>13. Right(u, j)
    BY <1>11, <1>12
  <1>14. L[j] = L[j - 1] + M[j]
    BY <1>8, <1>12
  <1> QED BY <1>7, <1>12, <1>13, <1>14

LEMMA ParsedIsHeld ==
    ASSUME NEW type \in Numeric \cup {"string", "bytes"}, NEW t \in Text
    PROVE  parse(type, t) \in Held(type)
  <1>1. CASE type = "string"
    <2>1. type \notin Numeric
      BY <1>1 DEF Numeric
    <2> QED BY <1>1, <2>1 DEF parse, Held
  <1>2. CASE type = "bytes"
    <2>1. type \notin Numeric
      BY <1>2 DEF Numeric
    <2> QED BY <1>2, <2>1, Texts_ DEF parse, Held
  <1>3. CASE type = "bool"
    <2>1. type \in Numeric /\ SizeOf[type] = 1
      BY <1>3 DEF Numeric, SizeOf
    <2>2. Span[1] = Base
      <3>1. 1 \in 1..Width /\ 1 - 1 = 0
        OBVIOUS
      <3> QED BY <3>1, SpanFacts
    <2>3. 0 \in 0..(Base - 1) /\ 1 \in 0..(Base - 1)
      OBVIOUS
    <2>4. Held(type) = {Number(n) : n \in 0..(Base - 1)}
      BY <2>1, <2>2, Zenon DEF Held
    <2>5. parse(type, t) = Number(0) \/ parse(type, t) = Number(1)
      BY <1>3 DEF parse
    <2> QED BY <2>3, <2>4, <2>5
  <1>4. CASE type \notin {"string", "bytes", "bool"}
    <2>1. type \in Numeric
      BY <1>4
    <2>2. PICK h \in Nat \ {0} : h = Span[SizeOf[type]]
      <3>1. SizeOf[type] \in 0..Width
        BY <2>1, Sizes
      <3> QED BY <3>1, SpanFacts
    <2>3. Held(type) = {Number(n) : n \in 0..(h - 1)}
      BY <2>1, <2>2, Zenon DEF Held
    <2>4. parse(type, t) = Number(IF isNumber(t) THEN t.n % h ELSE 0)
      BY <1>4, <2>2 DEF parse
    <2>5. t.n % h \in 0..(h - 1) /\ 0 \in 0..(h - 1)
      BY <2>2 DEF Text, Empty
    <2> QED BY <2>3, <2>4, <2>5
  <1> QED BY <1>1, <1>2, <1>3, <1>4

-----------------------------------------------------------------------------
(* The scalars of a message.                                                *)

Scalars == {x \in [of : 1..N, f : Nat] : x.f \in 1..Len(V(x.of)) /\ V(x.of)[x.f].type # "message"}

\* What the fields of j add, if prev says what the messages embedded in it have.
Piece(prev, once, j, f) ==
    CASE V(j)[f].type = "message" /\ (once \/ ~V(j)[f].repeated) -> prev[V(j)[f].of]
      [] V(j)[f].type # "message" /\ ~V(j)[f].repeated -> <<[of |-> j, f |-> f]>>
      [] OTHER -> <<>>

Pieces(prev, once, j) == [f \in 1..Len(V(j)) |-> Piece(prev, once, j, f)]

Level(prev, once) == [j \in 1..N |-> FlattenSeq(Pieces(prev, once, j))]

LEMMA EmbeddedOf ==
    ASSUME NEW j \in 1..N, NEW f \in 1..Len(V(j)), V(j)[f].type = "message"
    PROVE  V(j)[f].of \in 1..N
  <1>1. PICK rank \in [1..N -> 1..N] : \A k \in 1..N : \A g \in 1..Len(V(k)) :
          V(k)[g].type = "message" => V(k)[g].of \in 1..N /\ rank[V(k)[g].of] < rank[k]
    BY VariablesAssumption, Zenon
  <1> QED BY <1>1, Zenon

LEMMA PiecesType ==
    ASSUME NEW prev \in [1..N -> Seq(Scalars)], NEW once \in BOOLEAN, NEW j \in 1..N
    PROVE  Pieces(prev, once, j) \in Seq(Seq(Scalars)) /\ Len(Pieces(prev, once, j)) = Len(V(j))
  <1>1. ASSUME NEW f \in 1..Len(V(j)) PROVE Piece(prev, once, j, f) \in Seq(Scalars)
    <2>1. CASE V(j)[f].type = "message" /\ (once \/ ~V(j)[f].repeated)
      <3>1. prev[V(j)[f].of] \in Seq(Scalars)
        BY <2>1, EmbeddedOf
      <3>2. Piece(prev, once, j, f) = prev[V(j)[f].of]
        BY <2>1, Zenon DEF Piece
      <3> QED BY <3>1, <3>2
    <2>2. CASE V(j)[f].type # "message" /\ ~V(j)[f].repeated
      <3>1. [of |-> j, f |-> f] \in Scalars
        <4>1. f \in Nat
          BY VariableFacts
        <4> QED BY <2>2, <4>1 DEF Scalars
      <3>2. Piece(prev, once, j, f) = <<[of |-> j, f |-> f]>>
        BY <2>2, Zenon DEF Piece
      <3>3. PICK x \in Scalars : x = [of |-> j, f |-> f]
        BY <3>1
      <3>4. <<x>> \in Seq(Scalars)
        OBVIOUS
      <3> QED BY <3>2, <3>3, <3>4, Zenon
    <2>3. CASE ~(V(j)[f].type = "message" /\ (once \/ ~V(j)[f].repeated)) /\ ~(V(j)[f].type # "message" /\ ~V(j)[f].repeated)
      <3>1. Piece(prev, once, j, f) = <<>>
        BY <2>3, Zenon DEF Piece
      <3>2. <<>> \in Seq(Scalars)
        OBVIOUS
      <3> QED BY <3>1, <3>2, Zenon
    <2> QED BY <2>1, <2>2, <2>3
  <1>2. Len(V(j)) \in Nat
    BY VariableFacts
  <1>3. PICK n \in Nat : n = Len(V(j))
    BY <1>2
  <1>4. PICK T : T = Seq(Scalars)
    OBVIOUS
  <1>5. PICK s : s = Pieces(prev, once, j)
    OBVIOUS
  <1>6. s = [f \in 1..n |-> Piece(prev, once, j, f)] /\ \A f \in 1..n : Piece(prev, once, j, f) \in T
    BY <1>1, <1>3, <1>4, <1>5, Zenon DEF Pieces
  <1>7. s \in Seq(T) /\ Len(s) = n
    <2>1. s \in [1..n -> T]
      BY <1>6
    <2> QED BY <2>1, SeqDef, LenProperties
  <1> QED BY <1>3, <1>4, <1>5, <1>7, Zenon

LEMMA LevelType ==
    ASSUME NEW prev \in [1..N -> Seq(Scalars)], NEW once \in BOOLEAN
    PROVE  Level(prev, once) \in [1..N -> Seq(Scalars)]
  <1>1. ASSUME NEW j \in 1..N PROVE FlattenSeq(Pieces(prev, once, j)) \in Seq(Scalars)
    <2>1. PICK s \in Seq(Seq(Scalars)) : s = Pieces(prev, once, j)
      BY PiecesType
    <2>2. PICK f : Joints(f, s, Scalars) /\ FlattenSeq(s) = f[Len(s)]
      BY Flattened
    <2>3. Len(s) \in 0..Len(s)
      OBVIOUS
    <2>4. f[Len(s)] \in Seq(Scalars)
      BY <2>2, <2>3 DEF Joints
    <2> QED BY <2>1, <2>2, <2>4, Zenon
  <1> QED BY <1>1 DEF Level

\* What one of the pieces holds, the message holds.
LEMMA PieceIsIn ==
    ASSUME NEW S, NEW s \in Seq(Seq(S)), NEW u \in 1..Len(s), NEW x \in S, s[u] = <<x>>
    PROVE  \E j \in 1..Len(FlattenSeq(s)) : FlattenSeq(s)[j] = x
  <1>1. PICK f : Joints(f, s, S) /\ FlattenSeq(s) = f[Len(s)]
    BY Flattened
  <1>2. Placed(f, s)
    BY <1>1, Places
  <1>3. PICK n \in Nat : n = Len(s) /\ n \in 0..n /\ u \in 1..n /\ u - 1 \in 0..n
    OBVIOUS
  <1>4. PICK t \in Seq(S) : t = f[u - 1]
    BY <1>1, <1>3 DEF Joints
  <1>5. PICK e \in Seq(S) : e = f[n]
    BY <1>1, <1>3 DEF Joints
  <1>6. /\ Len(f[u]) = Len(t) + Len(s[u]) /\ Len(f[u]) <= Len(e)
        /\ \A k \in 1..Len(s[u]) : e[Len(t) + k] = s[u][k]
    BY <1>2, <1>3, <1>4, <1>5, Zenon DEF Placed
  <1>7. Len(s[u]) = 1 /\ s[u][1] = x
    OBVIOUS
  <1>8. PICK a \in Nat, b \in Nat : a = Len(t) /\ b = Len(e)
    OBVIOUS
  <1>9. a + 1 <= b
    BY <1>6, <1>7, <1>8
  <1>10. a + 1 \in 1..b /\ 1 \in 1..1
    BY <1>9
  <1>11. e[a + 1] = x
    BY <1>6, <1>7, <1>8, <1>10
  <1>12. FlattenSeq(s) = e
    BY <1>1, <1>3, <1>5, Zenon
  <1> QED BY <1>8, <1>10, <1>11, <1>12, Zenon

Forests == [1..N -> Seq(Scalars)]
Bare == [j \in 1..N |-> <<>>]

Levels(to, once) ==
    /\ \A d \in 0..N : to[d] \in Forests
    /\ to[0] = Bare
    /\ \A d \in 1..N : to[d] = Level(to[d - 1], once)

\* Visited() goes N levels down.
LEMMA VisitedIs ==
    ASSUME NEW once \in BOOLEAN
    PROVE  \E to : Levels(to, once) /\ \A k \in 1..N : Visited(k, once) = to[N][k]
  <1>0. N \in Nat
    BY FieldsFacts
  <1>1. Bare \in Forests
    <2>1. <<>> \in Seq(Scalars)
      OBVIOUS
    <2> QED BY <2>1 DEF Bare, Forests
  <1> DEFINE G == [x \in (1..N) \X Forests |-> Level(x[2], once)]
             Next_(g, d) == [j \in 1..N |-> IF d = 0 THEN <<>>
                                  ELSE FlattenSeq([f \in 1..Len(V(j)) |->
                CASE V(j)[f].type = "message" /\ (once \/ ~V(j)[f].repeated) -> g[d - 1][V(j)[f].of]
                  [] V(j)[f].type # "message" /\ ~V(j)[f].repeated -> <<[of |-> j, f |-> f]>>
                  [] OTHER -> <<>>])]
             Is(g) == g = [d \in 0..N |-> Next_(g, d)]
  <1>2. G \in [(1..N) \X Forests -> Forests]
    <2>1. ASSUME NEW x \in (1..N) \X Forests PROVE Level(x[2], once) \in Forests
      <3>1. x[2] \in Forests
        OBVIOUS
      <3> QED BY <3>1, LevelType DEF Forests
    <2> QED BY <2>1
  <1>3. PICK f : Steps(f, N, Forests, Bare, G)
    <2> HIDE DEF G
    <2> QED BY <1>0, <1>1, <1>2, Recursion
  <1>4. ASSUME NEW g, NEW d \in 1..N PROVE Next_(g, d) = Level(g[d - 1], once)
    <2>1. d # 0
      BY <1>0
    <2> QED BY <2>1, Zenon DEF Level, Pieces, Piece
  <1>5. ASSUME NEW g PROVE Next_(g, 0) = Bare
    BY Zenon DEF Bare
  <1> HIDE DEF Next_
  <1>6. Is(f)
    <2>1. ASSUME NEW d \in 1..N PROVE f[d] = Level(f[d - 1], once)
      <3>1. f[d - 1] \in Forests /\ f[d] = G[<<d, f[d - 1]>>]
        <4> HIDE DEF G
        <4>1. d - 1 \in 0..N
          BY <1>0
        <4> QED BY <1>3, <4>1 DEF Steps
      <3>2. <<d, f[d - 1]>> \in (1..N) \X Forests
        BY <3>1
      <3> QED BY <3>1, <3>2
    <2>2. DOMAIN f = 0..N /\ f[0] = Bare /\ f = [d \in 0..N |-> f[d]]
      BY <1>3 DEF Steps
    <2>3. ASSUME NEW d \in 0..N PROVE f[d] = Next_(f, d)
      <3>1. d # 0 => d \in 1..N
        BY <1>0
      <3> QED BY <1>4, <1>5, <2>1, <2>2, <3>1, Zenon
    <2> QED BY <2>2, <2>3
  <1> DEFINE g == CHOOSE g_ : g_ = [d \in 0..N |-> [j \in 1..N |-> IF d = 0 THEN <<>>
                                  ELSE FlattenSeq([ff \in 1..Len(V(j)) |->
                CASE V(j)[ff].type = "message" /\ (once \/ ~V(j)[ff].repeated) -> g_[d - 1][V(j)[ff].of]
                  [] V(j)[ff].type # "message" /\ ~V(j)[ff].repeated -> <<[of |-> j, f |-> ff]>>
                  [] OTHER -> <<>>])]]
  <1>7. \A k \in 1..N : Visited(k, once) = g[N][k]
    BY Zenon DEF Visited
  <1>8. Is(g)
    BY <1>6, Zenon DEF Next_
  <1> HIDE DEF g
  <1>9. \A d \in 0..N : g[d] = Next_(g, d)
    BY <1>8
  <1>10. g[0] = Bare /\ \A d \in 1..N : g[d] = Level(g[d - 1], once)
    <2>1. 0 \in 0..N /\ \A d \in 1..N : d \in 0..N
      BY <1>0
    <2> QED BY <1>4, <1>5, <1>9, <2>1, Zenon
  <1>11. \A d \in 0..N : g[d] \in Forests
    <2>1. ASSUME NEW d \in 1..N, g[d - 1] \in Forests PROVE g[d] \in Forests
      BY <1>10, <2>1, LevelType DEF Forests
    <2>2. g[0] \in Forests
      BY <1>1, <1>10
    <2> QED BY <1>0, <2>1, <2>2, StaysIn
  <1>12. Levels(g, once)
    BY <1>10, <1>11, Zenon DEF Levels
  <1> QED BY <1>7, <1>12

LEMMA VisitedType ==
    ASSUME NEW k \in 1..N, NEW once \in BOOLEAN
    PROVE  Visited(k, once) \in Seq(Scalars)
  <1>1. PICK to : Levels(to, once) /\ Visited(k, once) = to[N][k]
    BY VisitedIs
  <1>2. N \in 0..N
    BY FieldsFacts
  <1>3. to[N] \in Forests
    BY <1>1, <1>2 DEF Levels
  <1> QED BY <1>1, <1>3 DEF Forests

\* Every scalar of the message itself that is not repeated is visited.
LEMMA VisitedHas ==
    ASSUME NEW k \in 1..N, NEW once \in BOOLEAN, NEW f \in 1..Len(V(k)),
           V(k)[f].type # "message", ~V(k)[f].repeated
    PROVE  \E j \in 1..Len(Visited(k, once)) : Visited(k, once)[j] = [of |-> k, f |-> f]
  <1>1. PICK to : Levels(to, once) /\ Visited(k, once) = to[N][k]
    BY VisitedIs
  <1>2. N \in 1..N /\ N - 1 \in 0..N
    BY FieldsFacts
  <1>3. PICK prev \in Forests : to[N] = Level(prev, once)
    BY <1>1, <1>2 DEF Levels
  <1>4. PICK s \in Seq(Seq(Scalars)) : s = Pieces(prev, once, k) /\ Len(s) = Len(V(k))
    BY PiecesType DEF Forests
  <1>5. Visited(k, once) = FlattenSeq(s)
    <2>1. Level(prev, once)[k] = FlattenSeq(s)
      BY <1>4 DEF Level
    <2> QED BY <1>1, <1>3, <2>1, Zenon
  <1>6. PICK x : x = [of |-> k, f |-> f]
    OBVIOUS
  <1>7. s[f] = <<x>>
    <2>1. Piece(prev, once, k, f) = <<x>>
      BY <1>6, Zenon DEF Piece
    <2>2. Pieces(prev, once, k)[f] = Piece(prev, once, k, f)
      BY DEF Pieces
    <2> QED BY <1>4, <2>1, <2>2, Zenon
  <1>8. x \in Scalars
    <2>1. f \in Nat
      BY VariableFacts
    <2> QED BY <1>6, <2>1 DEF Scalars
  <1>9. \E j \in 1..Len(FlattenSeq(s)) : FlattenSeq(s)[j] = x
    <2>1. f \in 1..Len(s)
      BY <1>4, Zenon
    <2> QED BY <1>7, <1>8, <2>1, PieceIsIn
  <1> QED BY <1>5, <1>6, <1>9, Zenon

\* If nothing is repeated it does not matter how often it would be visited.
LEMMA VisitedOnce ==
    ASSUME NEW k \in 1..N, Single(k)
    PROVE  Visited(k, TRUE) = Visited(k, FALSE)
  <1>0. N \in Nat
    BY FieldsFacts
  <1>1. PICK S \in SUBSET (1..N) :
          /\ k \in S
          /\ \A j \in S : \A f \in 1..Len(V(j)) : ~V(j)[f].repeated /\ (V(j)[f].type = "message" => V(j)[f].of \in S)
    BY DEF Single
  <1>2. PICK t : Levels(t, TRUE) /\ Visited(k, TRUE) = t[N][k]
    BY VisitedIs
  <1>3. PICK u : Levels(u, FALSE) /\ Visited(k, FALSE) = u[N][k]
    BY VisitedIs
  <1> DEFINE P == {d \in Nat : d <= N => \A j \in S : t[d][j] = u[d][j]}
  <1>4. 0 \in P
    BY <1>0, <1>2, <1>3 DEF Levels
  <1>5. ASSUME NEW d \in Nat, d \in P PROVE d + 1 \in P
    <2> SUFFICES ASSUME d + 1 <= N, NEW j \in S PROVE t[d + 1][j] = u[d + 1][j]
      OBVIOUS
    <2>1. d + 1 \in 1..N /\ (d + 1) - 1 = d /\ d <= N /\ j \in 1..N
      BY <1>0
    <2>2. PICK a : a = t[d]
      OBVIOUS
    <2>3. PICK b : b = u[d]
      OBVIOUS
    <2>4. t[d + 1] = Level(a, TRUE) /\ u[d + 1] = Level(b, FALSE)
      BY <1>2, <1>3, <2>1, <2>2, <2>3 DEF Levels
    <2>5. \A h \in S : a[h] = b[h]
      BY <1>5, <2>1, <2>2, <2>3
    <2>6. ASSUME NEW f \in 1..Len(V(j)) PROVE Piece(a, TRUE, j, f) = Piece(b, FALSE, j, f)
      <3>1. ~V(j)[f].repeated /\ (V(j)[f].type = "message" => V(j)[f].of \in S)
        BY <1>1
      <3>2. CASE V(j)[f].type = "message"
        <4>1. Piece(a, TRUE, j, f) = a[V(j)[f].of] /\ Piece(b, FALSE, j, f) = b[V(j)[f].of]
          BY <3>1, <3>2, Zenon DEF Piece
        <4> QED BY <2>5, <3>1, <3>2, <4>1, Zenon
      <3>3. CASE V(j)[f].type # "message"
        <4>1. Piece(a, TRUE, j, f) = <<[of |-> j, f |-> f]>> /\ Piece(b, FALSE, j, f) = <<[of |-> j, f |-> f]>>
          BY <3>1, <3>3, Zenon DEF Piece
        <4> QED BY <4>1, Zenon
      <3> QED BY <3>2, <3>3
    <2>7. Pieces(a, TRUE, j) = Pieces(b, FALSE, j)
      BY <2>6 DEF Pieces
    <2>8. Level(a, TRUE)[j] = Level(b, FALSE)[j]
      BY <2>1, <2>7 DEF Level
    <2> QED BY <2>4, <2>8, Zenon
  <1>6. \A d \in Nat : d \in P
    <2> HIDE DEF P
    <2> QED BY <1>4, <1>5, Induction
  <1>7. t[N][k] = u[N][k]
    BY <1>0, <1>1, <1>6
  <1> QED BY <1>2, <1>3, <1>7, Zenon

LEMMA HeldIsText == \A type : Held(type) \subseteq Text
  <1> SUFFICES ASSUME NEW type, NEW t \in Held(type) PROVE t \in Text
    OBVIOUS
  <1>1. CASE type \in Numeric
    <2>1. PICK h \in Nat : h = Span[SizeOf[type]]
      <3>1. SizeOf[type] \in 0..Width
        BY <1>1, Sizes
      <3> QED BY <3>1, SpanFacts
    <2>2. Held(type) = {Number(n) : n \in 0..(h - 1)}
      BY <1>1, <2>1, Zenon DEF Held
    <2>3. PICK n \in 0..(h - 1) : t = Number(n)
      BY <2>2
    <2>4. n \in Int
      BY <2>3
    <2> QED BY <2>3, <2>4, Texts_
  <1>2. CASE type \notin Numeric
    BY <1>2 DEF Held
  <1> QED BY <1>1, <1>2

LEMMA ScalarType ==
    ASSUME NEW x \in Scalars
    PROVE  /\ x.of \in 1..N /\ x.f \in Nat /\ x.f \in 1..Len(V(x.of)) /\ V(x.of)[x.f].type # "message"
           /\ V(x.of)[x.f].type \in Numeric \cup {"string", "bytes"}
           /\ V(x.of)[x.f].get \in Seq(Nat \ {0}) /\ V(x.of)[x.f].get # <<>>
           /\ V(x.of)[x.f].hidden \in BOOLEAN /\ V(x.of)[x.f].index \in Nat
           /\ x = [of |-> x.of, f |-> x.f]
  <1>1. /\ x.of \in 1..N /\ x.f \in Nat /\ x.f \in 1..Len(V(x.of)) /\ V(x.of)[x.f].type # "message"
        /\ x = [of |-> x.of, f |-> x.f]
    BY DEF Scalars
  <1>2. V(x.of)[x.f] \in Variable
    BY <1>1, VariableFacts
  <1> QED BY <1>1, <1>2 DEF Variable

LEMMA ComposedConforms ==
    ASSUME NEW k \in 1..N, NEW p \in Seq(Byte)
    PROVE  Conforms([of |-> k, leaves |-> compose(k, p)])
  <1>1. PICK S \in Seq(Scalars) : S = Visited(k, TRUE)
    BY VisitedType
  <1>2. PICK n \in Nat : n = Len(S)
    OBVIOUS
  <1>3. PICK C : C = compose(k, p)
    OBVIOUS
  <1>4. C = [j \in 1..n |-> composeField(S[j].of, S[j].f, k, p)]
    BY <1>1, <1>2, <1>3, Zenon DEF compose
  <1> DEFINE T(x) == parse(V(x.of)[x.f].type, oncomposefield(x.of, x.f, k, p))
             R == [of : 1..N, f : Nat, val : Text]
  <1>5. ASSUME NEW j \in 1..n
        PROVE  /\ S[j] \in Scalars /\ C[j] = [of |-> S[j].of, f |-> S[j].f, val |-> T(S[j])]
               /\ T(S[j]) \in Held(V(S[j].of)[S[j].f].type)
    <2>1. S[j] \in Scalars
      BY <1>2
    <2>2. C[j] = composeField(S[j].of, S[j].f, k, p)
      BY <1>4
    <2>3. oncomposefield(S[j].of, S[j].f, k, p) \in Text
      <3>1. pushMessage(k, p, V(S[j].of)[S[j].f].get) \in Text
        BY <2>1, ScalarType, FoundIsText
      <3> QED BY <3>1, Texts_ DEF oncomposefield, extractVariable
    <2>4. T(S[j]) \in Held(V(S[j].of)[S[j].f].type)
      BY <2>1, <2>3, ScalarType, ParsedIsHeld
    <2> QED BY <2>1, <2>2, <2>4, Zenon DEF composeField, Leaf
  <1>6. ASSUME NEW j \in 1..n
        PROVE  /\ C[j] \in R /\ C[j].f \in 1..Len(V(C[j].of)) /\ V(C[j].of)[C[j].f].type # "message"
               /\ C[j].val \in Held(V(C[j].of)[C[j].f].type)
               /\ [of |-> C[j].of, f |-> C[j].f] = S[j]
    <2>1. PICK x \in Scalars : x = S[j]
      BY <1>5
    <2>2. PICK t : t = T(x) /\ t \in Held(V(x.of)[x.f].type)
      BY <1>5, <2>1
    <2>3. C[j] = [of |-> x.of, f |-> x.f, val |-> t]
      BY <1>5, <2>1, <2>2, Zenon
    <2>4. t \in Text
      BY <2>2, HeldIsText
    <2>5. C[j] \in R /\ C[j].of = x.of /\ C[j].f = x.f /\ C[j].val = t
      <3> HIDE DEF T
      <3> QED BY <2>3, <2>4, ScalarType
    <2> HIDE DEF T
    <2>6. C[j].f \in 1..Len(V(C[j].of)) /\ V(C[j].of)[C[j].f].type # "message"
      BY <2>5, ScalarType
    <2>7. [of |-> C[j].of, f |-> C[j].f] = x
      BY <2>5, ScalarType
    <2> QED BY <2>1, <2>2, <2>5, <2>6, <2>7, Zenon
  <1>7. C \in Seq(R) /\ Len(C) = n
    <2>1. C \in [1..n -> R]
      <3> HIDE DEF R, T
      <3> QED BY <1>4, <1>6
    <2> HIDE DEF R
    <2> QED BY <2>1, SeqDef, LenProperties
  <1>8. ASSUME NEW f \in 1..Len(V(k)), V(k)[f].type # "message", ~V(k)[f].repeated
        PROVE  \E j \in 1..n : C[j].of = k /\ C[j].f = f
    <2>1. PICK j \in 1..n : S[j] = [of |-> k, f |-> f]
      <3>1. \E j \in 1..Len(Visited(k, TRUE)) : Visited(k, TRUE)[j] = [of |-> k, f |-> f]
        BY <1>8, VisitedHas
      <3> QED BY <1>1, <1>2, <3>1, Zenon
    <2>2. [of |-> C[j].of, f |-> C[j].f] = [of |-> k, f |-> f]
      BY <1>6, <2>1, Zenon
    <2> QED BY <2>2
  <1>9. Single(k) => [j \in 1..n |-> [of |-> C[j].of, f |-> C[j].f]] = Visited(k, FALSE)
    <2> SUFFICES ASSUME Single(k) PROVE [j \in 1..n |-> [of |-> C[j].of, f |-> C[j].f]] = Visited(k, FALSE)
      OBVIOUS
    <2>1. [j \in 1..n |-> [of |-> C[j].of, f |-> C[j].f]] = [j \in 1..n |-> S[j]]
      BY <1>6
    <2>2. S = [j \in 1..n |-> S[j]]
      BY <1>2
    <2>3. S = Visited(k, FALSE)
      BY <1>1, VisitedOnce
    <2> QED BY <2>1, <2>2, <2>3, Zenon
  <1>10. PICK mm : mm = [of |-> k, leaves |-> C]
    OBVIOUS
  <1>11. mm.of = k /\ mm.leaves = C
    BY <1>10
  <1> HIDE DEF T
  <1>12. Conforms(mm)
    BY <1>6, <1>7, <1>8, <1>9, <1>11, Zenon DEF Conforms
  <1> QED BY <1>3, <1>10, <1>12, Zenon

-----------------------------------------------------------------------------
(* Indexes.                                                                 *)

\* Numbers with a bound have a greatest.
LEMMA Greatest ==
    ASSUME NEW K, K \subseteq Nat, K # {}, NEW b \in Nat, \A x \in K : x <= b
    PROVE  \E a \in K : \A x \in K : x <= a
  <1> DEFINE L == {b - x : x \in K}
  <1>1. L \subseteq Nat /\ L # {}
    <2>1. ASSUME NEW x \in K PROVE b - x \in Nat
      <3>1. x \in Nat /\ x <= b
        OBVIOUS
      <3> QED BY <3>1
    <2> QED BY <2>1
  <1>2. PICK c \in L : \A y \in L : c <= y
    <2> HIDE DEF L
    <2> QED BY <1>1, Least
  <1>3. PICK a \in K : c = b - a
    OBVIOUS
  <1>4. ASSUME NEW x \in K PROVE x <= a
    <2>1. b - x \in L
      OBVIOUS
    <2>2. b - a <= b - x
      BY <1>2, <1>3, <2>1
    <2> QED BY <2>2
  <1> QED BY <1>4

LEMMA LastIndexIs ==
    ASSUME NEW k \in 1..N
    PROVE  LastIndex(k) \in Nat
  <1>1. PICK n \in Nat : n = Len(V(k))
    BY VariableFacts
  <1>2. \A f \in 1..n : V(k)[f].index \in Nat
    <2>1. \A f \in 1..n : V(k)[f] \in Variable
      BY <1>1, VariableFacts
    <2> QED BY <2>1 DEF Variable
  <1> DEFINE P == {h \in Nat : h <= n => \E b \in Nat : \A f \in 1..h : V(k)[f].index <= b}
  <1>3. 0 \in P
    OBVIOUS
  <1>4. ASSUME NEW h \in Nat, h \in P PROVE h + 1 \in P
    <2> SUFFICES ASSUME h + 1 <= n PROVE \E b \in Nat : \A f \in 1..(h + 1) : V(k)[f].index <= b
      OBVIOUS
    <2>1. PICK b \in Nat : \A f \in 1..h : V(k)[f].index <= b
      BY <1>4
    <2>2. PICK c \in Nat : c = V(k)[h + 1].index
      BY <1>2
    <2>3. ASSUME NEW f \in 1..(h + 1) PROVE V(k)[f].index <= b + c
      <3>1. CASE f = h + 1
        BY <2>2, <3>1
      <3>2. CASE f # h + 1
        <4>1. f \in 1..h /\ f \in 1..n
          BY <3>2
        <4> QED BY <1>2, <2>1, <4>1
      <3> QED BY <3>1, <3>2
    <2>4. b + c \in Nat
      OBVIOUS
    <2> QED BY <2>3, <2>4
  <1>5. PICK b \in Nat : \A f \in 1..n : V(k)[f].index <= b
    <2>1. n \in P
      <3> HIDE DEF P
      <3> QED BY <1>3, <1>4, Induction
    <2> QED BY <2>1
  <1>6. PICK K : K = IndexesOf(k)
    OBVIOUS
  <1>7. K \subseteq Nat /\ \A x \in K : x <= b
    BY <1>1, <1>2, <1>5, <1>6 DEF IndexesOf
  <1>8. CASE K = {}
    BY <1>6, <1>8 DEF LastIndex
  <1>9. CASE K # {}
    <2>1. \E a \in K : \A x \in K : x <= a
      BY <1>7, <1>9, Greatest
    <2>2. LastIndex(k) = CHOOSE x \in K : \A y \in K : y <= x
      BY <1>6, <1>9, Zenon DEF LastIndex
    <2>3. LastIndex(k) \in K
      BY <2>1, <2>2, Zenon
    <2> QED BY <1>7, <2>3
  <1> QED BY <1>8, <1>9

LEMMA GetIndexIs ==
    ASSUME NEW k \in 1..N, NEW f
    PROVE  getIndex(k, f) \in Nat
  <1>1. PICK K : K = {n \in 1..LastIndex(k) : k \in cache /\ keyIndexes(k)[n] = f}
    OBVIOUS
  <1>2. K \subseteq Nat
    BY <1>1, LastIndexIs
  <1>3. CASE K = {}
    BY <1>1, <1>3 DEF getIndex
  <1>4. CASE K # {}
    <2>1. \E a \in K : \A x \in K : a <= x
      BY <1>2, <1>4, Least
    <2>2. getIndex(k, f) = CHOOSE n \in K : \A o \in K : n <= o
      BY <1>1, <1>4, Zenon DEF getIndex
    <2>3. getIndex(k, f) \in K
      BY <2>1, <2>2, Zenon
    <2> QED BY <1>2, <2>3
  <1> QED BY <1>3, <1>4

-----------------------------------------------------------------------------
(* The way of a message.                                                    *)

LEMMA ValuesKeepSearch == ValuesSpec => Spec
  <1>1. ValuesInit => Init
    BY DEF ValuesInit
  <1>2. [ValuesNext]_<<vars, valueVars>> => [Next]_vars
    BY DEF ValuesNext
  <1> QED BY <1>1, <1>2, PTL DEF ValuesSpec, Spec

\* What addFieldValueString() adds for a scalar.
ValueOf(l) ==
    [index |-> IndexOf(l), type |-> V(l.of)[l.f].type, hidden |-> V(l.of)[l.f].hidden,
     field |-> <<l.of, l.f>>, value |-> Shown(l)]

Decomposed(m_, n) == [j \in 1..n |-> ValueOf(m_.leaves[j])]

\* No two values claim one index.
Distinct(m_) ==
    \A j, h \in 1..Len(m_.leaves) :
        IndexOf(m_.leaves[j]) # 0 /\ IndexOf(m_.leaves[j]) = IndexOf(m_.leaves[h]) => j = h

\* I is index2values after n of the values.
IndexesRight(m_, n, I) ==
    /\ I \in Seq(Nat) /\ Len(I) >= 1 /\ I[1] = Ids[m_.of]
    /\ \A j \in 1..n : IndexOf(m_.leaves[j]) # 0 =>
          /\ IndexOf(m_.leaves[j]) + 1 <= Len(I)
          /\ Distinct(m_) => I[IndexOf(m_.leaves[j]) + 1] = j - 1
    /\ Len(I) = 1 \/ \E j \in 1..n : IndexOf(m_.leaves[j]) # 0 /\ IndexOf(m_.leaves[j]) + 1 = Len(I)

InHand == stage \in {"composed", "read", "adding", "written"} => message.of \in 1..N /\ Conforms(message)

OnBus ==
    stage = "sent" =>
        /\ frame.body \in Seq([of : 1..N, f : Nat, val : Text]) => frame.message_size = Len(frame.body)
        /\ frame.message_type \in 1..N => Conforms([of |-> frame.message_type, leaves |-> frame.body])

Added ==
    stage \in {"adding", "written"} =>
        \E n \in 0..Len(message.leaves) :
            /\ values = Decomposed(message, n) /\ IndexesRight(message, n, index2values)
            /\ stage = "written" => n = Len(message.leaves)

Put_ ==
    stage = "written" =>
        /\ mode = "sql" => output = toStringInsert
        /\ mode = "sql2" => output = toStringInsert2

VInv == InHand /\ OnBus /\ Added /\ Put_

LEMMA ConformsType ==
    ASSUME NEW m_, Conforms(m_)
    PROVE  /\ m_.leaves \in Seq([of : 1..N, f : Nat, val : Text]) /\ Len(m_.leaves) \in Nat
           /\ \A j \in 1..Len(m_.leaves) : m_.leaves[j] \in [of : 1..N, f : Nat, val : Text]
  <1> DEFINE R == [of : 1..N, f : Nat, val : Text]
  <1>1. m_.leaves \in Seq(R)
    BY DEF Conforms
  <1> HIDE DEF R
  <1>2. PICK s \in Seq(R) : s = m_.leaves
    BY <1>1
  <1>3. Len(s) \in Nat /\ \A j \in 1..Len(s) : s[j] \in R
    OBVIOUS
  <1>4. m_.leaves \in Seq(R) /\ Len(m_.leaves) \in Nat /\ \A j \in 1..Len(m_.leaves) : m_.leaves[j] \in R
    BY <1>2, <1>3
  <1> QED BY <1>4 DEF R

LEMMA SameIndexes ==
    ASSUME cache' = cache, NEW m_, NEW n, NEW I
    PROVE  /\ Decomposed(m_, n)' = Decomposed(m_, n)
           /\ IndexesRight(m_, n, I)' <=> IndexesRight(m_, n, I)
  <1>1. \A l : IndexOf(l)' = IndexOf(l)
    BY DEF IndexOf, getIndex
  <1>2. \A l : Shown(l)' = Shown(l)
    BY DEF Shown, format
  <1>3. \A l : ValueOf(l)' = ValueOf(l)
    BY <1>1, <1>2 DEF ValueOf
  <1>4. Decomposed(m_, n)' = Decomposed(m_, n)
    BY <1>3 DEF Decomposed
  <1>5. Distinct(m_)' <=> Distinct(m_)
    BY <1>1 DEF Distinct
  <1>6. IndexesRight(m_, n, I)' <=> IndexesRight(m_, n, I)
    BY <1>1, <1>5 DEF IndexesRight
  <1> QED BY <1>4, <1>6

LEMMA InitVInv == ValuesInit => VInv
  BY DEF ValuesInit, VInv, InHand, OnBus, Added, Put_

\* The steps up to the decomposition.
LEMMA SearchVInv == stage = "none" /\ UNCHANGED valueVars => VInv'
  BY DEF valueVars, VInv, InHand, OnBus, Added, Put_

LEMMA HandledVInv == Handled => VInv'
  BY DEF Handled, VInv, InHand, OnBus, Added, Put_

LEMMA ComposeVInv ==
    ASSUME TypeOK, FirstThatFits, parsePacket
    PROVE  VInv'
  <1>1. result \in 1..N /\ data \in Seq(Byte)
    BY DEF TypeOK, FirstThatFits, parsePacket
  <1>2. PICK c : c = [of |-> result, leaves |-> compose(result, data)]
    OBVIOUS
  <1>3. stage' = "composed" /\ message' = c
    BY <1>2, Zenon DEF parsePacket
  <1>4. c.of = result
    BY <1>2
  <1>5. Conforms(c)
    BY <1>1, <1>2, ComposedConforms
  <1> QED BY <1>1, <1>3, <1>4, <1>5 DEF VInv, InHand, OnBus, Added, Put_

LEMMA SendVInv ==
    ASSUME VInv, stringDelimitedMessage
    PROVE  VInv'
  <1>1. message.of \in 1..N /\ Conforms(message) /\ stage' = "sent"
    BY DEF stringDelimitedMessage, VInv, InHand
  <1>2. PICK c : c = [of |-> message.of, leaves |-> message.leaves]
    OBVIOUS
  <1>3. Conforms(c)
    <2>1. c.of = message.of /\ c.leaves = message.leaves
      BY <1>2
    <2> QED BY <1>1, <2>1 DEF Conforms
  <1>4. /\ frame'.message_type = message.of /\ frame'.message_size = Len(message.leaves)
        /\ frame'.body = message.leaves
    BY DEF stringDelimitedMessage
  <1> QED BY <1>1, <1>2, <1>3, <1>4, Zenon DEF VInv, InHand, OnBus, Added, Put_

LEMMA OtherVInv ==
    ASSUME NEW o \in Others, OtherSends(o)
    PROVE  VInv'
  <1>1. stage' = "sent"
    BY DEF OtherSends
  <1>2. /\ frame'.message_type = o.of /\ frame'.message_size = Len(o.leaves)
        /\ frame'.body = o.leaves
    BY DEF OtherSends
  <1>3. PICK c : c = [of |-> o.of, leaves |-> o.leaves]
    OBVIOUS
  <1>4. o.of \in 1..N => Conforms(c)
    <2>1. c.of = o.of /\ c.leaves = o.leaves
      BY <1>3
    <2>2. o.of \in 1..N => Conforms(o)
      BY OthersAssumption, Zenon
    <2> QED BY <2>1, <2>2 DEF Conforms
  <1> QED BY <1>1, <1>2, <1>3, <1>4, Zenon DEF VInv, InHand, OnBus, Added, Put_

LEMMA ReadVInv ==
    ASSUME VInv, readDelimitedMessage
    PROVE  VInv'
  <1>1. CASE frame.message_type \notin 1..N
    BY <1>1 DEF readDelimitedMessage, VInv, InHand, OnBus, Added, Put_
  <1>2. CASE frame.message_type \in 1..N
    <2>1. PICK c : c = [of |-> frame.message_type, leaves |-> frame.body]
      OBVIOUS
    <2>2. c.of = frame.message_type /\ c.leaves = frame.body
      BY <2>1
    <2>3. Conforms(c)
      BY <1>2, <2>1, Zenon DEF VInv, OnBus, readDelimitedMessage
    <2> DEFINE R == [of : 1..N, f : Nat, val : Text]
    <2>4. c.leaves \in Seq(R) /\ frame.message_size = Len(c.leaves)
      BY <2>2, <2>3, ConformsType, Zenon DEF VInv, OnBus, readDelimitedMessage
    <2> HIDE DEF R
    <2>5. SubSeq(frame.body, 1, frame.message_size) = c.leaves
      BY <2>2, <2>4, SubSeqFull
    <2>6. message' = c /\ stage' = "read"
      BY <1>2, <2>1, <2>2, <2>5, Zenon DEF readDelimitedMessage
    <2> QED BY <1>2, <2>2, <2>3, <2>6 DEF VInv, InHand, OnBus, Added, Put_
  <1> QED BY <1>1, <1>2

LEMMA DecomposeVInv ==
    ASSUME VInv, Decompose, UNCHANGED vars
    PROVE  VInv'
  <1>0. cache' = cache
    BY DEF vars
  <1>1. message' = message /\ message.of \in 1..N /\ Conforms(message) /\ stage' \in {"adding", "stuck"}
    BY DEF Decompose, VInv, InHand
  <1>2. values' = <<>> /\ index2values' = <<Ids[message.of]>>
    BY DEF Decompose, getMessageId
  <1>3. InHand'
    BY <1>1 DEF InHand
  <1>4. PICK c : c = message
    OBVIOUS
  <1>5. PICK I : I = <<Ids[c.of]>>
    OBVIOUS
  <1>6. I \in Seq(Nat) /\ Len(I) = 1 /\ I[1] = Ids[c.of]
    <2>1. PICK d \in Nat : d = Ids[c.of]
      BY <1>1, <1>4, IdsAssumption
    <2> QED BY <1>5, <2>1
  <1>7. IndexesRight(c, 0, I)
    BY <1>6 DEF IndexesRight
  <1>8. Decomposed(c, 0) = <<>>
    BY DEF Decomposed
  <1>9. Added'
    <2>1. 0 \in 0..Len(c.leaves)
      BY <1>1, <1>4, ConformsType
    <2>2. Decomposed(c, 0)' = <<>> /\ IndexesRight(c, 0, I)'
      BY <1>0, <1>7, <1>8, SameIndexes
    <2>3. message' = c /\ values' = <<>> /\ index2values' = I /\ stage' # "written"
      BY <1>1, <1>2, <1>4, <1>5
    <2> QED BY <2>1, <2>2, <2>3 DEF Added
  <1> QED BY <1>1, <1>3, <1>9 DEF VInv, OnBus, Put_

LEMMA FunctionIsSeq ==
    ASSUME NEW n \in Nat, NEW S, NEW f \in [1..n -> S]
    PROVE  f \in Seq(S) /\ Len(f) = n
  BY SeqDef, LenProperties

\* The numbers after two numbers.
LEMMA Successors ==
    ASSUME NEW y \in Nat, NEW d \in Nat, NEW l \in Nat, NEW q \in Nat, y + 1 <= l, q >= l
    PROVE  y + 1 \in 1..q /\ (y # d => y + 1 # d + 1)
  OBVIOUS

\* One more value: index2values grows if need be, and points at it.
LEMMA OneMore ==
    ASSUME NEW c, NEW n, NEW I, c.of \in 1..N, Conforms(c), n \in Nat, n < Len(c.leaves), IndexesRight(c, n, I),
           NEW d, d = IndexOf(c.leaves[n + 1]), NEW J,
           J = IF d = 0 THEN I
               ELSE [h \in 1..(IF d + 1 > Len(I) THEN d + 1 ELSE Len(I)) |->
                        CASE h = d + 1 -> n
                          [] h # d + 1 /\ h <= Len(I) -> I[h]
                          [] OTHER -> 0]
    PROVE  IndexesRight(c, n + 1, J)
  <1>1. PICK N1 \in Nat : N1 = Len(c.leaves)
    BY ConformsType
  <1>2. PICK L : L = c.leaves
    OBVIOUS
  <1>3. \A j \in 1..N1 : IndexOf(L[j]) \in Nat
    <2> SUFFICES ASSUME NEW j \in 1..N1 PROVE IndexOf(L[j]) \in Nat
      OBVIOUS
    <2>1. L[j] \in [of : 1..N, f : Nat, val : Text]
      BY <1>1, <1>2, ConformsType
    <2>2. L[j].of \in 1..N
      BY <2>1
    <2> QED BY <2>2, GetIndexIs DEF IndexOf
  <1>4. n + 1 \in 1..N1 /\ d \in Nat
    BY <1>1, <1>2, <1>3
  <1>5. PICK l \in Nat : l = Len(I) /\ l >= 1
    <2>1. I \in Seq(Nat) /\ Len(I) >= 1
      BY Zenon DEF IndexesRight
    <2> QED BY <2>1
  <1>6. PICK x : x = [j \in 1..N1 |-> IndexOf(L[j])]
    OBVIOUS
  <1>7. \A j \in 1..N1 : x[j] = IndexOf(L[j]) /\ x[j] \in Nat
    BY <1>3, <1>6
  <1>8. /\ I \in Seq(Nat) /\ I[1] = Ids[c.of]
        /\ \A j \in 1..n : x[j] # 0 => x[j] + 1 <= l /\ (Distinct(c) => I[x[j] + 1] = j - 1)
        /\ l = 1 \/ \E j \in 1..n : x[j] # 0 /\ x[j] + 1 = l
    <2>1. \A j \in 1..n : j \in 1..N1
      BY <1>1
    <2> QED BY <1>2, <1>5, <1>7, <2>1, Zenon DEF IndexesRight
  <1>9. Distinct(c) => \A j, h \in 1..N1 : x[j] # 0 /\ x[j] = x[h] => j = h
    <2> SUFFICES ASSUME Distinct(c), NEW j \in 1..N1, NEW h \in 1..N1, x[j] # 0, x[j] = x[h] PROVE j = h
      OBVIOUS
    <2>1. x[j] = IndexOf(c.leaves[j]) /\ x[h] = IndexOf(c.leaves[h])
      BY <1>2, <1>7
    <2>2. j \in 1..Len(c.leaves) /\ h \in 1..Len(c.leaves)
      BY <1>1
    <2> QED BY <2>1, <2>2, Zenon DEF Distinct
  <1>10. d = x[n + 1]
    BY <1>2, <1>4, <1>7
  <1>11. CASE d = 0
    <2>1. J = I
      BY <1>11
    <2>2. \A j \in 1..(n + 1) : x[j] # 0 => j \in 1..n
      <3> SUFFICES ASSUME NEW j \in 1..(n + 1), x[j] # 0 PROVE j \in 1..n
        OBVIOUS
      <3>1. j # n + 1
        BY <1>10, <1>11
      <3> QED BY <3>1
    <2>3. \A j \in 1..n : j \in 1..(n + 1)
      OBVIOUS
    <2>4. /\ \A j \in 1..(n + 1) : x[j] # 0 => x[j] + 1 <= l /\ (Distinct(c) => I[x[j] + 1] = j - 1)
          /\ l = 1 \/ \E j \in 1..(n + 1) : x[j] # 0 /\ x[j] + 1 = l
      BY <1>8, <2>2, <2>3, Zenon
    <2>5. \A j \in 1..(n + 1) : j \in 1..N1
      BY <1>4
    <2>6. Len(J) >= 1 /\ J \in Seq(Nat) /\ J[1] = Ids[c.of] /\ Len(J) = l
      BY <1>5, <1>8, <2>1
    <2> QED BY <1>2, <1>7, <2>1, <2>4, <2>5, <2>6, Zenon DEF IndexesRight
  <1>12. CASE d # 0
    <2>1. PICK q \in Nat : q = (IF d + 1 > l THEN d + 1 ELSE l) /\ q >= l /\ q >= d + 1 /\ (q = l \/ q = d + 1) /\ q >= 1
      BY <1>4, <1>5, SMTT(40)
    <2>2. J = [h \in 1..q |-> CASE h = d + 1 -> n
                                [] h # d + 1 /\ h <= l -> I[h]
                                [] OTHER -> 0]
      BY <1>5, <1>12, <2>1, Zenon
    <2>3. /\ DOMAIN J = 1..q /\ J[d + 1] = n
          /\ \A h \in 1..q : h # d + 1 /\ h <= l => J[h] = I[h]
          /\ \A h \in 1..q : h # d + 1 /\ ~(h <= l) => J[h] = 0
      <3>1. d + 1 \in 1..q
        BY <1>4, <2>1
      <3> QED BY <2>2, <3>1
    <2>4. ASSUME NEW h \in 1..q PROVE J[h] \in Nat
      <3>1. h # d + 1 /\ h <= l => I[h] \in Nat
        BY <1>5, <1>8
      <3>2. h = d + 1 => J[h] = n
        BY <2>3
      <3>3. (h # d + 1 /\ h <= l => J[h] = I[h]) /\ (h # d + 1 /\ ~(h <= l) => J[h] = 0)
        BY <2>3, Zenon
      <3>4. n \in Nat /\ 0 \in Nat
        OBVIOUS
      <3> QED BY <3>1, <3>2, <3>3, <3>4, Zenon
    <2>5. J \in Seq(Nat) /\ Len(J) = q
      <3>1. J \in [1..q -> Nat]
        BY <2>2, <2>4
      <3>2. PICK T : T = Nat
        OBVIOUS
      <3>3. J \in [1..q -> T]
        BY <3>1, <3>2
      <3>4. J \in Seq(T) /\ Len(J) = q
        BY <3>3, FunctionIsSeq
      <3> QED BY <3>2, <3>4
    <2>6. J[1] = Ids[c.of]
      <3>1. 1 \in 1..q /\ 1 # d + 1 /\ 1 <= l
        BY <1>4, <1>5, <1>12, <2>1
      <3> QED BY <1>8, <2>3, <3>1
    <2>7. ASSUME NEW j \in 1..(n + 1), x[j] # 0
          PROVE  x[j] + 1 <= q /\ (Distinct(c) => J[x[j] + 1] = j - 1)
      <3>1. CASE j = n + 1
        <4>1. (n + 1) - 1 = n
          OBVIOUS
        <4> QED BY <1>10, <2>1, <2>3, <3>1, <4>1
      <3>2. CASE j # n + 1
        <4>1. j \in 1..n /\ j \in 1..N1
          BY <1>4, <3>2
        <4>2. x[j] \in Nat /\ x[j] + 1 <= l /\ (Distinct(c) => I[x[j] + 1] = j - 1)
          BY <1>7, <1>8, <2>7, <4>1
        <4>3. Distinct(c) => x[j] # d
          BY <1>4, <1>9, <1>10, <2>7, <3>2, <4>1
        <4>4. PICK y \in Nat : y = x[j]
          BY <4>2
        <4>5. y + 1 \in 1..q /\ (y # d => y + 1 # d + 1)
          <5>1. y + 1 <= l /\ q >= l
            BY <2>1, <4>2, <4>4, Zenon
          <5>2. d \in Nat /\ l \in Nat /\ y \in Nat /\ q \in Nat
            BY <1>4, <1>5
          <5> QED BY <5>1, <5>2, Successors, Zenon
        <4>6. y # d => J[y + 1] = I[y + 1]
          <5>1. y + 1 <= l
            BY <4>2, <4>4
          <5> QED BY <2>3, <4>5, <5>1, Zenon
        <4>7. y + 1 <= q
          BY <4>5
        <4> QED BY <4>2, <4>3, <4>4, <4>6, <4>7, Zenon
      <3> QED BY <3>1, <3>2
    <2>8. q = 1 \/ \E j \in 1..(n + 1) : x[j] # 0 /\ x[j] + 1 = q
      <3>1. CASE q = d + 1
        <4>1. n + 1 \in 1..(n + 1)
          OBVIOUS
        <4> QED BY <1>10, <1>12, <3>1, <4>1
      <3>2. CASE q = l
        <4>1. \A j \in 1..n : j \in 1..(n + 1)
          OBVIOUS
        <4> QED BY <1>8, <3>2, <4>1
      <3> QED BY <2>1, <3>1, <3>2
    <2>9. \A j \in 1..(n + 1) : j \in 1..N1
      BY <1>4
    <2>10. /\ \A j \in 1..(n + 1) : IndexOf(L[j]) # 0 =>
                IndexOf(L[j]) + 1 <= Len(J) /\ (Distinct(c) => J[IndexOf(L[j]) + 1] = j - 1)
           /\ Len(J) = 1 \/ \E j \in 1..(n + 1) : IndexOf(L[j]) # 0 /\ IndexOf(L[j]) + 1 = Len(J)
      BY <1>7, <2>5, <2>7, <2>8, <2>9, Zenon
    <2>11. Len(J) >= 1
      BY <2>1, <2>5
    <2> QED BY <1>2, <2>5, <2>6, <2>10, <2>11, Zenon DEF IndexesRight
  <1> QED BY <1>11, <1>12

\* One more value, in values.
LEMMA OneMoreValue ==
    ASSUME NEW c, NEW n \in Nat
    PROVE  /\ Append(Decomposed(c, n), ValueOf(c.leaves[n + 1])) = Decomposed(c, n + 1)
           /\ Len(Decomposed(c, n)) = n
  <1> DEFINE S == {ValueOf(c.leaves[j]) : j \in 1..(n + 1)}
  <1>1. PICK s : s = Decomposed(c, n)
    OBVIOUS
  <1>2. PICK e : e = ValueOf(c.leaves[n + 1])
    OBVIOUS
  <1>3. s = [j \in 1..n |-> ValueOf(c.leaves[j])]
    BY <1>1 DEF Decomposed
  <1>4. s \in [1..n -> S] /\ e \in S
    <2>1. \A j \in 1..n : ValueOf(c.leaves[j]) \in S
      <3>1. \A j \in 1..n : j \in 1..(n + 1)
        OBVIOUS
      <3> QED BY <3>1
    <2>2. n + 1 \in 1..(n + 1)
      OBVIOUS
    <2>3. e \in S
      BY <1>2, <2>2
    <2> HIDE DEF S
    <2> QED BY <1>3, <2>1, <2>3
  <1> HIDE DEF S
  <1>5. s \in Seq(S) /\ Len(s) = n
    BY <1>4, FunctionIsSeq
  <1>6. PICK t : t = Append(s, e)
    OBVIOUS
  <1>7. t \in Seq(S) /\ Len(t) = n + 1 /\ t[n + 1] = e /\ \A j \in 1..n : t[j] = s[j]
    BY <1>4, <1>5, <1>6, AppendProperties
  <1>8. ASSUME NEW j \in 1..(n + 1) PROVE t[j] = ValueOf(c.leaves[j])
    <2>1. CASE j = n + 1
      BY <1>2, <1>7, <2>1, Zenon
    <2>2. CASE j # n + 1
      <3>1. j \in 1..n
        BY <2>2
      <3>2. s[j] = ValueOf(c.leaves[j])
        BY <1>3, <3>1
      <3> QED BY <1>7, <3>1, <3>2, Zenon
    <2> QED BY <2>1, <2>2
  <1>9. t = [j \in 1..(n + 1) |-> ValueOf(c.leaves[j])]
    <2>1. t = [j \in 1..(n + 1) |-> t[j]]
      BY <1>7
    <2> QED BY <1>8, <2>1
  <1> QED BY <1>1, <1>2, <1>5, <1>6, <1>9, Zenon DEF Decomposed

LEMMA AddVInv ==
    ASSUME VInv, addFieldValueString, UNCHANGED vars
    PROVE  VInv'
  <1>0. cache' = cache /\ stage = "adding" /\ stage' = "adding" /\ message' = message
    BY DEF vars, addFieldValueString
  <1>1. message.of \in 1..N /\ Conforms(message)
    BY <1>0 DEF VInv, InHand
  <1>2. PICK c : c = message
    OBVIOUS
  <1>3. PICK n \in 0..Len(c.leaves) : values = Decomposed(c, n) /\ IndexesRight(c, n, index2values)
    BY <1>0, <1>2 DEF VInv, Added
  <1>4. Len(c.leaves) \in Nat /\ n \in Nat
    BY <1>1, <1>2, <1>3, ConformsType
  <1>5. Len(values) = n
    BY <1>3, <1>4, OneMoreValue
  <1>6. n < Len(c.leaves)
    BY <1>2, <1>5 DEF addFieldValueString
  <1>7. PICK l : l = c.leaves[n + 1]
    OBVIOUS
  <1>8. PICK d : d = IndexOf(l)
    OBVIOUS
  <1>9. PICK I : I = index2values
    OBVIOUS
  <1>10. PICK J : J = IF d = 0 THEN I
               ELSE [h \in 1..(IF d + 1 > Len(I) THEN d + 1 ELSE Len(I)) |->
                        CASE h = d + 1 -> n
                          [] h # d + 1 /\ h <= Len(I) -> I[h]
                          [] OTHER -> 0]
    OBVIOUS
  <1>11. index2values' = J
    <2>1. index2values' = Indexed(d)
      BY <1>2, <1>5, <1>7, <1>8, Zenon DEF addFieldValueString, IndexOf
    <2>2. Indexed(d) = J
      BY <1>5, <1>9, <1>10, Zenon DEF Indexed
    <2> QED BY <2>1, <2>2, Zenon
  <1>12. values' = Append(values, ValueOf(l))
    BY <1>2, <1>5, <1>7, Zenon DEF addFieldValueString, ValueOf, IndexOf
  <1>13. values' = Decomposed(c, n + 1)
    BY <1>3, <1>4, <1>7, <1>12, OneMoreValue, Zenon
  <1>14. IndexesRight(c, n + 1, J)
    <2>1. c.of \in 1..N /\ Conforms(c) /\ IndexesRight(c, n, I) /\ d = IndexOf(c.leaves[n + 1])
      BY <1>1, <1>2, <1>3, <1>7, <1>8, <1>9, Zenon
    <2> HIDE <1>11
    <2> QED BY <1>4, <1>6, <1>10, <2>1, OneMore
  <1>15. Decomposed(c, n + 1)' = Decomposed(c, n + 1) /\ IndexesRight(c, n + 1, J)'
    BY <1>0, <1>14, SameIndexes
  <1>16. n + 1 \in 0..Len(c.leaves)
    BY <1>4, <1>6
  <1>17. Added'
    <2>1. message' = c /\ stage' # "written"
      BY <1>0, <1>2
    <2> QED BY <1>11, <1>13, <1>15, <1>16, <2>1, Zenon DEF Added
  <1>18. InHand'
    BY <1>0, <1>1 DEF InHand
  <1> QED BY <1>0, <1>17, <1>18 DEF VInv, OnBus, Put_

LEMMA PutVInv ==
    ASSUME VInv, NEW how, NEW text, Put(how, text), UNCHANGED vars,
           how = "sql" => text = toStringInsert, how = "sql2" => text = toStringInsert2
    PROVE  VInv'
  <1>0. /\ cache' = cache /\ stage = "adding" /\ stage' = "written" /\ message' = message
        /\ values' = values /\ index2values' = index2values /\ mode' = how /\ output' = text
        /\ Len(values) = Len(message.leaves)
    BY DEF vars, Put
  <1>1. message.of \in 1..N /\ Conforms(message)
    BY <1>0 DEF VInv, InHand
  <1>2. PICK c : c = message
    OBVIOUS
  <1>3. PICK n \in 0..Len(c.leaves) : values = Decomposed(c, n) /\ IndexesRight(c, n, index2values)
    BY <1>0, <1>2 DEF VInv, Added
  <1>4. Len(c.leaves) \in Nat /\ n \in Nat
    BY <1>1, <1>2, <1>3, ConformsType
  <1>5. n = Len(c.leaves)
    BY <1>0, <1>2, <1>3, <1>4, OneMoreValue
  <1>6. PICK I : I = index2values
    OBVIOUS
  <1>7. Decomposed(c, n)' = Decomposed(c, n) /\ IndexesRight(c, n, I)'
    BY <1>0, <1>3, <1>6, SameIndexes
  <1>8. Added'
    <2>1. message' = c /\ index2values' = I /\ values' = Decomposed(c, n)
      BY <1>0, <1>2, <1>3, <1>6
    <2> QED BY <1>5, <1>7, <2>1, Zenon DEF Added
  <1>9. InHand'
    BY <1>0, <1>1 DEF InHand
  <1>10. toStringInsert' = toStringInsert
    BY <1>0 DEF toStringInsert
  <1>11. toStringInsert2' = toStringInsert2
    BY <1>0, ZenonT(40) DEF toStringInsert2, IsIndexed
  <1>12. Put_'
    BY <1>0, <1>10, <1>11 DEF Put_
  <1> QED BY <1>0, <1>8, <1>9, <1>12 DEF VInv, OnBus

LEMMA StepVInv == TypeOK /\ FirstThatFits /\ VInv /\ [ValuesNext]_<<vars, valueVars>> => VInv'
  <1> SUFFICES ASSUME TypeOK, FirstThatFits, VInv, [ValuesNext]_<<vars, valueVars>> PROVE VInv'
    OBVIOUS
  <1>1. CASE stage = "none" /\ Next /\ UNCHANGED valueVars
    BY <1>1, SearchVInv
  <1>2. CASE parsePacket
    BY <1>2, ComposeVInv
  <1>3. CASE stringDelimitedMessage
    BY <1>3, SendVInv
  <1>4. CASE readDelimitedMessage
    BY <1>4, ReadVInv
  <1>5. CASE \E m_ \in Others : OtherSends(m_)
    BY <1>5, OtherVInv
  <1>6. CASE Decompose /\ UNCHANGED vars
    BY <1>6, DecomposeVInv
  <1>7. CASE addFieldValueString /\ UNCHANGED vars
    BY <1>7, AddVInv
  <1>8. CASE put_sql /\ UNCHANGED vars
    <2>1. PICK t : t = toStringInsert
      OBVIOUS
    <2>2. Put("sql", t)
      BY <1>8, <2>1 DEF put_sql
    <2> QED BY <1>8, <2>1, <2>2, PutVInv
  <1>9. CASE put_sql2 /\ UNCHANGED vars
    <2>1. PICK t : t = toStringInsert2
      OBVIOUS
    <2>2. Put("sql2", t)
      BY <1>9, <2>1 DEF put_sql2
    <2> QED BY <1>9, <2>1, <2>2, PutVInv
  <1>10. CASE put_json /\ UNCHANGED vars
    <2>1. PICK t : t = toStringJSON
      OBVIOUS
    <2>2. Put("json", t)
      BY <1>10, <2>1 DEF put_json
    <2> QED BY <1>10, <2>1, <2>2, PutVInv
  <1>11. CASE put_csv /\ UNCHANGED vars
    <2>1. PICK t : t = toStringCSV
      OBVIOUS
    <2>2. Put("csv", t)
      BY <1>11, <2>1 DEF put_csv
    <2> QED BY <1>11, <2>1, <2>2, PutVInv
  <1>12. CASE put_tab /\ UNCHANGED vars
    <2>1. PICK t : t = toStringTab
      OBVIOUS
    <2>2. Put("tab", t)
      BY <1>12, <2>1 DEF put_tab
    <2> QED BY <1>12, <2>1, <2>2, PutVInv
  <1>13. CASE Handled
    BY <1>13, HandledVInv
  <1>14. CASE UNCHANGED <<vars, valueVars>>
    <2>0. /\ cache' = cache /\ stage' = stage /\ message' = message /\ frame' = frame
          /\ values' = values /\ index2values' = index2values /\ mode' = mode /\ output' = output
      BY <1>14 DEF vars, valueVars
    <2>1. InHand' /\ OnBus'
      BY <2>0 DEF VInv, InHand, OnBus
    <2>2. toStringInsert' = toStringInsert
      BY <2>0 DEF toStringInsert
    <2>3. toStringInsert2' = toStringInsert2
      BY <2>0, Zenon DEF toStringInsert2, IsIndexed
    <2>4. Put_'
      BY <2>0, <2>2, <2>3 DEF VInv, Put_
    <2>5. PICK c : c = message
      OBVIOUS
    <2>6. PICK I : I = index2values
      OBVIOUS
    <2>7. Added'
      <3> SUFFICES ASSUME stage \in {"adding", "written"} PROVE Added'
        BY <2>0 DEF Added
      <3>1. PICK n \in 0..Len(c.leaves) : /\ values = Decomposed(c, n) /\ IndexesRight(c, n, I)
                                          /\ stage = "written" => n = Len(c.leaves)
        BY <2>5, <2>6 DEF VInv, Added
      <3>2. Decomposed(c, n)' = Decomposed(c, n) /\ IndexesRight(c, n, I)'
        BY <2>0, <3>1, SameIndexes
      <3>3. message' = c /\ index2values' = I /\ values' = values /\ stage' = stage
        BY <2>0, <2>5, <2>6
      <3> QED BY <3>1, <3>2, <3>3, Zenon DEF Added
    <2> QED BY <2>1, <2>4, <2>7 DEF VInv
  <1> QED BY <1>1, <1>2, <1>3, <1>4, <1>5, <1>6, <1>7, <1>8, <1>9, <1>10, <1>11, <1>12, <1>13, <1>14 DEF ValuesNext

LEMMA ValuesInvariance == ValuesSpec => []VInv
  <1>1. ValuesSpec => []TypeOK /\ []FirstThatFits
    BY ValuesKeepSearch, MatchTypes, SearchIsExact, PTL
  <1> QED BY <1>1, InitVInv, StepVInv, PTL DEF ValuesSpec

-----------------------------------------------------------------------------
(* Keys.                                                                    *)

\* The bytes of a text tell it.
LEMMA SpeltTells ==
    ASSUME NEW t \in Text, NEW v \in Text, Spelt(t) = Spelt(v)
    PROVE  t = v
  <1> DEFINE Kind(x) == IF x.is = "empty" THEN 0 ELSE IF ~isNumber(x) THEN 4 ELSE IF x.n < Base THEN 1 ELSE 2
  <1>0. ASSUME NEW x \in Text
        PROVE  /\ x.is \in {"number", "false", "word", "empty"} /\ x.n \in Int /\ x.b64 \in Nat
               /\ x.is = "empty" => x = Empty
               /\ x = [is |-> x.is, n |-> x.n, b64 |-> x.b64]
    BY DEF Text, Empty
  <1>1. ASSUME NEW x \in Text
        PROVE  /\ Len(Spelt(x)) = Kind(x)
               /\ Kind(x) = 0 => x = Empty
               /\ Kind(x) = 1 => Spelt(x)[1] = x.n /\ x = Number(x.n)
               /\ Kind(x) = 2 => Spelt(x)[1] = x.n \div Base /\ Spelt(x)[2] = x.n % Base /\ x = Number(x.n)
               /\ Kind(x) = 4 => /\ Spelt(x)[1] = (IF x.is = "number" THEN 1 ELSE 0)
                                 /\ Spelt(x)[2] = (IF x.is = "word" THEN 1 ELSE 0)
                                 /\ Spelt(x)[3] = x.n /\ Spelt(x)[4] = x.b64
    <2>0. /\ x.is \in {"number", "false", "word", "empty"} /\ x.n \in Int /\ x.b64 \in Nat
          /\ x.is = "empty" => x = Empty
          /\ x = [is |-> x.is, n |-> x.n, b64 |-> x.b64]
      BY <1>0
    <2>1. CASE x.is = "empty"
      <3>1. Spelt(x) = <<>>
        BY <2>1 DEF Spelt, isNumber
      <3>2. Kind(x) = 0
        BY <2>1
      <3>3. Len(<<>>) = 0
        OBVIOUS
      <3> HIDE DEF Kind
      <3> QED BY <2>0, <2>1, <3>1, <3>2, <3>3
    <2>2. CASE x.is # "empty" /\ isNumber(x) /\ x.n < Base
      <3>1. Spelt(x) = <<x.n>>
        BY <2>2 DEF Spelt
      <3>2. x = Number(x.n)
        BY <2>0, <2>2 DEF isNumber, Number
      <3> QED BY <2>2, <3>1, <3>2
    <2>3. CASE x.is # "empty" /\ isNumber(x) /\ ~(x.n < Base)
      <3>1. Spelt(x) = <<x.n \div Base, x.n % Base>>
        BY <2>3 DEF Spelt
      <3>2. x = Number(x.n)
        BY <2>0, <2>3 DEF isNumber, Number
      <3> QED BY <2>3, <3>1, <3>2
    <2>4. CASE x.is # "empty" /\ ~isNumber(x)
      <3>1. Spelt(x) = <<IF x.is = "number" THEN 1 ELSE 0, IF x.is = "word" THEN 1 ELSE 0, x.n, x.b64>>
        BY <2>4 DEF Spelt
      <3> QED BY <2>4, <3>1
    <2> QED BY <2>1, <2>2, <2>3, <2>4
  <1>2. Kind(t) = Kind(v)
    BY <1>1
  <1>3. CASE Kind(t) = 0
    BY <1>1, <1>2, <1>3
  <1>4. CASE Kind(t) = 1
    BY <1>1, <1>2, <1>4
  <1>5. CASE Kind(t) = 2
    <2>1. t.n \div Base = v.n \div Base /\ t.n % Base = v.n % Base /\ t = Number(t.n) /\ v = Number(v.n)
      BY <1>1, <1>2, <1>5
    <2>2. t.n \in Int /\ v.n \in Int
      BY <1>0
    <2>3. t.n = v.n
      BY <2>1, <2>2
    <2> QED BY <2>1, <2>3, Zenon
  <1>6. CASE Kind(t) = 4
    <2>1. /\ (t.is = "number" <=> v.is = "number") /\ (t.is = "word" <=> v.is = "word")
          /\ t.n = v.n /\ t.b64 = v.b64 /\ t.is # "empty" /\ v.is # "empty"
      BY <1>1, <1>2, <1>6
    <2>2. t.is = v.is
      BY <1>0, <2>1
    <2> QED BY <1>0, <2>1, <2>2, Zenon
  <1>7. Kind(t) \in {0, 1, 2, 4}
    OBVIOUS
  <1> QED BY <1>3, <1>4, <1>5, <1>6, <1>7

\* What PUSH_KEY adds: of a number always the size of its type, and it tells the value.
LEMMA KeyPart ==
    ASSUME NEW type \in (Numeric \ {"enum"}) \cup {"string", "bytes"}, NEW x \in Held(type)
    PROVE  /\ PUSH_KEY(type, x) \in Seq(Int)
           /\ type \in Numeric => Len(PUSH_KEY(type, x)) = SizeOf[type]
           /\ \A y \in Held(type) : PUSH_KEY(type, y) = PUSH_KEY(type, x) => y = x
  <1>0. ASSUME NEW t \in Text PROVE Spelt(t) \in Seq(Int)
    <2>1. t.n \in Int /\ t.b64 \in Int /\ (t.n \div Base) \in Int /\ (t.n % Base) \in Int
      BY DEF Text, Empty
    <2> QED BY <2>1 DEF Spelt
  <1>1. CASE type = "string"
    <2>1. Held(type) = Text /\ type \notin Numeric
      BY <1>1 DEF Held, Numeric
    <2>2. \A y : PUSH_KEY(type, y) = Spelt(y)
      BY <1>1 DEF PUSH_KEY
    <2> QED BY <1>0, <2>1, <2>2, SpeltTells
  <1>2. CASE type = "bytes"
    <2>1. Held(type) = Text /\ type \notin Numeric
      BY <1>2 DEF Held, Numeric
    <2>2. \A y : PUSH_KEY(type, y) = Spelt(b64_encode(y))
      BY <1>2 DEF PUSH_KEY
    <2>3. \A y \in Text : b64_encode(y) = b64_encode(x) => y = x
      <3> SUFFICES ASSUME NEW y \in Text, b64_encode(y) = b64_encode(x) PROVE y = x
        OBVIOUS
      <3>1. x \in Text
        BY <2>1
      <3> QED BY <3>1 DEF Text, Empty, b64_encode
    <2>4. \A y \in Text : b64_encode(y) \in Text
      BY Texts_
    <2> QED BY <1>0, <2>1, <2>2, <2>3, <2>4, SpeltTells
  <1>3. CASE type \notin {"string", "bytes"}
    <2>1. type \in Numeric /\ type \notin {"string", "bytes", "enum", "message"}
      BY <1>3 DEF Numeric
    <2>2. PICK size \in 1..Width : size = SizeOf[type]
      BY <2>1, Sizes
    <2>3. \A y : PUSH_KEY(type, y) = InMemory(y.n, size)
      BY <2>1, <2>2 DEF PUSH_KEY
    <2>4. Held(type) = {Number(n) : n \in 0..(Span[size] - 1)}
      BY <2>1, <2>2, Zenon DEF Held
    <2>5. Span[size] \in Nat \ {0}
      <3>1. size \in 0..Width
        OBVIOUS
      <3> QED BY <3>1, SpanFacts
    <2>6. \A n : Number(n).n = n
      BY DEF Number
    <2>7. ASSUME NEW n \in 0..(Span[size] - 1) PROVE InMemory(n, size) \in Seq(Int) /\ Len(InMemory(n, size)) = size
      <3>0. n \in Nat /\ size \in Nat
        BY <2>5
      <3>1. ASSUME NEW j \in 1..size PROVE (n \div Span[j - 1]) % Base \in Int
        <4>1. PICK s \in Nat \ {0} : s = Span[j - 1]
          BY SpanFacts
        <4> QED BY <3>0, <4>1
      <3>2. InMemory(n, size) \in [1..size -> Int]
        BY <3>1 DEF InMemory
      <3> QED BY <3>0, <3>2, FunctionIsSeq
    <2>8. ASSUME NEW y \in Held(type), PUSH_KEY(type, y) = PUSH_KEY(type, x) PROVE y = x
      <3>1. PICK a \in 0..(Span[size] - 1) : y = Number(a)
        BY <2>4
      <3>2. PICK b \in 0..(Span[size] - 1) : x = Number(b)
        BY <2>4
      <3>3. InMemory(a, size) = InMemory(b, size)
        BY <2>3, <2>6, <2>8, <3>1, <3>2
      <3>4. size \in 0..Width
        OBVIOUS
      <3>5. a = b
        BY <3>3, <3>4, BytesTell
      <3> QED BY <3>1, <3>2, <3>5
    <2>9. PICK b \in 0..(Span[size] - 1) : x = Number(b)
      BY <2>4
    <2> QED BY <2>2, <2>3, <2>6, <2>7, <2>8, <2>9
  <1> QED BY <1>1, <1>2, <1>3

\* Sequences of sequences that are joined to one tell their parts, if only the last may
\* differ in length.
LEMMA PartsTell ==
    ASSUME NEW S, NEW P \in Seq(Seq(S)), NEW Q \in Seq(Seq(S)), Len(P) = Len(Q),
           \A u \in 1..Len(P) : u # Len(P) => Len(P[u]) = Len(Q[u]), FlattenSeq(P) = FlattenSeq(Q)
    PROVE  P = Q
  <1>1. PICK n \in Nat : n = Len(P) /\ n = Len(Q)
    OBVIOUS
  <1>2. PICK f : Joints(f, P, S) /\ FlattenSeq(P) = f[n]
    BY <1>1, Flattened
  <1>3. PICK g : Joints(g, Q, S) /\ FlattenSeq(Q) = g[n]
    BY <1>1, Flattened
  <1>4. Placed(f, P) /\ Placed(g, Q)
    BY <1>2, <1>3, Places
  <1>5. /\ \A u \in 0..n : f[u] \in Seq(S) /\ g[u] \in Seq(S) /\ Len(f[u]) \in Nat /\ Len(g[u]) \in Nat
        /\ f[0] = <<>> /\ g[0] = <<>>
    <2>1. \A u \in 0..n : f[u] \in Seq(S) /\ g[u] \in Seq(S)
      BY <1>1, <1>2, <1>3 DEF Joints
    <2>2. f[0] = <<>> /\ g[0] = <<>>
      BY <1>2, <1>3 DEF Joints
    <2> QED BY <2>1, <2>2
  <1>6. \A j \in 1..n : /\ Len(f[j]) = Len(f[j - 1]) + Len(P[j]) /\ Len(g[j]) = Len(g[j - 1]) + Len(Q[j])
                        /\ Len(P[j]) \in Nat /\ Len(Q[j]) \in Nat /\ P[j] \in Seq(S) /\ Q[j] \in Seq(S)
    <2>1. \A j \in 1..n : Len(P[j]) \in Nat /\ Len(Q[j]) \in Nat /\ P[j] \in Seq(S) /\ Q[j] \in Seq(S)
      BY <1>1
    <2>2. \A j \in 1..n : j \in 0..n /\ j \in 1..j
      OBVIOUS
    <2>3. \A j \in 1..n : Len(f[j]) = Len(f[j - 1]) + Len(P[j]) /\ Len(g[j]) = Len(g[j - 1]) + Len(Q[j])
      BY <1>1, <1>4, <2>2, Zenon DEF Placed
    <2> QED BY <2>1, <2>3, Zenon
  <1>7. f[n] = g[n]
    BY <1>2, <1>3
  <1>8. \A u \in 1..n : u # n => Len(P[u]) = Len(Q[u])
    BY <1>1
  <1> DEFINE E == {h \in Nat : h < n => Len(f[h]) = Len(g[h])}
  <1>9. 0 \in E
    BY <1>5
  <1>10. ASSUME NEW h \in Nat, h \in E PROVE h + 1 \in E
    <2> SUFFICES ASSUME h + 1 < n PROVE Len(f[h + 1]) = Len(g[h + 1])
      OBVIOUS
    <2>1. h + 1 \in 1..n /\ h + 1 # n /\ (h + 1) - 1 = h /\ h < n
      OBVIOUS
    <2>2. Len(f[h]) = Len(g[h]) /\ Len(P[h + 1]) = Len(Q[h + 1])
      BY <1>8, <1>10, <2>1
    <2> QED BY <1>6, <2>1, <2>2
  <1>11. \A h \in Nat : h \in E
    <2> HIDE DEF E
    <2> QED BY <1>9, <1>10, Induction
  <1>12. ASSUME NEW j \in 1..n PROVE P[j] = Q[j]
    <2>1. PICK a \in Nat : a = Len(f[j - 1]) /\ a = Len(g[j - 1])
      <3>1. j - 1 \in Nat /\ j - 1 < n /\ j - 1 \in 0..n
        OBVIOUS
      <3> QED BY <1>5, <1>11, <3>1
    <2>2. Len(P[j]) = Len(Q[j])
      <3>1. CASE j # n
        BY <1>8, <3>1
      <3>2. CASE j = n
        <4>1. Len(f[j]) = Len(g[j])
          BY <1>7, <3>2
        <4>2. Len(f[j]) = a + Len(P[j]) /\ Len(g[j]) = a + Len(Q[j]) /\ Len(P[j]) \in Nat /\ Len(Q[j]) \in Nat
          BY <1>6, <2>1
        <4>3. \A b, c, d \in Nat : b + c = b + d => c = d
          OBVIOUS
        <4> QED BY <4>1, <4>2, <4>3
      <3> QED BY <3>1, <3>2
    <2>3. \A k \in 1..Len(P[j]) : f[n][a + k] = P[j][k]
      <3>1. n \in 0..Len(P) /\ j \in 1..n
        BY <1>1
      <3>2. \A k \in 1..Len(P[j]) : f[n][Len(f[j - 1]) + k] = P[j][k]
        BY <1>4, <3>1 DEF Placed
      <3> QED BY <2>1, <3>2, Zenon
    <2>4. \A k \in 1..Len(Q[j]) : g[n][a + k] = Q[j][k]
      <3>1. n \in 0..Len(Q) /\ j \in 1..n
        BY <1>1
      <3>2. \A k \in 1..Len(Q[j]) : g[n][Len(g[j - 1]) + k] = Q[j][k]
        BY <1>4, <3>1 DEF Placed
      <3> QED BY <2>1, <3>2, Zenon
    <2>5. \A k \in 1..Len(P[j]) : P[j][k] = Q[j][k]
      BY <1>7, <2>2, <2>3, <2>4, Zenon
    <2> QED BY <1>6, <2>2, <2>5, SeqEqual
  <1> QED BY <1>1, <1>12, SeqEqual

\* The fields of a key.
LEMMA KeyFields ==
    ASSUME NEW k \in 1..N, WellKeyed(k), NEW n \in 1..LastIndex(k)
    PROVE  /\ keyIndexes(k)[n] \in 1..Len(V(k))
           /\ V(k)[keyIndexes(k)[n]].type \in (Numeric \ {"enum"}) \cup {"string", "bytes"}
           /\ ~V(k)[keyIndexes(k)[n]].repeated
           /\ V(k)[keyIndexes(k)[n]].type \in {"string", "bytes"} => n = LastIndex(k)
  <1>1. PICK b \in Nat : b = Len(V(k))
    BY VariableFacts
  <1>2. PICK F : F = {f \in 1..b : V(k)[f].index = n}
    OBVIOUS
  <1>3. Cardinality(F) = 1
    BY <1>1, <1>2, Zenon DEF WellKeyed
  <1>4. IsFiniteSet(F)
    <2>1. IsFiniteSet(1..b)
      BY FS_Interval
    <2>2. F \subseteq 1..b
      BY <1>2
    <2> QED BY <2>1, <2>2, FS_Subset
  <1>5. PICK x : F = {x}
    BY <1>3, <1>4, FS_Singleton
  <1>6. x \in 1..b
    BY <1>2, <1>5
  <1>7. keyIndexes(k)[n] = IF F = {} THEN 1 ELSE CHOOSE f \in F : \A g \in F : g <= f
    <2> DEFINE B(w) == LET K == {f \in 1..Len(V(k)) : V(k)[f].index = w} IN
                         IF K = {} THEN 1 ELSE CHOOSE f \in K : \A g \in K : g <= f
    <2>1. keyIndexes(k) = [w \in 1..LastIndex(k) |-> B(w)]
      BY Zenon DEF keyIndexes
    <2>2. keyIndexes(k)[n] = B(n)
      <3> HIDE DEF B
      <3> QED BY <2>1
    <2> QED BY <1>1, <1>2, <2>2, Zenon
  <1>8. keyIndexes(k)[n] = x
    <2>1. \A f : f \in F <=> f = x
      BY <1>5
    <2>2. x <= x
      BY <1>6
    <2>3. \E f \in F : \A g \in F : g <= f
      BY <2>1, <2>2
    <2>4. keyIndexes(k)[n] \in F
      BY <1>7, <2>1, <2>3, Zenon
    <2> QED BY <2>1, <2>4
  <1>9. PICK v : v = V(k)[x]
    OBVIOUS
  <1>10. ~v.repeated /\ v.type \notin {"enum", "message"} /\ (v.type \in {"string", "bytes"} => n = LastIndex(k))
    BY <1>8, <1>9, Zenon DEF WellKeyed
  <1>11. v.type \in Numeric \cup {"string", "bytes", "message"}
    <2>1. v \in Variable
      BY <1>1, <1>6, <1>9, VariableFacts
    <2> QED BY <2>1 DEF Variable
  <1> QED BY <1>1, <1>6, <1>8, <1>9, <1>10, <1>11

\* A message has a value for each scalar that is not repeated.
LEMMA OfIs ==
    ASSUME NEW m_, m_.of \in 1..N, Conforms(m_), NEW f \in 1..Len(V(m_.of)),
           V(m_.of)[f].type # "message", ~V(m_.of)[f].repeated
    PROVE  Of(m_, f) \in Held(V(m_.of)[f].type)
  <1>1. PICK L : L = m_.leaves
    OBVIOUS
  <1> DEFINE R(h) == L[h].of = m_.of /\ L[h].f = f
             j == CHOOSE h \in 1..Len(L) : R(h)
  <1>2. \E h \in 1..Len(L) : R(h)
    BY <1>1, Zenon DEF Conforms
  <1>3. j \in 1..Len(L) /\ R(j)
    BY <1>2, Zenon
  <1>4. Of(m_, f) = L[j].val
    BY <1>1, Zenon DEF Of
  <1> HIDE DEF j
  <1>5. L[j].val \in Held(V(L[j].of)[L[j].f].type)
    BY <1>1, <1>3, Zenon DEF Conforms
  <1> QED BY <1>3, <1>4, <1>5, Zenon

\* A part of the key of a message.
KeyPartOf(m_, n) ==
    LET f == keyIndexes(m_.of)[n] IN
        IF V(m_.of)[f].type = "message" THEN <<>> ELSE PUSH_KEY(V(m_.of)[f].type, Of(m_, f))
KeyParts(m_) == [n \in 1..LastIndex(m_.of) |-> KeyPartOf(m_, n)]

LEMMA KeyPartsIs ==
    ASSUME NEW m_, m_.of \in 1..N, Conforms(m_), WellKeyed(m_.of)
    PROVE  /\ KeyParts(m_) \in Seq(Seq(Int)) /\ Len(KeyParts(m_)) = LastIndex(m_.of)
           /\ \A n \in 1..LastIndex(m_.of) :
                KeyParts(m_)[n] = PUSH_KEY(V(m_.of)[keyIndexes(m_.of)[n]].type, Of(m_, keyIndexes(m_.of)[n]))
           /\ FlattenSeq(KeyParts(m_)) \in Seq(Int)
           /\ getKey(m_) = <<Ids[m_.of]>> \o FlattenSeq(KeyParts(m_))
  <1>1. PICK b \in Nat : b = LastIndex(m_.of)
    BY LastIndexIs
  <1>2. PICK P : P = KeyParts(m_)
    OBVIOUS
  <1>3. ASSUME NEW n \in 1..b
        PROVE  P[n] = PUSH_KEY(V(m_.of)[keyIndexes(m_.of)[n]].type, Of(m_, keyIndexes(m_.of)[n])) /\ P[n] \in Seq(Int)
    <2>1. PICK f : f = keyIndexes(m_.of)[n]
      OBVIOUS
    <2>2. /\ f \in 1..Len(V(m_.of)) /\ ~V(m_.of)[f].repeated
          /\ V(m_.of)[f].type \in (Numeric \ {"enum"}) \cup {"string", "bytes"}
      BY <1>1, <2>1, KeyFields
    <2>3. V(m_.of)[f].type # "message"
      BY <2>2 DEF Numeric
    <2>4. P[n] = KeyPartOf(m_, n)
      BY <1>1, <1>2 DEF KeyParts
    <2>5. P[n] = PUSH_KEY(V(m_.of)[f].type, Of(m_, f))
      BY <2>1, <2>3, <2>4, Zenon DEF KeyPartOf
    <2>6. Of(m_, f) \in Held(V(m_.of)[f].type)
      BY <2>2, <2>3, OfIs
    <2> QED BY <2>1, <2>2, <2>5, <2>6, KeyPart
  <1>4. P \in Seq(Seq(Int)) /\ Len(P) = b
    <2>1. P = [n \in 1..b |-> P[n]]
      BY <1>1, <1>2 DEF KeyParts
    <2>2. P \in [1..b -> Seq(Int)]
      BY <1>3, <2>1
    <2> QED BY <2>2, FunctionIsSeq
  <1>5. FlattenSeq(P) \in Seq(Int)
    <2>1. PICK f : Joints(f, P, Int) /\ FlattenSeq(P) = f[b]
      BY <1>4, Flattened
    <2>2. b \in 0..Len(P)
      BY <1>4
    <2> QED BY <2>1, <2>2 DEF Joints
  <1>6. getKey(m_) = <<Ids[m_.of]>> \o FlattenSeq(P)
    BY <1>2, Zenon DEF getKey, getMessageId, KeyParts, KeyPartOf
  <1> QED BY <1>1, <1>2, <1>3, <1>4, <1>5, <1>6, Zenon

LEMMA KeysTell ==
    ASSUME NEW a, NEW b, a.of \in 1..N, b.of \in 1..N, Conforms(a), Conforms(b),
           WellKeyed(a.of), WellKeyed(b.of), getKey(a) = getKey(b)
    PROVE  /\ Ids[a.of] = Ids[b.of]
           /\ a.of = b.of => \A n \in 1..LastIndex(a.of) : Of(a, keyIndexes(a.of)[n]) = Of(b, keyIndexes(a.of)[n])
  <1>1. PICK P : P = KeyParts(a)
    OBVIOUS
  <1>2. PICK Q : Q = KeyParts(b)
    OBVIOUS
  <1>3. PICK p \in Seq(Int) : p = FlattenSeq(P) /\ getKey(a) = <<Ids[a.of]>> \o p
    BY <1>1, KeyPartsIs
  <1>4. PICK q \in Seq(Int) : q = FlattenSeq(Q) /\ getKey(b) = <<Ids[b.of]>> \o q
    BY <1>2, KeyPartsIs
  <1>0. \A k \in 1..N : Ids[k] \in Int
    <2>1. Ids \in Seq(Nat) /\ Len(Ids) = N
      BY IdsAssumption, Zenon
    <2> QED BY <2>1
  <1>5. PICK x \in Int : x = Ids[a.of]
    BY <1>0
  <1>6. PICK y \in Int : y = Ids[b.of]
    BY <1>0
  <1>7. <<x>> \o p = <<y>> \o q
    BY <1>3, <1>4, <1>5, <1>6
  <1>8. x = y /\ p = q
    <2>1. /\ Len(<<x>> \o p) = 1 + Len(p) /\ (<<x>> \o p)[1] = x
          /\ \A j \in 1..Len(p) : (<<x>> \o p)[j + 1] = p[j]
      OBVIOUS
    <2>2. /\ Len(<<y>> \o q) = 1 + Len(q) /\ (<<y>> \o q)[1] = y
          /\ \A j \in 1..Len(q) : (<<y>> \o q)[j + 1] = q[j]
      OBVIOUS
    <2>3. x = y /\ Len(p) = Len(q)
      BY <1>7, <2>1, <2>2
    <2>4. \A j \in 1..Len(p) : p[j] = q[j]
      BY <1>7, <2>1, <2>2, <2>3, Zenon
    <2> QED BY <2>3, <2>4, SeqEqual
  <1>9. ASSUME a.of = b.of, NEW n \in 1..LastIndex(a.of) PROVE Of(a, keyIndexes(a.of)[n]) = Of(b, keyIndexes(a.of)[n])
    <2> DEFINE F(w) == keyIndexes(a.of)[w]
               T(w) == V(a.of)[F(w)].type
    <2>1. /\ P \in Seq(Seq(Int)) /\ Len(P) = LastIndex(a.of)
          /\ \A w \in 1..LastIndex(a.of) : P[w] = PUSH_KEY(T(w), Of(a, F(w)))
      BY <1>1, KeyPartsIs
    <2>2. /\ Q \in Seq(Seq(Int)) /\ Len(Q) = LastIndex(b.of)
          /\ \A w \in 1..LastIndex(b.of) : Q[w] = PUSH_KEY(V(b.of)[keyIndexes(b.of)[w]].type, Of(b, keyIndexes(b.of)[w]))
      BY <1>2, KeyPartsIs
    <2>3. Len(Q) = LastIndex(a.of) /\ \A w \in 1..LastIndex(a.of) : Q[w] = PUSH_KEY(T(w), Of(b, F(w)))
      BY <1>9, <2>2, Zenon
    <2>4. ASSUME NEW w \in 1..LastIndex(a.of)
          PROVE  /\ T(w) \in (Numeric \ {"enum"}) \cup {"string", "bytes"}
                 /\ T(w) \in {"string", "bytes"} => w = LastIndex(a.of)
                 /\ Of(a, F(w)) \in Held(T(w)) /\ Of(b, F(w)) \in Held(T(w))
      <3>1. /\ F(w) \in 1..Len(V(a.of)) /\ ~V(a.of)[F(w)].repeated
            /\ T(w) \in (Numeric \ {"enum"}) \cup {"string", "bytes"}
            /\ T(w) \in {"string", "bytes"} => w = LastIndex(a.of)
        BY KeyFields
      <3>2. T(w) # "message"
        BY <3>1 DEF Numeric
      <3>3. Of(a, F(w)) \in Held(T(w))
        BY <3>1, <3>2, OfIs
      <3>4. Of(b, F(w)) \in Held(T(w))
        BY <1>9, <3>1, <3>2, OfIs
      <3> QED BY <3>1, <3>3, <3>4
    <2> HIDE DEF F, T
    <2>5. ASSUME NEW w \in 1..Len(P), w # Len(P) PROVE Len(P[w]) = Len(Q[w])
      <3>1. w \in 1..LastIndex(a.of) /\ w # LastIndex(a.of)
        BY <2>1, <2>5
      <3>2. T(w) \in Numeric /\ T(w) \in (Numeric \ {"enum"}) \cup {"string", "bytes"}
        BY <2>4, <3>1
      <3>3. Len(PUSH_KEY(T(w), Of(a, F(w)))) = SizeOf[T(w)] /\ Len(PUSH_KEY(T(w), Of(b, F(w)))) = SizeOf[T(w)]
        BY <2>4, <3>1, <3>2, KeyPart
      <3> QED BY <2>1, <2>3, <3>1, <3>3
    <2>6. P = Q
      <3>1. Len(P) = Len(Q) /\ FlattenSeq(P) = FlattenSeq(Q)
        BY <1>3, <1>4, <1>8, <2>1, <2>3
      <3> QED BY <2>1, <2>2, <2>5, <3>1, PartsTell
    <2>7. PUSH_KEY(T(n), Of(a, F(n))) = PUSH_KEY(T(n), Of(b, F(n)))
      BY <2>1, <2>3, <2>6
    <2>8. Of(a, F(n)) = Of(b, F(n))
      BY <2>4, <2>7, KeyPart
    <2> QED BY <2>8 DEF F
  <1> QED BY <1>5, <1>6, <1>8, <1>9

LEMMA VInvKeys == VInv => KeysTellApart
  <1> SUFFICES ASSUME VInv, stage = "read", WellKeyed(message.of), NEW o \in Others,
                      o.of \in 1..N, WellKeyed(o.of), getKey(o) = getKey(message)
               PROVE  /\ getMessageId(o.of) = getMessageId(message.of)
                      /\ o.of = message.of => \A n \in 1..LastIndex(o.of) :
                            Of(o, keyIndexes(o.of)[n]) = Of(message, keyIndexes(o.of)[n])
    BY Zenon DEF KeysTellApart
  <1>1. message.of \in 1..N /\ Conforms(message)
    BY DEF VInv, InHand
  <1>2. Conforms(o)
    BY OthersAssumption, Zenon
  <1> QED BY <1>1, <1>2, KeysTell DEF getMessageId

\* The key under which a handler stores a message tells it from any other message, by its
\* identifier and all its indexed fields. (pkt2optionscache.cpp 231-304)
THEOREM KeysAreExact == ValuesSpec => []KeysTellApart
  BY ValuesInvariance, VInvKeys, PTL

-----------------------------------------------------------------------------
(* Positions, in their order.                                               *)

Rank(P, j) == Cardinality({h \in P : h <= j})

\* Each position has its rank, and each rank is that of a position.
LEMMA Ranks ==
    ASSUME NEW n \in Nat, NEW P \in SUBSET (1..n)
    PROVE  /\ IsFiniteSet(P) /\ Cardinality(P) \in Nat
           /\ \A j \in P : Rank(P, j) \in 1..Cardinality(P) /\ Nth(P, Rank(P, j)) = j
           /\ \A r \in 1..Cardinality(P) : Nth(P, r) \in P /\ Rank(P, Nth(P, r)) = r
  <1>0. \A j \in P : j \in Int
    OBVIOUS
  <1>1. IsFiniteSet(P)
    <2>1. IsFiniteSet(1..n)
      BY FS_Interval
    <2> QED BY <2>1, FS_Subset
  <1>2. PICK c \in Nat : c = Cardinality(P)
    BY <1>1, FS_CardinalityType
  <1> DEFINE Upto(j) == {h \in P : h <= j}
  <1>3. ASSUME NEW j \in P PROVE IsFiniteSet(Upto(j)) /\ Rank(P, j) \in Nat /\ Rank(P, j) = Cardinality(Upto(j)) /\ Rank(P, j) <= c
    <2>1. Upto(j) \in SUBSET P
      OBVIOUS
    <2>2. PICK U : U = Upto(j)
      OBVIOUS
    <2>3. IsFiniteSet(U) /\ Cardinality(U) <= c
      BY <1>1, <1>2, <2>1, <2>2, FS_Subset
    <2>4. Cardinality(U) \in Nat
      BY <2>3, FS_CardinalityType
    <2> QED BY <2>2, <2>3, <2>4 DEF Rank
  <1>4. ASSUME NEW j \in P PROVE Rank(P, j) \in 1..c
    <2>1. j \in Upto(j)
      OBVIOUS
    <2>2. Upto(j) # {}
      BY <2>1
    <2>3. Rank(P, j) # 0
      BY <1>3, <2>2, FS_EmptySet
    <2>4. Rank(P, j) \in Nat /\ Rank(P, j) <= c
      BY <1>3, Zenon
    <2> HIDE DEF Upto
    <2> QED BY <2>3, <2>4
  <1>5. ASSUME NEW j \in P, NEW h \in P, j < h PROVE Rank(P, j) < Rank(P, h)
    <2>1. Upto(j) \in SUBSET Upto(h) /\ h \in Upto(h) /\ h \notin Upto(j)
      <3>1. \A q \in P : q <= j => q <= h
        BY <1>0, <1>5
      <3>2. h <= h /\ ~(h <= j)
        BY <1>0, <1>5
      <3> QED BY <3>1, <3>2
    <2>2. PICK A : A = Upto(j)
      OBVIOUS
    <2>3. PICK B : B = Upto(h)
      OBVIOUS
    <2>4. IsFiniteSet(B) /\ A \in SUBSET B /\ A # B /\ Rank(P, j) = Cardinality(A) /\ Rank(P, h) = Cardinality(B)
      BY <1>3, <2>1, <2>2, <2>3
    <2>5. Cardinality(A) <= Cardinality(B) /\ Cardinality(A) # Cardinality(B)
      BY <2>4, FS_Subset
    <2>6. Cardinality(A) \in Nat /\ Cardinality(B) \in Nat
      BY <1>3, <2>4
    <2> QED BY <2>4, <2>5, <2>6
  <1>6. ASSUME NEW j \in P, NEW h \in P, Rank(P, j) = Rank(P, h) PROVE j = h
    <2>1. j \in Int /\ h \in Int /\ Rank(P, j) \in Nat
      BY <1>0, <1>3, Zenon
    <2>2. CASE j < h
      BY <1>5, <1>6, <2>1, <2>2
    <2>3. CASE h < j
      BY <1>5, <1>6, <2>1, <2>3
    <2> QED BY <2>1, <2>2, <2>3
  <1>7. ASSUME NEW j \in P PROVE Nth(P, Rank(P, j)) = j
    <2>1. PICK x : x = Nth(P, Rank(P, j))
      OBVIOUS
    <2>2. x = CHOOSE h \in P : Rank(P, h) = Rank(P, j)
      BY <2>1 DEF Nth, Rank
    <2>3. x \in P /\ Rank(P, x) = Rank(P, j)
      BY <2>2, Zenon
    <2> QED BY <1>6, <2>1, <2>3
  <1>8. ASSUME NEW r \in 1..c PROVE \E j \in P : Rank(P, j) = r
    <2>1. PICK R : R = [j \in P |-> Rank(P, j)]
      OBVIOUS
    <2>2. R \in [P -> 1..c] /\ \A j \in P : R[j] = Rank(P, j)
      BY <1>4, <2>1
    <2>3. R \in Injection(P, 1..c)
      BY <1>6, <2>2 DEF Injection, IsInjective
    <2>4. IsFiniteSet(1..c) /\ Cardinality(1..c) = c
      BY FS_Interval
    <2>5. R \in Surjection(P, 1..c)
      BY <1>2, <2>3, <2>4, FS_Injection
    <2>6. \E j \in P : R[j] = r
      BY <2>5 DEF Surjection
    <2> QED BY <2>2, <2>6
  <1>9. ASSUME NEW r \in 1..c PROVE Nth(P, r) \in P /\ Rank(P, Nth(P, r)) = r
    <2>1. PICK j \in P : Rank(P, j) = r
      BY <1>8
    <2>2. Nth(P, r) = j
      BY <1>7, <2>1
    <2> QED BY <2>1, <2>2
  <1> QED BY <1>1, <1>2, <1>4, <1>7, <1>9

-----------------------------------------------------------------------------
(* Rows.                                                                    *)

Keyed(m_) == {j \in 1..Len(m_.leaves) : IndexOf(m_.leaves[j]) # 0}

\* Under Plain each index has its own value, and index2values the length of the indexes.
LEMMA PlainIs ==
    ASSUME NEW m_, m_.of \in 1..N, Conforms(m_), Plain(m_), NEW I, IndexesRight(m_, Len(m_.leaves), I)
    PROVE  /\ Distinct(m_) /\ Cardinality(Keyed(m_)) \in Nat /\ Len(I) = Cardinality(Keyed(m_)) + 1
           /\ I[1] = Ids[m_.of] /\ Ids[m_.of] >= Len(m_.leaves) /\ Ids[m_.of] \in Nat
           /\ \A x \in 1..Cardinality(Keyed(m_)) : \E j \in Keyed(m_) : IndexOf(m_.leaves[j]) = x
           /\ \A j \in Keyed(m_) : /\ IndexOf(m_.leaves[j]) \in 1..Cardinality(Keyed(m_))
                                   /\ I[IndexOf(m_.leaves[j]) + 1] = j - 1
  <1>1. PICK n \in Nat : n = Len(m_.leaves)
    BY ConformsType
  <1>2. PICK X : X = [j \in 1..n |-> IndexOf(m_.leaves[j])]
    OBVIOUS
  <1>3. \A j \in 1..n : X[j] = IndexOf(m_.leaves[j]) /\ X[j] \in Nat
    <2>1. ASSUME NEW j \in 1..n PROVE IndexOf(m_.leaves[j]) \in Nat
      <3>1. m_.leaves[j].of \in 1..N
        <4>1. m_.leaves[j] \in [of : 1..N, f : Nat, val : Text]
          BY <1>1, ConformsType
        <4> QED BY <4>1
      <3> QED BY <3>1, GetIndexIs DEF IndexOf
    <2> QED BY <1>2, <2>1
  <1>4. PICK K : K = {j \in 1..n : X[j] # 0}
    OBVIOUS
  <1>5. Keyed(m_) = K
    BY <1>1, <1>3, <1>4 DEF Keyed
  <1>6. IsFiniteSet(K) /\ Cardinality(K) \in Nat
    <2>1. IsFiniteSet(1..n)
      BY FS_Interval
    <2>2. K \in SUBSET (1..n)
      BY <1>4
    <2>3. IsFiniteSet(K)
      BY <2>1, <2>2, FS_Subset
    <2> QED BY <2>3, FS_CardinalityType
  <1>7. PICK c \in Nat : c = Cardinality(K)
    BY <1>6
  <1>8. {X[j] : j \in K} = 1..c
    <2>1. {IndexOf(m_.leaves[j]) : j \in Keyed(m_)} = 1..Cardinality(Keyed(m_))
      BY Zenon DEF Plain, Keyed
    <2>2. {IndexOf(m_.leaves[j]) : j \in K} = 1..c
      BY <1>5, <1>7, <2>1, Zenon
    <2>3. \A j \in K : X[j] = IndexOf(m_.leaves[j])
      BY <1>3, <1>4
    <2> QED BY <2>2, <2>3
  <1>9. \A j \in K : X[j] \in 1..c
    BY <1>8
  <1>10. \A x \in 1..c : \E j \in K : X[j] = x
    BY <1>8
  <1>11. ASSUME NEW j \in K, NEW h \in K, X[j] = X[h] PROVE j = h
    <2>1. PICK Y : Y = [q \in K |-> X[q]]
      OBVIOUS
    <2>2. Y \in [K -> 1..c] /\ \A q \in K : Y[q] = X[q]
      BY <1>9, <2>1
    <2>3. Y \in Surjection(K, 1..c)
      BY <1>10, <2>2 DEF Surjection
    <2>4. Cardinality(1..c) = c
      BY FS_Interval
    <2>5. Y \in Injection(K, 1..c)
      BY <1>6, <1>7, <2>3, <2>4, FS_Surjection
    <2> QED BY <1>11, <2>2, <2>5 DEF Injection, IsInjective
  <1>12. Distinct(m_)
    <2> SUFFICES ASSUME NEW j \in 1..n, NEW h \in 1..n, IndexOf(m_.leaves[j]) # 0,
                        IndexOf(m_.leaves[j]) = IndexOf(m_.leaves[h])
                 PROVE  j = h
      BY <1>1 DEF Distinct
    <2>1. j \in K /\ h \in K /\ X[j] = X[h]
      BY <1>3, <1>4
    <2> QED BY <1>11, <2>1
  <1>13. /\ I \in Seq(Nat) /\ Len(I) >= 1 /\ I[1] = Ids[m_.of]
         /\ \A j \in 1..n : X[j] # 0 => X[j] + 1 <= Len(I) /\ I[X[j] + 1] = j - 1
         /\ Len(I) = 1 \/ \E j \in 1..n : X[j] # 0 /\ X[j] + 1 = Len(I)
    BY <1>1, <1>3, <1>12 DEF IndexesRight
  <1>14. Len(I) = c + 1
    <2>0. Len(I) \in Nat
      BY <1>13
    <2>1. c + 1 <= Len(I)
      <3>1. CASE c = 0
        BY <1>13, <2>0, <3>1
      <3>2. CASE c # 0
        <4>1. c \in 1..c
          BY <3>2
        <4>2. PICK j \in K : X[j] = c
          BY <1>10, <4>1
        <4>3. j \in 1..n /\ X[j] # 0
          BY <1>4
        <4> QED BY <1>13, <4>2, <4>3
      <3> QED BY <3>1, <3>2
    <2>2. Len(I) <= c + 1
      <3>1. CASE Len(I) = 1
        BY <3>1
      <3>2. CASE \E j \in 1..n : X[j] # 0 /\ X[j] + 1 = Len(I)
        <4>1. PICK j \in 1..n : X[j] # 0 /\ X[j] + 1 = Len(I)
          BY <3>2
        <4>2. X[j] \in 1..c
          BY <1>4, <1>9, <4>1
        <4> QED BY <4>1, <4>2
      <3> QED BY <1>13, <3>1, <3>2
    <2> QED BY <2>0, <2>1, <2>2
  <1>15. Ids[m_.of] >= n /\ Ids[m_.of] \in Nat
    <2>1. Ids \in Seq(Nat) /\ Len(Ids) = N
      BY IdsAssumption, Zenon
    <2>2. getMessageId(m_.of) >= n
      BY <1>1, Zenon DEF Plain
    <2> QED BY <2>1, <2>2 DEF getMessageId
  <1>16. \A j \in K : /\ IndexOf(m_.leaves[j]) \in 1..c /\ I[IndexOf(m_.leaves[j]) + 1] = j - 1
    <2> SUFFICES ASSUME NEW j \in K PROVE X[j] \in 1..c /\ I[X[j] + 1] = j - 1
      BY <1>3, <1>4
    <2>1. j \in 1..n /\ X[j] # 0
      BY <1>4
    <2> QED BY <1>9, <1>13, <2>1
  <1>17. \A x \in 1..c : \E j \in K : IndexOf(m_.leaves[j]) = x
    <2> SUFFICES ASSUME NEW x \in 1..c PROVE \E j \in K : IndexOf(m_.leaves[j]) = x
      OBVIOUS
    <2>1. PICK j \in K : X[j] = x
      BY <1>10
    <2>2. j \in 1..n
      BY <1>4
    <2> QED BY <1>3, <2>1, <2>2
  <1> QED BY <1>1, <1>5, <1>7, <1>12, <1>13, <1>14, <1>15, <1>16, <1>17, Zenon

\* What is picked, by rank and by position.
LEMMA PickedIs ==
    ASSUME NEW n \in Nat, NEW P \in SUBSET (1..n), NEW s
    PROVE  /\ Len(Picked(s, P)) = Cardinality(P) /\ Cardinality(P) \in Nat
           /\ \A r \in 1..Cardinality(P) : Nth(P, r) \in P
           /\ \A j \in P : Rank(P, j) \in 1..Cardinality(P)
  <1>1. PICK c \in Nat : c = Cardinality(P)
    BY Ranks
  <1>2. PICK t : t = Picked(s, P)
    OBVIOUS
  <1>3. t = [r \in 1..c |-> s[Nth(P, r)]]
    BY <1>1, <1>2 DEF Picked
  <1>4. Len(t) = c
    <2>1. t \in [1..c -> {s[Nth(P, r)] : r \in 1..c}]
      BY <1>3
    <2> QED BY <2>1, FunctionIsSeq
  <1>6. \A r \in 1..c : Nth(P, r) \in P
    BY <1>1, Ranks
  <1>7. \A j \in P : Rank(P, j) \in 1..c
    BY <1>1, Ranks
  <1> QED BY <1>1, <1>2, <1>4, <1>6, <1>7, Zenon

LEMMA PickedRank ==
    ASSUME NEW n \in Nat, NEW P \in SUBSET (1..n), NEW s, NEW r \in 1..Cardinality(P)
    PROVE  Picked(s, P)[r] = s[Nth(P, r)]
  BY DEF Picked

LEMMA PickedAt ==
    ASSUME NEW n \in Nat, NEW P \in SUBSET (1..n), NEW s, NEW j \in P
    PROVE  Picked(s, P)[Rank(P, j)] = s[j]
  <1>1. PICK r : r = Rank(P, j)
    OBVIOUS
  <1>2. r \in 1..Cardinality(P) /\ Nth(P, r) = j
    BY <1>1, Ranks
  <1>3. Picked(s, P)[r] = s[Nth(P, r)]
    BY <1>2 DEF Picked
  <1> QED BY <1>1, <1>2, <1>3

\* The values of a message, by position.
LEMMA DecomposedIs ==
    ASSUME NEW m_, NEW n \in Nat
    PROVE  /\ Len(Decomposed(m_, n)) = n
           /\ \A j \in 1..n : LET d == Decomposed(m_, n)[j]
                                  l == m_.leaves[j]
                              IN  /\ d = ValueOf(l) /\ d.type = V(l.of)[l.f].type /\ d.hidden = V(l.of)[l.f].hidden
                                  /\ d.field = <<l.of, l.f>> /\ d.value = Shown(l)
  <1>1. Len(Decomposed(m_, n)) = n
    BY OneMoreValue
  <1>2. \A j \in 1..n : Decomposed(m_, n)[j] = ValueOf(m_.leaves[j])
    BY DEF Decomposed
  <1>3. \A l : /\ ValueOf(l).type = V(l.of)[l.f].type /\ ValueOf(l).hidden = V(l.of)[l.f].hidden
               /\ ValueOf(l).field = <<l.of, l.f>> /\ ValueOf(l).value = Shown(l)
    BY DEF ValueOf
  <1> QED BY <1>1, <1>2, <1>3, Zenon

\* The statement for a value.
Row(s, keys) ==
    Statement(IF Quoted(s) THEN "str" ELSE "num", <<Number(index2values[1])>> \o keys,
              <<s.field>>, <<s.value>>, <<Quoted(s)>>)

LEMMA RowIs ==
    ASSUME NEW s, NEW keys
    PROVE  /\ Row(s, keys).keys = <<Number(index2values[1])>> \o keys
           /\ Row(s, keys).columns = <<s.field>> /\ Row(s, keys).values = <<s.value>>
  BY DEF Row, Statement

KeyValues == [n \in 1..(Len(index2values) - 1) |-> values[index2values[n + 1] + 1].value]
Unindexed == {j \in 1..Len(values) : ~values[j].hidden /\ ~IsIndexed(j)}

LEMMA InsertIs ==
    toStringInsert2 = [r \in 1..Len(Picked(values, Unindexed)) |-> Row(Picked(values, Unindexed)[r], KeyValues)]
  BY Zenon DEF toStringInsert2, Row, KeyValues, Unindexed

LEMMA VInvRows == VInv => RowsTellAll
  <1> DEFINE L == message.leaves
             rows == {j \in 1..Len(L) : IndexOf(L[j]) = 0 /\ ~V(L[j].of)[L[j].f].hidden}
             keys == {j \in 1..Len(L) : IndexOf(L[j]) # 0}
  <1> SUFFICES ASSUME VInv, stage = "written", mode = "sql2", Plain(message)
               PROVE  /\ Len(output) = Cardinality(rows)
                      /\ \A j \in rows : LET row == output[Cardinality({h \in rows : h <= j})] IN
                            /\ row.columns = <<<<L[j].of, L[j].f>>>> /\ row.values = <<Shown(L[j])>>
                            /\ Len(row.keys) = Cardinality(keys) + 1 /\ row.keys[1] = Number(Ids[message.of])
                            /\ \A h \in keys : row.keys[IndexOf(L[h]) + 1] = Shown(L[h])
    BY Zenon DEF RowsTellAll
  <1> HIDE DEF L
  <1>1. PICK c : c = message
    OBVIOUS
  <1>2. c.of \in 1..N /\ Conforms(c) /\ Plain(c) /\ L = c.leaves
    BY <1>1 DEF VInv, InHand, L
  <1>3. PICK n \in Nat : n = Len(L)
    BY <1>2, ConformsType
  <1>4. values = Decomposed(c, n) /\ IndexesRight(c, n, index2values) /\ output = toStringInsert2
    <2>1. PICK w \in 0..Len(c.leaves) :
             /\ values = Decomposed(c, w) /\ IndexesRight(c, w, index2values) /\ w = Len(c.leaves)
      BY <1>1 DEF VInv, Added
    <2>2. output = toStringInsert2
      BY DEF VInv, Put_
    <2> QED BY <1>2, <1>3, <2>1, <2>2, Zenon
  <1>5. PICK I : I = index2values
    OBVIOUS
  <1>6. PICK K : K = Keyed(c)
    OBVIOUS
  <1>7. PICK b \in Nat : b = Cardinality(K)
    BY <1>2, <1>3, <1>4, <1>6, PlainIs
  <1>8. /\ Len(I) = b + 1 /\ I[1] = Ids[c.of] /\ Ids[c.of] >= n /\ Ids[c.of] \in Nat
        /\ \A x \in 1..b : \E j \in K : IndexOf(L[j]) = x
        /\ \A j \in K : IndexOf(L[j]) \in 1..b /\ I[IndexOf(L[j]) + 1] = j - 1
    <2>1. IndexesRight(c, Len(c.leaves), I)
      BY <1>2, <1>3, <1>4, <1>5, Zenon
    <2> QED BY <1>2, <1>3, <1>6, <1>7, <2>1, PlainIs
  <1>9. keys = K /\ K = {j \in 1..n : IndexOf(L[j]) # 0}
    BY <1>2, <1>3, <1>6, Zenon DEF Keyed
  <1>10. Len(values) = n /\ \A j \in 1..n : /\ values[j].hidden = V(L[j].of)[L[j].f].hidden
                                            /\ values[j].field = <<L[j].of, L[j].f>> /\ values[j].value = Shown(L[j])
    <2>1. values = Decomposed(c, n) /\ L = c.leaves
      BY <1>2, <1>4
    <2> QED BY <2>1, DecomposedIs
  <1>11. ASSUME NEW j \in 1..n PROVE IsIndexed(j) <=> IndexOf(L[j]) # 0
    <2>1. CASE IndexOf(L[j]) # 0
      <3>1. j \in K
        BY <1>9, <2>1
      <3>2. PICK x \in 1..b : x = IndexOf(L[j])
        BY <1>8, <3>1
      <3>3. x + 1 \in 1..Len(I) /\ I[x + 1] = j - 1
        BY <1>8, <3>1, <3>2, SMTT(40)
      <3>4. \E q \in 1..Len(I) : I[q] = j - 1
        BY <3>3, Zenon
      <3> QED BY <1>5, <2>1, <3>4, Zenon DEF IsIndexed
    <2>2. CASE IndexOf(L[j]) = 0
      <3> SUFFICES ASSUME NEW q \in 1..Len(I), I[q] = j - 1 PROVE FALSE
        BY <1>5, <2>2 DEF IsIndexed
      <3>1. q # 1
        <4>1. PICK y \in Nat : y = I[1] /\ y >= n
          BY <1>8
        <4> QED BY <4>1
      <3>2. q - 1 \in 1..b
        BY <1>8, <3>1
      <3>3. PICK h \in K : IndexOf(L[h]) = q - 1
        BY <1>8, <3>2
      <3>4. I[(q - 1) + 1] = h - 1
        BY <1>8, <3>3
      <3>5. (q - 1) + 1 = q /\ h \in 1..n /\ IndexOf(L[h]) # 0
        BY <1>9
      <3>6. h - 1 = j - 1
        BY <3>4, <3>5
      <3>7. h = j
        BY <3>5, <3>6
      <3> QED BY <2>2, <3>5, <3>7
    <2> QED BY <2>1, <2>2
  <1>12. PICK P : P = rows
    OBVIOUS
  <1>13. P = {j \in 1..n : IndexOf(L[j]) = 0 /\ ~V(L[j].of)[L[j].f].hidden} /\ P \in SUBSET (1..n)
    BY <1>3, <1>12
  <1>14. Unindexed = P
    <2>1. Unindexed = {j \in 1..n : ~values[j].hidden /\ ~IsIndexed(j)}
      BY <1>10 DEF Unindexed
    <2>2. \A j \in 1..n : ~values[j].hidden /\ ~IsIndexed(j) <=> IndexOf(L[j]) = 0 /\ ~V(L[j].of)[L[j].f].hidden
      BY <1>10, <1>11
    <2> QED BY <1>13, <2>1, <2>2
  <1>15. PICK S : S = Picked(values, P)
    OBVIOUS
  <1>16. /\ Len(S) = Cardinality(P) /\ Cardinality(P) \in Nat
         /\ \A j \in P : Rank(P, j) \in 1..Cardinality(P) /\ S[Rank(P, j)] = values[j]
    <2>1. PICK s : s = values
      OBVIOUS
    <2>2. P \in SUBSET (1..n)
      BY <1>13
    <2> HIDE DEF rows, keys
    <2>3. Len(Picked(s, P)) = Cardinality(P) /\ Cardinality(P) \in Nat
      BY <2>2, PickedIs
    <2>4. ASSUME NEW j \in P PROVE Rank(P, j) \in 1..Cardinality(P) /\ Picked(s, P)[Rank(P, j)] = s[j]
      <3>1. Rank(P, j) \in 1..Cardinality(P)
        BY <2>2, PickedIs
      <3>2. Picked(s, P)[Rank(P, j)] = s[j]
        BY <2>2, PickedAt
      <3> QED BY <3>1, <3>2
    <2> QED BY <1>15, <2>1, <2>3, <2>4, Zenon
  <1>17. PICK d \in Nat : d = Cardinality(P)
    BY <1>16
  <1>18. PICK A : A = KeyValues
    OBVIOUS
  <1>19. output = [r \in 1..d |-> Row(S[r], A)]
    BY <1>4, <1>14, <1>15, <1>16, <1>17, <1>18, InsertIs, Zenon
  <1>20. Len(output) = d
    <2>1. PICK t : t = output
      OBVIOUS
    <2>2. t = [r \in 1..d |-> Row(S[r], A)]
      BY <1>19, <2>1
    <2>3. t \in [1..d -> {Row(S[r], A) : r \in 1..d}]
      BY <2>2
    <2> QED BY <2>1, <2>3, FunctionIsSeq
  <1>21. PICK T : T = {A[x] : x \in 1..b} \cup {Number(I[1])}
    OBVIOUS
  <1>22. A = [x \in 1..b |-> values[I[x + 1] + 1].value]
    <2>1. Len(I) - 1 = b
      BY <1>7, <1>8
    <2> QED BY <1>5, <1>18, <2>1, Zenon DEF KeyValues
  <1>23. A \in Seq(T) /\ Len(A) = b
    <2>1. A = [x \in 1..b |-> A[x]]
      BY <1>22
    <2>2. A \in [1..b -> T]
      BY <1>21, <2>1
    <2> QED BY <2>2, FunctionIsSeq
  <1>24. PICK B : B = <<Number(I[1])>> \o A
    OBVIOUS
  <1>25. Len(B) = b + 1 /\ B[1] = Number(I[1]) /\ \A x \in 1..b : B[x + 1] = A[x]
    <2>1. PICK e \in T : e = Number(I[1])
      BY <1>21
    <2>2. Len(<<e>> \o A) = 1 + b /\ (<<e>> \o A)[1] = e /\ \A x \in 1..b : (<<e>> \o A)[x + 1] = A[x]
      <3>1. <<e>> \in Seq(T) /\ Len(<<e>>) = 1 /\ <<e>>[1] = e
        OBVIOUS
      <3>2. PICK z \in Seq(T) : z = <<e>> /\ Len(z) = 1 /\ z[1] = e
        BY <3>1
      <3>3. PICK y : y = z \o A
        OBVIOUS
      <3>4. Len(y) = 1 + b /\ \A x \in 1..(1 + b) : y[x] = IF x <= 1 THEN z[x] ELSE A[x - 1]
        BY <1>23, <3>2, <3>3, ConcatProperties
      <3>5. y[1] = e
        BY <3>2, <3>4
      <3>6. ASSUME NEW x \in 1..b PROVE y[x + 1] = A[x]
        <4>1. x + 1 \in 1..(1 + b) /\ ~(x + 1 <= 1) /\ (x + 1) - 1 = x
          OBVIOUS
        <4> QED BY <3>4, <4>1
      <3> QED BY <3>2, <3>3, <3>4, <3>5, <3>6
    <2> QED BY <1>24, <2>1, <2>2
  <1>26. ASSUME NEW h \in K PROVE B[IndexOf(L[h]) + 1] = Shown(L[h])
    <2>1. PICK x \in 1..b : x = IndexOf(L[h]) /\ I[x + 1] = h - 1
      BY <1>8
    <2>2. h \in 1..n /\ (h - 1) + 1 = h
      BY <1>9
    <2>3. A[x] = values[I[x + 1] + 1].value
      BY <1>22
    <2>4. A[x] = values[h].value
      BY <2>1, <2>2, <2>3
    <2> QED BY <1>10, <1>25, <2>1, <2>2, <2>4
  <1>27. ASSUME NEW j \in P
         PROVE  /\ output[Rank(P, j)].columns = <<<<L[j].of, L[j].f>>>> /\ output[Rank(P, j)].values = <<Shown(L[j])>>
                /\ output[Rank(P, j)].keys = B
    <2>1. PICK r \in 1..d : r = Rank(P, j) /\ S[r] = values[j]
      BY <1>16, <1>17
    <2>2. output[r] = Row(values[j], A)
      <3>1. PICK t : t = output
        OBVIOUS
      <3>2. t = [q \in 1..d |-> Row(S[q], A)]
        BY <1>19, <3>1
      <3>3. t[r] = Row(S[r], A)
        BY <3>2
      <3> QED BY <2>1, <3>1, <3>3
    <2>3. j \in 1..n
      BY <1>13
    <2>4. /\ output[r].keys = <<Number(index2values[1])>> \o A
          /\ output[r].columns = <<values[j].field>> /\ output[r].values = <<values[j].value>>
      BY <2>2, RowIs
    <2> QED BY <1>5, <1>10, <1>24, <2>1, <2>3, <2>4, Zenon
  <1>28. Len(output) = Cardinality(rows)
    BY <1>12, <1>17, <1>20
  <1>29. ASSUME NEW j \in rows
         PROVE  LET row == output[Cardinality({h \in rows : h <= j})] IN
                    /\ row.columns = <<<<L[j].of, L[j].f>>>> /\ row.values = <<Shown(L[j])>>
                    /\ Len(row.keys) = Cardinality(keys) + 1 /\ row.keys[1] = Number(Ids[message.of])
                    /\ \A h \in keys : row.keys[IndexOf(L[h]) + 1] = Shown(L[h])
    <2>1. j \in P /\ Cardinality({h \in rows : h <= j}) = Rank(P, j)
      BY <1>12 DEF Rank
    <2>2. PICK row : row = output[Rank(P, j)]
      OBVIOUS
    <2>3. row.columns = <<<<L[j].of, L[j].f>>>> /\ row.values = <<Shown(L[j])>> /\ row.keys = B
      BY <1>27, <2>1, <2>2
    <2>4. Len(B) = Cardinality(keys) + 1 /\ B[1] = Number(Ids[message.of])
      BY <1>1, <1>7, <1>8, <1>9, <1>25
    <2>5. \A h \in keys : B[IndexOf(L[h]) + 1] = Shown(L[h])
      BY <1>9, <1>26
    <2> HIDE DEF rows, keys
    <2> QED BY <2>1, <2>2, <2>3, <2>4, <2>5, Zenon
  <1> QED BY <1>28, <1>29

\* The second kind of SQL writes each value of a message exactly once, under its own name
\* and below the identifier and the indexes of that message.
\* (fieldnamevalueindexstrings.cpp 83-105, 370-443)
THEOREM RowsAreComplete == ValuesSpec => []RowsTellAll
  BY ValuesInvariance, VInvRows, PTL

-----------------------------------------------------------------------------
(* Tables.                                                                  *)

Dialects == {"sqlite", "mysql", "postgresql", "firebird"}

\* A number is written as one, but with quotes if it is printed with an exponent, and
\* the column for its type holds it.
LEMMA ColumnHolds ==
    ASSUME NEW type \in Numeric, NEW val \in Held(type), NEW dialect \in Dialects
    PROVE  /\ ~isNumber(toString(type, val)) <=>
                 getSqlDialectTypeName(type, dialect) = "real" /\ toString(type, val).n \in Exponents
           /\ getSqlDialectTypeName(type, dialect) # "text"
           /\ ~(type = "uint64" /\ dialect \in {"sqlite", "firebird"}) =>
                 Holds(getSqlDialectTypeName(type, dialect), toString(type, val))
  <1>1. PICK a \in Nat \ {0} : a = Span[1]
    <2>1. 1 \in 0..Width
      OBVIOUS
    <2> QED BY <2>1, SpanFacts
  <1>2. PICK b \in Nat \ {0} : b = Span[Half] /\ 2 * a <= b
    <2>1. 1 \in 0..Width /\ Half \in 0..Width /\ 1 < Half
      BY Sizes
    <2> QED BY <1>1, <2>1, SpanGrows
  <1>3. PICK c \in Nat \ {0} : c = Span[Width] /\ 2 * b <= c
    <2>1. Width \in 0..Width /\ Half \in 0..Width /\ Half < Width
      BY Sizes
    <2> QED BY <1>2, <2>1, SpanGrows
  <1>4. PICK s \in Nat : s = Span[SizeOf[type]] /\ s \in {a, b, c}
    <2>1. SizeOf[type] \in {1, Half, Width}
      BY Sizes
    <2> QED BY <1>1, <1>2, <1>3, <2>1
  <1>5. PICK x \in 0..(s - 1) : val = Number(x)
    <2>1. Held(type) = {Number(n) : n \in 0..(s - 1)}
      BY <1>4, Zenon DEF Held
    <2> QED BY <2>1
  <1>6. x \in Nat /\ x < s
    OBVIOUS
  <1>7. \A y : Number(y).n = y /\ isNumber(Number(y))
    BY DEF Number, isNumber
  <1> DEFINE how == getSqlDialectTypeName(type, dialect)
  <1>14. CASE type \in {"double", "float"}
    <2>1. how = "real"
      BY <1>14 DEF getSqlDialectTypeName
    <2>2. \A t : Holds("real", t)
      BY DEF Holds
    <2>3. toString(type, val) = IF x \in Exponents THEN Exponent(x) ELSE Number(x)
      BY <1>5, <1>7, <1>14 DEF toString
    <2>4. Exponent(x).n = x /\ ~isNumber(Exponent(x))
      BY DEF Exponent, isNumber
    <2>5. toString(type, val).n = x /\ (isNumber(toString(type, val)) <=> x \notin Exponents)
      BY <1>7, <2>3, <2>4, Zenon
    <2> HIDE DEF how
    <2>6. ~isNumber(toString(type, val)) <=> how = "real" /\ toString(type, val).n \in Exponents
      BY <2>1, <2>5, Zenon
    <2> QED BY <2>1, <2>2, <2>6 DEF how
  <1> SUFFICES ASSUME type \notin {"double", "float"}
               PROVE  /\ isNumber(toString(type, val)) /\ how \notin {"text", "real"}
                      /\ ~(type = "uint64" /\ dialect \in {"sqlite", "firebird"}) => Holds(how, toString(type, val))
    BY <1>14
  <1> HIDE DEF how
  <1>8. PICK y \in Int : /\ toString(type, val) = Number(y)
                         /\ type \in {"int32", "int64", "enum"} => -s <= 2 * y /\ 2 * y < s
                         /\ type \notin {"int32", "int64", "enum"} => y = x
    <2>1. CASE type \in {"int32", "int64", "enum"}
      <3>1. toString(type, val) = Number(IF 2 * x >= s THEN x - s ELSE x)
        BY <1>4, <1>5, <1>7, <2>1 DEF toString
      <3>2. CASE 2 * x >= s
        <4>1. toString(type, val) = Number(x - s)
          BY <3>1, <3>2, Zenon
        <4>2. x - s \in Int /\ -s <= 2 * (x - s) /\ 2 * (x - s) < s
          BY <1>6, <3>2
        <4> QED BY <2>1, <4>1, <4>2
      <3>3. CASE ~(2 * x >= s)
        <4>1. toString(type, val) = Number(x)
          BY <3>1, <3>3, Zenon
        <4>2. x \in Int /\ -s <= 2 * x /\ 2 * x < s
          BY <1>6, <3>3
        <4> QED BY <2>1, <4>1, <4>2
      <3> QED BY <3>2, <3>3
    <2>2. CASE type \notin {"int32", "int64", "enum"}
      <3>1. type # "bytes"
        BY DEF Numeric
      <3>2. toString(type, val) = Number(x)
        BY <1>5, <2>2, <3>1 DEF toString
      <3> QED BY <1>6, <2>2, <3>2
    <2> QED BY <2>1, <2>2
  <1>9. isNumber(toString(type, val)) /\ toString(type, val).n = y
    BY <1>7, <1>8
  <1>10. \A h : Holds(h, toString(type, val)) <=>
                   CASE h = "int32" -> -b <= 2 * y /\ 2 * y < b
                     [] h = "int64" -> -c <= 2 * y /\ 2 * y < c
                     [] h = "uint32" -> 0 <= y /\ y < b
                     [] h = "uint64" -> 0 <= y /\ y < c
                     [] h \in {"digits20", "real"} -> TRUE
    BY <1>2, <1>3, <1>9, Zenon DEF Holds
  <1>11. type \in {"bool"} => s = a
    BY <1>1, <1>4 DEF SizeOf
  <1>12. type \in {"enum", "int32", "uint32"} => s = b
    BY <1>2, <1>4 DEF SizeOf
  <1>13. type \in {"int64", "uint64"} => s = c
    BY <1>3, <1>4 DEF SizeOf
  <1>15. CASE type = "bool"
    <2>1. how \in {"int32", "int64"}
      BY <1>15 DEF getSqlDialectTypeName, how
    <2>2. y = x /\ s = a
      BY <1>8, <1>11, <1>15
    <2>3. -b <= 2 * y /\ 2 * y < b /\ -c <= 2 * y /\ 2 * y < c
      BY <1>2, <1>3, <1>6, <2>2
    <2>4. how \notin {"text", "real"} /\ Holds(how, toString(type, val))
      BY <1>10, <2>1, <2>3
    <2> QED BY <1>9, <2>4
  <1>16. CASE type \in {"enum", "int32"}
    <2>1. how \in {"int32", "int64"}
      BY <1>16 DEF getSqlDialectTypeName, how
    <2>2. -b <= 2 * y /\ 2 * y < b
      BY <1>8, <1>12, <1>16
    <2>3. -c <= 2 * y /\ 2 * y < c
      BY <1>3, <2>2
    <2>4. how \notin {"text", "real"} /\ Holds(how, toString(type, val))
      BY <1>10, <2>1, <2>2, <2>3
    <2> QED BY <1>9, <2>4
  <1>17. CASE type = "int64"
    <2>1. how = "int64"
      BY <1>17 DEF getSqlDialectTypeName, how
    <2>2. -c <= 2 * y /\ 2 * y < c
      BY <1>8, <1>13, <1>17
    <2>3. how \notin {"text", "real"} /\ Holds(how, toString(type, val))
      BY <1>10, <2>1, <2>2
    <2> QED BY <1>9, <2>3
  <1>18. CASE type = "uint32"
    <2>1. how \in {"uint32", "int64"}
      BY <1>18 DEF getSqlDialectTypeName, how
    <2>2. y = x /\ s = b
      BY <1>8, <1>12, <1>18
    <2>3. 0 <= y /\ y < b /\ -c <= 2 * y /\ 2 * y < c
      BY <1>3, <1>6, <2>2
    <2>4. how \notin {"text", "real"} /\ Holds(how, toString(type, val))
      BY <1>10, <2>1, <2>3
    <2> QED BY <1>9, <2>4
  <1>19. CASE type = "uint64"
    <2>1. how \in {"uint64", "digits20", "int64"} /\ (how = "int64" => dialect \in {"sqlite", "firebird"})
      BY <1>19 DEF getSqlDialectTypeName, how, Dialects
    <2>2. y = x /\ s = c
      BY <1>8, <1>13, <1>19
    <2>3. 0 <= y /\ y < c
      BY <1>6, <2>2
    <2>4. how \notin {"text", "real"} /\ (dialect \notin {"sqlite", "firebird"} => Holds(how, toString(type, val)))
      BY <1>10, <2>1, <2>3
    <2> QED BY <1>9, <1>19, <2>4
  <1> QED BY <1>15, <1>16, <1>17, <1>18, <1>19 DEF Numeric

\* Text columns are for texts.
LEMMA ColumnIsText ==
    ASSUME NEW type \in {"string", "bytes"}, NEW dialect
    PROVE  getSqlDialectTypeName(type, dialect) = "text"
  BY DEF getSqlDialectTypeName

\* What a new message is made of.
LEMMA NewMessage ==
    ASSUME NEW k \in 1..N
    PROVE  /\ Len(getMessage(k)) = Len(Visited(k, FALSE)) /\ Len(getMessage(k)) \in Nat
           /\ \A j \in 1..Len(getMessage(k)) : /\ getMessage(k)[j].of = Visited(k, FALSE)[j].of
                                               /\ getMessage(k)[j].f = Visited(k, FALSE)[j].f
  <1>1. PICK s \in Seq(Scalars) : s = Visited(k, FALSE)
    BY VisitedType
  <1>2. PICK n \in Nat : n = Len(s)
    OBVIOUS
  <1> DEFINE D(j) == IF V(s[j].of)[s[j].f].type \in {"string", "bytes"} THEN Empty ELSE Number(0)
  <1>3. PICK g : g = getMessage(k)
    OBVIOUS
  <1>4. g = [j \in 1..n |-> Leaf(s[j].of, s[j].f, D(j))]
    BY <1>1, <1>2, <1>3, Zenon DEF getMessage
  <1> HIDE DEF D
  <1>5. Len(g) = n
    <2>1. g \in [1..n -> {Leaf(s[j].of, s[j].f, D(j)) : j \in 1..n}]
      BY <1>4
    <2> QED BY <2>1, FunctionIsSeq
  <1>6. \A j \in 1..n : g[j].of = s[j].of /\ g[j].f = s[j].f
    <2>1. \A j \in 1..n : g[j] = Leaf(s[j].of, s[j].f, D(j))
      BY <1>4
    <2>2. \A x, y, t : Leaf(x, y, t).of = x /\ Leaf(x, y, t).f = y
      BY DEF Leaf
    <2>3. ASSUME NEW j \in 1..n PROVE g[j].of = s[j].of /\ g[j].f = s[j].f
      BY <2>1, <2>2
    <2> QED BY <2>3
  <1> QED BY <1>1, <1>2, <1>3, <1>5, <1>6

\* Of a message without repeated fields a new one has the same fields.
LEMMA SameFields ==
    ASSUME NEW m_, m_.of \in 1..N, Conforms(m_), Single(m_.of)
    PROVE  /\ Len(getMessage(m_.of)) = Len(m_.leaves)
           /\ \A j \in 1..Len(m_.leaves) : /\ getMessage(m_.of)[j].of = m_.leaves[j].of
                                           /\ getMessage(m_.of)[j].f = m_.leaves[j].f
  <1>1. PICK n \in Nat : n = Len(m_.leaves)
    BY ConformsType
  <1>2. PICK S : S = Visited(m_.of, FALSE)
    OBVIOUS
  <1>3. PICK L : L = m_.leaves
    OBVIOUS
  <1>4. S = [j \in 1..n |-> [of |-> L[j].of, f |-> L[j].f]]
    BY <1>1, <1>2, <1>3, Zenon DEF Conforms
  <1>5. Len(S) = n /\ \A j \in 1..n : S[j].of = L[j].of /\ S[j].f = L[j].f
    <2>1. S \in [1..n -> {[of |-> L[j].of, f |-> L[j].f] : j \in 1..n}]
      BY <1>4
    <2>2. Len(S) = n
      BY <2>1, FunctionIsSeq
    <2>3. \A j \in 1..n : S[j] = [of |-> L[j].of, f |-> L[j].f]
      BY <1>4
    <2>4. ASSUME NEW j \in 1..n PROVE S[j].of = L[j].of /\ S[j].f = L[j].f
      <3>1. PICK a : a = L[j].of
        OBVIOUS
      <3>2. PICK b : b = L[j].f
        OBVIOUS
      <3>3. S[j] = [of |-> a, f |-> b]
        BY <2>3, <3>1, <3>2, Zenon
      <3> QED BY <3>1, <3>2, <3>3
    <2> QED BY <2>2, <2>4
  <1>6. PICK g : g = getMessage(m_.of)
    OBVIOUS
  <1>7. Len(g) = n
    BY <1>2, <1>5, <1>6, NewMessage
  <1>8. ASSUME NEW j \in 1..n PROVE g[j].of = L[j].of /\ g[j].f = L[j].f
    <2>1. g[j].of = S[j].of /\ g[j].f = S[j].f
      BY <1>2, <1>6, <1>7, NewMessage
    <2> QED BY <1>5, <2>1
  <1> QED BY <1>1, <1>3, <1>6, <1>7, <1>8

\* The names, the texts and the quotes of some values.
LEMMA ShownFields ==
    ASSUME NEW p \in Nat, NEW s, Len(s) = p
    PROVE  /\ Len(Names(s)) = p /\ Len(Texts(s)) = p /\ Len(Quotes(s)) = p
           /\ \E A : Names(s) \in Seq(A)
           /\ \E A : Texts(s) \in Seq(A)
           /\ \E A : Quotes(s) \in Seq(A)
  <1>1. /\ Names(s) = [r \in 1..p |-> s[r].field] /\ Texts(s) = [r \in 1..p |-> s[r].value]
        /\ Quotes(s) = [r \in 1..p |-> Quoted(s[r])]
    BY Zenon DEF Names, Texts, Quotes
  <1>3. /\ Names(s) \in [1..p -> {s[r].field : r \in 1..p}] /\ Texts(s) \in [1..p -> {s[r].value : r \in 1..p}]
        /\ Quotes(s) \in [1..p -> {Quoted(s[r]) : r \in 1..p}]
    BY <1>1
  <1>4. /\ Names(s) \in Seq({s[r].field : r \in 1..p}) /\ Len(Names(s)) = p
        /\ Texts(s) \in Seq({s[r].value : r \in 1..p}) /\ Len(Texts(s)) = p
        /\ Quotes(s) \in Seq({Quoted(s[r]) : r \in 1..p}) /\ Len(Quotes(s)) = p
    BY <1>3, FunctionIsSeq
  <1> QED BY <1>4, Zenon

\* Joined to another sequence, the first one stays in its place.
LEMMA JoinedLength ==
    ASSUME NEW A, NEW B, NEW p \in Seq(A), NEW q \in Seq(B)
    PROVE  Len(p \o q) = Len(p) + Len(q)
  <1>1. p \in Seq(A \cup B) /\ q \in Seq(A \cup B)
    OBVIOUS
  <1> QED BY <1>1, ConcatProperties

LEMMA JoinedAt ==
    ASSUME NEW A, NEW B, NEW p \in Seq(A), NEW q \in Seq(B), NEW j \in 1..Len(p)
    PROVE  (p \o q)[j] = p[j]
  <1>1. p \in Seq(A \cup B) /\ q \in Seq(A \cup B)
    OBVIOUS
  <1>2. PICK r : r = p \o q
    OBVIOUS
  <1>3. \A h \in 1..(Len(p) + Len(q)) : r[h] = IF h <= Len(p) THEN p[h] ELSE q[h - Len(p)]
    BY <1>1, <1>2, ConcatProperties
  <1>4. j <= Len(p) /\ j \in 1..(Len(p) + Len(q))
    OBVIOUS
  <1> QED BY <1>2, <1>3, <1>4

LEMMA ShownAt ==
    ASSUME NEW s, NEW r \in 1..Len(s)
    PROVE  Names(s)[r] = s[r].field /\ Texts(s)[r] = s[r].value /\ Quotes(s)[r] = Quoted(s[r])
  BY DEF Names, Texts, Quotes

LEMMA PropertyParts ==
    /\ Len(Properties) \in Nat
    /\ PropertyNames \in Seq({PropertyNames[j] : j \in 1..Len(Properties)}) /\ Len(PropertyNames) = Len(Properties)
    /\ PropertyTexts \in Seq({PropertyTexts[j] : j \in 1..Len(Properties)}) /\ Len(PropertyTexts) = Len(Properties)
    /\ PropertyQuotes \in Seq({PropertyQuotes[j] : j \in 1..Len(Properties)}) /\ Len(PropertyQuotes) = Len(Properties)
  <1>1. PICK n \in Nat : n = Len(Properties)
    BY PropertiesAssumption
  <1>2. /\ PropertyNames \in [1..n -> {PropertyNames[j] : j \in 1..n}]
        /\ PropertyTexts \in [1..n -> {PropertyTexts[j] : j \in 1..n}]
        /\ PropertyQuotes \in [1..n -> {PropertyQuotes[j] : j \in 1..n}]
    BY <1>1 DEF PropertyNames, PropertyTexts, PropertyQuotes
  <1> QED BY <1>1, <1>2, FunctionIsSeq

\* A message and the table that is made for it.
LEMMA VInvSchema == VInv => SchemaFits
  <1> SUFFICES ASSUME VInv, stage = "written", mode = "sql", output # <<>>, Single(message.of),
                      \A j \in 1..Len(message.leaves) : ~V(message.leaves[j].of)[message.leaves[j].f].format,
                      NEW dialect \in {"sqlite", "mysql", "postgresql", "firebird"}
               PROVE  LET C == toCreateSQLTableFields(message.of, dialect)
                          S == output[1]
                      IN  /\ Len(S.columns) = Len(C) + Len(Properties)
                          /\ Len(S.values) = Len(S.columns)
                          /\ \A j \in 1..Len(C) :
                                /\ S.columns[j] = C[j].name
                                /\ S.quoted[j] <=> InQuotes(C[j], S.values[j])
                                /\ ~S.quoted[j] /\ ~(V(C[j].name[1])[C[j].name[2]].type = "uint64" /\ dialect \in {"sqlite", "firebird"})
                                      => Holds(C[j].type, S.values[j])
    BY Zenon DEF SchemaFits, Fits
  <1>1. PICK c : c = message
    OBVIOUS
  <1>2. PICK L : L = c.leaves
    OBVIOUS
  <1>3. c.of \in 1..N /\ Conforms(c) /\ Single(c.of)
    BY <1>1 DEF VInv, InHand
  <1>4. PICK n \in Nat : n = Len(L)
    BY <1>2, <1>3, ConformsType
  <1>5. \A j \in 1..n : ~V(L[j].of)[L[j].f].format
    BY <1>1, <1>2, <1>4
  <1>6. values = Decomposed(c, n) /\ output = toStringInsert
    <2>1. PICK w \in 0..Len(c.leaves) : values = Decomposed(c, w) /\ w = Len(c.leaves)
      BY <1>1 DEF VInv, Added
    <2>2. output = toStringInsert
      BY DEF VInv, Put_
    <2> QED BY <1>2, <1>4, <2>1, <2>2, Zenon
  <1>7. PICK w : w = values
    OBVIOUS
  <1>8. /\ Len(w) = n
        /\ \A j \in 1..n : /\ w[j].hidden = V(L[j].of)[L[j].f].hidden /\ w[j].type = V(L[j].of)[L[j].f].type
                           /\ w[j].field = <<L[j].of, L[j].f>> /\ w[j].value = Shown(L[j])
    BY <1>2, <1>6, <1>7, DecomposedIs
  <1>9. PICK P : P = {j \in 1..n : ~V(L[j].of)[L[j].f].hidden}
    OBVIOUS
  <1>10. P \in SUBSET (1..n)
    BY <1>9
  <1>11. PICK s : s = Picked(w, P)
    OBVIOUS
  <1>12. Visible(w) = s
    <2>1. {j \in 1..Len(w) : ~w[j].hidden} = P
      BY <1>8, <1>9
    <2> QED BY <1>11, <2>1, Zenon DEF Visible
  <1>13. PICK p \in Nat : p = Cardinality(P)
    BY <1>10, PickedIs
  <1>14. ASSUME NEW r \in 1..p PROVE s[r] = w[Nth(P, r)] /\ Nth(P, r) \in P
    <2>1. r \in 1..Cardinality(P)
      BY <1>13
    <2>2. Picked(w, P)[r] = w[Nth(P, r)]
      BY <1>10, <2>1, PickedRank
    <2>3. Nth(P, r) \in P
      BY <1>10, <2>1, PickedIs
    <2> QED BY <1>11, <2>2, <2>3, Zenon
  \* The statement.
  <1>15. output[1] = Statement(c.of, <<>>, Names(s) \o PropertyNames, Texts(s) \o PropertyTexts, Quotes(s) \o PropertyQuotes)
    <2>1. PICK x : x = Statement(c.of, <<>>, Names(s) \o PropertyNames, Texts(s) \o PropertyTexts, Quotes(s) \o PropertyQuotes)
      OBVIOUS
    <2>2. toStringInsert = <<x>> \/ toStringInsert = <<>>
      BY <1>1, <1>7, <1>12, <2>1, Zenon DEF toStringInsert
    <2>3. output = <<x>>
      BY <1>6, <2>2
    <2> QED BY <2>1, <2>3
  <1>16. /\ output[1].columns = Names(s) \o PropertyNames /\ output[1].values = Texts(s) \o PropertyTexts
         /\ output[1].quoted = Quotes(s) \o PropertyQuotes
    BY <1>15 DEF Statement
  <1>17. PICK q \in Nat : q = Len(Properties)
    BY PropertyParts
  <1>18. Len(s) = p
    BY <1>10, <1>11, <1>13, PickedIs
  <1>19. Len(output[1].columns) = p + q /\ \A r \in 1..p : output[1].columns[r] = s[r].field
    <2>1. PICK A : Names(s) \in Seq(A)
      BY <1>18, ShownFields, Zenon
    <2>2. PICK B : PropertyNames \in Seq(B)
      BY PropertyParts, Zenon
    <2>3. PICK a \in Seq(A) : a = Names(s) /\ Len(a) = p
      BY <1>18, <2>1, ShownFields
    <2>4. PICK b \in Seq(B) : b = PropertyNames /\ Len(b) = q
      BY <1>17, <2>2, PropertyParts
    <2>5. ASSUME NEW r \in 1..p PROVE a[r] = s[r].field
      <3>1. r \in 1..Len(s)
        BY <1>18
      <3> QED BY <2>3, <3>1, ShownAt
    <2>6. Len(a \o b) = p + q
      BY <2>3, <2>4, JoinedLength
    <2>7. ASSUME NEW r \in 1..p PROVE (a \o b)[r] = a[r]
      <3>1. r \in 1..Len(a)
        BY <2>3
      <3> QED BY <3>1, JoinedAt
    <2> QED BY <1>16, <2>3, <2>4, <2>5, <2>6, <2>7, Zenon
  <1>20. Len(output[1].values) = p + q /\ \A r \in 1..p : output[1].values[r] = s[r].value
    <2>1. PICK A : Texts(s) \in Seq(A)
      BY <1>18, ShownFields, Zenon
    <2>2. PICK B : PropertyTexts \in Seq(B)
      BY PropertyParts, Zenon
    <2>3. PICK a \in Seq(A) : a = Texts(s) /\ Len(a) = p
      BY <1>18, <2>1, ShownFields
    <2>4. PICK b \in Seq(B) : b = PropertyTexts /\ Len(b) = q
      BY <1>17, <2>2, PropertyParts
    <2>5. ASSUME NEW r \in 1..p PROVE a[r] = s[r].value
      <3>1. r \in 1..Len(s)
        BY <1>18
      <3> QED BY <2>3, <3>1, ShownAt
    <2>6. Len(a \o b) = p + q
      BY <2>3, <2>4, JoinedLength
    <2>7. ASSUME NEW r \in 1..p PROVE (a \o b)[r] = a[r]
      <3>1. r \in 1..Len(a)
        BY <2>3
      <3> QED BY <3>1, JoinedAt
    <2> QED BY <1>16, <2>3, <2>4, <2>5, <2>6, <2>7, Zenon
  <1>21. \A r \in 1..p : output[1].quoted[r] = Quoted(s[r])
    <2>1. PICK A : Quotes(s) \in Seq(A)
      BY <1>18, ShownFields, Zenon
    <2>2. PICK B : PropertyQuotes \in Seq(B)
      BY PropertyParts, Zenon
    <2>3. PICK a \in Seq(A) : a = Quotes(s) /\ Len(a) = p
      BY <1>18, <2>1, ShownFields
    <2>4. PICK b \in Seq(B) : b = PropertyQuotes /\ Len(b) = q
      BY <1>17, <2>2, PropertyParts
    <2>5. ASSUME NEW r \in 1..p PROVE a[r] = Quoted(s[r])
      <3>1. r \in 1..Len(s)
        BY <1>18
      <3> QED BY <2>3, <3>1, ShownAt
    <2>7. ASSUME NEW r \in 1..p PROVE (a \o b)[r] = a[r]
      <3>1. r \in 1..Len(a)
        BY <2>3
      <3> QED BY <3>1, JoinedAt
    <2> QED BY <1>16, <2>3, <2>4, <2>5, <2>7, Zenon
  \* The table.
  <1>22. PICK g : g = getMessage(c.of)
    OBVIOUS
  <1>23. Len(g) = n /\ \A j \in 1..n : g[j].of = L[j].of /\ g[j].f = L[j].f
    BY <1>2, <1>3, <1>4, <1>22, SameFields
  <1>24. PICK G : G = Picked(g, P)
    OBVIOUS
  <1>25. Len(G) = p /\ \A r \in 1..p : G[r] = g[Nth(P, r)]
    <2>1. Len(G) = p
      BY <1>10, <1>13, <1>24, PickedIs
    <2>2. ASSUME NEW r \in 1..p PROVE G[r] = g[Nth(P, r)]
      <3>1. r \in 1..Cardinality(P)
        BY <1>13
      <3>2. Picked(g, P)[r] = g[Nth(P, r)]
        BY <1>10, <3>1, PickedRank
      <3> QED BY <1>24, <3>2, Zenon
    <2> QED BY <2>1, <2>2
  <1>26. PICK C : C = toCreateSQLTableFields(message.of, dialect)
    OBVIOUS
  <1>27. C = [j \in 1..p |-> Column(G[j], dialect)]
    <2>1. {j \in 1..Len(g) : ~V(g[j].of)[g[j].f].hidden} = P
      BY <1>9, <1>23
    <2> QED BY <1>1, <1>22, <1>24, <1>25, <1>26, <2>1, Zenon DEF toCreateSQLTableFields
  <1>28. Len(C) = p
    <2>1. C \in [1..p -> {Column(G[j], dialect) : j \in 1..p}]
      BY <1>27
    <2> QED BY <2>1, FunctionIsSeq
  <1>29. ASSUME NEW j \in 1..p
         PROVE  /\ output[1].columns[j] = C[j].name
                /\ output[1].quoted[j] <=> InQuotes(C[j], output[1].values[j])
                /\ ~output[1].quoted[j] /\ ~(V(C[j].name[1])[C[j].name[2]].type = "uint64" /\ dialect \in {"sqlite", "firebird"})
                      => Holds(C[j].type, output[1].values[j])
    <2>1. PICK h \in 1..n : h = Nth(P, j)
      BY <1>10, <1>14
    <2>2. PICK l : l = L[h]
      OBVIOUS
    <2>3. PICK type : type = V(l.of)[l.f].type
      OBVIOUS
    <2>4. s[j].type = type /\ s[j].field = <<l.of, l.f>> /\ s[j].value = Shown(l)
      BY <1>8, <1>14, <2>1, <2>2, <2>3
    <2>5. C[j].name = <<l.of, l.f>> /\ C[j].type = getSqlDialectTypeName(type, dialect)
      <3>1. C[j] = Column(G[j], dialect)
        BY <1>27
      <3>2. G[j].of = l.of /\ G[j].f = l.f
        BY <1>23, <1>25, <2>1, <2>2
      <3>3. C[j] = [name |-> <<l.of, l.f>>, type |-> getSqlDialectTypeName(type, dialect)]
        BY <2>3, <3>1, <3>2, Zenon DEF Column
      <3> QED BY <3>3
    <2>6. l.of \in 1..N /\ l.f \in 1..Len(V(l.of)) /\ type # "message" /\ l.val \in Held(type)
      <3>1. L[h] \in [of : 1..N, f : Nat, val : Text]
        BY <1>2, <1>3, <1>4, ConformsType
      <3>2. l.f \in 1..Len(V(l.of)) /\ type # "message" /\ l.val \in Held(type)
        BY <1>2, <1>3, <1>4, <2>2, <2>3, Zenon DEF Conforms
      <3> QED BY <2>2, <3>1, <3>2
    <2>7. type \in Numeric \cup {"string", "bytes"}
      <3>1. V(l.of)[l.f] \in Variable
        BY <2>6, VariableFacts
      <3> QED BY <2>3, <2>6, <3>1 DEF Variable
    <2>8. Shown(l) = toString(type, l.val)
      <3>1. ~V(l.of)[l.f].format
        BY <1>5, <2>2
      <3> QED BY <2>3, <3>1, Zenon DEF Shown, format
    <2>9. output[1].columns[j] = C[j].name
      BY <1>19, <2>4, <2>5
    <2>10. output[1].quoted[j] = (type \in {"string", "bytes"} \/ ~isNumber(toString(type, l.val)))
      BY <1>21, <2>4, <2>8, Zenon DEF Quoted
    <2>11. output[1].values[j] = toString(type, l.val)
      BY <1>20, <2>4, <2>8
    <2>12. CASE type \in {"string", "bytes"}
      <3>1. C[j].type = "text"
        BY <2>5, <2>12, ColumnIsText
      <3>2. output[1].quoted[j]
        BY <2>10, <2>12
      <3> QED BY <2>9, <3>1, <3>2, Zenon DEF InQuotes
    <2>13. CASE type \in Numeric
      <3>1. type \notin {"string", "bytes"}
        BY <2>13 DEF Numeric
      <3>2. dialect \in Dialects
        BY DEF Dialects
      <3>3. /\ ~isNumber(toString(type, l.val)) <=> C[j].type = "real" /\ toString(type, l.val).n \in Exponents
            /\ C[j].type # "text"
            /\ ~(type = "uint64" /\ dialect \in {"sqlite", "firebird"}) => Holds(C[j].type, toString(type, l.val))
        BY <2>5, <2>6, <2>13, <3>2, ColumnHolds
      <3>4. output[1].quoted[j] <=> InQuotes(C[j], output[1].values[j])
        BY <2>10, <2>11, <3>1, <3>3, Zenon DEF InQuotes
      <3>5. V(C[j].name[1])[C[j].name[2]].type = type
        BY <2>3, <2>5
      <3> QED BY <2>9, <2>11, <3>3, <3>4, <3>5, Zenon
    <2> QED BY <2>7, <2>12, <2>13
  <1> QED BY <1>17, <1>19, <1>20, <1>26, <1>28, <1>29, Zenon

\* The INSERT of a message without repeated fields fits the table that CREATE TABLE makes
\* for its type, in each dialect; of the values that are no texts only doubles printed with
\* an exponent are in quotes. (fieldnamevalueindexstrings.cpp 122-362)
THEOREM InsertsFitTables == ValuesSpec => []SchemaFits
  BY ValuesInvariance, VInvSchema, PTL
=============================================================================
