------------------------ MODULE ConfigurationProofs ------------------------
(***************************************************************************)
(* Proofs about the configuration of pkt2 and the buses, for every set of      *)
(* files, every build and every number of loads:                             *)
(*                                                                           *)
(*   ConfigurationType       the loader's state has its type;                 *)
(*   ReloadIsIdempotent      a reload of the same pkt2.js changes nothing;    *)
(*   ProgramsObey            the programs hold what the file last loaded sets;*)
(*   RefusedOnlyForAReason   they refuse a command line exactly for the       *)
(*                           reasons in Startable;                            *)
(*   BusesKeepConfiguration  the above holds with programs that crash and      *)
(*                           tools that a user starts;                        *)
(*   PipelineStaysLinked     receivers, handlers and dumpers are linked to     *)
(*                           pkt2receiver while it is up.                     *)
(*                                                                           *)
(* ProgramsObey and RefusedOnlyForAReason are about what parseCmd() of    *)
(* ten programs makes of what args() of the loader puts together.  A command   *)
(* line is a sequence of parts, each with the arguments of one option; what    *)
(* argtable finds of an option is therefore that part (OccurrencesConcat, by   *)
(* induction over the arguments).                                            *)
(* For each program, its *Line lemma says which part each option has, its      *)
(* *Config lemma what each field of its Config makes of that part, and its     *)
(* *Served lemma that these are the settings of the entry.                    *)
(***************************************************************************)
EXTENDS Buses, FiniteSetTheorems, WellFoundedInduction, SequenceTheorems, TLAPS

-----------------------------------------------------------------------------
(* What argtable finds among the arguments of a command line.              *)

\* A set of numbers has a least one: the intervals up to them are finite sets, and
\* the strict subsets of finite sets are well founded.
LEMMA Least ==
    ASSUME NEW K, K \subseteq Nat, K # {}
    PROVE  \E m \in K : \A k \in K : m <= k
  <1> DEFINE T == {1..k : k \in K}
             R == StrictSubsetOrdering(Nat)
  <1>1. T \subseteq FiniteSubsetsOf(Nat) /\ T # {}
    <2> SUFFICES ASSUME NEW k \in K PROVE 1..k \in FiniteSubsetsOf(Nat)
      OBVIOUS
    <2>1. IsFiniteSet(1..k)
      BY FS_Interval
    <2> QED BY <2>1 DEF FiniteSubsetsOf
  <1>2. IsWellFoundedOn(R, FiniteSubsetsOf(Nat))
    BY FS_StrictSubsetOrderingWellFounded
  <1>3. PICK x \in T : \A y \in T : ~(<<y, x>> \in R)
    <2> HIDE DEF T, R
    <2> QED BY <1>1, <1>2, WFMin
  <1>4. PICK m \in K : x = 1..m
    OBVIOUS
  <1>5. ASSUME NEW k \in K, k < m PROVE FALSE
    <2>1. 1..k \subseteq 1..m /\ 1..k # 1..m /\ 1..k \in SUBSET Nat /\ 1..m \in SUBSET Nat
      <3>1. m \in 1..m /\ m \notin 1..k
        BY <1>5
      <3> QED BY <1>5, <3>1
    <2>2. <<1..k, 1..m>> \in R
      BY <2>1 DEF StrictSubsetOrdering
    <2> QED BY <2>2, <1>3, <1>4
  <1> QED BY <1>5

\* Induction over numbers, for a set of them.
LEMMA Induction ==
    ASSUME NEW P, 0 \in P, \A n \in Nat : n \in P => n + 1 \in P
    PROVE  \A n \in Nat : n \in P
  <1> DEFINE K == {n \in Nat : n \notin P}
  <1>1. K = {}
    <2> SUFFICES ASSUME K # {} PROVE FALSE
      OBVIOUS
    <2>1. K \subseteq Nat
      OBVIOUS
    <2>2. PICK m \in K : \A k \in K : m <= k
      <3> HIDE DEF K
      <3> QED BY <2>1, Least
    <2>3. m # 0 /\ m - 1 \in Nat /\ m - 1 \notin K
      BY <2>2
    <2> QED BY <2>3
  <1> QED BY <1>1

\* One turn of the loop over the arguments.
Found(f, line, o, n) ==
    IF n = 0 THEN <<>> ELSE IF line[n].opt = o THEN Append(f[n - 1], line[n]) ELSE f[n - 1]

\* f are the arguments found among the first so many, for each number up to n.
Finds(f, line, o, n) == f = [k \in 0..n |-> Found(f, line, o, k)]

\* There is such a function for every number of arguments.
LEMMA FindsExists ==
    ASSUME NEW line, NEW o
    PROVE  \A n \in Nat : \E f : Finds(f, line, o, n)
  <1> DEFINE P == {n \in Nat : \E f : Finds(f, line, o, n)}
  <1>1. 0 \in P
    <2> DEFINE f == [k \in 0..0 |-> <<>>]
    <2>1. f = [k \in 0..0 |-> Found(f, line, o, k)]
      BY DEF Found
    <2> QED BY <2>1 DEF Finds
  <1>2. ASSUME NEW n \in Nat, n \in P PROVE n + 1 \in P
    <2>1. PICK f : Finds(f, line, o, n)
      BY <1>2
    <2> DEFINE g == [k \in 0..(n + 1) |-> Found(f, line, o, k)]
    <2>2. ASSUME NEW k \in 0..(n + 1) PROVE Found(g, line, o, k) = Found(f, line, o, k)
      <3>1. CASE k = 0
        BY <3>1 DEF Found
      <3>2. CASE k # 0
        <4>1. k - 1 \in 0..n /\ k - 1 \in 0..(n + 1)
          BY <3>2
        <4>2. f[k - 1] = Found(f, line, o, k - 1) /\ g[k - 1] = Found(f, line, o, k - 1)
          BY <4>1, <2>1 DEF Finds
        <4> QED BY <4>2 DEF Found
      <3> QED BY <3>1, <3>2
    <2>3. g = [k \in 0..(n + 1) |-> Found(g, line, o, k)]
      BY <2>2
    <2>4. Finds(g, line, o, n + 1)
      BY <2>3 DEF Finds
    <2> HIDE DEF g
    <2> QED BY <2>4
  <1>3. \A n \in Nat : n \in P
    <2> HIDE DEF P
    <2> QED BY <1>1, <1>2, Induction
  <1> QED BY <1>3

\* Occurrences is defined by such a function over the whole line.
LEMMA OccurrencesFound ==
    ASSUME NEW line, NEW o, Len(line) \in Nat
    PROVE  \E f : Finds(f, line, o, Len(line)) /\ Occurrences(line, o) = f[Len(line)]
  <1> DEFINE f == CHOOSE f : f = [n \in 0..Len(line) |->
                    IF n = 0 THEN <<>> ELSE IF line[n].opt = o THEN Append(f[n - 1],
                            line[n]) ELSE f[n - 1]]
  <1>1. Occurrences(line, o) = f[Len(line)]
    BY DEF Occurrences
  <1>2. Finds(f, line, o, Len(line))
    <2>1. PICK g : Finds(g, line, o, Len(line))
      BY FindsExists
    <2>2. g = [n \in 0..Len(line) |->
                    IF n = 0 THEN <<>> ELSE IF line[n].opt = o THEN Append(g[n - 1],
                            line[n]) ELSE g[n - 1]]
      BY <2>1 DEF Finds, Found
    <2>3. f = [n \in 0..Len(line) |->
                    IF n = 0 THEN <<>> ELSE IF line[n].opt = o THEN Append(f[n - 1],
                            line[n]) ELSE f[n - 1]]
      BY <2>2
    <2> QED BY <2>3 DEF Finds, Found
  <1> QED BY <1>1, <1>2

NoArgs == <<>>
Joined(a, b) == a \o b
Upto(s, n) == SubSeq(s, 1, n)

\* What is found after argument x, if a was found before it.
Grown(x, o, a) == IF x.opt = o THEN Append(a, x) ELSE a

GrowsBy(f, line, o, n) == f[0] = NoArgs /\ \A k \in 0..(n - 1) : f[k + 1] = Grown(line[k + 1], o, f[k])

\* From one argument to the next, such a function appends an argument of the option
\* and leaves out the others.
LEMMA FindsStep ==
    ASSUME NEW line, NEW o, NEW n \in Nat, NEW f, Finds(f, line, o, n)
    PROVE  GrowsBy(f, line, o, n)
  <1>1. \A k \in 0..n : f[k] = Found(f, line, o, k)
    BY DEF Finds
  <1>2. f[0] = NoArgs
    BY <1>1 DEF Found, NoArgs
  <1>3. ASSUME NEW k \in 0..(n - 1) PROVE f[k + 1] = Grown(line[k + 1], o, f[k])
    <2>1. k + 1 \in 0..n /\ k + 1 # 0 /\ (k + 1) - 1 = k
      OBVIOUS
    <2> QED BY <1>1, <2>1 DEF Found, Grown
  <1> QED BY <1>2, <1>3 DEF GrowsBy

\* What is found stays a sequence of arguments.
LEMMA GrownType ==
    ASSUME NEW S, NEW x \in S, NEW a \in Seq(S), NEW o
    PROVE  Grown(x, o, a) \in Seq(S)
  BY DEF Grown

\* An argument is appended to two sequences put together as it is to the second.
LEMMA GrownJoined ==
    ASSUME NEW S, NEW x \in S, NEW a \in Seq(S), NEW b \in Seq(S), NEW o
    PROVE  Grown(x, o, Joined(a, b)) = Joined(a, Grown(x, o, b))
  <1>1. CASE x.opt = o
    <2>1. Append(a \o b, x) = a \o Append(b, x)
      OBVIOUS
    <2> QED BY <1>1, <2>1 DEF Grown, Joined
  <1>2. CASE x.opt # o
    BY <1>2 DEF Grown, Joined
  <1> QED BY <1>1, <1>2

\* No arguments put before or after others make no difference.
LEMMA JoinedNothing ==
    ASSUME NEW S, NEW a \in Seq(S)
    PROVE  Joined(a, NoArgs) = a /\ Joined(NoArgs, a) = a /\ NoArgs \in Seq(S)
  BY ConcatEmptySeq DEF Joined, NoArgs

\* If all arguments are of one option, each turn finds one more.
LEMMA UptoGrown ==
    ASSUME NEW S, NEW s \in Seq(S)
    PROVE  /\ Upto(s, 0) = NoArgs /\ Upto(s, Len(s)) = s
           /\ \A o : \A n \in 0..(Len(s) - 1) : s[n + 1].opt = o => Grown(s[n + 1], o, Upto(s,
                 n)) = Upto(s, n + 1)
  <1>1. Upto(s, 0) = NoArgs
    BY DEF Upto, NoArgs
  <1>2. Upto(s, Len(s)) = s
    BY DEF Upto
  <1>3. ASSUME NEW o, NEW n \in 0..(Len(s) - 1), s[n + 1].opt = o
        PROVE  Grown(s[n + 1], o, Upto(s, n)) = Upto(s, n + 1)
    <2>1. Append(SubSeq(s, 1, n), s[n + 1]) = SubSeq(s, 1, n + 1)
      OBVIOUS
    <2> QED BY <1>3, <2>1 DEF Grown, Upto
  <1> QED BY <1>1, <1>2, <1>3

\* The arguments found are arguments of the line.
LEMMA FindsType ==
    ASSUME NEW S, NEW line \in Seq(S), NEW o, NEW f, Finds(f, line, o, Len(line))
    PROVE  \A n \in 0..Len(line) : f[n] \in Seq(S)
  <1> DEFINE P == {n \in Nat : n <= Len(line) => f[n] \in Seq(S)}
  <1>0. Len(line) \in Nat
    OBVIOUS
  <1>g. GrowsBy(f, line, o, Len(line))
    BY <1>0, FindsStep
  <1>1. 0 \in P
    BY <1>0, <1>g, JoinedNothing DEF GrowsBy
  <1>2. ASSUME NEW n \in Nat, n \in P PROVE n + 1 \in P
    <2> SUFFICES ASSUME n + 1 <= Len(line) PROVE f[n + 1] \in Seq(S)
      OBVIOUS
    <2>1. n \in 0..(Len(line) - 1) /\ f[n] \in Seq(S) /\ line[n + 1] \in S
      BY <1>0, <1>2
    <2>2. f[n + 1] = Grown(line[n + 1], o, f[n])
      BY <1>g, <2>1 DEF GrowsBy
    <2> QED BY <2>1, <2>2, GrownType
  <1>3. \A n \in Nat : n \in P
    <2> HIDE DEF P
    <2> QED BY <1>1, <1>2, Induction
  <1> QED BY <1>0, <1>3

\* The arguments of an option in two lines put together.
LEMMA OccurrencesConcat ==
    ASSUME NEW S, NEW s \in Seq(S), NEW t \in Seq(S), NEW o
    PROVE  /\ Occurrences(Joined(s, t), o) = Joined(Occurrences(s, o), Occurrences(t, o))
           /\ Occurrences(s, o) \in Seq(S)
  <1> DEFINE st == s \o t
  <1>0. /\ Len(s) \in Nat /\ Len(t) \in Nat /\ Len(st) = Len(s) + Len(t)
        /\ st \in Seq(S)
        /\ \A k \in 1..Len(s) : st[k] = s[k]
        /\ \A k \in 1..Len(t) : st[Len(s) + k] = t[k]
    BY ConcatProperties
  <1>a. Len(st) \in Nat
    BY <1>0
  <1> HIDE DEF st
  <1>1. PICK f : Finds(f, st, o, Len(st)) /\ Occurrences(st, o) = f[Len(st)]
    BY <1>a, OccurrencesFound
  <1>2. PICK g : Finds(g, s, o, Len(s)) /\ Occurrences(s, o) = g[Len(s)]
    BY <1>0, OccurrencesFound
  <1>3. PICK h : Finds(h, t, o, Len(t)) /\ Occurrences(t, o) = h[Len(t)]
    BY <1>0, OccurrencesFound
  <1>4. GrowsBy(f, st, o, Len(st))
    BY <1>a, <1>1, FindsStep
  <1>5. GrowsBy(g, s, o, Len(s)) /\ GrowsBy(h, t, o, Len(t))
    BY <1>0, <1>2, <1>3, FindsStep
  <1>6. /\ \A n \in 0..Len(s) : g[n] \in Seq(S)
        /\ \A n \in 0..Len(t) : h[n] \in Seq(S)
    BY <1>2, <1>3, FindsType
  <1>7. f[Len(s)] = g[Len(s)]
    <2> DEFINE P == {n \in Nat : n <= Len(s) => f[n] = g[n]}
    <2>1. 0 \in P
      BY <1>4, <1>5 DEF GrowsBy
    <2>2. ASSUME NEW n \in Nat, n \in P PROVE n + 1 \in P
      <3> SUFFICES ASSUME n + 1 <= Len(s) PROVE f[n + 1] = g[n + 1]
        OBVIOUS
      <3>1. n \in 0..(Len(s) - 1) /\ n \in 0..(Len(st) - 1) /\ n + 1 \in 1..Len(s) /\ f[n] = g[n]
        BY <1>0, <2>2
      <3>2. Grown(st[n + 1], o, f[n]) = Grown(s[n + 1], o, g[n])
        BY <1>0, <3>1 DEF GrowsBy, Grown
      <3> QED BY <1>4, <1>5, <3>1, <3>2 DEF GrowsBy
    <2>3. \A n \in Nat : n \in P
      <3> HIDE DEF P
      <3> QED BY <2>1, <2>2, Induction
    <2> QED BY <1>0, <2>3
  <1>8. f[Len(s) + Len(t)] = Joined(g[Len(s)], h[Len(t)])
    <2> DEFINE P == {n \in Nat : n <= Len(t) => f[Len(s) + n] = Joined(g[Len(s)], h[n])}
    <2>0. g[Len(s)] \in Seq(S)
      BY <1>0, <1>6
    <2>1. 0 \in P
      <3>1. Joined(g[Len(s)], NoArgs) = g[Len(s)]
        BY <2>0, JoinedNothing
      <3>2. Len(s) + 0 = Len(s)
        BY <1>0
      <3> QED BY <1>5, <1>7, <3>1, <3>2 DEF GrowsBy
    <2>2. ASSUME NEW n \in Nat, n \in P PROVE n + 1 \in P
      <3> SUFFICES ASSUME n + 1 <= Len(t) PROVE f[Len(s) + (n + 1)] = Joined(g[Len(s)], h[n + 1])
        OBVIOUS
      <3>0. f[Len(s) + n] = Joined(g[Len(s)], h[n])
        <4>1. n <= Len(t)
          BY <1>0
        <4> QED BY <2>2, <4>1
      <3>a. /\ n \in 0..(Len(t) - 1) /\ Len(s) + n \in 0..(Len(st) - 1) /\ n + 1 \in 1..Len(t)
            /\ Len(s) + (n + 1) = (Len(s) + n) + 1
        <4> HIDE DEF P
        <4> QED BY <1>0
      <3>1. /\ n \in 0..(Len(t) - 1) /\ Len(s) + n \in 0..(Len(st) - 1) /\ n + 1 \in 1..Len(t)
            /\ Len(s) + (n + 1) = (Len(s) + n) + 1
            /\ f[Len(s) + n] = Joined(g[Len(s)], h[n])
        BY <3>0, <3>a, Zenon
      <3>2. st[(Len(s) + n) + 1] = t[n + 1] /\ t[n + 1] \in S /\ h[n] \in Seq(S)
        BY <1>0, <1>6, <3>1, SMTT(40)
      <3>3. f[(Len(s) + n) + 1] = Grown(st[(Len(s) + n) + 1], o, Joined(g[Len(s)], h[n]))
        BY <1>4, <3>1 DEF GrowsBy
      <3>4. Grown(st[(Len(s) + n) + 1], o, Joined(g[Len(s)], h[n])) = Joined(g[Len(s)], Grown(t[n + 1],
              o, h[n]))
        BY <2>0, <3>2, GrownJoined
      <3> QED BY <1>5, <3>1, <3>3, <3>4 DEF GrowsBy
    <2>3. \A n \in Nat : n \in P
      <3> HIDE DEF P
      <3> QED BY <2>1, <2>2, Induction
    <2> QED BY <1>0, <2>3
  <1>9. Occurrences(st, o) = Joined(Occurrences(s, o), Occurrences(t, o))
    BY <1>0, <1>1, <1>2, <1>3, <1>8
  <1>10. Occurrences(s, o) \in Seq(S)
    BY <1>0, <1>2, <1>6
  <1> QED BY <1>9, <1>10 DEF st, Joined

\* A line with nothing but arguments of one option, and one without it.
LEMMA OccurrencesAll ==
    ASSUME NEW S, NEW s \in Seq(S), NEW o
    PROVE  /\ (\A i \in 1..Len(s) : s[i].opt = o) => Occurrences(s, o) = s
           /\ (\A i \in 1..Len(s) : s[i].opt # o) => Occurrences(s, o) = NoArgs
  <1>0. Len(s) \in Nat
    OBVIOUS
  <1>1. PICK f : Finds(f, s, o, Len(s)) /\ Occurrences(s, o) = f[Len(s)]
    BY <1>0, OccurrencesFound
  <1>2. GrowsBy(f, s, o, Len(s))
    BY <1>0, <1>1, FindsStep
  <1>3. ASSUME \A i \in 1..Len(s) : s[i].opt = o PROVE f[Len(s)] = s
    <2> DEFINE P == {n \in Nat : n <= Len(s) => f[n] = Upto(s, n)}
    <2>1. 0 \in P
      BY <1>2, UptoGrown DEF GrowsBy
    <2>2. ASSUME NEW n \in Nat, n \in P PROVE n + 1 \in P
      <3> SUFFICES ASSUME n + 1 <= Len(s) PROVE f[n + 1] = Upto(s, n + 1)
        OBVIOUS
      <3>1. n \in 0..(Len(s) - 1) /\ n + 1 \in 1..Len(s) /\ f[n] = Upto(s, n)
        BY <1>0, <2>2
      <3>2. f[n + 1] = Grown(s[n + 1], o, Upto(s, n))
        BY <1>2, <3>1 DEF GrowsBy
      <3> QED BY <1>3, <3>1, <3>2, UptoGrown
    <2>3. \A n \in Nat : n \in P
      <3> HIDE DEF P
      <3> QED BY <2>1, <2>2, Induction
    <2>4. f[Len(s)] = Upto(s, Len(s))
      BY <1>0, <2>3
    <2> QED BY <2>4, UptoGrown
  <1>4. ASSUME \A i \in 1..Len(s) : s[i].opt # o PROVE f[Len(s)] = NoArgs
    <2> DEFINE P == {n \in Nat : n <= Len(s) => f[n] = NoArgs}
    <2>1. 0 \in P
      BY <1>2 DEF GrowsBy
    <2>2. ASSUME NEW n \in Nat, n \in P PROVE n + 1 \in P
      <3> SUFFICES ASSUME n + 1 <= Len(s) PROVE f[n + 1] = NoArgs
        OBVIOUS
      <3>1. n \in 0..(Len(s) - 1) /\ n + 1 \in 1..Len(s) /\ f[n] = NoArgs
        BY <1>0, <2>2
      <3> QED BY <1>2, <1>4, <3>1 DEF GrowsBy, Grown
    <2>3. \A n \in Nat : n \in P
      <3> HIDE DEF P
      <3> QED BY <2>1, <2>2, Induction
    <2> QED BY <1>0, <2>3
  <1> QED BY <1>1, <1>3, <1>4

-----------------------------------------------------------------------------
(* Command lines made of parts.                                              *)

Line(s) == \E S : s \in Seq(S)

\* A line with arguments of one option only.
Part(g, p) == Line(g) /\ \A i \in 1..Len(g) : g[i].opt = p

\* Line is s and then g, whose arguments are of option p.
Adds(line, s, g, p) ==
    \A o : Occurrences(line, o) = IF o = p THEN Joined(Occurrences(s, o), g) ELSE Occurrences(s, o)

\* No option occurs in an empty line.
LEMMA NothingThere == Line(NoArgs) /\ \A o : Occurrences(NoArgs, o) = NoArgs
  <1>1. NoArgs \in Seq({}) /\ Len(NoArgs) = 0
    BY DEF NoArgs
  <1>2. ASSUME NEW o PROVE Occurrences(NoArgs, o) = NoArgs
    <2>1. \A i \in 1..Len(NoArgs) : NoArgs[i].opt # o
      BY <1>1
    <2> QED BY <1>1, <2>1, OccurrencesAll
  <1> QED BY <1>1, <1>2 DEF Line

\* A part of a line has all its arguments under its own option, and none under
\* another.
LEMMA PartAlone ==
    ASSUME NEW g, NEW p, Part(g, p)
    PROVE  \A o : Occurrences(g, o) = IF o = p THEN g ELSE NoArgs
  <1>1. PICK S : g \in Seq(S)
    BY DEF Part, Line
  <1>2. ASSUME NEW o PROVE Occurrences(g, o) = IF o = p THEN g ELSE NoArgs
    BY <1>1, OccurrencesAll DEF Part
  <1> QED BY <1>2

\* A part put behind a line adds its arguments under its option, and changes nothing
\* under the others.
LEMMA OneMore ==
    ASSUME NEW s, Line(s), NEW g, NEW p, Part(g, p)
    PROVE  Line(Joined(s, g)) /\ Adds(Joined(s, g), s, g, p)
  <1>1. PICK A : s \in Seq(A)
    BY DEF Line
  <1>2. PICK B : g \in Seq(B)
    BY DEF Part, Line
  <1> DEFINE S == A \cup B
  <1>3. s \in Seq(S) /\ g \in Seq(S)
    BY <1>1, <1>2
  <1> HIDE DEF S
  <1>4. Joined(s, g) \in Seq(S)
    BY <1>3 DEF Joined
  <1>5. ASSUME NEW o PROVE Occurrences(Joined(s, g), o) = IF o = p THEN Joined(Occurrences(s, o),
          g) ELSE Occurrences(s, o)
    <2>1. /\ Occurrences(Joined(s, g), o) = Joined(Occurrences(s, o), Occurrences(g, o))
          /\ Occurrences(s, o) \in Seq(S)
      BY <1>3, OccurrencesConcat
    <2>2. Occurrences(g, o) = IF o = p THEN g ELSE NoArgs
      BY PartAlone
    <2> QED BY <1>3, <2>1, <2>2, JoinedNothing
  <1> QED BY <1>4, <1>5 DEF Adds, Line

\* The first part of a line.
LEMMA FirstPart ==
    ASSUME NEW g, NEW p, Part(g, p)
    PROVE  Line(g) /\ (\A o : Occurrences(g, o) = IF o = p THEN g ELSE NoArgs) /\ Joined(NoArgs, g) = g
  <1>1. Joined(NoArgs, g) = g
    BY JoinedNothing DEF Part, Line
  <1> QED BY <1>1, PartAlone DEF Part

\* A line has no argument of an option that does not occur.
LEMMA OthersAbsent ==
    ASSUME NEW s, Line(s), NEW i \in 1..Len(s)
    PROVE  Occurrences(s, s[i].opt) # NoArgs
  <1>1. PICK S : s \in Seq(S)
    BY DEF Line
  <1> DEFINE o == s[i].opt
  <1>2. Len(s) \in Nat
    BY <1>1
  <1>3. PICK f : Finds(f, s, o, Len(s)) /\ Occurrences(s, o) = f[Len(s)]
    BY <1>2, OccurrencesFound
  <1>4. GrowsBy(f, s, o, Len(s))
    BY <1>2, <1>3, FindsStep
  <1>5. \A n \in 0..Len(s) : f[n] \in Seq(S)
    BY <1>1, <1>3, FindsType
  <1> DEFINE P == {n \in Nat : i <= n /\ n <= Len(s) => f[n] # NoArgs}
  <1>6. 0 \in P
    OBVIOUS
  <1>7. ASSUME NEW n \in Nat, n \in P PROVE n + 1 \in P
    <2> SUFFICES ASSUME i <= n + 1, n + 1 <= Len(s) PROVE f[n + 1] # NoArgs
      OBVIOUS
    <2>1. n \in 0..(Len(s) - 1) /\ f[n] \in Seq(S) /\ s[n + 1] \in S
      BY <1>1, <1>2, <1>5
    <2>2. f[n + 1] = Grown(s[n + 1], o, f[n])
      BY <1>4, <2>1 DEF GrowsBy
    <2>3. Append(f[n], s[n + 1]) # <<>>
      BY <2>1
    <2>4. CASE s[n + 1].opt = o
      BY <2>2, <2>3, <2>4 DEF Grown, NoArgs
    <2>5. CASE s[n + 1].opt # o
      <3>1. i <= n
        BY <2>1, <2>5
      <3> QED BY <1>7, <2>1, <2>2, <2>5, <3>1 DEF Grown
    <2> QED BY <2>4, <2>5
  <1>8. \A n \in Nat : n \in P
    <2> HIDE DEF P, o
    <2> QED BY <1>6, <1>7, Induction
  <1>9. f[Len(s)] # NoArgs
    BY <1>2, <1>8
  <1> QED BY <1>3, <1>9

\* What Arg and Each make are parts, and so is nothing at all.
LEMMA PartOf ==
    ASSUME NEW o, NEW v
    PROVE  /\ Part(Arg(o, v), o) /\ Part(NoArgs, o)
           /\ IsList(v) => Part(Each(o, v), o) /\ Len(Each(o, v)) = Len(v)
  <1>1. Part(Arg(o, v), o)
    <2> DEFINE a == [opt |-> o, val |-> v]
    <2>1. a.opt = o
      OBVIOUS
    <2> HIDE DEF a
    <2> DEFINE s == <<a>>
    <2>2. s \in Seq({a}) /\ Len(s) = 1 /\ s[1] = a
      OBVIOUS
    <2> HIDE DEF s
    <2>3. Part(s, o)
      BY <2>1, <2>2 DEF Part, Line
    <2> QED BY <2>3 DEF Arg, a, s
  <1>2. Part(NoArgs, o)
    <2>1. Len(NoArgs) = 0
      BY DEF NoArgs
    <2> QED BY <2>1, NothingThere DEF Part
  <1>3. ASSUME IsList(v) PROVE Part(Each(o, v), o) /\ Len(Each(o, v)) = Len(v)
    <2>1. Len(v) \in Nat
      BY <1>3 DEF IsList
    <2> DEFINE T == {[opt |-> o, val |-> v[i]] : i \in 1..Len(v)}
               s == [i \in 1..Len(v) |-> [opt |-> o, val |-> v[i]]]
    <2>2. s \in Seq(T) /\ Len(s) = Len(v) /\ \A i \in 1..Len(s) : s[i].opt = o
      BY <2>1
    <2> HIDE DEF s, T
    <2>3. Part(s, o)
      BY <2>2 DEF Part, Line
    <2> QED BY <2>2, <2>3 DEF Each, s
  <1> QED BY <1>1, <1>2, <1>3

\* Verbosity n is told by n times -v.
LEMMA PartVerbose ==
    ASSUME NEW c, c.verbosity \in Nat
    PROVE  Part(Verbose(c), "-v") /\ Len(Verbose(c)) = c.verbosity
  <1> DEFINE a == [opt |-> "-v", val |-> ""]
             n == c.verbosity
             s == [i \in 1..n |-> a]
  <1>1. a.opt = "-v"
    OBVIOUS
  <1> HIDE DEF a, n
  <1>2. n \in Nat
    BY DEF n
  <1>3. s \in Seq({a}) /\ Len(s) = n /\ \A i \in 1..n : s[i] = a
    BY <1>2
  <1> HIDE DEF s
  <1>4. Part(s, "-v")
    BY <1>1, <1>3 DEF Part, Line
  <1> QED BY <1>3, <1>4 DEF Verbose, a, n, s

-----------------------------------------------------------------------------
(* The lines of the programs.                                              *)

\* What a program makes of the arguments g of an option: v, if d is what it takes
\* without any.
Says(g, d, v) == Len(g) \in 0..1 /\ (IF g = NoArgs THEN d ELSE g[1].val) = v
ValuesOf(g) == [i \in 1..Len(g) |-> g[i].val]
Names(g, v) == Len(g) = 1 /\ g # NoArgs /\ g[1].val = v
Enumerates(g, v) == Len(g) = Len(v) /\ (v # NoArgs => g # NoArgs) /\ ValuesOf(g) = v
\* Defaults of the programs, by name.
BufferSize == 4096
TcpPort == 50052
DatabasePort == 5432

Either(v, none, d) == IF v = none THEN d ELSE v

\* What Arg, Each and an argument left out tell the program.
LEMMA Told ==
    ASSUME NEW o, NEW v
    PROVE  /\ \A d : Says(Arg(o, v), d, v) /\ Says(NoArgs, v, v)
           /\ Names(Arg(o, v), v)
           /\ IsList(v) => Enumerates(Each(o, v), v)
<1>0. Names(Arg(o, v), v)
    <2> DEFINE a == [opt |-> o, val |-> v]
    <2>1. a.val = v
      OBVIOUS
    <2> HIDE DEF a
    <2> DEFINE s == <<a>>
    <2>2. Len(s) = 1 /\ s[1] = a /\ s # <<>>
      OBVIOUS
    <2> HIDE DEF s
    <2>3. Names(s, v)
      BY <2>1, <2>2 DEF Names, NoArgs
    <2> QED BY <2>3 DEF Arg, a, s
<1>1. \A d : Says(Arg(o, v), d, v)
    BY <1>0 DEF Names, Says
<1>2. Says(NoArgs, v, v)
    <2>1. Len(NoArgs) = 0
      BY DEF NoArgs
    <2> QED BY <2>1 DEF Says
<1>3. ASSUME IsList(v) PROVE Enumerates(Each(o, v), v)
    <2>1. Len(v) \in Nat /\ v = [i \in 1..Len(v) |-> v[i]] /\ (v # NoArgs => Len(v) # 0)
      BY <1>3 DEF IsList, NoArgs
    <2> DEFINE g == Each(o, v)
    <2>2. Len(g) = Len(v) /\ \A i \in 1..Len(v) : g[i].val = v[i]
      BY <2>1, <1>3, PartOf DEF Each
    <2>3. Len(NoArgs) = 0
      BY DEF NoArgs
    <2> HIDE DEF g
    <2>4. [i \in 1..Len(g) |-> g[i].val] = [i \in 1..Len(v) |-> v[i]]
      BY <2>2
    <2>5. [i \in 1..Len(g) |-> g[i].val] = v
      BY <2>1, <2>4
    <2>6. Enumerates(g, v)
      BY <2>1, <2>2, <2>3, <2>5 DEF Enumerates, ValuesOf
    <2> QED BY <2>6 DEF g
<1> QED BY <1>0, <1>1, <1>2, <1>3

\* Line is s and t together.
Merges(line, s, t) ==
    \A o : /\ Occurrences(s, o) = NoArgs => Occurrences(line, o) = Occurrences(t, o)
           /\ Occurrences(t, o) = NoArgs => Occurrences(line, o) = Occurrences(s, o)

\* Of two lines put together, an option that only one has occurs as in that one.
LEMMA TwoLines ==
    ASSUME NEW s, Line(s), NEW t, Line(t)
    PROVE  Line(Joined(s, t)) /\ Merges(Joined(s, t), s, t)
<1>1. PICK A : s \in Seq(A)
    BY DEF Line
<1>2. PICK B : t \in Seq(B)
    BY DEF Line
<1> DEFINE S == A \cup B
<1>3. s \in Seq(S) /\ t \in Seq(S)
    BY <1>1, <1>2
<1> HIDE DEF S
<1>4. Joined(s, t) \in Seq(S)
    BY <1>3 DEF Joined
<1>5. ASSUME NEW o
      PROVE  /\ Occurrences(s, o) = NoArgs => Occurrences(Joined(s, t), o) = Occurrences(t, o)
             /\ Occurrences(t, o) = NoArgs => Occurrences(Joined(s, t), o) = Occurrences(s, o)
    <2>1. Occurrences(s, o) \in Seq(S) /\ Occurrences(t, o) \in Seq(S)
        BY <1>3, OccurrencesConcat
    <2>2. Occurrences(Joined(s, t), o) = Joined(Occurrences(s, o), Occurrences(t, o))
        BY <1>3, OccurrencesConcat
    <2> QED BY <2>1, <2>2, JoinedNothing
<1> QED BY <1>4, <1>5 DEF Line, Merges

\* The arguments that several programs get of the common settings.
LEMMA MaxfdPart ==
    ASSUME NEW c
    PROVE  Part(Maxfd(c), "--maxfd") /\ Says(Maxfd(c), 0, c.max_file_descriptors)
BY PartOf, Told DEF Maxfd, When, NoArgs

\* The buffer size is left out if it is zero or the default of the program.
LEMMA NonzeroBufferPart ==
    ASSUME NEW c
    PROVE  /\ Part(NonzeroBuffer(c), "-b")
           /\ Says(NonzeroBuffer(c), BufferSize, Either(c.max_buffer_size, 0, BufferSize))
<1> DEFINE b == c.max_buffer_size
<1>1. CASE b \in {0, 4096}
    <2>1. NonzeroBuffer(c) = NoArgs /\ Either(c.max_buffer_size, 0, BufferSize) = BufferSize
        BY <1>1 DEF NonzeroBuffer, When, NoArgs, Either, BufferSize
    <2> QED BY <2>1, PartOf, Told
<1>2. CASE b \notin {0, 4096}
    <2>1. NonzeroBuffer(c) = Arg("-b", b) /\ Either(b, 0, BufferSize) = b
        BY <1>2 DEF NonzeroBuffer, When, Either
    <2> HIDE DEF b
    <2>2. Part(NonzeroBuffer(c), "-b") /\ Says(NonzeroBuffer(c), BufferSize, b)
        BY <2>1, PartOf, Told
    <2> QED BY <2>1, <2>2 DEF b
<1> QED BY <1>1, <1>2

\* The buffer size is left out only if it is the default of the program.
LEMMA BufferPart ==
    ASSUME NEW c
    PROVE  Part(Buffer(c), "-b") /\ Says(Buffer(c), BufferSize, c.max_buffer_size)
<1>1. Buffer(c) = IF c.max_buffer_size # BufferSize THEN Arg("-b", c.max_buffer_size) ELSE NoArgs
    BY DEF Buffer, BufferSize, When, NoArgs
<1> QED BY <1>1, PartOf, Told

\* The directory of declarations is left out if it is empty or the default of the
\* program.
LEMMA ProtosPart ==
    ASSUME NEW c
    PROVE  Part(Protos(c), "-p") /\ Says(Protos(c), "proto", Either(c.proto_path, "", "proto"))
<1> DEFINE b == c.proto_path
<1>1. CASE b \in {"", "proto"}
    <2>1. Protos(c) = NoArgs /\ Either(c.proto_path, "", "proto") = "proto"
        BY <1>1 DEF Protos, When, NoArgs, Either
    <2> QED BY <2>1, PartOf, Told
<1>2. CASE b \notin {"", "proto"}
    <2>1. Protos(c) = Arg("-p", b) /\ Either(b, "", "proto") = b
        BY <1>2 DEF Protos, When, Either
    <2> HIDE DEF b
    <2>2. Part(Protos(c), "-p") /\ Says(Protos(c), "proto", b)
        BY <2>1, PartOf, Told
    <2> QED BY <2>1, <2>2 DEF b
<1> QED BY <1>1, <1>2

\* The arguments of repeator: no address is given if there is just that of the program.
DefaultOuts == <<"tcp://0.0.0.0:50000">>
Addresses(e) == IF e.outs = <<"tcp://0.0.0.0:50000">> THEN NoArgs ELSE Each("-o", e.outs)
Addressed(g, v) ==
    /\ Len(g) \in 0..100 <=> Len(v) <= 100
    /\ v # NoArgs => (IF g = NoArgs THEN DefaultOuts ELSE ValuesOf(g)) = v

Bind(e) == When(e.bind, "-s", "")
BindCount(e) == IF e.bind THEN 1 ELSE 0

\* A repeater that binds gets -s once.
LEMMA BindPart ==
    ASSUME NEW e, e.bind \in BOOLEAN
    PROVE  Part(Bind(e), "-s") /\ Len(Bind(e)) = BindCount(e)
<1>1. CASE e.bind
    <2>1. Bind(e) = Arg("-s", "") /\ BindCount(e) = 1
        BY <1>1 DEF Bind, BindCount, When
    <2>2. Part(Arg("-s", ""), "-s") /\ Len(Arg("-s", "")) = 1
        BY PartOf, Told DEF Names
    <2> QED BY <2>1, <2>2
<1>2. CASE ~e.bind
    <2>1. Bind(e) = NoArgs /\ BindCount(e) = 0
        BY <1>2 DEF Bind, BindCount, When, NoArgs
    <2>2. Len(NoArgs) = 0
        BY DEF NoArgs
    <2> QED BY <2>1, <2>2, PartOf
<1> QED BY <1>1, <1>2

\* A repeater gets its addresses, or none if they are the default of the program.
LEMMA AddressesPart ==
    ASSUME NEW e, IsList(e.outs)
    PROVE  Part(Addresses(e), "-o") /\ Addressed(Addresses(e), e.outs)
<1>0. Len(NoArgs) = 0 /\ Len(DefaultOuts) = 1
    BY DEF NoArgs, DefaultOuts
<1>1. CASE e.outs = DefaultOuts
    <2>1. Addresses(e) = NoArgs
        BY <1>1 DEF Addresses, DefaultOuts
    <2>2. Addressed(NoArgs, DefaultOuts)
        BY <1>0 DEF Addressed
    <2> QED BY <1>1, <2>1, <2>2, PartOf
<1>2. CASE e.outs # DefaultOuts
    <2>1. Addresses(e) = Each("-o", e.outs)
        BY <1>2 DEF Addresses, DefaultOuts
    <2>2. Len(e.outs) \in Nat
        BY DEF IsList
    <2>3. Part(Each("-o", e.outs), "-o") /\ Enumerates(Each("-o", e.outs), e.outs)
        BY PartOf, Told
    <2>4. ASSUME NEW g, Enumerates(g, e.outs) PROVE Addressed(g, e.outs)
        <3>0. Len(g) = Len(e.outs)
            BY <2>4 DEF Enumerates
        <3>1. Len(g) \in 0..100 <=> Len(e.outs) <= 100
            <4>1. PICK n \in Nat : n = Len(e.outs)
                BY <2>2
            <4>2. n \in 0..100 <=> n <= 100
                OBVIOUS
            <4> QED BY <3>0, <4>1, <4>2
        <3>2. e.outs # NoArgs => (IF g = NoArgs THEN DefaultOuts ELSE ValuesOf(g)) = e.outs
            BY <2>4 DEF Enumerates
        <3> QED BY <3>1, <3>2 DEF Addressed
    <2> QED BY <2>1, <2>3, <2>4
<1> QED BY <1>1, <1>2

\* What CfgListenerTcp::args() tells tcpreceiver, option by option; other options do
\* not occur.
LEMMA TcpLine ==
    ASSUME NEW e, NEW c, c.verbosity \in Nat, IsList(e.valid_sizes)
    PROVE  LET line == CfgListenerTcp(e, c) IN
           /\ Line(line)
           /\ Says(Occurrences(line, "-i"), "0.0.0.0", e.ip)
           /\ Says(Occurrences(line, "-l"), TcpPort, e.port)
           /\ Says(Occurrences(line, "-c"), 0, e.compression_type)
           /\ Says(Occurrences(line, "-e"), "", "")
           /\ Says(Occurrences(line, "-s"), 0, e.compression_offset)
           /\ Says(Occurrences(line, "-f"), "", e.frequence_file)
           /\ Says(Occurrences(line, "-m"), "", e.codemap_file)
           /\ Enumerates(Occurrences(line, "-p"), e.valid_sizes)
           /\ Len(Occurrences(line, "-v")) = c.verbosity
           /\ Says(Occurrences(line, "-o"), PacketBus, c.bus_in)
           /\ Says(Occurrences(line, "--maxfd"), 0, c.max_file_descriptors)
           /\ Says(Occurrences(line, "-b"), BufferSize, Either(c.max_buffer_size, 0, BufferSize))
           /\ \A o : o \notin {"-i", "-l", "-c", "-e", "-s", "-f", "-m", "-p", "-v", "-o", "--maxfd",
                 "-b"} => Occurrences(line, o) = NoArgs
<1> DEFINE g1 == When(e.ip # "0.0.0.0", "-i", e.ip)
           g2 == When(e.port # TcpPort, "-l", e.port)
           g3 == When(e.compression_type # 0, "-c", e.compression_type)
           g4 == When(e.escape_code = "", "-e", e.escape_code)
           g5 == When(e.compression_offset # 0, "-s", e.compression_offset)
           g6 == When(e.frequence_file # "", "-f", e.frequence_file)
           g7 == When(e.codemap_file # "", "-m", e.codemap_file)
           g8 == Each("-p", e.valid_sizes)
           g9 == Verbose(c)
           g10 == When(c.bus_in # PacketBus, "-o", c.bus_in)
           g11 == Maxfd(c)
           g12 == NonzeroBuffer(c)
           l2 == Joined(g1, g2)
           l3 == Joined(l2, g3)
           l4 == Joined(l3, g4)
           l5 == Joined(l4, g5)
           l6 == Joined(l5, g6)
           l7 == Joined(l6, g7)
           l8 == Joined(l7, g8)
           l9 == Joined(l8, g9)
           l10 == Joined(l9, g10)
           l11 == Joined(l10, g11)
           l12 == Joined(l11, g12)
           line == CfgListenerTcp(e, c)
<1>0. line = l12
    BY DEF CfgListenerTcp, Joined, TcpPort, DatabasePort
<1>1. Part(g1, "-i") /\ Says(g1, "0.0.0.0", e.ip)
    BY PartOf, Told DEF When, NoArgs
<1>2. Part(g2, "-l") /\ Says(g2, TcpPort, e.port)
    BY PartOf, Told DEF When, NoArgs
<1>3. Part(g3, "-c") /\ Says(g3, 0, e.compression_type)
    BY PartOf, Told DEF When, NoArgs
<1>4. Part(g4, "-e") /\ Says(g4, "", "")
    BY PartOf, Told DEF When, NoArgs
<1>5. Part(g5, "-s") /\ Says(g5, 0, e.compression_offset)
    BY PartOf, Told DEF When, NoArgs
<1>6. Part(g6, "-f") /\ Says(g6, "", e.frequence_file)
    BY PartOf, Told DEF When, NoArgs
<1>7. Part(g7, "-m") /\ Says(g7, "", e.codemap_file)
    BY PartOf, Told DEF When, NoArgs
<1>8. Part(g8, "-p") /\ Enumerates(g8, e.valid_sizes)
    BY PartOf, Told
<1>9. Part(g9, "-v") /\ Len(g9) = c.verbosity
    BY PartVerbose
<1>10. Part(g10, "-o") /\ Says(g10, PacketBus, c.bus_in)
    BY PartOf, Told DEF When, NoArgs
<1>11. Part(g11, "--maxfd") /\ Says(g11, 0, c.max_file_descriptors)
    BY MaxfdPart
<1>12. Part(g12, "-b") /\ Says(g12, BufferSize, Either(c.max_buffer_size, 0, BufferSize))
    BY NonzeroBufferPart
<1> HIDE DEF line, g1, g2, g3, g4, g5, g6, g7, g8, g9, g10, g11, g12
<1>21. Line(g1) /\ \A o : Occurrences(g1, o) = IF o = "-i" THEN g1 ELSE NoArgs
    BY <1>1, FirstPart
<1>22. Line(l2) /\ Adds(l2, g1, g2, "-l") /\ Joined(NoArgs, g2) = g2
    BY <1>2, <1>21, OneMore, FirstPart
<1> HIDE DEF l2
<1>23. Line(l3) /\ Adds(l3, l2, g3, "-c") /\ Joined(NoArgs, g3) = g3
    BY <1>3, <1>22, OneMore, FirstPart
<1> HIDE DEF l3
<1>24. Line(l4) /\ Adds(l4, l3, g4, "-e") /\ Joined(NoArgs, g4) = g4
    BY <1>4, <1>23, OneMore, FirstPart
<1> HIDE DEF l4
<1>25. Line(l5) /\ Adds(l5, l4, g5, "-s") /\ Joined(NoArgs, g5) = g5
    BY <1>5, <1>24, OneMore, FirstPart
<1> HIDE DEF l5
<1>26. Line(l6) /\ Adds(l6, l5, g6, "-f") /\ Joined(NoArgs, g6) = g6
    BY <1>6, <1>25, OneMore, FirstPart
<1> HIDE DEF l6
<1>27. Line(l7) /\ Adds(l7, l6, g7, "-m") /\ Joined(NoArgs, g7) = g7
    BY <1>7, <1>26, OneMore, FirstPart
<1> HIDE DEF l7
<1>28. Line(l8) /\ Adds(l8, l7, g8, "-p") /\ Joined(NoArgs, g8) = g8
    BY <1>8, <1>27, OneMore, FirstPart
<1> HIDE DEF l8
<1>29. Line(l9) /\ Adds(l9, l8, g9, "-v") /\ Joined(NoArgs, g9) = g9
    BY <1>9, <1>28, OneMore, FirstPart
<1> HIDE DEF l9
<1>30. Line(l10) /\ Adds(l10, l9, g10, "-o") /\ Joined(NoArgs, g10) = g10
    BY <1>10, <1>29, OneMore, FirstPart
<1> HIDE DEF l10
<1>31. Line(l11) /\ Adds(l11, l10, g11, "--maxfd") /\ Joined(NoArgs, g11) = g11
    BY <1>11, <1>30, OneMore, FirstPart
<1> HIDE DEF l11
<1>32. Line(l12) /\ Adds(l12, l11, g12, "-b") /\ Joined(NoArgs, g12) = g12
    BY <1>12, <1>31, OneMore, FirstPart
<1> HIDE DEF l12
<1>41. /\ Occurrences(l12, "-i") = g1
       /\ Occurrences(l12, "-l") = g2
       /\ Occurrences(l12, "-c") = g3
       /\ Occurrences(l12, "-e") = g4
       /\ Occurrences(l12, "-s") = g5
       /\ Occurrences(l12, "-f") = g6
       /\ Occurrences(l12, "-m") = g7
       /\ Occurrences(l12, "-p") = g8
       /\ Occurrences(l12, "-v") = g9
       /\ Occurrences(l12, "-o") = g10
       /\ Occurrences(l12, "--maxfd") = g11
       /\ Occurrences(l12, "-b") = g12
    BY <1>21, <1>22, <1>23, <1>24, <1>25, <1>26, <1>27, <1>28, <1>29, <1>30, <1>31, <1>32 DEF Adds
<1>42. ASSUME NEW o, o \notin {"-i", "-l", "-c", "-e", "-s", "-f", "-m", "-p", "-v", "-o", "--maxfd",
        "-b"} PROVE Occurrences(l12, o) = NoArgs
    BY <1>42, <1>21, <1>22, <1>23, <1>24, <1>25, <1>26, <1>27, <1>28, <1>29, <1>30, <1>31,
       <1>32 DEF Adds
<1>43. /\ Line(line)
       /\ Says(Occurrences(line, "-i"), "0.0.0.0", e.ip)
       /\ Says(Occurrences(line, "-l"), TcpPort, e.port)
       /\ Says(Occurrences(line, "-c"), 0, e.compression_type)
       /\ Says(Occurrences(line, "-e"), "", "")
       /\ Says(Occurrences(line, "-s"), 0, e.compression_offset)
       /\ Says(Occurrences(line, "-f"), "", e.frequence_file)
       /\ Says(Occurrences(line, "-m"), "", e.codemap_file)
       /\ Enumerates(Occurrences(line, "-p"), e.valid_sizes)
       /\ Len(Occurrences(line, "-v")) = c.verbosity
       /\ Says(Occurrences(line, "-o"), PacketBus, c.bus_in)
       /\ Says(Occurrences(line, "--maxfd"), 0, c.max_file_descriptors)
       /\ Says(Occurrences(line, "-b"), BufferSize, Either(c.max_buffer_size, 0, BufferSize))
       /\ \A o : o \notin {"-i", "-l", "-c", "-e", "-s", "-f", "-m", "-p", "-v", "-o", "--maxfd",
             "-b"} => Occurrences(line, o) = NoArgs
    BY <1>0, <1>1, <1>2, <1>3, <1>4, <1>5, <1>6, <1>7, <1>8, <1>9, <1>10, <1>11, <1>12, <1>32, <1>41,
       <1>42
<1> QED BY <1>43 DEF line

\* What CfgListenerMqtt::args() tells mqtt_receiver, option by option; other options
\* do not occur.
LEMMA MqttLine ==
    ASSUME NEW e, NEW c, c.verbosity \in Nat
    PROVE  LET line == CfgListenerMqtt(e, c) IN
           /\ Line(line)
           /\ Names(Occurrences(line, "-c"), e.client)
           /\ Names(Occurrences(line, "-a"), e.broker)
           /\ Names(Occurrences(line, "-t"), e.topic)
           /\ Names(Occurrences(line, "-p"), e.port)
           /\ Names(Occurrences(line, "-q"), e.qos)
           /\ Len(Occurrences(line, "-v")) = c.verbosity
           /\ Says(Occurrences(line, "-o"), PacketBus, c.bus_in)
           /\ Says(Occurrences(line, "--maxfd"), 0, c.max_file_descriptors)
           /\ \A o : o \notin {"-c", "-a", "-t", "-p", "-q", "-v", "-o",
                 "--maxfd"} => Occurrences(line, o) = NoArgs
<1> DEFINE g1 == Arg("-c", e.client)
           g2 == Arg("-a", e.broker)
           g3 == Arg("-t", e.topic)
           g4 == Arg("-p", e.port)
           g5 == Arg("-q", e.qos)
           g6 == Verbose(c)
           g7 == When(c.bus_in # PacketBus, "-o", c.bus_in)
           g8 == Maxfd(c)
           l2 == Joined(g1, g2)
           l3 == Joined(l2, g3)
           l4 == Joined(l3, g4)
           l5 == Joined(l4, g5)
           l6 == Joined(l5, g6)
           l7 == Joined(l6, g7)
           l8 == Joined(l7, g8)
           line == CfgListenerMqtt(e, c)
<1>0. line = l8
    BY DEF CfgListenerMqtt, Joined, TcpPort, DatabasePort
<1>1. Part(g1, "-c") /\ Names(g1, e.client)
    BY PartOf, Told
<1>2. Part(g2, "-a") /\ Names(g2, e.broker)
    BY PartOf, Told
<1>3. Part(g3, "-t") /\ Names(g3, e.topic)
    BY PartOf, Told
<1>4. Part(g4, "-p") /\ Names(g4, e.port)
    BY PartOf, Told
<1>5. Part(g5, "-q") /\ Names(g5, e.qos)
    BY PartOf, Told
<1>6. Part(g6, "-v") /\ Len(g6) = c.verbosity
    BY PartVerbose
<1>7. Part(g7, "-o") /\ Says(g7, PacketBus, c.bus_in)
    BY PartOf, Told DEF When, NoArgs
<1>8. Part(g8, "--maxfd") /\ Says(g8, 0, c.max_file_descriptors)
    BY MaxfdPart
<1> HIDE DEF line, g1, g2, g3, g4, g5, g6, g7, g8
<1>21. Line(g1) /\ \A o : Occurrences(g1, o) = IF o = "-c" THEN g1 ELSE NoArgs
    BY <1>1, FirstPart
<1>22. Line(l2) /\ Adds(l2, g1, g2, "-a") /\ Joined(NoArgs, g2) = g2
    BY <1>2, <1>21, OneMore, FirstPart
<1> HIDE DEF l2
<1>23. Line(l3) /\ Adds(l3, l2, g3, "-t") /\ Joined(NoArgs, g3) = g3
    BY <1>3, <1>22, OneMore, FirstPart
<1> HIDE DEF l3
<1>24. Line(l4) /\ Adds(l4, l3, g4, "-p") /\ Joined(NoArgs, g4) = g4
    BY <1>4, <1>23, OneMore, FirstPart
<1> HIDE DEF l4
<1>25. Line(l5) /\ Adds(l5, l4, g5, "-q") /\ Joined(NoArgs, g5) = g5
    BY <1>5, <1>24, OneMore, FirstPart
<1> HIDE DEF l5
<1>26. Line(l6) /\ Adds(l6, l5, g6, "-v") /\ Joined(NoArgs, g6) = g6
    BY <1>6, <1>25, OneMore, FirstPart
<1> HIDE DEF l6
<1>27. Line(l7) /\ Adds(l7, l6, g7, "-o") /\ Joined(NoArgs, g7) = g7
    BY <1>7, <1>26, OneMore, FirstPart
<1> HIDE DEF l7
<1>28. Line(l8) /\ Adds(l8, l7, g8, "--maxfd") /\ Joined(NoArgs, g8) = g8
    BY <1>8, <1>27, OneMore, FirstPart
<1> HIDE DEF l8
<1>41. /\ Occurrences(l8, "-c") = g1
       /\ Occurrences(l8, "-a") = g2
       /\ Occurrences(l8, "-t") = g3
       /\ Occurrences(l8, "-p") = g4
       /\ Occurrences(l8, "-q") = g5
       /\ Occurrences(l8, "-v") = g6
       /\ Occurrences(l8, "-o") = g7
       /\ Occurrences(l8, "--maxfd") = g8
    BY <1>21, <1>22, <1>23, <1>24, <1>25, <1>26, <1>27, <1>28 DEF Adds
<1>42. ASSUME NEW o, o \notin {"-c", "-a", "-t", "-p", "-q", "-v", "-o", "--maxfd"}
        PROVE Occurrences(l8, o) = NoArgs
    BY <1>42, <1>21, <1>22, <1>23, <1>24, <1>25, <1>26, <1>27, <1>28 DEF Adds
<1>43. /\ Line(line)
       /\ Names(Occurrences(line, "-c"), e.client)
       /\ Names(Occurrences(line, "-a"), e.broker)
       /\ Names(Occurrences(line, "-t"), e.topic)
       /\ Names(Occurrences(line, "-p"), e.port)
       /\ Names(Occurrences(line, "-q"), e.qos)
       /\ Len(Occurrences(line, "-v")) = c.verbosity
       /\ Says(Occurrences(line, "-o"), PacketBus, c.bus_in)
       /\ Says(Occurrences(line, "--maxfd"), 0, c.max_file_descriptors)
       /\ \A o : o \notin {"-c", "-a", "-t", "-p", "-q", "-v", "-o", "--maxfd"} => Occurrences(line,
             o) = NoArgs
    BY <1>0, <1>1, <1>2, <1>3, <1>4, <1>5, <1>6, <1>7, <1>8, <1>28, <1>41, <1>42
<1> QED BY <1>43 DEF line

\* What CfgListenerFile::args() tells freceiver, option by option; other options do
\* not occur.
LEMMA FileLine ==
    ASSUME NEW e, NEW c, c.verbosity \in Nat
    PROVE  LET line == CfgListenerFile(e, c) IN
           /\ Line(line)
           /\ Names(Occurrences(line, "-i"), e.file)
           /\ Names(Occurrences(line, "-t"), e.mode)
           /\ Len(Occurrences(line, "-v")) = c.verbosity
           /\ Says(Occurrences(line, "-o"), PacketBus, c.bus_in)
           /\ Says(Occurrences(line, "--maxfd"), 0, c.max_file_descriptors)
           /\ \A o : o \notin {"-i", "-t", "-v", "-o", "--maxfd"} => Occurrences(line, o) = NoArgs
<1> DEFINE g1 == Arg("-i", e.file)
           g2 == Arg("-t", e.mode)
           g3 == Verbose(c)
           g4 == When(c.bus_in # PacketBus, "-o", c.bus_in)
           g5 == Maxfd(c)
           l2 == Joined(g1, g2)
           l3 == Joined(l2, g3)
           l4 == Joined(l3, g4)
           l5 == Joined(l4, g5)
           line == CfgListenerFile(e, c)
<1>0. line = l5
    BY DEF CfgListenerFile, Joined, TcpPort, DatabasePort
<1>1. Part(g1, "-i") /\ Names(g1, e.file)
    BY PartOf, Told
<1>2. Part(g2, "-t") /\ Names(g2, e.mode)
    BY PartOf, Told
<1>3. Part(g3, "-v") /\ Len(g3) = c.verbosity
    BY PartVerbose
<1>4. Part(g4, "-o") /\ Says(g4, PacketBus, c.bus_in)
    BY PartOf, Told DEF When, NoArgs
<1>5. Part(g5, "--maxfd") /\ Says(g5, 0, c.max_file_descriptors)
    BY MaxfdPart
<1> HIDE DEF line, g1, g2, g3, g4, g5
<1>21. Line(g1) /\ \A o : Occurrences(g1, o) = IF o = "-i" THEN g1 ELSE NoArgs
    BY <1>1, FirstPart
<1>22. Line(l2) /\ Adds(l2, g1, g2, "-t") /\ Joined(NoArgs, g2) = g2
    BY <1>2, <1>21, OneMore, FirstPart
<1> HIDE DEF l2
<1>23. Line(l3) /\ Adds(l3, l2, g3, "-v") /\ Joined(NoArgs, g3) = g3
    BY <1>3, <1>22, OneMore, FirstPart
<1> HIDE DEF l3
<1>24. Line(l4) /\ Adds(l4, l3, g4, "-o") /\ Joined(NoArgs, g4) = g4
    BY <1>4, <1>23, OneMore, FirstPart
<1> HIDE DEF l4
<1>25. Line(l5) /\ Adds(l5, l4, g5, "--maxfd") /\ Joined(NoArgs, g5) = g5
    BY <1>5, <1>24, OneMore, FirstPart
<1> HIDE DEF l5
<1>41. /\ Occurrences(l5, "-i") = g1
       /\ Occurrences(l5, "-t") = g2
       /\ Occurrences(l5, "-v") = g3
       /\ Occurrences(l5, "-o") = g4
       /\ Occurrences(l5, "--maxfd") = g5
    BY <1>21, <1>22, <1>23, <1>24, <1>25 DEF Adds
<1>42. ASSUME NEW o, o \notin {"-i", "-t", "-v", "-o", "--maxfd"} PROVE Occurrences(l5, o) = NoArgs
    BY <1>42, <1>21, <1>22, <1>23, <1>24, <1>25 DEF Adds
<1>43. /\ Line(line)
       /\ Names(Occurrences(line, "-i"), e.file)
       /\ Names(Occurrences(line, "-t"), e.mode)
       /\ Len(Occurrences(line, "-v")) = c.verbosity
       /\ Says(Occurrences(line, "-o"), PacketBus, c.bus_in)
       /\ Says(Occurrences(line, "--maxfd"), 0, c.max_file_descriptors)
       /\ \A o : o \notin {"-i", "-t", "-v", "-o", "--maxfd"} => Occurrences(line, o) = NoArgs
    BY <1>0, <1>1, <1>2, <1>3, <1>4, <1>5, <1>25, <1>41, <1>42
<1> QED BY <1>43 DEF line

\* What CfgPacket2Message::args() tells pkt2receiver, option by option; other options
\* do not occur.
LEMMA PacketLine ==
    ASSUME NEW e, NEW c, c.verbosity \in Nat, IsList(e.sizes)
    PROVE  LET line == CfgPacket2Message(e, c) IN
           /\ Line(line)
           /\ Says(Occurrences(line, "--message"), "", e.force_message)
           /\ Enumerates(Occurrences(line, "-a"), e.sizes)
           /\ Len(Occurrences(line, "-v")) = c.verbosity
           /\ Says(Occurrences(line, "-i"), PacketBus, c.bus_in)
           /\ Says(Occurrences(line, "-o"), MessageBus, c.bus_out)
           /\ Says(Occurrences(line, "-p"), "proto", Either(c.proto_path, "", "proto"))
           /\ Says(Occurrences(line, "-b"), BufferSize, Either(c.max_buffer_size, 0, BufferSize))
           /\ Says(Occurrences(line, "--maxfd"), 0, c.max_file_descriptors)
           /\ \A o : o \notin {"--message", "-a", "-v", "-i", "-o", "-p", "-b",
                 "--maxfd"} => Occurrences(line, o) = NoArgs
<1> DEFINE g1 == When(e.force_message # "", "--message", e.force_message)
           g2 == Each("-a", e.sizes)
           g3 == Verbose(c)
           g4 == When(c.bus_in # PacketBus, "-i", c.bus_in)
           g5 == When(c.bus_out # MessageBus, "-o", c.bus_out)
           g6 == Protos(c)
           g7 == NonzeroBuffer(c)
           g8 == Maxfd(c)
           l2 == Joined(g1, g2)
           l3 == Joined(l2, g3)
           l4 == Joined(l3, g4)
           l5 == Joined(l4, g5)
           l6 == Joined(l5, g6)
           l7 == Joined(l6, g7)
           l8 == Joined(l7, g8)
           line == CfgPacket2Message(e, c)
<1>0. line = l8
    BY DEF CfgPacket2Message, Joined, TcpPort, DatabasePort
<1>1. Part(g1, "--message") /\ Says(g1, "", e.force_message)
    BY PartOf, Told DEF When, NoArgs
<1>2. Part(g2, "-a") /\ Enumerates(g2, e.sizes)
    BY PartOf, Told
<1>3. Part(g3, "-v") /\ Len(g3) = c.verbosity
    BY PartVerbose
<1>4. Part(g4, "-i") /\ Says(g4, PacketBus, c.bus_in)
    BY PartOf, Told DEF When, NoArgs
<1>5. Part(g5, "-o") /\ Says(g5, MessageBus, c.bus_out)
    BY PartOf, Told DEF When, NoArgs
<1>6. Part(g6, "-p") /\ Says(g6, "proto", Either(c.proto_path, "", "proto"))
    BY ProtosPart
<1>7. Part(g7, "-b") /\ Says(g7, BufferSize, Either(c.max_buffer_size, 0, BufferSize))
    BY NonzeroBufferPart
<1>8. Part(g8, "--maxfd") /\ Says(g8, 0, c.max_file_descriptors)
    BY MaxfdPart
<1> HIDE DEF line, g1, g2, g3, g4, g5, g6, g7, g8
<1>21. Line(g1) /\ \A o : Occurrences(g1, o) = IF o = "--message" THEN g1 ELSE NoArgs
    BY <1>1, FirstPart
<1>22. Line(l2) /\ Adds(l2, g1, g2, "-a") /\ Joined(NoArgs, g2) = g2
    BY <1>2, <1>21, OneMore, FirstPart
<1> HIDE DEF l2
<1>23. Line(l3) /\ Adds(l3, l2, g3, "-v") /\ Joined(NoArgs, g3) = g3
    BY <1>3, <1>22, OneMore, FirstPart
<1> HIDE DEF l3
<1>24. Line(l4) /\ Adds(l4, l3, g4, "-i") /\ Joined(NoArgs, g4) = g4
    BY <1>4, <1>23, OneMore, FirstPart
<1> HIDE DEF l4
<1>25. Line(l5) /\ Adds(l5, l4, g5, "-o") /\ Joined(NoArgs, g5) = g5
    BY <1>5, <1>24, OneMore, FirstPart
<1> HIDE DEF l5
<1>26. Line(l6) /\ Adds(l6, l5, g6, "-p") /\ Joined(NoArgs, g6) = g6
    BY <1>6, <1>25, OneMore, FirstPart
<1> HIDE DEF l6
<1>27. Line(l7) /\ Adds(l7, l6, g7, "-b") /\ Joined(NoArgs, g7) = g7
    BY <1>7, <1>26, OneMore, FirstPart
<1> HIDE DEF l7
<1>28. Line(l8) /\ Adds(l8, l7, g8, "--maxfd") /\ Joined(NoArgs, g8) = g8
    BY <1>8, <1>27, OneMore, FirstPart
<1> HIDE DEF l8
<1>41. /\ Occurrences(l8, "--message") = g1
       /\ Occurrences(l8, "-a") = g2
       /\ Occurrences(l8, "-v") = g3
       /\ Occurrences(l8, "-i") = g4
       /\ Occurrences(l8, "-o") = g5
       /\ Occurrences(l8, "-p") = g6
       /\ Occurrences(l8, "-b") = g7
       /\ Occurrences(l8, "--maxfd") = g8
    BY <1>21, <1>22, <1>23, <1>24, <1>25, <1>26, <1>27, <1>28 DEF Adds
<1>42. ASSUME NEW o, o \notin {"--message", "-a", "-v", "-i", "-o", "-p", "-b", "--maxfd"}
        PROVE Occurrences(l8, o) = NoArgs
    BY <1>42, <1>21, <1>22, <1>23, <1>24, <1>25, <1>26, <1>27, <1>28 DEF Adds
<1>43. /\ Line(line)
       /\ Says(Occurrences(line, "--message"), "", e.force_message)
       /\ Enumerates(Occurrences(line, "-a"), e.sizes)
       /\ Len(Occurrences(line, "-v")) = c.verbosity
       /\ Says(Occurrences(line, "-i"), PacketBus, c.bus_in)
       /\ Says(Occurrences(line, "-o"), MessageBus, c.bus_out)
       /\ Says(Occurrences(line, "-p"), "proto", Either(c.proto_path, "", "proto"))
       /\ Says(Occurrences(line, "-b"), BufferSize, Either(c.max_buffer_size, 0, BufferSize))
       /\ Says(Occurrences(line, "--maxfd"), 0, c.max_file_descriptors)
       /\ \A o : o \notin {"--message", "-a", "-v", "-i", "-o", "-p", "-b",
             "--maxfd"} => Occurrences(line, o) = NoArgs
    BY <1>0, <1>1, <1>2, <1>3, <1>4, <1>5, <1>6, <1>7, <1>8, <1>28, <1>41, <1>42
<1> QED BY <1>43 DEF line

\* What CfgWriteFile::args() tells handlerline, option by option; other options do
\* not occur.
LEMMA TextLine ==
    ASSUME NEW e, NEW c, c.verbosity \in Nat, IsList(e.messages)
    PROVE  LET line == CfgWriteFile(e, c) IN
           /\ Line(line)
           /\ Names(Occurrences(line, "-o"), e.file)
           /\ Names(Occurrences(line, "--format"), e.mode)
           /\ Enumerates(Occurrences(line, "-a"), e.messages)
           /\ Len(Occurrences(line, "-v")) = c.verbosity
           /\ Says(Occurrences(line, "-i"), MessageBus, c.bus_out)
           /\ Says(Occurrences(line, "-p"), "proto", c.proto_path)
           /\ \A o : o \notin {"-o", "--format", "-a", "-v", "-i", "-p"} => Occurrences(line,
                 o) = NoArgs
<1> DEFINE g1 == Arg("-o", e.file)
           g2 == Arg("--format", e.mode)
           g3 == Each("-a", e.messages)
           g4 == Verbose(c)
           g5 == When(c.bus_out # MessageBus, "-i", c.bus_out)
           g6 == When(c.proto_path # "proto", "-p", c.proto_path)
           l2 == Joined(g1, g2)
           l3 == Joined(l2, g3)
           l4 == Joined(l3, g4)
           l5 == Joined(l4, g5)
           l6 == Joined(l5, g6)
           line == CfgWriteFile(e, c)
<1>0. line = l6
    BY DEF CfgWriteFile, Joined, TcpPort, DatabasePort
<1>1. Part(g1, "-o") /\ Names(g1, e.file)
    BY PartOf, Told
<1>2. Part(g2, "--format") /\ Names(g2, e.mode)
    BY PartOf, Told
<1>3. Part(g3, "-a") /\ Enumerates(g3, e.messages)
    BY PartOf, Told
<1>4. Part(g4, "-v") /\ Len(g4) = c.verbosity
    BY PartVerbose
<1>5. Part(g5, "-i") /\ Says(g5, MessageBus, c.bus_out)
    BY PartOf, Told DEF When, NoArgs
<1>6. Part(g6, "-p") /\ Says(g6, "proto", c.proto_path)
    BY PartOf, Told DEF When, NoArgs
<1> HIDE DEF line, g1, g2, g3, g4, g5, g6
<1>21. Line(g1) /\ \A o : Occurrences(g1, o) = IF o = "-o" THEN g1 ELSE NoArgs
    BY <1>1, FirstPart
<1>22. Line(l2) /\ Adds(l2, g1, g2, "--format") /\ Joined(NoArgs, g2) = g2
    BY <1>2, <1>21, OneMore, FirstPart
<1> HIDE DEF l2
<1>23. Line(l3) /\ Adds(l3, l2, g3, "-a") /\ Joined(NoArgs, g3) = g3
    BY <1>3, <1>22, OneMore, FirstPart
<1> HIDE DEF l3
<1>24. Line(l4) /\ Adds(l4, l3, g4, "-v") /\ Joined(NoArgs, g4) = g4
    BY <1>4, <1>23, OneMore, FirstPart
<1> HIDE DEF l4
<1>25. Line(l5) /\ Adds(l5, l4, g5, "-i") /\ Joined(NoArgs, g5) = g5
    BY <1>5, <1>24, OneMore, FirstPart
<1> HIDE DEF l5
<1>26. Line(l6) /\ Adds(l6, l5, g6, "-p") /\ Joined(NoArgs, g6) = g6
    BY <1>6, <1>25, OneMore, FirstPart
<1> HIDE DEF l6
<1>41. /\ Occurrences(l6, "-o") = g1
       /\ Occurrences(l6, "--format") = g2
       /\ Occurrences(l6, "-a") = g3
       /\ Occurrences(l6, "-v") = g4
       /\ Occurrences(l6, "-i") = g5
       /\ Occurrences(l6, "-p") = g6
    BY <1>21, <1>22, <1>23, <1>24, <1>25, <1>26 DEF Adds
<1>42. ASSUME NEW o, o \notin {"-o", "--format", "-a", "-v", "-i", "-p"}
        PROVE Occurrences(l6, o) = NoArgs
    BY <1>42, <1>21, <1>22, <1>23, <1>24, <1>25, <1>26 DEF Adds
<1>43. /\ Line(line)
       /\ Names(Occurrences(line, "-o"), e.file)
       /\ Names(Occurrences(line, "--format"), e.mode)
       /\ Enumerates(Occurrences(line, "-a"), e.messages)
       /\ Len(Occurrences(line, "-v")) = c.verbosity
       /\ Says(Occurrences(line, "-i"), MessageBus, c.bus_out)
       /\ Says(Occurrences(line, "-p"), "proto", c.proto_path)
       /\ \A o : o \notin {"-o", "--format", "-a", "-v", "-i", "-p"} => Occurrences(line, o) = NoArgs
    BY <1>0, <1>1, <1>2, <1>3, <1>4, <1>5, <1>6, <1>26, <1>41, <1>42
<1> QED BY <1>43 DEF line

\* The arguments that the writers of databases have in common, option by option.
LEMMA WriteLine ==
    ASSUME NEW e, NEW c, c.verbosity \in Nat, IsList(e.messages)
    PROVE  LET line == CfgWrite(e, c) IN
           /\ Line(line)
           /\ Enumerates(Occurrences(line, "-a"), e.messages)
           /\ Len(Occurrences(line, "-v")) = c.verbosity
           /\ Says(Occurrences(line, "-i"), MessageBus, c.bus_out)
           /\ Says(Occurrences(line, "-p"), "proto", Either(c.proto_path, "", "proto"))
           /\ Says(Occurrences(line, "-b"), BufferSize, c.max_buffer_size)
           /\ \A o : o \notin {"-a", "-v", "-i", "-p", "-b"} => Occurrences(line, o) = NoArgs
<1> DEFINE g1 == Each("-a", e.messages)
           g2 == Verbose(c)
           g3 == When(c.bus_out # MessageBus, "-i", c.bus_out)
           g4 == Protos(c)
           g5 == Buffer(c)
           l2 == Joined(g1, g2)
           l3 == Joined(l2, g3)
           l4 == Joined(l3, g4)
           l5 == Joined(l4, g5)
           line == CfgWrite(e, c)
<1>0. line = l5
    BY DEF CfgWrite, Joined, TcpPort, DatabasePort
<1>1. Part(g1, "-a") /\ Enumerates(g1, e.messages)
    BY PartOf, Told
<1>2. Part(g2, "-v") /\ Len(g2) = c.verbosity
    BY PartVerbose
<1>3. Part(g3, "-i") /\ Says(g3, MessageBus, c.bus_out)
    BY PartOf, Told DEF When, NoArgs
<1>4. Part(g4, "-p") /\ Says(g4, "proto", Either(c.proto_path, "", "proto"))
    BY ProtosPart
<1>5. Part(g5, "-b") /\ Says(g5, BufferSize, c.max_buffer_size)
    BY BufferPart
<1> HIDE DEF line, g1, g2, g3, g4, g5
<1>21. Line(g1) /\ \A o : Occurrences(g1, o) = IF o = "-a" THEN g1 ELSE NoArgs
    BY <1>1, FirstPart
<1>22. Line(l2) /\ Adds(l2, g1, g2, "-v") /\ Joined(NoArgs, g2) = g2
    BY <1>2, <1>21, OneMore, FirstPart
<1> HIDE DEF l2
<1>23. Line(l3) /\ Adds(l3, l2, g3, "-i") /\ Joined(NoArgs, g3) = g3
    BY <1>3, <1>22, OneMore, FirstPart
<1> HIDE DEF l3
<1>24. Line(l4) /\ Adds(l4, l3, g4, "-p") /\ Joined(NoArgs, g4) = g4
    BY <1>4, <1>23, OneMore, FirstPart
<1> HIDE DEF l4
<1>25. Line(l5) /\ Adds(l5, l4, g5, "-b") /\ Joined(NoArgs, g5) = g5
    BY <1>5, <1>24, OneMore, FirstPart
<1> HIDE DEF l5
<1>41. /\ Occurrences(l5, "-a") = g1
       /\ Occurrences(l5, "-v") = g2
       /\ Occurrences(l5, "-i") = g3
       /\ Occurrences(l5, "-p") = g4
       /\ Occurrences(l5, "-b") = g5
    BY <1>21, <1>22, <1>23, <1>24, <1>25 DEF Adds
<1>42. ASSUME NEW o, o \notin {"-a", "-v", "-i", "-p", "-b"} PROVE Occurrences(l5, o) = NoArgs
    BY <1>42, <1>21, <1>22, <1>23, <1>24, <1>25 DEF Adds
<1>43. /\ Line(line)
       /\ Enumerates(Occurrences(line, "-a"), e.messages)
       /\ Len(Occurrences(line, "-v")) = c.verbosity
       /\ Says(Occurrences(line, "-i"), MessageBus, c.bus_out)
       /\ Says(Occurrences(line, "-p"), "proto", Either(c.proto_path, "", "proto"))
       /\ Says(Occurrences(line, "-b"), BufferSize, c.max_buffer_size)
       /\ \A o : o \notin {"-a", "-v", "-i", "-p", "-b"} => Occurrences(line, o) = NoArgs
    BY <1>0, <1>1, <1>2, <1>3, <1>4, <1>5, <1>25, <1>41, <1>42
<1> QED BY <1>43 DEF line

\* The arguments that tell a writer of its database, option by option.
LEMMA DatabaseLine ==
    ASSUME NEW e
    PROVE  LET line == Database(e) IN
           /\ Line(line)
           /\ Names(Occurrences(line, "--user"), e.user)
           /\ Names(Occurrences(line, "--password"), e.password)
           /\ Names(Occurrences(line, "--database"), e.scheme)
           /\ Names(Occurrences(line, "--host"), e.host)
           /\ Says(Occurrences(line, "--port"), DatabasePort, e.port)
           /\ \A o : o \notin {"--user", "--password", "--database", "--host",
                 "--port"} => Occurrences(line, o) = NoArgs
<1> DEFINE g1 == Arg("--user", e.user)
           g2 == Arg("--password", e.password)
           g3 == Arg("--database", e.scheme)
           g4 == Arg("--host", e.host)
           g5 == When(e.port # DatabasePort, "--port", e.port)
           l2 == Joined(g1, g2)
           l3 == Joined(l2, g3)
           l4 == Joined(l3, g4)
           l5 == Joined(l4, g5)
           line == Database(e)
<1>0. line = l5
    BY DEF Database, Joined, TcpPort, DatabasePort
<1>1. Part(g1, "--user") /\ Names(g1, e.user)
    BY PartOf, Told
<1>2. Part(g2, "--password") /\ Names(g2, e.password)
    BY PartOf, Told
<1>3. Part(g3, "--database") /\ Names(g3, e.scheme)
    BY PartOf, Told
<1>4. Part(g4, "--host") /\ Names(g4, e.host)
    BY PartOf, Told
<1>5. Part(g5, "--port") /\ Says(g5, DatabasePort, e.port)
    BY PartOf, Told DEF When, NoArgs
<1> HIDE DEF line, g1, g2, g3, g4, g5
<1>21. Line(g1) /\ \A o : Occurrences(g1, o) = IF o = "--user" THEN g1 ELSE NoArgs
    BY <1>1, FirstPart
<1>22. Line(l2) /\ Adds(l2, g1, g2, "--password") /\ Joined(NoArgs, g2) = g2
    BY <1>2, <1>21, OneMore, FirstPart
<1> HIDE DEF l2
<1>23. Line(l3) /\ Adds(l3, l2, g3, "--database") /\ Joined(NoArgs, g3) = g3
    BY <1>3, <1>22, OneMore, FirstPart
<1> HIDE DEF l3
<1>24. Line(l4) /\ Adds(l4, l3, g4, "--host") /\ Joined(NoArgs, g4) = g4
    BY <1>4, <1>23, OneMore, FirstPart
<1> HIDE DEF l4
<1>25. Line(l5) /\ Adds(l5, l4, g5, "--port") /\ Joined(NoArgs, g5) = g5
    BY <1>5, <1>24, OneMore, FirstPart
<1> HIDE DEF l5
<1>41. /\ Occurrences(l5, "--user") = g1
       /\ Occurrences(l5, "--password") = g2
       /\ Occurrences(l5, "--database") = g3
       /\ Occurrences(l5, "--host") = g4
       /\ Occurrences(l5, "--port") = g5
    BY <1>21, <1>22, <1>23, <1>24, <1>25 DEF Adds
<1>42. ASSUME NEW o, o \notin {"--user", "--password", "--database", "--host", "--port"}
        PROVE Occurrences(l5, o) = NoArgs
    BY <1>42, <1>21, <1>22, <1>23, <1>24, <1>25 DEF Adds
<1>43. /\ Line(line)
       /\ Names(Occurrences(line, "--user"), e.user)
       /\ Names(Occurrences(line, "--password"), e.password)
       /\ Names(Occurrences(line, "--database"), e.scheme)
       /\ Names(Occurrences(line, "--host"), e.host)
       /\ Says(Occurrences(line, "--port"), DatabasePort, e.port)
       /\ \A o : o \notin {"--user", "--password", "--database", "--host",
             "--port"} => Occurrences(line, o) = NoArgs
    BY <1>0, <1>1, <1>2, <1>3, <1>4, <1>5, <1>25, <1>41, <1>42
<1> QED BY <1>43 DEF line

\* What CfgWriteLmdb::args() tells handlerlmdb, option by option; other options do
\* not occur.
LEMMA LmdbLine ==
    ASSUME NEW e, NEW c, c.verbosity \in Nat, IsList(e.messages)
    PROVE  LET line == CfgWriteLmdb(e, c) IN
           /\ Line(line)
           /\ Names(Occurrences(line, "--dbpath"), e.dbpath)
           /\ Enumerates(Occurrences(line, "-a"), e.messages)
           /\ Len(Occurrences(line, "-v")) = c.verbosity
           /\ Says(Occurrences(line, "-i"), MessageBus, c.bus_out)
           /\ Says(Occurrences(line, "-p"), "proto", Either(c.proto_path, "", "proto"))
           /\ Says(Occurrences(line, "-b"), BufferSize, c.max_buffer_size)
           /\ \A o : o \notin {"--dbpath", "-a", "-v", "-i", "-p", "-b"} => Occurrences(line,
                 o) = NoArgs
<1> DEFINE g1 == Arg("--dbpath", e.dbpath)
           w == CfgWrite(e, c)
           j1 == Joined(g1, w)
           line == CfgWriteLmdb(e, c)
<1>0. line = j1
    BY DEF CfgWriteLmdb, Joined, TcpPort, DatabasePort
<1>1. Part(g1, "--dbpath") /\ Names(g1, e.dbpath)
    BY PartOf, Told
<1>w. /\ Line(w)
       /\ Enumerates(Occurrences(w, "-a"), e.messages)
       /\ Len(Occurrences(w, "-v")) = c.verbosity
       /\ Says(Occurrences(w, "-i"), MessageBus, c.bus_out)
       /\ Says(Occurrences(w, "-p"), "proto", Either(c.proto_path, "", "proto"))
       /\ Says(Occurrences(w, "-b"), BufferSize, c.max_buffer_size)
       /\ \A o : o \notin {"-a", "-v", "-i", "-p", "-b"} => Occurrences(w, o) = NoArgs
    BY WriteLine
<1> HIDE DEF line, g1, w
<1>21. Line(g1) /\ \A o : Occurrences(g1, o) = IF o = "--dbpath" THEN g1 ELSE NoArgs
    BY <1>1, FirstPart
<1>41. /\ Occurrences(g1, "--dbpath") = g1
    BY <1>21 DEF Adds
<1>42. ASSUME NEW o, o \notin {"--dbpath"} PROVE Occurrences(g1, o) = NoArgs
    BY <1>42, <1>21 DEF Adds
<1>61. Line(j1) /\ Merges(j1, g1, w)
    BY <1>21, <1>w, TwoLines
<1> HIDE DEF j1
<1>71. /\ Occurrences(j1, "--dbpath") = Occurrences(g1, "--dbpath")
       /\ Occurrences(j1, "-a") = Occurrences(w, "-a")
       /\ Occurrences(j1, "-v") = Occurrences(w, "-v")
       /\ Occurrences(j1, "-i") = Occurrences(w, "-i")
       /\ Occurrences(j1, "-p") = Occurrences(w, "-p")
       /\ Occurrences(j1, "-b") = Occurrences(w, "-b")
    BY <1>42, <1>w, <1>61 DEF Merges
<1>72. \A o : o \notin {"--dbpath", "-a", "-v", "-i", "-p", "-b"} => Occurrences(j1, o) = NoArgs
    BY <1>42, <1>w, <1>61 DEF Merges
<1>43. /\ Line(line)
       /\ Names(Occurrences(line, "--dbpath"), e.dbpath)
       /\ Enumerates(Occurrences(line, "-a"), e.messages)
       /\ Len(Occurrences(line, "-v")) = c.verbosity
       /\ Says(Occurrences(line, "-i"), MessageBus, c.bus_out)
       /\ Says(Occurrences(line, "-p"), "proto", Either(c.proto_path, "", "proto"))
       /\ Says(Occurrences(line, "-b"), BufferSize, c.max_buffer_size)
       /\ \A o : o \notin {"--dbpath", "-a", "-v", "-i", "-p", "-b"} => Occurrences(line, o) = NoArgs
    BY <1>0, <1>1, <1>21, <1>41, <1>42, <1>w, <1>61, <1>71, <1>72
<1> QED BY <1>43 DEF line

\* What CfgWritePq::args() tells handlerpq, option by option; other options do not
\* occur.
LEMMA PqLine ==
    ASSUME NEW e, NEW c, c.verbosity \in Nat, IsList(e.messages)
    PROVE  LET line == CfgWritePq(e, c) IN
           /\ Line(line)
           /\ Names(Occurrences(line, "--user"), e.user)
           /\ Names(Occurrences(line, "--password"), e.password)
           /\ Names(Occurrences(line, "--database"), e.scheme)
           /\ Names(Occurrences(line, "--host"), e.host)
           /\ Says(Occurrences(line, "--port"), DatabasePort, e.port)
           /\ Enumerates(Occurrences(line, "-a"), e.messages)
           /\ Len(Occurrences(line, "-v")) = c.verbosity
           /\ Says(Occurrences(line, "-i"), MessageBus, c.bus_out)
           /\ Says(Occurrences(line, "-p"), "proto", Either(c.proto_path, "", "proto"))
           /\ Says(Occurrences(line, "-b"), BufferSize, c.max_buffer_size)
           /\ \A o : o \notin {"--user", "--password", "--database", "--host", "--port", "-a", "-v",
                 "-i", "-p", "-b"} => Occurrences(line, o) = NoArgs
<1> DEFINE d == Database(e)
           w == CfgWrite(e, c)
           j1 == Joined(d, w)
           line == CfgWritePq(e, c)
<1>0. line = j1
    BY DEF CfgWritePq, Joined, TcpPort, DatabasePort
<1>d. /\ Line(d)
       /\ Names(Occurrences(d, "--user"), e.user)
       /\ Names(Occurrences(d, "--password"), e.password)
       /\ Names(Occurrences(d, "--database"), e.scheme)
       /\ Names(Occurrences(d, "--host"), e.host)
       /\ Says(Occurrences(d, "--port"), DatabasePort, e.port)
       /\ \A o : o \notin {"--user", "--password", "--database", "--host", "--port"} => Occurrences(d,
             o) = NoArgs
    BY DatabaseLine
<1>w. /\ Line(w)
       /\ Enumerates(Occurrences(w, "-a"), e.messages)
       /\ Len(Occurrences(w, "-v")) = c.verbosity
       /\ Says(Occurrences(w, "-i"), MessageBus, c.bus_out)
       /\ Says(Occurrences(w, "-p"), "proto", Either(c.proto_path, "", "proto"))
       /\ Says(Occurrences(w, "-b"), BufferSize, c.max_buffer_size)
       /\ \A o : o \notin {"-a", "-v", "-i", "-p", "-b"} => Occurrences(w, o) = NoArgs
    BY WriteLine
<1> HIDE DEF line, d, w
<1>61. Line(j1) /\ Merges(j1, d, w)
    BY <1>d, <1>w, TwoLines
<1> HIDE DEF j1
<1>71. /\ Occurrences(j1, "--user") = Occurrences(d, "--user")
       /\ Occurrences(j1, "--password") = Occurrences(d, "--password")
       /\ Occurrences(j1, "--database") = Occurrences(d, "--database")
       /\ Occurrences(j1, "--host") = Occurrences(d, "--host")
       /\ Occurrences(j1, "--port") = Occurrences(d, "--port")
       /\ Occurrences(j1, "-a") = Occurrences(w, "-a")
       /\ Occurrences(j1, "-v") = Occurrences(w, "-v")
       /\ Occurrences(j1, "-i") = Occurrences(w, "-i")
       /\ Occurrences(j1, "-p") = Occurrences(w, "-p")
       /\ Occurrences(j1, "-b") = Occurrences(w, "-b")
    BY <1>d, <1>w, <1>61 DEF Merges
<1>72. \A o : o \notin {"--user", "--password", "--database", "--host", "--port", "-a", "-v", "-i",
        "-p", "-b"} => Occurrences(j1, o) = NoArgs
    BY <1>d, <1>w, <1>61 DEF Merges
<1>43. /\ Line(line)
       /\ Names(Occurrences(line, "--user"), e.user)
       /\ Names(Occurrences(line, "--password"), e.password)
       /\ Names(Occurrences(line, "--database"), e.scheme)
       /\ Names(Occurrences(line, "--host"), e.host)
       /\ Says(Occurrences(line, "--port"), DatabasePort, e.port)
       /\ Enumerates(Occurrences(line, "-a"), e.messages)
       /\ Len(Occurrences(line, "-v")) = c.verbosity
       /\ Says(Occurrences(line, "-i"), MessageBus, c.bus_out)
       /\ Says(Occurrences(line, "-p"), "proto", Either(c.proto_path, "", "proto"))
       /\ Says(Occurrences(line, "-b"), BufferSize, c.max_buffer_size)
       /\ \A o : o \notin {"--user", "--password", "--database", "--host", "--port", "-a", "-v", "-i",
             "-p", "-b"} => Occurrences(line, o) = NoArgs
    BY <1>0, <1>d, <1>w, <1>61, <1>71, <1>72
<1> QED BY <1>43 DEF line

\* What CfgWriteFcm::args() tells handler_fcm, option by option, if it takes key and
\* imei for arguments; other options do not occur.
LEMMA FcmLine ==
    ASSUME NEW e, NEW c, c.verbosity \in Nat, IsList(e.messages), e.key \notin {"", DEF_SERVER_KEY},
            e.imei = "imei"
    PROVE  LET line == CfgWriteFcm(e, c) IN
           /\ Line(line)
           /\ Names(Occurrences(line, "--key"), e.key)
           /\ Names(Occurrences(line, "--imei"), e.imei)
           /\ Names(Occurrences(line, "--user"), e.user)
           /\ Names(Occurrences(line, "--password"), e.password)
           /\ Names(Occurrences(line, "--database"), e.scheme)
           /\ Names(Occurrences(line, "--host"), e.host)
           /\ Says(Occurrences(line, "--port"), DatabasePort, e.port)
           /\ Enumerates(Occurrences(line, "-a"), e.messages)
           /\ Len(Occurrences(line, "-v")) = c.verbosity
           /\ Says(Occurrences(line, "-i"), MessageBus, c.bus_out)
           /\ Says(Occurrences(line, "-p"), "proto", Either(c.proto_path, "", "proto"))
           /\ Says(Occurrences(line, "-b"), BufferSize, c.max_buffer_size)
           /\ \A o : o \notin {"--key", "--imei", "--user", "--password", "--database", "--host",
                 "--port", "-a", "-v", "-i", "-p", "-b"} => Occurrences(line, o) = NoArgs
<1> DEFINE g1 == Arg("--key", e.key)
           g2 == Arg("--imei", e.imei)
           l2 == Joined(g1, g2)
           d == Database(e)
           j1 == Joined(l2, d)
           w == CfgWrite(e, c)
           j2 == Joined(j1, w)
           line == CfgWriteFcm(e, c)
<1>0. line = j2
    BY DEF CfgWriteFcm, Joined, TcpPort, DatabasePort
<1>1. Part(g1, "--key") /\ Names(g1, e.key)
    BY PartOf, Told
<1>2. Part(g2, "--imei") /\ Names(g2, e.imei)
    BY PartOf, Told
<1>d. /\ Line(d)
       /\ Names(Occurrences(d, "--user"), e.user)
       /\ Names(Occurrences(d, "--password"), e.password)
       /\ Names(Occurrences(d, "--database"), e.scheme)
       /\ Names(Occurrences(d, "--host"), e.host)
       /\ Says(Occurrences(d, "--port"), DatabasePort, e.port)
       /\ \A o : o \notin {"--user", "--password", "--database", "--host", "--port"} => Occurrences(d,
             o) = NoArgs
    BY DatabaseLine
<1>w. /\ Line(w)
       /\ Enumerates(Occurrences(w, "-a"), e.messages)
       /\ Len(Occurrences(w, "-v")) = c.verbosity
       /\ Says(Occurrences(w, "-i"), MessageBus, c.bus_out)
       /\ Says(Occurrences(w, "-p"), "proto", Either(c.proto_path, "", "proto"))
       /\ Says(Occurrences(w, "-b"), BufferSize, c.max_buffer_size)
       /\ \A o : o \notin {"-a", "-v", "-i", "-p", "-b"} => Occurrences(w, o) = NoArgs
    BY WriteLine
<1> HIDE DEF line, g1, g2, d, w
<1>21. Line(g1) /\ \A o : Occurrences(g1, o) = IF o = "--key" THEN g1 ELSE NoArgs
    BY <1>1, FirstPart
<1>22. Line(l2) /\ Adds(l2, g1, g2, "--imei") /\ Joined(NoArgs, g2) = g2
    BY <1>2, <1>21, OneMore, FirstPart
<1> HIDE DEF l2
<1>41. /\ Occurrences(l2, "--key") = g1
       /\ Occurrences(l2, "--imei") = g2
    BY <1>21, <1>22 DEF Adds
<1>42. ASSUME NEW o, o \notin {"--key", "--imei"} PROVE Occurrences(l2, o) = NoArgs
    BY <1>42, <1>21, <1>22 DEF Adds
<1>61. Line(j1) /\ Merges(j1, l2, d)
    BY <1>22, <1>d, TwoLines
<1> HIDE DEF j1
<1>62. Line(j2) /\ Merges(j2, j1, w)
    BY <1>61, <1>w, TwoLines
<1> HIDE DEF j2
<1>71. /\ Occurrences(j2, "--key") = Occurrences(l2, "--key")
       /\ Occurrences(j2, "--imei") = Occurrences(l2, "--imei")
       /\ Occurrences(j2, "--user") = Occurrences(d, "--user")
       /\ Occurrences(j2, "--password") = Occurrences(d, "--password")
       /\ Occurrences(j2, "--database") = Occurrences(d, "--database")
       /\ Occurrences(j2, "--host") = Occurrences(d, "--host")
       /\ Occurrences(j2, "--port") = Occurrences(d, "--port")
       /\ Occurrences(j2, "-a") = Occurrences(w, "-a")
       /\ Occurrences(j2, "-v") = Occurrences(w, "-v")
       /\ Occurrences(j2, "-i") = Occurrences(w, "-i")
       /\ Occurrences(j2, "-p") = Occurrences(w, "-p")
       /\ Occurrences(j2, "-b") = Occurrences(w, "-b")
    BY <1>42, <1>d, <1>w, <1>61, <1>62 DEF Merges
<1>72. \A o : o \notin {"--key", "--imei", "--user", "--password", "--database", "--host", "--port",
        "-a", "-v", "-i", "-p", "-b"} => Occurrences(j2, o) = NoArgs
    BY <1>42, <1>d, <1>w, <1>61, <1>62 DEF Merges
<1>43. /\ Line(line)
       /\ Names(Occurrences(line, "--key"), e.key)
       /\ Names(Occurrences(line, "--imei"), e.imei)
       /\ Names(Occurrences(line, "--user"), e.user)
       /\ Names(Occurrences(line, "--password"), e.password)
       /\ Names(Occurrences(line, "--database"), e.scheme)
       /\ Names(Occurrences(line, "--host"), e.host)
       /\ Says(Occurrences(line, "--port"), DatabasePort, e.port)
       /\ Enumerates(Occurrences(line, "-a"), e.messages)
       /\ Len(Occurrences(line, "-v")) = c.verbosity
       /\ Says(Occurrences(line, "-i"), MessageBus, c.bus_out)
       /\ Says(Occurrences(line, "-p"), "proto", Either(c.proto_path, "", "proto"))
       /\ Says(Occurrences(line, "-b"), BufferSize, c.max_buffer_size)
       /\ \A o : o \notin {"--key", "--imei", "--user", "--password", "--database", "--host", "--port",
             "-a", "-v", "-i", "-p", "-b"} => Occurrences(line, o) = NoArgs
    BY <1>0, <1>1, <1>2, <1>22, <1>41, <1>42, <1>d, <1>w, <1>61, <1>62, <1>71, <1>72
<1> QED BY <1>43 DEF line

\* What CfgWriteGoogleSheets::args() tells handler_google_sheets, option by option;
\* other options do not occur.
LEMMA SheetsLine ==
    ASSUME NEW e, NEW c, c.verbosity \in Nat, IsList(e.messages)
    PROVE  LET line == CfgWriteGoogleSheets(e, c) IN
           /\ Line(line)
           /\ Names(Occurrences(line, "-g"), e.json_service_file_name)
           /\ Names(Occurrences(line, "-B"), e.bearer_file_name)
           /\ Names(Occurrences(line, "-e"), e.email)
           /\ Names(Occurrences(line, "-s"), e.spreadsheet)
           /\ Names(Occurrences(line, "-t"), e.sheet)
           /\ Enumerates(Occurrences(line, "-a"), e.messages)
           /\ Len(Occurrences(line, "-v")) = c.verbosity
           /\ Says(Occurrences(line, "-i"), MessageBus, c.bus_out)
           /\ Says(Occurrences(line, "-p"), "proto", Either(c.proto_path, "", "proto"))
           /\ Says(Occurrences(line, "-b"), BufferSize, c.max_buffer_size)
           /\ \A o : o \notin {"-g", "-B", "-e", "-s", "-t", "-a", "-v", "-i", "-p",
                 "-b"} => Occurrences(line, o) = NoArgs
<1> DEFINE g1 == Arg("-g", e.json_service_file_name)
           g2 == Arg("-B", e.bearer_file_name)
           g3 == Arg("-e", e.email)
           g4 == Arg("-s", e.spreadsheet)
           g5 == Arg("-t", e.sheet)
           l2 == Joined(g1, g2)
           l3 == Joined(l2, g3)
           l4 == Joined(l3, g4)
           l5 == Joined(l4, g5)
           w == CfgWrite(e, c)
           j1 == Joined(l5, w)
           line == CfgWriteGoogleSheets(e, c)
<1>0. line = j1
    BY DEF CfgWriteGoogleSheets, Joined, TcpPort, DatabasePort
<1>1. Part(g1, "-g") /\ Names(g1, e.json_service_file_name)
    BY PartOf, Told
<1>2. Part(g2, "-B") /\ Names(g2, e.bearer_file_name)
    BY PartOf, Told
<1>3. Part(g3, "-e") /\ Names(g3, e.email)
    BY PartOf, Told
<1>4. Part(g4, "-s") /\ Names(g4, e.spreadsheet)
    BY PartOf, Told
<1>5. Part(g5, "-t") /\ Names(g5, e.sheet)
    BY PartOf, Told
<1>w. /\ Line(w)
       /\ Enumerates(Occurrences(w, "-a"), e.messages)
       /\ Len(Occurrences(w, "-v")) = c.verbosity
       /\ Says(Occurrences(w, "-i"), MessageBus, c.bus_out)
       /\ Says(Occurrences(w, "-p"), "proto", Either(c.proto_path, "", "proto"))
       /\ Says(Occurrences(w, "-b"), BufferSize, c.max_buffer_size)
       /\ \A o : o \notin {"-a", "-v", "-i", "-p", "-b"} => Occurrences(w, o) = NoArgs
    BY WriteLine
<1> HIDE DEF line, g1, g2, g3, g4, g5, w
<1>21. Line(g1) /\ \A o : Occurrences(g1, o) = IF o = "-g" THEN g1 ELSE NoArgs
    BY <1>1, FirstPart
<1>22. Line(l2) /\ Adds(l2, g1, g2, "-B") /\ Joined(NoArgs, g2) = g2
    BY <1>2, <1>21, OneMore, FirstPart
<1> HIDE DEF l2
<1>23. Line(l3) /\ Adds(l3, l2, g3, "-e") /\ Joined(NoArgs, g3) = g3
    BY <1>3, <1>22, OneMore, FirstPart
<1> HIDE DEF l3
<1>24. Line(l4) /\ Adds(l4, l3, g4, "-s") /\ Joined(NoArgs, g4) = g4
    BY <1>4, <1>23, OneMore, FirstPart
<1> HIDE DEF l4
<1>25. Line(l5) /\ Adds(l5, l4, g5, "-t") /\ Joined(NoArgs, g5) = g5
    BY <1>5, <1>24, OneMore, FirstPart
<1> HIDE DEF l5
<1>41. /\ Occurrences(l5, "-g") = g1
       /\ Occurrences(l5, "-B") = g2
       /\ Occurrences(l5, "-e") = g3
       /\ Occurrences(l5, "-s") = g4
       /\ Occurrences(l5, "-t") = g5
    BY <1>21, <1>22, <1>23, <1>24, <1>25 DEF Adds
<1>42. ASSUME NEW o, o \notin {"-g", "-B", "-e", "-s", "-t"} PROVE Occurrences(l5, o) = NoArgs
    BY <1>42, <1>21, <1>22, <1>23, <1>24, <1>25 DEF Adds
<1>61. Line(j1) /\ Merges(j1, l5, w)
    BY <1>25, <1>w, TwoLines
<1> HIDE DEF j1
<1>71. /\ Occurrences(j1, "-g") = Occurrences(l5, "-g")
       /\ Occurrences(j1, "-B") = Occurrences(l5, "-B")
       /\ Occurrences(j1, "-e") = Occurrences(l5, "-e")
       /\ Occurrences(j1, "-s") = Occurrences(l5, "-s")
       /\ Occurrences(j1, "-t") = Occurrences(l5, "-t")
       /\ Occurrences(j1, "-a") = Occurrences(w, "-a")
       /\ Occurrences(j1, "-v") = Occurrences(w, "-v")
       /\ Occurrences(j1, "-i") = Occurrences(w, "-i")
       /\ Occurrences(j1, "-p") = Occurrences(w, "-p")
       /\ Occurrences(j1, "-b") = Occurrences(w, "-b")
    BY <1>42, <1>w, <1>61 DEF Merges
<1>72. \A o : o \notin {"-g", "-B", "-e", "-s", "-t", "-a", "-v", "-i", "-p", "-b"} => Occurrences(j1,
        o) = NoArgs
    BY <1>42, <1>w, <1>61 DEF Merges
<1>43. /\ Line(line)
       /\ Names(Occurrences(line, "-g"), e.json_service_file_name)
       /\ Names(Occurrences(line, "-B"), e.bearer_file_name)
       /\ Names(Occurrences(line, "-e"), e.email)
       /\ Names(Occurrences(line, "-s"), e.spreadsheet)
       /\ Names(Occurrences(line, "-t"), e.sheet)
       /\ Enumerates(Occurrences(line, "-a"), e.messages)
       /\ Len(Occurrences(line, "-v")) = c.verbosity
       /\ Says(Occurrences(line, "-i"), MessageBus, c.bus_out)
       /\ Says(Occurrences(line, "-p"), "proto", Either(c.proto_path, "", "proto"))
       /\ Says(Occurrences(line, "-b"), BufferSize, c.max_buffer_size)
       /\ \A o : o \notin {"-g", "-B", "-e", "-s", "-t", "-a", "-v", "-i", "-p",
             "-b"} => Occurrences(line, o) = NoArgs
    BY <1>0, <1>1, <1>2, <1>3, <1>4, <1>5, <1>25, <1>41, <1>42, <1>w, <1>61, <1>71, <1>72
<1> QED BY <1>43 DEF line

\* What CfgRepeator::args() tells repeator, option by option; other options do not
\* occur.
LEMMA RepeatLine ==
    ASSUME NEW e, NEW c, c.verbosity \in Nat, IsList(e.outs), e.bind \in BOOLEAN
    PROVE  LET line == CfgRepeator(e, c) IN
           /\ Line(line)
           /\ Says(Occurrences(line, "-i"), ControlBus, e.in)
           /\ Len(Occurrences(line, "-s")) = BindCount(e)
           /\ Addressed(Occurrences(line, "-o"), e.outs)
           /\ Len(Occurrences(line, "-v")) = c.verbosity
           /\ Says(Occurrences(line, "-b"), BufferSize, c.max_buffer_size)
           /\ \A o : o \notin {"-i", "-s", "-o", "-v", "-b"} => Occurrences(line, o) = NoArgs
<1> DEFINE g1 == When(e.in # ControlBus, "-i", e.in)
           g2 == Bind(e)
           g3 == Addresses(e)
           g4 == Verbose(c)
           g5 == Buffer(c)
           l2 == Joined(g1, g2)
           l3 == Joined(l2, g3)
           l4 == Joined(l3, g4)
           l5 == Joined(l4, g5)
           line == CfgRepeator(e, c)
<1>0. line = l5
    BY DEF CfgRepeator, Bind, Addresses, NoArgs, Joined, TcpPort, DatabasePort
<1>1. Part(g1, "-i") /\ Says(g1, ControlBus, e.in)
    BY PartOf, Told DEF When, NoArgs
<1>2. Part(g2, "-s") /\ Len(g2) = BindCount(e)
    BY BindPart
<1>3. Part(g3, "-o") /\ Addressed(g3, e.outs)
    BY AddressesPart
<1>4. Part(g4, "-v") /\ Len(g4) = c.verbosity
    BY PartVerbose
<1>5. Part(g5, "-b") /\ Says(g5, BufferSize, c.max_buffer_size)
    BY BufferPart
<1> HIDE DEF line, g1, g2, g3, g4, g5
<1>21. Line(g1) /\ \A o : Occurrences(g1, o) = IF o = "-i" THEN g1 ELSE NoArgs
    BY <1>1, FirstPart
<1>22. Line(l2) /\ Adds(l2, g1, g2, "-s") /\ Joined(NoArgs, g2) = g2
    BY <1>2, <1>21, OneMore, FirstPart
<1> HIDE DEF l2
<1>23. Line(l3) /\ Adds(l3, l2, g3, "-o") /\ Joined(NoArgs, g3) = g3
    BY <1>3, <1>22, OneMore, FirstPart
<1> HIDE DEF l3
<1>24. Line(l4) /\ Adds(l4, l3, g4, "-v") /\ Joined(NoArgs, g4) = g4
    BY <1>4, <1>23, OneMore, FirstPart
<1> HIDE DEF l4
<1>25. Line(l5) /\ Adds(l5, l4, g5, "-b") /\ Joined(NoArgs, g5) = g5
    BY <1>5, <1>24, OneMore, FirstPart
<1> HIDE DEF l5
<1>41. /\ Occurrences(l5, "-i") = g1
       /\ Occurrences(l5, "-s") = g2
       /\ Occurrences(l5, "-o") = g3
       /\ Occurrences(l5, "-v") = g4
       /\ Occurrences(l5, "-b") = g5
    BY <1>21, <1>22, <1>23, <1>24, <1>25 DEF Adds
<1>42. ASSUME NEW o, o \notin {"-i", "-s", "-o", "-v", "-b"} PROVE Occurrences(l5, o) = NoArgs
    BY <1>42, <1>21, <1>22, <1>23, <1>24, <1>25 DEF Adds
<1>43. /\ Line(line)
       /\ Says(Occurrences(line, "-i"), ControlBus, e.in)
       /\ Len(Occurrences(line, "-s")) = BindCount(e)
       /\ Addressed(Occurrences(line, "-o"), e.outs)
       /\ Len(Occurrences(line, "-v")) = c.verbosity
       /\ Says(Occurrences(line, "-b"), BufferSize, c.max_buffer_size)
       /\ \A o : o \notin {"-i", "-s", "-o", "-v", "-b"} => Occurrences(line, o) = NoArgs
    BY <1>0, <1>1, <1>2, <1>3, <1>4, <1>5, <1>25, <1>41, <1>42
<1> QED BY <1>43 DEF line

-----------------------------------------------------------------------------
(* What a program makes of a command line, option by option.                 *)

\* A field of Config finds nothing wrong with the line.
Right(line, f) ==
    /\ Len(Occurrences(line, f.opt)) \in f.min..f.max
    /\ f.holds = "path" => Given(line, f) \in DOMAIN realpath
    /\ f.holds = "account" => Given(line, f) \in DOMAIN accounts

\* Every argument belongs to some field.
Known(F, line) == \A i \in 1..Len(line) : \E f \in DOMAIN F : F[f].opt = line[i].opt

\* parseCmd() accepts a line if it knows all options and every field finds it right.
LEMMA AcceptsFields ==
    ASSUME NEW F, NEW line
    PROVE  Accepts(F, line) <=> Known(F, line) /\ \A f \in DOMAIN F : Right(line, F[f])
BY DEF Accepts, Known, Right

\* It knows all options of a line made of options that it has.
LEMMA KnownOptions ==
    ASSUME NEW F, NEW line, Line(line), NEW O,
           \A o : o \notin O => Occurrences(line, o) = NoArgs,
           \A o \in O : \E f \in DOMAIN F : F[f].opt = o
    PROVE  Known(F, line)
BY OthersAbsent DEF Known

\* The field that One makes, for a single value.
LEMMA OneField == ASSUME NEW o, NEW d
    PROVE  /\ One(o, d).opt = o /\ One(o, d).holds = "value" /\ One(o, d).min = 0 /\ One(o, d).max = 1
           /\ One(o, d).def = d
BY DEF One

\* The field that Path makes, for a path.
LEMMA PathField == ASSUME NEW o, NEW d
    PROVE  /\ Path(o, d).opt = o /\ Path(o, d).holds = "path" /\ Path(o, d).min = 0 /\ Path(o,
                 d).max = 1
           /\ Path(o, d).def = d
BY DEF One, Path

\* The field that Text makes, for a file mode.
LEMMA TextField == ASSUME NEW o, NEW d
    PROVE  /\ Text(o, d).opt = o /\ Text(o, d).holds = "mode" /\ Text(o, d).min = 0 /\ Text(o,
                 d).max = 1
           /\ Text(o, d).def = d
BY DEF One, Text

\* The field that Account makes, for a service account file.
LEMMA AccountField == ASSUME NEW o, NEW d
    PROVE  /\ Account(o, d).opt = o /\ Account(o, d).holds = "account" /\ Account(o, d).min = 0
           /\ Account(o, d).max = 1 /\ Account(o, d).def = d
BY DEF One, Account

\* The field that Required makes, for a required value.
LEMMA RequiredField == ASSUME NEW o
    PROVE  /\ Required(o).opt = o /\ Required(o).holds = "value" /\ Required(o).min
                 = 1 /\ Required(o).max = 1
           /\ Required(o).def = ""
BY DEF One, Required

\* The field that Email makes, for a required e-mail address.
LEMMA EmailField == ASSUME NEW o
    PROVE  /\ Email(o).opt = o /\ Email(o).holds = "email" /\ Email(o).min = 1 /\ Email(o).max = 1
           /\ Email(o).def = ""
BY DEF One, Required, Email

\* The field that Many makes, for a list.
LEMMA ManyField == ASSUME NEW o, NEW n, NEW d
    PROVE  /\ Many(o, n, d).opt = o /\ Many(o, n, d).holds = "list" /\ Many(o, n, d).min = 0
           /\ Many(o, n, d).max = n /\ Many(o, n, d).def = d
BY DEF Many

\* The field that Count makes, for a count of occurrences.
LEMMA CountField == ASSUME NEW o, NEW n
    PROVE  /\ Count(o, n).opt = o /\ Count(o, n).holds = "count" /\ Count(o, n).min = 0
           /\ Count(o, n).max = n /\ Count(o, n).def = 0
BY DEF Count

\* The value of a field is that of the first argument, or the default.
LEMMA GivenOf ==
    ASSUME NEW line, NEW f, NEW g, Occurrences(line, f.opt) = g
    PROVE  Given(line, f) = IF g = NoArgs THEN f.def ELSE g[1].val
BY DEF Given, NoArgs

\* With a permitted number of arguments only a missing path or account file is wrong.
LEMMA RightOf ==
    ASSUME NEW line, NEW f, NEW o, f.opt = o, Len(Occurrences(line, o)) \in f.min..f.max
    PROVE  /\ f.holds \notin {"path", "account"} => Right(line, f)
           /\ f.holds = "path" => (Right(line, f) <=> Given(line, f) \in DOMAIN realpath)
           /\ f.holds = "account" => (Right(line, f) <=> Given(line, f) \in DOMAIN accounts)
BY DEF Right

\* Fields whose option the line has once at most, with value v if it has.
LEMMA SaidField ==
    ASSUME NEW line, NEW o, NEW d, NEW v, Says(Occurrences(line, o), d, v)
    PROVE  /\ Right(line, One(o, d)) /\ Given(line, One(o, d)) = v
           /\ Right(line, Path(o, d)) <=> v \in DOMAIN realpath
           /\ Given(line, Path(o, d)) = v
<1> DEFINE g == Occurrences(line, o)
<1>1. (IF g = NoArgs THEN d ELSE g[1].val) = v
    BY DEF Says
<1>6. Len(g) \in 0..1
    BY DEF Says
<1> HIDE DEF g
<1>2. Given(line, One(o, d)) = v
    BY <1>1, OneField, GivenOf DEF g
<1>3. Given(line, Path(o, d)) = v
    BY <1>1, PathField, GivenOf DEF g
<1>4. Right(line, One(o, d))
    <2>0. One(o, d).min = 0 /\ One(o, d).max = 1
        BY OneField
    <2>1. Len(g) \in One(o, d).min..One(o, d).max
        BY <1>6, <2>0
    <2> QED BY <2>1, OneField, RightOf DEF g
<1>5. Right(line, Path(o, d)) <=> v \in DOMAIN realpath
    <2>0. Path(o, d).min = 0 /\ Path(o, d).max = 1
        BY PathField
    <2>1. Len(g) \in Path(o, d).min..Path(o, d).max
        BY <1>6, <2>0
    <2> QED BY <2>1, <1>3, PathField, RightOf DEF g
<1> QED BY <1>2, <1>3, <1>4, <1>5

\* Fields whose option the line has once.
LEMMA NamedField ==
    ASSUME NEW line, NEW o, NEW v, Names(Occurrences(line, o), v)
    PROVE  /\ \A d : /\ Right(line, One(o, d)) /\ Given(line, One(o, d)) = v
                     /\ Right(line, Text(o, d)) /\ Given(line, Text(o, d)) = v
                     /\ (Right(line, Path(o, d)) <=> v \in DOMAIN realpath) /\ Given(line, Path(o,
                           d)) = v
                     /\ (Right(line, Account(o, d)) <=> v \in DOMAIN accounts) /\ Given(line,
                           Account(o, d)) = v
                     /\ \A n \in Nat : n # 0 => Right(line, Many(o, n, d))
           /\ Right(line, Required(o)) /\ Given(line, Required(o)) = v
           /\ Right(line, Email(o)) /\ Given(line, Email(o)) = v
<1> DEFINE g == Occurrences(line, o)
<1>1. Len(g) = 1 /\ g # NoArgs /\ g[1].val = v
    BY DEF Names
<1> HIDE DEF g
<1>2. ASSUME NEW d
      PROVE  /\ Right(line, One(o, d)) /\ Given(line, One(o, d)) = v
             /\ Right(line, Text(o, d)) /\ Given(line, Text(o, d)) = v
             /\ (Right(line, Path(o, d)) <=> v \in DOMAIN realpath) /\ Given(line, Path(o, d)) = v
             /\ (Right(line, Account(o, d)) <=> v \in DOMAIN accounts) /\ Given(line, Account(o, d)) = v
             /\ \A n \in Nat : n # 0 => Right(line, Many(o, n, d))
    <2>1. Given(line, One(o, d)) = v
        BY <1>1, OneField, GivenOf DEF g
    <2>2. Given(line, Text(o, d)) = v
        BY <1>1, TextField, GivenOf DEF g
    <2>3. Given(line, Path(o, d)) = v
        BY <1>1, PathField, GivenOf DEF g
    <2>4. Given(line, Account(o, d)) = v
        BY <1>1, AccountField, GivenOf DEF g
    <2>5. Right(line, One(o, d))
        <3>1. Len(g) \in One(o, d).min..One(o, d).max
            BY <1>1, OneField
        <3> QED BY <3>1, OneField, RightOf DEF g
    <2>6. Right(line, Text(o, d))
        <3>1. Len(g) \in Text(o, d).min..Text(o, d).max
            BY <1>1, TextField
        <3> QED BY <3>1, TextField, RightOf DEF g
    <2>7. Right(line, Path(o, d)) <=> v \in DOMAIN realpath
        <3>1. Len(g) \in Path(o, d).min..Path(o, d).max
            BY <1>1, PathField
        <3> QED BY <3>1, <2>3, PathField, RightOf DEF g
    <2>8. Right(line, Account(o, d)) <=> v \in DOMAIN accounts
        <3>1. Len(g) \in Account(o, d).min..Account(o, d).max
            BY <1>1, AccountField
        <3> QED BY <3>1, <2>4, AccountField, RightOf DEF g
    <2>9. ASSUME NEW n \in Nat, n # 0 PROVE Right(line, Many(o, n, d))
        BY <1>1, <2>9, ManyField DEF Right, g
    <2> QED BY <2>1, <2>2, <2>3, <2>4, <2>5, <2>6, <2>7, <2>8, <2>9
<1>3. Right(line, Required(o)) /\ Given(line, Required(o)) = v
    <2>0. PICK f : f = Required(o)
        OBVIOUS
    <2>f. f.opt = o /\ f.holds \notin {"path", "account"} /\ f.min = 1 /\ f.max = 1
        BY <2>0, RequiredField
    <2>1. Given(line, f) = v
        BY <1>1, <2>f, GivenOf DEF g
    <2>2. Len(g) \in f.min..f.max
        BY <1>1, <2>f
    <2>3. Right(line, f)
        BY <2>2, <2>f, RightOf DEF g
    <2> QED BY <2>0, <2>1, <2>3
<1>4. Right(line, Email(o)) /\ Given(line, Email(o)) = v
    <2>0. PICK f : f = Email(o)
        OBVIOUS
    <2>f. f.opt = o /\ f.holds \notin {"path", "account"} /\ f.min = 1 /\ f.max = 1
        BY <2>0, EmailField
    <2>1. Given(line, f) = v
        BY <1>1, <2>f, GivenOf DEF g
    <2>2. Len(g) \in f.min..f.max
        BY <1>1, <2>f
    <2>3. Right(line, f)
        BY <2>2, <2>f, RightOf DEF g
    <2> QED BY <2>0, <2>1, <2>3
<1> QED BY <1>2, <1>3, <1>4

\* Fields whose option the line does not have.
LEMMA AbsentField ==
    ASSUME NEW line, NEW o, Occurrences(line, o) = NoArgs
    PROVE  \A d : /\ Right(line, One(o, d)) /\ Given(line, One(o, d)) = d
                  /\ Given(line, Path(o, d)) = d
                  /\ (Right(line, Path(o, d)) <=> d \in DOMAIN realpath)
                  /\ \A n \in Nat : Right(line, Many(o, n, d)) /\ Right(line, Count(o, n))
<1> SUFFICES ASSUME NEW d
             PROVE  /\ Right(line, One(o, d)) /\ Given(line, One(o, d)) = d
                    /\ Given(line, Path(o, d)) = d
                    /\ (Right(line, Path(o, d)) <=> d \in DOMAIN realpath)
                    /\ \A n \in Nat : Right(line, Many(o, n, d)) /\ Right(line, Count(o, n))
    OBVIOUS
<1>0. Len(NoArgs) = 0
    BY DEF NoArgs
<1>1. Right(line, One(o, d)) /\ Given(line, One(o, d)) = d
    BY <1>0, OneField, GivenOf DEF Right
<1>2. Given(line, Path(o, d)) = d
    BY PathField, GivenOf
<1>3. Right(line, Path(o, d)) <=> d \in DOMAIN realpath
    BY <1>0, <1>2, PathField DEF Right
<1>4. ASSUME NEW n \in Nat PROVE Right(line, Many(o, n, d)) /\ Right(line, Count(o, n))
    BY <1>0, ManyField, CountField DEF Right
<1> QED BY <1>1, <1>2, <1>3, <1>4

\* Fields whose option the line has as often as there are elements, and those that count.
LEMMA ManyTimes ==
    ASSUME NEW line, NEW o, NEW m \in Nat, Len(Occurrences(line, o)) = m, NEW n \in Nat
    PROVE  /\ \A d : Right(line, Many(o, n, d)) <=> m <= n
           /\ Right(line, Count(o, n)) <=> m <= n
<1>0. m \in 0..n <=> m <= n
    OBVIOUS
<1>1. ASSUME NEW d PROVE Right(line, Many(o, n, d)) <=> m <= n
    BY <1>0, ManyField DEF Right
<1>2. Right(line, Count(o, n)) <=> m <= n
    BY <1>0, CountField DEF Right
<1> QED BY <1>1, <1>2

\* The field f of the Config of a program with the fields F.
Field(F, f, r) == f \in DOMAIN F /\ F[f] = r
Fine(line, F, f) == Right(line, F[f])
Holds(line, F, f, v) == Config(F, line)[f] = v

\* A plain field of Config holds the value given.
LEMMA ConfigValue ==
    ASSUME NEW F, NEW line, NEW f, NEW r, Field(F, f, r), r.holds = "value"
    PROVE  Config(F, line)[f] = Given(line, r)
<1>1. r = F[f] /\ f \in DOMAIN F
    BY DEF Field
<1> QED BY <1>1 DEF Config

\* So does a field for a service account file,
LEMMA ConfigAccount ==
    ASSUME NEW F, NEW line, NEW f, NEW r, Field(F, f, r), r.holds = "account"
    PROVE  Config(F, line)[f] = Given(line, r)
<1>1. r = F[f] /\ f \in DOMAIN F
    BY DEF Field
<1> QED BY <1>1 DEF Config

\* and one for an e-mail address that is not empty.
LEMMA ConfigEmail ==
    ASSUME NEW F, NEW line, NEW f, NEW r, Field(F, f, r), r.holds = "email", Given(line, r) # ""
    PROVE  Config(F, line)[f] = Given(line, r)
<1>1. r = F[f] /\ f \in DOMAIN F
    BY DEF Field
<1> QED BY <1>1 DEF Config

\* A path is held as realpath() returns it,
LEMMA ConfigPath ==
    ASSUME NEW F, NEW line, NEW f, NEW r, Field(F, f, r), r.holds = "path"
    PROVE  Config(F, line)[f] = realpath[Given(line, r)]
<1>1. r = F[f] /\ f \in DOMAIN F
    BY DEF Field
<1> QED BY <1>1 DEF Config

\* a file mode as the number it stands for,
LEMMA ConfigMode ==
    ASSUME NEW F, NEW line, NEW f, NEW r, Field(F, f, r), r.holds = "mode"
    PROVE  Config(F, line)[f] = FileMode(Given(line, r))
<1>1. r = F[f] /\ f \in DOMAIN F
    BY DEF Field
<1> QED BY <1>1 DEF Config

\* and a list as the values of all arguments, or as the default if there are none.
LEMMA ConfigList ==
    ASSUME NEW F, NEW line, NEW f, NEW r, Field(F, f, r), r.holds = "list"
    PROVE  Config(F, line)[f] = IF Occurrences(line, r.opt) = NoArgs THEN r.def
            ELSE ValuesOf(Occurrences(line, r.opt))
<1>1. r = F[f] /\ f \in DOMAIN F
    BY DEF Field
<1> QED BY <1>1 DEF Config, NoArgs, ValuesOf

\* An option that occurs once makes a list of one.
LEMMA NamedValues ==
    ASSUME NEW g, NEW v, Names(g, v)
    PROVE  g # NoArgs /\ ValuesOf(g) = <<v>>
<1>1. Len(g) = 1 /\ g # NoArgs /\ g[1].val = v
    BY DEF Names
<1>2. [i \in 1..Len(g) |-> g[i].val] = <<v>>
    <2>1. [i \in 1..1 |-> g[i].val] = [i \in 1..1 |-> v]
        BY <1>1
    <2>2. <<v>> = [i \in 1..1 |-> v]
        OBVIOUS
    <2> QED BY <1>1, <2>1, <2>2
<1> QED BY <1>1, <1>2 DEF ValuesOf

\* A field for a list of settings.
LEMMA Listed ==
    ASSUME NEW line, NEW o, NEW v, IsList(v), Enumerates(Occurrences(line, o), v)
    PROVE  /\ \A n \in Nat : \A d : Right(line, Many(o, n, d)) <=> Len(v) <= n
           /\ (IF Occurrences(line, o) = NoArgs THEN <<>> ELSE ValuesOf(Occurrences(line, o))) = v
<1>1. PICK m \in Nat : m = Len(v)
    BY DEF IsList
<1>2. Len(Occurrences(line, o)) = m
    BY <1>1 DEF Enumerates
<1>3. ASSUME NEW n \in Nat, NEW d PROVE Right(line, Many(o, n, d)) <=> Len(v) <= n
    BY <1>1, <1>2, ManyTimes
<1>4. (IF Occurrences(line, o) = NoArgs THEN NoArgs ELSE ValuesOf(Occurrences(line, o))) = v
    BY DEF Enumerates
<1> QED BY <1>3, <1>4 DEF NoArgs

\* -s occurs once at most.
LEMMA BindCountType == ASSUME NEW e, e.bind \in BOOLEAN PROVE BindCount(e) \in Nat /\ BindCount(e) <= 1
BY DEF BindCount

\* The field for the addresses of a repeater: 100 of them at most.
LEMMA AddressedField ==
    ASSUME NEW line, NEW o, NEW v, Addressed(Occurrences(line, o), v)
    PROVE  /\ \A d : Right(line, Many(o, 100, d)) <=> Len(v) <= 100
           /\ v # NoArgs => (IF Occurrences(line, o) = NoArgs THEN DefaultOuts
                 ELSE ValuesOf(Occurrences(line, o))) = v
<1>1. Len(Occurrences(line, o)) \in 0..100 <=> Len(v) <= 100
    BY DEF Addressed
<1>2. ASSUME NEW d PROVE Right(line, Many(o, 100, d)) <=> Len(v) <= 100
    <2>1. PICK f : f = Many(o, 100, d)
        OBVIOUS
    <2>2. f.opt = o /\ f.holds = "list" /\ f.min = 0 /\ f.max = 100
        BY <2>1, ManyField
    <2>3. Right(line, f) <=> Len(Occurrences(line, o)) \in 0..100
        BY <2>2 DEF Right
    <2> QED BY <1>1, <2>1, <2>3
<1> QED BY <1>2 DEF Addressed

-----------------------------------------------------------------------------
(* The same for the field f of the Config of a program with the fields F.     *)

\* A field for a single value whose option is left out where its default is meant.
LEMMA OneSaid ==
    ASSUME NEW F, NEW f, NEW line, NEW o, NEW d, NEW v, Field(F, f, One(o, d)), Says(Occurrences(line,
            o), d, v)
    PROVE  Fine(line, F, f) /\ Holds(line, F, f, v)
<1>1. Right(line, One(o, d)) /\ Given(line, One(o, d)) = v
    BY SaidField
<1>2. Config(F, line)[f] = Given(line, One(o, d))
    <2>1. PICK r : r = One(o, d)
        OBVIOUS
    <2>2. Field(F, f, r) /\ r.holds = "value"
        BY <2>1, OneField
    <2> QED BY <2>1, <2>2, ConfigValue
<1> QED BY <1>1, <1>2 DEF Field, Fine, Holds

\* A field for a path whose option is left out where its default is meant.
LEMMA PathSaid ==
    ASSUME NEW F, NEW f, NEW line, NEW o, NEW d, NEW v, Field(F, f, Path(o, d)), Says(Occurrences(line,
            o), d, v)
    PROVE  (Fine(line, F, f) <=> v \in DOMAIN realpath) /\ Holds(line, F, f, realpath[v])
<1>1. (Right(line, Path(o, d)) <=> v \in DOMAIN realpath) /\ Given(line, Path(o, d)) = v
    BY SaidField
<1>2. Config(F, line)[f] = realpath[Given(line, Path(o, d))]
    <2>1. PICK r : r = Path(o, d)
        OBVIOUS
    <2>2. Field(F, f, r) /\ r.holds = "path"
        BY <2>1, PathField
    <2> QED BY <2>1, <2>2, ConfigPath
<1> QED BY <1>1, <1>2 DEF Field, Fine, Holds

\* A field for a single value whose option occurs once.
LEMMA OneNamed ==
    ASSUME NEW F, NEW f, NEW line, NEW o, NEW d, NEW v, Field(F, f, One(o, d)), Names(Occurrences(line,
            o), v)
    PROVE  Fine(line, F, f) /\ Holds(line, F, f, v)
<1>1. Right(line, One(o, d)) /\ Given(line, One(o, d)) = v
    BY NamedField
<1>2. Config(F, line)[f] = Given(line, One(o, d))
    <2>1. PICK r : r = One(o, d)
        OBVIOUS
    <2>2. Field(F, f, r) /\ r.holds = "value"
        BY <2>1, OneField
    <2> QED BY <2>1, <2>2, ConfigValue
<1> QED BY <1>1, <1>2 DEF Field, Fine, Holds

\* A field for a required value whose option occurs once.
LEMMA RequiredNamed ==
    ASSUME NEW F, NEW f, NEW line, NEW o, NEW v, Field(F, f, Required(o)), Names(Occurrences(line, o),
            v)
    PROVE  Fine(line, F, f) /\ Holds(line, F, f, v)
<1>1. Right(line, Required(o)) /\ Given(line, Required(o)) = v
    BY NamedField
<1>2. Config(F, line)[f] = Given(line, Required(o))
    <2>1. PICK r : r = Required(o)
        OBVIOUS
    <2>2. Field(F, f, r) /\ r.holds = "value"
        BY <2>1, RequiredField
    <2> QED BY <2>1, <2>2, ConfigValue
<1> QED BY <1>1, <1>2 DEF Field, Fine, Holds

\* A field for a required e-mail address whose option occurs once.
LEMMA EmailNamed ==
    ASSUME NEW F, NEW f, NEW line, NEW o, NEW v, Field(F, f, Email(o)), Names(Occurrences(line, o), v)
    PROVE  Fine(line, F, f) /\ (v # "" => Holds(line, F, f, v))
<1>1. Right(line, Email(o)) /\ Given(line, Email(o)) = v
    BY NamedField
<1>2. v # "" => Config(F, line)[f] = Given(line, Email(o))
    <2>1. PICK r : r = Email(o)
        OBVIOUS
    <2>2. Field(F, f, r) /\ r.holds = "email"
        BY <2>1, EmailField
    <2> QED BY <1>1, <2>1, <2>2, ConfigEmail
<1> QED BY <1>1, <1>2 DEF Field, Fine, Holds

\* A field for a file mode whose option occurs once.
LEMMA TextNamed ==
    ASSUME NEW F, NEW f, NEW line, NEW o, NEW d, NEW v, Field(F, f, Text(o, d)),
            Names(Occurrences(line, o), v)
    PROVE  Fine(line, F, f) /\ Holds(line, F, f, FileMode(v))
<1>1. Right(line, Text(o, d)) /\ Given(line, Text(o, d)) = v
    BY NamedField
<1>2. Config(F, line)[f] = FileMode(Given(line, Text(o, d)))
    <2>1. PICK r : r = Text(o, d)
        OBVIOUS
    <2>2. Field(F, f, r) /\ r.holds = "mode"
        BY <2>1, TextField
    <2> QED BY <2>1, <2>2, ConfigMode
<1> QED BY <1>1, <1>2 DEF Field, Fine, Holds

\* A field for a path whose option occurs once.
LEMMA PathNamed ==
    ASSUME NEW F, NEW f, NEW line, NEW o, NEW d, NEW v, Field(F, f, Path(o, d)),
            Names(Occurrences(line, o), v)
    PROVE  (Fine(line, F, f) <=> v \in DOMAIN realpath) /\ Holds(line, F, f, realpath[v])
<1>1. (Right(line, Path(o, d)) <=> v \in DOMAIN realpath) /\ Given(line, Path(o, d)) = v
    BY NamedField
<1>2. Config(F, line)[f] = realpath[Given(line, Path(o, d))]
    <2>1. PICK r : r = Path(o, d)
        OBVIOUS
    <2>2. Field(F, f, r) /\ r.holds = "path"
        BY <2>1, PathField
    <2> QED BY <2>1, <2>2, ConfigPath
<1> QED BY <1>1, <1>2 DEF Field, Fine, Holds

\* A field for a service account file whose option occurs once.
LEMMA AccountNamed ==
    ASSUME NEW F, NEW f, NEW line, NEW o, NEW d, NEW v, Field(F, f, Account(o, d)),
            Names(Occurrences(line, o), v)
    PROVE  (Fine(line, F, f) <=> v \in DOMAIN accounts) /\ Holds(line, F, f, v)
<1>1. (Right(line, Account(o, d)) <=> v \in DOMAIN accounts) /\ Given(line, Account(o, d)) = v
    BY NamedField
<1>2. Config(F, line)[f] = Given(line, Account(o, d))
    <2>1. PICK r : r = Account(o, d)
        OBVIOUS
    <2>2. Field(F, f, r) /\ r.holds = "account"
        BY <2>1, AccountField
    <2> QED BY <2>1, <2>2, ConfigAccount
<1> QED BY <1>1, <1>2 DEF Field, Fine, Holds

\* A field for a list whose option occurs once.
LEMMA ManyNamed ==
    ASSUME NEW F, NEW f, NEW line, NEW o, NEW n \in Nat, n # 0, NEW d, NEW v, Field(F, f, Many(o, n,
            d)),
           Names(Occurrences(line, o), v)
    PROVE  Fine(line, F, f) /\ Holds(line, F, f, <<v>>)
<1>1. Right(line, Many(o, n, d))
    BY NamedField
<1>2. Config(F, line)[f] = IF Occurrences(line, o) = NoArgs THEN d ELSE ValuesOf(Occurrences(line, o))
    <2>1. PICK r : r = Many(o, n, d)
        OBVIOUS
    <2>2. Field(F, f, r) /\ r.holds = "list" /\ r.opt = o /\ r.def = d
        BY <2>1, ManyField
    <2> QED BY <2>1, <2>2, ConfigList
<1>3. Occurrences(line, o) # NoArgs /\ ValuesOf(Occurrences(line, o)) = <<v>>
    BY NamedValues
<1>4. PICK w : w = <<v>>
    OBVIOUS
<1>5. Config(F, line)[f] = w
    BY <1>2, <1>3, <1>4
<1> QED BY <1>1, <1>4, <1>5 DEF Field, Fine, Holds

\* A field for a single value whose option does not occur.
LEMMA OneAbsent ==
    ASSUME NEW F, NEW f, NEW line, NEW o, NEW d, Field(F, f, One(o, d)), Occurrences(line, o) = NoArgs
    PROVE  Fine(line, F, f) /\ Holds(line, F, f, d)
<1>1. Right(line, One(o, d)) /\ Given(line, One(o, d)) = d
    BY AbsentField
<1>2. Config(F, line)[f] = Given(line, One(o, d))
    <2>1. PICK r : r = One(o, d)
        OBVIOUS
    <2>2. Field(F, f, r) /\ r.holds = "value"
        BY <2>1, OneField
    <2> QED BY <2>1, <2>2, ConfigValue
<1> QED BY <1>1, <1>2 DEF Field, Fine, Holds

\* A field for a path whose option does not occur.
LEMMA PathAbsent ==
    ASSUME NEW F, NEW f, NEW line, NEW o, NEW d, Field(F, f, Path(o, d)), Occurrences(line, o) = NoArgs
    PROVE  (Fine(line, F, f) <=> d \in DOMAIN realpath) /\ Holds(line, F, f, realpath[d])
<1>1. (Right(line, Path(o, d)) <=> d \in DOMAIN realpath) /\ Given(line, Path(o, d)) = d
    BY AbsentField
<1>2. Config(F, line)[f] = realpath[Given(line, Path(o, d))]
    <2>1. PICK r : r = Path(o, d)
        OBVIOUS
    <2>2. Field(F, f, r) /\ r.holds = "path"
        BY <2>1, PathField
    <2> QED BY <2>1, <2>2, ConfigPath
<1> QED BY <1>1, <1>2 DEF Field, Fine, Holds

\* A field for a list whose option does not occur.
LEMMA ManyAbsent ==
    ASSUME NEW F, NEW f, NEW line, NEW o, NEW n \in Nat, NEW d, Field(F, f, Many(o, n, d)),
           Occurrences(line, o) = NoArgs
    PROVE  Fine(line, F, f)
<1>1. Right(line, Many(o, n, d))
    BY AbsentField
<1> QED BY <1>1 DEF Field, Fine

\* A field for a count of occurrences whose option does not occur.
LEMMA CountAbsent ==
    ASSUME NEW F, NEW f, NEW line, NEW o, NEW n \in Nat, Field(F, f, Count(o, n)), Occurrences(line,
            o) = NoArgs
    PROVE  Fine(line, F, f)
BY AbsentField DEF Field, Fine

\* A field for a list whose option occurs once for each member.
LEMMA ManyListed ==
    ASSUME NEW F, NEW f, NEW line, NEW o, NEW n \in Nat, Field(F, f, Many(o, n, NoArgs)),
           NEW v, IsList(v), Enumerates(Occurrences(line, o), v)
    PROVE  (Fine(line, F, f) <=> Len(v) <= n) /\ Holds(line, F, f, v)
<1>1. Right(line, Many(o, n, NoArgs)) <=> Len(v) <= n
    BY Listed
<1>2. (IF Occurrences(line, o) = NoArgs THEN NoArgs ELSE ValuesOf(Occurrences(line, o))) = v
    BY DEF Enumerates
<1>3. Config(F, line)[f] = IF Occurrences(line, o) = NoArgs THEN NoArgs ELSE ValuesOf(Occurrences(line,
        o))
    <2>1. PICK r : r = Many(o, n, NoArgs)
        OBVIOUS
    <2>2. Field(F, f, r) /\ r.holds = "list" /\ r.opt = o /\ r.def = NoArgs
        BY <2>1, ManyField
    <2> QED BY <2>1, <2>2, ConfigList
<1> QED BY <1>1, <1>2, <1>3 DEF Field, Fine, Holds

\* A field that counts: it is right up to the number argtable permits, and holds it.
LEMMA Counted ==
    ASSUME NEW F, NEW f, NEW line, NEW o, NEW n \in Nat, Field(F, f, Count(o, n)),
           NEW m \in Nat, Len(Occurrences(line, o)) = m
    PROVE  (Fine(line, F, f) <=> m <= n) /\ Holds(line, F, f, m)
<1>1. Right(line, Count(o, n)) <=> m <= n
    BY ManyTimes
<1>2. f \in DOMAIN F /\ F[f] = Count(o, n)
    BY DEF Field
<1>3. F[f].holds = "count" /\ F[f].opt = o
    BY <1>2, CountField
<1>4. Config(F, line)[f] = Len(Occurrences(line, F[f].opt))
    BY <1>2, <1>3 DEF Config
<1>5. Config(F, line)[f] = m
    BY <1>3, <1>4
<1> QED BY <1>1, <1>2, <1>5 DEF Fine, Holds

\* The addresses of a repeater, in Config.
LEMMA ManyAddressed ==
    ASSUME NEW F, NEW f, NEW line, NEW o, Field(F, f, Many(o, 100, DefaultOuts)),
           NEW v, Addressed(Occurrences(line, o), v)
    PROVE  (Fine(line, F, f) <=> Len(v) <= 100) /\ (v # NoArgs => Holds(line, F, f, v))
<1>1. Right(line, Many(o, 100, DefaultOuts)) <=> Len(v) <= 100
    BY AddressedField
<1>2. v # NoArgs => (IF Occurrences(line, o) = NoArgs THEN DefaultOuts ELSE ValuesOf(Occurrences(line,
        o))) = v
    BY DEF Addressed
<1>3. Config(F, line)[f] = IF Occurrences(line, o) = NoArgs THEN DefaultOuts
        ELSE ValuesOf(Occurrences(line, o))
    <2>1. PICK r : r = Many(o, 100, DefaultOuts)
        OBVIOUS
    <2>2. Field(F, f, r) /\ r.holds = "list" /\ r.opt = o /\ r.def = DefaultOuts
        BY <2>1, ManyField
    <2> QED BY <2>1, <2>2, ConfigList
<1> QED BY <1>1, <1>2, <1>3 DEF Field, Fine, Holds

\* A program accepts a line if it knows the options O, of which the line is made, and
\* all its fields find the line right.
LEMMA AcceptsLine ==
    ASSUME NEW F, NEW line, Line(line), NEW O,
           \A o : o \notin O => Occurrences(line, o) = NoArgs,
           \A o \in O : \E f \in DOMAIN F : F[f].opt = o
    PROVE  Accepts(F, line) <=> \A f \in DOMAIN F : Fine(line, F, f)
<1>1. Known(F, line)
    BY KnownOptions
<1> QED BY <1>1, AcceptsFields DEF Fine

\* The option of a field.
HasOption(F, f, o) == f \in DOMAIN F /\ F[f].opt = o

\* The option of a field for a single value.
LEMMA OneOption ==
    ASSUME NEW F, NEW f, NEW o, NEW d, Field(F, f, One(o, d)) PROVE HasOption(F, f, o)
BY OneField DEF Field, HasOption

\* The option of a field for a path.
LEMMA PathOption ==
    ASSUME NEW F, NEW f, NEW o, NEW d, Field(F, f, Path(o, d)) PROVE HasOption(F, f, o)
BY PathField DEF Field, HasOption

\* The option of a field for a file mode.
LEMMA TextOption ==
    ASSUME NEW F, NEW f, NEW o, NEW d, Field(F, f, Text(o, d)) PROVE HasOption(F, f, o)
BY TextField DEF Field, HasOption

\* The option of a field for a service account file.
LEMMA AccountOption ==
    ASSUME NEW F, NEW f, NEW o, NEW d, Field(F, f, Account(o, d)) PROVE HasOption(F, f, o)
BY AccountField DEF Field, HasOption

\* The option of a field for a required value.
LEMMA RequiredOption ==
    ASSUME NEW F, NEW f, NEW o, Field(F, f, Required(o)) PROVE HasOption(F, f, o)
BY RequiredField DEF Field, HasOption

\* The option of a field for a required e-mail address.
LEMMA EmailOption ==
    ASSUME NEW F, NEW f, NEW o, Field(F, f, Email(o)) PROVE HasOption(F, f, o)
BY EmailField DEF Field, HasOption

\* The option of a field for a count of occurrences.
LEMMA CountOption ==
    ASSUME NEW F, NEW f, NEW o, NEW n, Field(F, f, Count(o, n)) PROVE HasOption(F, f, o)
BY CountField DEF Field, HasOption

\* The option of a field for a list.
LEMMA ManyOption ==
    ASSUME NEW F, NEW f, NEW o, NEW n, NEW d, Field(F, f, Many(o, n, d)) PROVE HasOption(F, f, o)
BY ManyField DEF Field, HasOption

-----------------------------------------------------------------------------
(* The settings a program has to heed.                                       *)

\* A program with the command line holds v for the setting s.
Heeds(line, k, s, v) == ~Lost(k, s, v) => Config(Options[k], line)[Means[k][s]] = AsHeld(k, s, v)

\* Setting s of programs of kind k is meant for the field f of r.
Meant(k, s, f, F) == Options[k] = F /\ Means[k][s] = f

\* A field that is no path heeds a setting by holding it as it is.
LEMMA HeedsPlain ==
    ASSUME NEW F, NEW f, NEW r, Field(F, f, r), r.holds # "path", NEW k, NEW s, s \notin {"bind",
            "topic"},
           Meant(k, s, f, F), NEW line, NEW v, ~Lost(k, s, v) => Holds(line, F, f, v)
    PROVE  Heeds(line, k, s, v)
<1> SUFFICES ASSUME ~Lost(k, s, v) PROVE Config(F, line)[f] = AsHeld(k, s, v)
    BY DEF Heeds, Meant
<1>1. F[f].holds # "path" /\ Options[k] = F /\ Means[k][s] = f
    BY DEF Field, Meant
<1>2. AsHeld(k, s, v) = v
    BY <1>1 DEF AsHeld
<1> QED BY <1>2 DEF Holds

\* A field for a path heeds a setting by holding what realpath() makes of it.
LEMMA HeedsPath ==
    ASSUME NEW F, NEW f, NEW o, NEW d, Field(F, f, Path(o, d)), NEW k, NEW s, s \notin {"bind",
            "topic"},
           Meant(k, s, f, F), NEW line, NEW v, ~Lost(k, s, v) => Holds(line, F, f, realpath[v])
    PROVE  Heeds(line, k, s, v)
<1> SUFFICES ASSUME ~Lost(k, s, v) PROVE Config(F, line)[f] = AsHeld(k, s, v)
    BY DEF Heeds, Meant
<1>1. F[f].holds = "path" /\ Options[k] = F /\ Means[k][s] = f
    BY PathField DEF Field, Meant
<1>2. AsHeld(k, s, v) = realpath[v]
    <2> DEFINE one == realpath[v]
               two == IF v THEN 1 ELSE 0
               three == <<v>>
    <2>1. AsHeld(k, s, v) = CASE Options[k][Means[k][s]].holds = "path" -> one
                              [] s = "bind" -> two
                              [] s = "topic" -> three
                              [] OTHER -> v
        BY DEF AsHeld
    <2> HIDE DEF one, two, three
    <2>2. AsHeld(k, s, v) = one
        BY <1>1, <2>1
    <2> QED BY <2>2 DEF one
<1> QED BY <1>2 DEF Holds

\* A field for a single value heeds a setting that it holds.
LEMMA HeedsOne ==
    ASSUME NEW F, NEW f, NEW o, NEW d, Field(F, f, One(o, d)), NEW k, NEW s, s \notin {"bind", "topic"},
           Meant(k, s, f, F), NEW line, NEW v, ~Lost(k, s, v) => Holds(line, F, f, v)
    PROVE  Heeds(line, k, s, v)
<1>1. PICK r : r = One(o, d)
    OBVIOUS
<1>2. Field(F, f, r) /\ r.holds # "path"
    BY <1>1, OneField
<1> QED BY <1>2, HeedsPlain

\* A field for a file mode heeds a setting that it holds.
LEMMA HeedsText ==
    ASSUME NEW F, NEW f, NEW o, NEW d, Field(F, f, Text(o, d)), NEW k, NEW s, s \notin {"bind",
            "topic"},
           Meant(k, s, f, F), NEW line, NEW v, ~Lost(k, s, v) => Holds(line, F, f, v)
    PROVE  Heeds(line, k, s, v)
<1>1. PICK r : r = Text(o, d)
    OBVIOUS
<1>2. Field(F, f, r) /\ r.holds # "path"
    BY <1>1, TextField
<1> QED BY <1>2, HeedsPlain

\* A field for a service account file heeds a setting that it holds.
LEMMA HeedsAccount ==
    ASSUME NEW F, NEW f, NEW o, NEW d, Field(F, f, Account(o, d)), NEW k, NEW s, s \notin {"bind",
            "topic"},
           Meant(k, s, f, F), NEW line, NEW v, ~Lost(k, s, v) => Holds(line, F, f, v)
    PROVE  Heeds(line, k, s, v)
<1>1. PICK r : r = Account(o, d)
    OBVIOUS
<1>2. Field(F, f, r) /\ r.holds # "path"
    BY <1>1, AccountField
<1> QED BY <1>2, HeedsPlain

\* A field for a required value heeds a setting that it holds.
LEMMA HeedsRequired ==
    ASSUME NEW F, NEW f, NEW o, Field(F, f, Required(o)), NEW k, NEW s, s \notin {"bind", "topic"},
           Meant(k, s, f, F), NEW line, NEW v, ~Lost(k, s, v) => Holds(line, F, f, v)
    PROVE  Heeds(line, k, s, v)
<1>1. PICK r : r = Required(o)
    OBVIOUS
<1>2. Field(F, f, r) /\ r.holds # "path"
    BY <1>1, RequiredField
<1> QED BY <1>2, HeedsPlain

\* A field for a required e-mail address heeds a setting that it holds.
LEMMA HeedsEmail ==
    ASSUME NEW F, NEW f, NEW o, Field(F, f, Email(o)), NEW k, NEW s, s \notin {"bind", "topic"},
           Meant(k, s, f, F), NEW line, NEW v, ~Lost(k, s, v) => Holds(line, F, f, v)
    PROVE  Heeds(line, k, s, v)
<1>1. PICK r : r = Email(o)
    OBVIOUS
<1>2. Field(F, f, r) /\ r.holds # "path"
    BY <1>1, EmailField
<1> QED BY <1>2, HeedsPlain

\* A field for a count of occurrences heeds a setting that it holds.
LEMMA HeedsCount ==
    ASSUME NEW F, NEW f, NEW o, NEW n, Field(F, f, Count(o, n)), NEW k, NEW s, s \notin {"bind",
            "topic"},
           Meant(k, s, f, F), NEW line, NEW v, ~Lost(k, s, v) => Holds(line, F, f, v)
    PROVE  Heeds(line, k, s, v)
<1>1. PICK r : r = Count(o, n)
    OBVIOUS
<1>2. Field(F, f, r) /\ r.holds # "path"
    BY <1>1, CountField
<1> QED BY <1>2, HeedsPlain

\* A field for a list heeds a setting that it holds.
LEMMA HeedsMany ==
    ASSUME NEW F, NEW f, NEW o, NEW n, NEW d, Field(F, f, Many(o, n, d)), NEW k, NEW s,
            s \notin {"bind", "topic"},
           Meant(k, s, f, F), NEW line, NEW v, ~Lost(k, s, v) => Holds(line, F, f, v)
    PROVE  Heeds(line, k, s, v)
<1>1. PICK r : r = Many(o, n, d)
    OBVIOUS
<1>2. Field(F, f, r) /\ r.holds # "path"
    BY <1>1, ManyField
<1> QED BY <1>2, HeedsPlain

\* The topic of an MQTT client is held as a list of one.
LEMMA HeedsTopic ==
    ASSUME NEW F, NEW f, NEW o, NEW n, NEW d, Field(F, f, Many(o, n, d)), NEW k,
           Meant(k, "topic", f, F), NEW line, NEW v, Holds(line, F, f, <<v>>)
    PROVE  Heeds(line, k, "topic", v)
<1>1. F[f].holds = "list" /\ Options[k] = F /\ Means[k]["topic"] = f
    BY ManyField DEF Field, Meant
<1>2. AsHeld(k, "topic", v) = <<v>>
    BY <1>1 DEF AsHeld
<1>3. PICK w : w = <<v>>
    OBVIOUS
<1>4. Config(F, line)[f] = w
    BY <1>3 DEF Holds
<1> QED BY <1>1, <1>2, <1>3, <1>4 DEF Heeds

\* Whether a repeater binds is held as the number of times that -s occurs.
LEMMA HeedsBind ==
    ASSUME NEW F, NEW f, NEW o, NEW n, Field(F, f, Count(o, n)), NEW k,
           Meant(k, "bind", f, F), NEW line, NEW e, Holds(line, F, f, BindCount(e))
    PROVE  Heeds(line, k, "bind", e.bind)
<1>1. F[f].holds = "count" /\ Options[k] = F /\ Means[k]["bind"] = f
    BY CountField DEF Field, Meant
<1>2. AsHeld(k, "bind", e.bind) = BindCount(e)
    BY <1>1 DEF AsHeld, BindCount
<1> QED BY <1>1, <1>2 DEF Heeds, Holds

\* What tcpreceiver makes of that line: when it accepts it, and the settings that its
\* Config holds.
LEMMA TcpConfig ==
    ASSUME NEW e, NEW c, c.verbosity \in Nat, IsList(e.valid_sizes)
    PROVE  LET line == CfgListenerTcp(e, c)
               F == tcpreceiver
           IN  /\ Accepts(F, line) <=> c.verbosity <= 3 /\ Len(e.valid_sizes) <= 256
               /\ Heeds(line, "tcp_listeners", "ip", e.ip)
               /\ Heeds(line, "tcp_listeners", "port", e.port)
               /\ Heeds(line, "tcp_listeners", "compression_type", e.compression_type)
               /\ Heeds(line, "tcp_listeners", "escape_code", e.escape_code)
               /\ Heeds(line, "tcp_listeners", "compression_offset", e.compression_offset)
               /\ Heeds(line, "tcp_listeners", "frequence_file", e.frequence_file)
               /\ Heeds(line, "tcp_listeners", "codemap_file", e.codemap_file)
               /\ Heeds(line, "tcp_listeners", "valid_sizes", e.valid_sizes)
               /\ Heeds(line, "tcp_listeners", "bus_in", c.bus_in)
               /\ Heeds(line, "tcp_listeners", "max_buffer_size", c.max_buffer_size)
               /\ Heeds(line, "tcp_listeners", "max_file_descriptors", c.max_file_descriptors)
               /\ Heeds(line, "tcp_listeners", "verbosity", c.verbosity)
<1> DEFINE line == CfgListenerTcp(e, c)
           F == tcpreceiver
           O == {"-i", "-l", "-c", "-e", "-s", "-f", "-m", "-p", "-v", "-o", "--maxfd", "-b"}
<1>1. \A o : o \notin O => Occurrences(line, o) = NoArgs
    BY TcpLine
<1>2a. /\ Line(line)
       /\ Says(Occurrences(line, "-i"), "0.0.0.0", e.ip)
       /\ Says(Occurrences(line, "-l"), TcpPort, e.port)
       /\ Says(Occurrences(line, "-c"), 0, e.compression_type)
       /\ Says(Occurrences(line, "-e"), "", "")
    BY TcpLine
<1>2b. /\ Says(Occurrences(line, "-s"), 0, e.compression_offset)
       /\ Says(Occurrences(line, "-f"), "", e.frequence_file)
       /\ Says(Occurrences(line, "-m"), "", e.codemap_file)
       /\ Enumerates(Occurrences(line, "-p"), e.valid_sizes)
       /\ Len(Occurrences(line, "-v")) = c.verbosity
    BY TcpLine
<1>2c. /\ Says(Occurrences(line, "-o"), PacketBus, c.bus_in)
       /\ Says(Occurrences(line, "--maxfd"), 0, c.max_file_descriptors)
       /\ Says(Occurrences(line, "-b"), BufferSize, Either(c.max_buffer_size, 0, BufferSize))
    BY TcpLine
<1>3. DOMAIN F = {"intface", "port", "message_url", "buffer_size", "retries", "retry_delay",
        "compression_type", "escape_code", "eof_code", "compression_offset", "frequence_file",
        "codemap_file", "valid_sizes", "daemonize", "max_fd", "verbosity"}
    BY DEF tcpreceiver
<1>4a. /\ Field(F, "intface", One("-i", "0.0.0.0"))
       /\ Field(F, "port", One("-l", TcpPort))
       /\ Field(F, "message_url", One("-o", PacketBus))
       /\ Field(F, "buffer_size", One("-b", BufferSize))
       /\ Field(F, "retries", One("-r", 0))
    BY DEF tcpreceiver, Field, TcpPort, BufferSize, NoArgs
<1>4b. /\ Field(F, "retry_delay", One("-y", 60))
       /\ Field(F, "compression_type", One("-c", 0))
       /\ Field(F, "escape_code", One("-e", ""))
       /\ Field(F, "eof_code", One("-E", ""))
       /\ Field(F, "compression_offset", One("-s", 0))
    BY DEF tcpreceiver, Field, TcpPort, BufferSize, NoArgs
<1>4c. /\ Field(F, "frequence_file", One("-f", ""))
       /\ Field(F, "codemap_file", One("-m", ""))
       /\ Field(F, "valid_sizes", Many("-p", 256, NoArgs))
       /\ Field(F, "daemonize", Count("-d", 1))
       /\ Field(F, "max_fd", One("--maxfd", 0))
    BY DEF tcpreceiver, Field, TcpPort, BufferSize, NoArgs
<1>4d. /\ Field(F, "verbosity", Count("-v", 3))
    BY DEF tcpreceiver, Field, TcpPort, BufferSize, NoArgs
<1>6a. /\ Meant("tcp_listeners", "ip", "intface", F)
       /\ Meant("tcp_listeners", "port", "port", F)
       /\ Meant("tcp_listeners", "compression_type", "compression_type", F)
       /\ Meant("tcp_listeners", "escape_code", "escape_code", F)
    BY DEF Meant, Options, Means
<1>6b. /\ Meant("tcp_listeners", "compression_offset", "compression_offset", F)
       /\ Meant("tcp_listeners", "frequence_file", "frequence_file", F)
       /\ Meant("tcp_listeners", "codemap_file", "codemap_file", F)
       /\ Meant("tcp_listeners", "valid_sizes", "valid_sizes", F)
    BY DEF Meant, Options, Means
<1>6c. /\ Meant("tcp_listeners", "bus_in", "message_url", F)
       /\ Meant("tcp_listeners", "max_buffer_size", "buffer_size", F)
       /\ Meant("tcp_listeners", "max_file_descriptors", "max_fd", F)
       /\ Meant("tcp_listeners", "verbosity", "verbosity", F)
    BY DEF Meant, Options, Means
<1> HIDE DEF line, F
<1>5a. /\ Occurrences(line, "-r") = NoArgs
       /\ Occurrences(line, "-y") = NoArgs
       /\ Occurrences(line, "-E") = NoArgs
       /\ Occurrences(line, "-d") = NoArgs
    BY <1>1
<1>6. \A o \in O : \E f \in DOMAIN F : F[f].opt = o
    <2>1. /\ HasOption(F, "intface", "-i")
          /\ HasOption(F, "port", "-l")
          /\ HasOption(F, "compression_type", "-c")
          /\ HasOption(F, "escape_code", "-e")
          /\ HasOption(F, "compression_offset", "-s")
          /\ HasOption(F, "frequence_file", "-f")
          /\ HasOption(F, "codemap_file", "-m")
          /\ HasOption(F, "valid_sizes", "-p")
          /\ HasOption(F, "verbosity", "-v")
          /\ HasOption(F, "message_url", "-o")
          /\ HasOption(F, "max_fd", "--maxfd")
          /\ HasOption(F, "buffer_size", "-b")
        BY <1>4a, <1>4b, <1>4c, <1>4d, CountOption, ManyOption, OneOption
    <2> QED BY <2>1 DEF HasOption
<1> HIDE DEF O
<1>7. Accepts(F, line) <=> \A f \in DOMAIN F : Fine(line, F, f)
    BY <1>1, <1>2a, <1>6, AcceptsLine
<1>11. Fine(line, F, "intface") /\ Holds(line, F, "intface", e.ip)
    BY <1>2a, <1>4a, OneSaid
<1>12. Fine(line, F, "port") /\ Holds(line, F, "port", e.port)
    BY <1>2a, <1>4a, OneSaid
<1>13. Fine(line, F, "message_url") /\ Holds(line, F, "message_url", c.bus_in)
    BY <1>2c, <1>4a, OneSaid
<1>14. Fine(line, F, "buffer_size") /\ Holds(line, F, "buffer_size", Either(c.max_buffer_size, 0,
        BufferSize))
    BY <1>2c, <1>4a, OneSaid
<1>15. Fine(line, F, "retries")
    BY <1>5a, <1>4a, OneAbsent
<1>16. Fine(line, F, "retry_delay")
    BY <1>5a, <1>4b, OneAbsent
<1>17. Fine(line, F, "compression_type") /\ Holds(line, F, "compression_type", e.compression_type)
    BY <1>2a, <1>4b, OneSaid
<1>18. Fine(line, F, "escape_code") /\ Holds(line, F, "escape_code", "")
    BY <1>2a, <1>4b, OneSaid
<1>19. Fine(line, F, "eof_code")
    BY <1>5a, <1>4b, OneAbsent
<1>20. Fine(line, F, "compression_offset") /\ Holds(line, F, "compression_offset", e.compression_offset)
    BY <1>2b, <1>4b, OneSaid
<1>21. Fine(line, F, "frequence_file") /\ Holds(line, F, "frequence_file", e.frequence_file)
    BY <1>2b, <1>4c, OneSaid
<1>22. Fine(line, F, "codemap_file") /\ Holds(line, F, "codemap_file", e.codemap_file)
    BY <1>2b, <1>4c, OneSaid
<1>23. (Fine(line, F, "valid_sizes") <=> Len(e.valid_sizes) <= 256) /\ Holds(line, F, "valid_sizes",
        e.valid_sizes)
    <2>1. Field(F, "valid_sizes", Many("-p", 256, NoArgs))
        BY <1>4c
    <2>2. Enumerates(Occurrences(line, "-p"), e.valid_sizes)
        BY <1>2b
    <2> QED BY <2>1, <2>2, ManyListed, SMTT(30)
<1>24. Fine(line, F, "daemonize")
    BY <1>5a, <1>4c, CountAbsent
<1>25. Fine(line, F, "max_fd") /\ Holds(line, F, "max_fd", c.max_file_descriptors)
    BY <1>2c, <1>4c, OneSaid
<1>26. (Fine(line, F, "verbosity") <=> c.verbosity <= 3) /\ Holds(line, F, "verbosity", c.verbosity)
    BY <1>2b, <1>4d, Counted
<1>8. (\A f \in DOMAIN F : Fine(line, F, f)) <=> c.verbosity <= 3 /\ Len(e.valid_sizes) <= 256
    BY <1>3, <1>11, <1>12, <1>13, <1>14, <1>15, <1>16, <1>17, <1>18, <1>19, <1>20, <1>21, <1>22, <1>23,
       <1>24, <1>25, <1>26
<1>9. Accepts(F, line) <=> c.verbosity <= 3 /\ Len(e.valid_sizes) <= 256
    BY <1>7, <1>8
<1>41. Heeds(line, "tcp_listeners", "ip", e.ip)
    BY <1>6a, <1>4a, <1>11, HeedsOne
<1>42. Heeds(line, "tcp_listeners", "port", e.port)
    BY <1>6a, <1>4a, <1>12, HeedsOne
<1>43. Heeds(line, "tcp_listeners", "compression_type", e.compression_type)
    BY <1>6a, <1>4b, <1>17, HeedsOne
<1>44. Heeds(line, "tcp_listeners", "escape_code", e.escape_code)
    <2>1. ~Lost("tcp_listeners", "escape_code", e.escape_code) => Holds(line, F, "escape_code",
            e.escape_code)
        BY <1>18 DEF Lost, Either, FileMode, NoArgs
    <2> QED BY <1>6a, <1>4b, <2>1, HeedsOne
<1>45. Heeds(line, "tcp_listeners", "compression_offset", e.compression_offset)
    BY <1>6b, <1>4b, <1>20, HeedsOne
<1>46. Heeds(line, "tcp_listeners", "frequence_file", e.frequence_file)
    BY <1>6b, <1>4c, <1>21, HeedsOne
<1>47. Heeds(line, "tcp_listeners", "codemap_file", e.codemap_file)
    BY <1>6b, <1>4c, <1>22, HeedsOne
<1>48. Heeds(line, "tcp_listeners", "valid_sizes", e.valid_sizes)
    BY <1>6b, <1>4c, <1>23, HeedsMany
<1>49. Heeds(line, "tcp_listeners", "bus_in", c.bus_in)
    BY <1>6c, <1>4a, <1>13, HeedsOne
<1>50. Heeds(line, "tcp_listeners", "max_buffer_size", c.max_buffer_size)
    <2>1. ~Lost("tcp_listeners", "max_buffer_size", c.max_buffer_size) => Holds(line, F, "buffer_size",
            c.max_buffer_size)
        BY <1>14 DEF Lost, Either, FileMode, NoArgs
    <2> QED BY <1>6c, <1>4a, <2>1, HeedsOne
<1>51. Heeds(line, "tcp_listeners", "max_file_descriptors", c.max_file_descriptors)
    BY <1>6c, <1>4c, <1>25, HeedsOne
<1>52. Heeds(line, "tcp_listeners", "verbosity", c.verbosity)
    BY <1>6c, <1>4d, <1>26, HeedsCount
<1> QED BY <1>9, <1>41, <1>42, <1>43, <1>44, <1>45, <1>46, <1>47, <1>48, <1>49, <1>50, <1>51,
        <1>52 DEF line, F

\* What mqtt_receiver makes of that line: when it accepts it, and the settings that
\* its Config holds.
LEMMA MqttConfig ==
    ASSUME NEW e, NEW c, c.verbosity \in Nat
    PROVE  LET line == CfgListenerMqtt(e, c)
               F == mqtt_receiver
           IN  /\ Accepts(F, line) <=> c.verbosity <= 3
               /\ Heeds(line, "mqtt_listeners", "client", e.client)
               /\ Heeds(line, "mqtt_listeners", "topic", e.topic)
               /\ Heeds(line, "mqtt_listeners", "broker", e.broker)
               /\ Heeds(line, "mqtt_listeners", "port", e.port)
               /\ Heeds(line, "mqtt_listeners", "qos", e.qos)
               /\ Heeds(line, "mqtt_listeners", "keep_alive", e.keep_alive)
               /\ Heeds(line, "mqtt_listeners", "bus_in", c.bus_in)
               /\ Heeds(line, "mqtt_listeners", "max_file_descriptors", c.max_file_descriptors)
               /\ Heeds(line, "mqtt_listeners", "verbosity", c.verbosity)
<1> DEFINE line == CfgListenerMqtt(e, c)
           F == mqtt_receiver
           O == {"-c", "-a", "-t", "-p", "-q", "-v", "-o", "--maxfd"}
<1>1. \A o : o \notin O => Occurrences(line, o) = NoArgs
    BY MqttLine
<1>2a. /\ Line(line)
       /\ Names(Occurrences(line, "-c"), e.client)
       /\ Names(Occurrences(line, "-a"), e.broker)
       /\ Names(Occurrences(line, "-t"), e.topic)
       /\ Names(Occurrences(line, "-p"), e.port)
    BY MqttLine
<1>2b. /\ Names(Occurrences(line, "-q"), e.qos)
       /\ Len(Occurrences(line, "-v")) = c.verbosity
       /\ Says(Occurrences(line, "-o"), PacketBus, c.bus_in)
       /\ Says(Occurrences(line, "--maxfd"), 0, c.max_file_descriptors)
    BY MqttLine
<1>3. DOMAIN F = {"topics", "broker_address", "broker_port", "qos", "client_id", "keep_alive_interval",
        "reconnect_delay", "message_url", "retries", "retry_delay", "daemonize", "max_fd", "verbosity"}
    BY DEF mqtt_receiver
<1>4a. /\ Field(F, "topics", Many("-t", 32, <<"pkt2">>))
       /\ Field(F, "broker_address", One("-a", "tcp://127.0.0.1"))
       /\ Field(F, "broker_port", One("-p", 1883))
       /\ Field(F, "qos", One("-q", 1))
       /\ Field(F, "client_id", One("-c", "mqtt-receiver"))
    BY DEF mqtt_receiver, Field
<1>4b. /\ Field(F, "keep_alive_interval", One("-k", 20))
       /\ Field(F, "reconnect_delay", One("-w", 5))
       /\ Field(F, "message_url", One("-o", PacketBus))
       /\ Field(F, "retries", One("-r", 0))
       /\ Field(F, "retry_delay", One("-y", 60))
    BY DEF mqtt_receiver, Field
<1>4c. /\ Field(F, "daemonize", Count("-d", 1))
       /\ Field(F, "max_fd", One("--maxfd", 0))
       /\ Field(F, "verbosity", Count("-v", 3))
    BY DEF mqtt_receiver, Field
<1>6a. /\ Meant("mqtt_listeners", "client", "client_id", F)
       /\ Meant("mqtt_listeners", "topic", "topics", F)
       /\ Meant("mqtt_listeners", "broker", "broker_address", F)
       /\ Meant("mqtt_listeners", "port", "broker_port", F)
    BY DEF Meant, Options, Means
<1>6b. /\ Meant("mqtt_listeners", "qos", "qos", F)
       /\ Meant("mqtt_listeners", "keep_alive", "keep_alive_interval", F)
       /\ Meant("mqtt_listeners", "bus_in", "message_url", F)
       /\ Meant("mqtt_listeners", "max_file_descriptors", "max_fd", F)
    BY DEF Meant, Options, Means
<1>6c. /\ Meant("mqtt_listeners", "verbosity", "verbosity", F)
    BY DEF Meant, Options, Means
<1> HIDE DEF line, F
<1>5a. /\ Occurrences(line, "-k") = NoArgs
       /\ Occurrences(line, "-w") = NoArgs
       /\ Occurrences(line, "-r") = NoArgs
       /\ Occurrences(line, "-y") = NoArgs
       /\ Occurrences(line, "-d") = NoArgs
    BY <1>1
<1>6. \A o \in O : \E f \in DOMAIN F : F[f].opt = o
    <2>1. /\ HasOption(F, "client_id", "-c")
          /\ HasOption(F, "broker_address", "-a")
          /\ HasOption(F, "topics", "-t")
          /\ HasOption(F, "broker_port", "-p")
          /\ HasOption(F, "qos", "-q")
          /\ HasOption(F, "verbosity", "-v")
          /\ HasOption(F, "message_url", "-o")
          /\ HasOption(F, "max_fd", "--maxfd")
        BY <1>4a, <1>4b, <1>4c, CountOption, ManyOption, OneOption
    <2> QED BY <2>1 DEF HasOption
<1> HIDE DEF O
<1>7. Accepts(F, line) <=> \A f \in DOMAIN F : Fine(line, F, f)
    BY <1>1, <1>2a, <1>6, AcceptsLine
<1>11. Fine(line, F, "topics") /\ Holds(line, F, "topics", <<e.topic>>)
    BY <1>2a, <1>4a, ManyNamed
<1>12. Fine(line, F, "broker_address") /\ Holds(line, F, "broker_address", e.broker)
    BY <1>2a, <1>4a, OneNamed
<1>13. Fine(line, F, "broker_port") /\ Holds(line, F, "broker_port", e.port)
    BY <1>2a, <1>4a, OneNamed
<1>14. Fine(line, F, "qos") /\ Holds(line, F, "qos", e.qos)
    BY <1>2b, <1>4a, OneNamed
<1>15. Fine(line, F, "client_id") /\ Holds(line, F, "client_id", e.client)
    BY <1>2a, <1>4a, OneNamed
<1>16. Fine(line, F, "keep_alive_interval") /\ Holds(line, F, "keep_alive_interval", 20)
    BY <1>5a, <1>4b, OneAbsent
<1>17. Fine(line, F, "reconnect_delay")
    BY <1>5a, <1>4b, OneAbsent
<1>18. Fine(line, F, "message_url") /\ Holds(line, F, "message_url", c.bus_in)
    BY <1>2b, <1>4b, OneSaid
<1>19. Fine(line, F, "retries")
    BY <1>5a, <1>4b, OneAbsent
<1>20. Fine(line, F, "retry_delay")
    BY <1>5a, <1>4b, OneAbsent
<1>21. Fine(line, F, "daemonize")
    BY <1>5a, <1>4c, CountAbsent
<1>22. Fine(line, F, "max_fd") /\ Holds(line, F, "max_fd", c.max_file_descriptors)
    BY <1>2b, <1>4c, OneSaid
<1>23. (Fine(line, F, "verbosity") <=> c.verbosity <= 3) /\ Holds(line, F, "verbosity", c.verbosity)
    BY <1>2b, <1>4c, Counted
<1>8. (\A f \in DOMAIN F : Fine(line, F, f)) <=> c.verbosity <= 3
    BY <1>3, <1>11, <1>12, <1>13, <1>14, <1>15, <1>16, <1>17, <1>18, <1>19, <1>20, <1>21, <1>22, <1>23
<1>9. Accepts(F, line) <=> c.verbosity <= 3
    BY <1>7, <1>8
<1>41. Heeds(line, "mqtt_listeners", "client", e.client)
    BY <1>6a, <1>4a, <1>15, HeedsOne
<1>42. Heeds(line, "mqtt_listeners", "topic", e.topic)
    BY <1>6a, <1>4a, <1>11, HeedsTopic
<1>43. Heeds(line, "mqtt_listeners", "broker", e.broker)
    BY <1>6a, <1>4a, <1>12, HeedsOne
<1>44. Heeds(line, "mqtt_listeners", "port", e.port)
    BY <1>6a, <1>4a, <1>13, HeedsOne
<1>45. Heeds(line, "mqtt_listeners", "qos", e.qos)
    BY <1>6b, <1>4a, <1>14, HeedsOne
<1>46. Heeds(line, "mqtt_listeners", "keep_alive", e.keep_alive)
    <2>1. ~Lost("mqtt_listeners", "keep_alive", e.keep_alive) => Holds(line, F, "keep_alive_interval",
            e.keep_alive)
        BY <1>16 DEF Lost, Either, FileMode, NoArgs
    <2> QED BY <1>6b, <1>4b, <2>1, HeedsOne
<1>47. Heeds(line, "mqtt_listeners", "bus_in", c.bus_in)
    BY <1>6b, <1>4b, <1>18, HeedsOne
<1>48. Heeds(line, "mqtt_listeners", "max_file_descriptors", c.max_file_descriptors)
    BY <1>6b, <1>4c, <1>22, HeedsOne
<1>49. Heeds(line, "mqtt_listeners", "verbosity", c.verbosity)
    BY <1>6c, <1>4c, <1>23, HeedsCount
<1> QED BY <1>9, <1>41, <1>42, <1>43, <1>44, <1>45, <1>46, <1>47, <1>48, <1>49 DEF line, F

\* What freceiver makes of that line: when it accepts it, and the settings that its
\* Config holds.
LEMMA FileConfig ==
    ASSUME NEW e, NEW c, c.verbosity \in Nat
    PROVE  LET line == CfgListenerFile(e, c)
               F == freceiver
           IN  /\ Accepts(F, line) <=> c.verbosity <= 3 /\ "proto" \in DOMAIN realpath
               /\ Heeds(line, "file_listeners", "file", e.file)
               /\ Heeds(line, "file_listeners", "mode", e.mode)
               /\ Heeds(line, "file_listeners", "bus_in", c.bus_in)
               /\ Heeds(line, "file_listeners", "proto_path", c.proto_path)
               /\ Heeds(line, "file_listeners", "max_buffer_size", c.max_buffer_size)
               /\ Heeds(line, "file_listeners", "max_file_descriptors", c.max_file_descriptors)
               /\ Heeds(line, "file_listeners", "verbosity", c.verbosity)
<1> DEFINE line == CfgListenerFile(e, c)
           F == freceiver
           O == {"-i", "-t", "-v", "-o", "--maxfd"}
<1>1. \A o : o \notin O => Occurrences(line, o) = NoArgs
    BY FileLine
<1>2a. /\ Line(line)
       /\ Names(Occurrences(line, "-i"), e.file)
       /\ Names(Occurrences(line, "-t"), e.mode)
       /\ Len(Occurrences(line, "-v")) = c.verbosity
       /\ Says(Occurrences(line, "-o"), PacketBus, c.bus_in)
    BY FileLine
<1>2b. /\ Says(Occurrences(line, "--maxfd"), 0, c.max_file_descriptors)
    BY FileLine
<1>3. DOMAIN F = {"file_mode", "filename_in", "packet_size", "message_url", "mode", "proto_path",
        "buffer_size", "retries", "retry_delay", "daemonize", "max_fd", "verbosity", "sql_dialect",
        "tableAliases", "fieldAliases", "properties"}
    BY DEF freceiver
<1>4a. /\ Field(F, "file_mode", Text("-t", 0))
       /\ Field(F, "filename_in", One("-i", ""))
       /\ Field(F, "packet_size", One("-s", 0))
       /\ Field(F, "message_url", One("-o", PacketBus))
       /\ Field(F, "mode", One("-m", -1))
    BY DEF freceiver, Field, BufferSize, NoArgs
<1>4b. /\ Field(F, "proto_path", Path("-p", "proto"))
       /\ Field(F, "buffer_size", One("-b", BufferSize))
       /\ Field(F, "retries", One("-r", 0))
       /\ Field(F, "retry_delay", One("-y", 60))
       /\ Field(F, "daemonize", Count("-d", 1))
    BY DEF freceiver, Field, BufferSize, NoArgs
<1>4c. /\ Field(F, "max_fd", One("--maxfd", 0))
       /\ Field(F, "verbosity", Count("-v", 3))
       /\ Field(F, "sql_dialect", One("--sql-dialect", 0))
       /\ Field(F, "tableAliases", Many("-T", 100, NoArgs))
       /\ Field(F, "fieldAliases", Many("-F", 100, NoArgs))
    BY DEF freceiver, Field, BufferSize, NoArgs
<1>4d. /\ Field(F, "properties", Many("-P", 100, NoArgs))
    BY DEF freceiver, Field, BufferSize, NoArgs
<1>6a. /\ Meant("file_listeners", "file", "filename_in", F)
       /\ Meant("file_listeners", "mode", "file_mode", F)
       /\ Meant("file_listeners", "bus_in", "message_url", F)
       /\ Meant("file_listeners", "max_file_descriptors", "max_fd", F)
    BY DEF Meant, Options, Means
<1>6b. /\ Meant("file_listeners", "verbosity", "verbosity", F)
       /\ Meant("file_listeners", "proto_path", "proto_path", F)
       /\ Meant("file_listeners", "max_buffer_size", "buffer_size", F)
    BY DEF Meant, Options, Means
<1> HIDE DEF line, F
<1>5a. /\ Occurrences(line, "-s") = NoArgs
       /\ Occurrences(line, "-m") = NoArgs
       /\ Occurrences(line, "-p") = NoArgs
       /\ Occurrences(line, "-b") = NoArgs
       /\ Occurrences(line, "-r") = NoArgs
    BY <1>1
<1>5b. /\ Occurrences(line, "-y") = NoArgs
       /\ Occurrences(line, "-d") = NoArgs
       /\ Occurrences(line, "--sql-dialect") = NoArgs
       /\ Occurrences(line, "-T") = NoArgs
       /\ Occurrences(line, "-F") = NoArgs
    BY <1>1
<1>5c. /\ Occurrences(line, "-P") = NoArgs
    BY <1>1
<1>6. \A o \in O : \E f \in DOMAIN F : F[f].opt = o
    <2>1. /\ HasOption(F, "filename_in", "-i")
          /\ HasOption(F, "file_mode", "-t")
          /\ HasOption(F, "verbosity", "-v")
          /\ HasOption(F, "message_url", "-o")
          /\ HasOption(F, "max_fd", "--maxfd")
        BY <1>4a, <1>4b, <1>4c, <1>4d, CountOption, OneOption, TextOption
    <2> QED BY <2>1 DEF HasOption
<1> HIDE DEF O
<1>7. Accepts(F, line) <=> \A f \in DOMAIN F : Fine(line, F, f)
    BY <1>1, <1>2a, <1>6, AcceptsLine
<1>11. Fine(line, F, "file_mode") /\ Holds(line, F, "file_mode", FileMode(e.mode))
    BY <1>2a, <1>4a, TextNamed
<1>12. Fine(line, F, "filename_in") /\ Holds(line, F, "filename_in", e.file)
    BY <1>2a, <1>4a, OneNamed
<1>13. Fine(line, F, "packet_size")
    BY <1>5a, <1>4a, OneAbsent
<1>14. Fine(line, F, "message_url") /\ Holds(line, F, "message_url", c.bus_in)
    BY <1>2a, <1>4a, OneSaid
<1>15. Fine(line, F, "mode")
    BY <1>5a, <1>4a, OneAbsent
<1>16. (Fine(line, F, "proto_path") <=> "proto" \in DOMAIN realpath) /\ Holds(line, F,
        "proto_path", realpath["proto"])
    BY <1>5a, <1>4b, PathAbsent
<1>17. Fine(line, F, "buffer_size") /\ Holds(line, F, "buffer_size", BufferSize)
    BY <1>5a, <1>4b, OneAbsent
<1>18. Fine(line, F, "retries")
    BY <1>5a, <1>4b, OneAbsent
<1>19. Fine(line, F, "retry_delay")
    BY <1>5b, <1>4b, OneAbsent
<1>20. Fine(line, F, "daemonize")
    BY <1>5b, <1>4b, CountAbsent
<1>21. Fine(line, F, "max_fd") /\ Holds(line, F, "max_fd", c.max_file_descriptors)
    BY <1>2b, <1>4c, OneSaid
<1>22. (Fine(line, F, "verbosity") <=> c.verbosity <= 3) /\ Holds(line, F, "verbosity", c.verbosity)
    BY <1>2a, <1>4c, Counted
<1>23. Fine(line, F, "sql_dialect")
    BY <1>5b, <1>4c, OneAbsent
<1>24. Fine(line, F, "tableAliases")
    BY <1>5b, <1>4c, ManyAbsent
<1>25. Fine(line, F, "fieldAliases")
    BY <1>5b, <1>4c, ManyAbsent
<1>26. Fine(line, F, "properties")
    BY <1>5c, <1>4d, ManyAbsent
<1>8. (\A f \in DOMAIN F : Fine(line, F, f)) <=> c.verbosity <= 3 /\ "proto" \in DOMAIN realpath
    BY <1>3, <1>11, <1>12, <1>13, <1>14, <1>15, <1>16, <1>17, <1>18, <1>19, <1>20, <1>21, <1>22, <1>23,
       <1>24, <1>25, <1>26
<1>9. Accepts(F, line) <=> c.verbosity <= 3 /\ "proto" \in DOMAIN realpath
    BY <1>7, <1>8
<1>41. Heeds(line, "file_listeners", "file", e.file)
    BY <1>6a, <1>4a, <1>12, HeedsOne
<1>42. Heeds(line, "file_listeners", "mode", e.mode)
    <2>1. ~Lost("file_listeners", "mode", e.mode) => Holds(line, F, "file_mode", e.mode)
        BY <1>11 DEF Lost, Either, FileMode, NoArgs
    <2> QED BY <1>6a, <1>4a, <2>1, HeedsText
<1>43. Heeds(line, "file_listeners", "bus_in", c.bus_in)
    BY <1>6a, <1>4a, <1>14, HeedsOne
<1>44. Heeds(line, "file_listeners", "max_file_descriptors", c.max_file_descriptors)
    BY <1>6a, <1>4c, <1>21, HeedsOne
<1>45. Heeds(line, "file_listeners", "verbosity", c.verbosity)
    BY <1>6b, <1>4c, <1>22, HeedsCount
<1>46. Heeds(line, "file_listeners", "proto_path", c.proto_path)
    <2>1. ~Lost("file_listeners", "proto_path", c.proto_path) => Holds(line, F, "proto_path",
            realpath[c.proto_path])
        BY <1>16 DEF Lost
    <2> QED BY <1>6b, <1>4b, <2>1, HeedsPath
<1>47. Heeds(line, "file_listeners", "max_buffer_size", c.max_buffer_size)
    <2>1. ~Lost("file_listeners", "max_buffer_size", c.max_buffer_size) => Holds(line, F,
            "buffer_size", c.max_buffer_size)
        BY <1>17 DEF Lost, BufferSize, DefaultBuffer
    <2> QED BY <1>6b, <1>4b, <2>1, HeedsOne
<1> QED BY <1>9, <1>41, <1>42, <1>43, <1>44, <1>45, <1>46, <1>47 DEF line, F

\* What pkt2receiver makes of that line: when it accepts it, and the settings that
\* its Config holds.
LEMMA PacketConfig ==
    ASSUME NEW e, NEW c, c.verbosity \in Nat, IsList(e.sizes)
    PROVE  LET line == CfgPacket2Message(e, c)
               F == pkt2receiver
           IN  /\ Accepts(F, line) <=>
                     /\ c.verbosity <= 3
                     /\ Len(e.sizes) <= 128
                     /\ Either(c.proto_path, "", "proto") \in DOMAIN realpath
               /\ Heeds(line, "packet2message", "force_message", e.force_message)
               /\ Heeds(line, "packet2message", "sizes", e.sizes)
               /\ Heeds(line, "packet2message", "proto_path", c.proto_path)
               /\ Heeds(line, "packet2message", "bus_in", c.bus_in)
               /\ Heeds(line, "packet2message", "bus_out", c.bus_out)
               /\ Heeds(line, "packet2message", "max_file_descriptors", c.max_file_descriptors)
               /\ Heeds(line, "packet2message", "max_buffer_size", c.max_buffer_size)
               /\ Heeds(line, "packet2message", "verbosity", c.verbosity)
<1> DEFINE line == CfgPacket2Message(e, c)
           F == pkt2receiver
           O == {"--message", "-a", "-v", "-i", "-o", "-p", "-b", "--maxfd"}
<1>1. \A o : o \notin O => Occurrences(line, o) = NoArgs
    BY PacketLine
<1>2a. /\ Line(line)
       /\ Says(Occurrences(line, "--message"), "", e.force_message)
       /\ Enumerates(Occurrences(line, "-a"), e.sizes)
       /\ Len(Occurrences(line, "-v")) = c.verbosity
       /\ Says(Occurrences(line, "-i"), PacketBus, c.bus_in)
    BY PacketLine
<1>2b. /\ Says(Occurrences(line, "-o"), MessageBus, c.bus_out)
       /\ Says(Occurrences(line, "-p"), "proto", Either(c.proto_path, "", "proto"))
       /\ Says(Occurrences(line, "-b"), BufferSize, Either(c.max_buffer_size, 0, BufferSize))
       /\ Says(Occurrences(line, "--maxfd"), 0, c.max_file_descriptors)
    BY PacketLine
<1>3. DOMAIN F = {"in_url", "out_url", "control_url", "dump_url", "proto_path", "force_message",
        "allowed_packet_sizes", "buffer_size", "retries", "retry_delay", "max_fd", "tableAliases",
        "fieldAliases", "properties", "daemonize", "verbosity"}
    BY DEF pkt2receiver
<1>4a. /\ Field(F, "in_url", One("-i", PacketBus))
       /\ Field(F, "out_url", One("-o", MessageBus))
       /\ Field(F, "control_url", One("--control", ControlBus))
       /\ Field(F, "dump_url", One("--dump", "ipc:///tmp/dump.pkt2"))
       /\ Field(F, "proto_path", Path("-p", "proto"))
    BY DEF pkt2receiver, Field, BufferSize, NoArgs
<1>4b. /\ Field(F, "force_message", One("--message", ""))
       /\ Field(F, "allowed_packet_sizes", Many("-a", 128, NoArgs))
       /\ Field(F, "buffer_size", One("-b", BufferSize))
       /\ Field(F, "retries", One("-r", 0))
       /\ Field(F, "retry_delay", One("-y", 60))
    BY DEF pkt2receiver, Field, BufferSize, NoArgs
<1>4c. /\ Field(F, "max_fd", One("--maxfd", 0))
       /\ Field(F, "tableAliases", Many("-T", 100, NoArgs))
       /\ Field(F, "fieldAliases", Many("-F", 100, NoArgs))
       /\ Field(F, "properties", Many("-P", 100, NoArgs))
       /\ Field(F, "daemonize", Count("-d", 1))
    BY DEF pkt2receiver, Field, BufferSize, NoArgs
<1>4d. /\ Field(F, "verbosity", Count("-v", 3))
    BY DEF pkt2receiver, Field, BufferSize, NoArgs
<1>6a. /\ Meant("packet2message", "force_message", "force_message", F)
       /\ Meant("packet2message", "sizes", "allowed_packet_sizes", F)
       /\ Meant("packet2message", "proto_path", "proto_path", F)
       /\ Meant("packet2message", "bus_in", "in_url", F)
    BY DEF Meant, Options, Means
<1>6b. /\ Meant("packet2message", "bus_out", "out_url", F)
       /\ Meant("packet2message", "max_file_descriptors", "max_fd", F)
       /\ Meant("packet2message", "max_buffer_size", "buffer_size", F)
       /\ Meant("packet2message", "verbosity", "verbosity", F)
    BY DEF Meant, Options, Means
<1> HIDE DEF line, F
<1>5a. /\ Occurrences(line, "--control") = NoArgs
       /\ Occurrences(line, "--dump") = NoArgs
       /\ Occurrences(line, "-r") = NoArgs
       /\ Occurrences(line, "-y") = NoArgs
       /\ Occurrences(line, "-T") = NoArgs
    BY <1>1
<1>5b. /\ Occurrences(line, "-F") = NoArgs
       /\ Occurrences(line, "-P") = NoArgs
       /\ Occurrences(line, "-d") = NoArgs
    BY <1>1
<1>6. \A o \in O : \E f \in DOMAIN F : F[f].opt = o
    <2>1. /\ HasOption(F, "force_message", "--message")
          /\ HasOption(F, "allowed_packet_sizes", "-a")
          /\ HasOption(F, "verbosity", "-v")
          /\ HasOption(F, "in_url", "-i")
          /\ HasOption(F, "out_url", "-o")
          /\ HasOption(F, "proto_path", "-p")
          /\ HasOption(F, "buffer_size", "-b")
          /\ HasOption(F, "max_fd", "--maxfd")
        BY <1>4a, <1>4b, <1>4c, <1>4d, CountOption, ManyOption, OneOption, PathOption
    <2> QED BY <2>1 DEF HasOption
<1> HIDE DEF O
<1>7. Accepts(F, line) <=> \A f \in DOMAIN F : Fine(line, F, f)
    BY <1>1, <1>2a, <1>6, AcceptsLine
<1>11. Fine(line, F, "in_url") /\ Holds(line, F, "in_url", c.bus_in)
    BY <1>2a, <1>4a, OneSaid
<1>12. Fine(line, F, "out_url") /\ Holds(line, F, "out_url", c.bus_out)
    BY <1>2b, <1>4a, OneSaid
<1>13. Fine(line, F, "control_url")
    BY <1>5a, <1>4a, OneAbsent
<1>14. Fine(line, F, "dump_url")
    BY <1>5a, <1>4a, OneAbsent
<1>15. (Fine(line, F, "proto_path") <=> Either(c.proto_path, "",
        "proto") \in DOMAIN realpath) /\ Holds(line, F, "proto_path", realpath[Either(c.proto_path, "",
        "proto")])
    BY <1>2b, <1>4a, PathSaid
<1>16. Fine(line, F, "force_message") /\ Holds(line, F, "force_message", e.force_message)
    BY <1>2a, <1>4b, OneSaid
<1>17. (Fine(line, F, "allowed_packet_sizes") <=> Len(e.sizes) <= 128) /\ Holds(line, F,
        "allowed_packet_sizes", e.sizes)
    <2>1. Field(F, "allowed_packet_sizes", Many("-a", 128, NoArgs))
        BY <1>4b
    <2>2. Enumerates(Occurrences(line, "-a"), e.sizes)
        BY <1>2a
    <2> QED BY <2>1, <2>2, ManyListed, SMTT(30)
<1>18. Fine(line, F, "buffer_size") /\ Holds(line, F, "buffer_size", Either(c.max_buffer_size, 0,
        BufferSize))
    BY <1>2b, <1>4b, OneSaid
<1>19. Fine(line, F, "retries")
    BY <1>5a, <1>4b, OneAbsent
<1>20. Fine(line, F, "retry_delay")
    BY <1>5a, <1>4b, OneAbsent
<1>21. Fine(line, F, "max_fd") /\ Holds(line, F, "max_fd", c.max_file_descriptors)
    BY <1>2b, <1>4c, OneSaid
<1>22. Fine(line, F, "tableAliases")
    BY <1>5a, <1>4c, ManyAbsent
<1>23. Fine(line, F, "fieldAliases")
    BY <1>5b, <1>4c, ManyAbsent
<1>24. Fine(line, F, "properties")
    BY <1>5b, <1>4c, ManyAbsent
<1>25. Fine(line, F, "daemonize")
    BY <1>5b, <1>4c, CountAbsent
<1>26. (Fine(line, F, "verbosity") <=> c.verbosity <= 3) /\ Holds(line, F, "verbosity", c.verbosity)
    BY <1>2a, <1>4d, Counted
<1>8. (\A f \in DOMAIN F : Fine(line, F, f)) <=>
        /\ c.verbosity <= 3
        /\ Len(e.sizes) <= 128
        /\ Either(c.proto_path, "", "proto") \in DOMAIN realpath
    BY <1>3, <1>11, <1>12, <1>13, <1>14, <1>15, <1>16, <1>17, <1>18, <1>19, <1>20, <1>21, <1>22, <1>23,
       <1>24, <1>25, <1>26
<1>9. Accepts(F, line) <=>
        /\ c.verbosity <= 3
        /\ Len(e.sizes) <= 128
        /\ Either(c.proto_path, "", "proto") \in DOMAIN realpath
    BY <1>7, <1>8
<1>41. Heeds(line, "packet2message", "force_message", e.force_message)
    BY <1>6a, <1>4b, <1>16, HeedsOne
<1>42. Heeds(line, "packet2message", "sizes", e.sizes)
    BY <1>6a, <1>4b, <1>17, HeedsMany
<1>43. Heeds(line, "packet2message", "proto_path", c.proto_path)
    <2>1. ~Lost("packet2message", "proto_path", c.proto_path) => Holds(line, F, "proto_path",
            realpath[c.proto_path])
        BY <1>15 DEF Lost, Either, FileMode, NoArgs
    <2> QED BY <1>6a, <1>4a, <2>1, HeedsPath
<1>44. Heeds(line, "packet2message", "bus_in", c.bus_in)
    BY <1>6a, <1>4a, <1>11, HeedsOne
<1>45. Heeds(line, "packet2message", "bus_out", c.bus_out)
    BY <1>6b, <1>4a, <1>12, HeedsOne
<1>46. Heeds(line, "packet2message", "max_file_descriptors", c.max_file_descriptors)
    BY <1>6b, <1>4c, <1>21, HeedsOne
<1>47. Heeds(line, "packet2message", "max_buffer_size", c.max_buffer_size)
    <2>1. ~Lost("packet2message", "max_buffer_size", c.max_buffer_size) => Holds(line, F,
            "buffer_size", c.max_buffer_size)
        BY <1>18 DEF Lost, Either, FileMode, NoArgs
    <2> QED BY <1>6b, <1>4b, <2>1, HeedsOne
<1>48. Heeds(line, "packet2message", "verbosity", c.verbosity)
    BY <1>6b, <1>4d, <1>26, HeedsCount
<1> QED BY <1>9, <1>41, <1>42, <1>43, <1>44, <1>45, <1>46, <1>47, <1>48 DEF line, F

\* What handlerline makes of that line: when it accepts it, and the settings that its
\* Config holds.
LEMMA TextConfig ==
    ASSUME NEW e, NEW c, c.verbosity \in Nat, IsList(e.messages)
    PROVE  LET line == CfgWriteFile(e, c)
               F == handlerline
           IN  /\ Accepts(F, line) <=>
                     /\ c.verbosity <= 3
                     /\ Len(e.messages) <= 128
                     /\ c.proto_path \in DOMAIN realpath
               /\ Heeds(line, "write_file", "file", e.file)
               /\ Heeds(line, "write_file", "mode", e.mode)
               /\ Heeds(line, "write_file", "messages", e.messages)
               /\ Heeds(line, "write_file", "proto_path", c.proto_path)
               /\ Heeds(line, "write_file", "bus_out", c.bus_out)
               /\ Heeds(line, "write_file", "max_buffer_size", c.max_buffer_size)
               /\ Heeds(line, "write_file", "verbosity", c.verbosity)
<1> DEFINE line == CfgWriteFile(e, c)
           F == handlerline
           O == {"-o", "--format", "-a", "-v", "-i", "-p"}
<1>1. \A o : o \notin O => Occurrences(line, o) = NoArgs
    BY TextLine
<1>2a. /\ Line(line)
       /\ Names(Occurrences(line, "-o"), e.file)
       /\ Names(Occurrences(line, "--format"), e.mode)
       /\ Enumerates(Occurrences(line, "-a"), e.messages)
       /\ Len(Occurrences(line, "-v")) = c.verbosity
    BY TextLine
<1>2b. /\ Says(Occurrences(line, "-i"), MessageBus, c.bus_out)
       /\ Says(Occurrences(line, "-p"), "proto", c.proto_path)
    BY TextLine
<1>3. DOMAIN F = {"message_url", "allowed_messages", "file_name", "retries", "retry_delay",
        "daemonize", "verbosity", "proto_path", "mode", "format_number", "buffer_size", "sql_dialect",
        "tableAliases", "fieldAliases", "properties"}
    BY DEF handlerline
<1>4a. /\ Field(F, "message_url", One("-i", MessageBus))
       /\ Field(F, "allowed_messages", Many("-a", 128, NoArgs))
       /\ Field(F, "file_name", One("-o", ""))
       /\ Field(F, "retries", One("-r", 0))
       /\ Field(F, "retry_delay", One("-y", 60))
    BY DEF handlerline, Field, BufferSize, NoArgs
<1>4b. /\ Field(F, "daemonize", Count("-d", 1))
       /\ Field(F, "verbosity", Count("-v", 3))
       /\ Field(F, "proto_path", Path("-p", "proto"))
       /\ Field(F, "mode", One("-m", 0))
       /\ Field(F, "format_number", One("--format", 0))
    BY DEF handlerline, Field, BufferSize, NoArgs
<1>4c. /\ Field(F, "buffer_size", One("-b", BufferSize))
       /\ Field(F, "sql_dialect", One("--sql-dialect", 0))
       /\ Field(F, "tableAliases", Many("-T", 100, NoArgs))
       /\ Field(F, "fieldAliases", Many("-F", 100, NoArgs))
       /\ Field(F, "properties", Many("-P", 100, NoArgs))
    BY DEF handlerline, Field, BufferSize, NoArgs
<1>6a. /\ Meant("write_file", "file", "file_name", F)
       /\ Meant("write_file", "mode", "mode", F)
       /\ Meant("write_file", "messages", "allowed_messages", F)
       /\ Meant("write_file", "proto_path", "proto_path", F)
    BY DEF Meant, Options, Means
<1>6b. /\ Meant("write_file", "bus_out", "message_url", F)
       /\ Meant("write_file", "verbosity", "verbosity", F)
       /\ Meant("write_file", "max_buffer_size", "buffer_size", F)
    BY DEF Meant, Options, Means
<1> HIDE DEF line, F
<1>5a. /\ Occurrences(line, "-r") = NoArgs
       /\ Occurrences(line, "-y") = NoArgs
       /\ Occurrences(line, "-d") = NoArgs
       /\ Occurrences(line, "-m") = NoArgs
       /\ Occurrences(line, "-b") = NoArgs
    BY <1>1
<1>5b. /\ Occurrences(line, "--sql-dialect") = NoArgs
       /\ Occurrences(line, "-T") = NoArgs
       /\ Occurrences(line, "-F") = NoArgs
       /\ Occurrences(line, "-P") = NoArgs
    BY <1>1
<1>6. \A o \in O : \E f \in DOMAIN F : F[f].opt = o
    <2>1. /\ HasOption(F, "file_name", "-o")
          /\ HasOption(F, "format_number", "--format")
          /\ HasOption(F, "allowed_messages", "-a")
          /\ HasOption(F, "verbosity", "-v")
          /\ HasOption(F, "message_url", "-i")
          /\ HasOption(F, "proto_path", "-p")
        BY <1>4a, <1>4b, <1>4c, CountOption, ManyOption, OneOption, PathOption
    <2> QED BY <2>1 DEF HasOption
<1> HIDE DEF O
<1>7. Accepts(F, line) <=> \A f \in DOMAIN F : Fine(line, F, f)
    BY <1>1, <1>2a, <1>6, AcceptsLine
<1>11. Fine(line, F, "message_url") /\ Holds(line, F, "message_url", c.bus_out)
    BY <1>2b, <1>4a, OneSaid
<1>12. (Fine(line, F, "allowed_messages") <=> Len(e.messages) <= 128) /\ Holds(line, F,
        "allowed_messages", e.messages)
    <2>1. Field(F, "allowed_messages", Many("-a", 128, NoArgs))
        BY <1>4a
    <2>2. Enumerates(Occurrences(line, "-a"), e.messages)
        BY <1>2a
    <2> QED BY <2>1, <2>2, ManyListed, SMTT(30)
<1>13. Fine(line, F, "file_name") /\ Holds(line, F, "file_name", e.file)
    BY <1>2a, <1>4a, OneNamed
<1>14. Fine(line, F, "retries")
    BY <1>5a, <1>4a, OneAbsent
<1>15. Fine(line, F, "retry_delay")
    BY <1>5a, <1>4a, OneAbsent
<1>16. Fine(line, F, "daemonize")
    BY <1>5a, <1>4b, CountAbsent
<1>17. (Fine(line, F, "verbosity") <=> c.verbosity <= 3) /\ Holds(line, F, "verbosity", c.verbosity)
    BY <1>2a, <1>4b, Counted
<1>18. (Fine(line, F, "proto_path") <=> c.proto_path \in DOMAIN realpath) /\ Holds(line, F,
        "proto_path", realpath[c.proto_path])
    BY <1>2b, <1>4b, PathSaid
<1>19. Fine(line, F, "mode") /\ Holds(line, F, "mode", 0)
    BY <1>5a, <1>4b, OneAbsent
<1>20. Fine(line, F, "format_number")
    BY <1>2a, <1>4b, OneNamed
<1>21. Fine(line, F, "buffer_size") /\ Holds(line, F, "buffer_size", BufferSize)
    BY <1>5a, <1>4c, OneAbsent
<1>22. Fine(line, F, "sql_dialect")
    BY <1>5b, <1>4c, OneAbsent
<1>23. Fine(line, F, "tableAliases")
    BY <1>5b, <1>4c, ManyAbsent
<1>24. Fine(line, F, "fieldAliases")
    BY <1>5b, <1>4c, ManyAbsent
<1>25. Fine(line, F, "properties")
    BY <1>5b, <1>4c, ManyAbsent
<1>8. (\A f \in DOMAIN F : Fine(line, F, f)) <=>
        /\ c.verbosity <= 3
        /\ Len(e.messages) <= 128
        /\ c.proto_path \in DOMAIN realpath
    BY <1>3, <1>11, <1>12, <1>13, <1>14, <1>15, <1>16, <1>17, <1>18, <1>19, <1>20, <1>21, <1>22, <1>23,
       <1>24, <1>25
<1>9. Accepts(F, line) <=>
        /\ c.verbosity <= 3
        /\ Len(e.messages) <= 128
        /\ c.proto_path \in DOMAIN realpath
    BY <1>7, <1>8
<1>41. Heeds(line, "write_file", "file", e.file)
    BY <1>6a, <1>4a, <1>13, HeedsOne
<1>42. Heeds(line, "write_file", "mode", e.mode)
    <2>1. ~Lost("write_file", "mode", e.mode) => Holds(line, F, "mode", e.mode)
        BY <1>19 DEF Lost, Either, FileMode, NoArgs
    <2> QED BY <1>6a, <1>4b, <2>1, HeedsOne
<1>43. Heeds(line, "write_file", "messages", e.messages)
    BY <1>6a, <1>4a, <1>12, HeedsMany
<1>44. Heeds(line, "write_file", "proto_path", c.proto_path)
    BY <1>6a, <1>4b, <1>18, HeedsPath
<1>45. Heeds(line, "write_file", "bus_out", c.bus_out)
    BY <1>6b, <1>4a, <1>11, HeedsOne
<1>46. Heeds(line, "write_file", "verbosity", c.verbosity)
    BY <1>6b, <1>4b, <1>17, HeedsCount
<1>47. Heeds(line, "write_file", "max_buffer_size", c.max_buffer_size)
    <2>1. ~Lost("write_file", "max_buffer_size", c.max_buffer_size) => Holds(line, F,
            "buffer_size", c.max_buffer_size)
        BY <1>21 DEF Lost, BufferSize, DefaultBuffer
    <2> QED BY <1>6b, <1>4c, <2>1, HeedsOne
<1> QED BY <1>9, <1>41, <1>42, <1>43, <1>44, <1>45, <1>46, <1>47 DEF line, F

\* What handlerlmdb makes of that line: when it accepts it, and the settings that its
\* Config holds.
LEMMA LmdbConfig ==
    ASSUME NEW e, NEW c, c.verbosity \in Nat, IsList(e.messages)
    PROVE  LET line == CfgWriteLmdb(e, c)
               F == handlerlmdb
           IN  /\ Accepts(F, line) <=>
                     /\ c.verbosity <= 3
                     /\ Len(e.messages) <= 128
                     /\ Either(c.proto_path, "", "proto") \in DOMAIN realpath
                     /\ e.dbpath \in DOMAIN realpath
               /\ Heeds(line, "write_lmdb", "dbpath", e.dbpath)
               /\ Heeds(line, "write_lmdb", "messages", e.messages)
               /\ Heeds(line, "write_lmdb", "proto_path", c.proto_path)
               /\ Heeds(line, "write_lmdb", "bus_out", c.bus_out)
               /\ Heeds(line, "write_lmdb", "max_buffer_size", c.max_buffer_size)
               /\ Heeds(line, "write_lmdb", "max_file_descriptors", c.max_file_descriptors)
               /\ Heeds(line, "write_lmdb", "verbosity", c.verbosity)
<1> DEFINE line == CfgWriteLmdb(e, c)
           F == handlerlmdb
           O == {"--dbpath", "-a", "-v", "-i", "-p", "-b"}
<1>1. \A o : o \notin O => Occurrences(line, o) = NoArgs
    BY LmdbLine
<1>2a. /\ Line(line)
       /\ Names(Occurrences(line, "--dbpath"), e.dbpath)
       /\ Enumerates(Occurrences(line, "-a"), e.messages)
       /\ Len(Occurrences(line, "-v")) = c.verbosity
       /\ Says(Occurrences(line, "-i"), MessageBus, c.bus_out)
    BY LmdbLine
<1>2b. /\ Says(Occurrences(line, "-p"), "proto", Either(c.proto_path, "", "proto"))
       /\ Says(Occurrences(line, "-b"), BufferSize, c.max_buffer_size)
    BY LmdbLine
<1>3. DOMAIN F = {"message_url", "allowed_messages", "retries", "retry_delay", "daemonize", "max_fd",
        "verbosity", "proto_path", "path", "flags", "mode", "buffer_size"}
    BY DEF handlerlmdb
<1>4a. /\ Field(F, "message_url", One("-i", MessageBus))
       /\ Field(F, "allowed_messages", Many("-a", 128, NoArgs))
       /\ Field(F, "retries", One("-r", 0))
       /\ Field(F, "retry_delay", One("-y", 60))
       /\ Field(F, "daemonize", Count("-d", 1))
    BY DEF handlerlmdb, Field, BufferSize, NoArgs
<1>4b. /\ Field(F, "max_fd", One("--maxfd", 0))
       /\ Field(F, "verbosity", Count("-v", 3))
       /\ Field(F, "proto_path", Path("-p", "proto"))
       /\ Field(F, "path", Path("--dbpath", "db"))
       /\ Field(F, "flags", One("-f", 0))
    BY DEF handlerlmdb, Field, BufferSize, NoArgs
<1>4c. /\ Field(F, "mode", One("-m", 436))
       /\ Field(F, "buffer_size", One("-b", BufferSize))
    BY DEF handlerlmdb, Field, BufferSize, NoArgs
<1>6a. /\ Meant("write_lmdb", "dbpath", "path", F)
       /\ Meant("write_lmdb", "messages", "allowed_messages", F)
       /\ Meant("write_lmdb", "proto_path", "proto_path", F)
       /\ Meant("write_lmdb", "bus_out", "message_url", F)
    BY DEF Meant, Options, Means
<1>6b. /\ Meant("write_lmdb", "max_buffer_size", "buffer_size", F)
       /\ Meant("write_lmdb", "verbosity", "verbosity", F)
       /\ Meant("write_lmdb", "max_file_descriptors", "max_fd", F)
    BY DEF Meant, Options, Means
<1> HIDE DEF line, F
<1>5a. /\ Occurrences(line, "-r") = NoArgs
       /\ Occurrences(line, "-y") = NoArgs
       /\ Occurrences(line, "-d") = NoArgs
       /\ Occurrences(line, "--maxfd") = NoArgs
       /\ Occurrences(line, "-f") = NoArgs
    BY <1>1
<1>5b. /\ Occurrences(line, "-m") = NoArgs
    BY <1>1
<1>6. \A o \in O : \E f \in DOMAIN F : F[f].opt = o
    <2>1. /\ HasOption(F, "path", "--dbpath")
          /\ HasOption(F, "allowed_messages", "-a")
          /\ HasOption(F, "verbosity", "-v")
          /\ HasOption(F, "message_url", "-i")
          /\ HasOption(F, "proto_path", "-p")
          /\ HasOption(F, "buffer_size", "-b")
        BY <1>4a, <1>4b, <1>4c, CountOption, ManyOption, OneOption, PathOption
    <2> QED BY <2>1 DEF HasOption
<1> HIDE DEF O
<1>7. Accepts(F, line) <=> \A f \in DOMAIN F : Fine(line, F, f)
    BY <1>1, <1>2a, <1>6, AcceptsLine
<1>11. Fine(line, F, "message_url") /\ Holds(line, F, "message_url", c.bus_out)
    BY <1>2a, <1>4a, OneSaid
<1>12. (Fine(line, F, "allowed_messages") <=> Len(e.messages) <= 128) /\ Holds(line, F,
        "allowed_messages", e.messages)
    <2>1. Field(F, "allowed_messages", Many("-a", 128, NoArgs))
        BY <1>4a
    <2>2. Enumerates(Occurrences(line, "-a"), e.messages)
        BY <1>2a
    <2> QED BY <2>1, <2>2, ManyListed, SMTT(30)
<1>13. Fine(line, F, "retries")
    BY <1>5a, <1>4a, OneAbsent
<1>14. Fine(line, F, "retry_delay")
    BY <1>5a, <1>4a, OneAbsent
<1>15. Fine(line, F, "daemonize")
    BY <1>5a, <1>4a, CountAbsent
<1>16. Fine(line, F, "max_fd") /\ Holds(line, F, "max_fd", 0)
    BY <1>5a, <1>4b, OneAbsent
<1>17. (Fine(line, F, "verbosity") <=> c.verbosity <= 3) /\ Holds(line, F, "verbosity", c.verbosity)
    BY <1>2a, <1>4b, Counted
<1>18. (Fine(line, F, "proto_path") <=> Either(c.proto_path, "",
        "proto") \in DOMAIN realpath) /\ Holds(line, F, "proto_path", realpath[Either(c.proto_path, "",
        "proto")])
    BY <1>2b, <1>4b, PathSaid
<1>19. (Fine(line, F, "path") <=> e.dbpath \in DOMAIN realpath) /\ Holds(line, F, "path",
        realpath[e.dbpath])
    BY <1>2a, <1>4b, PathNamed
<1>20. Fine(line, F, "flags")
    BY <1>5a, <1>4b, OneAbsent
<1>21. Fine(line, F, "mode")
    BY <1>5b, <1>4c, OneAbsent
<1>22. Fine(line, F, "buffer_size") /\ Holds(line, F, "buffer_size", c.max_buffer_size)
    BY <1>2b, <1>4c, OneSaid
<1>8. (\A f \in DOMAIN F : Fine(line, F, f)) <=>
        /\ c.verbosity <= 3
        /\ Len(e.messages) <= 128
        /\ Either(c.proto_path, "", "proto") \in DOMAIN realpath
        /\ e.dbpath \in DOMAIN realpath
    BY <1>3, <1>11, <1>12, <1>13, <1>14, <1>15, <1>16, <1>17, <1>18, <1>19, <1>20, <1>21, <1>22
<1>9. Accepts(F, line) <=>
        /\ c.verbosity <= 3
        /\ Len(e.messages) <= 128
        /\ Either(c.proto_path, "", "proto") \in DOMAIN realpath
        /\ e.dbpath \in DOMAIN realpath
    BY <1>7, <1>8
<1>41. Heeds(line, "write_lmdb", "dbpath", e.dbpath)
    BY <1>6a, <1>4b, <1>19, HeedsPath
<1>42. Heeds(line, "write_lmdb", "messages", e.messages)
    BY <1>6a, <1>4a, <1>12, HeedsMany
<1>43. Heeds(line, "write_lmdb", "proto_path", c.proto_path)
    <2>1. ~Lost("write_lmdb", "proto_path", c.proto_path) => Holds(line, F, "proto_path",
            realpath[c.proto_path])
        BY <1>18 DEF Lost, Either, FileMode, NoArgs
    <2> QED BY <1>6a, <1>4b, <2>1, HeedsPath
<1>44. Heeds(line, "write_lmdb", "bus_out", c.bus_out)
    BY <1>6a, <1>4a, <1>11, HeedsOne
<1>45. Heeds(line, "write_lmdb", "max_buffer_size", c.max_buffer_size)
    BY <1>6b, <1>4c, <1>22, HeedsOne
<1>46. Heeds(line, "write_lmdb", "verbosity", c.verbosity)
    BY <1>6b, <1>4b, <1>17, HeedsCount
<1>47. Heeds(line, "write_lmdb", "max_file_descriptors", c.max_file_descriptors)
    <2>1. ~Lost("write_lmdb", "max_file_descriptors", c.max_file_descriptors) => Holds(line, F,
            "max_fd", c.max_file_descriptors)
        BY <1>16 DEF Lost
    <2> QED BY <1>6b, <1>4b, <2>1, HeedsOne
<1> QED BY <1>9, <1>41, <1>42, <1>43, <1>44, <1>45, <1>46, <1>47 DEF line, F

\* What handlerpq makes of that line: when it accepts it, and the settings that its
\* Config holds.
LEMMA PqConfig ==
    ASSUME NEW e, NEW c, c.verbosity \in Nat, IsList(e.messages)
    PROVE  LET line == CfgWritePq(e, c)
               F == handlerpq
           IN  /\ Accepts(F, line) <=>
                     /\ c.verbosity <= 3
                     /\ Len(e.messages) <= 128
                     /\ Either(c.proto_path, "", "proto") \in DOMAIN realpath
               /\ Heeds(line, "write_pq", "user", e.user)
               /\ Heeds(line, "write_pq", "password", e.password)
               /\ Heeds(line, "write_pq", "scheme", e.scheme)
               /\ Heeds(line, "write_pq", "host", e.host)
               /\ Heeds(line, "write_pq", "port", e.port)
               /\ Heeds(line, "write_pq", "messages", e.messages)
               /\ Heeds(line, "write_pq", "proto_path", c.proto_path)
               /\ Heeds(line, "write_pq", "bus_out", c.bus_out)
               /\ Heeds(line, "write_pq", "max_buffer_size", c.max_buffer_size)
               /\ Heeds(line, "write_pq", "verbosity", c.verbosity)
<1> DEFINE line == CfgWritePq(e, c)
           F == handlerpq
           O == {"--user", "--password", "--database", "--host", "--port", "-a", "-v", "-i", "-p", "-b"}
<1>1. \A o : o \notin O => Occurrences(line, o) = NoArgs
    BY PqLine
<1>2a. /\ Line(line)
       /\ Names(Occurrences(line, "--user"), e.user)
       /\ Names(Occurrences(line, "--password"), e.password)
       /\ Names(Occurrences(line, "--database"), e.scheme)
       /\ Names(Occurrences(line, "--host"), e.host)
    BY PqLine
<1>2b. /\ Says(Occurrences(line, "--port"), DatabasePort, e.port)
       /\ Enumerates(Occurrences(line, "-a"), e.messages)
       /\ Len(Occurrences(line, "-v")) = c.verbosity
       /\ Says(Occurrences(line, "-i"), MessageBus, c.bus_out)
       /\ Says(Occurrences(line, "-p"), "proto", Either(c.proto_path, "", "proto"))
    BY PqLine
<1>2c. /\ Says(Occurrences(line, "-b"), BufferSize, c.max_buffer_size)
    BY PqLine
<1>3. DOMAIN F = {"message_url", "allowed_messages", "retries", "retry_delay", "daemonize",
        "verbosity", "proto_path", "dbconn", "dbuser", "dbname", "dbpassword", "dbhost", "dbport",
        "dboptionsfile", "dbsocket", "dbcharset", "dbclientflags", "mode", "format_number",
        "buffer_size", "tableAliases", "fieldAliases", "properties", "sql_dialect"}
    BY DEF handlerpq
<1>4a. /\ Field(F, "message_url", One("-i", MessageBus))
       /\ Field(F, "allowed_messages", Many("-a", 128, NoArgs))
       /\ Field(F, "retries", One("-r", 0))
       /\ Field(F, "retry_delay", One("-y", 60))
       /\ Field(F, "daemonize", Count("-d", 1))
    BY DEF handlerpq, Field, BufferSize, DatabasePort, NoArgs
<1>4b. /\ Field(F, "verbosity", Count("-v", 3))
       /\ Field(F, "proto_path", Path("-p", "proto"))
       /\ Field(F, "dbconn", One("--conninfo", ""))
       /\ Field(F, "dbuser", One("--user", ""))
       /\ Field(F, "dbname", One("--database", ""))
    BY DEF handlerpq, Field, BufferSize, DatabasePort, NoArgs
<1>4c. /\ Field(F, "dbpassword", One("--password", ""))
       /\ Field(F, "dbhost", One("--host", "localhost"))
       /\ Field(F, "dbport", One("--port", DatabasePort))
       /\ Field(F, "dboptionsfile", One("--options-file", ""))
       /\ Field(F, "dbsocket", One("--dbsocket", ""))
    BY DEF handlerpq, Field, BufferSize, DatabasePort, NoArgs
<1>4d. /\ Field(F, "dbcharset", One("--dbcharset", "utf8"))
       /\ Field(F, "dbclientflags", One("--dbclientflags", 0))
       /\ Field(F, "mode", One("-m", 4))
       /\ Field(F, "format_number", One("--format", 0))
       /\ Field(F, "buffer_size", One("-b", BufferSize))
    BY DEF handlerpq, Field, BufferSize, DatabasePort, NoArgs
<1>4e. /\ Field(F, "tableAliases", Many("-T", 100, NoArgs))
       /\ Field(F, "fieldAliases", Many("-F", 100, NoArgs))
       /\ Field(F, "properties", Many("-P", 100, NoArgs))
       /\ Field(F, "sql_dialect", One("--sql-dialect", 0))
    BY DEF handlerpq, Field, BufferSize, DatabasePort, NoArgs
<1>6a. /\ Meant("write_pq", "user", "dbuser", F)
       /\ Meant("write_pq", "password", "dbpassword", F)
       /\ Meant("write_pq", "scheme", "dbname", F)
       /\ Meant("write_pq", "host", "dbhost", F)
    BY DEF Meant, Options, Means
<1>6b. /\ Meant("write_pq", "port", "dbport", F)
       /\ Meant("write_pq", "messages", "allowed_messages", F)
       /\ Meant("write_pq", "proto_path", "proto_path", F)
       /\ Meant("write_pq", "bus_out", "message_url", F)
    BY DEF Meant, Options, Means
<1>6c. /\ Meant("write_pq", "max_buffer_size", "buffer_size", F)
       /\ Meant("write_pq", "verbosity", "verbosity", F)
    BY DEF Meant, Options, Means
<1> HIDE DEF line, F
<1>5a. /\ Occurrences(line, "-r") = NoArgs
       /\ Occurrences(line, "-y") = NoArgs
       /\ Occurrences(line, "-d") = NoArgs
       /\ Occurrences(line, "--conninfo") = NoArgs
       /\ Occurrences(line, "--options-file") = NoArgs
    BY <1>1
<1>5b. /\ Occurrences(line, "--dbsocket") = NoArgs
       /\ Occurrences(line, "--dbcharset") = NoArgs
       /\ Occurrences(line, "--dbclientflags") = NoArgs
       /\ Occurrences(line, "-m") = NoArgs
       /\ Occurrences(line, "--format") = NoArgs
    BY <1>1
<1>5c. /\ Occurrences(line, "-T") = NoArgs
       /\ Occurrences(line, "-F") = NoArgs
       /\ Occurrences(line, "-P") = NoArgs
       /\ Occurrences(line, "--sql-dialect") = NoArgs
    BY <1>1
<1>6. \A o \in O : \E f \in DOMAIN F : F[f].opt = o
    <2>1. /\ HasOption(F, "dbuser", "--user")
          /\ HasOption(F, "dbpassword", "--password")
          /\ HasOption(F, "dbname", "--database")
          /\ HasOption(F, "dbhost", "--host")
          /\ HasOption(F, "dbport", "--port")
          /\ HasOption(F, "allowed_messages", "-a")
          /\ HasOption(F, "verbosity", "-v")
          /\ HasOption(F, "message_url", "-i")
          /\ HasOption(F, "proto_path", "-p")
          /\ HasOption(F, "buffer_size", "-b")
        BY <1>4a, <1>4b, <1>4c, <1>4d, <1>4e, CountOption, ManyOption, OneOption, PathOption
    <2> QED BY <2>1 DEF HasOption
<1> HIDE DEF O
<1>7. Accepts(F, line) <=> \A f \in DOMAIN F : Fine(line, F, f)
    BY <1>1, <1>2a, <1>6, AcceptsLine
<1>11. Fine(line, F, "message_url") /\ Holds(line, F, "message_url", c.bus_out)
    BY <1>2b, <1>4a, OneSaid
<1>12. (Fine(line, F, "allowed_messages") <=> Len(e.messages) <= 128) /\ Holds(line, F,
        "allowed_messages", e.messages)
    <2>1. Field(F, "allowed_messages", Many("-a", 128, NoArgs))
        BY <1>4a
    <2>2. Enumerates(Occurrences(line, "-a"), e.messages)
        BY <1>2b
    <2> QED BY <2>1, <2>2, ManyListed, SMTT(30)
<1>13. Fine(line, F, "retries")
    BY <1>5a, <1>4a, OneAbsent
<1>14. Fine(line, F, "retry_delay")
    BY <1>5a, <1>4a, OneAbsent
<1>15. Fine(line, F, "daemonize")
    BY <1>5a, <1>4a, CountAbsent
<1>16. (Fine(line, F, "verbosity") <=> c.verbosity <= 3) /\ Holds(line, F, "verbosity", c.verbosity)
    BY <1>2b, <1>4b, Counted
<1>17. (Fine(line, F, "proto_path") <=> Either(c.proto_path, "",
        "proto") \in DOMAIN realpath) /\ Holds(line, F, "proto_path", realpath[Either(c.proto_path, "",
        "proto")])
    BY <1>2b, <1>4b, PathSaid
<1>18. Fine(line, F, "dbconn")
    BY <1>5a, <1>4b, OneAbsent
<1>19. Fine(line, F, "dbuser") /\ Holds(line, F, "dbuser", e.user)
    BY <1>2a, <1>4b, OneNamed
<1>20. Fine(line, F, "dbname") /\ Holds(line, F, "dbname", e.scheme)
    BY <1>2a, <1>4b, OneNamed
<1>21. Fine(line, F, "dbpassword") /\ Holds(line, F, "dbpassword", e.password)
    BY <1>2a, <1>4c, OneNamed
<1>22. Fine(line, F, "dbhost") /\ Holds(line, F, "dbhost", e.host)
    BY <1>2a, <1>4c, OneNamed
<1>23. Fine(line, F, "dbport") /\ Holds(line, F, "dbport", e.port)
    BY <1>2b, <1>4c, OneSaid
<1>24. Fine(line, F, "dboptionsfile")
    BY <1>5a, <1>4c, OneAbsent
<1>25. Fine(line, F, "dbsocket")
    BY <1>5b, <1>4c, OneAbsent
<1>26. Fine(line, F, "dbcharset")
    BY <1>5b, <1>4d, OneAbsent
<1>27. Fine(line, F, "dbclientflags")
    BY <1>5b, <1>4d, OneAbsent
<1>28. Fine(line, F, "mode")
    BY <1>5b, <1>4d, OneAbsent
<1>29. Fine(line, F, "format_number")
    BY <1>5b, <1>4d, OneAbsent
<1>30. Fine(line, F, "buffer_size") /\ Holds(line, F, "buffer_size", c.max_buffer_size)
    BY <1>2c, <1>4d, OneSaid
<1>31. Fine(line, F, "tableAliases")
    BY <1>5c, <1>4e, ManyAbsent
<1>32. Fine(line, F, "fieldAliases")
    BY <1>5c, <1>4e, ManyAbsent
<1>33. Fine(line, F, "properties")
    BY <1>5c, <1>4e, ManyAbsent
<1>34. Fine(line, F, "sql_dialect")
    BY <1>5c, <1>4e, OneAbsent
<1>8. (\A f \in DOMAIN F : Fine(line, F, f)) <=>
        /\ c.verbosity <= 3
        /\ Len(e.messages) <= 128
        /\ Either(c.proto_path, "", "proto") \in DOMAIN realpath
    BY <1>3, <1>11, <1>12, <1>13, <1>14, <1>15, <1>16, <1>17, <1>18, <1>19, <1>20, <1>21, <1>22, <1>23,
       <1>24, <1>25, <1>26, <1>27, <1>28, <1>29, <1>30, <1>31, <1>32, <1>33, <1>34
<1>9. Accepts(F, line) <=>
        /\ c.verbosity <= 3
        /\ Len(e.messages) <= 128
        /\ Either(c.proto_path, "", "proto") \in DOMAIN realpath
    BY <1>7, <1>8
<1>41. Heeds(line, "write_pq", "user", e.user)
    BY <1>6a, <1>4b, <1>19, HeedsOne
<1>42. Heeds(line, "write_pq", "password", e.password)
    BY <1>6a, <1>4c, <1>21, HeedsOne
<1>43. Heeds(line, "write_pq", "scheme", e.scheme)
    BY <1>6a, <1>4b, <1>20, HeedsOne
<1>44. Heeds(line, "write_pq", "host", e.host)
    BY <1>6a, <1>4c, <1>22, HeedsOne
<1>45. Heeds(line, "write_pq", "port", e.port)
    BY <1>6b, <1>4c, <1>23, HeedsOne
<1>46. Heeds(line, "write_pq", "messages", e.messages)
    BY <1>6b, <1>4a, <1>12, HeedsMany
<1>47. Heeds(line, "write_pq", "proto_path", c.proto_path)
    <2>1. ~Lost("write_pq", "proto_path", c.proto_path) => Holds(line, F, "proto_path",
            realpath[c.proto_path])
        BY <1>17 DEF Lost, Either, FileMode, NoArgs
    <2> QED BY <1>6b, <1>4b, <2>1, HeedsPath
<1>48. Heeds(line, "write_pq", "bus_out", c.bus_out)
    BY <1>6b, <1>4a, <1>11, HeedsOne
<1>49. Heeds(line, "write_pq", "max_buffer_size", c.max_buffer_size)
    BY <1>6c, <1>4d, <1>30, HeedsOne
<1>50. Heeds(line, "write_pq", "verbosity", c.verbosity)
    BY <1>6c, <1>4b, <1>16, HeedsCount
<1> QED BY <1>9, <1>41, <1>42, <1>43, <1>44, <1>45, <1>46, <1>47, <1>48, <1>49, <1>50 DEF line, F

\* What handler_fcm makes of that line: when it accepts it, and the settings that its
\* Config holds.
LEMMA FcmConfig ==
    ASSUME NEW e, NEW c, c.verbosity \in Nat, IsList(e.messages), e.key \notin {"", DEF_SERVER_KEY},
            e.imei = "imei"
    PROVE  LET line == CfgWriteFcm(e, c)
               F == handler_fcm
           IN  /\ Accepts(F, line) <=>
                     /\ c.verbosity <= 3
                     /\ Len(e.messages) <= 128
                     /\ Either(c.proto_path, "", "proto") \in DOMAIN realpath
               /\ Heeds(line, "write_fcm", "key", e.key)
               /\ Heeds(line, "write_fcm", "imei", e.imei)
               /\ Heeds(line, "write_fcm", "user", e.user)
               /\ Heeds(line, "write_fcm", "password", e.password)
               /\ Heeds(line, "write_fcm", "scheme", e.scheme)
               /\ Heeds(line, "write_fcm", "host", e.host)
               /\ Heeds(line, "write_fcm", "port", e.port)
               /\ Heeds(line, "write_fcm", "messages", e.messages)
               /\ Heeds(line, "write_fcm", "proto_path", c.proto_path)
               /\ Heeds(line, "write_fcm", "bus_out", c.bus_out)
               /\ Heeds(line, "write_fcm", "max_buffer_size", c.max_buffer_size)
               /\ Heeds(line, "write_fcm", "verbosity", c.verbosity)
<1> DEFINE line == CfgWriteFcm(e, c)
           F == handler_fcm
           O == {"--key", "--imei", "--user", "--password", "--database", "--host", "--port", "-a",
                   "-v", "-i", "-p", "-b"}
<1>1. \A o : o \notin O => Occurrences(line, o) = NoArgs
    BY FcmLine
<1>2a. /\ Line(line)
       /\ Names(Occurrences(line, "--key"), e.key)
       /\ Names(Occurrences(line, "--imei"), e.imei)
    BY FcmLine
<1>2b. /\ Names(Occurrences(line, "--user"), e.user)
       /\ Names(Occurrences(line, "--password"), e.password)
       /\ Names(Occurrences(line, "--database"), e.scheme)
    BY FcmLine
<1>2c. /\ Names(Occurrences(line, "--host"), e.host)
       /\ Says(Occurrences(line, "--port"), DatabasePort, e.port)
       /\ Enumerates(Occurrences(line, "-a"), e.messages)
    BY FcmLine
<1>2d. /\ Len(Occurrences(line, "-v")) = c.verbosity
       /\ Says(Occurrences(line, "-i"), MessageBus, c.bus_out)
       /\ Says(Occurrences(line, "-p"), "proto", Either(c.proto_path, "", "proto"))
    BY FcmLine
<1>2e. /\ Says(Occurrences(line, "-b"), BufferSize, c.max_buffer_size)
    BY FcmLine
<1>3. DOMAIN F = {"message_url", "allowed_messages", "retries", "retry_delay", "daemonize",
        "verbosity", "proto_path", "server_key", "imei_field_name", "dbconn", "dbuser", "dbname",
        "dbpassword", "dbhost", "dbport", "dboptionsfile", "dbsocket", "dbcharset", "dbclientflags",
        "format_number", "buffer_size"}
    BY DEF handler_fcm
<1>4a. /\ Field(F, "message_url", One("-i", MessageBus))
       /\ Field(F, "allowed_messages", Many("-a", 128, NoArgs))
       /\ Field(F, "retries", One("-r", 0))
  <2>1. Field(F, "message_url", One("-i", MessageBus))
    BY DEF handler_fcm, Field
  <2>2. Field(F, "allowed_messages", Many("-a", 128, NoArgs))
    BY DEF handler_fcm, Field, NoArgs
  <2>3. Field(F, "retries", One("-r", 0))
    BY DEF handler_fcm, Field
  <2>4. QED
    BY <2>1, <2>2, <2>3
<1>4b. /\ Field(F, "retry_delay", One("-y", 60))
       /\ Field(F, "daemonize", Count("-d", 1))
       /\ Field(F, "verbosity", Count("-v", 3))
  <2>1. Field(F, "retry_delay", One("-y", 60))
    BY DEF handler_fcm, Field
  <2>2. Field(F, "daemonize", Count("-d", 1))
    BY DEF handler_fcm, Field
  <2>3. Field(F, "verbosity", Count("-v", 3))
    BY DEF handler_fcm, Field
  <2>4. QED
    BY <2>1, <2>2, <2>3
<1>4c. /\ Field(F, "proto_path", Path("-p", "proto"))
       /\ Field(F, "server_key", One("--key", DEF_SERVER_KEY))
       /\ Field(F, "imei_field_name", One("--imei", "imei"))
  <2>1. Field(F, "proto_path", Path("-p", "proto"))
    BY DEF handler_fcm, Field
  <2>2. Field(F, "server_key", One("--key", DEF_SERVER_KEY))
    BY DEF handler_fcm, Field
  <2>3. Field(F, "imei_field_name", One("--imei", "imei"))
    BY DEF handler_fcm, Field
  <2>4. QED
    BY <2>1, <2>2, <2>3
<1>4d. /\ Field(F, "dbconn", One("--conninfo", ""))
       /\ Field(F, "dbuser", One("--user", ""))
       /\ Field(F, "dbname", One("--database", ""))
  <2>1. Field(F, "dbconn", One("--conninfo", ""))
    BY DEF handler_fcm, Field
  <2>2. Field(F, "dbuser", One("--user", ""))
    BY DEF handler_fcm, Field
  <2>3. Field(F, "dbname", One("--database", ""))
    BY DEF handler_fcm, Field
  <2>4. QED
    BY <2>1, <2>2, <2>3
<1>4e. /\ Field(F, "dbpassword", One("--password", ""))
       /\ Field(F, "dbhost", One("--host", "localhost"))
       /\ Field(F, "dbport", One("--port", DatabasePort))
  <2>1. Field(F, "dbpassword", One("--password", ""))
    BY DEF handler_fcm, Field
  <2>2. Field(F, "dbhost", One("--host", "localhost"))
    BY DEF handler_fcm, Field
  <2>3. Field(F, "dbport", One("--port", DatabasePort))
    BY DEF handler_fcm, Field, DatabasePort
  <2>4. QED
    BY <2>1, <2>2, <2>3
<1>4f. /\ Field(F, "dboptionsfile", One("--options-file", ""))
       /\ Field(F, "dbsocket", One("--dbsocket", ""))
       /\ Field(F, "dbcharset", One("--dbcharset", "utf8"))
  <2>1. Field(F, "dboptionsfile", One("--options-file", ""))
    BY DEF handler_fcm, Field
  <2>2. Field(F, "dbsocket", One("--dbsocket", ""))
    BY DEF handler_fcm, Field
  <2>3. Field(F, "dbcharset", One("--dbcharset", "utf8"))
    BY DEF handler_fcm, Field
  <2>4. QED
    BY <2>1, <2>2, <2>3
<1>4g. /\ Field(F, "dbclientflags", One("--dbclientflags", 0))
       /\ Field(F, "format_number", One("--format", 0))
       /\ Field(F, "buffer_size", One("-b", BufferSize))
  <2>1. Field(F, "dbclientflags", One("--dbclientflags", 0))
    BY DEF handler_fcm, Field
  <2>2. Field(F, "format_number", One("--format", 0))
    BY DEF handler_fcm, Field
  <2>3. Field(F, "buffer_size", One("-b", BufferSize))
    BY DEF handler_fcm, Field, BufferSize
  <2>4. QED
    BY <2>1, <2>2, <2>3
<1>6a. /\ Meant("write_fcm", "key", "server_key", F)
       /\ Meant("write_fcm", "imei", "imei_field_name", F)
       /\ Meant("write_fcm", "user", "dbuser", F)
       /\ Meant("write_fcm", "password", "dbpassword", F)
    BY DEF Meant, Options, Means
<1>6b. /\ Meant("write_fcm", "scheme", "dbname", F)
       /\ Meant("write_fcm", "host", "dbhost", F)
       /\ Meant("write_fcm", "port", "dbport", F)
       /\ Meant("write_fcm", "messages", "allowed_messages", F)
    BY DEF Meant, Options, Means
<1>6c. /\ Meant("write_fcm", "proto_path", "proto_path", F)
       /\ Meant("write_fcm", "bus_out", "message_url", F)
       /\ Meant("write_fcm", "max_buffer_size", "buffer_size", F)
       /\ Meant("write_fcm", "verbosity", "verbosity", F)
    BY DEF Meant, Options, Means
<1> HIDE DEF line, F
<1>5a. /\ Occurrences(line, "-r") = NoArgs
       /\ Occurrences(line, "-y") = NoArgs
       /\ Occurrences(line, "-d") = NoArgs
    BY <1>1
<1>5b. /\ Occurrences(line, "--conninfo") = NoArgs
       /\ Occurrences(line, "--options-file") = NoArgs
       /\ Occurrences(line, "--dbsocket") = NoArgs
    BY <1>1
<1>5c. /\ Occurrences(line, "--dbcharset") = NoArgs
       /\ Occurrences(line, "--dbclientflags") = NoArgs
       /\ Occurrences(line, "--format") = NoArgs
    BY <1>1
<1>6. \A o \in O : \E f \in DOMAIN F : F[f].opt = o
    <2>1. /\ HasOption(F, "server_key", "--key")
          /\ HasOption(F, "imei_field_name", "--imei")
          /\ HasOption(F, "dbuser", "--user")
          /\ HasOption(F, "dbpassword", "--password")
          /\ HasOption(F, "dbname", "--database")
          /\ HasOption(F, "dbhost", "--host")
          /\ HasOption(F, "dbport", "--port")
          /\ HasOption(F, "allowed_messages", "-a")
          /\ HasOption(F, "verbosity", "-v")
          /\ HasOption(F, "message_url", "-i")
          /\ HasOption(F, "proto_path", "-p")
          /\ HasOption(F, "buffer_size", "-b")
        BY <1>4a, <1>4b, <1>4c, <1>4d, <1>4e, <1>4f, <1>4g, CountOption, ManyOption, OneOption,
           PathOption
    <2> QED BY <2>1 DEF HasOption
<1> HIDE DEF O
<1>7. Accepts(F, line) <=> \A f \in DOMAIN F : Fine(line, F, f)
    BY <1>1, <1>2a, <1>6, AcceptsLine
<1>11. Fine(line, F, "message_url") /\ Holds(line, F, "message_url", c.bus_out)
    BY <1>2d, <1>4a, OneSaid
<1>12. (Fine(line, F, "allowed_messages") <=> Len(e.messages) <= 128) /\ Holds(line, F,
        "allowed_messages", e.messages)
    <2>1. Field(F, "allowed_messages", Many("-a", 128, NoArgs))
        BY <1>4a
    <2>2. Enumerates(Occurrences(line, "-a"), e.messages)
        BY <1>2c
    <2>3. PICK n \in Nat : n = 128
        OBVIOUS
    <2>4. Field(F, "allowed_messages", Many("-a", n, NoArgs)) /\ IsList(e.messages)
        BY <2>1, <2>3
    <2>5. (Fine(line, F, "allowed_messages") <=> Len(e.messages) <= n) /\ Holds(line, F,
            "allowed_messages", e.messages)
        BY <2>2, <2>4, ManyListed, Zenon
    <2> QED BY <2>3, <2>5, Zenon
<1>13. Fine(line, F, "retries")
    BY <1>5a, <1>4a, OneAbsent
<1>14. Fine(line, F, "retry_delay")
    BY <1>5a, <1>4b, OneAbsent
<1>15. Fine(line, F, "daemonize")
    BY <1>5a, <1>4b, CountAbsent
<1>16. (Fine(line, F, "verbosity") <=> c.verbosity <= 3) /\ Holds(line, F, "verbosity", c.verbosity)
    BY <1>2d, <1>4b, Counted
<1>17. (Fine(line, F, "proto_path") <=> Either(c.proto_path, "",
        "proto") \in DOMAIN realpath) /\ Holds(line, F, "proto_path", realpath[Either(c.proto_path, "",
        "proto")])
    BY <1>2d, <1>4c, PathSaid
<1>18. Fine(line, F, "server_key") /\ Holds(line, F, "server_key", e.key)
    BY <1>2a, <1>4c, OneNamed
<1>19. Fine(line, F, "imei_field_name") /\ Holds(line, F, "imei_field_name", e.imei)
    BY <1>2a, <1>4c, OneNamed
<1>20. Fine(line, F, "dbconn")
    BY <1>5b, <1>4d, OneAbsent
<1>21. Fine(line, F, "dbuser") /\ Holds(line, F, "dbuser", e.user)
    BY <1>2b, <1>4d, OneNamed
<1>22. Fine(line, F, "dbname") /\ Holds(line, F, "dbname", e.scheme)
    BY <1>2b, <1>4d, OneNamed
<1>23. Fine(line, F, "dbpassword") /\ Holds(line, F, "dbpassword", e.password)
    BY <1>2b, <1>4e, OneNamed
<1>24. Fine(line, F, "dbhost") /\ Holds(line, F, "dbhost", e.host)
    BY <1>2c, <1>4e, OneNamed
<1>25. Fine(line, F, "dbport") /\ Holds(line, F, "dbport", e.port)
    BY <1>2c, <1>4e, OneSaid
<1>26. Fine(line, F, "dboptionsfile")
    BY <1>5b, <1>4f, OneAbsent
<1>27. Fine(line, F, "dbsocket")
    BY <1>5b, <1>4f, OneAbsent
<1>28. Fine(line, F, "dbcharset")
    BY <1>5c, <1>4f, OneAbsent
<1>29. Fine(line, F, "dbclientflags")
    BY <1>5c, <1>4g, OneAbsent
<1>30. Fine(line, F, "format_number")
    BY <1>5c, <1>4g, OneAbsent
<1>31. Fine(line, F, "buffer_size") /\ Holds(line, F, "buffer_size", c.max_buffer_size)
    BY <1>2e, <1>4g, OneSaid
<1>8. (\A f \in DOMAIN F : Fine(line, F, f)) <=>
        /\ c.verbosity <= 3
        /\ Len(e.messages) <= 128
        /\ Either(c.proto_path, "", "proto") \in DOMAIN realpath
    BY <1>3, <1>11, <1>12, <1>13, <1>14, <1>15, <1>16, <1>17, <1>18, <1>19, <1>20, <1>21, <1>22, <1>23,
       <1>24, <1>25, <1>26, <1>27, <1>28, <1>29, <1>30, <1>31
<1>9. Accepts(F, line) <=>
        /\ c.verbosity <= 3
        /\ Len(e.messages) <= 128
        /\ Either(c.proto_path, "", "proto") \in DOMAIN realpath
    BY <1>7, <1>8
<1>41. Heeds(line, "write_fcm", "key", e.key)
    BY <1>6a, <1>4c, <1>18, HeedsOne
<1>42. Heeds(line, "write_fcm", "imei", e.imei)
    BY <1>6a, <1>4c, <1>19, HeedsOne
<1>43. Heeds(line, "write_fcm", "user", e.user)
    BY <1>6a, <1>4d, <1>21, HeedsOne
<1>44. Heeds(line, "write_fcm", "password", e.password)
    BY <1>6a, <1>4e, <1>23, HeedsOne
<1>45. Heeds(line, "write_fcm", "scheme", e.scheme)
    BY <1>6b, <1>4d, <1>22, HeedsOne
<1>46. Heeds(line, "write_fcm", "host", e.host)
    BY <1>6b, <1>4e, <1>24, HeedsOne
<1>47. Heeds(line, "write_fcm", "port", e.port)
    BY <1>6b, <1>4e, <1>25, HeedsOne
<1>48. Heeds(line, "write_fcm", "messages", e.messages)
    BY <1>6b, <1>4a, <1>12, HeedsMany
<1>49. Heeds(line, "write_fcm", "proto_path", c.proto_path)
    <2>1. ~Lost("write_fcm", "proto_path", c.proto_path) => Holds(line, F, "proto_path",
            realpath[c.proto_path])
        BY <1>17 DEF Lost, Either, FileMode, NoArgs
    <2> QED BY <1>6c, <1>4c, <2>1, HeedsPath
<1>50. Heeds(line, "write_fcm", "bus_out", c.bus_out)
    BY <1>6c, <1>4a, <1>11, HeedsOne
<1>51. Heeds(line, "write_fcm", "max_buffer_size", c.max_buffer_size)
    BY <1>6c, <1>4g, <1>31, HeedsOne
<1>52. Heeds(line, "write_fcm", "verbosity", c.verbosity)
    BY <1>6c, <1>4b, <1>16, HeedsCount
<1> QED BY <1>9, <1>41, <1>42, <1>43, <1>44, <1>45, <1>46, <1>47, <1>48, <1>49, <1>50, <1>51,
        <1>52 DEF line, F

\* What handler_google_sheets makes of that line: when it accepts it, and the
\* settings that its Config holds.
LEMMA SheetsConfig ==
    ASSUME NEW e, NEW c, c.verbosity \in Nat, IsList(e.messages)
    PROVE  LET line == CfgWriteGoogleSheets(e, c)
               F == handler_google_sheets
           IN  /\ Accepts(F, line) <=>
                     /\ c.verbosity <= 3
                     /\ Len(e.messages) <= 128
                     /\ Either(c.proto_path, "", "proto") \in DOMAIN realpath
                     /\ e.json_service_file_name \in DOMAIN accounts
               /\ Heeds(line, "write_google_sheets", "json_service_file_name", e.json_service_file_name)
               /\ Heeds(line, "write_google_sheets", "bearer_file_name", e.bearer_file_name)
               /\ Heeds(line, "write_google_sheets", "email", e.email)
               /\ Heeds(line, "write_google_sheets", "spreadsheet", e.spreadsheet)
               /\ Heeds(line, "write_google_sheets", "sheet", e.sheet)
               /\ Heeds(line, "write_google_sheets", "messages", e.messages)
               /\ Heeds(line, "write_google_sheets", "proto_path", c.proto_path)
               /\ Heeds(line, "write_google_sheets", "bus_out", c.bus_out)
               /\ Heeds(line, "write_google_sheets", "max_buffer_size", c.max_buffer_size)
               /\ Heeds(line, "write_google_sheets", "verbosity", c.verbosity)
<1> DEFINE line == CfgWriteGoogleSheets(e, c)
           F == handler_google_sheets
           O == {"-g", "-B", "-e", "-s", "-t", "-a", "-v", "-i", "-p", "-b"}
<1>1. \A o : o \notin O => Occurrences(line, o) = NoArgs
    BY SheetsLine
<1>2a. /\ Line(line)
       /\ Names(Occurrences(line, "-g"), e.json_service_file_name)
       /\ Names(Occurrences(line, "-B"), e.bearer_file_name)
       /\ Names(Occurrences(line, "-e"), e.email)
       /\ Names(Occurrences(line, "-s"), e.spreadsheet)
    BY SheetsLine
<1>2b. /\ Names(Occurrences(line, "-t"), e.sheet)
       /\ Enumerates(Occurrences(line, "-a"), e.messages)
       /\ Len(Occurrences(line, "-v")) = c.verbosity
       /\ Says(Occurrences(line, "-i"), MessageBus, c.bus_out)
       /\ Says(Occurrences(line, "-p"), "proto", Either(c.proto_path, "", "proto"))
    BY SheetsLine
<1>2c. /\ Says(Occurrences(line, "-b"), BufferSize, c.max_buffer_size)
    BY SheetsLine
<1>3. DOMAIN F = {"proto_path", "message_url", "allowed_messages", "retries", "retry_delay",
        "daemonize", "verbosity", "mode", "json", "token_file", "subject_email", "spreadsheet",
        "sheet", "format_number", "buffer_size", "tableAliases", "fieldAliases", "properties"}
    BY DEF handler_google_sheets
<1>4a. /\ Field(F, "proto_path", Path("-p", "proto"))
       /\ Field(F, "message_url", One("-i", MessageBus))
       /\ Field(F, "allowed_messages", Many("-a", 128, NoArgs))
       /\ Field(F, "retries", One("-r", 0))
       /\ Field(F, "retry_delay", One("-y", 60))
    BY DEF handler_google_sheets, Field, BufferSize, NoArgs
<1>4b. /\ Field(F, "daemonize", Count("-d", 1))
       /\ Field(F, "verbosity", Count("-v", 3))
       /\ Field(F, "mode", One("-m", 0))
       /\ Field(F, "json", Account("-g", "cert/pkt2-sheets.json"))
       /\ Field(F, "token_file", One("-B", ".token-bearer.txt"))
    BY DEF handler_google_sheets, Field, BufferSize, NoArgs
<1>4c. /\ Field(F, "subject_email", Email("-e"))
       /\ Field(F, "spreadsheet", Required("-s"))
       /\ Field(F, "sheet", Required("-t"))
       /\ Field(F, "format_number", One("--format", 0))
       /\ Field(F, "buffer_size", One("-b", BufferSize))
    BY DEF handler_google_sheets, Field, BufferSize, NoArgs
<1>4d. /\ Field(F, "tableAliases", Many("-T", 100, NoArgs))
       /\ Field(F, "fieldAliases", Many("-F", 100, NoArgs))
       /\ Field(F, "properties", Many("-P", 100, NoArgs))
    BY DEF handler_google_sheets, Field, BufferSize, NoArgs
<1>6a. /\ Meant("write_google_sheets", "json_service_file_name", "json", F)
       /\ Meant("write_google_sheets", "bearer_file_name", "token_file", F)
       /\ Meant("write_google_sheets", "email", "subject_email", F)
       /\ Meant("write_google_sheets", "spreadsheet", "spreadsheet", F)
    BY DEF Meant, Options, Means
<1>6b. /\ Meant("write_google_sheets", "sheet", "sheet", F)
       /\ Meant("write_google_sheets", "messages", "allowed_messages", F)
       /\ Meant("write_google_sheets", "proto_path", "proto_path", F)
       /\ Meant("write_google_sheets", "bus_out", "message_url", F)
    BY DEF Meant, Options, Means
<1>6c. /\ Meant("write_google_sheets", "max_buffer_size", "buffer_size", F)
       /\ Meant("write_google_sheets", "verbosity", "verbosity", F)
    BY DEF Meant, Options, Means
<1> HIDE DEF line, F
<1>5a. /\ Occurrences(line, "-r") = NoArgs
       /\ Occurrences(line, "-y") = NoArgs
       /\ Occurrences(line, "-d") = NoArgs
       /\ Occurrences(line, "-m") = NoArgs
       /\ Occurrences(line, "--format") = NoArgs
    BY <1>1
<1>5b. /\ Occurrences(line, "-T") = NoArgs
       /\ Occurrences(line, "-F") = NoArgs
       /\ Occurrences(line, "-P") = NoArgs
    BY <1>1
<1>6. \A o \in O : \E f \in DOMAIN F : F[f].opt = o
    <2>1. /\ HasOption(F, "json", "-g")
          /\ HasOption(F, "token_file", "-B")
          /\ HasOption(F, "subject_email", "-e")
          /\ HasOption(F, "spreadsheet", "-s")
          /\ HasOption(F, "sheet", "-t")
          /\ HasOption(F, "allowed_messages", "-a")
          /\ HasOption(F, "verbosity", "-v")
          /\ HasOption(F, "message_url", "-i")
          /\ HasOption(F, "proto_path", "-p")
          /\ HasOption(F, "buffer_size", "-b")
        BY <1>4a, <1>4b, <1>4c, <1>4d, AccountOption, CountOption, EmailOption, ManyOption, OneOption,
           PathOption, RequiredOption
    <2> QED BY <2>1 DEF HasOption
<1> HIDE DEF O
<1>7. Accepts(F, line) <=> \A f \in DOMAIN F : Fine(line, F, f)
    BY <1>1, <1>2a, <1>6, AcceptsLine
<1>11. (Fine(line, F, "proto_path") <=> Either(c.proto_path, "",
        "proto") \in DOMAIN realpath) /\ Holds(line, F, "proto_path", realpath[Either(c.proto_path, "",
        "proto")])
    BY <1>2b, <1>4a, PathSaid
<1>12. Fine(line, F, "message_url") /\ Holds(line, F, "message_url", c.bus_out)
    BY <1>2b, <1>4a, OneSaid
<1>13. (Fine(line, F, "allowed_messages") <=> Len(e.messages) <= 128) /\ Holds(line, F,
        "allowed_messages", e.messages)
    <2>1. Field(F, "allowed_messages", Many("-a", 128, NoArgs))
        BY <1>4a
    <2>2. Enumerates(Occurrences(line, "-a"), e.messages)
        BY <1>2b
    <2> QED BY <2>1, <2>2, ManyListed, SMTT(30)
<1>14. Fine(line, F, "retries")
    BY <1>5a, <1>4a, OneAbsent
<1>15. Fine(line, F, "retry_delay")
    BY <1>5a, <1>4a, OneAbsent
<1>16. Fine(line, F, "daemonize")
    BY <1>5a, <1>4b, CountAbsent
<1>17. (Fine(line, F, "verbosity") <=> c.verbosity <= 3) /\ Holds(line, F, "verbosity", c.verbosity)
    BY <1>2b, <1>4b, Counted
<1>18. Fine(line, F, "mode")
    BY <1>5a, <1>4b, OneAbsent
<1>19. (Fine(line, F, "json") <=> e.json_service_file_name \in DOMAIN accounts) /\ Holds(line, F,
        "json", e.json_service_file_name)
    BY <1>2a, <1>4b, AccountNamed
<1>20. Fine(line, F, "token_file") /\ Holds(line, F, "token_file", e.bearer_file_name)
    BY <1>2a, <1>4b, OneNamed
<1>21. Fine(line, F, "subject_email") /\ (e.email # "" => Holds(line, F, "subject_email", e.email))
    BY <1>2a, <1>4c, EmailNamed
<1>22. Fine(line, F, "spreadsheet") /\ Holds(line, F, "spreadsheet", e.spreadsheet)
    BY <1>2a, <1>4c, RequiredNamed
<1>23. Fine(line, F, "sheet") /\ Holds(line, F, "sheet", e.sheet)
    BY <1>2b, <1>4c, RequiredNamed
<1>24. Fine(line, F, "format_number")
    BY <1>5a, <1>4c, OneAbsent
<1>25. Fine(line, F, "buffer_size") /\ Holds(line, F, "buffer_size", c.max_buffer_size)
    BY <1>2c, <1>4c, OneSaid
<1>26. Fine(line, F, "tableAliases")
    BY <1>5b, <1>4d, ManyAbsent
<1>27. Fine(line, F, "fieldAliases")
    BY <1>5b, <1>4d, ManyAbsent
<1>28. Fine(line, F, "properties")
    BY <1>5b, <1>4d, ManyAbsent
<1>8. (\A f \in DOMAIN F : Fine(line, F, f)) <=>
        /\ c.verbosity <= 3
        /\ Len(e.messages) <= 128
        /\ Either(c.proto_path, "", "proto") \in DOMAIN realpath
        /\ e.json_service_file_name \in DOMAIN accounts
    BY <1>3, <1>11, <1>12, <1>13, <1>14, <1>15, <1>16, <1>17, <1>18, <1>19, <1>20, <1>21, <1>22, <1>23,
       <1>24, <1>25, <1>26, <1>27, <1>28
<1>9. Accepts(F, line) <=>
        /\ c.verbosity <= 3
        /\ Len(e.messages) <= 128
        /\ Either(c.proto_path, "", "proto") \in DOMAIN realpath
        /\ e.json_service_file_name \in DOMAIN accounts
    BY <1>7, <1>8
<1>41. Heeds(line, "write_google_sheets", "json_service_file_name", e.json_service_file_name)
    BY <1>6a, <1>4b, <1>19, HeedsAccount
<1>42. Heeds(line, "write_google_sheets", "bearer_file_name", e.bearer_file_name)
    BY <1>6a, <1>4b, <1>20, HeedsOne
<1>43. Heeds(line, "write_google_sheets", "email", e.email)
    <2>1. ~Lost("write_google_sheets", "email", e.email) => Holds(line, F, "subject_email", e.email)
        BY <1>21 DEF Lost, Either, FileMode, NoArgs
    <2> QED BY <1>6a, <1>4c, <2>1, HeedsEmail
<1>44. Heeds(line, "write_google_sheets", "spreadsheet", e.spreadsheet)
    BY <1>6a, <1>4c, <1>22, HeedsRequired
<1>45. Heeds(line, "write_google_sheets", "sheet", e.sheet)
    BY <1>6b, <1>4c, <1>23, HeedsRequired
<1>46. Heeds(line, "write_google_sheets", "messages", e.messages)
    BY <1>6b, <1>4a, <1>13, HeedsMany
<1>47. Heeds(line, "write_google_sheets", "proto_path", c.proto_path)
    <2>1. ~Lost("write_google_sheets", "proto_path", c.proto_path) => Holds(line, F, "proto_path",
            realpath[c.proto_path])
        BY <1>11 DEF Lost, Either, FileMode, NoArgs
    <2> QED BY <1>6b, <1>4a, <2>1, HeedsPath
<1>48. Heeds(line, "write_google_sheets", "bus_out", c.bus_out)
    BY <1>6b, <1>4a, <1>12, HeedsOne
<1>49. Heeds(line, "write_google_sheets", "max_buffer_size", c.max_buffer_size)
    BY <1>6c, <1>4c, <1>25, HeedsOne
<1>50. Heeds(line, "write_google_sheets", "verbosity", c.verbosity)
    BY <1>6c, <1>4b, <1>17, HeedsCount
<1> QED BY <1>9, <1>41, <1>42, <1>43, <1>44, <1>45, <1>46, <1>47, <1>48, <1>49, <1>50 DEF line, F

\* What repeator makes of that line: when it accepts it, and the settings that its
\* Config holds.
LEMMA RepeatConfig ==
    ASSUME NEW e, NEW c, c.verbosity \in Nat, IsList(e.outs), e.bind \in BOOLEAN
    PROVE  LET line == CfgRepeator(e, c)
               F == repeator
           IN  /\ Accepts(F, line) <=> c.verbosity <= 3 /\ Len(e.outs) <= 100
               /\ Heeds(line, "repeators", "in", e.in)
               /\ Heeds(line, "repeators", "bind", e.bind)
               /\ Heeds(line, "repeators", "outs", e.outs)
               /\ Heeds(line, "repeators", "max_buffer_size", c.max_buffer_size)
               /\ Heeds(line, "repeators", "verbosity", c.verbosity)
<1> DEFINE line == CfgRepeator(e, c)
           F == repeator
           O == {"-i", "-s", "-o", "-v", "-b"}
<1>1. \A o : o \notin O => Occurrences(line, o) = NoArgs
    BY RepeatLine
<1>2a. /\ Line(line)
       /\ Says(Occurrences(line, "-i"), ControlBus, e.in)
       /\ Len(Occurrences(line, "-s")) = BindCount(e)
       /\ Addressed(Occurrences(line, "-o"), e.outs)
       /\ Len(Occurrences(line, "-v")) = c.verbosity
    BY RepeatLine
<1>2b. /\ Says(Occurrences(line, "-b"), BufferSize, c.max_buffer_size)
    BY RepeatLine
<1>3. DOMAIN F = {"in_url", "out_urls", "bind", "buffer_size", "retries", "retry_delay", "daemonize",
        "verbosity"}
    BY DEF repeator
<1>4a. /\ Field(F, "in_url", One("-i", ControlBus))
       /\ Field(F, "out_urls", Many("-o", 100, DefaultOuts))
       /\ Field(F, "bind", Count("-s", 1))
       /\ Field(F, "buffer_size", One("-b", BufferSize))
       /\ Field(F, "retries", One("-r", 0))
    BY DEF repeator, Field, BufferSize, DefaultOuts
<1>4b. /\ Field(F, "retry_delay", One("-y", 60))
       /\ Field(F, "daemonize", Count("-d", 1))
       /\ Field(F, "verbosity", Count("-v", 3))
    BY DEF repeator, Field, BufferSize, DefaultOuts
<1>6a. /\ Meant("repeators", "in", "in_url", F)
       /\ Meant("repeators", "bind", "bind", F)
       /\ Meant("repeators", "outs", "out_urls", F)
       /\ Meant("repeators", "max_buffer_size", "buffer_size", F)
    BY DEF Meant, Options, Means
<1>6b. /\ Meant("repeators", "verbosity", "verbosity", F)
    BY DEF Meant, Options, Means
<1> HIDE DEF line, F
<1>5a. /\ Occurrences(line, "-r") = NoArgs
       /\ Occurrences(line, "-y") = NoArgs
       /\ Occurrences(line, "-d") = NoArgs
    BY <1>1
<1>6. \A o \in O : \E f \in DOMAIN F : F[f].opt = o
    <2>1. /\ HasOption(F, "in_url", "-i")
          /\ HasOption(F, "bind", "-s")
          /\ HasOption(F, "out_urls", "-o")
          /\ HasOption(F, "verbosity", "-v")
          /\ HasOption(F, "buffer_size", "-b")
        BY <1>4a, <1>4b, CountOption, ManyOption, OneOption
    <2> QED BY <2>1 DEF HasOption
<1> HIDE DEF O
<1>7. Accepts(F, line) <=> \A f \in DOMAIN F : Fine(line, F, f)
    BY <1>1, <1>2a, <1>6, AcceptsLine
<1>11. Fine(line, F, "in_url") /\ Holds(line, F, "in_url", e.in)
    BY <1>2a, <1>4a, OneSaid
<1>12. (Fine(line, F, "out_urls") <=> Len(e.outs) <= 100) /\ (e.outs # NoArgs => Holds(line, F,
        "out_urls", e.outs))
    BY <1>2a, <1>4a, ManyAddressed
<1>13. Fine(line, F, "bind") /\ Holds(line, F, "bind", BindCount(e))
    BY <1>2a, <1>4a, Counted, BindCountType
<1>14. Fine(line, F, "buffer_size") /\ Holds(line, F, "buffer_size", c.max_buffer_size)
    BY <1>2b, <1>4a, OneSaid
<1>15. Fine(line, F, "retries")
    BY <1>5a, <1>4a, OneAbsent
<1>16. Fine(line, F, "retry_delay")
    BY <1>5a, <1>4b, OneAbsent
<1>17. Fine(line, F, "daemonize")
    BY <1>5a, <1>4b, CountAbsent
<1>18. (Fine(line, F, "verbosity") <=> c.verbosity <= 3) /\ Holds(line, F, "verbosity", c.verbosity)
    BY <1>2a, <1>4b, Counted
<1>8. (\A f \in DOMAIN F : Fine(line, F, f)) <=> c.verbosity <= 3 /\ Len(e.outs) <= 100
    BY <1>3, <1>11, <1>12, <1>13, <1>14, <1>15, <1>16, <1>17, <1>18
<1>9. Accepts(F, line) <=> c.verbosity <= 3 /\ Len(e.outs) <= 100
    BY <1>7, <1>8
<1>41. Heeds(line, "repeators", "in", e.in)
    BY <1>6a, <1>4a, <1>11, HeedsOne
<1>42. Heeds(line, "repeators", "bind", e.bind)
    BY <1>6a, <1>4a, <1>13, HeedsBind
<1>43. Heeds(line, "repeators", "outs", e.outs)
    <2>1. ~Lost("repeators", "outs", e.outs) => Holds(line, F, "out_urls", e.outs)
        BY <1>12 DEF Lost, Either, FileMode, NoArgs
    <2> QED BY <1>6a, <1>4a, <2>1, HeedsMany
<1>44. Heeds(line, "repeators", "max_buffer_size", c.max_buffer_size)
    BY <1>6a, <1>4a, <1>14, HeedsOne
<1>45. Heeds(line, "repeators", "verbosity", c.verbosity)
    BY <1>6b, <1>4b, <1>18, HeedsCount
<1> QED BY <1>9, <1>41, <1>42, <1>43, <1>44, <1>45 DEF line, F

-----------------------------------------------------------------------------
(* The programs with the command lines that init() makes.                     *)

\* An entry and the common settings make a command line that the program heeds, and
\* that it accepts if Startable says so.
Served(k, e, c) ==
    LET line == args(k, e, c) IN
    /\ Accepts(Options[k], line) => \A s \in DOMAIN Settings[k] : Heeds(line, k, s, e[s])
    /\ Accepts(Options[k], line) => \A s \in DOMAIN Means[k] \cap DOMAIN CfgCommon : Heeds(line, k, s,
          c[s])
    /\ (Program[k] \in installed /\ Accepts(Options[k], line)) <=> Startable(k, e, c)

\* An option that occurs in one of two lines occurs in both put together.
LEMMA JoinedSome ==
    ASSUME NEW s, Line(s), NEW t, Line(t), NEW o, Occurrences(s, o) # NoArgs \/ Occurrences(t,
            o) # NoArgs
    PROVE  Occurrences(Joined(s, t), o) # NoArgs
<1>1. PICK A : s \in Seq(A)
    BY DEF Line
<1>2. PICK B : t \in Seq(B)
    BY DEF Line
<1> DEFINE S == A \cup B
<1>3. s \in Seq(S) /\ t \in Seq(S)
    BY <1>1, <1>2
<1> HIDE DEF S
<1>4. Occurrences(s, o) \in Seq(S) /\ Occurrences(t, o) \in Seq(S)
    BY <1>3, OccurrencesConcat
<1>5. Occurrences(Joined(s, t), o) = Joined(Occurrences(s, o), Occurrences(t, o))
    BY <1>3, OccurrencesConcat
<1>6. ASSUME NEW a \in Seq(S), NEW b \in Seq(S), a # NoArgs \/ b # NoArgs PROVE Joined(a, b) # NoArgs
    <2>1. Len(a \o b) = Len(a) + Len(b) /\ Len(a) \in Nat /\ Len(b) \in Nat
        OBVIOUS
    <2>2. Len(a) # 0 \/ Len(b) # 0
        BY <1>6 DEF NoArgs
    <2>3. a \o b # <<>>
        BY <2>1, <2>2
    <2> QED BY <2>3 DEF Joined, NoArgs
<1> QED BY <1>4, <1>5, <1>6

\* No program has an option for arguments without one.
LEMMA StrayRefused ==
    ASSUME NEW F, NEW line, Line(line), Occurrences(line, "") # NoArgs,
            \A f \in DOMAIN F : F[f].opt # ""
    PROVE  ~Accepts(F, line)
<1>1. PICK S : line \in Seq(S)
    BY DEF Line
<1>2. PICK i \in 1..Len(line) : line[i].opt = ""
    BY <1>1, OccurrencesAll
<1> QED BY <1>2 DEF Accepts

\* A key or the name of a field that args() takes for none of its business.
LEMMA FcmStray ==
    ASSUME NEW e, NEW c, c.verbosity \in Nat, IsList(e.messages),
           e.key \in {"", DEF_SERVER_KEY} \/ e.imei # "imei"
    PROVE  ~Accepts(handler_fcm, CfgWriteFcm(e, c))
<1> DEFINE F == handler_fcm
           x == IF e.key \notin {"", DEF_SERVER_KEY} THEN Arg("--key", e.key) ELSE Stray(e.key)
           y == IF e.imei = "imei" THEN Arg("--imei", e.imei) ELSE Stray(e.imei)
           d == Database(e)
           w == CfgWrite(e, c)
           j1 == Joined(x, y)
           j2 == Joined(j1, d)
           j3 == Joined(j2, w)
<1>0. CfgWriteFcm(e, c) = j3
    BY DEF CfgWriteFcm, Joined
<1>1. Line(x) /\ (e.key \in {"", DEF_SERVER_KEY} => Occurrences(x, "") # NoArgs)
    <2>1. CASE e.key \notin {"", DEF_SERVER_KEY}
        BY <2>1, PartOf DEF Part
    <2>2. CASE e.key \in {"", DEF_SERVER_KEY}
        <3>1. x = Arg("", e.key)
            BY <2>2 DEF Stray
        <3> HIDE DEF x
        <3>2. Part(x, "") /\ x # NoArgs
            BY <3>1, PartOf, Told DEF Names
        <3> QED BY <3>2, PartAlone DEF Part
    <2> QED BY <2>1, <2>2
<1>2. Line(y) /\ (e.imei # "imei" => Occurrences(y, "") # NoArgs)
    <2>1. CASE e.imei = "imei"
        BY <2>1, PartOf DEF Part
    <2>2. CASE e.imei # "imei"
        <3>1. y = Arg("", e.imei)
            BY <2>2 DEF Stray
        <3> HIDE DEF y
        <3>2. Part(y, "") /\ y # NoArgs
            BY <3>1, PartOf, Told DEF Names
        <3> QED BY <2>2, <3>2, PartAlone DEF Part
    <2> QED BY <2>1, <2>2
<1>3. Line(d) /\ Line(w)
    BY DatabaseLine, WriteLine
<1> HIDE DEF x, y, d, w
<1>4. Line(j1) /\ Occurrences(j1, "") # NoArgs
    <2>1. Line(j1)
        BY <1>1, <1>2, TwoLines
    <2> QED BY <1>1, <1>2, <2>1, JoinedSome
<1> HIDE DEF j1
<1>5. Line(j2) /\ Occurrences(j2, "") # NoArgs
    BY <1>3, <1>4, TwoLines, JoinedSome
<1> HIDE DEF j2
<1>6. Line(j3) /\ Occurrences(j3, "") # NoArgs
    BY <1>3, <1>5, TwoLines, JoinedSome
<1> HIDE DEF j3
<1>7. DOMAIN F = {"message_url", "allowed_messages", "retries", "retry_delay", "daemonize",
        "verbosity", "proto_path", "server_key", "imei_field_name", "dbconn", "dbuser", "dbname",
        "dbpassword", "dbhost", "dbport", "dboptionsfile", "dbsocket", "dbcharset", "dbclientflags",
        "format_number", "buffer_size"}
    BY DEF handler_fcm
<1>8a. /\ HasOption(F, "message_url", "-i")
       /\ HasOption(F, "allowed_messages", "-a")
       /\ HasOption(F, "retries", "-r")
    <2>1. Field(F, "message_url", One("-i", MessageBus))
        BY DEF handler_fcm, Field, BufferSize, DatabasePort, NoArgs
    <2>2. Field(F, "allowed_messages", Many("-a", 128, NoArgs))
        BY DEF handler_fcm, Field, BufferSize, DatabasePort, NoArgs
    <2>3. Field(F, "retries", One("-r", 0))
        BY DEF handler_fcm, Field, BufferSize, DatabasePort, NoArgs
    <2> HIDE DEF F
    <2> QED BY <2>1, <2>2, <2>3, ManyOption, OneOption
<1>8b. /\ HasOption(F, "retry_delay", "-y")
       /\ HasOption(F, "daemonize", "-d")
       /\ HasOption(F, "verbosity", "-v")
    <2>1. Field(F, "retry_delay", One("-y", 60))
        BY DEF handler_fcm, Field, BufferSize, DatabasePort, NoArgs
    <2>2. Field(F, "daemonize", Count("-d", 1))
        BY DEF handler_fcm, Field, BufferSize, DatabasePort, NoArgs
    <2>3. Field(F, "verbosity", Count("-v", 3))
        BY DEF handler_fcm, Field, BufferSize, DatabasePort, NoArgs
    <2> HIDE DEF F
    <2> QED BY <2>1, <2>2, <2>3, CountOption, OneOption
<1>8c. /\ HasOption(F, "proto_path", "-p")
       /\ HasOption(F, "server_key", "--key")
       /\ HasOption(F, "imei_field_name", "--imei")
    <2>1. Field(F, "proto_path", Path("-p", "proto"))
        BY DEF handler_fcm, Field, BufferSize, DatabasePort, NoArgs
    <2>2. Field(F, "server_key", One("--key", DEF_SERVER_KEY))
        BY DEF handler_fcm, Field, BufferSize, DatabasePort, NoArgs
    <2>3. Field(F, "imei_field_name", One("--imei", "imei"))
        BY DEF handler_fcm, Field, BufferSize, DatabasePort, NoArgs
    <2> HIDE DEF F
    <2> QED BY <2>1, <2>2, <2>3, OneOption, PathOption
<1>8d. /\ HasOption(F, "dbconn", "--conninfo")
       /\ HasOption(F, "dbuser", "--user")
       /\ HasOption(F, "dbname", "--database")
    <2>1. Field(F, "dbconn", One("--conninfo", ""))
        BY DEF handler_fcm, Field, BufferSize, DatabasePort, NoArgs
    <2>2. Field(F, "dbuser", One("--user", ""))
        BY DEF handler_fcm, Field, BufferSize, DatabasePort, NoArgs
    <2>3. Field(F, "dbname", One("--database", ""))
        BY DEF handler_fcm, Field, BufferSize, DatabasePort, NoArgs
    <2> HIDE DEF F
    <2> QED BY <2>1, <2>2, <2>3, OneOption
<1>8e. /\ HasOption(F, "dbpassword", "--password")
       /\ HasOption(F, "dbhost", "--host")
       /\ HasOption(F, "dbport", "--port")
    <2>1. Field(F, "dbpassword", One("--password", ""))
        BY DEF handler_fcm, Field, BufferSize, DatabasePort, NoArgs
    <2>2. Field(F, "dbhost", One("--host", "localhost"))
        BY DEF handler_fcm, Field, BufferSize, DatabasePort, NoArgs
    <2>3. Field(F, "dbport", One("--port", DatabasePort))
        BY DEF handler_fcm, Field, BufferSize, DatabasePort, NoArgs
    <2> HIDE DEF F
    <2> QED BY <2>1, <2>2, <2>3, OneOption
<1>8f. /\ HasOption(F, "dboptionsfile", "--options-file")
       /\ HasOption(F, "dbsocket", "--dbsocket")
       /\ HasOption(F, "dbcharset", "--dbcharset")
    <2>1. Field(F, "dboptionsfile", One("--options-file", ""))
        BY DEF handler_fcm, Field, BufferSize, DatabasePort, NoArgs
    <2>2. Field(F, "dbsocket", One("--dbsocket", ""))
        BY DEF handler_fcm, Field, BufferSize, DatabasePort, NoArgs
    <2>3. Field(F, "dbcharset", One("--dbcharset", "utf8"))
        BY DEF handler_fcm, Field, BufferSize, DatabasePort, NoArgs
    <2> HIDE DEF F
    <2> QED BY <2>1, <2>2, <2>3, OneOption
<1>8g. /\ HasOption(F, "dbclientflags", "--dbclientflags")
       /\ HasOption(F, "format_number", "--format")
       /\ HasOption(F, "buffer_size", "-b")
    <2>1. Field(F, "dbclientflags", One("--dbclientflags", 0))
        BY DEF handler_fcm, Field, BufferSize, DatabasePort, NoArgs
    <2>2. Field(F, "format_number", One("--format", 0))
        BY DEF handler_fcm, Field, BufferSize, DatabasePort, NoArgs
    <2>3. Field(F, "buffer_size", One("-b", BufferSize))
        BY DEF handler_fcm, Field, BufferSize, DatabasePort, NoArgs
    <2> HIDE DEF F
    <2> QED BY <2>1, <2>2, <2>3, OneOption
<1> HIDE DEF F
<1>9. \A f \in DOMAIN F : F[f].opt # ""
    BY <1>7, <1>8a, <1>8b, <1>8c, <1>8d, <1>8e, <1>8f, <1>8g DEF HasOption
<1>10. ~Accepts(F, CfgWriteFcm(e, c))
    BY <1>0, <1>6, <1>9, StrayRefused
<1> QED BY <1>10 DEF F

\* So an entry with the common settings serves tcpreceiver right.
LEMMA TcpServed ==
    ASSUME NEW e, NEW c, c.verbosity \in Nat, IsList(e.valid_sizes)
    PROVE  Served("tcp_listeners", e, c)
<1> DEFINE line == CfgListenerTcp(e, c)
           k == "tcp_listeners"
<1>1. args(k, e, c) = line
    BY DEF args
<1>2. Options[k] = tcpreceiver
    BY DEF Options
<1>3. DOMAIN Settings[k] = {"ip", "port", "compression_type", "escape_code", "compression_offset",
        "frequence_file", "codemap_file", "valid_sizes"}
    BY DEF Settings, tcp_listeners
<1>4. DOMAIN Means[k] \cap DOMAIN CfgCommon = {"bus_in", "max_buffer_size", "max_file_descriptors",
        "verbosity"}
    BY DEF Means, CfgCommon
<1>5. Startable(k, e, c) <=> Program[k] \in installed /\ c.verbosity <= 3 /\ Len(e.valid_sizes) <= 256
    BY DEF Startable, Handlers, Either
<1> HIDE DEF line
<1>6. Accepts(tcpreceiver, line) <=> c.verbosity <= 3 /\ Len(e.valid_sizes) <= 256
    BY TcpConfig DEF line
<1>7. \A s \in DOMAIN Settings[k] : Heeds(line, k, s, e[s])
    BY <1>3, TcpConfig DEF line
<1>8. \A s \in DOMAIN Means[k] \cap DOMAIN CfgCommon : Heeds(line, k, s, c[s])
    BY <1>4, TcpConfig DEF line
<1> QED BY <1>1, <1>2, <1>5, <1>6, <1>7, <1>8 DEF Served

\* So an entry with the common settings serves mqtt_receiver right.
LEMMA MqttServed ==
    ASSUME NEW e, NEW c, c.verbosity \in Nat
    PROVE  Served("mqtt_listeners", e, c)
<1> DEFINE line == CfgListenerMqtt(e, c)
           k == "mqtt_listeners"
<1>1. args(k, e, c) = line
    BY DEF args
<1>2. Options[k] = mqtt_receiver
    BY DEF Options
<1>3. DOMAIN Settings[k] = {"client", "topic", "broker", "port", "qos", "keep_alive"}
    BY DEF Settings, mqtt_listeners
<1>4. DOMAIN Means[k] \cap DOMAIN CfgCommon = {"bus_in", "max_file_descriptors", "verbosity"}
    BY DEF Means, CfgCommon
<1>5. Startable(k, e, c) <=> Program[k] \in installed /\ c.verbosity <= 3
    BY DEF Startable, Handlers, Either
<1> HIDE DEF line
<1>6. Accepts(mqtt_receiver, line) <=> c.verbosity <= 3
    BY MqttConfig DEF line
<1>7. \A s \in DOMAIN Settings[k] : Heeds(line, k, s, e[s])
    BY <1>3, MqttConfig DEF line
<1>8. \A s \in DOMAIN Means[k] \cap DOMAIN CfgCommon : Heeds(line, k, s, c[s])
    BY <1>4, MqttConfig DEF line
<1> QED BY <1>1, <1>2, <1>5, <1>6, <1>7, <1>8 DEF Served

\* So an entry with the common settings serves freceiver right.
LEMMA FileServed ==
    ASSUME NEW e, NEW c, c.verbosity \in Nat
    PROVE  Served("file_listeners", e, c)
<1> DEFINE line == CfgListenerFile(e, c)
           k == "file_listeners"
<1>1. args(k, e, c) = line
    BY DEF args
<1>2. Options[k] = freceiver
    BY DEF Options
<1>3. DOMAIN Settings[k] = {"file", "mode"}
    BY DEF Settings, file_listeners
<1>4. DOMAIN Means[k] \cap DOMAIN CfgCommon = {"bus_in", "proto_path", "max_buffer_size",
        "max_file_descriptors", "verbosity"}
    BY DEF Means, CfgCommon
<1>5. Startable(k, e, c) <=> Program[k] \in installed /\ c.verbosity <= 3 /\ "proto" \in DOMAIN realpath
    BY DEF Startable, Handlers, Either
<1> HIDE DEF line
<1>6. Accepts(freceiver, line) <=> c.verbosity <= 3 /\ "proto" \in DOMAIN realpath
    BY FileConfig DEF line
<1>7. \A s \in DOMAIN Settings[k] : Heeds(line, k, s, e[s])
    BY <1>3, FileConfig DEF line
<1>8. \A s \in DOMAIN Means[k] \cap DOMAIN CfgCommon : Heeds(line, k, s, c[s])
    BY <1>4, FileConfig DEF line
<1> QED BY <1>1, <1>2, <1>5, <1>6, <1>7, <1>8 DEF Served

\* So an entry with the common settings serves pkt2receiver right.
LEMMA PacketServed ==
    ASSUME NEW e, NEW c, c.verbosity \in Nat, IsList(e.sizes)
    PROVE  Served("packet2message", e, c)
<1> DEFINE line == CfgPacket2Message(e, c)
           k == "packet2message"
<1>1. args(k, e, c) = line
    BY DEF args
<1>2. Options[k] = pkt2receiver
    BY DEF Options
<1>3. DOMAIN Settings[k] = {"force_message", "sizes"}
    BY DEF Settings, packet2message
<1>4. DOMAIN Means[k] \cap DOMAIN CfgCommon = {"proto_path", "bus_in", "bus_out",
        "max_file_descriptors", "max_buffer_size", "verbosity"}
    BY DEF Means, CfgCommon
<1>5. Startable(k, e, c) <=>
        /\ Program[k] \in installed
        /\ c.verbosity <= 3
        /\ Len(e.sizes) <= 128
        /\ Either(c.proto_path, "", "proto") \in DOMAIN realpath
    BY DEF Startable, Handlers, Either
<1> HIDE DEF line
<1>6. Accepts(pkt2receiver, line) <=>
        /\ c.verbosity <= 3
        /\ Len(e.sizes) <= 128
        /\ Either(c.proto_path, "", "proto") \in DOMAIN realpath
    BY PacketConfig DEF line
<1>7. \A s \in DOMAIN Settings[k] : Heeds(line, k, s, e[s])
    BY <1>3, PacketConfig DEF line
<1>8. \A s \in DOMAIN Means[k] \cap DOMAIN CfgCommon : Heeds(line, k, s, c[s])
    BY <1>4, PacketConfig DEF line
<1> QED BY <1>1, <1>2, <1>5, <1>6, <1>7, <1>8 DEF Served

\* So an entry with the common settings serves handlerline right.
LEMMA TextServed ==
    ASSUME NEW e, NEW c, c.verbosity \in Nat, IsList(e.messages), "" \notin DOMAIN realpath
    PROVE  Served("write_file", e, c)
<1> DEFINE line == CfgWriteFile(e, c)
           k == "write_file"
<1>1. args(k, e, c) = line
    BY DEF args
<1>2. Options[k] = handlerline
    BY DEF Options
<1>3. DOMAIN Settings[k] = {"file", "mode", "messages"}
    BY DEF Settings, write_file
<1>4. DOMAIN Means[k] \cap DOMAIN CfgCommon = {"proto_path", "bus_out", "max_buffer_size", "verbosity"}
    BY DEF Means, CfgCommon
<1>5. Startable(k, e, c) <=>
        /\ Program[k] \in installed
        /\ c.verbosity <= 3
        /\ Len(e.messages) <= 128
        /\ c.proto_path \in DOMAIN realpath
    BY DEF Startable, Handlers, Either
<1> HIDE DEF line
<1>6. Accepts(handlerline, line) <=>
        /\ c.verbosity <= 3
        /\ Len(e.messages) <= 128
        /\ c.proto_path \in DOMAIN realpath
    BY TextConfig DEF line
<1>7. \A s \in DOMAIN Settings[k] : Heeds(line, k, s, e[s])
    BY <1>3, TextConfig DEF line
<1>8. \A s \in DOMAIN Means[k] \cap DOMAIN CfgCommon : Heeds(line, k, s, c[s])
    BY <1>4, TextConfig DEF line
<1> QED BY <1>1, <1>2, <1>5, <1>6, <1>7, <1>8 DEF Served

\* So an entry with the common settings serves handlerlmdb right.
LEMMA LmdbServed ==
    ASSUME NEW e, NEW c, c.verbosity \in Nat, IsList(e.messages)
    PROVE  Served("write_lmdb", e, c)
<1> DEFINE line == CfgWriteLmdb(e, c)
           k == "write_lmdb"
<1>1. args(k, e, c) = line
    BY DEF args
<1>2. Options[k] = handlerlmdb
    BY DEF Options
<1>3. DOMAIN Settings[k] = {"dbpath", "messages"}
    BY DEF Settings, write_lmdb
<1>4. DOMAIN Means[k] \cap DOMAIN CfgCommon = {"proto_path", "bus_out", "max_buffer_size",
        "max_file_descriptors", "verbosity"}
    BY DEF Means, CfgCommon
<1>5. Startable(k, e, c) <=>
        /\ Program[k] \in installed
        /\ c.verbosity <= 3
        /\ Len(e.messages) <= 128
        /\ Either(c.proto_path, "", "proto") \in DOMAIN realpath
        /\ e.dbpath \in DOMAIN realpath
    BY DEF Startable, Handlers, Either
<1> HIDE DEF line
<1>6. Accepts(handlerlmdb, line) <=>
        /\ c.verbosity <= 3
        /\ Len(e.messages) <= 128
        /\ Either(c.proto_path, "", "proto") \in DOMAIN realpath
        /\ e.dbpath \in DOMAIN realpath
    BY LmdbConfig DEF line
<1>7. \A s \in DOMAIN Settings[k] : Heeds(line, k, s, e[s])
    BY <1>3, LmdbConfig DEF line
<1>8. \A s \in DOMAIN Means[k] \cap DOMAIN CfgCommon : Heeds(line, k, s, c[s])
    BY <1>4, LmdbConfig DEF line
<1> QED BY <1>1, <1>2, <1>5, <1>6, <1>7, <1>8 DEF Served

\* So an entry with the common settings serves handlerpq right.
LEMMA PqServed ==
    ASSUME NEW e, NEW c, c.verbosity \in Nat, IsList(e.messages)
    PROVE  Served("write_pq", e, c)
<1> DEFINE line == CfgWritePq(e, c)
           k == "write_pq"
<1>1. args(k, e, c) = line
    BY DEF args
<1>2. Options[k] = handlerpq
    BY DEF Options
<1>3. DOMAIN Settings[k] = {"user", "password", "scheme", "host", "port", "messages"}
    BY DEF Settings, write_pq
<1>4. DOMAIN Means[k] \cap DOMAIN CfgCommon = {"proto_path", "bus_out", "max_buffer_size", "verbosity"}
    BY DEF Means, CfgCommon
<1>5. Startable(k, e, c) <=>
        /\ Program[k] \in installed
        /\ c.verbosity <= 3
        /\ Len(e.messages) <= 128
        /\ Either(c.proto_path, "", "proto") \in DOMAIN realpath
    BY DEF Startable, Handlers, Either
<1> HIDE DEF line
<1>6. Accepts(handlerpq, line) <=>
        /\ c.verbosity <= 3
        /\ Len(e.messages) <= 128
        /\ Either(c.proto_path, "", "proto") \in DOMAIN realpath
    BY PqConfig DEF line
<1>7. \A s \in DOMAIN Settings[k] : Heeds(line, k, s, e[s])
    BY <1>3, PqConfig DEF line
<1>8. \A s \in DOMAIN Means[k] \cap DOMAIN CfgCommon : Heeds(line, k, s, c[s])
    BY <1>4, PqConfig DEF line
<1> QED BY <1>1, <1>2, <1>5, <1>6, <1>7, <1>8 DEF Served

\* So an entry with the common settings serves handler_fcm right.
LEMMA FcmServed ==
    ASSUME NEW e, NEW c, c.verbosity \in Nat, IsList(e.messages)
    PROVE  Served("write_fcm", e, c)
<1> DEFINE line == CfgWriteFcm(e, c)
           k == "write_fcm"
<1>1. args(k, e, c) = line
    BY DEF args
<1>2. Options[k] = handler_fcm
    BY DEF Options
<1>3. DOMAIN Settings[k] = {"key", "imei", "user", "password", "scheme", "host", "port", "messages"}
    BY DEF Settings, write_fcm
<1>4. DOMAIN Means[k] \cap DOMAIN CfgCommon = {"proto_path", "bus_out", "max_buffer_size", "verbosity"}
    BY DEF Means, CfgCommon
<1>5. Startable(k, e, c) <=>
        /\ Program[k] \in installed
        /\ c.verbosity <= 3
        /\ Len(e.messages) <= 128
        /\ Either(c.proto_path, "", "proto") \in DOMAIN realpath
        /\ e.key \notin {"", DEF_SERVER_KEY}
        /\ e.imei = "imei"
    BY DEF Startable, Handlers, Either
<1> HIDE DEF line
<1>6. CASE e.key \in {"", DEF_SERVER_KEY} \/ e.imei # "imei"
    <2>1. ~Accepts(handler_fcm, line)
        BY <1>6, FcmStray DEF line
    <2> QED BY <1>1, <1>2, <1>5, <1>6, <2>1 DEF Served
<1>7. CASE e.key \notin {"", DEF_SERVER_KEY} /\ e.imei = "imei"
    <2>1. Accepts(handler_fcm, line) <=>
            /\ c.verbosity <= 3
            /\ Len(e.messages) <= 128
            /\ Either(c.proto_path, "", "proto") \in DOMAIN realpath
        BY <1>7, FcmConfig DEF line
    <2>2. \A s \in DOMAIN Settings[k] : Heeds(line, k, s, e[s])
        BY <1>7, <1>3, FcmConfig DEF line
    <2>3. \A s \in DOMAIN Means[k] \cap DOMAIN CfgCommon : Heeds(line, k, s, c[s])
        BY <1>7, <1>4, FcmConfig DEF line
    <2> QED BY <1>7, <1>1, <1>2, <1>5, <2>1, <2>2, <2>3 DEF Served
<1> QED BY <1>6, <1>7

\* So an entry with the common settings serves handler_google_sheets right.
LEMMA SheetsServed ==
    ASSUME NEW e, NEW c, c.verbosity \in Nat, IsList(e.messages)
    PROVE  Served("write_google_sheets", e, c)
<1> DEFINE line == CfgWriteGoogleSheets(e, c)
           k == "write_google_sheets"
<1>1. args(k, e, c) = line
    BY DEF args
<1>2. Options[k] = handler_google_sheets
    BY DEF Options
<1>3. DOMAIN Settings[k] = {"json_service_file_name", "bearer_file_name", "email", "spreadsheet",
        "sheet", "messages"}
    BY DEF Settings, write_google_sheets
<1>4. DOMAIN Means[k] \cap DOMAIN CfgCommon = {"proto_path", "bus_out", "max_buffer_size", "verbosity"}
    BY DEF Means, CfgCommon
<1>5. Startable(k, e, c) <=>
        /\ Program[k] \in installed
        /\ c.verbosity <= 3
        /\ Len(e.messages) <= 128
        /\ Either(c.proto_path, "", "proto") \in DOMAIN realpath
        /\ e.json_service_file_name \in DOMAIN accounts
    BY DEF Startable, Handlers, Either
<1> HIDE DEF line
<1>6. Accepts(handler_google_sheets, line) <=>
        /\ c.verbosity <= 3
        /\ Len(e.messages) <= 128
        /\ Either(c.proto_path, "", "proto") \in DOMAIN realpath
        /\ e.json_service_file_name \in DOMAIN accounts
    BY SheetsConfig DEF line
<1>7. \A s \in DOMAIN Settings[k] : Heeds(line, k, s, e[s])
    BY <1>3, SheetsConfig DEF line
<1>8. \A s \in DOMAIN Means[k] \cap DOMAIN CfgCommon : Heeds(line, k, s, c[s])
    BY <1>4, SheetsConfig DEF line
<1> QED BY <1>1, <1>2, <1>5, <1>6, <1>7, <1>8 DEF Served

\* So an entry with the common settings serves repeator right.
LEMMA RepeatServed ==
    ASSUME NEW e, NEW c, c.verbosity \in Nat, IsList(e.outs), e.bind \in BOOLEAN
    PROVE  Served("repeators", e, c)
<1> DEFINE line == CfgRepeator(e, c)
           k == "repeators"
<1>1. args(k, e, c) = line
    BY DEF args
<1>2. Options[k] = repeator
    BY DEF Options
<1>3. DOMAIN Settings[k] = {"in", "bind", "outs"}
    BY DEF Settings, repeators
<1>4. DOMAIN Means[k] \cap DOMAIN CfgCommon = {"max_buffer_size", "verbosity"}
    BY DEF Means, CfgCommon
<1>5. Startable(k, e, c) <=> Program[k] \in installed /\ c.verbosity <= 3 /\ Len(e.outs) <= 100
    BY DEF Startable, Handlers, Either
<1> HIDE DEF line
<1>6. Accepts(repeator, line) <=> c.verbosity <= 3 /\ Len(e.outs) <= 100
    BY RepeatConfig DEF line
<1>7. \A s \in DOMAIN Settings[k] : Heeds(line, k, s, e[s])
    BY <1>3, RepeatConfig DEF line
<1>8. \A s \in DOMAIN Means[k] \cap DOMAIN CfgCommon : Heeds(line, k, s, c[s])
    BY <1>4, RepeatConfig DEF line
<1> QED BY <1>1, <1>2, <1>5, <1>6, <1>7, <1>8 DEF Served

-----------------------------------------------------------------------------
(* What start() finds.                                                       *)

\* An entry as load_config() leaves it.
Fits(k, e) ==
    /\ DOMAIN e = DOMAIN Settings[k]
    /\ \A t \in DOMAIN e \cap Lists : IsList(e[t])
    /\ "bind" \in DOMAIN e => e.bind \in BOOLEAN

\* The empty list is one.
LEMMA EmptyIsList == IsList(NoArgs) /\ Len(NoArgs) = 0
<1>1. <<>> \in Seq({<<>>[i] : i \in DOMAIN <<>>}) /\ Len(<<>>) = 0
    OBVIOUS
<1> QED BY <1>1 DEF IsList, NoArgs

\* The arrays of pkt2.js.
LEMMA KindsAre == Kinds = {"tcp_listeners", "mqtt_listeners", "file_listeners", "packet2message",
        "write_file", "write_lmdb", "write_pq", "write_fcm", "write_google_sheets", "repeators"}
BY DEF Kinds, Settings

\* The lists of an entry are empty without settings, and a repeater does not bind.
LEMMA DefaultsFit ==
    ASSUME NEW k \in Kinds
    PROVE  /\ \A t \in DOMAIN Settings[k] \cap Lists : Settings[k][t] = NoArgs
           /\ "bind" \in DOMAIN Settings[k] => Settings[k].bind \in BOOLEAN
<1>1. CASE k = "tcp_listeners"
    <2>1. Settings[k] = tcp_listeners
        BY <1>1 DEF Settings
    <2>2. DOMAIN tcp_listeners = {"ip", "port", "compression_type", "escape_code",
            "compression_offset", "frequence_file", "codemap_file",
            "valid_sizes"} /\ tcp_listeners.valid_sizes = NoArgs
        BY DEF tcp_listeners, NoArgs
    <2> QED BY <2>1, <2>2 DEF Lists
<1>2. CASE k = "mqtt_listeners"
    BY <1>2 DEF Settings, mqtt_listeners, Lists, NoArgs
<1>3. CASE k = "file_listeners"
    BY <1>3 DEF Settings, file_listeners, Lists, NoArgs
<1>4. CASE k = "packet2message"
    <2>1. Settings[k] = packet2message
        BY <1>4 DEF Settings
    <2>2. DOMAIN packet2message = {"force_message", "sizes"} /\ packet2message.sizes = NoArgs
        BY DEF packet2message, NoArgs
    <2> QED BY <2>1, <2>2 DEF Lists
<1>5. CASE k = "write_file"
    <2>1. Settings[k] = write_file
        BY <1>5 DEF Settings
    <2>2. DOMAIN write_file = {"file", "mode", "messages"} /\ write_file.messages = NoArgs
        BY DEF write_file, NoArgs
    <2> QED BY <2>1, <2>2 DEF Lists
<1>6. CASE k = "write_lmdb"
    <2>1. Settings[k] = write_lmdb
        BY <1>6 DEF Settings
    <2>2. DOMAIN write_lmdb = {"dbpath", "messages"} /\ write_lmdb.messages = NoArgs
        BY DEF write_lmdb, NoArgs
    <2> QED BY <2>1, <2>2 DEF Lists
<1>7. CASE k = "write_pq"
    <2>1. Settings[k] = write_pq
        BY <1>7 DEF Settings
    <2>2. DOMAIN write_pq = {"user", "password", "scheme", "host", "port",
            "messages"} /\ write_pq.messages = NoArgs
        BY DEF write_pq, NoArgs
    <2> QED BY <2>1, <2>2 DEF Lists
<1>8. CASE k = "write_fcm"
    <2>1. Settings[k] = write_fcm
        BY <1>8 DEF Settings
    <2>2. DOMAIN write_fcm = {"key", "imei", "user", "password", "scheme", "host", "port",
            "messages"} /\ write_fcm.messages = NoArgs
        BY DEF write_fcm, NoArgs
    <2> QED BY <2>1, <2>2 DEF Lists
<1>9. CASE k = "write_google_sheets"
    <2>1. Settings[k] = write_google_sheets
        BY <1>9 DEF Settings
    <2>2. DOMAIN write_google_sheets = {"json_service_file_name", "bearer_file_name", "email",
            "spreadsheet", "sheet", "messages"} /\ write_google_sheets.messages = NoArgs
        BY DEF write_google_sheets, NoArgs
    <2> QED BY <2>1, <2>2 DEF Lists
<1>10. CASE k = "repeators"
    <2>1. Settings[k] = repeators
        BY <1>10 DEF Settings
    <2>2. DOMAIN repeators = {"in", "bind", "outs"} /\ repeators.outs
            = NoArgs /\ repeators.bind \in BOOLEAN
        BY DEF repeators, NoArgs
    <2> QED BY <2>1, <2>2 DEF Lists
<1> QED BY KindsAre, <1>1, <1>2, <1>3, <1>4, <1>5, <1>6, <1>7, <1>8, <1>9, <1>10

\* If load_config() can use the globals, it can use the entries of every array.
LEMMA EntryFits ==
    ASSUME NEW g, \A s \in DOMAIN g : g[s] # Odd => Usable(s, g[s]), NEW k \in Kinds
    PROVE  /\ Len(ArrayOf(g, k)) \in Nat
           /\ \A i \in 1..Len(ArrayOf(g, k)) : Fits(k, Entry(k, ArrayOf(g, k)[i]))
<1> DEFINE a == ArrayOf(g, k)
<1>1. CASE k \in DOMAIN g /\ g[k] # Odd
    <2>1. Usable(k, a) /\ a = g[k]
        BY <1>1 DEF ArrayOf
    <2> HIDE DEF a
    <2>2. Len(a) \in Nat
        BY <2>1 DEF Usable, IsList
    <2>3. ASSUME NEW i \in 1..Len(a) PROVE Fits(k, Entry(k, a[i]))
        <3>1. PICK x : x = a[i]
            OBVIOUS
        <3>2. /\ \A t \in DOMAIN x \cap Lists : IsList(x[t])
              /\ "bind" \in DOMAIN x => x.bind \in BOOLEAN
            BY <2>1, <3>1 DEF Usable
        <3>3. PICK e : e = Entry(k, x)
            OBVIOUS
        <3>4. /\ DOMAIN e = DOMAIN Settings[k]
              /\ \A s \in DOMAIN e : e[s] = IF s \in DOMAIN x THEN x[s] ELSE Settings[k][s]
            BY <3>3 DEF Entry
        <3>5. \A t \in DOMAIN e \cap Lists : IsList(e[t])
            BY <3>2, <3>4, DefaultsFit, EmptyIsList
        <3>6. "bind" \in DOMAIN e => e.bind \in BOOLEAN
            BY <3>2, <3>4, DefaultsFit
        <3>7. Fits(k, e)
            BY <3>4, <3>5, <3>6 DEF Fits
        <3> QED BY <3>1, <3>3, <3>7
    <2> QED BY <2>2, <2>3 DEF a
<1>2. CASE ~(k \in DOMAIN g /\ g[k] # Odd)
    <2>1. a = NoArgs
        BY <1>2 DEF ArrayOf, NoArgs
    <2> HIDE DEF a
    <2>2. Len(a) = 0
        BY <2>1, EmptyIsList
    <2> QED BY <2>2 DEF a
<1> QED BY <1>1, <1>2

\* Every program is served by the command line of an entry.
LEMMA AllServed ==
    ASSUME NEW k \in Kinds, NEW e, Fits(k, e), NEW c, c.verbosity \in Nat
    PROVE  Served(k, e, c)
<1>1. CASE k = "tcp_listeners"
    <2>1. DOMAIN e = {"ip", "port", "compression_type", "escape_code", "compression_offset",
            "frequence_file", "codemap_file", "valid_sizes"}
        BY <1>1 DEF Fits, Settings, tcp_listeners
    <2>2. IsList(e.valid_sizes)
        BY <2>1 DEF Fits, Lists
    <2> QED BY <1>1, <2>2, TcpServed
<1>2. CASE k = "mqtt_listeners"
    BY <1>2, MqttServed
<1>3. CASE k = "file_listeners"
    BY <1>3, FileServed
<1>4. CASE k = "packet2message"
    <2>1. DOMAIN e = {"force_message", "sizes"}
        BY <1>4 DEF Fits, Settings, packet2message
    <2>2. IsList(e.sizes)
        BY <2>1 DEF Fits, Lists
    <2> QED BY <1>4, <2>2, PacketServed
<1>5. CASE k = "write_file"
    <2>1. DOMAIN e = {"file", "mode", "messages"}
        BY <1>5 DEF Fits, Settings, write_file
    <2>2. IsList(e.messages)
        BY <2>1 DEF Fits, Lists
    <2> QED BY <1>5, <2>2, TextServed, RealpathAssumption
<1>6. CASE k = "write_lmdb"
    <2>1. DOMAIN e = {"dbpath", "messages"}
        BY <1>6 DEF Fits, Settings, write_lmdb
    <2>2. IsList(e.messages)
        BY <2>1 DEF Fits, Lists
    <2> QED BY <1>6, <2>2, LmdbServed
<1>7. CASE k = "write_pq"
    <2>1. DOMAIN e = {"user", "password", "scheme", "host", "port", "messages"}
        BY <1>7 DEF Fits, Settings, write_pq
    <2>2. IsList(e.messages)
        BY <2>1 DEF Fits, Lists
    <2> QED BY <1>7, <2>2, PqServed
<1>8. CASE k = "write_fcm"
    <2>1. DOMAIN e = {"key", "imei", "user", "password", "scheme", "host", "port", "messages"}
        BY <1>8 DEF Fits, Settings, write_fcm
    <2>2. IsList(e.messages)
        BY <2>1 DEF Fits, Lists
    <2> QED BY <1>8, <2>2, FcmServed
<1>9. CASE k = "write_google_sheets"
    <2>1. DOMAIN e = {"json_service_file_name", "bearer_file_name", "email", "spreadsheet", "sheet",
            "messages"}
        BY <1>9 DEF Fits, Settings, write_google_sheets
    <2>2. IsList(e.messages)
        BY <2>1 DEF Fits, Lists
    <2> QED BY <1>9, <2>2, SheetsServed
<1>10. CASE k = "repeators"
    <2>1. DOMAIN e = {"in", "bind", "outs"}
        BY <1>10 DEF Fits, Settings, repeators
    <2>2. IsList(e.outs) /\ e.bind \in BOOLEAN
        BY <2>1 DEF Fits, Lists
    <2> QED BY <1>10, <2>2, RepeatServed
<1> QED BY KindsAre, <1>1, <1>2, <1>3, <1>4, <1>5, <1>6, <1>7, <1>8, <1>9, <1>10

-----------------------------------------------------------------------------
(* The loader.                                                               *)

\* duk_peval_string() of the same assignments twice is the same as once.
LEMMA EvaluateTwice ==
    ASSUME NEW g, NEW f
    PROVE  Evaluate(Evaluate(g, f), f) = Evaluate(g, f)
BY DEF Evaluate

\* load_config() stores the same common settings a second time.
LEMMA CommonTwice ==
    ASSUME NEW g, NEW c
    PROVE  Common(g, Common(g, c)) = Common(g, c)
BY DEF Common

\* What load() leaves behind has the type that init() needs.
LEMMA LoadType ==
    ASSUME TypeOK, NEW file \in Files, Load(file)
    PROVE  TypeOK'
<1>1. DOMAIN file.sets \subseteq Globals
    BY FilesAssumption
<1>2. DOMAIN global' \subseteq Globals
    BY <1>1 DEF TypeOK, Load, Evaluate
<1>3. DOMAIN cfgCommon' = DOMAIN CfgCommon
    BY DEF TypeOK, Load, Common
<1>4. DOMAIN entries' = Kinds
    BY DEF Load, Entries
<1>5. loads' \in 0..MaxLoads
    BY LoadsAssumption DEF TypeOK, Load
<1> QED BY <1>2, <1>3, <1>4, <1>5 DEF TypeOK, Load

\* load_config() can use what a file adds to globals that it can use.
LEMMA LoadReady ==
    ASSUME TypeOK, Ready, NEW file \in Files, Load(file)
    PROVE  Ready'
<1>1. \A s \in DOMAIN file.sets : file.sets[s] # Odd => Usable(s, file.sets[s])
    BY FilesAssumption
<1>2. global' = Evaluate(global, file) /\ cfgCommon' = Common(global', cfgCommon) /\ loaded' = file
    BY DEF Load
<1>3. \A s \in DOMAIN global' : global'[s] # Odd => Usable(s, global'[s])
    BY <1>1, <1>2 DEF Evaluate, Ready
<1>4. cfgCommon'.verbosity \in Nat
    <2>1. "verbosity" \in DOMAIN cfgCommon /\ cfgCommon.verbosity \in Nat
        BY DEF TypeOK, Ready, CfgCommon
    <2>2. cfgCommon'.verbosity = IF "verbosity" \in DOMAIN global' /\ global'["verbosity"] # Odd
                                 THEN global'["verbosity"] ELSE cfgCommon.verbosity
        BY <1>2, <2>1 DEF Common
    <2> QED BY <1>3, <2>1, <2>2 DEF Usable
<1>5. loaded' # NoFile
    BY <1>2, NoFileAssumption
<1>6. pc' # "watch"
    BY DEF Load
<1> QED BY <1>3, <1>4, <1>5, <1>6 DEF Ready

\* The inductive invariant holds of a loader that has loaded nothing.
LEMMA InitInvariant == Init => IInv
<1> SUFFICES ASSUME Init PROVE IInv
    OBVIOUS
<1>1. TypeOK
    BY LoadsAssumption DEF Init, TypeOK, NothingOf
<1>2. Absorbed /\ Current
    BY DEF Init, Absorbed, Current
<1>3. Ready
    <2>1. DOMAIN global = {}
        BY DEF Init
    <2>2. cfgCommon.verbosity = 0 /\ pc = "load"
        BY DEF Init, CfgCommon
    <2> QED BY <2>1, <2>2 DEF Ready
<1> QED BY <1>1, <1>2, <1>3 DEF IInv

\* Every step of the loader keeps it.
LEMMA NextInvariant == IInv /\ [Next]_vars => IInv'
<1> SUFFICES ASSUME IInv, [Next]_vars PROVE IInv'
    OBVIOUS
<1> USE DEF IInv
<1>1. ASSUME NEW file \in Files, Load(file) PROVE IInv'
    <2>1. TypeOK' /\ Ready'
        BY <1>1, LoadType, LoadReady
    <2>2. Absorbed'
        BY <1>1, EvaluateTwice, CommonTwice DEF Absorbed, Load
    <2>3. file # NoFile
        BY NoFileAssumption
    <2>4. CASE before = file
        <3>1. Evaluate(global, file) = global
            BY <1>1, <2>3, <2>4 DEF Load, Current, Absorbed
        <3>2. cfgCommon' = cfgCommon /\ entries' = entries
            BY <1>1, <2>3, <2>4, <3>1 DEF Load, Current, Absorbed
        <3>3. descriptors = Lines(entries, cfgCommon)
            BY <1>1, <2>3, <2>4 DEF Load, Current
        <3>4. Current'
            BY <1>1, <2>3, <3>2, <3>3 DEF Load, Current
        <3> QED BY <2>1, <2>2, <3>4
    <2>5. CASE before # file
        <3>1. Current'
            BY <1>1, <2>3, <2>5 DEF Load, Current
        <3> QED BY <2>1, <2>2, <3>1
    <2> QED BY <2>4, <2>5
<1>2. CASE init
    <2>1. TypeOK'
        BY <1>2 DEF init, TypeOK, Lines
    <2>2. Absorbed' /\ Current'
        BY <1>2 DEF init, Absorbed, Current
    <2>3. Ready'
        BY <1>2 DEF init, Ready
    <2> QED BY <2>1, <2>2, <2>3
<1>3. CASE Start
    <2>1. TypeOK'
        BY <1>3 DEF Start, TypeOK, Runs
    <2>2. Absorbed' /\ Current'
        BY <1>3 DEF Start, Absorbed, Current
    <2>3. Runs(descriptors)' = Runs(descriptors)
        BY <1>3 DEF Start, Runs, Run
    <2>4. Ready'
        BY <1>3, <2>3 DEF Start, Ready
    <2> QED BY <2>1, <2>2, <2>4
<1>4. CASE Reload
    <2>1. TypeOK'
        BY <1>4 DEF Reload, TypeOK, NothingOf
    <2>2. Absorbed' /\ Current'
        BY <1>4 DEF Reload, Absorbed, Current
    <2>3. Ready'
        BY <1>4 DEF Reload, Ready
    <2> QED BY <2>1, <2>2, <2>3
<1>5. CASE UNCHANGED vars
    <2>1. Runs(descriptors)' = Runs(descriptors)
        BY <1>5 DEF vars, Runs, Run
    <2>2. Ready'
        BY <1>5, <2>1 DEF vars, Ready
    <2> QED BY <1>5, <2>2 DEF vars, TypeOK, Absorbed, Current
<1> QED BY <1>1, <1>2, <1>3, <1>4, <1>5 DEF Next

\* The loader's state keeps its type through every sequence of loads.
THEOREM ConfigurationType == Spec => []TypeOK
<1>1. IInv => TypeOK
    BY DEF IInv
<1> QED BY <1>1, InitInvariant, NextInvariant, PTL DEF Spec

\* With pkt2.js as it was, a SIGHUP gives every program the command line it had,
\* whatever files were loaded before (load() and init() of pkt2-impl.cpp).
THEOREM ReloadIsIdempotent == Spec => ReloadChangesNothing
<1>1. IInv /\ [Next]_vars =>
        [pc = "init" /\ loaded = before => descriptors' = descriptors \/ pc' = pc]_vars
    <2> SUFFICES ASSUME IInv, Next, pc = "init", loaded = before
                 PROVE  descriptors' = descriptors
        BY DEF Next
    <2>1. init
        BY DEF Next, Load, Start, Reload
    <2> QED BY <2>1 DEF IInv, Current, init
<1> QED BY <1>1, InitInvariant, NextInvariant, PTL DEF Spec, ReloadChangesNothing

\* While the loader watches, each program runs with the command line of an entry.
LEMMA ProgramOfEntry ==
    ASSUME IInv, pc = "watch", NEW k \in Kinds
    PROVE  /\ Len(started[k]) = Len(ArrayOf(global, k)) /\ Len(ArrayOf(global, k)) \in Nat
           /\ \A i \in 1..Len(started[k]) :
                /\ entries[k][i] = Entry(k, ArrayOf(global, k)[i])
                /\ started[k][i] = Run(k, args(k, entries[k][i], cfgCommon))
                /\ Served(k, entries[k][i], cfgCommon)
<1>1. /\ entries = Entries(global) /\ descriptors = Lines(entries, cfgCommon)
      /\ started = Runs(descriptors) /\ cfgCommon.verbosity \in Nat
    BY DEF IInv, Ready, Absorbed, Current
<1>2. PICK n \in Nat : n = Len(ArrayOf(global, k))
    BY EntryFits DEF IInv, Ready
<1>3. \A i \in 1..n : Fits(k, Entry(k, ArrayOf(global, k)[i]))
    BY <1>2, EntryFits DEF IInv, Ready
<1>4. PICK E : E = entries[k]
    OBVIOUS
<1>5. E = [i \in 1..n |-> Entry(k, ArrayOf(global, k)[i])]
    BY <1>1, <1>2, <1>4 DEF Entries
<1>6. Len(E) = n /\ \A i \in 1..n : E[i] = Entry(k, ArrayOf(global, k)[i])
    BY <1>5
<1>7. PICK D : D = descriptors[k]
    OBVIOUS
<1>8. D = [i \in 1..n |-> args(k, E[i], cfgCommon)]
    BY <1>1, <1>4, <1>6, <1>7 DEF Lines
<1>9. Len(D) = n /\ \A i \in 1..n : D[i] = args(k, E[i], cfgCommon)
    BY <1>8
<1>10. PICK R : R = started[k]
    OBVIOUS
<1>11. R = [i \in 1..n |-> Run(k, D[i])]
    BY <1>1, <1>7, <1>9, <1>10 DEF Runs
<1>12. Len(R) = n /\ \A i \in 1..n : R[i] = Run(k, D[i])
    BY <1>11
<1>13. ASSUME NEW i \in 1..n
       PROVE  /\ E[i] = Entry(k, ArrayOf(global, k)[i])
              /\ R[i] = Run(k, args(k, E[i], cfgCommon))
              /\ Served(k, E[i], cfgCommon)
    <2>1. Fits(k, E[i])
        BY <1>3, <1>6
    <2>2. Served(k, E[i], cfgCommon)
        BY <1>1, <2>1, AllServed
    <2> QED BY <1>6, <1>9, <1>12, <2>2
<1> QED BY <1>2, <1>4, <1>10, <1>12, <1>13

\* A program that runs holds what its command line is meant to tell it.
LEMMA RunHeeds ==
    ASSUME NEW k, NEW i, NEW line, NEW s, NEW v, started[k][i] = Run(k, line),
           Accepts(Options[k], line) => Heeds(line, k, s, v)
    PROVE  Obeys(k, i, s, v)
<1> SUFFICES ASSUME started[k][i].accepted, ~Lost(k, s, v)
             PROVE  started[k][i].config[Means[k][s]] = AsHeld(k, s, v)
    BY DEF Obeys
<1>1. Program[k] \in installed /\ Accepts(Options[k], line)
    BY DEF Run
<1>2. Run(k, line).config = Config(Options[k], line)
    BY <1>1 DEF Run
<1>3. Config(Options[k], line)[Means[k][s]] = AsHeld(k, s, v)
    BY <1>1 DEF Heeds
<1> QED BY <1>2, <1>3

\* Whatever files were loaded before, each program that runs has the settings of its
\* entry in the file last loaded and the common settings of that file, in the fields
\* they are meant for (args() of pkt2-impl.cpp and parseCmd() of the programs).
THEOREM ProgramsObey == Spec => []ProgramsObeyFile
<1>1. IInv => ProgramsObeyFile
    <2> SUFFICES ASSUME IInv, pc = "watch"
                 PROVE  /\ \A k \in Kinds \cap DOMAIN loaded.sets : loaded.sets[k] # Odd =>
                              /\ Len(started[k]) = Len(loaded.sets[k])
                              /\ \A i \in 1..Len(started[k]), s \in DOMAIN Settings[k] :
                                    Obeys(k, i, s, Entry(k, loaded.sets[k][i])[s])
                        /\ \A k \in Kinds : \A i \in 1..Len(started[k]) :
                              \A s \in DOMAIN Means[k] \cap DOMAIN CfgCommon \cap DOMAIN loaded.sets :
                                    loaded.sets[s] # Odd => Obeys(k, i, s, loaded.sets[s])
        BY DEF ProgramsObeyFile
    <2>1. Evaluate(global, loaded) = global /\ Common(global, cfgCommon) = cfgCommon
        BY DEF IInv, Ready, Absorbed
    <2>2. \A s \in DOMAIN loaded.sets : s \in DOMAIN global /\ global[s] = loaded.sets[s]
        BY <2>1 DEF Evaluate
    <2>3. ASSUME NEW k \in Kinds, k \in DOMAIN loaded.sets, loaded.sets[k] # Odd
          PROVE  /\ Len(started[k]) = Len(loaded.sets[k])
                 /\ \A i \in 1..Len(started[k]), s \in DOMAIN Settings[k] :
                       Obeys(k, i, s, Entry(k, loaded.sets[k][i])[s])
        <3>1. ArrayOf(global, k) = loaded.sets[k]
            BY <2>2, <2>3 DEF ArrayOf
        <3>2. ASSUME NEW i \in 1..Len(started[k]), NEW s \in DOMAIN Settings[k]
              PROVE  Obeys(k, i, s, Entry(k, loaded.sets[k][i])[s])
            <4>1. PICK e : e = entries[k][i]
                OBVIOUS
            <4>2. /\ e = Entry(k, loaded.sets[k][i])
                  /\ started[k][i] = Run(k, args(k, e, cfgCommon))
                  /\ Served(k, e, cfgCommon)
                BY <3>1, <4>1, ProgramOfEntry
            <4>3. Accepts(Options[k], args(k, e, cfgCommon)) => Heeds(args(k, e, cfgCommon), k, s, e[s])
                BY <4>2 DEF Served
            <4>4. PICK line, v : line = args(k, e, cfgCommon) /\ v = e[s]
                OBVIOUS
            <4>5. Obeys(k, i, s, v)
                BY <4>2, <4>3, <4>4, RunHeeds
            <4> QED BY <4>2, <4>4, <4>5
        <3>3. Len(started[k]) = Len(loaded.sets[k])
            BY <3>1, ProgramOfEntry
        <3> QED BY <3>2, <3>3
    <2>4. ASSUME NEW k \in Kinds, NEW i \in 1..Len(started[k]),
                 NEW s \in DOMAIN Means[k] \cap DOMAIN CfgCommon \cap DOMAIN loaded.sets,
                         loaded.sets[s] # Odd
          PROVE  Obeys(k, i, s, loaded.sets[s])
        <3>1. s \in DOMAIN cfgCommon
            BY DEF IInv, TypeOK
        <3>2. cfgCommon[s] = loaded.sets[s]
            BY <2>1, <2>2, <2>4, <3>1 DEF Common
        <3>3. PICK e : e = entries[k][i]
            OBVIOUS
        <3>4. started[k][i] = Run(k, args(k, e, cfgCommon)) /\ Served(k, e, cfgCommon)
            BY <3>3, ProgramOfEntry
        <3>5. Accepts(Options[k], args(k, e, cfgCommon)) => Heeds(args(k, e, cfgCommon), k, s,
                cfgCommon[s])
            BY <3>4 DEF Served
        <3>6. PICK line, v : line = args(k, e, cfgCommon) /\ v = cfgCommon[s]
            OBVIOUS
        <3>7. Obeys(k, i, s, v)
            BY <3>4, <3>5, <3>6, RunHeeds
        <3> QED BY <3>2, <3>6, <3>7
    <2> QED BY <2>3, <2>4
<1> QED BY <1>1, InitInvariant, NextInvariant, PTL DEF Spec

\* A program refuses the command line that init() makes for it exactly if its entry or
\* the common settings are as Startable excludes.
THEOREM RefusedOnlyForAReason == Spec => []RefusedForAReason
<1>1. IInv => RefusedForAReason
    <2> SUFFICES ASSUME IInv, pc = "watch", NEW k \in Kinds, NEW i \in 1..Len(started[k])
                 PROVE  started[k][i].accepted <=> Startable(k, entries[k][i], cfgCommon)
        BY DEF RefusedForAReason
    <2>1. PICK e : e = entries[k][i]
        OBVIOUS
    <2>2. started[k][i] = Run(k, args(k, e, cfgCommon)) /\ Served(k, e, cfgCommon)
        BY <2>1, ProgramOfEntry
    <2>3. PICK line : line = args(k, e, cfgCommon)
        OBVIOUS
    <2>4. (Program[k] \in installed /\ Accepts(Options[k], line)) <=> Startable(k, e, cfgCommon)
        BY <2>2, <2>3 DEF Served
    <2>5. Run(k, line).accepted <=> Program[k] \in installed /\ Accepts(Options[k], line)
        BY DEF Run
    <2> QED BY <2>1, <2>2, <2>3, <2>4, <2>5
<1> QED BY <1>1, InitInvariant, NextInvariant, PTL DEF Spec

-----------------------------------------------------------------------------
(* The buses.                                                                *)

\* An option of f is one of f ++ g.
LEMMA LeftOption ==
    ASSUME NEW f, NEW g, NEW x, NEW r, Field(f, x, r)
    PROVE  Field(f ++ g, x, r)
BY DEF Field, ++

\* The address from which the dumpers read.
LEMMA DumperField ==
    /\ Field(pkt2dumppq, "packet_url", One("-i", DumpBus))
    /\ Field(pkt2dumpfcm, "packet_url", One("-i", DumpBus))
<1> DEFINE pq == [packet_url |-> One("-i", DumpBus), max_fd |-> One("--maxfd", 0),
                  createtable |-> Count("--createtable", 1), buffer_size |-> One("-b", 4096)]
           fcm == [packet_url |-> One("-i", DumpBus), max_fd |-> One("--maxfd", 0),
                   server_key |-> One("-k", DEF_SERVER_KEY), imei_field_offset |-> One("--imei-offset",
                           10),
                   imei_field_size |-> One("--imei-size", 15), packet_size |-> One("--packet-size", 0),
                   timezone |-> One("--timezone", 9 * 3600), test_data_hex |-> One("-x", ""),
                   buffer_size |-> One("-b", 4096)]
<1>1. Field(pq, "packet_url", One("-i", DumpBus)) /\ Field(fcm, "packet_url", One("-i", DumpBus))
    BY DEF Field
<1>2. /\ pkt2dumppq = pq ++ Retry(0, 60) ++ Daemon ++ Database_options
      /\ pkt2dumpfcm = fcm ++ Retry(0, 60) ++ Daemon ++ Database_options
    BY DEF pkt2dumppq, pkt2dumpfcm
<1> HIDE DEF pq, fcm
<1>3. ASSUME NEW f, Field(f, "packet_url", One("-i", DumpBus))
      PROVE  Field(f ++ Retry(0, 60) ++ Daemon ++ Database_options, "packet_url", One("-i", DumpBus))
    <2>1. PICK r : r = One("-i", DumpBus)
        OBVIOUS
    <2>2. Field(f ++ Retry(0, 60), "packet_url", r)
        BY <1>3, <2>1, LeftOption
    <2>3. Field(f ++ Retry(0, 60) ++ Daemon, "packet_url", r)
        BY <2>2, LeftOption
    <2>4. Field(f ++ Retry(0, 60) ++ Daemon ++ Database_options, "packet_url", r)
        BY <2>3, LeftOption
    <2> QED BY <2>1, <2>4
<1> QED BY <1>1, <1>2, <1>3

\* A dumper that is not told another address reads from that of its default.
LEMMA DumperReads ==
    ASSUME NEW F, Field(F, "packet_url", One("-i", DumpBus)),
           NEW line, IsList(line), \A i \in 1..Len(line) : line[i].opt # "-i"
    PROVE  Config(F, line).packet_url = DumpBus
<1>1. Occurrences(line, "-i") = NoArgs
    BY OccurrencesAll DEF IsList
<1>2. Holds(line, F, "packet_url", DumpBus)
    BY <1>1, OneAbsent
<1> QED BY <1>2 DEF Holds

\* pkt2 does not tell pkt2receiver where to bind the bus of the dumpers.
LEMMA ReceiverDumps ==
    ASSUME NEW e, NEW c, c.verbosity \in Nat, IsList(e.sizes)
    PROVE  Config(pkt2receiver, CfgPacket2Message(e, c)).dump_url = DumpBus
<1> DEFINE line == CfgPacket2Message(e, c)
<1>1. Occurrences(line, "--dump") = NoArgs
    BY PacketLine
<1> HIDE DEF line
<1>2. Field(pkt2receiver, "dump_url", One("--dump", DumpBus))
    BY DEF pkt2receiver, Field, DumpBus
<1>3. Holds(line, pkt2receiver, "dump_url", DumpBus)
    BY <1>1, <1>2, OneAbsent
<1> QED BY <1>3 DEF Holds, line

\* The field for the address of a bus is one for a single value, in every program.
LEMMA BusFields ==
    /\ \A k \in Receivers : k \in Kinds /\ "bus_in" \in DOMAIN Means[k] /\ Means[k].bus_in
          = "message_url"
    /\ \A k \in Handlers : k \in Kinds /\ "bus_out" \in DOMAIN Means[k] /\ Means[k].bus_out
          = "message_url"
    /\ \A k \in Receivers \cup Handlers : Options[k].message_url.holds = "value"
    /\ "packet2message" \in Kinds
    /\ {"bus_in", "bus_out"} \subseteq DOMAIN Means["packet2message"]
    /\ Means["packet2message"].bus_in = "in_url" /\ Options["packet2message"].in_url.holds = "value"
    /\ Means["packet2message"].bus_out = "out_url" /\ Options["packet2message"].out_url.holds = "value"
<1>1. \A k \in Receivers : k \in Kinds /\ "bus_in" \in DOMAIN Means[k] /\ Means[k].bus_in
        = "message_url"
    BY KindsAre DEF Receivers, Means
<1>2. \A k \in Handlers : k \in Kinds /\ "bus_out" \in DOMAIN Means[k] /\ Means[k].bus_out
        = "message_url"
    BY KindsAre DEF Handlers, Means
<1>3. ASSUME NEW k \in Receivers \cup Handlers PROVE Options[k].message_url.holds = "value"
    <2>0. ASSUME NEW F, NEW o, NEW d, Field(F, "message_url", One(o, d))
            PROVE F.message_url.holds = "value"
        BY <2>0, OneField DEF Field
    <2>1. CASE k = "tcp_listeners"
        <3>1. Field(tcpreceiver, "message_url", One("-o", PacketBus))
            BY DEF tcpreceiver, Field
        <3>2. Options[k] = tcpreceiver
            BY <2>1 DEF Options
        <3> QED BY <2>0, <3>1, <3>2
    <2>2. CASE k = "mqtt_listeners"
        <3>1. Field(mqtt_receiver, "message_url", One("-o", PacketBus))
            BY DEF mqtt_receiver, Field
        <3>2. Options[k] = mqtt_receiver
            BY <2>2 DEF Options
        <3> QED BY <2>0, <3>1, <3>2
    <2>3. CASE k = "file_listeners"
        <3>1. Field(freceiver, "message_url", One("-o", PacketBus))
            BY DEF freceiver, Field
        <3>2. Options[k] = freceiver
            BY <2>3 DEF Options
        <3> QED BY <2>0, <3>1, <3>2
    <2>4. CASE k = "write_file"
        <3>1. Field(handlerline, "message_url", One("-i", MessageBus))
            BY DEF handlerline, Field
        <3>2. Options[k] = handlerline
            BY <2>4 DEF Options
        <3> QED BY <2>0, <3>1, <3>2
    <2>5. CASE k = "write_lmdb"
        <3>1. Field(handlerlmdb, "message_url", One("-i", MessageBus))
            BY DEF handlerlmdb, Field
        <3>2. Options[k] = handlerlmdb
            BY <2>5 DEF Options
        <3> QED BY <2>0, <3>1, <3>2
    <2>6. CASE k = "write_pq"
        <3>1. Field(handlerpq, "message_url", One("-i", MessageBus))
            BY DEF handlerpq, Field
        <3>2. Options[k] = handlerpq
            BY <2>6 DEF Options
        <3> QED BY <2>0, <3>1, <3>2
    <2>7. CASE k = "write_fcm"
        <3>1. Field(handler_fcm, "message_url", One("-i", MessageBus))
            BY DEF handler_fcm, Field
        <3>2. Options[k] = handler_fcm
            BY <2>7 DEF Options
        <3> QED BY <2>0, <3>1, <3>2
    <2>8. CASE k = "write_google_sheets"
        <3>1. Field(handler_google_sheets, "message_url", One("-i", MessageBus))
            BY DEF handler_google_sheets, Field
        <3>2. Options[k] = handler_google_sheets
            BY <2>8 DEF Options
        <3> QED BY <2>0, <3>1, <3>2
    <2> QED BY <2>1, <2>2, <2>3, <2>4, <2>5, <2>6, <2>7, <2>8 DEF Receivers, Handlers
<1>4. "packet2message" \in Kinds /\ {"bus_in", "bus_out"} \subseteq DOMAIN Means["packet2message"]
    BY KindsAre DEF Means
<1>5. Means["packet2message"].bus_in = "in_url" /\ Means["packet2message"].bus_out = "out_url"
    BY DEF Means
<1>6. /\ Options["packet2message"].in_url.holds = "value"
      /\ Options["packet2message"].out_url.holds = "value"
    <2>1. /\ Field(pkt2receiver, "in_url", One("-i", PacketBus))
          /\ Field(pkt2receiver, "out_url", One("-o", MessageBus))
        BY DEF pkt2receiver, Field
    <2>2. Options["packet2message"] = pkt2receiver
        BY DEF Options
    <2> QED BY <2>1, <2>2, OneField DEF Field
<1> QED BY <1>1, <1>2, <1>3, <1>4, <1>5, <1>6

\* A program that runs is an entry whose command line was accepted.
LEMMA ChildRuns ==
    ASSUME NEW p \in Children
    PROVE  /\ p[1] \in Kinds /\ p[2] \in 1..Len(started[p[1]])
           /\ started[p[1]][p[2]].accepted
BY DEF Children

\* The address of a bus always reaches the program.
LEMMA NeverLost ==
    ASSUME NEW k, NEW s \in {"bus_in", "bus_out"}, NEW v
    PROVE  ~Lost(k, s, v)
<1>1. /\ s # "escape_code" /\ s # "keep_alive" /\ s # "mode" /\ s # "max_buffer_size"
      /\ s # "outs" /\ s # "email" /\ s # "proto_path" /\ s # "max_file_descriptors"
    OBVIOUS
<1>2. /\ ~(k = "tcp_listeners" /\ s = "escape_code" /\ v # "")
      /\ ~(k = "mqtt_listeners" /\ s = "keep_alive" /\ v # 20)
      /\ ~(k = "write_file" /\ s = "mode" /\ v # 0)
      /\ ~(k = "file_listeners" /\ s = "mode" /\ v \notin 0..2)
    BY <1>1, Zenon
<1>3. /\ ~(k \in {"tcp_listeners", "packet2message"} /\ s = "max_buffer_size" /\ v = 0)
      /\ ~(k = "repeators" /\ s = "outs" /\ v = <<>>)
      /\ ~(k = "write_google_sheets" /\ s = "email" /\ v = "")
      /\ ~(s = "proto_path" /\ v = "")
    BY <1>1, Zenon
<1>4. /\ ~(k \in {"file_listeners", "write_file"} /\ s = "max_buffer_size" /\ v # DefaultBuffer)
      /\ ~(k = "file_listeners" /\ s = "proto_path" /\ v # "proto")
      /\ ~(k = "write_lmdb" /\ s = "max_file_descriptors" /\ v # 0)
    BY <1>1, Zenon
<1> QED BY <1>2, <1>3, <1>4, Zenon DEF Lost

\* A program that runs has the address of each bus from the common settings.
LEMMA OnTheBus ==
    ASSUME IInv, pc = "watch", NEW p \in Children, NEW s \in {"bus_in", "bus_out"}, NEW f,
           s \in DOMAIN Means[p[1]], Means[p[1]][s] = f, Options[p[1]][f].holds = "value"
    PROVE  started[p[1]][p[2]].config[f] = cfgCommon[s]
<1>1. PICK k, i : k = p[1] /\ i = p[2]
    OBVIOUS
<1>2. k \in Kinds /\ i \in 1..Len(started[k]) /\ started[k][i].accepted
    BY <1>1, ChildRuns
<1>3. PICK e, line, v : e = entries[k][i] /\ line = args(k, e, cfgCommon) /\ v = cfgCommon[s]
    OBVIOUS
<1>4. started[k][i] = Run(k, line) /\ Served(k, e, cfgCommon)
    BY <1>2, <1>3, ProgramOfEntry
<1>5. s \in DOMAIN Means[k] \cap DOMAIN CfgCommon
    BY <1>1 DEF CfgCommon
<1>6. Accepts(Options[k], line) => Heeds(line, k, s, v)
    BY <1>3, <1>4, <1>5 DEF Served
<1>7. Obeys(k, i, s, v)
    BY <1>4, <1>6, RunHeeds
<1>8. ~Lost(k, s, v)
    BY NeverLost
<1>9. AsHeld(k, s, v) = v
    <2>1. Options[k][Means[k][s]].holds # "path" /\ s \notin {"bind", "topic"}
        BY <1>1
    <2> QED BY <2>1 DEF AsHeld
<1> QED BY <1>1, <1>2, <1>3, <1>7, <1>8, <1>9 DEF Obeys

\* A socket that connects to an address is linked to one that has bound it.
LEMMA Meets ==
    ASSUME NEW u, NEW S, S \subseteq {Connected(u)}, NEW T, Bound(u) \in T
    PROVE  LinkedTo(S, T)
<1>1. PICK a, b : a = Connected(u) /\ b = Bound(u)
    OBVIOUS
<1>2. a.url = u /\ ~a.binds /\ a.protocol = "bus" /\ b.url = u /\ b.binds /\ b.protocol = "bus"
    BY <1>1 DEF Connected, Bound
<1> QED BY <1>1, <1>2 DEF LinkedTo

\* What receivers and handlers connect to, and what pkt2receiver binds.
LEMMA SocketsAre ==
    ASSUME NEW c
    PROVE  /\ Sockets("packet2message", c) = pkt2receiver_sockets(c)
           /\ \A k \in (Receivers \cup Handlers) \ {"write_lmdb"} : Sockets(k,
                 c) \subseteq {Connected(c.message_url)}
<1> DEFINE a == pkt2receiver_sockets(c)
           b == lmdbwriter_sockets(c)
           m == {Connected(c.message_url)}
           n == IF c.mode >= 0 THEN {} ELSE m
           r == repeator_sockets(c)
<1>0. \A k : Sockets(k, c) = CASE k = "packet2message" -> a
                               [] k = "write_file" -> m
                               [] k = "write_lmdb" -> b
                               [] k = "write_pq" -> m
                               [] k = "write_fcm" -> m
                               [] k = "write_google_sheets" -> m
                               [] k \in {"tcp_listeners", "mqtt_listeners"} -> m
                               [] k = "file_listeners" -> n
                               [] k = "repeators" -> r
    BY DEF Sockets, linewriter_sockets, pqwriter_sockets, fcm_writer_sockets,
       google_sheets_writer_sockets,
           station_sockets
<1>1. n \subseteq m
    OBVIOUS
<1> HIDE DEF a, b, m, n, r
<1>2. Sockets("packet2message", c) = a
    BY <1>0
<1>3. ASSUME NEW k \in (Receivers \cup Handlers) \ {"write_lmdb"} PROVE Sockets(k, c) \subseteq m
    <2>1. CASE k = "file_listeners"
        BY <1>0, <1>1, <2>1
    <2>2. CASE k # "file_listeners"
        BY <1>0, <2>2 DEF Receivers, Handlers
    <2> QED BY <2>1, <2>2
<1> QED BY <1>2, <1>3 DEF a, m

\* To the configuration of pkt2, tools and the buses make no difference.
THEOREM BusesKeepConfiguration == BusSpec => Spec
<1>1. BusInit => Init
    BY DEF BusInit
<1>2. [BusNext]_busVars => [Next]_vars
    <2>1. Loader => Next
        BY DEF Loader, Next
    <2> QED BY <2>1 DEF BusNext, Opens, Dies, RunTool, ToolEnds, busVars
<1> QED BY <1>1, <1>2, PTL DEF BusSpec, Spec

\* Nothing runs where nothing was started.
LEMMA NoChildren ==
    ASSUME started = NothingOf
    PROVE  Children = {}
<1>1. ASSUME NEW k \in Kinds PROVE Len(started[k]) = 0
    <2>1. started[k] = NoArgs
        BY DEF NothingOf, NoArgs
    <2> QED BY <2>1, EmptyIsList
<1> QED BY <1>1 DEF Children

\* A dumper that is started reads from its default address.
LEMMA DumperStarted ==
    ASSUME NEW tool \in DOMAIN ToolLines, NEW line \in ToolLines[tool], tool \in {"pkt2dumppq",
            "pkt2dumpfcm"}
    PROVE  Config(ToolOptions[tool], line).packet_url = DumpBus
<1>1. IsList(line) /\ \A i \in 1..Len(line) : line[i].opt # "-i"
    BY DumpersAssumption
<1>2. PICK F : F = ToolOptions[tool]
    OBVIOUS
<1>3. ToolOptions["pkt2dumppq"] = pkt2dumppq /\ ToolOptions["pkt2dumpfcm"] = pkt2dumpfcm
    BY DEF ToolOptions
<1>4. Field(F, "packet_url", One("-i", DumpBus))
    BY <1>2, <1>3, DumperField
<1> QED BY <1>1, <1>2, <1>4, DumperReads

\* The buses keep what links the pipeline together.
LEMMA BusInvariant == BusSpec => []BusIInv
<1>1. BusInit => OnlyWatched /\ UpAreChildren /\ DumpersAsBuilt
    BY DEF BusInit, Init, OnlyWatched, UpAreChildren, DumpersAsBuilt, Dumpers
<1>2. IInv /\ OnlyWatched /\ UpAreChildren /\ DumpersAsBuilt /\ [BusNext]_busVars
        => (OnlyWatched /\ UpAreChildren /\ DumpersAsBuilt)'
    <2> SUFFICES ASSUME OnlyWatched, UpAreChildren, DumpersAsBuilt, [BusNext]_busVars
                 PROVE  (OnlyWatched /\ UpAreChildren /\ DumpersAsBuilt)'
        OBVIOUS
    <2>1. ASSUME UNCHANGED vars PROVE OnlyWatched' /\ Children' = Children
        BY <2>1 DEF OnlyWatched, Children, vars, NothingOf
    <2>2. CASE Loader
        <3>1. UNCHANGED hand
            BY <2>2 DEF Loader
        <3>2. DumpersAsBuilt'
            BY <3>1 DEF DumpersAsBuilt, Dumpers
        <3>3. ASSUME pc # "watch" PROVE up = {}
            BY <3>3, NoChildren DEF OnlyWatched, UpAreChildren
        <3>4. CASE \E file \in Files : Load(file) /\ up' = up
            <4>1. pc # "watch" /\ started' = started /\ up' = up
                BY <3>4 DEF Load
            <4> QED BY <3>2, <3>3, <4>1 DEF OnlyWatched, UpAreChildren, NothingOf
        <3>5. CASE init /\ up' = up
            <4>1. pc # "watch" /\ started' = started /\ up' = up
                BY <3>5 DEF init
            <4> QED BY <3>2, <3>3, <4>1 DEF OnlyWatched, UpAreChildren, NothingOf
        <3>6. CASE Start /\ up' = up
            <4>1. pc # "watch" /\ pc' = "watch" /\ up' = up
                BY <3>6 DEF Start
            <4> QED BY <3>2, <3>3, <4>1 DEF OnlyWatched, UpAreChildren
        <3>7. CASE Reload /\ up' = {}
            <4>1. started' = NothingOf
                BY <3>7 DEF Reload
            <4> QED BY <3>2, <3>7, <4>1 DEF OnlyWatched, UpAreChildren, NothingOf
        <3> QED BY <2>2, <3>4, <3>5, <3>6, <3>7 DEF Loader
    <2>3. ASSUME NEW p \in Children, Opens(p) PROVE (OnlyWatched /\ UpAreChildren /\ DumpersAsBuilt)'
        BY <2>1, <2>3 DEF Opens, UpAreChildren, DumpersAsBuilt, Dumpers
    <2>4. ASSUME NEW p \in up, Dies(p) PROVE (OnlyWatched /\ UpAreChildren /\ DumpersAsBuilt)'
        BY <2>1, <2>4 DEF Dies, UpAreChildren, DumpersAsBuilt, Dumpers
    <2>5. ASSUME NEW tool \in DOMAIN ToolLines, NEW line \in ToolLines[tool], RunTool(tool, line)
          PROVE  (OnlyWatched /\ UpAreChildren /\ DumpersAsBuilt)'
        <3>1. PICK r : r = [tool |-> tool, config |-> Config(ToolOptions[tool], line)]
            OBVIOUS
        <3>2. hand' = hand \cup {r} /\ UNCHANGED vars /\ up' = up
            BY <2>5, <3>1 DEF RunTool
        <3>3. r.tool \in {"pkt2dumppq", "pkt2dumpfcm"} => r.config.packet_url = DumpBus
            BY <3>1, DumperStarted
        <3>4. DumpersAsBuilt'
            BY <3>2, <3>3 DEF DumpersAsBuilt, Dumpers
        <3> QED BY <2>1, <3>2, <3>4 DEF UpAreChildren
    <2>6. ASSUME NEW r \in hand, ToolEnds(r) PROVE (OnlyWatched /\ UpAreChildren /\ DumpersAsBuilt)'
        BY <2>1, <2>6 DEF ToolEnds, UpAreChildren, DumpersAsBuilt, Dumpers
    <2>7. CASE UNCHANGED busVars
        BY <2>1, <2>7 DEF busVars, UpAreChildren, DumpersAsBuilt, Dumpers
    <2> QED BY <2>2, <2>3, <2>4, <2>5, <2>6, <2>7 DEF BusNext
<1>3. Spec => []IInv
    BY InitInvariant, NextInvariant, PTL DEF Spec
<1>4. BusIInv <=> IInv /\ OnlyWatched /\ UpAreChildren /\ DumpersAsBuilt
    BY DEF BusIInv
<1> QED BY <1>1, <1>2, <1>3, <1>4, BusesKeepConfiguration, PTL DEF BusSpec

\* Whatever files were loaded, programs crashed and tools were started: while
\* pkt2receiver is up, every receiver of packets, every handler but handlerlmdb and
\* every dumper that runs is linked to it.
THEOREM PipelineStaysLinked == BusSpec => []PipelineLinked
<1>1. BusIInv => PipelineLinked
    <2> SUFFICES ASSUME BusIInv, NEW q \in up, q[1] = "packet2message"
                 PROVE  /\ \A p \in Pipeline : LinkedTo(ChildSockets(p), ChildSockets(q))
                        /\ \A r \in Dumpers : LinkedTo(ToolSockets(r.tool, r.config), ChildSockets(q))
        BY DEF PipelineLinked
    <2>1. q \in Children /\ IInv
        BY DEF BusIInv, UpAreChildren
    <2>2. pc = "watch"
        BY <2>1, NoChildren DEF BusIInv, OnlyWatched
    <2>3. PICK c : c = started[q[1]][q[2]].config
        OBVIOUS
    <2>4. c.in_url = cfgCommon.bus_in
        <3>1. started[q[1]][q[2]].config["in_url"] = cfgCommon["bus_in"]
            BY <2>1, <2>2, BusFields, OnTheBus
        <3> QED BY <2>3, <3>1
    <2>5. c.out_url = cfgCommon.bus_out
        <3>1. started[q[1]][q[2]].config["out_url"] = cfgCommon["bus_out"]
            BY <2>1, <2>2, BusFields, OnTheBus
        <3> QED BY <2>3, <3>1
    <2>6. c.dump_url = DumpBus
        <3>1. PICK k, i : k = q[1] /\ i = q[2]
            OBVIOUS
        <3>2. k = "packet2message" /\ k \in Kinds /\ i \in 1..Len(started[k]) /\ started[k][i].accepted
            BY <2>1, <3>1, ChildRuns
        <3>3. PICK e, line : e = entries[k][i] /\ line = args(k, e, cfgCommon)
            OBVIOUS
        <3>4. started[k][i] = Run(k, line) /\ e = Entry(k, ArrayOf(global, k)[i])
              /\ i \in 1..Len(ArrayOf(global, k))
            BY <2>1, <2>2, <3>2, <3>3, ProgramOfEntry
        <3>5. Fits(k, e) /\ cfgCommon.verbosity \in Nat
            BY <2>1, <3>2, <3>4, EntryFits DEF IInv, Ready
        <3>6. "sizes" \in DOMAIN e
            BY <3>2, <3>5 DEF Fits, Settings, packet2message
        <3>7. IsList(e.sizes)
            BY <3>5, <3>6 DEF Fits, Lists
        <3>8. Config(pkt2receiver, CfgPacket2Message(e, cfgCommon)).dump_url = DumpBus
            BY <3>5, <3>7, ReceiverDumps
        <3>9. line = CfgPacket2Message(e, cfgCommon)
            BY <3>2, <3>3 DEF args
        <3>10. Run(k, line).config = Config(Options[k], line)
            BY <3>2, <3>4 DEF Run
        <3>11. Options[k] = pkt2receiver
            BY <3>2 DEF Options
        <3> QED BY <2>3, <3>1, <3>4, <3>8, <3>9, <3>10, <3>11
    <2>7. PICK T : T = ChildSockets(q)
        OBVIOUS
    <2>8. Bound(cfgCommon.bus_in) \in T /\ Bound(cfgCommon.bus_out) \in T /\ Bound(DumpBus) \in T
        <3>1. T = pkt2receiver_sockets(c)
            BY <2>3, <2>7, SocketsAre DEF ChildSockets
        <3>2. Bound(c.in_url) \in T /\ Bound(c.out_url) \in T /\ Bound(c.dump_url) \in T
            BY <3>1 DEF pkt2receiver_sockets
        <3> QED BY <2>4, <2>5, <2>6, <3>2
    <2>9. ASSUME NEW p \in Pipeline PROVE LinkedTo(ChildSockets(p), T)
        <3>1. p \in Children /\ p[1] \in (Receivers \cup Handlers) \ {"write_lmdb"}
            BY DEF Pipeline
        <3>2. PICK d, S : d = started[p[1]][p[2]].config /\ S = ChildSockets(p)
            OBVIOUS
        <3>3. S \subseteq {Connected(d.message_url)}
            BY <3>1, <3>2, SocketsAre DEF ChildSockets
        <3>4. CASE p[1] \in Receivers
            <4>1. started[p[1]][p[2]].config["message_url"] = cfgCommon["bus_in"]
                BY <2>1, <2>2, <3>1, <3>4, BusFields, OnTheBus
            <4>2. d.message_url = cfgCommon.bus_in
                BY <3>2, <4>1
            <4> QED BY <2>8, <3>2, <3>3, <4>2, Meets
        <3>5. CASE p[1] \in Handlers
            <4>1. started[p[1]][p[2]].config["message_url"] = cfgCommon["bus_out"]
                BY <2>1, <2>2, <3>1, <3>5, BusFields, OnTheBus
            <4>2. d.message_url = cfgCommon.bus_out
                BY <3>2, <4>1
            <4> QED BY <2>8, <3>2, <3>3, <4>2, Meets
        <3> QED BY <3>1, <3>4, <3>5
    <2>10. ASSUME NEW r \in Dumpers PROVE LinkedTo(ToolSockets(r.tool, r.config), T)
        <3>1. r.tool \in {"pkt2dumppq", "pkt2dumpfcm"} /\ r.config.packet_url = DumpBus
            BY DEF Dumpers, BusIInv, DumpersAsBuilt
        <3>2. ToolSockets(r.tool, r.config) = {Connected(r.config.packet_url)}
            BY <3>1 DEF ToolSockets
        <3> QED BY <2>8, <3>1, <3>2, Meets
    <2> QED BY <2>7, <2>9, <2>10
<1> QED BY <1>1, BusInvariant, PTL
=============================================================================
