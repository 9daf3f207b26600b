-------------------------- MODULE TransportProofs --------------------------
(* The facts the other proofs share.  First of sequences put together from      *)
(* sequences and of functions defined by recursion over 0 .. n: what such a     *)
(* function computes is shown by the least natural number for which it would    *)
(* not (a definition f[n] == ... has a value because one can be put together up *)
(* to any n).  Then of the library: the widths of its integers and of what its  *)
(* helpers return, the checksum, what encode_framing makes of a packet, the     *)
(* bytes of a message's frame, and what decode_packet and eui_parse make of     *)
(* each of them.                                                                *)
EXTENDS LinkMessages, TLAPS, SequenceTheorems, WellFoundedInduction

-----------------------------------------------------------------------------
(* Natural numbers *)

\* A set of natural numbers that is not empty has a least member.
LEMMA Least == ASSUME NEW S, S \subseteq Nat, S # {} PROVE \E n \in S : \A k \in S : n <= k
<1>1. ASSUME NEW x \in Nat, NEW y \in Nat, x < y PROVE <<x, y>> \in OpToRel(<, Nat)
      BY <1>1, Zenon DEF OpToRel
<1>2. PICK n \in S : \A k \in S : ~ (<<k, n>> \in OpToRel(<, Nat))
      BY WFMin, NatLessThanWellFounded
<1>3. \A k \in S : ~(k < n)
      BY <1>1, <1>2
<1> QED BY <1>3, SMT

\* What holds of a number and passes on to the next one, up to n, holds up to n.
LEMMA Climbs ==
    ASSUME NEW m \in Int, NEW n \in Int, NEW S, m <= n => m \in S,
           \A k \in m .. n - 1 : k \in S => k + 1 \in S
    PROVE  m .. n \subseteq S
<1> DEFINE T == {k \in Nat : m + k <= n /\ m + k \notin S}
<1> SUFFICES ASSUME T # {} PROVE FALSE
      <2>1. ASSUME NEW j \in m .. n, j \notin S PROVE j - m \in T
            <3>1. j - m \in Nat /\ m + (j - m) = j
                  OBVIOUS
            <3> QED BY <2>1, <3>1
      <2> QED BY <2>1
<1>1. PICK k \in T : \A j \in T : k <= j
      <2>1. T \subseteq Nat
            OBVIOUS
      <2> HIDE DEF T
      <2> QED BY <2>1, Least
<1>2. k \in Nat /\ m + k <= n /\ m + k \notin S
      OBVIOUS
<1>3. k # 0
      BY <1>2
<1>4. k - 1 \in Nat /\ k - 1 \notin T /\ m + (k - 1) \in m .. n - 1 /\ (m + (k - 1)) + 1 = m + k
      BY <1>1, <1>2, <1>3
<1>5. m + (k - 1) \in S
      BY <1>4
<1> QED BY <1>2, <1>4, <1>5

\* a function that starts with base and goes on from its value at the number before
Follows(f, n, base, next) == f[0] = base /\ \A i \in 1 .. n : f[i] = next[i][f[i - 1]]

\* There is such a function.
LEMMA Recursion ==
    ASSUME NEW n \in Nat, NEW T, NEW base \in T, NEW next \in [1 .. n -> [T -> T]]
    PROVE  \E f \in [0 .. n -> T] : Follows(f, n, base, next)
<1> DEFINE Upto(k) == {f \in [0 .. k -> T] :
                          f[0] = base /\ \A i \in 1 .. k : f[i] = next[i][f[i - 1]]}
           K == {k \in 0 .. n : Upto(k) # {}}
<1>1. 0 \in K
      <2>1. [i \in 0 .. 0 |-> base] \in Upto(0)
            OBVIOUS
      <2> QED BY <2>1
<1>2. ASSUME NEW k \in 0 .. n - 1, k \in K PROVE k + 1 \in K
      <2>1. PICK f : f \in Upto(k)
            BY <1>2
      <2> DEFINE x == next[k + 1][f[k]]
                 g == [i \in 0 .. k + 1 |-> IF i = k + 1 THEN x ELSE f[i]]
      <2>2. k \in Nat /\ k + 1 \in 1 .. n /\ k \in 0 .. k
            OBVIOUS
      <2>3. /\ f \in [0 .. k -> T] /\ f[0] = base
            /\ \A i \in 1 .. k : f[i] = next[i][f[i - 1]]
            BY <2>1
      <2>4. x \in T
            <3>1. f[k] \in T /\ next[k + 1] \in [T -> T]
                  BY <2>2, <2>3
            <3> QED BY <3>1
      <2> HIDE DEF x
      <2>5. g \in [0 .. k + 1 -> T] /\ g[0] = base /\ g[k + 1] = x
            BY <2>2, <2>3, <2>4
      <2>6. ASSUME NEW i \in 1 .. k + 1 PROVE g[i] = next[i][g[i - 1]]
            <3>1. i - 1 \in 0 .. k + 1 /\ i - 1 # k + 1 /\ g[i - 1] = f[i - 1]
                  BY <2>2
            <3>2. CASE i = k + 1
                  <4>1. g[i] = x /\ i - 1 = k
                        BY <2>2, <2>5, <3>2
                  <4>2. x = next[i][f[i - 1]]
                        BY <3>2, <4>1 DEF x
                  <4> QED BY <3>1, <4>1, <4>2
            <3>3. CASE i # k + 1
                  <4>1. i \in 1 .. k /\ g[i] = f[i]
                        BY <2>2, <3>3
                  <4> QED BY <2>3, <3>1, <4>1
            <3> QED BY <3>2, <3>3
      <2>7. g \in Upto(k + 1)
            <3> HIDE DEF g
            <3> QED BY <2>5, <2>6, SMTT(20)
      <2> HIDE DEF Upto
      <2> QED BY <2>2, <2>7
<1>3. 0 .. n \subseteq K
      <2> HIDE DEF K
      <2>1. 0 \in Int /\ n \in Int /\ (0 <= n => 0 \in K)
            BY <1>1
      <2>2. \A k \in 0 .. n - 1 : k \in K => k + 1 \in K
            BY <1>2
      <2> QED BY <2>1, <2>2, Climbs, Zenon
<1>4. n \in K
      <2> HIDE DEF K
      <2> QED BY <1>3
<1> QED BY <1>4 DEF Follows

-----------------------------------------------------------------------------
(* Sequences of sequences *)

\* what is in two sequences is in the one they make, and nothing else
Joins(s, t, both) ==
    /\ \A k \in DOMAIN s : k \in DOMAIN both /\ both[k] = s[k]
    /\ \A k \in DOMAIN t : Len(s) + k \in DOMAIN both /\ both[Len(s) + k] = t[k]
    /\ \A k \in DOMAIN both :
          \/ k \in DOMAIN s /\ both[k] = s[k]
          \/ \E j \in DOMAIN t : k = Len(s) + j /\ both[k] = t[j]

\* Concatenation does.
LEMMA Joined ==
    ASSUME NEW S, NEW s \in Seq(S), NEW t \in Seq(S), NEW both, both = s \o t
    PROVE  both \in Seq(S) /\ Joins(s, t, both)
<1>1. /\ both \in Seq(S) /\ Len(both) = Len(s) + Len(t)
      /\ \A k \in 1 .. Len(s) + Len(t) : both[k] = IF k <= Len(s) THEN s[k] ELSE t[k - Len(s)]
      BY ConcatProperties
<1>2. /\ Len(s) \in Nat /\ DOMAIN s = 1 .. Len(s) /\ Len(t) \in Nat /\ DOMAIN t = 1 .. Len(t)
      /\ DOMAIN both = 1 .. Len(s) + Len(t)
      BY <1>1, LenProperties
<1>3. ASSUME NEW k \in DOMAIN s PROVE k \in DOMAIN both /\ both[k] = s[k]
      BY <1>1, <1>2
<1>4. ASSUME NEW k \in DOMAIN t PROVE Len(s) + k \in DOMAIN both /\ both[Len(s) + k] = t[k]
      <2>1. Len(s) + k \in 1 .. Len(s) + Len(t) /\ ~(Len(s) + k <= Len(s)) /\ (Len(s) + k) - Len(s) = k
            BY <1>2
      <2> QED BY <1>1, <1>2, <2>1
<1>5. ASSUME NEW k \in DOMAIN both
      PROVE  \/ k \in DOMAIN s /\ both[k] = s[k]
             \/ \E j \in DOMAIN t : k = Len(s) + j /\ both[k] = t[j]
      <2>1. CASE k <= Len(s)
            BY <1>1, <1>2, <2>1
      <2>2. CASE ~(k <= Len(s))
            <3>1. k - Len(s) \in DOMAIN t /\ k = Len(s) + (k - Len(s))
                  BY <1>2, <2>2
            <3> QED BY <1>1, <1>2, <2>2, <3>1
      <2> QED BY <2>1, <2>2
<1> QED BY <1>1, <1>3, <1>4, <1>5 DEF Joins

\* FlattenSeq appends one sequence after the other.
LEMMA FlattenIs ==
    ASSUME NEW S, NEW seqs \in Seq(Seq(S))
    PROVE  \E flat \in [0 .. Len(seqs) -> Seq(S)] :
              /\ flat[0] = << >>
              /\ \A i \in 1 .. Len(seqs) : flat[i] = flat[i - 1] \o seqs[i]
              /\ FlattenSeq(seqs) = flat[Len(seqs)]
<1> DEFINE n == Len(seqs)
           next == [i \in 1 .. n |-> [s \in Seq(S) |-> s \o seqs[i]]]
<1>1. n \in Nat /\ \A i \in 1 .. n : seqs[i] \in Seq(S)
      BY LenProperties, ElementOfSeq
<1>2. next \in [1 .. n -> [Seq(S) -> Seq(S)]]
      <2>1. ASSUME NEW i \in 1 .. n, NEW s \in Seq(S) PROVE s \o seqs[i] \in Seq(S)
            BY <1>1, ConcatProperties
      <2> QED BY <2>1
<1>3. << >> \in Seq(S)
      OBVIOUS
<1>4. PICK flat \in [0 .. n -> Seq(S)] :
          flat[0] = << >> /\ \A i \in 1 .. n : flat[i] = next[i][flat[i - 1]]
      <2>1. n \in Nat
            BY <1>1
      <2> HIDE DEF next, n
      <2>2. \E flat \in [0 .. n -> Seq(S)] : Follows(flat, n, << >>, next)
            BY <1>2, <1>3, <2>1, Recursion, Zenon
      <2> QED BY <2>2, Zenon DEF Follows
<1>5. ASSUME NEW i \in 1 .. n PROVE flat[i] = flat[i - 1] \o seqs[i] /\ flat[i - 1] \in Seq(S)
      <2>1. i - 1 \in 0 .. n
            BY <1>1
      <2>2. flat[i] = next[i][flat[i - 1]] /\ flat[i - 1] \in Seq(S)
            BY <1>4, <2>1
      <2>3. \A s \in Seq(S) : next[i][s] = s \o seqs[i]
            OBVIOUS
      <2> HIDE DEF n, next
      <2> QED BY <2>2, <2>3
<1>6. CASE n = 0
      <2>1. seqs = << >>
            BY <1>6, EmptySeq
      <2> QED BY <1>4, <1>6, <2>1 DEF FlattenSeq
<1>7. CASE n # 0
      <2> DEFINE Flat == CHOOSE flatten : flatten = [i \in 1 .. Len(seqs) |->
                             IF i = 1 THEN seqs[i] ELSE flatten[i - 1] \o seqs[i]]
                 f == [i \in 1 .. n |-> flat[i]]
      <2>1. FlattenSeq(seqs) = Flat[Len(seqs)]
            BY <1>1, <1>7 DEF FlattenSeq
      <2>2. f = [i \in 1 .. Len(seqs) |-> IF i = 1 THEN seqs[i] ELSE f[i - 1] \o seqs[i]]
            <3>1. ASSUME NEW i \in 1 .. n
                  PROVE  f[i] = IF i = 1 THEN seqs[i] ELSE f[i - 1] \o seqs[i]
                  <4>1. CASE i = 1
                        <5>1. f[i] = << >> \o seqs[i]
                              <6>1. f[i] = flat[i]
                                    OBVIOUS
                              <6>2. i - 1 = 0
                                    BY <4>1
                              <6> HIDE DEF f, n, next
                              <6> QED BY <1>4, <1>5, <6>1, <6>2
                        <5> QED BY <1>1, <4>1, <5>1, ConcatEmptySeq
                  <4>2. CASE i # 1
                        <5>1. i - 1 \in 1 .. n
                              BY <1>1, <4>2
                        <5> QED BY <1>5, <4>2, <5>1
                  <4> QED BY <4>1, <4>2
            <3> QED BY <3>1
      <2> HIDE DEF f
      <2>3. Flat = [i \in 1 .. Len(seqs) |->
                       IF i = 1 THEN seqs[i] ELSE Flat[i - 1] \o seqs[i]]
            BY <2>2
      <2> HIDE DEF Flat
      <2> DEFINE T == {i \in 1 .. n : Flat[i] = flat[i]}
      <2>4. \A i \in 1 .. n : Flat[i] = IF i = 1 THEN seqs[i] ELSE Flat[i - 1] \o seqs[i]
            BY <2>3
      <2>5. 1 \in T
            <3>1. 1 \in 1 .. n /\ Flat[1] = seqs[1]
                  BY <1>1, <1>7, <2>4
            <3>2. flat[1] = << >> \o seqs[1]
                  <4>1. 1 - 1 = 0
                        OBVIOUS
                  <4> HIDE DEF next, n
                  <4> QED BY <1>4, <1>5, <3>1, <4>1
            <3> QED BY <1>1, <3>1, <3>2, ConcatEmptySeq
      <2>6. ASSUME NEW k \in 1 .. n - 1, k \in T PROVE k + 1 \in T
            <3>1. k + 1 \in 1 .. n /\ k + 1 # 1 /\ (k + 1) - 1 = k
                  BY <1>1
            <3>2. Flat[k + 1] = Flat[k] \o seqs[k + 1] /\ flat[k + 1] = flat[k] \o seqs[k + 1]
                  BY <1>5, <2>4, <3>1
            <3> QED BY <2>6, <3>1, <3>2
      <2>7. 1 .. n \subseteq T
            <3> HIDE DEF T, n
            <3>1. 1 \in Int /\ n \in Int /\ (1 <= n => 1 \in T)
                  BY <1>1, <2>5
            <3>2. \A k \in 1 .. n - 1 : k \in T => k + 1 \in T
                  BY <2>6
            <3> QED BY <3>1, <3>2, Climbs, Zenon
      <2>8. Flat[n] = flat[n]
            <3>1. n \in 1 .. n
                  BY <1>1, <1>7
            <3> QED BY <2>7, <3>1
      <2> QED BY <1>4, <1>5, <2>1, <2>8
<1> QED BY <1>6, <1>7

\* The sequence of values an index runs through.
LEMMA Mapped ==
    ASSUME NEW T, NEW over \in Seq(T), NEW S, NEW seqs, seqs = [k \in DOMAIN over |-> seqs[k]],
           \A k \in DOMAIN over : seqs[k] \in S
    PROVE  seqs \in Seq(S) /\ Len(seqs) = Len(over)
<1>1. DOMAIN over = 1 .. Len(over) /\ Len(over) \in Nat
      OBVIOUS
<1>2. seqs = [k \in 1 .. Len(over) |-> seqs[k]] /\ \A k \in 1 .. Len(over) : seqs[k] \in S
      BY <1>1
<1> QED BY <1>1, <1>2

\* A function that starts in a set and stays in it.
LEMMA Stays ==
    ASSUME NEW n \in Nat, NEW T, NEW f, f[0] \in T,
           \A i \in 1 .. n : f[i - 1] \in T => f[i] \in T
    PROVE  \A i \in 0 .. n : f[i] \in T
<1> DEFINE S == {i \in 0 .. n : f[i] \in T}
<1>1. \A i \in 0 .. n - 1 : i \in S => i + 1 \in S
      <2> SUFFICES ASSUME NEW i \in 0 .. n - 1, f[i] \in T PROVE f[i + 1] \in T
            OBVIOUS
      <2>1. i + 1 \in 1 .. n /\ (i + 1) - 1 = i
            OBVIOUS
      <2> QED BY <2>1
<1>2. 0 \in S
      OBVIOUS
<1>3. 0 .. n \subseteq S
      <2> HIDE DEF S
      <2>1. 0 \in Int /\ n \in Int /\ (0 <= n => 0 \in S)
            BY <1>2
      <2> QED BY <1>1, <2>1, Climbs, Zenon
<1> QED BY <1>3

\* Two functions that start alike and go on alike are alike.
GoAlike(n, f, g) == f[0] = g[0] /\ \A i \in 1 .. n : f[i - 1] = g[i - 1] => f[i] = g[i]

Alike(n, f, g) == \A i \in 0 .. n : f[i] = g[i]

LEMMA Determined == ASSUME NEW n \in Nat, NEW f, NEW g, GoAlike(n, f, g) PROVE Alike(n, f, g)
<1> DEFINE S == {i \in 0 .. n : f[i] = g[i]}
<1>1. \A i \in 0 .. n - 1 : i \in S => i + 1 \in S
      <2> SUFFICES ASSUME NEW i \in 0 .. n - 1, f[i] = g[i] PROVE f[i + 1] = g[i + 1]
            OBVIOUS
      <2>1. i + 1 \in 1 .. n /\ (i + 1) - 1 = i
            OBVIOUS
      <2> QED BY <2>1 DEF GoAlike
<1>2. 0 \in S
      BY DEF GoAlike
<1>3. 0 .. n \subseteq S
      <2> HIDE DEF S
      <2>1. 0 \in Int /\ n \in Int /\ (0 <= n => 0 \in S)
            BY <1>2
      <2> QED BY <1>1, <2>1, Climbs, Zenon
<1> QED BY <1>3 DEF Alike

\* Packets of packets.
LEMMA FlattenSent ==
    ASSUME NEW S, NEW seqs \in Seq(Seq(S))
    PROVE  FlattenSeq(seqs) \in Seq(S)
<1>1. PICK flat \in [0 .. Len(seqs) -> Seq(S)] : FlattenSeq(seqs) = flat[Len(seqs)]
      BY FlattenIs
<1>2. Len(seqs) \in 0 .. Len(seqs)
      BY LenProperties
<1> QED BY <1>1, <1>2
\* The concatenations of the first so many sequences.
Flattens(seqs, flat) ==
    flat[0] = << >> /\ \A i \in 1 .. Len(seqs) : flat[i] = flat[i - 1] \o seqs[i]

First(seqs, k) == [i \in 1 .. k |-> seqs[i]]

\* A prefix of the sequences is a prefix of the concatenation.
LEMMA FlattenPrefix ==
    ASSUME NEW S, NEW seqs \in Seq(Seq(S)), NEW flat \in [0 .. Len(seqs) -> Seq(S)], Flattens(seqs, flat),
           NEW k \in 0 .. Len(seqs)
    PROVE  FlattenSeq(First(seqs, k)) = flat[k]
<1> DEFINE first == First(seqs, k)
<1>1. k \in Nat /\ Len(seqs) \in Nat /\ k <= Len(seqs)
      OBVIOUS
<1>2. \A i \in 1 .. k : seqs[i] \in Seq(S) /\ i \in 1 .. Len(seqs) /\ i - 1 \in 0 .. Len(seqs)
      BY <1>1, ElementOfSeq
<1>3. first \in Seq(Seq(S)) /\ Len(first) = k /\ \A i \in 1 .. k : first[i] = seqs[i]
      BY <1>1, <1>2 DEF First
<1> HIDE DEF first
<1>4. PICK short \in [0 .. k -> Seq(S)] :
          /\ short[0] = << >> /\ \A i \in 1 .. k : short[i] = short[i - 1] \o first[i]
          /\ FlattenSeq(first) = short[k]
      BY <1>3, FlattenIs
<1>5. GoAlike(k, short, flat)
      <2>1. short[0] = flat[0]
            BY <1>4 DEF Flattens
      <2>2. ASSUME NEW i \in 1 .. k, short[i - 1] = flat[i - 1] PROVE short[i] = flat[i]
            <3>1. short[i] = short[i - 1] \o seqs[i]
                  BY <1>3, <1>4
            <3>2. flat[i] = flat[i - 1] \o seqs[i]
                  BY <1>2 DEF Flattens
            <3> QED BY <2>2, <3>1, <3>2
      <2> QED BY <2>1, <2>2 DEF GoAlike
<1>6. Alike(k, short, flat)
      BY <1>1, <1>5, Determined, Zenon
<1>7. k \in 0 .. k
      BY <1>1
<1> QED BY <1>4, <1>6, <1>7 DEF Alike, first

\* sequences of the same lengths
Matching(a, b) == Len(a) = Len(b) /\ \A k \in 1 .. Len(a) : Len(a[k]) = Len(b[k])

\* Their concatenations have the same length.
LevelWith(n, f, g) == \A i \in 0 .. n : Len(f[i]) = Len(g[i])

LEMMA MatchingFlat ==
    ASSUME NEW S, NEW a \in Seq(Seq(S)), NEW b \in Seq(Seq(S)), Matching(a, b),
           NEW f \in [0 .. Len(a) -> Seq(S)], Flattens(a, f),
           NEW g \in [0 .. Len(b) -> Seq(S)], Flattens(b, g)
    PROVE  LevelWith(Len(a), f, g)
<1> DEFINE n == Len(a)
           p == [i \in 0 .. n |-> Len(f[i])]
           q == [i \in 0 .. n |-> Len(g[i])]
<1>1. n \in Nat /\ Len(b) = n
      BY DEF Matching
<1>2. GoAlike(n, p, q)
      <2>1. p[0] = q[0]
            BY <1>1 DEF Flattens
      <2>2. ASSUME NEW i \in 1 .. n, p[i - 1] = q[i - 1] PROVE p[i] = q[i]
            <3>1. i \in 0 .. n /\ i - 1 \in 0 .. n
                  BY <1>1
            <3>2. f[i] = f[i - 1] \o a[i] /\ g[i] = g[i - 1] \o b[i]
                  BY <1>1 DEF Flattens
            <3>3. f[i - 1] \in Seq(S) /\ g[i - 1] \in Seq(S) /\ a[i] \in Seq(S) /\ b[i] \in Seq(S)
                  <4>1. i \in 1 .. Len(a) /\ i \in 1 .. Len(b)
                        BY <1>1
                  <4>2. a[i] \in Seq(S) /\ b[i] \in Seq(S)
                        BY <4>1, ElementOfSeq
                  <4> QED BY <1>1, <3>1, <4>2
            <3>4. Len(f[i]) = Len(f[i - 1]) + Len(a[i]) /\ Len(g[i]) = Len(g[i - 1]) + Len(b[i])
                  BY <3>2, <3>3
            <3>5. Len(a[i]) = Len(b[i])
                  BY DEF Matching
            <3> QED BY <2>2, <3>1, <3>4, <3>5
      <2> HIDE DEF p, q
      <2> QED BY <2>1, <2>2 DEF GoAlike
<1> HIDE DEF p, q
<1>3. Alike(n, p, q)
      BY <1>1, <1>2, Determined, Zenon
<1> QED BY <1>3 DEF Alike, LevelWith, p, q

LEMMA MatchingLength ==
    ASSUME NEW S, NEW a \in Seq(Seq(S)), NEW b \in Seq(Seq(S)), Matching(a, b)
    PROVE  Len(FlattenSeq(a)) = Len(FlattenSeq(b))
<1>1. PICK f \in [0 .. Len(a) -> Seq(S)] : Flattens(a, f) /\ FlattenSeq(a) = f[Len(a)]
      BY FlattenIs DEF Flattens
<1>2. PICK g \in [0 .. Len(b) -> Seq(S)] : Flattens(b, g) /\ FlattenSeq(b) = g[Len(b)]
      BY FlattenIs DEF Flattens
<1>3. Len(a) \in 0 .. Len(a) /\ Len(a) = Len(b)
      BY DEF Matching
<1>4. LevelWith(Len(a), f, g)
      BY <1>1, <1>2, MatchingFlat, Zenon
<1> QED BY <1>1, <1>2, <1>3, <1>4 DEF LevelWith

\* what each sequence is read from: where it begins after those before it
ReadFrom(a, v, cells) ==
    \A k \in 1 .. Len(a) : \A j \in 1 .. Len(v[k]) :
        v[k][j] = cells[j + Len(FlattenSeq(First(a, k - 1)))]

LEMMA Beyond ==
    ASSUME NEW p \in Nat, NEW q \in Nat, NEW m \in 1 .. p + q, ~(m <= p)
    PROVE  m - p \in 1 .. q /\ (m - p) + p = m
OBVIOUS

LEMMA Grows ==
    ASSUME NEW p \in Nat, NEW q \in Nat, NEW more \in Nat, p <= q PROVE p <= q + more
OBVIOUS

\* Sequences that are read one after the other are read as one.
LEMMA FlattenReads ==
    ASSUME NEW S, NEW a \in Seq(Seq(S)), NEW v \in Seq(Seq(S)), Matching(a, v), NEW cells, ReadFrom(a, v, cells)
    PROVE  \A n \in 1 .. Len(FlattenSeq(v)) : FlattenSeq(v)[n] = cells[n]
<1> DEFINE n == Len(a)
<1>1. n \in Nat /\ Len(v) = n
      BY DEF Matching
<1>2. PICK f \in [0 .. n -> Seq(S)] : Flattens(a, f) /\ FlattenSeq(a) = f[n]
      BY FlattenIs DEF Flattens
<1>3. PICK g \in [0 .. Len(v) -> Seq(S)] : Flattens(v, g) /\ FlattenSeq(v) = g[Len(v)]
      BY FlattenIs DEF Flattens
<1>4. \A i \in 0 .. n : Len(f[i]) = Len(g[i])
      <2>1. LevelWith(Len(a), f, g)
            BY <1>2, <1>3, MatchingFlat, Zenon
      <2> QED BY <2>1 DEF LevelWith
<1> DEFINE T == {i \in 0 .. n : \A m \in 1 .. Len(g[i]) : g[i][m] = cells[m]}
<1>5. 0 \in T
      BY <1>1, <1>3 DEF Flattens
<1>6. ASSUME NEW i \in 0 .. n - 1, i \in T PROVE i + 1 \in T
      <2> DEFINE k == i + 1
      <2>1. k \in 1 .. n /\ k - 1 = i /\ i \in 0 .. n /\ k \in 0 .. n
            BY <1>1
      <2> HIDE DEF k
      <2>2. g[k] = g[i] \o v[k]
            BY <1>1, <1>3, <2>1 DEF Flattens
      <2>3. g[i] \in Seq(S) /\ v[k] \in Seq(S)
            <3>1. k \in 1 .. Len(v) /\ i \in 0 .. Len(v)
                  BY <1>1, <2>1
            <3> QED BY <3>1, ElementOfSeq
      <2>4. FlattenSeq(First(a, i)) = f[i]
            BY <1>2, <2>1, FlattenPrefix, Zenon
      <2>5. \A j \in 1 .. Len(v[k]) : v[k][j] = cells[j + Len(g[i])]
            <3>1. k - 1 = i
                  BY <2>1
            <3>2. \A j \in 1 .. Len(v[k]) : v[k][j] = cells[j + Len(FlattenSeq(First(a, k - 1)))]
                  BY <2>1 DEF ReadFrom
            <3>3. FlattenSeq(First(a, k - 1)) = f[i]
                  BY <2>4, <3>1
            <3>4. Len(f[i]) = Len(g[i])
                  BY <1>4, <2>1
            <3> QED BY <3>2, <3>3, <3>4
      <2>6. ASSUME NEW m \in 1 .. Len(g[k]) PROVE g[k][m] = cells[m]
            <3>1. Len(g[i]) \in Nat /\ Len(v[k]) \in Nat /\ Len(g[k]) = Len(g[i]) + Len(v[k])
                  BY <2>2, <2>3
            <3>2. g[k][m] = IF m <= Len(g[i]) THEN g[i][m] ELSE v[k][m - Len(g[i])]
                  BY <2>2, <2>3, <2>6, <3>1, ConcatProperties
            <3>3. CASE m <= Len(g[i])
                  <4>1. m \in 1 .. Len(g[i])
                        BY <2>6, <3>1, <3>3
                  <4> QED BY <1>6, <3>2, <3>3, <4>1
            <3>4. CASE ~(m <= Len(g[i]))
                  <4>1. m \in 1 .. Len(g[i]) + Len(v[k])
                        BY <3>1, Zenon
                  <4>2. m - Len(g[i]) \in 1 .. Len(v[k]) /\ (m - Len(g[i])) + Len(g[i]) = m
                        BY <3>1, <3>4, <4>1, Beyond, Zenon
                  <4> QED BY <2>5, <3>2, <3>4, <4>2
            <3> QED BY <3>3, <3>4
      <2> QED BY <2>1, <2>6 DEF k
<1>7. n \in T
      <2> HIDE DEF T
      <2>1. 0 \in Int /\ n \in Int /\ (0 <= n => 0 \in T)
            BY <1>1, <1>5
      <2>2. \A i \in 0 .. n - 1 : i \in T => i + 1 \in T
            BY <1>6
      <2>3. 0 .. n \subseteq T
            BY <2>1, <2>2, Climbs, Zenon
      <2> QED BY <1>1, <2>3, SMTT(30)
<1>8. FlattenSeq(v) = g[n] /\ \A m \in 1 .. Len(g[n]) : g[n][m] = cells[m]
      BY <1>1, <1>3, <1>7
<1> QED BY <1>8, Zenon
\* Every sequence has its room in the concatenation.
LEMMA FlattenRoom ==
    ASSUME NEW S, NEW seqs \in Seq(Seq(S)), NEW k \in 1 .. Len(seqs)
    PROVE  /\ Len(FlattenSeq(First(seqs, k - 1))) \in Nat /\ Len(seqs[k]) \in Nat
           /\ Len(FlattenSeq(First(seqs, k - 1))) + Len(seqs[k]) <= Len(FlattenSeq(seqs))
<1> DEFINE n == Len(seqs)
<1>1. n \in Nat /\ k \in 1 .. n /\ k - 1 \in 0 .. n /\ k \in Int /\ n \in Int
      OBVIOUS
<1>2. PICK f \in [0 .. n -> Seq(S)] : Flattens(seqs, f) /\ FlattenSeq(seqs) = f[n]
      BY FlattenIs DEF Flattens
<1>3. \A i \in 1 .. n : /\ f[i - 1] \in Seq(S) /\ f[i] \in Seq(S) /\ seqs[i] \in Seq(S)
                        /\ f[i] = f[i - 1] \o seqs[i]
      <2> SUFFICES ASSUME NEW i \in 1 .. n
                   PROVE  /\ f[i - 1] \in Seq(S) /\ f[i] \in Seq(S) /\ seqs[i] \in Seq(S)
                          /\ f[i] = f[i - 1] \o seqs[i]
            OBVIOUS
      <2>1. i - 1 \in 0 .. n /\ i \in 0 .. n
            BY <1>1
      <2> QED BY <1>2, <2>1, ElementOfSeq DEF Flattens
<1>4. \A i \in 1 .. n : /\ Len(f[i - 1]) \in Nat /\ Len(seqs[i]) \in Nat /\ Len(f[i]) \in Nat
                        /\ Len(f[i]) = Len(f[i - 1]) + Len(seqs[i])
      <2> SUFFICES ASSUME NEW i \in 1 .. n
                   PROVE  /\ Len(f[i - 1]) \in Nat /\ Len(seqs[i]) \in Nat /\ Len(f[i]) \in Nat
                          /\ Len(f[i]) = Len(f[i - 1]) + Len(seqs[i])
            OBVIOUS
      <2>1. /\ f[i - 1] \in Seq(S) /\ f[i] \in Seq(S) /\ seqs[i] \in Seq(S)
            /\ f[i] = f[i - 1] \o seqs[i]
            BY <1>3
      <2> QED BY <2>1, LenProperties, ConcatProperties, ZenonT(40)
<1> DEFINE T == {i \in k .. n : Len(f[k]) <= Len(f[i])}
<1>5. k <= n => k \in T
      BY <1>1, <1>4
<1>6. \A i \in k .. n - 1 : i \in T => i + 1 \in T
      <2> SUFFICES ASSUME NEW i \in k .. n - 1, i \in T PROVE i + 1 \in T
            OBVIOUS
      <2>1. i + 1 \in 1 .. n /\ (i + 1) - 1 = i /\ i + 1 \in k .. n
            BY <1>1
      <2>2. Len(f[k]) \in Nat /\ Len(f[k]) <= Len(f[i])
            BY <1>1, <1>4
      <2>3. Len(f[i + 1]) = Len(f[i]) + Len(seqs[i + 1]) /\ Len(f[i]) \in Nat /\ Len(seqs[i + 1]) \in Nat
            BY <1>4, <2>1
      <2>4. Len(f[k]) <= Len(f[i]) + Len(seqs[i + 1])
            <3> HIDE DEF n, T
            <3> QED BY <2>2, <2>3, Grows, Zenon
      <2>5. Len(f[k]) <= Len(f[i + 1])
            BY <2>3, <2>4, Zenon
      <2> QED BY <2>1, <2>5
<1>7. n \in T
      <2> HIDE DEF T, n
      <2>1. k .. n \subseteq T
            BY <1>1, <1>5, <1>6, Climbs, Zenon
      <2> QED BY <1>1, <2>1
<1>8. FlattenSeq(First(seqs, k - 1)) = f[k - 1]
      BY <1>1, <1>2, FlattenPrefix, Zenon
<1> QED BY <1>1, <1>2, <1>4, <1>7, <1>8
-----------------------------------------------------------------------------
(* Slices *)

\* A slice and the next element are a slice.
LEMMA SliceGrows ==
    ASSUME NEW S, NEW s \in Seq(S), NEW k \in 1 .. Len(s)
    PROVE  Append(SubSeq(s, 1, k - 1), s[k]) = SubSeq(s, 1, k)
<1> DEFINE a == SubSeq(s, 1, k - 1)
           b == SubSeq(s, 1, k)
<1>1. Len(s) \in Nat /\ k \in Nat /\ k >= 1 /\ s[k] \in S
      BY ElementOfSeq, LenProperties
<1>2. a \in Seq(S) /\ Len(a) = k - 1 /\ \A i \in 1 .. k - 1 : a[i] = s[i]
      <2>1. 1 \in 1 .. Len(s) + 1 /\ k - 1 \in 0 .. Len(s)
            BY <1>1
      <2> QED BY <1>1, <2>1, SubSeqProperties
<1>3. b \in Seq(S) /\ Len(b) = k /\ \A i \in 1 .. k : b[i] = s[i]
      <2>1. 1 \in 1 .. Len(s) + 1 /\ k \in 0 .. Len(s)
            BY <1>1
      <2> QED BY <1>1, <2>1, SubSeqProperties
<1> HIDE DEF a, b
<1>4. /\ Append(a, s[k]) \in Seq(S) /\ Len(Append(a, s[k])) = k
      /\ \A i \in 1 .. k : Append(a, s[k])[i] = s[i]
      <2>1. /\ Append(a, s[k]) \in Seq(S) /\ Len(Append(a, s[k])) = (k - 1) + 1
            /\ \A i \in 1 .. k - 1 : Append(a, s[k])[i] = a[i]
            /\ Append(a, s[k])[(k - 1) + 1] = s[k]
            BY <1>1, <1>2, AppendProperties
      <2> QED BY <1>1, <1>2, <2>1
<1>5. Append(a, s[k]) = b
      BY <1>3, <1>4, SeqEqual
<1> QED BY <1>5 DEF a, b

\* what is left of a sequence when t of its elements are read
LeftOf(f, t) == SubSeq(f, t + 1, Len(f))

\* Reading it from the front.
LEMMA LeftOfIs ==
    ASSUME NEW S, NEW f \in Seq(S)
    PROVE  /\ \A t \in 0 .. Len(f) - 1 :
                 /\ LeftOf(f, t) # << >> /\ Head(LeftOf(f, t)) = f[t + 1]
                 /\ Tail(LeftOf(f, t)) = LeftOf(f, t + 1)
           /\ LeftOf(f, 0) = f /\ LeftOf(f, Len(f)) = << >>
<1>1. Len(f) \in Nat
      BY LenProperties
<1>2. ASSUME NEW t \in 0 .. Len(f) - 1
      PROVE  /\ LeftOf(f, t) # << >> /\ Head(LeftOf(f, t)) = f[t + 1]
             /\ Tail(LeftOf(f, t)) = LeftOf(f, t + 1)
      <2>1. t + 1 \in 1 .. Len(f) /\ Len(f) \in t + 1 .. Len(f)
            BY <1>1
      <2>2. Head(LeftOf(f, t)) = f[t + 1] /\ Tail(LeftOf(f, t)) = LeftOf(f, t + 1)
            BY <2>1, HeadTailOfSubSeq DEF LeftOf
      <2>3. \A i \in t + 1 .. Len(f) : f[i] \in S
            BY <2>1, ElementOfSeq
      <2>4. t + 1 \in Int /\ Len(f) \in Int /\ t + 1 <= Len(f)
            BY <1>1, <2>1
      <2>5. Len(LeftOf(f, t)) = Len(f) - (t + 1) + 1
            BY <2>3, <2>4, SubSeqProperties DEF LeftOf
      <2>6. Len(LeftOf(f, t)) # 0
            BY <2>4, <2>5
      <2> QED BY <2>2, <2>6, EmptySeq
<1>3. LeftOf(f, 0) = f
      BY SubSeqFull DEF LeftOf
<1>4. LeftOf(f, Len(f)) = << >>
      <2>1. Len(f) + 1 \in Int /\ Len(f) \in Int /\ Len(f) < Len(f) + 1
            BY <1>1
      <2> QED BY <2>1, SubSeqEmpty DEF LeftOf
<1> QED BY <1>2, <1>3, <1>4

\* Empty sequences at the end add nothing.
LEMMA FlattenTail ==
    ASSUME NEW S, NEW seqs \in Seq(Seq(S)), NEW n \in 0 .. Len(seqs),
           \A i \in n + 1 .. Len(seqs) : seqs[i] = << >>
    PROVE  FlattenSeq(seqs) = FlattenSeq(First(seqs, n))
<1>1. PICK flat \in [0 .. Len(seqs) -> Seq(S)] : Flattens(seqs, flat) /\ FlattenSeq(seqs) = flat[Len(seqs)]
      BY FlattenIs DEF Flattens
<1>2. FlattenSeq(First(seqs, n)) = flat[n]
      BY <1>1, FlattenPrefix
<1> DEFINE m == Len(seqs)
           T == {i \in n .. m : flat[i] = flat[n]}
<1>3. m \in Nat /\ n \in Nat /\ n <= m
      OBVIOUS
<1>4. \A i \in n .. m - 1 : i \in T => i + 1 \in T
      <2> SUFFICES ASSUME NEW i \in n .. m - 1, flat[i] = flat[n] PROVE i + 1 \in T
            OBVIOUS
      <2>1. i + 1 \in 1 .. m /\ i + 1 \in n + 1 .. m /\ (i + 1) - 1 = i /\ i \in 0 .. m /\ i + 1 \in n .. m
            BY <1>3
      <2>2. flat[i + 1] = flat[i] \o seqs[i + 1] /\ seqs[i + 1] = << >>
            BY <1>1, <2>1 DEF Flattens
      <2>3. flat[i] \in Seq(S)
            BY <1>1, <2>1
      <2>4. flat[i + 1] = flat[i]
            BY <2>2, <2>3, ConcatEmptySeq
      <2> QED BY <2>1, <2>4
<1>5. n \in T
      BY <1>3
<1>6. n .. m \subseteq T
      <2> HIDE DEF T, m
      <2>1. n \in Int /\ m \in Int /\ (n <= m => n \in T)
            BY <1>3, <1>5
      <2> QED BY <1>4, <2>1, Climbs, Zenon
<1>7. flat[m] = flat[n]
      <2>1. m \in n .. m
            BY <1>3
      <2> QED BY <1>6, <2>1
<1> QED BY <1>1, <1>2, <1>7

\* One more sequence comes last.
LEMMA FlattenAppend ==
    ASSUME NEW S, NEW seqs \in Seq(Seq(S)), NEW last \in Seq(S)
    PROVE  FlattenSeq(Append(seqs, last)) = FlattenSeq(seqs) \o last
<1> DEFINE n == Len(seqs)
           more == Append(seqs, last)
<1>1. /\ more \in Seq(Seq(S)) /\ n \in Nat /\ Len(more) = n + 1
      /\ \A i \in 1 .. n : more[i] = seqs[i]
      /\ more[n + 1] = last
      BY AppendProperties
<1> HIDE DEF more
<1>2. PICK flat \in [0 .. Len(more) -> Seq(S)] : Flattens(more, flat) /\ FlattenSeq(more) = flat[Len(more)]
      BY <1>1, FlattenIs DEF Flattens
<1>3. n \in 0 .. Len(more) /\ n + 1 \in 1 .. Len(more) /\ (n + 1) - 1 = n
      BY <1>1
<1>4. FlattenSeq(First(more, n)) = flat[n]
      <2> HIDE DEF n
      <2> QED BY <1>1, <1>2, <1>3, FlattenPrefix
<1>5. First(more, n) = seqs
      <2>1. seqs = [i \in 1 .. n |-> seqs[i]]
            OBVIOUS
      <2>2. First(more, n) = [i \in 1 .. n |-> seqs[i]]
            <3> HIDE DEF n
            <3> QED BY <1>1 DEF First
      <2> QED BY <2>1, <2>2
<1>6. flat[n + 1] = flat[n] \o last
      <2>1. flat[n + 1] = flat[(n + 1) - 1] \o more[n + 1]
            BY <1>2, <1>3 DEF Flattens
      <2> QED BY <1>1, <1>3, <2>1
<1> QED BY <1>1, <1>2, <1>4, <1>5, <1>6 DEF more

\* One element after the first so many.
LEMMA FirstGrows ==
    ASSUME NEW S, NEW s \in Seq(S), NEW i \in 1 .. Len(s)
    PROVE  First(s, i - 1) \o <<s[i]>> = First(s, i)
<1> DEFINE p == First(s, i - 1)
           q == <<s[i]>>
           r == First(s, i)
<1>1. \A k \in 1 .. i : s[k] \in S
      BY LenProperties, ElementOfSeq
<1>2. p \in Seq(S) /\ Len(p) = i - 1 /\ \A k \in 1 .. i - 1 : p[k] = s[k]
      BY <1>1 DEF First
<1>3. q \in Seq(S) /\ Len(q) = 1 /\ q[1] = s[i]
      BY <1>1
<1>4. r \in Seq(S) /\ Len(r) = i /\ \A k \in 1 .. i : r[k] = s[k]
      BY <1>1 DEF First
<1> HIDE DEF p, q, r
<1>5. /\ p \o q \in Seq(S) /\ Len(p \o q) = i
      /\ \A k \in 1 .. i : (p \o q)[k] = IF k <= i - 1 THEN p[k] ELSE q[k - (i - 1)]
      <2>1. /\ p \o q \in Seq(S) /\ Len(p \o q) = Len(p) + Len(q)
            /\ \A k \in 1 .. Len(p) + Len(q) : (p \o q)[k] = IF k <= Len(p) THEN p[k] ELSE q[k - Len(p)]
            BY <1>2, <1>3, ConcatProperties
      <2>2. Len(p) = i - 1 /\ Len(p) + Len(q) = i
            BY <1>2, <1>3
      <2> QED BY <2>1, <2>2, Zenon
<1>6. \A k \in 1 .. i : (p \o q)[k] = r[k]
      <2> SUFFICES ASSUME NEW k \in 1 .. i PROVE (p \o q)[k] = r[k]
            OBVIOUS
      <2>1. k <= i - 1 \/ (k = i /\ ~(k <= i - 1) /\ k - (i - 1) = 1)
            OBVIOUS
      <2> QED BY <1>2, <1>3, <1>4, <1>5, <2>1
<1>7. p \o q = r
      BY <1>4, <1>5, <1>6, SeqEqual
<1> QED BY <1>7 DEF p, q, r

\* Sequences of one put together.
LEMMA FlattenSingles ==
    ASSUME NEW S, NEW single \in Seq(S), NEW seqs,
           seqs = [k \in DOMAIN single |-> <<single[k]>>]
    PROVE  FlattenSeq(seqs) = single
<1> DEFINE n == Len(single)
<1>1. n \in Nat /\ DOMAIN single = 1 .. n /\ single = [k \in 1 .. n |-> single[k]]
      OBVIOUS
<1>2. \A k \in 1 .. n : seqs[k] = <<single[k]>> /\ single[k] \in S /\ seqs[k] \in Seq(S)
      BY <1>1
<1>3. seqs \in Seq(Seq(S)) /\ Len(seqs) = n
      BY <1>1, <1>2
<1>4. PICK flat \in [0 .. n -> Seq(S)] :
          /\ flat[0] = << >> /\ \A i \in 1 .. n : flat[i] = flat[i - 1] \o seqs[i]
          /\ FlattenSeq(seqs) = flat[n]
      <2> HIDE DEF n
      <2>1. \E flat \in [0 .. Len(seqs) -> Seq(S)] :
                /\ flat[0] = << >> /\ \A i \in 1 .. Len(seqs) : flat[i] = flat[i - 1] \o seqs[i]
                /\ FlattenSeq(seqs) = flat[Len(seqs)]
            BY <1>3, FlattenIs
      <2> QED BY <1>3, <2>1, Zenon
<1> DEFINE g == [i \in 0 .. n |-> First(single, i)]
<1>5. GoAlike(n, flat, g)
      <2>1. flat[0] = g[0]
            <3>1. First(single, 0) = << >>
                  BY DEF First
            <3>2. 0 \in 0 .. n
                  BY <1>1
            <3> QED BY <1>4, <3>1, <3>2
      <2>2. ASSUME NEW i \in 1 .. n, flat[i - 1] = g[i - 1] PROVE flat[i] = g[i]
            <3>1. i \in 0 .. n /\ i - 1 \in 0 .. n /\ i - 1 \in Nat
                  BY <1>1
            <3>2. flat[i] = First(single, i - 1) \o <<single[i]>>
                  <4>1. flat[i] = g[i - 1] \o <<single[i]>>
                        BY <1>2, <1>4, <2>2
                  <4> QED BY <3>1, <4>1
            <3>3. First(single, i - 1) \o <<single[i]>> = First(single, i)
                  BY FirstGrows
            <3> QED BY <3>1, <3>2, <3>3
      <2> HIDE DEF g
      <2> QED BY <2>1, <2>2 DEF GoAlike
<1>6. flat[n] = g[n]
      <2>1. n \in 0 .. n
            BY <1>1
      <2> HIDE DEF g, n
      <2>2. Alike(n, flat, g)
            BY <1>1, <1>5, Determined, Zenon
      <2> QED BY <2>1, <2>2 DEF Alike
<1>7. g[n] = single
      <2>1. n \in 0 .. n
            BY <1>1
      <2> QED BY <1>1, <2>1 DEF First
<1> QED BY <1>4, <1>6, <1>7

-----------------------------------------------------------------------------
(* The fixed-width types, with their literal bounds out of the provers' sight  *)

\* A uint16_t is an integer of at most 65535.
LEMMA WordDef == \A n : n \in Word <=> n \in Int /\ 0 <= n /\ n <= 65535
<1> DEFINE top == 65535
<1>1. Word = 0..top /\ top \in Int
  BY DEF Word
<1>2. \A n : n \in Word <=> n \in Int /\ 0 <= n /\ n <= top
  <2> HIDE DEF top
  <2> QED BY <1>1
<1> QED
  BY <1>2

\* A uint8_t is an integer of at most 255.
LEMMA ByteDef == \A n : n \in Byte <=> n \in Int /\ 0 <= n /\ n <= 255
<1> DEFINE top == 255
<1>1. Byte = 0..top /\ top \in Int
  BY DEF Byte
<1>2. \A n : n \in Byte <=> n \in Int /\ 0 <= n /\ n <= top
  <2> HIDE DEF top
  <2> QED BY <1>1
<1> QED
  BY <1>2

\* The bitfields of eui_header_t and of the parser.
LEMMA BitsDef ==
    \A n : /\ n \in Bit    <=> n \in Int /\ 0 <= n /\ n <= 1
           /\ n \in Bits3  <=> n \in Int /\ 0 <= n /\ n <= 7
           /\ n \in Bits4  <=> n \in Int /\ 0 <= n /\ n <= 15
           /\ n \in Bits10 <=> n \in Int /\ 0 <= n /\ n <= 1023
<1> DEFINE t1 == 1
           t3 == 7
           t4 == 15
           t10 == 1023
<1>1. Bit = 0..t1 /\ Bits3 = 0..t3 /\ Bits4 = 0..t4 /\ Bits10 = 0..t10
  BY DEF Bit, Bits3, Bits4, Bits10
<1>2. t1 \in Int /\ t3 \in Int /\ t4 \in Int /\ t10 \in Int
  OBVIOUS
<1>3. \A n : /\ n \in Bit    <=> n \in Int /\ 0 <= n /\ n <= t1
             /\ n \in Bits3  <=> n \in Int /\ 0 <= n /\ n <= t3
             /\ n \in Bits4  <=> n \in Int /\ 0 <= n /\ n <= t4
             /\ n \in Bits10 <=> n \in Int /\ 0 <= n /\ n <= t10
  <2> HIDE DEF t1, t3, t4, t10
  <2> QED BY <1>1, <1>2
<1> QED
  BY <1>3

-----------------------------------------------------------------------------
(* The checksum *)

\* The exclusive or of two groups of four bits fits in four bits.
LEMMA NibbleType ==
    ASSUME NEW a \in Int, NEW b \in Int
    PROVE  XorNibble(a, b) \in Int /\ 0 <= XorNibble(a, b) /\ XorNibble(a, b) <= 15
BY DEF XorNibble, XorBit

\* The exclusive or of two groups of eight bits fits in eight bits.
LEMMA XorByteType ==
    ASSUME NEW a \in Int, NEW b \in Int
    PROVE  XorByte(a, b) \in Int /\ 0 <= XorByte(a, b) /\ XorByte(a, b) <= 255
<1> DEFINE low  == XorNibble(a % 16, b % 16)
           high == XorNibble(a \div 16, b \div 16)
<1>1. low \in Int /\ 0 <= low /\ low <= 15
  BY NibbleType
<1>2. high \in Int /\ 0 <= high /\ high <= 15
  BY NibbleType
<1>3. XorByte(a, b) = low + 16 * high
  BY DEF XorByte
<1> HIDE DEF low, high
<1> QED
  BY <1>1, <1>2, <1>3

\* The exclusive or of two words is a word.
LEMMA XorType ==
    ASSUME NEW a \in Word, NEW b \in Word
    PROVE  Xor[<<a, b>>] \in Word
<1> DEFINE low  == XorByte(a % 256, b % 256)
           high == XorByte(a \div 256, b \div 256)
<1>1. /\ a % 256 \in Int /\ a \div 256 \in Int
      /\ b % 256 \in Int /\ b \div 256 \in Int
  BY WordDef
<1>2. low \in Int /\ 0 <= low /\ low <= 255
  BY <1>1, XorByteType
<1>3. high \in Int /\ 0 <= high /\ high <= 255
  BY <1>1, XorByteType
<1>4. Xor[<<a, b>>] = low + 256 * high
  <2>1. <<a, b>> \in Word \X Word
    OBVIOUS
  <2> QED
    BY <2>1 DEF Xor
<1> HIDE DEF low, high
<1>5. low + 256 * high \in Int /\ 0 <= low + 256 * high /\ low + 256 * high <= 65535
  BY <1>2, <1>3
<1> QED
  BY <1>4, <1>5, WordDef

\* A checksum step maps a word and a byte to a word.
LEMMA CrcType ==
    ASSUME NEW data \in Byte, NEW crc \in Word
    PROVE  Crc16(data, crc) \in Word
<1> DEFINE swapped == crc \div 256 + (crc % 256) * 256
           mixed   == Xor[<<swapped, data>>]
           nibble  == Xor[<<mixed, (mixed % 256) \div 16>>]
           high    == Xor[<<nibble, (nibble * 4096) % 65536>>]
<1>1. swapped \in Word /\ data \in Word
  BY WordDef, ByteDef
<1>2. mixed \in Word
  <2> HIDE DEF swapped
  <2> QED BY <1>1, XorType
<1>3. nibble \in Word
  <2> HIDE DEF mixed
  <2>1. (mixed % 256) \div 16 \in Word
    BY <1>2, WordDef
  <2> QED BY <1>2, <2>1, XorType
<1>4. high \in Word
  <2> HIDE DEF nibble
  <2>1. (nibble * 4096) % 65536 \in Word
    BY <1>3, WordDef
  <2> QED BY <1>3, <2>1, XorType
<1>5. Xor[<<high, (high % 256) * 32>>] \in Word
  <2> HIDE DEF high
  <2>1. (high % 256) * 32 \in Word
    BY <1>4, WordDef
  <2> QED BY <1>4, <2>1, XorType
<1> QED
  BY <1>5 DEF Crc16

-----------------------------------------------------------------------------
(* Addresses *)

\* A word reduced to 16 bits is one.
LEMMA Reduced == \A n \in Int : n % 65536 \in Word
<1> SUFFICES ASSUME NEW n \in Int PROVE n % 65536 \in Word
  OBVIOUS
<1>1. n % 65536 \in Int /\ 0 <= n % 65536 /\ n % 65536 <= 65535
  OBVIOUS
<1> QED
  BY <1>1, WordDef

\* The element sizes of the types.
LEMMA TypeSizes == \A type : TypeSize(type) \in {1, 2, 4, 8}
BY DEF TypeSize

\* An aligned address is a word.
LEMMA AlignedWord ==
    ASSUME NEW addr \in Word, NEW type
    PROVE  AlignUp(addr, type) \in Word
<1> DEFINE element == TypeSize(type)
           rounded == ((addr + (element - 1)) \div element) * element
<1>1. element \in Int /\ element > 0
  BY TypeSizes
<1>2. addr \in Int
  BY WordDef
<1> HIDE DEF element
<1>3. (addr + (element - 1)) \div element \in Int
  BY <1>1, <1>2
<1>4. rounded \in Int
  BY <1>1, <1>3
<1> HIDE DEF rounded
<1>5. rounded % 65536 \in Word
  BY <1>4, Reduced
<1> QED
  BY <1>5 DEF AlignUp, rounded, element

\* The announced range is a pair of words.
LEMMA RangeType ==
    ASSUME NEW base \in Word, NEW offset \in Word, NEW type, NEW size \in Word
    PROVE  /\ ValidateOffsetRange(base, offset, type, size).start \in Word
           /\ ValidateOffsetRange(base, offset, type, size).end \in Word
<1> DEFINE end   == IF offset > size \/ offset = 0 THEN size ELSE AlignUp(offset, type)
           start == IF AlignUp(base, type) >= end
                    THEN (end - TypeSize(type)) % 65536
                    ELSE AlignUp(base, type)
<1>1. end \in Word
  BY AlignedWord
<1> HIDE DEF end
<1>2. end - TypeSize(type) \in Int
  BY <1>1, WordDef, TypeSizes
<1>3. start \in Word
  BY <1>2, Reduced, AlignedWord
<1> HIDE DEF start
<1> QED
  BY <1>1, <1>3 DEF ValidateOffsetRange, start, end

\* The two bytes of a word.
LEMMA LittleEndianType == ASSUME NEW word \in Word PROVE LittleEndian(word) \in Seq(Byte) /\ Len(LittleEndian(word)) = 2
<1>1. word \in Int /\ 0 <= word /\ word <= 65535
      BY WordDef
<1>2. word % 256 \in Byte /\ word \div 256 \in Byte
      BY <1>1, ByteDef
<1> QED BY <1>2 DEF LittleEndian
-----------------------------------------------------------------------------
(* Framing *)

\* What encode_framing is given: framing bytes to fill in at both ends, and no 255
\* bytes in a row without a zero.  Index i of the C array is position i + 1.
Stuffable(plain) ==
    /\ plain \in Seq(Byte) /\ Len(plain) >= 3
    /\ plain[1] = 0 /\ plain[2] = 0 /\ plain[Len(plain)] = 0
    /\ \A k \in 0 .. Len(plain) - 255 : \E j \in k .. k + 254 : plain[j + 1] = 0

\* code is the distance from index k to the next zero
ToNextZero(plain, k, code) ==
    /\ code \in Int /\ 1 <= code /\ code <= 255 /\ k + code <= Len(plain) - 1
    /\ plain[k + code + 1] = 0
    /\ \A j \in k + 1 .. k + code - 1 : plain[j + 1] # 0

\* index k is done: a byte of the packet, or the distance to the next zero
Stuffed(plain, k, byte) ==
    IF plain[k + 1] = 0 THEN ToNextZero(plain, k, byte) ELSE byte = plain[k + 1]

\* what encode_framing has made of the buffer when it is past index i
Scanned(plain, s, i) ==
    /\ s = [buffer |-> s.buffer, previous_null |-> s.previous_null]
    /\ s.buffer \in [1 .. Len(plain) -> Byte]
    /\ s.previous_null \in 0 .. i
    /\ plain[s.previous_null + 1] = 0
    /\ \A k \in s.previous_null + 1 .. i : plain[k + 1] # 0
    /\ \A k \in s.previous_null .. Len(plain) - 1 : s.buffer[k + 1] = plain[k + 1]
    /\ \A k \in 1 .. s.previous_null - 1 : Stuffed(plain, k, s.buffer[k + 1])

\* the whole frame
Framed(plain, frame) ==
    /\ frame \in [1 .. Len(plain) -> Byte]
    /\ frame[1] = 0 /\ frame[Len(plain)] = 0
    /\ \A k \in 1 .. Len(plain) - 2 : Stuffed(plain, k, frame[k + 1])

LEMMA ScanStarts ==
    ASSUME NEW plain, Stuffable(plain)
    PROVE  Scanned(plain, [buffer |-> plain, previous_null |-> 0], 0)
<1>1. plain \in [1 .. Len(plain) -> Byte] /\ Len(plain) \in Nat
      BY DEF Stuffable
<1> QED BY <1>1 DEF Stuffable, Scanned

\* Within a block the distance to its code byte does not wrap.
LEMMA BlockIsShort ==
    ASSUME NEW plain, Stuffable(plain), NEW i \in 1 .. Len(plain) - 1, NEW z \in 0 .. i - 1,
           \A k \in z + 1 .. i - 1 : plain[k + 1] # 0
    PROVE  /\ i - z \in Int /\ 1 <= i - z /\ i - z <= 255 /\ (i - z) % 256 = i - z
           /\ plain[i + 1] # 0 => i - z # 255
<1>0. Len(plain) \in Nat /\ i \in Int /\ z \in Int
      BY DEF Stuffable
<1>1. i - z <= 255
      <2> SUFFICES ASSUME i - z > 255 PROVE FALSE
            BY <1>0
      <2>1. z + 1 \in 0 .. Len(plain) - 255
            BY <1>0
      <2>2. PICK j \in z + 1 .. z + 1 + 254 : plain[j + 1] = 0
            BY <2>1 DEF Stuffable
      <2>3. j \in z + 1 .. i - 1
            BY <1>0
      <2> QED BY <2>2, <2>3
<1>2. i - z \in Int /\ 1 <= i - z /\ i - z <= 255
      BY <1>0, <1>1
<1>3. (i - z) % 256 = i - z
      BY <1>2
<1>4. ASSUME plain[i + 1] # 0, i - z = 255 PROVE FALSE
      <2>1. z + 1 \in 0 .. Len(plain) - 255
            BY <1>0, <1>4
      <2>2. PICK j \in z + 1 .. z + 1 + 254 : plain[j + 1] = 0
            BY <2>1 DEF Stuffable
      <2>3. j \in z + 1 .. i - 1 \/ j = i
            BY <1>0, <1>4
      <2> QED BY <1>4, <2>2, <2>3
<1> QED BY <1>2, <1>3, <1>4

\* One iteration of the loop of encode_framing.
LEMMA ScanStep ==
    ASSUME NEW plain, Stuffable(plain), NEW i \in 1 .. Len(plain) - 1, NEW s, Scanned(plain, s, i - 1)
    PROVE  Scanned(plain, FramingStep(s, i), i)
<1> DEFINE z == s.previous_null
           n == Len(plain)
<1>1. /\ n \in Nat /\ z \in 0 .. i - 1 /\ plain[z + 1] = 0
      /\ s = [buffer |-> s.buffer, previous_null |-> z] /\ s.buffer \in [1 .. n -> Byte]
      /\ \A k \in z + 1 .. i - 1 : plain[k + 1] # 0
      /\ \A k \in z .. n - 1 : s.buffer[k + 1] = plain[k + 1]
      /\ \A k \in 1 .. z - 1 : Stuffed(plain, k, s.buffer[k + 1])
      BY DEF Stuffable, Scanned
<1> HIDE DEF z, n
<1>2. /\ i - z \in Int /\ 1 <= i - z /\ i - z <= 255 /\ (i - z) % 256 = i - z
      /\ plain[i + 1] # 0 => i - z # 255
      BY <1>1, BlockIsShort DEF n
<1>3. s.buffer[i + 1] = plain[i + 1] /\ i \in 1 .. n - 1
      BY <1>1 DEF n
<1>4. CASE plain[i + 1] # 0
      <2>1. FramingStep(s, i) = s
            BY <1>2, <1>3, <1>4 DEF FramingStep, z
      <2>2. \A k \in z + 1 .. i : plain[k + 1] # 0
            BY <1>1, <1>3, <1>4
      <2>3. z \in 0 .. i
            BY <1>1, <1>3
      <2> QED BY <1>1, <2>1, <2>2, <2>3 DEF Scanned, z, n
<1>5. CASE plain[i + 1] = 0
      <2> DEFINE q == FramingStep(s, i)
      <2>1. q = [buffer |-> [s.buffer EXCEPT ![z + 1] = i - z], previous_null |-> i]
            BY <1>2, <1>3, <1>5 DEF FramingStep, CloseBlock, z
      <2> HIDE DEF q
      <2>2. q.buffer = [s.buffer EXCEPT ![z + 1] = i - z] /\ q.previous_null = i
            /\ q = [buffer |-> q.buffer, previous_null |-> q.previous_null]
            BY <2>1
      <2>3. i - z \in Byte /\ z \in Int /\ z + 1 \in 1 .. n
            BY <1>1, <1>2, <1>3, ByteDef, SMTT(30)
      <2>4. q.buffer \in [1 .. n -> Byte]
            BY <1>1, <2>2, <2>3
      <2>5. \A k \in 0 .. n - 1 : q.buffer[k + 1] = IF k = z THEN i - z ELSE s.buffer[k + 1]
            BY <1>1, <2>2, <2>3
      <2>6. ASSUME NEW k \in i .. n - 1 PROVE q.buffer[k + 1] = plain[k + 1]
            <3>1. k \in 0 .. n - 1 /\ k \in z .. n - 1 /\ k # z
                  BY <1>1, <1>3
            <3> QED BY <1>1, <2>5, <3>1
      <2>7. ASSUME NEW k \in 1 .. i - 1 PROVE Stuffed(plain, k, q.buffer[k + 1])
            <3>1. k \in 0 .. n - 1 /\ k \in Int
                  BY <1>1, <1>3
            <3>2. CASE k < z
                  <4>1. k \in 1 .. z - 1 /\ k # z
                        BY <2>3, <3>2
                  <4> QED BY <1>1, <2>5, <3>1, <4>1
            <3>3. CASE k = z
                  <4>1. /\ z + (i - z) <= n - 1 /\ z + (i - z) + 1 = i + 1
                        /\ z + 1 .. z + (i - z) - 1 = z + 1 .. i - 1
                        BY <1>3, <2>3
                  <4>2. ToNextZero(plain, z, i - z)
                        BY <1>1, <1>2, <1>5, <4>1 DEF ToNextZero, n
                  <4> QED BY <1>1, <2>5, <3>1, <3>3, <4>2 DEF Stuffed
            <3>4. CASE k > z
                  <4>1. k \in z + 1 .. i - 1 /\ k \in z .. n - 1
                        BY <1>3, <2>3, <3>1, <3>4
                  <4> QED BY <1>1, <2>3, <2>5, <3>1, <3>4, <4>1 DEF Stuffed
            <3> QED BY <2>3, <3>1, <3>2, <3>3, <3>4
      <2>8. \A k \in i + 1 .. i : plain[k + 1] # 0
            BY <1>3
      <2>9. i \in 0 .. i
            BY <1>3
      <2> QED BY <1>5, <2>2, <2>4, <2>6, <2>7, <2>8, <2>9 DEF Scanned, q, n
<1> QED BY <1>4, <1>5

\* The last index is a zero: every block is closed.
LEMMA ScanEnds ==
    ASSUME NEW plain, Stuffable(plain), NEW s, Scanned(plain, s, Len(plain) - 1)
    PROVE  /\ Framed(plain, [s.buffer EXCEPT ![1] = 0])
           /\ [s.buffer EXCEPT ![1] = 0] \in Seq(Byte) /\ Len([s.buffer EXCEPT ![1] = 0]) = Len(plain)
<1> DEFINE n == Len(plain)
           z == s.previous_null
           frame == [s.buffer EXCEPT ![1] = 0]
<1>1. n \in Nat /\ n >= 3 /\ plain[n] = 0
      BY DEF Stuffable
<1>2. /\ s.buffer \in [1 .. n -> Byte] /\ z \in 0 .. n - 1
      /\ \A k \in z + 1 .. n - 1 : plain[k + 1] # 0
      /\ \A k \in z .. n - 1 : s.buffer[k + 1] = plain[k + 1]
      /\ \A k \in 1 .. z - 1 : Stuffed(plain, k, s.buffer[k + 1])
      BY DEF Scanned
<1> HIDE DEF n, z
<1>3. z = n - 1
      <2>1. (n - 1) + 1 = n
            BY <1>1
      <2> QED BY <1>1, <1>2, <2>1
<1>4. 0 \in Byte
      BY ByteDef
<1>5. frame \in [1 .. n -> Byte]
      BY <1>2, <1>4
<1>6. frame[1] = 0
      BY <1>1, <1>2
<1>7. frame[n] = 0
      <2>1. s.buffer[(n - 1) + 1] = plain[(n - 1) + 1] /\ (n - 1) + 1 = n
            BY <1>1, <1>2, <1>3
      <2> QED BY <1>1, <1>2, <2>1
<1>8. \A k \in 1 .. n - 2 : frame[k + 1] = s.buffer[k + 1] /\ k \in 1 .. z - 1
      BY <1>1, <1>2, <1>3
<1> HIDE DEF frame
<1>9. Framed(plain, frame)
      BY <1>2, <1>5, <1>6, <1>7, <1>8 DEF Framed, n
<1>10. frame \in Seq(Byte) /\ Len(frame) = n
      BY <1>1, <1>5
<1> QED BY <1>9, <1>10 DEF frame, n

\* The states of the loop, the slips of a long block included.
LEMMA FramingType ==
    ASSUME NEW n \in Nat, NEW i \in 1 .. n - 1,
           NEW s \in [buffer : [1 .. n -> Byte], previous_null : 0 .. n - 1]
    PROVE  FramingStep(s, i) \in [buffer : [1 .. n -> Byte], previous_null : 0 .. n - 1]
<1> DEFINE code == (i - s.previous_null) % 256
<1>0. i \in 0 .. n - 1 /\ 255 \in Byte /\ 238 \in Byte
      BY ByteDef
<1>1. code \in Byte
      <2>1. i - s.previous_null \in Int
            OBVIOUS
      <2>2. code \in Int /\ 0 <= code /\ code <= 255
            BY <2>1
      <2> QED BY <2>2, ByteDef
<1> HIDE DEF code
<1>2. ASSUME NEW c \in Byte
      PROVE  CloseBlock(s, i, c) \in [buffer : [1 .. n -> Byte], previous_null : 0 .. n - 1]
      BY <1>0, <1>2 DEF CloseBlock
<1>3. ASSUME NEW buffer \in [1 .. n -> Byte] PROVE Ripple(buffer, i) \in [1 .. n -> Byte]
      <2>1. Len(buffer) = n
            OBVIOUS
      <2>2. ASSUME NEW k \in 1 .. n
            PROVE  (CASE k <= i -> buffer[k] [] k = i + 1 -> 238 [] OTHER -> buffer[k - 1]) \in Byte
            <3>1. k > i + 1 => k - 1 \in 1 .. n
                  OBVIOUS
            <3> QED BY <1>0, <3>1
      <2> QED BY <2>1, <2>2 DEF Ripple
<1>4. CASE s.buffer[i + 1] = 0
      BY <1>1, <1>2, <1>4 DEF FramingStep, code
<1>5. CASE s.buffer[i + 1] # 0 /\ code = 255
      <2> DEFINE c == CloseBlock(s, i, 255)
      <2>1. FramingStep(s, i) = [c EXCEPT !.buffer = Ripple(c.buffer, i)]
            BY <1>5 DEF FramingStep, code
      <2>2. c \in [buffer : [1 .. n -> Byte], previous_null : 0 .. n - 1]
            BY <1>0, <1>2
      <2> HIDE DEF c
      <2>3. Ripple(c.buffer, i) \in [1 .. n -> Byte]
            BY <1>3, <2>2
      <2> QED BY <2>1, <2>2, <2>3
<1>6. CASE s.buffer[i + 1] # 0 /\ code # 255
      BY <1>6 DEF FramingStep, code
<1> QED BY <1>4, <1>5, <1>6

\* encode_framing frames.
LEMMA EncodeFrames ==
    ASSUME NEW plain, Stuffable(plain)
    PROVE  /\ Framed(plain, EncodeFraming(plain)) /\ EncodeFraming(plain) \in Seq(Byte)
           /\ Len(EncodeFraming(plain)) = Len(plain)
<1> DEFINE n == Len(plain)
           T == [buffer : [1 .. n -> Byte], previous_null : 0 .. n - 1]
           base == [buffer |-> plain, previous_null |-> 0]
           next == [i \in 1 .. n - 1 |-> [s \in T |-> FramingStep(s, i)]]
           Body(g) == [i \in 0 .. n - 1 |-> IF i = 0 THEN base ELSE FramingStep(g[i - 1], i)]
           scan == CHOOSE g : g = Body(g)
           last == scan[n - 1]
<1>1. n \in Nat /\ n >= 3 /\ n - 1 \in Nat /\ plain \in [1 .. n -> Byte] /\ 0 \in 0 .. n - 1
      BY DEF Stuffable
<1>2. EncodeFraming(plain) = [last.buffer EXCEPT ![1] = 0]
      BY DEF EncodeFraming
<1>3. base \in T
      BY <1>1
<1> HIDE DEF n
<1>4. next \in [1 .. n - 1 -> [T -> T]]
      <2>1. ASSUME NEW i \in 1 .. n - 1, NEW s \in T PROVE FramingStep(s, i) \in T
            BY <1>1, FramingType
      <2> HIDE DEF T
      <2> QED BY <2>1
<1>5. PICK f \in [0 .. n - 1 -> T] : Follows(f, n - 1, base, next)
      <2> HIDE DEF next, T, base
      <2> QED BY <1>1, <1>3, <1>4, Recursion, Zenon
<1> HIDE DEF T
<1>6. f = Body(f)
      <2>1. ASSUME NEW i \in 0 .. n - 1 PROVE f[i] = IF i = 0 THEN base ELSE FramingStep(f[i - 1], i)
            <3>1. CASE i = 0
                  BY <1>5, <3>1 DEF Follows
            <3>2. CASE i # 0
                  <4>1. i \in 1 .. n - 1 /\ i - 1 \in 0 .. n - 1
                        BY <1>1, <3>2
                  <4>2. f[i] = next[i][f[i - 1]] /\ f[i - 1] \in T
                        BY <1>5, <4>1 DEF Follows
                  <4> HIDE DEF base
                  <4> QED BY <3>2, <4>1, <4>2
            <3> QED BY <3>1, <3>2
      <2> HIDE DEF base
      <2> QED BY <2>1
<1>7. scan = Body(scan)
      <2> HIDE DEF Body
      <2> QED BY <1>6, Zenon
<1> HIDE DEF scan, next
<1>8. /\ scan[0] = base
      /\ \A i \in 1 .. n - 1 : scan[i] = FramingStep(scan[i - 1], i)
      <2> HIDE DEF base
      <2>1. \A i \in 1 .. n - 1 : i \in 0 .. n - 1 /\ i # 0
            BY <1>1
      <2> QED BY <1>1, <1>7, <2>1
<1> HIDE DEF Body
<1> DEFINE K == {i \in 0 .. n - 1 : Scanned(plain, scan[i], i)}
<1>9. 0 \in K
      BY <1>1, <1>8, ScanStarts
<1>10. ASSUME NEW i \in 0 .. n - 1 - 1, i \in K PROVE i + 1 \in K
      <2>1. i + 1 \in 1 .. n - 1 /\ (i + 1) - 1 = i /\ i + 1 \in 0 .. n - 1
            BY <1>1
      <2>2. Scanned(plain, FramingStep(scan[i], i + 1), i + 1)
            BY <1>10, <2>1, ScanStep DEF n
      <2> QED BY <1>8, <2>1, <2>2
<1> HIDE DEF K
<1>11. 0 .. n - 1 \subseteq K
      <2>1. 0 \in Int /\ n - 1 \in Int
            BY <1>1
      <2> QED BY <1>9, <1>10, <2>1, Climbs
<1>12. Scanned(plain, last, n - 1)
      <2>1. n - 1 \in 0 .. n - 1
            BY <1>1
      <2> QED BY <1>11, <2>1 DEF K
<1> HIDE DEF last
<1>13. Scanned(plain, last, Len(plain) - 1)
      BY <1>12 DEF n
<1>14. /\ Framed(plain, [last.buffer EXCEPT ![1] = 0])
       /\ [last.buffer EXCEPT ![1] = 0] \in Seq(Byte) /\ Len([last.buffer EXCEPT ![1] = 0]) = Len(plain)
      BY <1>13, ScanEnds
<1> QED BY <1>2, <1>14, Zenon

\* The receiver counts down to the next zero.
LEMMA FirstCode ==
    ASSUME NEW plain, Stuffable(plain), NEW frame, Framed(plain, frame), NEW p, p.frame_offset \in {0, 1}
    PROVE  /\ frame[2] # 0 /\ Unstuff(frame[2], p).byte = 0
           /\ ToNextZero(plain, 1, Unstuff(frame[2], p).frame_offset)
<1>1. Len(plain) \in Nat /\ Len(plain) >= 3 /\ plain[2] = 0
      BY DEF Stuffable
<1>2. ToNextZero(plain, 1, frame[2])
      BY <1>1 DEF Framed, Stuffed
<1> QED BY <1>2 DEF Unstuff, ToNextZero

LEMMA NextCode ==
    ASSUME NEW plain, Stuffable(plain), NEW frame, Framed(plain, frame), NEW p,
           NEW i \in 2 .. Len(plain) - 2, ToNextZero(plain, i - 1, p.frame_offset)
    PROVE  /\ frame[i + 1] # 0 /\ Unstuff(frame[i + 1], p).byte = plain[i + 1]
           /\ ToNextZero(plain, i, Unstuff(frame[i + 1], p).frame_offset)
<1> DEFINE f == p.frame_offset
           n == Len(plain)
<1>1. n \in Nat /\ i \in Int /\ i - 1 \in Int /\ i >= 2 /\ i <= n - 2
      BY DEF Stuffable
<1>2. /\ f \in Int /\ 1 <= f /\ f <= 255 /\ (i - 1) + f <= n - 1 /\ plain[(i - 1) + f + 1] = 0
      /\ \A j \in (i - 1) + 1 .. (i - 1) + f - 1 : plain[j + 1] # 0
      BY DEF ToNextZero
<1>3. Stuffed(plain, i, frame[i + 1])
      BY <1>1 DEF Framed
<1>4. Unstuff(frame[i + 1], p) = IF f > 1 THEN [byte |-> frame[i + 1], frame_offset |-> f - 1]
                                 ELSE [byte |-> 0, frame_offset |-> frame[i + 1]]
      BY DEF Unstuff
<1> HIDE DEF f, n
<1>5. CASE f > 1
      <2>1. i \in (i - 1) + 1 .. (i - 1) + f - 1
            BY <1>1, <1>2, <1>5
      <2>2. plain[i + 1] # 0 /\ frame[i + 1] = plain[i + 1]
            BY <1>2, <1>3, <2>1 DEF Stuffed
      <2>3. /\ f - 1 \in Int /\ 1 <= f - 1 /\ f - 1 <= 255 /\ i + (f - 1) <= n - 1 /\ i + (f - 1) + 1 = (i - 1) + f + 1
            /\ \A j \in i + 1 .. i + (f - 1) - 1 : j \in (i - 1) + 1 .. (i - 1) + f - 1
            BY <1>1, <1>2, <1>5
      <2>4. ToNextZero(plain, i, f - 1)
            BY <1>2, <2>3 DEF ToNextZero, n
      <2> QED BY <1>4, <1>5, <2>2, <2>4
<1>6. CASE f = 1
      <2>1. (i - 1) + f + 1 = i + 1
            BY <1>1, <1>6
      <2>2. plain[i + 1] = 0
            BY <1>2, <2>1
      <2>3. ToNextZero(plain, i, frame[i + 1]) /\ frame[i + 1] # 0
            BY <1>3, <2>2 DEF Stuffed, ToNextZero
      <2> QED BY <1>4, <1>6, <2>2, <2>3
<1> QED BY <1>2, <1>5, <1>6

\* A 0x00 only starts and ends a frame.
LEMMA FramedZeros ==
    ASSUME NEW plain, Stuffable(plain), NEW frame, Framed(plain, frame)
    PROVE  {k \in 1 .. Len(plain) : frame[k] = 0} = {1, Len(plain)}
<1>1. Len(plain) \in Nat /\ Len(plain) >= 3
      BY DEF Stuffable
<1>2. ASSUME NEW k \in 2 .. Len(plain) - 1 PROVE frame[k] # 0
      <2>1. k - 1 \in 1 .. Len(plain) - 2 /\ (k - 1) + 1 = k
            BY <1>1
      <2>2. Stuffed(plain, k - 1, frame[k])
            BY <2>1 DEF Framed
      <2> QED BY <2>1, <2>2 DEF Stuffed, ToNextZero
<1> QED BY <1>1, <1>2 DEF Framed
-----------------------------------------------------------------------------
(* The bytes of a message *)

\* the checksum after each byte
CrcRuns(bytes, crc) ==
    /\ crc[0] = 65535 /\ \A k \in 1 .. Len(bytes) : crc[k] = Crc16(bytes[k], crc[k - 1])
    /\ \A k \in 0 .. Len(bytes) : crc[k] \in Word

LEMMA CrcIs ==
    ASSUME NEW bytes \in Seq(Byte)
    PROVE  \E crc : CrcRuns(bytes, crc) /\ CrcOf(bytes) = crc[Len(bytes)] /\ CrcOf(bytes) \in Word
<1> DEFINE n    == Len(bytes)
           base == 65535
           next == [k \in 1 .. n |-> [c \in Word |-> Crc16(bytes[k], c)]]
           Body(g) == [k \in 0 .. n |-> IF k = 0 THEN base ELSE Crc16(bytes[k], g[k - 1])]
           crc  == CHOOSE g : g = Body(g)
<1>1. n \in Nat /\ \A k \in 1 .. n : bytes[k] \in Byte
      OBVIOUS
<1>2. CrcOf(bytes) = crc[n]
      BY DEF CrcOf
<1>3. base \in Word
      BY WordDef
<1> HIDE DEF n, base
<1>4. next \in [1 .. n -> [Word -> Word]]
      BY <1>1, CrcType
<1>5. PICK f \in [0 .. n -> Word] : Follows(f, n, base, next)
      <2> HIDE DEF next
      <2> QED BY <1>1, <1>3, <1>4, Recursion, Zenon
<1>6. f = Body(f)
      <2>1. ASSUME NEW k \in 0 .. n PROVE f[k] = IF k = 0 THEN base ELSE Crc16(bytes[k], f[k - 1])
            <3>1. CASE k = 0
                  BY <1>5, <3>1 DEF Follows
            <3>2. CASE k # 0
                  <4>1. k \in 1 .. n /\ k - 1 \in 0 .. n
                        BY <1>1, <3>2
                  <4>2. f[k] = next[k][f[k - 1]] /\ f[k - 1] \in Word
                        BY <1>5, <4>1 DEF Follows
                  <4> QED BY <3>2, <4>1, <4>2
            <3> QED BY <3>1, <3>2
      <2> QED BY <2>1
<1>7. crc = Body(crc)
      <2> HIDE DEF Body
      <2> QED BY <1>6, Zenon
<1> HIDE DEF crc
<1>8. crc[0] = base /\ \A k \in 1 .. n : crc[k] = Crc16(bytes[k], crc[k - 1])
      <2>1. 0 \in 0 .. n /\ \A k \in 1 .. n : k \in 0 .. n /\ k # 0
            BY <1>1
      <2> QED BY <1>7, <2>1
<1>9. \A k \in 1 .. n : crc[k - 1] \in Word => crc[k] \in Word
      BY <1>1, <1>8, CrcType
<1>10. \A k \in 0 .. n : crc[k] \in Word
      BY <1>1, <1>3, <1>8, <1>9, Stays, Zenon
<1>11. n \in 0 .. n
      BY <1>1
<1> QED BY <1>2, <1>8, <1>10, <1>11 DEF CrcRuns, n, base

\* The fields of a message that may be sent.
LEMMA SendableIs ==
    ASSUME NEW m, Sendable(m)
    PROVE  /\ m.internal \in Bit /\ m.response \in Bit /\ m.acknum \in Bits3 /\ m.type \in Bits4
           /\ m.offset \in Bit /\ m.offset_in \in Word
           /\ m.id \in Seq(Byte) /\ Len(m.id) \in 1 .. 15 /\ \A k \in 1 .. Len(m.id) : m.id[k] # 0
           /\ m.data \in Seq(Byte) /\ Len(m.data) \in 0 .. PAYLOAD_SIZE_MAX /\ Len(m.data) \in Bits10
           /\ m.offset = 0 => m.offset_in = 0
           /\ m = [ internal |-> m.internal, response |-> m.response, acknum |-> m.acknum,
                    type |-> m.type, offset |-> m.offset, offset_in |-> m.offset_in,
                    id |-> m.id, data |-> m.data ]
<1>1. m \in Message /\ Len(m.id) \in 1 .. 15 /\ 0 \notin ToSet(m.id) /\ Len(m.data) \in 0 .. PAYLOAD_SIZE_MAX
      /\ (m.offset = 0 => m.offset_in = 0)
      BY DEF Sendable
<1>2. m.id \in Seq(Byte) /\ m.data \in Seq(Byte)
      BY <1>1 DEF Message
<1>3. \A k \in 1 .. Len(m.id) : m.id[k] # 0
      BY <1>1, <1>2 DEF ToSet
<1>4. Len(m.data) \in Bits10
      <2>1. PAYLOAD_SIZE_MAX \in Int /\ PAYLOAD_SIZE_MAX <= 1023
            BY PayloadAssumption
      <2> QED BY <1>1, <2>1, BitsDef
<1> QED BY <1>1, <1>2, <1>3, <1>4 DEF Message

\* The three bytes of a header, and what the parser reads in them.
HeaderRead(dl, type, internal, offset, idl, response, acknum, b2, b3) ==
    /\ dl % 256 \in Byte /\ b2 \in Byte /\ b3 \in Byte
    /\ (dl % 256) + (b2 % 4) * 256 = dl /\ (b2 \div 4) % 16 = type
    /\ (b2 \div 64) % 2 = internal /\ b2 \div 128 = offset
    /\ b3 % 16 = idl /\ (b3 \div 16) % 2 = response /\ b3 \div 32 = acknum

LEMMA HeaderIs ==
    ASSUME NEW dl \in Bits10, NEW type \in Bits4, NEW internal \in Bit, NEW offset \in Bit,
           NEW idl \in Bits4, NEW response \in Bit, NEW acknum \in Bits3,
           NEW b2, b2 = dl \div 256 + type * 4 + internal * 64 + offset * 128,
           NEW b3, b3 = idl + response * 16 + acknum * 32
    PROVE  HeaderRead(dl, type, internal, offset, idl, response, acknum, b2, b3)
<1>1. /\ dl \in Int /\ 0 <= dl /\ dl <= 1023 /\ type \in Int /\ 0 <= type /\ type <= 15
      /\ internal \in Int /\ 0 <= internal /\ internal <= 1 /\ offset \in Int /\ 0 <= offset /\ offset <= 1
      /\ idl \in Int /\ 0 <= idl /\ idl <= 15 /\ response \in Int /\ 0 <= response /\ response <= 1
      /\ acknum \in Int /\ 0 <= acknum /\ acknum <= 7
      BY BitsDef
<1>2. PICK h \in Int : h = dl \div 256 /\ 0 <= h /\ h <= 3 /\ (dl % 256) + h * 256 = dl
      BY <1>1
<1>3. dl % 256 \in Byte
      BY <1>1, ByteDef
<1>4. b2 = h + type * 4 + internal * 64 + offset * 128 /\ b2 \in Int /\ 0 <= b2 /\ b2 <= 255
      BY <1>1, <1>2
<1>5. b2 % 4 = h
      BY <1>1, <1>2, <1>4
<1>6. (b2 \div 4) % 16 = type
      BY <1>1, <1>2, <1>4
<1>7. (b2 \div 64) % 2 = internal
      BY <1>1, <1>2, <1>4
<1>8. b2 \div 128 = offset
      BY <1>1, <1>2, <1>4
<1>9. b3 \in Int /\ 0 <= b3 /\ b3 <= 255
      BY <1>1
<1>10. b3 % 16 = idl
      BY <1>1, <1>9
<1>11. (b3 \div 16) % 2 = response
      BY <1>1, <1>9
<1>12. b3 \div 32 = acknum
      BY <1>1, <1>9
<1>13. b2 \in Byte /\ b3 \in Byte
      BY <1>4, <1>9, ByteDef
<1> QED BY <1>2, <1>3, <1>5, <1>6, <1>7, <1>8, <1>10, <1>11, <1>12, <1>13 DEF HeaderRead
-----------------------------------------------------------------------------
(* What is where in a message's bytes *)

\* a sequence that starts behind the first at elements of another
Lies(both, at, part) == \A j \in 1 .. Len(part) : both[at + j] = part[j]

\* a sequence and the two it is made of
TwoIn(S, a, b, w) ==
    /\ w \in Seq(S) /\ Len(w) = Len(a) + Len(b) /\ Len(w) \in Nat /\ Len(a) \in Nat /\ Len(b) \in Nat
    /\ Lies(w, 0, a) /\ Lies(w, Len(a), b)

LEMMA TwoParts ==
    ASSUME NEW S, NEW a \in Seq(S), NEW b \in Seq(S), NEW w, w = a \o b PROVE TwoIn(S, a, b, w)
<1>1. /\ w \in Seq(S) /\ Len(w) = Len(a) + Len(b)
      /\ \A k \in 1 .. Len(a) + Len(b) : w[k] = IF k <= Len(a) THEN a[k] ELSE b[k - Len(a)]
      BY ConcatProperties
<1>2. Len(a) \in Nat /\ Len(b) \in Nat /\ Len(w) \in Nat
      BY <1>1, LenProperties
<1>3. ASSUME NEW j \in 1 .. Len(a) PROVE w[0 + j] = a[j]
      <2>1. j \in 1 .. Len(a) + Len(b) /\ j <= Len(a) /\ 0 + j = j
            BY <1>2
      <2> QED BY <1>1, <2>1
<1>4. ASSUME NEW j \in 1 .. Len(b) PROVE w[Len(a) + j] = b[j]
      <2>1. Len(a) + j \in 1 .. Len(a) + Len(b) /\ ~(Len(a) + j <= Len(a)) /\ (Len(a) + j) - Len(a) = j
            BY <1>2
      <2> QED BY <1>1, <2>1
<1> QED BY <1>1, <1>2, <1>3, <1>4 DEF Lies, TwoIn

\* and the four it is made of
FourIn(S, a, b, c, d, w) ==
    /\ w \in Seq(S) /\ Len(w) = Len(a) + Len(b) + Len(c) + Len(d)
    /\ Len(a) \in Nat /\ Len(b) \in Nat /\ Len(c) \in Nat /\ Len(d) \in Nat
    /\ Lies(w, 0, a) /\ Lies(w, Len(a), b) /\ Lies(w, Len(a) + Len(b), c)
    /\ Lies(w, Len(a) + Len(b) + Len(c), d)

LEMMA FourParts ==
    ASSUME NEW S, NEW a \in Seq(S), NEW b \in Seq(S), NEW c \in Seq(S), NEW d \in Seq(S),
           NEW w, w = ((a \o b) \o c) \o d
    PROVE  FourIn(S, a, b, c, d, w)
<1> DEFINE u == a \o b
           v == u \o c
<1>1. /\ u \in Seq(S) /\ Len(u) = Len(a) + Len(b) /\ Len(u) \in Nat /\ Len(a) \in Nat /\ Len(b) \in Nat
      /\ Lies(u, 0, a) /\ Lies(u, Len(a), b)
      <2>1. TwoIn(S, a, b, u)
            BY TwoParts, Zenon
      <2> HIDE DEF u
      <2> QED BY <2>1 DEF TwoIn
<1> HIDE DEF u
<1>2. /\ v \in Seq(S) /\ Len(v) = Len(u) + Len(c) /\ Len(v) \in Nat /\ Len(c) \in Nat
      /\ Lies(v, 0, u) /\ Lies(v, Len(u), c)
      <2>1. TwoIn(S, u, c, v)
            BY <1>1, TwoParts, Zenon
      <2> HIDE DEF v
      <2> QED BY <2>1 DEF TwoIn
<1>3. w = v \o d
      BY DEF u
<1> HIDE DEF v
<1>4. /\ w \in Seq(S) /\ Len(w) = Len(v) + Len(d) /\ Len(w) \in Nat /\ Len(d) \in Nat
      /\ Lies(w, 0, v) /\ Lies(w, Len(v), d)
      <2>1. TwoIn(S, v, d, w)
            BY <1>2, <1>3, TwoParts, Zenon
      <2> QED BY <2>1 DEF TwoIn
<1>5. ASSUME NEW j \in 1 .. Len(a) PROVE w[0 + j] = a[j]
      <2>1. j \in 1 .. Len(u) /\ j \in 1 .. Len(v) /\ 0 + j = j
            BY <1>1, <1>2
      <2> QED BY <1>1, <1>2, <1>4, <2>1 DEF Lies
<1>6. ASSUME NEW j \in 1 .. Len(b) PROVE w[Len(a) + j] = b[j]
      <2>1. Len(a) + j \in 1 .. Len(u) /\ Len(a) + j \in 1 .. Len(v) /\ 0 + (Len(a) + j) = Len(a) + j
            BY <1>1, <1>2
      <2>2. u[Len(a) + j] = b[j]
            BY <1>1 DEF Lies
      <2>3. v[0 + (Len(a) + j)] = u[Len(a) + j]
            BY <1>2, <2>1 DEF Lies
      <2>4. w[0 + (Len(a) + j)] = v[Len(a) + j]
            BY <1>4, <2>1 DEF Lies
      <2> QED BY <2>1, <2>2, <2>3, <2>4
<1>7. ASSUME NEW j \in 1 .. Len(c) PROVE w[Len(a) + Len(b) + j] = c[j]
      <2>1. Len(u) + j \in 1 .. Len(v) /\ 0 + (Len(u) + j) = Len(a) + Len(b) + j /\ Len(u) + j = Len(a) + Len(b) + j
            BY <1>1, <1>2
      <2>2. v[Len(u) + j] = c[j]
            BY <1>2 DEF Lies
      <2>3. w[0 + (Len(u) + j)] = v[Len(u) + j]
            BY <1>4, <2>1 DEF Lies
      <2> QED BY <2>1, <2>2, <2>3
<1>8. Len(v) = Len(a) + Len(b) + Len(c) /\ Len(w) = Len(a) + Len(b) + Len(c) + Len(d)
      BY <1>1, <1>2, <1>4
<1> QED BY <1>1, <1>2, <1>4, <1>5, <1>6, <1>7, <1>8 DEF Lies, FourIn

LEMMA ThreeSeq == ASSUME NEW S, NEW x \in S, NEW y \in S, NEW z \in S PROVE <<x, y, z>> \in Seq(S) /\ Len(<<x, y, z>>) = 3
OBVIOUS

\* the number of address bytes
Address2(m) == IF m.offset = 1 THEN 2 ELSE 0

\* the second and third byte of a header
HeaderB2(m) == Len(m.data) \div 256 + m.type * 4 + m.internal * 64 + m.offset * 128
HeaderB3(m) == Len(m.id) + m.response * 16 + m.acknum * 32

LEMMA IdLength == ASSUME NEW n \in 1 .. 15 PROVE n \in Bits4
<1>1. n \in Int /\ 0 <= n /\ n <= 15
      OBVIOUS
<1> QED BY <1>1, BitsDef

LEMMA HeaderBytes ==
    ASSUME NEW m, Len(m.data) \in Bits10, m.type \in Bits4, m.internal \in Bit, m.offset \in Bit,
           Len(m.id) \in Bits4, m.response \in Bit, m.acknum \in Bits3
    PROVE  HeaderRead(Len(m.data), m.type, m.internal, m.offset, Len(m.id), m.response, m.acknum,
                      HeaderB2(m), HeaderB3(m))
BY HeaderIs, Zenon DEF HeaderB2, HeaderB3

\* The header, the identifier, the address and the payload, one after the other.
LEMMA BodyIs ==
    ASSUME NEW m, Sendable(m)
    PROVE  /\ BodyOf(m) \in Seq(Byte)
           /\ Len(BodyOf(m)) = 3 + Len(m.id) + Address2(m) + Len(m.data)
           /\ Lies(BodyOf(m), 0, << Len(m.data) % 256, HeaderB2(m), HeaderB3(m) >>)
           /\ Lies(BodyOf(m), 3, m.id)
           /\ m.offset = 1 => Lies(BodyOf(m), 3 + Len(m.id), LittleEndian(m.offset_in))
           /\ Lies(BodyOf(m), 3 + Len(m.id) + Address2(m), m.data)
<1> DEFINE w == BodyOf(m)
           a == EncodeHeader(HeaderOf(m))
           b == SubSeq(m.id, 1, Len(m.id))
           c == IF m.offset = 1 THEN LittleEndian(m.offset_in) ELSE << >>
           before == [i \in 1 .. m.offset_in |-> 0]
           d == SubSeq(Padded(m), m.offset_in + 1, m.offset_in + Len(m.data))
<1>1. /\ m.internal \in Bit /\ m.response \in Bit /\ m.acknum \in Bits3 /\ m.type \in Bits4
      /\ m.offset \in Bit /\ m.offset_in \in Word /\ m.offset_in \in Nat
      /\ m.id \in Seq(Byte) /\ Len(m.id) \in Bits4 /\ Len(m.id) \in Nat
      /\ m.data \in Seq(Byte) /\ Len(m.data) \in Bits10 /\ Len(m.data) \in Nat
      <2>1. /\ m.offset_in \in Word /\ Len(m.id) \in 1 .. 15 /\ m.id \in Seq(Byte) /\ m.data \in Seq(Byte)
            BY SendableIs
      <2>2. m.offset_in \in Nat
            BY <2>1, WordDef
      <2>3. Len(m.id) \in Bits4
            BY <2>1, IdLength, Zenon
      <2> QED BY <2>1, <2>2, <2>3, SendableIs, LenProperties
<1>2. w = ((a \o b) \o c) \o d
      BY DEF BodyOf, PacketBody, HeaderOf
<1>3. a = << Len(m.data) % 256, HeaderB2(m), HeaderB3(m) >>
      BY DEF EncodeHeader, HeaderOf, HeaderB2, HeaderB3
<1>4. Len(m.data) % 256 \in Byte /\ HeaderB2(m) \in Byte /\ HeaderB3(m) \in Byte
      BY <1>1, HeaderBytes, ZenonT(40) DEF HeaderRead
<1>5. a \in Seq(Byte) /\ Len(a) = 3
      <2> HIDE DEF a
      <2> QED BY <1>3, <1>4, ThreeSeq, Zenon
<1>6. b = m.id
      BY <1>1
<1>7. c \in Seq(Byte) /\ Len(c) = Address2(m)
      <2>1. CASE m.offset = 1
            BY <1>1, <2>1, LittleEndianType DEF Address2
      <2>2. CASE m.offset # 1
            BY <2>2 DEF Address2
      <2> QED BY <2>1, <2>2
<1>8. d = m.data
      <2>1. 0 \in Byte
            BY ByteDef
      <2>2. before \in Seq(Byte) /\ Len(before) = m.offset_in
            BY <1>1, <2>1
      <2> HIDE DEF before
      <2>3. /\ Padded(m) = before \o m.data
            /\ Padded(m) \in Seq(Byte) /\ Len(Padded(m)) = m.offset_in + Len(m.data)
            /\ Lies(Padded(m), m.offset_in, m.data)
            <3>1. Padded(m) = before \o m.data
                  BY DEF Padded, before
            <3>2. TwoIn(Byte, before, m.data, Padded(m))
                  BY <1>1, <2>2, <3>1, TwoParts, Zenon
            <3> QED BY <2>2, <3>1, <3>2 DEF TwoIn
      <2>4. ASSUME NEW k \in m.offset_in + 1 .. m.offset_in + Len(m.data) PROVE Padded(m)[k] \in Byte
            <3>1. k \in 1 .. Len(Padded(m))
                  BY <1>1, <2>3
            <3> QED BY <2>3, <3>1, ElementOfSeq
      <2>5. /\ d \in Seq(Byte)
            /\ Len(d) = IF m.offset_in + 1 <= m.offset_in + Len(m.data)
                        THEN (m.offset_in + Len(m.data)) - (m.offset_in + 1) + 1 ELSE 0
            /\ \A i \in 1 .. (m.offset_in + Len(m.data)) - (m.offset_in + 1) + 1 :
                  d[i] = Padded(m)[(m.offset_in + 1) + i - 1]
            <3>1. m.offset_in + 1 \in Int /\ m.offset_in + Len(m.data) \in Int
                  BY <1>1
            <3> QED BY <2>4, <3>1, SubSeqProperties
      <2>6. Len(d) = Len(m.data)
            BY <1>1, <2>5
      <2>7. ASSUME NEW i \in 1 .. Len(m.data) PROVE d[i] = m.data[i]
            <3>1. /\ i \in 1 .. (m.offset_in + Len(m.data)) - (m.offset_in + 1) + 1
                  /\ (m.offset_in + 1) + i - 1 = m.offset_in + i
                  BY <1>1
            <3>2. Padded(m)[m.offset_in + i] = m.data[i]
                  BY <2>3 DEF Lies
            <3> QED BY <2>5, <3>1, <3>2
      <2> HIDE DEF d
      <2> QED BY <1>1, <2>5, <2>6, <2>7, SeqEqual
<1> HIDE DEF w, a, b, c, d
<1>9. /\ w \in Seq(Byte) /\ Len(w) = Len(a) + Len(b) + Len(c) + Len(d)
      /\ Lies(w, 0, a) /\ Lies(w, Len(a), b) /\ Lies(w, Len(a) + Len(b), c)
      /\ Lies(w, Len(a) + Len(b) + Len(c), d)
      <2>1. a \in Seq(Byte) /\ b \in Seq(Byte) /\ c \in Seq(Byte) /\ d \in Seq(Byte)
            BY <1>1, <1>5, <1>6, <1>7, <1>8
      <2>2. FourIn(Byte, a, b, c, d, w)
            BY <1>2, <2>1, FourParts, Zenon
      <2> QED BY <2>2 DEF FourIn
<1>10. m.offset = 1 => c = LittleEndian(m.offset_in)
      BY DEF c
<1> QED BY <1>3, <1>5, <1>6, <1>7, <1>8, <1>9, <1>10 DEF w
\* the buffer that encode_packet frames
PlainOf(m) == <<0, 0>> \o BodyOf(m) \o LittleEndian(CrcOf(BodyOf(m))) \o <<0>>

LEMMA PlainIs ==
    ASSUME NEW m, Deliverable(m)
    PROVE  /\ Stuffable(PlainOf(m)) /\ Len(PlainOf(m)) = Len(BodyOf(m)) + 5
           /\ Lies(PlainOf(m), 2, BodyOf(m)) /\ CrcOf(BodyOf(m)) \in Word
           /\ PlainOf(m)[Len(BodyOf(m)) + 3] = CrcOf(BodyOf(m)) % 256
           /\ PlainOf(m)[Len(BodyOf(m)) + 4] = CrcOf(BodyOf(m)) \div 256
<1> DEFINE w     == PlainOf(m)
           a     == <<0, 0>>
           body  == BodyOf(m)
           check == LittleEndian(CrcOf(body))
           d     == <<0>>
           bytes == body \o check
           L     == Len(body)
<1>1. body \in Seq(Byte) /\ L \in Nat
      <2>1. Sendable(m)
            BY DEF Deliverable
      <2>2. body \in Seq(Byte)
            BY <2>1, BodyIs
      <2> HIDE DEF body
      <2> QED BY <2>2
<1> HIDE DEF body
<1>2. check \in Seq(Byte) /\ Len(check) = 2 /\ CrcOf(body) \in Word
      BY <1>1, CrcIs, LittleEndianType
<1>3. check[1] = CrcOf(body) % 256 /\ check[2] = CrcOf(body) \div 256
      BY DEF LittleEndian
<1>4. a \in Seq(Byte) /\ Len(a) = 2 /\ a[1] = 0 /\ a[2] = 0 /\ d \in Seq(Byte) /\ Len(d) = 1 /\ d[1] = 0
      <2>1. 0 \in Byte
            BY ByteDef
      <2> QED BY <2>1
<1>5. \A k \in 0 .. Len(bytes) - 255 : \E j \in k + 1 .. k + 255 : bytes[j] = 0
      BY DEF Deliverable, body
<1>6. w = ((a \o body) \o check) \o d
      BY DEF PlainOf, body
<1> HIDE DEF w, a, d, check
<1>7. /\ w \in Seq(Byte) /\ Len(w) = Len(a) + Len(body) + Len(check) + Len(d)
      /\ Lies(w, 0, a) /\ Lies(w, Len(a), body) /\ Lies(w, Len(a) + Len(body), check)
      /\ Lies(w, Len(a) + Len(body) + Len(check), d)
      <2>1. FourIn(Byte, a, body, check, d, w)
            BY <1>1, <1>2, <1>4, <1>6, FourParts, Zenon
      <2> QED BY <2>1 DEF FourIn
<1>8. Len(w) = L + 5 /\ Lies(w, 2, body)
      BY <1>1, <1>2, <1>4, <1>7
<1>9. w[1] = 0 /\ w[2] = 0 /\ w[L + 5] = 0 /\ w[L + 3] = check[1] /\ w[L + 4] = check[2]
      <2> HIDE DEF L
      <2>1. w[0 + 1] = a[1] /\ w[0 + 2] = a[2]
            BY <1>4, <1>7 DEF Lies
      <2>2. w[2 + L + 1] = check[1] /\ w[2 + L + 2] = check[2]
            BY <1>2, <1>4, <1>7 DEF Lies, L
      <2>3. w[2 + L + 2 + 1] = d[1]
            BY <1>2, <1>4, <1>7 DEF Lies, L
      <2>4. 2 + L + 1 = L + 3 /\ 2 + L + 2 = L + 4 /\ 2 + L + 2 + 1 = L + 5
            BY <1>1
      <2> QED BY <1>4, <2>1, <2>2, <2>3, <2>4
<1>10. /\ Len(bytes) = L + 2 /\ Lies(bytes, 0, body) /\ Lies(bytes, L, check)
      <2>1. TwoIn(Byte, body, check, bytes)
            BY <1>1, <1>2, TwoParts, Zenon
      <2> HIDE DEF bytes
      <2> QED BY <1>2, <2>1 DEF TwoIn
<1> HIDE DEF bytes
<1>11. ASSUME NEW j \in 1 .. L + 2 PROVE w[j + 2] = bytes[j]
      <2>1. CASE j <= L
            <3>1. j \in 1 .. Len(body) /\ 0 + j = j /\ 2 + j = j + 2
                  BY <1>1, <2>1
            <3> QED BY <1>8, <1>10, <3>1 DEF Lies
      <2>2. CASE j = L + 1
            <3>1. bytes[L + 1] = check[1]
                  BY <1>2, <1>10 DEF Lies
            <3>2. (L + 1) + 2 = L + 3
                  BY <1>1
            <3> QED BY <1>9, <2>2, <3>1, <3>2
      <2>3. CASE j = L + 2
            <3>1. bytes[L + 2] = check[2]
                  BY <1>2, <1>10 DEF Lies
            <3>2. (L + 2) + 2 = L + 4
                  BY <1>1
            <3> QED BY <1>9, <2>3, <3>1, <3>2
      <2> QED BY <1>1, <2>1, <2>2, <2>3
<1> HIDE DEF L
<1>12. ASSUME NEW k \in 0 .. Len(w) - 255 PROVE \E j \in k .. k + 254 : w[j + 1] = 0
      <2>0. k \in Int /\ 0 <= k /\ k + 255 <= L + 5
            BY <1>1, <1>8 DEF L
      <2>1. CASE k <= 1
            <3>1. k \in k .. k + 254 /\ k + 1 \in {1, 2}
                  BY <2>0, <2>1
            <3> QED BY <1>9, <3>1
      <2>2. CASE k + 255 = L + 5
            <3>1. k + 254 \in k .. k + 254 /\ (k + 254) + 1 = L + 5
                  BY <1>1, <2>0, <2>2 DEF L
            <3> QED BY <1>9, <3>1
      <2>3. CASE k > 1 /\ k + 255 # L + 5
            <3>1. k - 2 \in 0 .. Len(bytes) - 255
                  BY <1>1, <1>10, <2>0, <2>3 DEF L
            <3>2. PICK j \in (k - 2) + 1 .. (k - 2) + 255 : bytes[j] = 0
                  BY <1>5, <3>1
            <3>3. j \in 1 .. L + 2 /\ j + 1 \in k .. k + 254 /\ (j + 1) + 1 = j + 2
                  BY <1>1, <2>0, <2>3, <3>2 DEF L
            <3> QED BY <1>11, <3>2, <3>3
      <2> QED BY <2>0, <2>1, <2>2, <2>3
<1>13. Stuffable(w)
      <2>1. Len(w) >= 3
            BY <1>1, <1>8 DEF L
      <2> QED BY <1>7, <1>8, <1>9, <1>12, <2>1 DEF Stuffable
<1> QED BY <1>2, <1>3, <1>8, <1>9, <1>13 DEF w, body, L

\* The frame of a message.
LEMMA FrameIs ==
    ASSUME NEW m, Deliverable(m)
    PROVE  /\ Framed(PlainOf(m), Frame(m)) /\ Frame(m) \in Seq(Byte)
           /\ Len(Frame(m)) = Len(BodyOf(m)) + 5
<1>1. Frame(m) = EncodeFraming(PlainOf(m))
      BY DEF Frame, EncodePacket, BodyOf, PlainOf
<1>2. Stuffable(PlainOf(m)) /\ Len(PlainOf(m)) = Len(BodyOf(m)) + 5
      BY PlainIs
<1> QED BY <1>1, <1>2, EncodeFrames
-----------------------------------------------------------------------------
(* The parser on the bytes of a message *)

\* the packet with so many bytes of the identifier and of the payload in place
Assembled(m, state, ids, datas, header, offset_in) ==
    [ state : {state}, id_bytes_in : {ids}, data_bytes_in : {datas}, frame_offset : Int,
      header : {header}, id_in : {[j \in IdIndex |-> IF j < ids THEN m.id[j + 1] ELSE 0]},
      offset_in : {offset_in}, crc_in : Int,
      data_in : {[j \in DataIndex |-> IF j < datas THEN m.data[j + 1] ELSE 0]} ]

\* a header of which the first byte, and the first two, have arrived
HeaderLow(m) == [ data_len |-> Len(m.data) % 256, type |-> 0, internal |-> 0, offset |-> 0,
                  id_len |-> 0, response |-> 0, acknum |-> 0 ]
HeaderMid(m) == [ data_len |-> Len(m.data), type |-> m.type, internal |-> m.internal, offset |-> m.offset,
                  id_len |-> 0, response |-> 0, acknum |-> 0 ]

\* where the payload of a message starts
Fixed(m) == 3 + Len(m.id) + Address2(m)

\* the parser has taken k bytes of the message and its checksum
Reading(m, k, p) ==
    \/ k = 0 /\ p \in Assembled(m, exp_header_b1, 0, 0, ZeroHeader, 0)
    \/ k = 1 /\ p \in Assembled(m, exp_header_b2, 0, 0, HeaderLow(m), 0)
    \/ k = 2 /\ p \in Assembled(m, exp_header_b3, 0, 0, HeaderMid(m), 0)
    \/ k \in 3 .. 2 + Len(m.id) /\ p \in Assembled(m, exp_message_id, k - 3, 0, HeaderOf(m), 0)
    \/ /\ k = 3 + Len(m.id) /\ m.offset = 1
       /\ p \in Assembled(m, exp_offset_b1, Len(m.id), 0, HeaderOf(m), 0)
    \/ /\ k = 4 + Len(m.id) /\ m.offset = 1
       /\ p \in Assembled(m, exp_offset_b2, Len(m.id), 0, HeaderOf(m), m.offset_in % 256)
    \/ /\ k \in Fixed(m) .. Fixed(m) + Len(m.data) - 1
       /\ p \in Assembled(m, exp_data, Len(m.id), k - Fixed(m), HeaderOf(m), m.offset_in)
    \/ /\ k = Fixed(m) + Len(m.data)
       /\ p \in Assembled(m, exp_crc_b1, Len(m.id), Len(m.data), HeaderOf(m), m.offset_in)
    \/ /\ k = Fixed(m) + Len(m.data) + 1
       /\ p \in Assembled(m, exp_crc_b2, Len(m.id), Len(m.data), HeaderOf(m), m.offset_in)

LEMMA Restuffed ==
    ASSUME NEW m, NEW state, NEW ids, NEW datas, NEW header, NEW offset_in,
           NEW p \in Assembled(m, state, ids, datas, header, offset_in), NEW f \in Int, NEW c \in Int,
           NEW q, q = [p EXCEPT !.frame_offset = f, !.crc_in = c]
    PROVE  /\ q \in Assembled(m, state, ids, datas, header, offset_in)
           /\ q.frame_offset = f /\ q.crc_in = c /\ q.state = state
BY DEF Assembled

\* a result of the parser that goes on with the same checksum and countdown
SamePace(p, q) == q.frame_offset = p.frame_offset /\ q.crc_in = p.crc_in
GoesOn(p, r) == r.status = EUI_PARSER_IDLE /\ SamePace(p, r.packet)

LEMMA HeaderMoves ==
    ASSUME NEW m, NEW state, NEW header, NEW p \in Assembled(m, state, 0, 0, header, 0), NEW h, NEW after,
           NEW r, r = Continue([p EXCEPT !.header = h, !.state = after])
    PROVE  GoesOn(p, r) /\ r.packet \in Assembled(m, after, 0, 0, h, 0)
BY DEF GoesOn, SamePace, Assembled, Continue, Result

LEMMA StepB1 ==
    ASSUME NEW m, NEW p \in Assembled(m, exp_header_b1, 0, 0, ZeroHeader, 0),
           NEW r, r = ExpHeaderB1(Len(m.data) % 256, p)
    PROVE  GoesOn(p, r) /\ r.packet \in Assembled(m, exp_header_b2, 0, 0, HeaderLow(m), 0)
<1>1. p.header = ZeroHeader
      BY DEF Assembled
<1> DEFINE h == [p.header EXCEPT !.data_len = Len(m.data) % 256]
<1>2. h = HeaderLow(m)
      <2>1. ZeroHeader \in [data_len : {0}, type : {0}, internal : {0}, offset : {0},
                            id_len : {0}, response : {0}, acknum : {0}]
            BY DEF ZeroHeader
      <2>2. h = [ZeroHeader EXCEPT !.data_len = Len(m.data) % 256]
            BY <1>1
      <2> HIDE DEF h
      <2> QED BY <2>1, <2>2 DEF HeaderLow
<1>3. r = Continue([p EXCEPT !.header = h, !.state = exp_header_b2])
      BY DEF ExpHeaderB1
<1> HIDE DEF h
<1>4. r = Continue([p EXCEPT !.header = HeaderLow(m), !.state = exp_header_b2])
      BY <1>2, <1>3
<1> QED BY <1>4, HeaderMoves, Zenon

LEMMA StepB2 ==
    ASSUME NEW m, NEW p \in Assembled(m, exp_header_b2, 0, 0, HeaderLow(m), 0),
           HeaderRead(Len(m.data), m.type, m.internal, m.offset, Len(m.id), m.response, m.acknum,
                      HeaderB2(m), HeaderB3(m)),
           NEW r, r = ExpHeaderB2(HeaderB2(m), p)
    PROVE  GoesOn(p, r) /\ r.packet \in Assembled(m, exp_header_b3, 0, 0, HeaderMid(m), 0)
<1> DEFINE b == HeaderB2(m)
           h == [p.header EXCEPT !.data_len = @ + (b % 4) * 256, !.type = (b \div 4) % 16,
                                 !.internal = (b \div 64) % 2, !.offset = b \div 128]
<1>1. p.header = HeaderLow(m)
      BY DEF Assembled
<1>2. h = HeaderMid(m)
      <2> HIDE DEF b
      <2>1. HeaderLow(m).data_len = Len(m.data) % 256
            BY DEF HeaderLow
      <2>2. (Len(m.data) % 256) + (b % 4) * 256 = Len(m.data) /\ (b \div 4) % 16 = m.type
            /\ (b \div 64) % 2 = m.internal /\ b \div 128 = m.offset
            BY DEF HeaderRead, b
      <2> DEFINE x == (Len(m.data) % 256) + (b % 4) * 256
      <2>3. h = [HeaderLow(m) EXCEPT !.data_len = x, !.type = (b \div 4) % 16,
                                 !.internal = (b \div 64) % 2, !.offset = b \div 128]
            BY <1>1, <2>1
      <2> HIDE DEF h
      <2>4. h = [HeaderLow(m) EXCEPT !.data_len = Len(m.data), !.type = m.type,
                                 !.internal = m.internal, !.offset = m.offset]
            BY <2>2, <2>3
      <2>5. HeaderLow(m) \in [data_len : {Len(m.data) % 256}, type : {0}, internal : {0}, offset : {0},
                  id_len : {0}, response : {0}, acknum : {0}]
            BY DEF HeaderLow
      <2> QED BY <2>4, <2>5 DEF HeaderMid
<1>3. r = Continue([p EXCEPT !.header = h, !.state = exp_header_b3])
      BY DEF ExpHeaderB2
<1> HIDE DEF h
<1>4. r = Continue([p EXCEPT !.header = HeaderMid(m), !.state = exp_header_b3])
      BY <1>2, <1>3
<1> QED BY <1>4, HeaderMoves, Zenon

LEMMA StepB3 ==
    ASSUME NEW m, NEW p \in Assembled(m, exp_header_b3, 0, 0, HeaderMid(m), 0),
           HeaderRead(Len(m.data), m.type, m.internal, m.offset, Len(m.id), m.response, m.acknum,
                      HeaderB2(m), HeaderB3(m)),
           NEW r, r = ExpHeaderB3(HeaderB3(m), p)
    PROVE  GoesOn(p, r) /\ r.packet \in Assembled(m, exp_message_id, 0, 0, HeaderOf(m), 0)
<1> DEFINE b == HeaderB3(m)
           h == [p.header EXCEPT !.id_len = b % 16, !.response = (b \div 16) % 2, !.acknum = b \div 32]
<1>1. p.header = HeaderMid(m)
      BY DEF Assembled
<1>2. h = HeaderOf(m)
      <2> HIDE DEF b
      <2>2. b % 16 = Len(m.id) /\ (b \div 16) % 2 = m.response /\ b \div 32 = m.acknum
            BY DEF HeaderRead, b
      <2>4. h = [HeaderMid(m) EXCEPT !.id_len = Len(m.id), !.response = m.response, !.acknum = m.acknum]
            BY <1>1, <2>2
      <2>5. HeaderMid(m) \in [data_len : {Len(m.data)}, type : {m.type}, internal : {m.internal}, offset : {m.offset},
                  id_len : {0}, response : {0}, acknum : {0}]
            BY DEF HeaderMid
      <2> HIDE DEF h
      <2> QED BY <2>4, <2>5 DEF HeaderOf
<1>3. r = Continue([p EXCEPT !.header = h, !.state = exp_message_id])
      BY DEF ExpHeaderB3
<1> HIDE DEF h
<1>4. r = Continue([p EXCEPT !.header = HeaderOf(m), !.state = exp_message_id])
      BY <1>2, <1>3
<1> QED BY <1>4, HeaderMoves, Zenon

LEMMA IdPlace ==
    ASSUME NEW n \in 1 .. 15, NEW j \in 0 .. n - 1
    PROVE  n \in Nat /\ 1 <= n /\ n <= 15 /\ j \in Nat /\ j < n
OBVIOUS

\* An identifier byte: the next one is awaited, or what follows the identifier.
LEMMA StepId ==
    ASSUME NEW m, Sendable(m), NEW j \in 0 .. Len(m.id) - 1,
           NEW p \in Assembled(m, exp_message_id, j, 0, HeaderOf(m), 0),
           NEW r, r = ExpMessageId(m.id[j + 1], p)
    PROVE  /\ GoesOn(p, r)
           /\ IF j + 1 < Len(m.id)
              THEN r.packet \in Assembled(m, exp_message_id, j + 1, 0, HeaderOf(m), 0)
              ELSE r.packet \in Assembled(m, AfterId(HeaderOf(m)), Len(m.id), 0, HeaderOf(m), 0)
<1> DEFINE b      == m.id[j + 1]
           ids(k) == [i \in IdIndex |-> IF i < k THEN m.id[i + 1] ELSE 0]
           next   == (p.id_bytes_in + 1) % 16
           filled == [p EXCEPT !.id_in = [@ EXCEPT ![p.id_bytes_in] = b], !.id_bytes_in = next]
           n      == Len(m.id)
<1>1. n \in Nat /\ 1 <= n /\ n <= 15 /\ j \in Nat /\ j < n /\ j \in IdIndex /\ j + 1 \in IdIndex
      <2>1. n \in 1 .. 15
            BY SendableIs
      <2>2. n \in Nat /\ 1 <= n /\ n <= 15 /\ j \in Nat /\ j < n
            BY <2>1, IdPlace, Zenon
      <2> QED BY <2>2 DEF IdIndex, EUI_MAX_MSGID_SIZE
<1>2. p.id_bytes_in = j /\ p.header = HeaderOf(m) /\ p.id_in = ids(j) /\ p.header.id_len = n
      BY DEF Assembled, HeaderOf
<1>3. next = j + 1
      BY <1>1, <1>2
<1> HIDE DEF n
<1>4. [ids(j) EXCEPT ![j] = b] = ids(j + 1)
      <2>1. \A i \in IdIndex : i < j + 1 <=> i < j \/ i = j
            BY <1>1 DEF IdIndex
      <2> QED BY <1>1, <2>1
<1>5. [ids(j + 1) EXCEPT ![j + 1] = 0] = ids(j + 1)
      <2>1. ~(j + 1 < j + 1)
            BY <1>1
      <2> QED BY <1>1, <2>1
<1>6. filled = [p EXCEPT !.id_in = ids(j + 1), !.id_bytes_in = j + 1]
      <2> HIDE DEF ids, next, b
      <2> QED BY <1>2, <1>3, <1>4
<1>7. r = IF next >= n
          THEN Continue([filled EXCEPT !.id_in = [@ EXCEPT ![next] = 0], !.state = AfterId(p.header)])
          ELSE Continue(filled)
      BY <1>2 DEF ExpMessageId
<1> HIDE DEF filled, next, ids, b
<1>8. filled.id_in = ids(j + 1)
      BY <1>6 DEF Assembled
<1>9. CASE j + 1 < n
      <2>1. r.packet = filled /\ r.status = EUI_PARSER_IDLE
            BY <1>1, <1>3, <1>7, <1>9 DEF Continue, Result
      <2> QED BY <1>6, <1>9, <2>1, ZenonT(40) DEF Assembled, GoesOn, SamePace, ids, n
<1>10. CASE ~(j + 1 < n)
      <2>1. j + 1 = n /\ next >= n
            BY <1>1, <1>3, <1>10
      <2>6. [filled.id_in EXCEPT ![next] = 0] = ids(j + 1)
            BY <1>3, <1>5, <1>8
      <2>7. r = Continue([filled EXCEPT !.id_in = [filled.id_in EXCEPT ![next] = 0], !.state = AfterId(p.header)])
            BY <1>7, <2>1
      <2>2. /\ r.packet = [filled EXCEPT !.id_in = ids(j + 1), !.state = AfterId(HeaderOf(m))]
            /\ r.status = EUI_PARSER_IDLE
            <3>1. r = Continue([filled EXCEPT !.id_in = ids(j + 1), !.state = AfterId(HeaderOf(m))])
                  BY <1>2, <2>6, <2>7, Zenon
            <3> QED BY <3>1 DEF Continue, Result
      <2>3. r.packet = [p EXCEPT !.id_in = ids(j + 1), !.id_bytes_in = j + 1, !.state = AfterId(HeaderOf(m))]
            BY <1>6, <2>2
      <2>4. GoesOn(p, r)
            BY <2>2, <2>3 DEF Assembled, GoesOn, SamePace
      <2>5. r.packet \in Assembled(m, AfterId(HeaderOf(m)), j + 1, 0, HeaderOf(m), 0)
            BY <2>3 DEF Assembled, ids
      <2> QED BY <1>10, <2>1, <2>4, <2>5 DEF n
<1> QED BY <1>9, <1>10


\* The two bytes of an address.
LEMMA StepOffsetLow ==
    ASSUME NEW m, NEW ids, NEW header, NEW x, NEW p \in Assembled(m, exp_offset_b1, ids, 0, header, 0),
           NEW r, r = ExpOffsetB1(x, p)
    PROVE  GoesOn(p, r) /\ r.packet \in Assembled(m, exp_offset_b2, ids, 0, header, x)
BY DEF ExpOffsetB1, Continue, Result, GoesOn, SamePace, Assembled

LEMMA StepOffsetHigh ==
    ASSUME NEW m, NEW ids, NEW header, NEW x, NEW y, NEW p \in Assembled(m, exp_offset_b2, ids, 0, header, x)
    PROVE  /\ GoesOn(p, ExpOffsetB2(y, p))
           /\ ExpOffsetB2(y, p).packet \in Assembled(m, exp_data, ids, 0, header, x + y * 256)
BY ZenonT(40) DEF ExpOffsetB2, Continue, Result, GoesOn, SamePace, Assembled

\* data_in holds at most what data_len can say.
LEMMA PayloadMax == PAYLOAD_SIZE_MAX \in Nat /\ 1 <= PAYLOAD_SIZE_MAX /\ PAYLOAD_SIZE_MAX <= 1023
<1> DEFINE top == 1023
<1>1. PAYLOAD_SIZE_MAX \in 1 .. top /\ top \in Int
      BY PayloadAssumption
<1>2. PAYLOAD_SIZE_MAX \in Nat /\ 1 <= PAYLOAD_SIZE_MAX /\ PAYLOAD_SIZE_MAX <= top
      <2> HIDE DEF top
      <2> QED BY <1>1
<1> QED BY <1>2

\* A payload byte: the next one is awaited, or the checksum.
LEMMA StepData ==
    ASSUME NEW m, Sendable(m), NEW j \in 0 .. Len(m.data) - 1, NEW a,
           NEW p \in Assembled(m, exp_data, Len(m.id), j, HeaderOf(m), a),
           NEW r, r = ExpData(m.data[j + 1], p)
    PROVE  /\ GoesOn(p, r)
           /\ r.packet \in Assembled(m, IF j + 1 < Len(m.data) THEN exp_data ELSE exp_crc_b1,
                                     Len(m.id), j + 1, HeaderOf(m), a)
<1> DEFINE b        == m.data[j + 1]
           datas(k) == [i \in DataIndex |-> IF i < k THEN m.data[i + 1] ELSE 0]
           next     == (p.data_bytes_in + 1) % 1024
           after    == IF next >= p.header.data_len \/ next >= PAYLOAD_SIZE_MAX THEN exp_crc_b1 ELSE p.state
           n        == Len(m.data)
<1>1. /\ n \in Nat /\ n <= PAYLOAD_SIZE_MAX /\ PAYLOAD_SIZE_MAX \in Int /\ PAYLOAD_SIZE_MAX <= 1023
      /\ j \in Nat /\ j < n /\ j \in DataIndex
      <2>1. Len(m.data) \in 0 .. PAYLOAD_SIZE_MAX /\ PAYLOAD_SIZE_MAX \in Int /\ PAYLOAD_SIZE_MAX <= 1023
            BY SendableIs, PayloadMax
      <2> QED BY <2>1 DEF DataIndex
<1>2. /\ p.data_bytes_in = j /\ p.header = HeaderOf(m) /\ p.data_in = datas(j) /\ p.header.data_len = n
      /\ p.state = exp_data
      BY DEF Assembled, HeaderOf
<1>3. next = j + 1
      BY <1>1, <1>2
<1> HIDE DEF n
<1>4. [datas(j) EXCEPT ![j] = b] = datas(j + 1)
      <2>1. \A i \in DataIndex : i < j + 1 <=> i < j \/ i = j
            BY <1>1 DEF DataIndex
      <2> QED BY <1>1, <2>1
<1>5. after = IF j + 1 < n THEN exp_data ELSE exp_crc_b1
      BY <1>1, <1>2, <1>3
<1>6. r = Continue([p EXCEPT !.data_in = IF p.data_bytes_in \in DataIndex
                                         THEN [p.data_in EXCEPT ![p.data_bytes_in] = b] ELSE p.data_in,
                             !.data_bytes_in = next, !.state = after])
      BY DEF ExpData, ExpDataUpTo
<1> HIDE DEF datas, next, after, b
<1>7. r = Continue([p EXCEPT !.data_in = datas(j + 1), !.data_bytes_in = j + 1, !.state = after])
      BY <1>1, <1>2, <1>3, <1>4, <1>6
<1>8. /\ r.packet = [p EXCEPT !.data_in = datas(j + 1), !.data_bytes_in = j + 1, !.state = after]
      /\ r.status = EUI_PARSER_IDLE
      BY <1>7 DEF Continue, Result
<1>9. GoesOn(p, r)
      BY <1>8 DEF Assembled, GoesOn, SamePace
<1>10. r.packet \in Assembled(m, after, Len(m.id), j + 1, HeaderOf(m), a)
      BY <1>8 DEF Assembled, datas
<1> QED BY <1>5, <1>9, <1>10 DEF n

\* The low byte of the checksum is held against the register.
LEMMA StepCrc ==
    ASSUME NEW m, NEW ids, NEW datas, NEW header, NEW a,
           NEW p \in Assembled(m, exp_crc_b1, ids, datas, header, a),
           NEW r, r = ExpCrcB1(p.crc_in % 256, p)
    PROVE  GoesOn(p, r) /\ r.packet \in Assembled(m, exp_crc_b2, ids, datas, header, a)
BY DEF ExpCrcB1, Continue, Result, GoesOn, SamePace, Assembled

LEMMA IdSize == ASSUME NEW n \in 1 .. 15 PROVE n \in Nat /\ 1 <= n /\ n <= 15
OBVIOUS

\* The identifier in the buffer of the parser ends where that of the message does.
LEMMA IdRead ==
    ASSUME NEW id \in Seq(Byte), Len(id) \in 1 .. 15, \A k \in 1 .. Len(id) : id[k] # 0,
           NEW buffer, buffer = [j \in IdIndex |-> IF j < Len(id) THEN id[j + 1] ELSE 0]
    PROVE  CString(buffer) = id
<1> DEFINE Ends(n) == /\ n = EUI_MAX_MSGID_SIZE \/ buffer[n] = 0
                      /\ \A k \in 0 .. n - 1 : buffer[k] # 0
           end == CHOOSE n \in 0 .. EUI_MAX_MSGID_SIZE : Ends(n)
<1>1. Len(id) \in Nat /\ Len(id) <= 15
      BY IdSize, Zenon
<1>2. /\ \A j \in 0 .. Len(id) - 1 : j \in IdIndex /\ buffer[j] = id[j + 1] /\ buffer[j] # 0
      /\ buffer[Len(id)] = 0
      <2>1. ASSUME NEW j \in 0 .. Len(id) - 1 PROVE j \in IdIndex /\ buffer[j] = id[j + 1] /\ buffer[j] # 0
            <3>1. j \in IdIndex /\ j < Len(id) /\ j + 1 \in 1 .. Len(id)
                  BY <1>1 DEF IdIndex, EUI_MAX_MSGID_SIZE
            <3> QED BY <3>1
      <2>2. Len(id) \in IdIndex /\ ~(Len(id) < Len(id))
            BY <1>1 DEF IdIndex, EUI_MAX_MSGID_SIZE
      <2> QED BY <2>1, <2>2
<1>3. Ends(Len(id)) /\ Len(id) \in 0 .. EUI_MAX_MSGID_SIZE
      BY <1>1, <1>2 DEF EUI_MAX_MSGID_SIZE
<1>4. ASSUME NEW n \in 0 .. EUI_MAX_MSGID_SIZE, Ends(n) PROVE n = Len(id)
      <2>1. n \in Int /\ n >= 0 /\ n <= 16
            BY DEF EUI_MAX_MSGID_SIZE
      <2>2. CASE n < Len(id)
            <3>1. n \in 0 .. Len(id) - 1 /\ n # EUI_MAX_MSGID_SIZE
                  BY <1>1, <2>1, <2>2 DEF EUI_MAX_MSGID_SIZE
            <3> QED BY <1>2, <1>4, <3>1
      <2>3. CASE n > Len(id)
            <3>1. Len(id) \in 0 .. n - 1
                  BY <1>1, <2>1, <2>3
            <3> QED BY <1>2, <1>4, <3>1
      <2> QED BY <1>1, <2>1, <2>2, <2>3
<1>5. end = Len(id)
      <2> HIDE DEF Ends
      <2> QED BY <1>3, <1>4
<1>6. CString(buffer) = [i \in 1 .. end |-> buffer[i - 1]]
      BY DEF CString
<1> HIDE DEF end
<1>7. CString(buffer) = [i \in 1 .. Len(id) |-> id[i]]
      <2>1. \A i \in 1 .. Len(id) : i - 1 \in 0 .. Len(id) - 1 /\ (i - 1) + 1 = i
            BY <1>1
      <2> QED BY <1>2, <1>5, <1>6, <2>1
<1> QED BY <1>7

\* What the handlers read of the packet is the message.
LEMMA MessageRead ==
    ASSUME NEW m, Sendable(m),
           NEW p \in Assembled(m, exp_crc_b2, Len(m.id), Len(m.data), HeaderOf(m), m.offset_in)
    PROVE  Decoded(p) = m
<1> DEFINE L == Len(m.data)
           data == [i \in {n \in 1 .. p.header.data_len : n <= PAYLOAD_SIZE_MAX} |-> p.data_in[i - 1]]
<1>1. /\ p.header = HeaderOf(m) /\ p.offset_in = m.offset_in
      /\ p.id_in = [j \in IdIndex |-> IF j < Len(m.id) THEN m.id[j + 1] ELSE 0]
      /\ p.data_in = [j \in DataIndex |-> IF j < L THEN m.data[j + 1] ELSE 0]
      BY DEF Assembled
<1>2. CString(p.id_in) = m.id
      <2>1. m.id \in Seq(Byte) /\ Len(m.id) \in 1 .. 15 /\ \A k \in 1 .. Len(m.id) : m.id[k] # 0
            BY SendableIs
      <2> QED BY <1>1, <2>1, IdRead, Zenon
<1>3. m.data \in Seq(Byte) /\ L \in Nat /\ L <= PAYLOAD_SIZE_MAX /\ PAYLOAD_SIZE_MAX \in Int
      BY SendableIs, PayloadMax
<1>4. data = m.data
      <2>1. p.header.data_len = L
            BY <1>1 DEF HeaderOf
      <2>2. {n \in 1 .. L : n <= PAYLOAD_SIZE_MAX} = 1 .. L
            BY <1>3
      <2>3. data = [i \in 1 .. L |-> p.data_in[i - 1]]
            BY <2>1, <2>2
      <2> HIDE DEF data
      <2>4. ASSUME NEW i \in 1 .. L PROVE p.data_in[i - 1] = m.data[i]
            <3>1. i - 1 \in DataIndex /\ i - 1 < L /\ (i - 1) + 1 = i
                  BY <1>3 DEF DataIndex
            <3> QED BY <1>1, <3>1
      <2>5. m.data = [i \in 1 .. L |-> m.data[i]]
            BY <1>3
      <2> QED BY <2>3, <2>4, <2>5
<1>5. Decoded(p) = [ internal |-> p.header.internal, response |-> p.header.response,
                     acknum |-> p.header.acknum, type |-> p.header.type,
                     offset |-> p.header.offset, offset_in |-> p.offset_in,
                     id |-> CString(p.id_in), data |-> data ]
      BY DEF Decoded
<1> HIDE DEF data
<1>6. Decoded(p) = [ internal |-> m.internal, response |-> m.response, acknum |-> m.acknum,
                     type |-> m.type, offset |-> m.offset, offset_in |-> m.offset_in,
                     id |-> m.id, data |-> m.data ]
      BY <1>1, <1>2, <1>4, <1>5 DEF HeaderOf
<1> QED BY <1>6, SendableIs

\* The switch of parse_decoded_packet picks the handler of the state.
LEMMA Dispatch ==
    ASSUME NEW p, NEW b
    PROVE  /\ p.state = exp_frame_offset =>
                  ParseDecodedPacket(b, p) = Continue([p EXCEPT !.state = exp_header_b1])
           /\ p.state = exp_header_b1  => ParseDecodedPacket(b, p) = ExpHeaderB1(b, p)
           /\ p.state = exp_header_b2  => ParseDecodedPacket(b, p) = ExpHeaderB2(b, p)
           /\ p.state = exp_header_b3  => ParseDecodedPacket(b, p) = ExpHeaderB3(b, p)
           /\ p.state = exp_message_id => ParseDecodedPacket(b, p) = ExpMessageId(b, p)
           /\ p.state = exp_offset_b1  => ParseDecodedPacket(b, p) = ExpOffsetB1(b, p)
           /\ p.state = exp_offset_b2  => ParseDecodedPacket(b, p) = ExpOffsetB2(b, p)
           /\ p.state = exp_data       => ParseDecodedPacket(b, p) = ExpData(b, p)
           /\ p.state = exp_crc_b1     => ParseDecodedPacket(b, p) = ExpCrcB1(b, p)
           /\ p.state = exp_crc_b2     => ParseDecodedPacket(b, p) = ExpCrcB2(b, p)
BY DEF ParseDecodedPacket, exp_frame_offset, exp_header_b1, exp_header_b2, exp_header_b3, exp_message_id,
       exp_offset_b1, exp_offset_b2, exp_data, exp_crc_b1, exp_crc_b2

\* the lengths of a message's parts
Layout(m, n, d) ==
    /\ n = Len(m.id) /\ d = Len(m.data) /\ n \in Nat /\ d \in Nat /\ 1 <= n /\ n <= 15
    /\ Fixed(m) \in Nat /\ 3 + n <= Fixed(m)
    /\ (m.offset = 1 => Fixed(m) = 5 + n) /\ (m.offset = 0 => Fixed(m) = 3 + n) /\ Len(BodyOf(m)) = Fixed(m) + d
    /\ m.offset \in {0, 1} /\ (m.offset = 0 => m.offset_in = 0)

LEMMA LayoutIs == ASSUME NEW m, Sendable(m) PROVE Layout(m, Len(m.id), Len(m.data))
<1>1. Len(m.id) \in 1 .. 15 /\ m.data \in Seq(Byte) /\ m.offset \in Bit /\ (m.offset = 0 => m.offset_in = 0)
      BY SendableIs
<1>2. Len(m.id) \in Nat /\ 1 <= Len(m.id) /\ Len(m.id) <= 15
      BY <1>1, IdSize, Zenon
<1>3. Len(m.data) \in Nat
      BY <1>1
<1>4. m.offset \in {0, 1}
      BY <1>1 DEF Bit
<1>5. Len(BodyOf(m)) = 3 + Len(m.id) + Address2(m) + Len(m.data)
      BY BodyIs
<1>6. m.offset = 0 => m.offset_in = 0
      BY <1>1
<1> DEFINE n == Len(m.id)
           d == Len(m.data)
<1> HIDE DEF n, d
<1>7. /\ n \in Nat /\ d \in Nat /\ 1 <= n /\ n <= 15 /\ Fixed(m) = 3 + n + Address2(m)
      /\ Len(BodyOf(m)) = 3 + n + Address2(m) + d
      BY <1>2, <1>3, <1>5 DEF n, d, Fixed
<1>8. (m.offset = 1 => Fixed(m) = 5 + n) /\ (m.offset = 0 => Fixed(m) = 3 + n)
      BY <1>7 DEF Address2
<1>9. Len(BodyOf(m)) = Fixed(m) + d
      BY <1>7
<1>10. Fixed(m) \in Nat /\ 3 + n <= Fixed(m)
      BY <1>4, <1>7, <1>8
<1> QED BY <1>4, <1>6, <1>7, <1>8, <1>9, <1>10 DEF Layout, n, d

\* The bytes of a message, one by one.
LEMMA ByteOf ==
    ASSUME NEW m, Sendable(m)
    PROVE  /\ BodyOf(m)[1] = Len(m.data) % 256 /\ BodyOf(m)[2] = HeaderB2(m) /\ BodyOf(m)[3] = HeaderB3(m)
           /\ \A j \in 1 .. Len(m.id) : BodyOf(m)[3 + j] = m.id[j]
           /\ m.offset = 1 => /\ BodyOf(m)[3 + Len(m.id) + 1] = m.offset_in % 256
                              /\ BodyOf(m)[3 + Len(m.id) + 2] = m.offset_in \div 256
           /\ \A j \in 1 .. Len(m.data) : BodyOf(m)[Fixed(m) + j] = m.data[j]
<1> DEFINE w == BodyOf(m)
           h == << Len(m.data) % 256, HeaderB2(m), HeaderB3(m) >>
           e == LittleEndian(m.offset_in)
<1>1. /\ Lies(w, 0, h) /\ Lies(w, 3, m.id) /\ Lies(w, Fixed(m), m.data)
      /\ m.offset = 1 => Lies(w, 3 + Len(m.id), e)
      BY BodyIs DEF Fixed
<1>2. Len(h) = 3 /\ h[1] = Len(m.data) % 256 /\ h[2] = HeaderB2(m) /\ h[3] = HeaderB3(m)
      OBVIOUS
<1>3. Len(e) = 2 /\ e[1] = m.offset_in % 256 /\ e[2] = m.offset_in \div 256
      BY DEF LittleEndian
<1> HIDE DEF w, h, e
<1>4. w[1] = h[1] /\ w[2] = h[2] /\ w[3] = h[3]
      <2>1. 1 \in 1 .. Len(h) /\ 2 \in 1 .. Len(h) /\ 3 \in 1 .. Len(h)
            BY <1>2
      <2>2. w[0 + 1] = h[1] /\ w[0 + 2] = h[2] /\ w[0 + 3] = h[3]
            BY <1>1, <2>1, Zenon DEF Lies
      <2> QED BY <2>2
<1>5. m.offset = 1 => w[3 + Len(m.id) + 1] = e[1] /\ w[3 + Len(m.id) + 2] = e[2]
      <2>1. 1 \in 1 .. Len(e) /\ 2 \in 1 .. Len(e)
            BY <1>3
      <2> QED BY <1>1, <2>1, Zenon DEF Lies
<1>6. (\A j \in 1 .. Len(m.id) : w[3 + j] = m.id[j]) /\ (\A j \in 1 .. Len(m.data) : w[Fixed(m) + j] = m.data[j])
      BY <1>1, Zenon DEF Lies
<1>7. w[1] = Len(m.data) % 256 /\ w[2] = HeaderB2(m) /\ w[3] = HeaderB3(m)
      BY <1>2, <1>4
<1>8. m.offset = 1 => /\ w[3 + Len(m.id) + 1] = m.offset_in % 256
                      /\ w[3 + Len(m.id) + 2] = m.offset_in \div 256
      BY <1>3, <1>5
<1> QED BY <1>6, <1>7, <1>8, Zenon DEF w

\* the byte was the next one of the message
ReadsOn(m, k, p, r) == GoesOn(p, r) /\ Reading(m, k + 1, r.packet)

\* A byte of the header.
LEMMA HeaderByte ==
    ASSUME NEW m, Sendable(m), NEW k \in 0 .. 2, NEW p, Reading(m, k, p),
           NEW r, r = ParseDecodedPacket(BodyOf(m)[k + 1], p)
    PROVE  ReadsOn(m, k, p, r)
<1>1. Layout(m, Len(m.id), Len(m.data))
      BY LayoutIs
<1>2. HeaderRead(Len(m.data), m.type, m.internal, m.offset, Len(m.id), m.response, m.acknum,
                 HeaderB2(m), HeaderB3(m))
      <2>1. /\ Len(m.data) \in Bits10 /\ m.type \in Bits4 /\ m.internal \in Bit /\ m.offset \in Bit
            /\ m.response \in Bit /\ m.acknum \in Bits3 /\ Len(m.id) \in 1 .. 15
            BY SendableIs
      <2>2. Len(m.id) \in Bits4
            BY <2>1, IdLength, Zenon
      <2> QED BY <2>1, <2>2, HeaderBytes, Zenon
<1>3. /\ k = 0 => p \in Assembled(m, exp_header_b1, 0, 0, ZeroHeader, 0)
      /\ k = 1 => p \in Assembled(m, exp_header_b2, 0, 0, HeaderLow(m), 0)
      /\ k = 2 => p \in Assembled(m, exp_header_b3, 0, 0, HeaderMid(m), 0)
      <2>1. Fixed(m) \in Int /\ Fixed(m) >= 3 /\ Len(m.id) \in Nat /\ Len(m.data) \in Nat
            BY <1>1 DEF Layout
      <2>2. /\ k \notin 3 .. 2 + Len(m.id) /\ k # 3 + Len(m.id) /\ k # 4 + Len(m.id)
            /\ k \notin Fixed(m) .. Fixed(m) + Len(m.data) - 1
            /\ k # Fixed(m) + Len(m.data) /\ k # Fixed(m) + Len(m.data) + 1
            BY <2>1
      <2>3. \/ k = 0 /\ p \in Assembled(m, exp_header_b1, 0, 0, ZeroHeader, 0)
            \/ k = 1 /\ p \in Assembled(m, exp_header_b2, 0, 0, HeaderLow(m), 0)
            \/ k = 2 /\ p \in Assembled(m, exp_header_b3, 0, 0, HeaderMid(m), 0)
            BY <2>2, Zenon DEF Reading
      <2> QED BY <2>3
<1>4. BodyOf(m)[1] = Len(m.data) % 256 /\ BodyOf(m)[2] = HeaderB2(m) /\ BodyOf(m)[3] = HeaderB3(m)
      BY ByteOf, Zenon
<1>5. CASE k = 0
      <2>1. k + 1 = 1 /\ p \in Assembled(m, exp_header_b1, 0, 0, ZeroHeader, 0)
            BY <1>3, <1>5
      <2>2. p.state = exp_header_b1
            BY <2>1 DEF Assembled
      <2>3. r = ExpHeaderB1(Len(m.data) % 256, p)
            <3>1. r = ParseDecodedPacket(BodyOf(m)[1], p)
                  BY <2>1
            <3> QED BY <1>4, <2>2, <3>1, Dispatch, ZenonT(40)
      <2>4. GoesOn(p, r) /\ r.packet \in Assembled(m, exp_header_b2, 0, 0, HeaderLow(m), 0)
            BY <2>1, <2>3, StepB1, Zenon
      <2> QED BY <2>1, <2>4, Zenon DEF ReadsOn, Reading
<1>6. CASE k = 1
      <2>1. k + 1 = 2 /\ p \in Assembled(m, exp_header_b2, 0, 0, HeaderLow(m), 0)
            BY <1>3, <1>6
      <2>2. p.state = exp_header_b2
            BY <2>1 DEF Assembled
      <2>3. r = ExpHeaderB2(HeaderB2(m), p)
            <3>1. r = ParseDecodedPacket(BodyOf(m)[2], p)
                  BY <2>1
            <3> QED BY <1>4, <2>2, <3>1, Dispatch, Zenon
      <2>4. GoesOn(p, r) /\ r.packet \in Assembled(m, exp_header_b3, 0, 0, HeaderMid(m), 0)
            BY <1>2, <2>1, <2>3, StepB2, Zenon
      <2> QED BY <2>1, <2>4, Zenon DEF ReadsOn, Reading
<1>7. CASE k = 2
      <2>1. k + 1 = 3 /\ p \in Assembled(m, exp_header_b3, 0, 0, HeaderMid(m), 0)
            BY <1>3, <1>7
      <2>2. p.state = exp_header_b3
            BY <2>1 DEF Assembled
      <2>3. r = ExpHeaderB3(HeaderB3(m), p)
            <3>1. r = ParseDecodedPacket(BodyOf(m)[3], p)
                  BY <2>1
            <3> QED BY <1>4, <2>2, <3>1, Dispatch, Zenon
      <2>4. GoesOn(p, r) /\ r.packet \in Assembled(m, exp_message_id, 0, 0, HeaderOf(m), 0)
            BY <1>2, <2>1, <2>3, StepB3, Zenon
      <2>5. k + 1 \in 3 .. 2 + Len(m.id) /\ (k + 1) - 3 = 0
            BY <1>1, <1>7 DEF Layout
      <2> QED BY <2>4, <2>5, Zenon DEF ReadsOn, Reading
<1> QED BY <1>5, <1>6, <1>7

\* A byte of the identifier.
LEMMA IdByte ==
    ASSUME NEW m, Deliverable(m), NEW k \in 3 .. 2 + Len(m.id), NEW p,
           p \in Assembled(m, exp_message_id, k - 3, 0, HeaderOf(m), 0),
           NEW r, r = ParseDecodedPacket(BodyOf(m)[k + 1], p)
    PROVE  ReadsOn(m, k, p, r)
<1> DEFINE n == Len(m.id)
           d == Len(m.data)
           j == k - 3
<1>1. Sendable(m) /\ Layout(m, n, d)
      BY LayoutIs DEF Deliverable
<1>2. /\ n \in Nat /\ d \in Nat /\ 1 <= n /\ n <= 15 /\ m.offset \in {0, 1} /\ (m.offset = 0 => m.offset_in = 0)
      /\ (m.offset = 1 => Fixed(m) = 5 + n) /\ (m.offset = 0 => Fixed(m) = 3 + n)
      BY <1>1 DEF Layout
<1>3. j \in 0 .. Len(m.id) - 1 /\ j + 1 \in 1 .. Len(m.id) /\ k + 1 = 3 + (j + 1) /\ k \in Int /\ j \in Int
      BY <1>2
<1>4. BodyOf(m)[3 + (j + 1)] = m.id[j + 1]
      BY <1>1, <1>3, ByteOf, ZenonT(40)
<1>5. p.state = exp_message_id
      BY DEF Assembled
<1>6. r = ExpMessageId(m.id[j + 1], p)
      <2>1. r = ParseDecodedPacket(m.id[j + 1], p)
            BY <1>3, <1>4
      <2> QED BY <1>5, <2>1, Dispatch, Zenon
<1>7. p \in Assembled(m, exp_message_id, j, 0, HeaderOf(m), 0)
      OBVIOUS
<1> HIDE DEF j
<1>8. /\ GoesOn(p, r)
      /\ IF j + 1 < Len(m.id)
         THEN r.packet \in Assembled(m, exp_message_id, j + 1, 0, HeaderOf(m), 0)
         ELSE r.packet \in Assembled(m, AfterId(HeaderOf(m)), Len(m.id), 0, HeaderOf(m), 0)
      BY <1>1, <1>3, <1>6, <1>7, StepId, Zenon
<1> HIDE DEF n, d
<1>9. CASE j + 1 < Len(m.id)
      <2>1. k + 1 \in 3 .. 2 + Len(m.id) /\ (k + 1) - 3 = j + 1
            BY <1>2, <1>3, <1>9 DEF n
      <2>2. r.packet \in Assembled(m, exp_message_id, (k + 1) - 3, 0, HeaderOf(m), 0)
            BY <1>8, <1>9, <2>1
      <2> QED BY <1>8, <2>1, <2>2, Zenon DEF ReadsOn, Reading
<1>10. CASE ~(j + 1 < Len(m.id))
      <2>1. k + 1 = 3 + Len(m.id)
            BY <1>2, <1>3, <1>10 DEF n
      <2>2. r.packet \in Assembled(m, AfterId(HeaderOf(m)), Len(m.id), 0, HeaderOf(m), 0)
            BY <1>8, <1>10
      <2>3. HeaderOf(m).offset = m.offset /\ HeaderOf(m).data_len = Len(m.data)
            BY DEF HeaderOf
      <2>4. CASE m.offset = 1
            <3>1. AfterId(HeaderOf(m)) = exp_offset_b1
                  BY <2>3, <2>4 DEF AfterId
            <3>2. r.packet \in Assembled(m, exp_offset_b1, Len(m.id), 0, HeaderOf(m), 0)
                  BY <2>2, <3>1
            <3> QED BY <1>8, <2>1, <2>4, <3>2, Zenon DEF ReadsOn, Reading
      <2>5. CASE m.offset = 0 /\ Len(m.data) > 0
            <3>1. AfterId(HeaderOf(m)) = exp_data
                  BY <2>3, <2>5 DEF AfterId
            <3>2. k + 1 \in Fixed(m) .. Fixed(m) + Len(m.data) - 1 /\ (k + 1) - Fixed(m) = 0 /\ m.offset_in = 0
                  BY <1>2, <1>3, <2>1, <2>5 DEF n, d
            <3>3. r.packet \in Assembled(m, exp_data, Len(m.id), (k + 1) - Fixed(m), HeaderOf(m), m.offset_in)
                  BY <2>2, <3>1, <3>2
            <3> QED BY <1>8, <3>2, <3>3, Zenon DEF ReadsOn, Reading
      <2>6. CASE m.offset = 0 /\ ~(Len(m.data) > 0)
            <3>1. AfterId(HeaderOf(m)) = exp_crc_b1
                  BY <2>3, <2>6 DEF AfterId
            <3>2. k + 1 = Fixed(m) + Len(m.data) /\ Len(m.data) = 0 /\ m.offset_in = 0
                  BY <1>2, <1>3, <2>1, <2>6 DEF n, d
            <3>3. r.packet \in Assembled(m, exp_crc_b1, Len(m.id), Len(m.data), HeaderOf(m), m.offset_in)
                  BY <2>2, <3>1, <3>2
            <3> QED BY <1>8, <3>2, <3>3, Zenon DEF ReadsOn, Reading
      <2> QED BY <1>2, <2>4, <2>5, <2>6
<1> QED BY <1>9, <1>10

\* A byte of the address.
LEMMA AddressByte ==
    ASSUME NEW m, Deliverable(m), m.offset = 1, NEW k \in Int, NEW p, NEW r, r = ParseDecodedPacket(BodyOf(m)[k + 1], p)
    PROVE  /\ k = 3 + Len(m.id) /\ p \in Assembled(m, exp_offset_b1, Len(m.id), 0, HeaderOf(m), 0) => ReadsOn(m, k, p, r)
           /\ k = 4 + Len(m.id) /\ p \in Assembled(m, exp_offset_b2, Len(m.id), 0, HeaderOf(m), m.offset_in % 256) =>
                 ReadsOn(m, k, p, r)
<1> DEFINE n == Len(m.id)
           d == Len(m.data)
           x == m.offset_in % 256
           y == m.offset_in \div 256
<1>1. Sendable(m) /\ Layout(m, n, d) /\ m.data # << >>
      BY LayoutIs DEF Deliverable
<1>2. n \in Nat /\ d \in Nat /\ Fixed(m) = 5 + n
      BY <1>1 DEF Layout
<1>3. d > 0
      <2>1. m.data \in Seq(Byte)
            BY <1>1, SendableIs
      <2> QED BY <1>1, <2>1
<1>4. BodyOf(m)[3 + Len(m.id) + 1] = x /\ BodyOf(m)[3 + Len(m.id) + 2] = y
      BY <1>1, ByteOf, Zenon
<1>5. x + y * 256 = m.offset_in
      <2>1. m.offset_in \in Int /\ 0 <= m.offset_in
            BY <1>1, SendableIs, WordDef
      <2> QED BY <2>1
<1> HIDE DEF n, d, x, y
<1>6. ASSUME k = 3 + Len(m.id), p \in Assembled(m, exp_offset_b1, Len(m.id), 0, HeaderOf(m), 0)
      PROVE  ReadsOn(m, k, p, r)
      <2>1. p.state = exp_offset_b1
            BY <1>6 DEF Assembled
      <2>2. r = ParseDecodedPacket(x, p) /\ k + 1 = 4 + Len(m.id)
            BY <1>2, <1>4, <1>6 DEF n
      <2>3. r = ExpOffsetB1(x, p)
            BY <2>1, <2>2, Dispatch, Zenon
      <2>4. GoesOn(p, r) /\ r.packet \in Assembled(m, exp_offset_b2, Len(m.id), 0, HeaderOf(m), x)
            BY <1>6, <2>3, StepOffsetLow, Zenon
      <2> QED BY <2>2, <2>4, Zenon DEF ReadsOn, Reading, x
<1>7. ASSUME k = 4 + Len(m.id), p \in Assembled(m, exp_offset_b2, Len(m.id), 0, HeaderOf(m), m.offset_in % 256)
      PROVE  ReadsOn(m, k, p, r)
      <2>1. p.state = exp_offset_b2 /\ p \in Assembled(m, exp_offset_b2, Len(m.id), 0, HeaderOf(m), x)
            BY <1>7 DEF Assembled, x
      <2>2. r = ParseDecodedPacket(y, p)
            <3>1. k + 1 = 3 + Len(m.id) + 2
                  BY <1>2, <1>7 DEF n
            <3> QED BY <1>4, <3>1
      <2>3. r = ExpOffsetB2(y, p)
            BY <2>1, <2>2, Dispatch, Zenon
      <2>4. GoesOn(p, r) /\ r.packet \in Assembled(m, exp_data, Len(m.id), 0, HeaderOf(m), m.offset_in)
            <3>1. /\ GoesOn(p, ExpOffsetB2(y, p))
                  /\ ExpOffsetB2(y, p).packet \in Assembled(m, exp_data, Len(m.id), 0, HeaderOf(m), x + y * 256)
                  BY <2>1, StepOffsetHigh
            <3> QED BY <1>5, <2>3, <3>1
      <2>5. k + 1 \in Fixed(m) .. Fixed(m) + Len(m.data) - 1 /\ (k + 1) - Fixed(m) = 0
            <3>1. k + 1 = Fixed(m)
                  BY <1>2, <1>7 DEF n
            <3>2. Fixed(m) \in Int /\ Len(m.data) \in Int /\ Len(m.data) > 0
                  BY <1>2, <1>3 DEF n, d
            <3> QED BY <3>1, <3>2
      <2>6. r.packet \in Assembled(m, exp_data, Len(m.id), (k + 1) - Fixed(m), HeaderOf(m), m.offset_in)
            BY <1>5, <2>4, <2>5
      <2> QED BY <2>4, <2>5, <2>6, Zenon DEF ReadsOn, Reading
<1> QED BY <1>6, <1>7

\* A byte of the payload.
LEMMA DataByte ==
    ASSUME NEW m, Deliverable(m), NEW k \in Fixed(m) .. Fixed(m) + Len(m.data) - 1, NEW p,
           p \in Assembled(m, exp_data, Len(m.id), k - Fixed(m), HeaderOf(m), m.offset_in),
           NEW r, r = ParseDecodedPacket(BodyOf(m)[k + 1], p)
    PROVE  ReadsOn(m, k, p, r)
<1> DEFINE n == Len(m.id)
           d == Len(m.data)
           j == k - Fixed(m)
<1>1. Sendable(m) /\ Layout(m, n, d)
      BY LayoutIs DEF Deliverable
<1>2. n \in Nat /\ d \in Nat /\ Fixed(m) \in Nat
      BY <1>1 DEF Layout
<1>3. j \in 0 .. Len(m.data) - 1 /\ j + 1 \in 1 .. Len(m.data) /\ k + 1 = Fixed(m) + (j + 1) /\ k \in Int /\ j \in Int
      BY <1>2, SMTT(30)
<1>4. BodyOf(m)[Fixed(m) + (j + 1)] = m.data[j + 1]
      BY <1>1, <1>3, ByteOf, ZenonT(40)
<1>5. p.state = exp_data
      BY DEF Assembled
<1>6. r = ExpData(m.data[j + 1], p)
      <2>1. r = ParseDecodedPacket(m.data[j + 1], p)
            BY <1>3, <1>4
      <2> QED BY <1>5, <2>1, Dispatch, Zenon
<1>7. p \in Assembled(m, exp_data, Len(m.id), j, HeaderOf(m), m.offset_in)
      OBVIOUS
<1> HIDE DEF j, n, d
<1>8. /\ GoesOn(p, r)
      /\ r.packet \in Assembled(m, IF j + 1 < Len(m.data) THEN exp_data ELSE exp_crc_b1,
                                Len(m.id), j + 1, HeaderOf(m), m.offset_in)
      BY <1>1, <1>3, <1>6, <1>7, StepData, Zenon
<1>9. CASE j + 1 < Len(m.data)
      <2>1. k + 1 \in Fixed(m) .. Fixed(m) + Len(m.data) - 1 /\ (k + 1) - Fixed(m) = j + 1
            BY <1>2, <1>3, <1>9 DEF d
      <2>2. r.packet \in Assembled(m, exp_data, Len(m.id), (k + 1) - Fixed(m), HeaderOf(m), m.offset_in)
            BY <1>8, <1>9, <2>1
      <2> QED BY <1>8, <2>1, <2>2, Zenon DEF ReadsOn, Reading
<1>10. CASE ~(j + 1 < Len(m.data))
      <2>1. k + 1 = Fixed(m) + Len(m.data) /\ j + 1 = Len(m.data)
            BY <1>2, <1>3, <1>10 DEF d
      <2>2. r.packet \in Assembled(m, exp_crc_b1, Len(m.id), Len(m.data), HeaderOf(m), m.offset_in)
            BY <1>8, <1>10, <2>1
      <2> QED BY <1>8, <2>1, <2>2, Zenon DEF ReadsOn, Reading
<1> QED BY <1>9, <1>10

\* The bytes that the checksum covers.
LEMMA BodyByte ==
    ASSUME NEW m, Deliverable(m), NEW k \in 0 .. Len(BodyOf(m)) - 1, NEW p, Reading(m, k, p),
           NEW r, r = ParseDecodedPacket(BodyOf(m)[k + 1], p)
    PROVE  ReadsOn(m, k, p, r)
<1>1. Sendable(m) /\ Layout(m, Len(m.id), Len(m.data))
      BY LayoutIs DEF Deliverable
<1>2. CASE k \in 0 .. 2
      BY <1>1, <1>2, HeaderByte, Zenon
<1>3. CASE k \notin 0 .. 2
      <2>1. /\ k \in Int /\ k # 0 /\ k # 1 /\ k # 2
            /\ k # Fixed(m) + Len(m.data) /\ k # Fixed(m) + Len(m.data) + 1
            BY <1>1, <1>3, SMTT(30) DEF Layout
      <2>2. \/ k \in 3 .. 2 + Len(m.id) /\ p \in Assembled(m, exp_message_id, k - 3, 0, HeaderOf(m), 0)
            \/ /\ k = 3 + Len(m.id) /\ m.offset = 1
               /\ p \in Assembled(m, exp_offset_b1, Len(m.id), 0, HeaderOf(m), 0)
            \/ /\ k = 4 + Len(m.id) /\ m.offset = 1
               /\ p \in Assembled(m, exp_offset_b2, Len(m.id), 0, HeaderOf(m), m.offset_in % 256)
            \/ /\ k \in Fixed(m) .. Fixed(m) + Len(m.data) - 1
               /\ p \in Assembled(m, exp_data, Len(m.id), k - Fixed(m), HeaderOf(m), m.offset_in)
            BY <2>1, Zenon DEF Reading
      <2>3. CASE k \in 3 .. 2 + Len(m.id) /\ p \in Assembled(m, exp_message_id, k - 3, 0, HeaderOf(m), 0)
            BY <2>3, IdByte, Zenon
      <2>4. CASE /\ k = 3 + Len(m.id) /\ m.offset = 1
                 /\ p \in Assembled(m, exp_offset_b1, Len(m.id), 0, HeaderOf(m), 0)
            BY <2>1, <2>4, AddressByte, Zenon
      <2>5. CASE /\ k = 4 + Len(m.id) /\ m.offset = 1
                 /\ p \in Assembled(m, exp_offset_b2, Len(m.id), 0, HeaderOf(m), m.offset_in % 256)
            BY <2>1, <2>5, AddressByte, Zenon
      <2>6. CASE /\ k \in Fixed(m) .. Fixed(m) + Len(m.data) - 1
                 /\ p \in Assembled(m, exp_data, Len(m.id), k - Fixed(m), HeaderOf(m), m.offset_in)
            BY <2>6, DataByte, Zenon
      <2> QED BY <2>2, <2>3, <2>4, <2>5, <2>6
<1> QED BY <1>2, <1>3

\* the packet with the countdown and the checksum of the byte that arrived
Restuff(p, f, c) == [p EXCEPT !.frame_offset = f, !.crc_in = c]

\* Neither of them is part of what was read.
LEMMA ReadingRestuffed ==
    ASSUME NEW m, NEW k, NEW p, Reading(m, k, p), NEW f \in Int, NEW c \in Int
    PROVE  /\ Reading(m, k, Restuff(p, f, c)) /\ Restuff(p, f, c).frame_offset = f
           /\ Restuff(p, f, c).crc_in = c /\ Restuff(p, f, c).state = p.state
<1> DEFINE q == Restuff(p, f, c)
<1>1. ASSUME NEW state, NEW ids, NEW datas, NEW header, NEW a, p \in Assembled(m, state, ids, datas, header, a)
      PROVE  /\ q \in Assembled(m, state, ids, datas, header, a)
             /\ q.frame_offset = f /\ q.crc_in = c /\ q.state = p.state
      BY <1>1 DEF Assembled, Restuff
<1> HIDE DEF q
<1>2. Reading(m, k, q)
      <2>1. CASE k = 0 /\ p \in Assembled(m, exp_header_b1, 0, 0, ZeroHeader, 0)
            <3>1. q \in Assembled(m, exp_header_b1, 0, 0, ZeroHeader, 0)
                  BY <1>1, <2>1
            <3> QED BY <2>1, <3>1, Zenon DEF Reading
      <2>2. CASE k = 1 /\ p \in Assembled(m, exp_header_b2, 0, 0, HeaderLow(m), 0)
            <3>1. q \in Assembled(m, exp_header_b2, 0, 0, HeaderLow(m), 0)
                  BY <1>1, <2>2
            <3> QED BY <2>2, <3>1, Zenon DEF Reading
      <2>3. CASE k = 2 /\ p \in Assembled(m, exp_header_b3, 0, 0, HeaderMid(m), 0)
            <3>1. q \in Assembled(m, exp_header_b3, 0, 0, HeaderMid(m), 0)
                  BY <1>1, <2>3
            <3> QED BY <2>3, <3>1, Zenon DEF Reading
      <2>4. CASE k \in 3 .. 2 + Len(m.id) /\ p \in Assembled(m, exp_message_id, k - 3, 0, HeaderOf(m), 0)
            <3>1. q \in Assembled(m, exp_message_id, k - 3, 0, HeaderOf(m), 0)
                  BY <1>1, <2>4
            <3> QED BY <2>4, <3>1, Zenon DEF Reading
      <2>5. CASE /\ k = 3 + Len(m.id) /\ m.offset = 1
                 /\ p \in Assembled(m, exp_offset_b1, Len(m.id), 0, HeaderOf(m), 0)
            <3>1. q \in Assembled(m, exp_offset_b1, Len(m.id), 0, HeaderOf(m), 0)
                  BY <1>1, <2>5
            <3> QED BY <2>5, <3>1, Zenon DEF Reading
      <2>6. CASE /\ k = 4 + Len(m.id) /\ m.offset = 1
                 /\ p \in Assembled(m, exp_offset_b2, Len(m.id), 0, HeaderOf(m), m.offset_in % 256)
            <3>1. q \in Assembled(m, exp_offset_b2, Len(m.id), 0, HeaderOf(m), m.offset_in % 256)
                  BY <1>1, <2>6
            <3> QED BY <2>6, <3>1, Zenon DEF Reading
      <2>7. CASE /\ k \in Fixed(m) .. Fixed(m) + Len(m.data) - 1
                 /\ p \in Assembled(m, exp_data, Len(m.id), k - Fixed(m), HeaderOf(m), m.offset_in)
            <3>1. q \in Assembled(m, exp_data, Len(m.id), k - Fixed(m), HeaderOf(m), m.offset_in)
                  BY <1>1, <2>7
            <3> QED BY <2>7, <3>1, Zenon DEF Reading
      <2>8. CASE /\ k = Fixed(m) + Len(m.data)
                 /\ p \in Assembled(m, exp_crc_b1, Len(m.id), Len(m.data), HeaderOf(m), m.offset_in)
            <3>1. q \in Assembled(m, exp_crc_b1, Len(m.id), Len(m.data), HeaderOf(m), m.offset_in)
                  BY <1>1, <2>8
            <3> QED BY <2>8, <3>1, Zenon DEF Reading
      <2>9. CASE /\ k = Fixed(m) + Len(m.data) + 1
                 /\ p \in Assembled(m, exp_crc_b2, Len(m.id), Len(m.data), HeaderOf(m), m.offset_in)
            <3>1. q \in Assembled(m, exp_crc_b2, Len(m.id), Len(m.data), HeaderOf(m), m.offset_in)
                  BY <1>1, <2>9
            <3> QED BY <2>9, <3>1, Zenon DEF Reading
      <2> QED BY <2>1, <2>2, <2>3, <2>4, <2>5, <2>6, <2>7, <2>8, <2>9, Zenon DEF Reading
<1>3. q.frame_offset = f /\ q.crc_in = c /\ q.state = p.state
      BY <1>1, ZenonT(40) DEF Reading
<1> QED BY <1>2, <1>3 DEF q

\* The checksum runs over the bytes of the message and not over itself.
LEMMA ReadingState ==
    ASSUME NEW m, Deliverable(m), NEW k \in Int, NEW p, Reading(m, k, p)
    PROVE  /\ k < Len(BodyOf(m)) => exp_frame_offset < p.state /\ p.state < exp_crc_b1
           /\ k >= Len(BodyOf(m)) => ~(p.state < exp_crc_b1)
           /\ k = Len(BodyOf(m)) => p \in Assembled(m, exp_crc_b1, Len(m.id), Len(m.data), HeaderOf(m), m.offset_in)
           /\ k = Len(BodyOf(m)) + 1 => p \in Assembled(m, exp_crc_b2, Len(m.id), Len(m.data), HeaderOf(m), m.offset_in)
<1> DEFINE n == Len(m.id)
           d == Len(m.data)
           L == Len(BodyOf(m))
<1>2. Layout(m, n, d)
      BY LayoutIs DEF Deliverable
<1>3. /\ n \in Nat /\ d \in Nat /\ 1 <= n /\ Fixed(m) \in Nat /\ 3 + n <= Fixed(m) /\ L = Fixed(m) + d
      /\ (m.offset = 1 => Fixed(m) = 5 + n)
      BY <1>2 DEF Layout
<1>4. ASSUME NEW state, NEW ids, NEW datas, NEW header, NEW a, p \in Assembled(m, state, ids, datas, header, a)
      PROVE  p.state = state
      BY <1>4 DEF Assembled
<1>5. \/ k < L /\ p.state \in {exp_header_b1, exp_header_b2, exp_header_b3, exp_message_id, exp_offset_b1,
                               exp_offset_b2, exp_data}
      \/ /\ k = L /\ p.state = exp_crc_b1
         /\ p \in Assembled(m, exp_crc_b1, Len(m.id), Len(m.data), HeaderOf(m), m.offset_in)
      \/ /\ k = L + 1 /\ p.state = exp_crc_b2
         /\ p \in Assembled(m, exp_crc_b2, Len(m.id), Len(m.data), HeaderOf(m), m.offset_in)
      <2>1. CASE k = 0 /\ p \in Assembled(m, exp_header_b1, 0, 0, ZeroHeader, 0)
            BY <1>3, <1>4, <2>1
      <2>2. CASE k = 1 /\ p \in Assembled(m, exp_header_b2, 0, 0, HeaderLow(m), 0)
            BY <1>3, <1>4, <2>2
      <2>3. CASE k = 2 /\ p \in Assembled(m, exp_header_b3, 0, 0, HeaderMid(m), 0)
            BY <1>3, <1>4, <2>3
      <2>4. CASE k \in 3 .. 2 + Len(m.id) /\ p \in Assembled(m, exp_message_id, k - 3, 0, HeaderOf(m), 0)
            <3>1. k < L
                  BY <1>3, <2>4
            <3> QED BY <1>4, <2>4, <3>1
      <2>5. CASE /\ k = 3 + Len(m.id) /\ m.offset = 1
                 /\ p \in Assembled(m, exp_offset_b1, Len(m.id), 0, HeaderOf(m), 0)
            <3>1. k < L
                  BY <1>3, <2>5
            <3> QED BY <1>4, <2>5, <3>1
      <2>6. CASE /\ k = 4 + Len(m.id) /\ m.offset = 1
                 /\ p \in Assembled(m, exp_offset_b2, Len(m.id), 0, HeaderOf(m), m.offset_in % 256)
            <3>1. k < L
                  BY <1>3, <2>6
            <3> QED BY <1>4, <2>6, <3>1
      <2>7. CASE /\ k \in Fixed(m) .. Fixed(m) + Len(m.data) - 1
                 /\ p \in Assembled(m, exp_data, Len(m.id), k - Fixed(m), HeaderOf(m), m.offset_in)
            <3>1. k < L
                  BY <1>3, <2>7
            <3> QED BY <1>4, <2>7, <3>1
      <2>8. CASE /\ k = Fixed(m) + Len(m.data)
                 /\ p \in Assembled(m, exp_crc_b1, Len(m.id), Len(m.data), HeaderOf(m), m.offset_in)
            BY <1>3, <1>4, <2>8
      <2>9. CASE /\ k = Fixed(m) + Len(m.data) + 1
                 /\ p \in Assembled(m, exp_crc_b2, Len(m.id), Len(m.data), HeaderOf(m), m.offset_in)
            BY <1>3, <1>4, <2>9
      <2> QED BY <2>1, <2>2, <2>3, <2>4, <2>5, <2>6, <2>7, <2>8, <2>9, Zenon DEF Reading
<1>6. L \in Int
      BY <1>3
<1> HIDE DEF L
<1>7. k < L => exp_frame_offset < p.state /\ p.state < exp_crc_b1
      BY <1>5, <1>6 DEF exp_frame_offset, exp_header_b1, exp_header_b2, exp_header_b3, exp_message_id,
                exp_offset_b1, exp_offset_b2, exp_data, exp_crc_b1, exp_crc_b2
<1>8. k >= L => ~(p.state < exp_crc_b1)
      BY <1>5, <1>6 DEF exp_crc_b1, exp_crc_b2
<1>9. /\ k = L => p \in Assembled(m, exp_crc_b1, Len(m.id), Len(m.data), HeaderOf(m), m.offset_in)
      /\ k = L + 1 => p \in Assembled(m, exp_crc_b2, Len(m.id), Len(m.data), HeaderOf(m), m.offset_in)
      BY <1>5, <1>6
<1> QED BY <1>7, <1>8, <1>9 DEF L

\* The first byte of the checksum, and the last.
LEMMA CheckByte ==
    ASSUME NEW m, Deliverable(m), NEW p, Reading(m, Len(BodyOf(m)), p),
           NEW r, r = ParseDecodedPacket(p.crc_in % 256, p)
    PROVE  ReadsOn(m, Len(BodyOf(m)), p, r)
<1>1. Len(BodyOf(m)) \in Int /\ Len(BodyOf(m)) + 1 = Fixed(m) + Len(m.data) + 1
      <2>1. Layout(m, Len(m.id), Len(m.data))
            BY LayoutIs DEF Deliverable
      <2> QED BY <2>1 DEF Layout
<1>2. p \in Assembled(m, exp_crc_b1, Len(m.id), Len(m.data), HeaderOf(m), m.offset_in)
      BY <1>1, ReadingState, Zenon
<1>3. p.state = exp_crc_b1
      BY <1>2 DEF Assembled
<1>4. r = ExpCrcB1(p.crc_in % 256, p)
      BY <1>3, Dispatch, ZenonT(40)
<1>5. GoesOn(p, r) /\ r.packet \in Assembled(m, exp_crc_b2, Len(m.id), Len(m.data), HeaderOf(m), m.offset_in)
      BY <1>2, <1>4, StepCrc, Zenon
<1> QED BY <1>1, <1>5, Zenon DEF ReadsOn, Reading

LEMMA LastByte ==
    ASSUME NEW m, Deliverable(m), NEW p, Reading(m, Len(BodyOf(m)) + 1, p), NEW b
    PROVE  /\ ParseDecodedPacket(b, p) =
                 Result(p, IF b = p.crc_in \div 256 THEN EUI_PARSER_OK ELSE EUI_PARSER_ERROR)
           /\ Decoded(p) = m /\ p.data_bytes_in = Len(m.data)
<1>1. Len(BodyOf(m)) + 1 \in Int
      <2>1. Layout(m, Len(m.id), Len(m.data))
            BY LayoutIs DEF Deliverable
      <2> QED BY <2>1 DEF Layout
<1>2. p \in Assembled(m, exp_crc_b2, Len(m.id), Len(m.data), HeaderOf(m), m.offset_in)
      BY <1>1, ReadingState, Zenon
<1>3. p.state = exp_crc_b2
      BY <1>2 DEF Assembled
<1>4. ParseDecodedPacket(b, p) = ExpCrcB2(b, p)
      BY <1>3, Dispatch, Zenon
<1>5. Decoded(p) = m
      BY <1>2, MessageRead, Zenon DEF Deliverable
<1>6. p.data_bytes_in = Len(m.data)
      BY <1>2 DEF Assembled
<1> QED BY <1>4, <1>5, <1>6, Zenon DEF ExpCrcB2
-----------------------------------------------------------------------------
(* The parser on a frame *)

\* the packet of a parser between two frames: past the 0x00, the checksum is set
ClearedPacket == [ZeroPacket EXCEPT !.crc_in = 65535]

\* the checksum after each byte of a message
RunsOf(m) == CHOOSE crc : CrcRuns(BodyOf(m), crc) /\ CrcOf(BodyOf(m)) = crc[Len(BodyOf(m))]

LEMMA RunsIs ==
    ASSUME NEW m, Deliverable(m)
    PROVE  CrcRuns(BodyOf(m), RunsOf(m)) /\ CrcOf(BodyOf(m)) = RunsOf(m)[Len(BodyOf(m))]
<1>1. BodyOf(m) \in Seq(Byte)
      BY BodyIs DEF Deliverable
<1>2. \E crc : CrcRuns(BodyOf(m), crc) /\ CrcOf(BodyOf(m)) = crc[Len(BodyOf(m))]
      BY <1>1, CrcIs, Zenon
<1> QED BY <1>2, Zenon DEF RunsOf

\* k bytes of the message and its checksum are taken, the rest of the frame is to come
Onward(m, k, p) ==
    /\ Reading(m, k, p) /\ ToNextZero(PlainOf(m), k + 1, p.frame_offset)
    /\ p.crc_in = RunsOf(m)[IF k <= Len(BodyOf(m)) THEN k ELSE Len(BodyOf(m))]

\* the packets that are zero but for the state, the countdown and the checksum
Zeroed(state, f, c) ==
    [ state : {state}, id_bytes_in : {0}, data_bytes_in : {0}, frame_offset : {f}, header : {ZeroHeader},
      id_in : {[j \in IdIndex |-> 0]}, offset_in : {0}, crc_in : {c}, data_in : {[j \in DataIndex |-> 0]} ]

LEMMA ZeroedOnce ==
    ASSUME NEW state, NEW f, NEW c, NEW p \in Zeroed(state, f, c), NEW q \in Zeroed(state, f, c) PROVE p = q
BY DEF Zeroed

LEMMA ZeroedMoves ==
    ASSUME NEW state, NEW f, NEW c, NEW p \in Zeroed(state, f, c), NEW after, NEW g, NEW d
    PROVE  /\ [p EXCEPT !.state = after, !.crc_in = d] \in Zeroed(after, f, d)
           /\ [p EXCEPT !.frame_offset = g, !.crc_in = d] \in Zeroed(state, g, d)
           /\ [p EXCEPT !.state = after] \in Zeroed(after, f, c)
           /\ [p EXCEPT !.crc_in = d] \in Zeroed(state, f, d)
BY DEF Zeroed

LEMMA ZeroedIs ==
    ASSUME NEW state, NEW f, NEW c, NEW p \in Zeroed(state, f, c)
    PROVE  p.state = state /\ p.frame_offset = f /\ p.crc_in = c
BY DEF Zeroed

LEMMA ZeroIs == ZeroPacket \in Zeroed(exp_frame_offset, 0, 0)
BY DEF ZeroPacket, Zeroed

LEMMA ClearedIs == ClearedPacket \in Zeroed(exp_frame_offset, 0, 65535)
<1> DEFINE top == 65535
<1>1. ClearedPacket = [ZeroPacket EXCEPT !.crc_in = top]
      BY DEF ClearedPacket
<1>2. ClearedPacket \in Zeroed(exp_frame_offset, 0, top)
      <2> HIDE DEF top
      <2> QED BY <1>1, ZeroIs, ZeroedMoves
<1> QED BY <1>2

\* The zero that a frame starts with, and the code byte after it.
LEMMA StartByte ==
    ASSUME NEW p, p = ZeroPacket \/ p = ClearedPacket
    PROVE  DecodePacket(0, p) = Continue(ClearedPacket)
<1> DEFINE top == 65535
           q == [p EXCEPT !.state = exp_frame_offset, !.crc_in = top]
<1>1. ClearedPacket \in Zeroed(exp_frame_offset, 0, top)
      BY ClearedIs
<1>2. DecodePacket(0, p) = Continue(q)
      BY DEF DecodePacket
<1> HIDE DEF top
<1>3. p \in Zeroed(exp_frame_offset, 0, 0) \/ p \in Zeroed(exp_frame_offset, 0, top)
      BY <1>1, ZeroIs
<1>4. q \in Zeroed(exp_frame_offset, 0, top)
      BY <1>3, ZeroedMoves
<1> HIDE DEF q
<1>5. q = ClearedPacket
      BY <1>1, <1>4, ZeroedOnce
<1> QED BY <1>2, <1>5

\* Any other byte is unstuffed and goes to the state the parser is in.
Running(byte, p) ==
    IF exp_frame_offset < p.state /\ p.state < exp_crc_b1 THEN Crc16(byte, p.crc_in) ELSE p.crc_in

LEMMA DecodeNonzero ==
    ASSUME NEW b, b # 0, NEW p
    PROVE  DecodePacket(b, p) =
               ParseDecodedPacket(Unstuff(b, p).byte, [p EXCEPT !.frame_offset = Unstuff(b, p).frame_offset,
                                                                !.crc_in = Running(Unstuff(b, p).byte, p)])
BY DEF DecodePacket, Running

LEMMA FirstReading ==
    ASSUME NEW m, NEW f \in Int, NEW c \in Int, NEW q \in Zeroed(exp_header_b1, f, c)
    PROVE  Reading(m, 0, q)
<1>1. /\ [j \in IdIndex |-> 0] = [j \in IdIndex |-> IF j < 0 THEN m.id[j + 1] ELSE 0]
      /\ [j \in DataIndex |-> 0] = [j \in DataIndex |-> IF j < 0 THEN m.data[j + 1] ELSE 0]
      BY DEF IdIndex, DataIndex
<1>2. q \in Assembled(m, exp_header_b1, 0, 0, ZeroHeader, 0)
      BY <1>1 DEF Assembled, Zeroed
<1> QED BY <1>2 DEF Reading

LEMMA CodeByte ==
    ASSUME NEW m, Deliverable(m)
    PROVE  /\ Frame(m)[2] # 0 /\ DecodePacket(Frame(m)[2], ClearedPacket).status = EUI_PARSER_IDLE
           /\ Onward(m, 0, DecodePacket(Frame(m)[2], ClearedPacket).packet)
<1> DEFINE top == 65535
           p == ClearedPacket
           b == Frame(m)[2]
           u == Unstuff(b, p)
           q == [p EXCEPT !.frame_offset = u.frame_offset, !.crc_in = top]
           r == [q EXCEPT !.state = exp_header_b1]
<1>1. Stuffable(PlainOf(m)) /\ Framed(PlainOf(m), Frame(m))
      BY PlainIs, FrameIs
<1>2. p \in Zeroed(exp_frame_offset, 0, top) /\ top \in Int
      BY ClearedIs
<1>3. top = RunsOf(m)[0]
      BY RunsIs DEF CrcRuns
<1> HIDE DEF p, top, u
<1>4. p.state = exp_frame_offset /\ p.frame_offset = 0 /\ p.crc_in = top
      BY <1>2, ZeroedIs
<1>5. b # 0 /\ u.byte = 0 /\ ToNextZero(PlainOf(m), 1, u.frame_offset)
      <2>1. p.frame_offset \in {0, 1}
            BY <1>4
      <2> QED BY <1>1, <2>1, FirstCode DEF u
<1>6. u.frame_offset \in Int
      BY <1>5 DEF ToNextZero
<1> HIDE DEF b
<1>7. DecodePacket(b, p) = ParseDecodedPacket(u.byte, q)
      <2>1. Running(u.byte, p) = top
            BY <1>4 DEF exp_frame_offset, Running
      <2>2. DecodePacket(b, p) = ParseDecodedPacket(u.byte, [p EXCEPT !.frame_offset = u.frame_offset,
                                                                      !.crc_in = Running(u.byte, p)])
            BY <1>5, DecodeNonzero DEF u
      <2> QED BY <2>1, <2>2
<1>8. q \in Zeroed(exp_frame_offset, u.frame_offset, top) /\ q.state = exp_frame_offset
      <2>1. q \in Zeroed(exp_frame_offset, u.frame_offset, top)
            BY <1>2, ZeroedMoves
      <2> HIDE DEF q
      <2> QED BY <2>1, ZeroedIs
<1>9. r \in Zeroed(exp_header_b1, u.frame_offset, top) /\ r.frame_offset = u.frame_offset /\ r.crc_in = top
      <2>1. r \in Zeroed(exp_header_b1, u.frame_offset, top)
            <3> HIDE DEF q
            <3> QED BY <1>8, ZeroedMoves
      <2> HIDE DEF r
      <2> QED BY <2>1, ZeroedIs
<1> HIDE DEF q
<1>10. DecodePacket(b, p) = Continue(r)
      BY <1>7, <1>8, Dispatch, Zenon
<1> HIDE DEF r
<1>11. DecodePacket(b, p).status = EUI_PARSER_IDLE /\ DecodePacket(b, p).packet = r
      BY <1>10 DEF Continue, Result
<1>12. Reading(m, 0, r)
      BY <1>2, <1>6, <1>9, FirstReading, Zenon
<1>13. 0 <= Len(BodyOf(m)) /\ 0 + 1 = 1
      <2>1. BodyOf(m) \in Seq(Byte)
            BY BodyIs DEF Deliverable
      <2> QED BY <2>1
<1>14. Onward(m, 0, r)
      BY <1>3, <1>5, <1>9, <1>12, <1>13 DEF Onward
<1> QED BY <1>5, <1>11, <1>14 DEF p, b

\* A byte within the frame is the next one of the message or the first of the checksum.
LEMMA OnwardByte ==
    ASSUME NEW m, Deliverable(m), NEW k \in 0 .. Len(BodyOf(m)), NEW p, Onward(m, k, p)
    PROVE  /\ Frame(m)[k + 3] # 0 /\ DecodePacket(Frame(m)[k + 3], p).status = EUI_PARSER_IDLE
           /\ Onward(m, k + 1, DecodePacket(Frame(m)[k + 3], p).packet)
<1> DEFINE L    == Len(BodyOf(m))
           runs == RunsOf(m)
           w    == PlainOf(m)
           b    == Frame(m)[k + 3]
           u    == Unstuff(b, p)
           c    == Running(u.byte, p)
           q    == Restuff(p, u.frame_offset, c)
           r    == ParseDecodedPacket(u.byte, q)
           at(j) == IF j <= L THEN j ELSE L
<1>1. /\ Stuffable(w) /\ Framed(w, Frame(m)) /\ Len(w) = L + 5 /\ Lies(w, 2, BodyOf(m))
      /\ w[L + 3] = CrcOf(BodyOf(m)) % 256
      BY PlainIs, FrameIs
<1>2. L \in Nat /\ k \in Int /\ 0 <= k /\ k <= L
      <2>1. BodyOf(m) \in Seq(Byte)
            BY BodyIs DEF Deliverable
      <2>2. L \in Nat
            BY <2>1, LenProperties
      <2> QED BY <2>2
<1>3. /\ runs[0] = 65535 /\ \A j \in 1 .. L : runs[j] = Crc16(BodyOf(m)[j], runs[j - 1])
      /\ \A j \in 0 .. L : runs[j] \in Word
      /\ CrcOf(BodyOf(m)) = runs[L]
      BY RunsIs DEF CrcRuns
<1>4. Reading(m, k, p) /\ ToNextZero(w, k + 1, p.frame_offset) /\ p.crc_in = runs[at(k)]
      BY DEF Onward
<1> HIDE DEF w, runs, u, L
<1>5. b # 0 /\ u.byte = w[k + 3] /\ ToNextZero(w, k + 2, u.frame_offset) /\ u.frame_offset \in Int
      <2> DEFINE i == k + 2
      <2>1. i \in 2 .. Len(w) - 2 /\ i - 1 = k + 1 /\ i + 1 = k + 3
            BY <1>1, <1>2
      <2>2. ToNextZero(w, i - 1, p.frame_offset)
            BY <1>4, <2>1
      <2> HIDE DEF i
      <2>3. /\ Frame(m)[i + 1] # 0 /\ Unstuff(Frame(m)[i + 1], p).byte = w[i + 1]
            /\ ToNextZero(w, i, Unstuff(Frame(m)[i + 1], p).frame_offset)
            BY <1>1, <2>1, <2>2, NextCode
      <2>4. b # 0 /\ u.byte = w[k + 3] /\ ToNextZero(w, k + 2, u.frame_offset)
            BY <2>1, <2>3 DEF u, i
      <2> QED BY <2>4 DEF ToNextZero
<1> HIDE DEF b
<1>6. DecodePacket(b, p) = r
      BY <1>5, DecodeNonzero DEF u, Restuff
<1> HIDE DEF c, r, at
<1>7. ASSUME c \in Int PROVE Reading(m, k, q) /\ q.frame_offset = u.frame_offset /\ q.crc_in = c /\ q.state = p.state
      <2>1. Reading(m, k, p) /\ u.frame_offset \in Int /\ c \in Int
            BY <1>4, <1>5, <1>7
      <2> QED BY <2>1, ReadingRestuffed
<1> HIDE DEF q
<1>8. ASSUME ReadsOn(m, k, q, r), q.frame_offset = u.frame_offset, q.crc_in = runs[at(k + 1)]
      PROVE  DecodePacket(b, p).status = EUI_PARSER_IDLE /\ Onward(m, k + 1, DecodePacket(b, p).packet)
      <2>1. /\ r.status = EUI_PARSER_IDLE /\ Reading(m, k + 1, r.packet)
            /\ r.packet.frame_offset = u.frame_offset /\ r.packet.crc_in = runs[at(k + 1)]
            BY <1>8 DEF ReadsOn, GoesOn, SamePace
      <2>2. (k + 1) + 1 = k + 2
            BY <1>2
      <2> QED BY <1>5, <1>6, <2>1, <2>2 DEF Onward, w, runs, at, L
<1>9. CASE k < L
      <2>1. k \in 0 .. L - 1 /\ k + 1 \in 1 .. L /\ (k + 1) - 1 = k /\ 2 + (k + 1) = k + 3 /\ k \in 0 .. L
            /\ k + 1 \in 0 .. L /\ k <= L /\ k + 1 <= L
            BY <1>2, <1>9
      <2>2. w[k + 3] = BodyOf(m)[k + 1]
            BY <1>1, <2>1 DEF Lies, L
      <2>3. exp_frame_offset < p.state /\ p.state < exp_crc_b1
            BY <1>2, <1>4, <1>9, ReadingState DEF L
      <2>4. c = Crc16(BodyOf(m)[k + 1], runs[k])
            BY <1>4, <1>5, <2>1, <2>2, <2>3 DEF c, Running, at
      <2>5. c = runs[k + 1] /\ c \in Int
            <3>1. c = runs[k + 1] /\ c \in Word
                  BY <1>3, <2>1, <2>4
            <3> QED BY <3>1, WordDef
      <2>6. Reading(m, k, q) /\ q.frame_offset = u.frame_offset /\ q.crc_in = runs[k + 1]
            BY <1>7, <2>5
      <2>7. r = ParseDecodedPacket(BodyOf(m)[k + 1], q)
            BY <1>5, <2>2 DEF r
      <2>8. ReadsOn(m, k, q, r)
            BY <2>1, <2>6, <2>7, BodyByte, Zenon DEF L
      <2>9. q.crc_in = runs[at(k + 1)]
            BY <2>1, <2>6 DEF at
      <2> QED BY <1>5, <1>8, <2>6, <2>8, <2>9 DEF b
<1>10. CASE k = L
      <2>1. k \in 0 .. L /\ k <= L /\ ~(k + 1 <= L)
            BY <1>2, <1>10
      <2>2. ~(p.state < exp_crc_b1)
            BY <1>2, <1>4, <1>10, ReadingState DEF L
      <2>3. c = runs[L]
            BY <1>4, <1>10, <2>1, <2>2 DEF c, Running, at
      <2>4. c \in Int
            <3>1. c \in Word
                  BY <1>3, <1>10, <2>1, <2>3
            <3> QED BY <3>1, WordDef
      <2>5. Reading(m, k, q) /\ q.frame_offset = u.frame_offset /\ q.crc_in = runs[L]
            BY <1>7, <2>3, <2>4
      <2>6. u.byte = q.crc_in % 256
            BY <1>1, <1>3, <1>5, <1>10, <2>5
      <2>7. Reading(m, Len(BodyOf(m)), q) /\ r = ParseDecodedPacket(q.crc_in % 256, q)
            BY <1>10, <2>5, <2>6 DEF r, L
      <2>8. ReadsOn(m, k, q, r)
            <3>1. ReadsOn(m, Len(BodyOf(m)), q, r)
                  BY <2>7, CheckByte, Zenon
            <3> QED BY <1>10, <3>1 DEF L
      <2>9. q.crc_in = runs[at(k + 1)]
            BY <2>1, <2>5 DEF at
      <2> QED BY <1>5, <1>8, <2>5, <2>8, <2>9 DEF b
<1> QED BY <1>2, <1>9, <1>10

\* The last byte of the checksum, whatever byte arrives: the packet is complete, and it is
\* handed over or refused.
LEMMA FinalByte ==
    ASSUME NEW m, Deliverable(m), NEW p, Onward(m, Len(BodyOf(m)) + 1, p), NEW b \in Int, b # 0
    PROVE  /\ DecodePacket(b, p).status \in {EUI_PARSER_OK, EUI_PARSER_ERROR}
           /\ Decoded(DecodePacket(b, p).packet) = m
           /\ DecodePacket(b, p).packet.data_bytes_in = Len(m.data)
           /\ b = Frame(m)[Len(BodyOf(m)) + 4] => DecodePacket(b, p).status = EUI_PARSER_OK
<1> DEFINE L    == Len(BodyOf(m))
           runs == RunsOf(m)
           w    == PlainOf(m)
           k    == L + 1
           u    == Unstuff(b, p)
           c    == Running(u.byte, p)
           q    == Restuff(p, u.frame_offset, c)
           r    == ParseDecodedPacket(u.byte, q)
<1>1. /\ Stuffable(w) /\ Framed(w, Frame(m)) /\ Len(w) = L + 5
      /\ w[L + 4] = CrcOf(BodyOf(m)) \div 256
      BY PlainIs, FrameIs
<1>2. L \in Nat
      BY BodyIs, LenProperties DEF Deliverable
<1>3. runs[L] \in Word /\ CrcOf(BodyOf(m)) = runs[L]
      <2>1. L \in 0 .. L
            BY <1>2
      <2> QED BY <2>1, RunsIs DEF CrcRuns
<1>4. Reading(m, k, p) /\ ToNextZero(w, k + 1, p.frame_offset) /\ p.crc_in = runs[L]
      <2>1. ~(L + 1 <= L)
            BY <1>2
      <2> QED BY <2>1 DEF Onward
<1> HIDE DEF w, runs, L, u
<1>5. u.frame_offset \in Int
      <2>1. p.frame_offset \in Int
            BY <1>4 DEF ToNextZero
      <2> QED BY <2>1 DEF u, Unstuff
<1>6. DecodePacket(b, p) = r
      BY DecodeNonzero DEF u, Restuff
<1> HIDE DEF c, r
<1>7. c = runs[L] /\ c \in Int
      <2>1. k >= L /\ k \in Int
            BY <1>2
      <2>2. ~(p.state < exp_crc_b1)
            BY <1>4, <2>1, ReadingState DEF L
      <2>3. c = runs[L]
            BY <1>4, <2>2 DEF c, Running
      <2> QED BY <1>3, <2>3, WordDef
<1>8. Reading(m, k, q) /\ q.crc_in = runs[L]
      <2>1. Reading(m, k, p) /\ u.frame_offset \in Int /\ c \in Int
            BY <1>4, <1>5, <1>7
      <2> HIDE DEF k
      <2> QED BY <1>7, <2>1, ReadingRestuffed
<1> HIDE DEF q
<1>9. /\ r = Result(q, IF u.byte = q.crc_in \div 256 THEN EUI_PARSER_OK ELSE EUI_PARSER_ERROR)
      /\ Decoded(q) = m /\ q.data_bytes_in = Len(m.data)
      BY <1>8, LastByte DEF r, L
<1>10. r.packet = q /\ r.status = IF u.byte = q.crc_in \div 256 THEN EUI_PARSER_OK ELSE EUI_PARSER_ERROR
      BY <1>9 DEF Result
<1>11. ASSUME b = Frame(m)[L + 4] PROVE u.byte = q.crc_in \div 256
      <2> DEFINE i == L + 3
      <2>1. i \in 2 .. Len(w) - 2 /\ i - 1 = k + 1 /\ i + 1 = L + 4
            BY <1>1, <1>2
      <2>2. ToNextZero(w, i - 1, p.frame_offset)
            BY <1>4, <2>1
      <2> HIDE DEF i
      <2>3. Unstuff(Frame(m)[i + 1], p).byte = w[i + 1]
            BY <1>1, <2>1, <2>2, NextCode
      <2>4. u.byte = w[L + 4]
            BY <1>11, <2>1, <2>3 DEF u
      <2> QED BY <1>1, <1>3, <1>8, <2>4
<1> QED BY <1>6, <1>9, <1>10, <1>11 DEF L

\* A checksum that arrives damaged is noticed, unless the byte was the last code byte of
\* the frame.
LEMMA DamagedByte ==
    ASSUME NEW m, Deliverable(m), NEW p, Onward(m, Len(BodyOf(m)) + 1, p), NEW b \in Int, b # 0,
           CrcOf(BodyOf(m)) \div 256 # 0, b # Frame(m)[Len(BodyOf(m)) + 4]
    PROVE  DecodePacket(b, p).status = EUI_PARSER_ERROR
<1> DEFINE L    == Len(BodyOf(m))
           runs == RunsOf(m)
           w    == PlainOf(m)
           k    == L + 1
           u    == Unstuff(b, p)
           c    == Running(u.byte, p)
           q    == Restuff(p, u.frame_offset, c)
           r    == ParseDecodedPacket(u.byte, q)
<1>1. /\ Stuffable(w) /\ Framed(w, Frame(m)) /\ Len(w) = L + 5
      /\ w[L + 4] = CrcOf(BodyOf(m)) \div 256
      BY PlainIs, FrameIs
<1>2. L \in Nat
      BY BodyIs, LenProperties DEF Deliverable
<1>3. runs[L] \in Word /\ CrcOf(BodyOf(m)) = runs[L]
      <2>1. L \in 0 .. L
            BY <1>2
      <2> QED BY <2>1, RunsIs DEF CrcRuns
<1>4. Reading(m, k, p) /\ ToNextZero(w, k + 1, p.frame_offset) /\ p.crc_in = runs[L]
      <2>1. ~(L + 1 <= L)
            BY <1>2
      <2> QED BY <2>1 DEF Onward
<1> HIDE DEF w, runs, L
<1>5. p.frame_offset > 1
      <2>1. p.frame_offset \in Int /\ 1 <= p.frame_offset /\ w[k + 1 + p.frame_offset + 1] = 0
            BY <1>4 DEF ToNextZero
      <2>2. p.frame_offset = 1 => k + 1 + p.frame_offset + 1 = L + 4
            BY <1>2
      <2>3. p.frame_offset # 1
            BY <1>1, <2>1, <2>2
      <2> QED BY <2>1, <2>3
<1>6. u.byte = b /\ u.frame_offset \in Int
      <2>1. p.frame_offset \in Int
            BY <1>4 DEF ToNextZero
      <2> QED BY <1>5, <2>1 DEF Unstuff
<1>7. Frame(m)[L + 4] = w[L + 4]
      <2>1. L + 3 \in 1 .. Len(w) - 2 /\ (L + 3) + 1 = L + 4
            BY <1>1, <1>2
      <2>2. Stuffed(w, L + 3, Frame(m)[L + 4])
            BY <1>1, <2>1 DEF Framed
      <2> QED BY <1>1, <2>1, <2>2 DEF Stuffed
<1> HIDE DEF u
<1>8. DecodePacket(b, p) = r
      BY DecodeNonzero DEF u, Restuff
<1> HIDE DEF c, r
<1>9. c = runs[L] /\ c \in Int
      <2>1. k >= L /\ k \in Int
            BY <1>2
      <2>2. ~(p.state < exp_crc_b1)
            BY <1>4, <2>1, ReadingState DEF L
      <2>3. c = runs[L]
            BY <1>4, <2>2 DEF c, Running
      <2> QED BY <1>3, <2>3, WordDef
<1>10. Reading(m, k, q) /\ q.crc_in = runs[L]
      <2>1. Reading(m, k, p) /\ u.frame_offset \in Int /\ c \in Int
            BY <1>4, <1>6, <1>9
      <2> HIDE DEF k
      <2> QED BY <1>9, <2>1, ReadingRestuffed
<1> HIDE DEF q
<1>11. r = Result(q, IF u.byte = q.crc_in \div 256 THEN EUI_PARSER_OK ELSE EUI_PARSER_ERROR)
      BY <1>10, LastByte DEF r, L
<1>12. b # q.crc_in \div 256
      BY <1>1, <1>3, <1>7, <1>10 DEF L
<1> QED BY <1>6, <1>8, <1>11, <1>12 DEF Result

\* t bytes of the frame were given to eui_parse: before the first of them the interface is
\* fresh or cleared, and after the last of the checksum it is cleared again.
Midway(m, t, p) ==
    \/ t = 0 /\ p \in {ZeroPacket, ClearedPacket}
    \/ t = 1 /\ p = ClearedPacket
    \/ \E k \in 0 .. Len(BodyOf(m)) + 1 : t = k + 2 /\ Onward(m, k, p)
    \/ t = Len(BodyOf(m)) + 4 /\ p = ZeroPacket

\* what a byte of the frame does
Takes(m, t, status, step) ==
    /\ t < Len(BodyOf(m)) + 4 => Midway(m, t + 1, step.packet)
    /\ t = Len(BodyOf(m)) + 4 => step.packet = ClearedPacket
    /\ status = (IF t = Len(BodyOf(m)) + 3 THEN EUI_PARSER_OK ELSE EUI_PARSER_IDLE)
    /\ Handed(step) = (IF t = Len(BodyOf(m)) + 3 THEN <<m>> ELSE << >>)
    /\ t = Len(BodyOf(m)) + 3 =>
           Decoded(step.accepted[1]) = m /\ step.accepted[1].data_bytes_in = Len(m.data)

\* A byte that does not complete a packet leaves the packet to the next call.
LEMMA IdleByte ==
    ASSUME NEW b, NEW p, DecodePacket(b, p).status = EUI_PARSER_IDLE
    PROVE  ParseByte(b, p).packet = DecodePacket(b, p).packet /\ Handed(ParseByte(b, p)) = << >>
BY DEF ParseByte, Handed, EUI_PARSER_IDLE, EUI_PARSER_OK

\* One that does is followed by a cleared packet.
LEMMA AcceptedByte ==
    ASSUME NEW b, NEW p, DecodePacket(b, p).status = EUI_PARSER_OK
    PROVE  /\ ParseByte(b, p).packet = ZeroPacket
           /\ ParseByte(b, p).accepted[1] = DecodePacket(b, p).packet
           /\ Handed(ParseByte(b, p)) = <<Decoded(DecodePacket(b, p).packet)>>
<1> DEFINE a == ParseByte(b, p).accepted
           x == DecodePacket(b, p).packet
<1>1. ParseByte(b, p).packet = ZeroPacket /\ a = <<x>>
      BY DEF ParseByte, EUI_PARSER_IDLE, EUI_PARSER_OK
<1>2. Handed(ParseByte(b, p)) = [i \in DOMAIN a |-> Decoded(a[i])]
      BY DEF Handed
<1> HIDE DEF a, x
<1>3. DOMAIN a = {1} /\ a[1] = x
      BY <1>1
<1>4. Handed(ParseByte(b, p)) = [i \in {1} |-> Decoded(x)]
      BY <1>2, <1>3
<1> QED BY <1>1, <1>3, <1>4 DEF a, x

\* The parser takes a frame byte by byte and hands over exactly its message.
LEMMA FrameByte ==
    ASSUME NEW m, Deliverable(m), NEW t \in 0 .. Len(BodyOf(m)) + 4, NEW p, Midway(m, t, p)
    PROVE  Takes(m, t, DecodePacket(Frame(m)[t + 1], p).status, ParseByte(Frame(m)[t + 1], p))
<1> DEFINE L == Len(BodyOf(m))
           b == Frame(m)[t + 1]
           d == DecodePacket(b, p)
<1>1. L \in Nat /\ Framed(PlainOf(m), Frame(m)) /\ Len(PlainOf(m)) = L + 5
      BY BodyIs, LenProperties, PlainIs, FrameIs DEF Deliverable
<1>2. Frame(m)[1] = 0 /\ Frame(m)[L + 5] = 0
      BY <1>1 DEF Framed
<1> HIDE DEF L
<1>3. ASSUME d.status = EUI_PARSER_IDLE, t # L + 3,
             t < L + 4 => Midway(m, t + 1, d.packet), t = L + 4 => d.packet = ClearedPacket
      PROVE  Takes(m, t, d.status, ParseByte(b, p))
      <2>1. ParseByte(b, p).packet = d.packet /\ Handed(ParseByte(b, p)) = << >>
            BY <1>3, IdleByte, Zenon DEF d
      <2> QED BY <1>3, <2>1 DEF Takes, L
<1>4. CASE t = 0 /\ p \in {ZeroPacket, ClearedPacket}
      <2>1. b = 0 /\ d = Continue(ClearedPacket)
            BY <1>2, <1>4, StartByte
      <2>2. d.status = EUI_PARSER_IDLE /\ d.packet = ClearedPacket
            BY <2>1 DEF Continue, Result
      <2>3. Midway(m, t + 1, d.packet)
            BY <1>4, <2>2 DEF Midway
      <2>4. t # L + 3 /\ t # L + 4
            BY <1>1, <1>4
      <2> QED BY <1>3, <2>2, <2>3, <2>4, Zenon
<1>5. CASE t = 1 /\ p = ClearedPacket
      <2>1. d.status = EUI_PARSER_IDLE /\ Onward(m, 0, d.packet)
            BY <1>5, CodeByte
      <2>2. 0 \in 0 .. Len(BodyOf(m)) + 1 /\ t + 1 = 0 + 2
            BY <1>1, <1>5 DEF L
      <2>3. Midway(m, t + 1, d.packet)
            BY <2>1, <2>2 DEF Midway
      <2>4. t # L + 3 /\ t # L + 4
            BY <1>1, <1>5
      <2> QED BY <1>3, <2>1, <2>3, <2>4, Zenon
<1>6. ASSUME NEW k \in 0 .. L + 1, t = k + 2, Onward(m, k, p)
      PROVE  Takes(m, t, d.status, ParseByte(b, p))
      <2>1. CASE k <= L
            <3>1. k \in 0 .. Len(BodyOf(m)) /\ t + 1 = k + 3 /\ k + 1 \in 0 .. Len(BodyOf(m)) + 1 /\ t + 1 = (k + 1) + 2
                  BY <1>1, <1>6, <2>1 DEF L
            <3>2. d.status = EUI_PARSER_IDLE /\ Onward(m, k + 1, d.packet)
                  BY <1>6, <3>1, OnwardByte
            <3>3. Midway(m, t + 1, d.packet)
                  BY <3>1, <3>2 DEF Midway
            <3>4. t # L + 3 /\ t # L + 4
                  BY <1>1, <1>6, <2>1
            <3> HIDE DEF d
            <3> QED BY <1>3, <3>2, <3>3, <3>4
      <2>2. CASE k = L + 1
            <3>1. t = L + 3 /\ t + 1 = L + 4
                  BY <1>1, <1>6, <2>2
            <3>2. b \in Int /\ b # 0
                  <4>1. L + 3 \in 1 .. Len(PlainOf(m)) - 2 /\ (L + 3) + 1 = L + 4 /\ L + 4 \in 1 .. Len(PlainOf(m))
                        BY <1>1
                  <4>2. b \in Byte
                        BY <1>1, <3>1, <4>1 DEF Framed
                  <4>3. Stuffed(PlainOf(m), L + 3, b)
                        BY <1>1, <3>1, <4>1 DEF Framed
                  <4> QED BY <4>1, <4>2, <4>3, ByteDef DEF Stuffed, ToNextZero
            <3>3. Onward(m, Len(BodyOf(m)) + 1, p)
                  BY <1>6, <2>2 DEF L
            <3>4. b = Frame(m)[Len(BodyOf(m)) + 4]
                  BY <3>1 DEF L
            <3> HIDE DEF b
            <3>5. /\ d.status = EUI_PARSER_OK
                  /\ Decoded(d.packet) = m /\ d.packet.data_bytes_in = Len(m.data)
                  BY <3>2, <3>3, <3>4, FinalByte
            <3> HIDE DEF d
            <3>6. /\ ParseByte(b, p).packet = ZeroPacket /\ Decoded(ParseByte(b, p).accepted[1]) = m
                  /\ ParseByte(b, p).accepted[1].data_bytes_in = Len(m.data)
                  /\ Handed(ParseByte(b, p)) = <<m>>
                  BY <3>5, AcceptedByte DEF d
            <3>7. t + 1 = Len(BodyOf(m)) + 4 /\ t = Len(BodyOf(m)) + 3 /\ t # Len(BodyOf(m)) + 4
                  BY <1>1, <3>1 DEF L
            <3> QED BY <3>5, <3>6, <3>7 DEF Takes, Midway
      <2> QED BY <1>1, <2>1, <2>2
<1>7. CASE t = L + 4 /\ p = ZeroPacket
      <2>1. t + 1 = L + 5
            BY <1>1, <1>7
      <2>2. b = 0 /\ d = Continue(ClearedPacket)
            BY <1>2, <1>7, <2>1, StartByte
      <2>3. d.status = EUI_PARSER_IDLE /\ d.packet = ClearedPacket
            BY <2>2 DEF Continue, Result
      <2>4. t # L + 3 /\ ~(t < L + 4)
            BY <1>1, <1>7
      <2> QED BY <1>3, <2>3, <2>4, Zenon
<1> QED BY <1>4, <1>5, <1>6, <1>7 DEF Midway, L
=============================================================================
