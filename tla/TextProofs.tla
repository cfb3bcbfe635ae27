----------------------------- MODULE TextProofs -----------------------------
(***************************************************************************)
(* What the proofs about texts need: sets of numbers, joins, pieces and    *)
(* the places where a part occurs; and that the parsers, whatever the      *)
(* annotations say, make well-formed references of them.                   *)
(***************************************************************************)
EXTENDS AnnotationText, Integers, SequenceTheorems, FiniteSetTheorems,
        WellFoundedInduction, TLAPS

(* Numbers and lists. *)

\* Every set of numbers that is not empty has a least one.
LEMMA LeastNumber ==
  ASSUME NEW T, T \subseteq Nat, T # {}
  PROVE  \E x \in T : \A y \in T : x <= y
<1>1. PICK x \in T : \A y \in T : ~ (<<y, x>> \in OpToRel(<, Nat))
  BY NatLessThanWellFounded, WFMin
<1>2. ASSUME NEW y \in T
      PROVE  x <= y
  <2>1. ~ (y < x)
    BY <1>1 DEF OpToRel
  <2> QED BY <2>1
<1> QED BY <1>2

\* A bounded one has a greatest number.
LEMMA GreatestNumber ==
  ASSUME NEW n \in Nat, NEW T, T \subseteq 0 .. n, T # {}
  PROVE  \E x \in T : \A y \in T : x >= y
<1> DEFINE U == {m \in Nat : \A y \in T : m >= y}
<1>1. n \in U
  OBVIOUS
<1>2. PICK m \in U : \A u \in U : m <= u
  <2>1. U \subseteq Nat /\ U # {}
    BY <1>1
  <2> HIDE DEF U
  <2> QED BY <2>1, LeastNumber
<1>3. m \in T
  <2>1. SUFFICES ASSUME m \notin T
                 PROVE  FALSE
    OBVIOUS
  <2>2. \A y \in T : y < m
    BY <2>1, <1>2
  <2>3. PICK z \in T : TRUE
    OBVIOUS
  <2>4. m \in Nat /\ T \subseteq Nat
    OBVIOUS
  <2>5. m - 1 \in Nat
    BY <2>2, <2>3, <2>4
  <2>6. \A y \in T : m - 1 >= y
    BY <2>2, <2>5, <2>4
  <2>7. m - 1 \in U
    BY <2>5, <2>6
  <2> QED BY <2>7, <1>2
<1> QED BY <1>2, <1>3

\* The same of the operators Min and Max.
LEMMA MinIsLeast ==
  ASSUME NEW T, T \subseteq Nat, T # {}
  PROVE  Min(T) \in T /\ \A y \in T : Min(T) <= y
BY LeastNumber DEF Min

\* The greatest one of a bounded set is Max.
LEMMA MaxIsGreatest ==
  ASSUME NEW n \in Nat, NEW T, T \subseteq 0 .. n, T # {}
  PROVE  Max(T) \in T /\ \A y \in T : Max(T) >= y
BY GreatestNumber DEF Max

\* An order of a finite set names each element once.
LEMMA OrderIsComplete ==
  ASSUME NEW S, IsFiniteSet(S), NEW f \in SetToSeqs(S)
  PROVE  /\ f \in Seq(S)
         /\ Len(f) = Cardinality(S)
         /\ \A x \in S : \E i \in 1 .. Len(f) : f[i] = x
         /\ \A i, j \in 1 .. Len(f) : f[i] = f[j] => i = j
<1> DEFINE n == Cardinality(S)
<1>1. n \in Nat
  BY FS_CardinalityType
<1>2. f \in [1 .. n -> S] /\ \A i, j \in 1 .. n : i # j => f[i] # f[j]
  BY DEF SetToSeqs
<1>3. f \in Injection(1 .. n, S)
  BY <1>2 DEF Injection, IsInjective
<1>4. Cardinality(1 .. n) = n
  BY <1>1, FS_Interval
<1>5. f \in Surjection(1 .. n, S)
  BY <1>3, <1>4, FS_Injection
<1>6. f \in Seq(S) /\ Len(f) = n
  BY <1>1, <1>2, SeqDef
<1> QED BY <1>2, <1>5, <1>6 DEF Surjection

\* A function of the numbers up to n is a sequence of length n.
LEMMA FunctionIsSeq ==
  ASSUME NEW S, NEW n \in Nat, NEW f \in [1 .. n -> S]
  PROVE  f \in Seq(S) /\ Len(f) = n
BY SeqDef

\* Where the elements of sequences are in what is made by joining them.
LEMMA ThreeJoined ==
  ASSUME NEW S, NEW r \in Seq(S), NEW s \in Seq(S), NEW t \in Seq(S)
  PROVE  /\ r \o s \o t \in Seq(S)
         /\ Len(r \o s \o t) = Len(r) + Len(s) + Len(t)
         /\ \A i \in 1 .. Len(r) : (r \o s \o t)[i] = r[i]
         /\ \A i \in 1 .. Len(s) : (r \o s \o t)[Len(r) + i] = s[i]
         /\ \A i \in 1 .. Len(t) : (r \o s \o t)[Len(r) + Len(s) + i] = t[i]
<1>1. Len(r) \in Nat /\ Len(s) \in Nat /\ Len(t) \in Nat
  OBVIOUS
<1> DEFINE rs == r \o s
<1>2. /\ rs \in Seq(S) /\ Len(rs) = Len(r) + Len(s)
      /\ \A i \in 1 .. Len(r) + Len(s) : rs[i] = IF i <= Len(r) THEN r[i] ELSE s[i - Len(r)]
  BY ConcatProperties
<1>3. rs \in Seq(S)
  BY <1>2
<1> HIDE DEF rs
<1>4. /\ rs \o t \in Seq(S) /\ Len(rs \o t) = Len(rs) + Len(t)
      /\ \A i \in 1 .. Len(rs) + Len(t) : (rs \o t)[i] = IF i <= Len(rs) THEN rs[i] ELSE t[i - Len(rs)]
  BY <1>3, ConcatProperties
<1>5. ASSUME NEW i \in 1 .. Len(r)
      PROVE  (rs \o t)[i] = r[i]
  BY <1>1, <1>2, <1>4
<1>6. ASSUME NEW i \in 1 .. Len(s)
      PROVE  (rs \o t)[Len(r) + i] = s[i]
  <2>1. /\ Len(r) + i \in 1 .. Len(r) + Len(s) /\ ~ (Len(r) + i <= Len(r))
        /\ Len(r) + i - Len(r) = i
    BY <1>1
  <2>2. Len(r) + i \in 1 .. Len(rs) + Len(t) /\ Len(r) + i <= Len(rs)
    BY <1>1, <1>2
  <2>3. (rs \o t)[Len(r) + i] = rs[Len(r) + i]
    BY <2>2, <1>4
  <2> QED BY <2>1, <2>3, <1>2
<1>7. ASSUME NEW i \in 1 .. Len(t)
      PROVE  (rs \o t)[Len(r) + Len(s) + i] = t[i]
  <2>1. /\ Len(rs) + i \in 1 .. Len(rs) + Len(t) /\ ~ (Len(rs) + i <= Len(rs))
        /\ Len(rs) + i - Len(rs) = i
    BY <1>1, <1>2
  <2> QED BY <2>1, <1>2, <1>4
<1> QED BY <1>1, <1>2, <1>4, <1>5, <1>6, <1>7 DEF rs

\* Each count up to the size of a set of positions is reached at one of them.
LEMMA CountIsReached ==
  ASSUME NEW n \in Nat, NEW at, at \subseteq 1 .. n, NEW k \in 1 .. Cardinality(at)
  PROVE  \E i \in at : Cardinality({j \in at : j <= i}) = k
<1> DEFINE UpTo(m) == {j \in at : j <= m}
           T == {m \in 0 .. n : Cardinality(UpTo(m)) >= k}
<1>1. IsFiniteSet(at) /\ Cardinality(at) \in Nat
  <2>1. 1 \in Int /\ n \in Int
    OBVIOUS
  <2>2. IsFiniteSet(1 .. n)
    BY <2>1, FS_Interval
  <2>3. at \in SUBSET (1 .. n)
    OBVIOUS
  <2> QED BY <2>2, <2>3, FS_Subset, FS_CardinalityType
<1>2. /\ k \in Nat /\ 1 <= k /\ k <= Cardinality(at)
      /\ \A j \in at : j \in Nat /\ 1 <= j /\ j <= n
  BY <1>1
<1>3. ASSUME NEW m
      PROVE  IsFiniteSet(UpTo(m)) /\ Cardinality(UpTo(m)) \in Nat
  <2>1. UpTo(m) \in SUBSET at
    OBVIOUS
  <2> QED BY <1>1, <2>1, FS_Subset, FS_CardinalityType
<1>4. n \in T
  <2>1. UpTo(n) = at
    BY <1>2
  <2> QED BY <1>1, <1>2, <2>1
<1>5. PICK m \in T : \A l \in T : m <= l
  <2>1. T \subseteq Nat /\ T # {}
    BY <1>4
  <2> HIDE DEF T
  <2> QED BY <2>1, LeastNumber
<1>6. m \in 0 .. n /\ m \in Nat /\ Cardinality(UpTo(m)) >= k
  OBVIOUS
<1>7. m # 0
  <2>1. \A j \in at : ~ (j <= 0)
    BY <1>2
  <2>2. UpTo(0) = {}
    BY <2>1
  <2>3. Cardinality(UpTo(0)) = 0
    BY <2>2, FS_EmptySet
  <2> QED BY <2>3, <1>2, <1>6
<1>8. m - 1 \in 0 .. n /\ m - 1 < m /\ m - 1 \in Nat
  BY <1>6, <1>7
<1>9. m - 1 \notin T
  <2> HIDE DEF T
  <2> QED BY <1>5, <1>6, <1>8
<1>10. Cardinality(UpTo(m - 1)) < k
  <2> HIDE DEF UpTo
  <2>1. ~ (Cardinality(UpTo(m - 1)) >= k)
    BY <1>8, <1>9
  <2> QED BY <2>1, <1>2, <1>3
<1>11. \A j \in at : j <= m <=> j <= m - 1 \/ j = m
  BY <1>2, <1>6
<1>12. CASE m \notin at
  <2>1. UpTo(m) = UpTo(m - 1)
    BY <1>11, <1>12
  <2>2. Cardinality(UpTo(m)) < k
    BY <2>1, <1>10
  <2> HIDE DEF UpTo
  <2> QED BY <2>2, <1>2, <1>3, <1>6
<1>13. CASE m \in at
  <2>1. UpTo(m) = UpTo(m - 1) \cup {m}
    BY <1>11, <1>13
  <2>2. m \notin UpTo(m - 1)
    BY <1>6
  <2> HIDE DEF UpTo
  <2>3. Cardinality(UpTo(m)) = Cardinality(UpTo(m - 1)) + 1
    BY <2>1, <2>2, <1>3, FS_AddElement
  <2>4. Cardinality(UpTo(m)) = k
    BY <2>3, <1>2, <1>3, <1>6, <1>10
  <2> QED BY <2>4, <1>13 DEF UpTo
<1> QED BY <1>12, <1>13
----------------------------------------------------------------------------
(* Texts. *)

\* A piece of a text is a text.
LEMMA PieceTyped ==
  ASSUME NEW t \in Texts, NEW m \in Nat \ {0}, NEW n \in Nat, n <= Len(t)
  PROVE  /\ SubSeq(t, m, n) \in Texts
         /\ Len(SubSeq(t, m, n)) = IF m <= n THEN n - m + 1 ELSE 0
         /\ \A i \in 1 .. n - m + 1 : SubSeq(t, m, n)[i] = t[m + i - 1]
<1>1. \A i \in m .. n : t[i] \in Tokens
  BY DEF Texts
<1> QED BY <1>1, SubSeqProperties DEF Texts

\* What precedes a position of a text.
LEMMA BeforeTyped ==
  ASSUME NEW t \in Texts, NEW i \in 1 .. Len(t) + 1
  PROVE  /\ Before(t, i) \in Texts
         /\ Len(Before(t, i)) = i - 1
         /\ \A k \in 1 .. i - 1 : Before(t, i)[k] = t[k]
<1>1. i - 1 \in Nat /\ i - 1 <= Len(t)
  BY DEF Texts
<1>2. (i - 1) - 1 + 1 = i - 1
  BY <1>1
<1>3. Len(Before(t, i)) = i - 1
  BY <1>1, PieceTyped DEF Before
<1>4. \A k \in 1 .. i - 1 : Before(t, i)[k] = t[1 + k - 1]
  BY <1>1, <1>2, PieceTyped DEF Before
<1> QED BY <1>1, <1>3, <1>4, PieceTyped DEF Before

\* What begins at a position of a text; behind its end, nothing does.
LEMMA FromTyped ==
  ASSUME NEW t \in Texts, NEW i \in Nat \ {0}
  PROVE  /\ From(t, i) \in Texts
         /\ Len(From(t, i)) = IF i <= Len(t) THEN Len(t) - i + 1 ELSE 0
         /\ \A k \in 1 .. Len(t) - i + 1 : From(t, i)[k] = t[i + k - 1]
<1>1. Len(t) \in Nat
  BY DEF Texts
<1> QED BY <1>1, PieceTyped DEF From

\* Where a part occurs is in the text.
LEMMA PositionsTyped ==
  ASSUME NEW t \in Texts, NEW part \in Texts, part # << >>
  PROVE  /\ Positions(t, part) \subseteq 1 .. Len(t)
         /\ \A i \in Positions(t, part) : i + Len(part) - 1 <= Len(t)
<1>1. Len(t) \in Nat /\ Len(part) \in Nat \ {0}
  BY EmptySeq DEF Texts
<1> QED BY <1>1 DEF Positions

\* The first and the last of the places where a part occurs.
LEMMA FirstPosition ==
  ASSUME NEW t \in Texts, NEW part \in Texts, part # << >>, Positions(t, part) # {}
  PROVE  /\ Min(Positions(t, part)) \in Positions(t, part)
         /\ \A i \in Positions(t, part) : Min(Positions(t, part)) <= i
<1>1. Positions(t, part) \subseteq Nat
  BY PositionsTyped DEF Texts
<1> QED BY <1>1, MinIsLeast

\* The last of the places where a part occurs.
LEMMA LastPosition ==
  ASSUME NEW t \in Texts, NEW part \in Texts, part # << >>, Positions(t, part) # {}
  PROVE  /\ Max(Positions(t, part)) \in Positions(t, part)
         /\ \A i \in Positions(t, part) : Max(Positions(t, part)) >= i
<1>1. Len(t) \in Nat
  BY DEF Texts
<1>2. Positions(t, part) \subseteq 0 .. Len(t)
  BY PositionsTyped, <1>1
<1> QED BY <1>1, <1>2, MaxIsGreatest

\* The separators and the words of the program's own.
LEMMA WordsTyped ==
  /\ "/" \in Tokens /\ ":" \in Tokens /\ "[" \in Tokens /\ "]" \in Tokens
  /\ Space \in Tokens /\ "-" \in Tokens /\ Underscore \in Tokens /\ "keeper" \in Tokens
  /\ "secrets" \in Tokens /\ "." \in Tokens /\ "json" \in Tokens
  /\ "file" \in Tokens /\ "field" \in Tokens
BY TokenAssumption DEF Separators, Space, Underscore

\* The texts that the parsers look for or add.
LEMMA SeparatorsTyped ==
  /\ NoText \in Texts
  /\ Scheme \in Texts /\ Scheme # << >> /\ Len(Scheme) = 4
  /\ DefaultSecretsPath \in Texts
  /\ <<"/">> \in Texts /\ <<"/">> # << >>
  /\ <<":">> \in Texts /\ <<":">> # << >>
  /\ <<"[">> \in Texts /\ <<"[">> # << >>
  /\ <<":", "/">> \in Texts /\ <<":", "/">> # << >> /\ Len(<<":", "/">>) = 2
  /\ <<"]", ":">> \in Texts /\ <<"]", ":">> # << >> /\ Len(<<"]", ":">>) = 2
  /\ <<"/", "file", "/">> \in Texts /\ <<"/", "file", "/">> # << >>
  /\ Len(<<"/", "file", "/">>) = 3
  /\ <<"/", "field", "/">> \in Texts /\ <<"/", "field", "/">> # << >>
  /\ <<".", "json">> \in Texts
<1>1. NoText \in Texts
  BY EmptySeq DEF Texts, NoText
<1>2. Scheme \in Texts /\ Scheme # << >> /\ Len(Scheme) = 4
  BY WordsTyped DEF Texts, Scheme
<1>3. DefaultSecretsPath \in Texts
  BY WordsTyped DEF Texts, DefaultSecretsPath
<1>4. <<"/">> \in Texts /\ <<":">> \in Texts /\ <<"[">> \in Texts /\ <<".", "json">> \in Texts
  BY WordsTyped DEF Texts
<1>5. <<":", "/">> \in Texts /\ <<"]", ":">> \in Texts
  BY WordsTyped DEF Texts
<1>6. <<"/", "file", "/">> \in Texts /\ <<"/", "field", "/">> \in Texts
  BY WordsTyped DEF Texts
<1>7. <<"/">> # << >> /\ <<":">> # << >> /\ <<"[">> # << >>
  OBVIOUS
<1>8. /\ <<":", "/">> # << >> /\ Len(<<":", "/">>) = 2
      /\ <<"]", ":">> # << >> /\ Len(<<"]", ":">>) = 2
  OBVIOUS
<1>9. /\ <<"/", "file", "/">> # << >> /\ Len(<<"/", "file", "/">>) = 3
      /\ <<"/", "field", "/">> # << >>
  OBVIOUS
<1> QED BY <1>1, <1>2, <1>3, <1>4, <1>5, <1>6, <1>7, <1>8, <1>9

\* A joined text is a text.
LEMMA JoinTyped ==
  ASSUME NEW s \in Texts, NEW t \in Texts
  PROVE  s \o t \in Texts
BY ConcatProperties DEF Texts

\* The default paths are texts.
LEMMA DefaultPathsTyped ==
  ASSUME NEW name \in Texts
  PROVE  DefaultPath(name) \in Texts /\ JsonPath(name) \in Texts
<1>1. Len(name) \in Nat /\ \A i \in 1 .. Len(name) : name[i] \in Tokens
  BY DEF Texts
<1>2. SanitizeName(name) \in [1 .. Len(name) -> Tokens]
  <2>1. \A word \in Words : Lower[word] \in Tokens
    BY TokenAssumption
  <2> QED BY <1>1, <2>1, WordsTyped DEF SanitizeName
<1>3. SanitizeName(name) \in Texts
  BY <1>1, <1>2, SeqDef DEF Texts
<1>4. DefaultSecretsPath \o <<"/">> \in Texts
  BY SeparatorsTyped, JoinTyped
<1>5. DefaultPath(name) \in Texts
  BY <1>3, <1>4, JoinTyped DEF DefaultPath
<1> QED BY <1>5, SeparatorsTyped, JoinTyped DEF JsonPath
----------------------------------------------------------------------------
(* Joined texts. *)

\* A text is told by its length and its tokens.
LEMMA SameText ==
  ASSUME NEW s \in Texts, NEW t \in Texts, Len(s) = Len(t),
         \A i \in 1 .. Len(s) : s[i] = t[i]
  PROVE  s = t
BY SeqEqual DEF Texts

\* Where the tokens of two texts are in their join.
LEMMA JoinOfTexts ==
  ASSUME NEW s \in Texts, NEW t \in Texts
  PROVE  /\ s \o t \in Texts
         /\ Len(s) \in Nat /\ Len(t) \in Nat
         /\ Len(s \o t) = Len(s) + Len(t)
         /\ \A i \in 1 .. Len(s) : (s \o t)[i] = s[i]
         /\ \A i \in 1 .. Len(t) : (s \o t)[Len(s) + i] = t[i]
         /\ \A i \in Len(s) + 1 .. Len(s) + Len(t) : (s \o t)[i] = t[i - Len(s)]
<1>1. Len(s) \in Nat /\ Len(t) \in Nat
  BY DEF Texts
<1>2. /\ s \o t \in Texts
      /\ Len(s \o t) = Len(s) + Len(t)
      /\ \A i \in 1 .. Len(s) + Len(t) :
           (s \o t)[i] = IF i <= Len(s) THEN s[i] ELSE t[i - Len(s)]
  BY ConcatProperties DEF Texts
<1>3. ASSUME NEW i \in 1 .. Len(t)
      PROVE  (s \o t)[Len(s) + i] = t[i]
  <2>1. /\ Len(s) + i \in 1 .. Len(s) + Len(t) /\ ~ (Len(s) + i <= Len(s))
        /\ Len(s) + i - Len(s) = i
    BY <1>1
  <2> QED BY <2>1, <1>2
<1>4. ASSUME NEW i \in Len(s) + 1 .. Len(s) + Len(t)
      PROVE  (s \o t)[i] = t[i - Len(s)]
  <2>1. i \in 1 .. Len(s) + Len(t) /\ ~ (i <= Len(s))
    BY <1>1
  <2> QED BY <2>1, <1>2
<1>5. \A i \in 1 .. Len(s) : (s \o t)[i] = s[i]
  BY <1>1, <1>2
<1> QED BY <1>1, <1>2, <1>3, <1>4, <1>5

\* The order in which texts are joined makes no difference.
LEMMA JoinInAnyOrder ==
  ASSUME NEW r \in Texts, NEW s \in Texts, NEW t \in Texts
  PROVE  r \o (s \o t) = (r \o s) \o t
BY ConcatAssociative DEF Texts

\* A joined text can be cut where it was joined.
LEMMA CutOfJoin ==
  ASSUME NEW s \in Texts, NEW t \in Texts
  PROVE  /\ Before(s \o t, Len(s) + 1) = s
         /\ From(s \o t, Len(s) + 1) = t
<1> DEFINE st == s \o t
           b  == Before(st, Len(s) + 1)
           e  == From(st, Len(s) + 1)
<1>1. /\ st \in Texts
      /\ Len(s) \in Nat /\ Len(t) \in Nat
      /\ Len(st) = Len(s) + Len(t)
      /\ \A i \in 1 .. Len(s) : st[i] = s[i]
      /\ \A i \in 1 .. Len(t) : st[Len(s) + i] = t[i]
  BY JoinOfTexts
<1> HIDE DEF st
<1>2. Len(s) + 1 \in 1 .. Len(st) + 1 /\ Len(s) + 1 \in Nat \ {0} /\ Len(s) + 1 - 1 = Len(s)
  BY <1>1
<1>3. b \in Texts /\ Len(b) = Len(s) /\ \A k \in 1 .. Len(s) : b[k] = st[k]
  <2> DEFINE i == Len(s) + 1
  <2>1. i \in 1 .. Len(st) + 1 /\ i - 1 = Len(s)
    BY <1>2
  <2> HIDE DEF i
  <2>2. /\ Before(st, i) \in Texts /\ Len(Before(st, i)) = i - 1
        /\ \A k \in 1 .. i - 1 : Before(st, i)[k] = st[k]
    BY <1>1, <2>1, BeforeTyped
  <2> QED BY <2>1, <2>2 DEF i
<1>4. /\ e \in Texts
      /\ Len(e) = IF Len(s) + 1 <= Len(st) THEN Len(st) - (Len(s) + 1) + 1 ELSE 0
      /\ \A k \in 1 .. Len(st) - (Len(s) + 1) + 1 : e[k] = st[Len(s) + 1 + k - 1]
  BY <1>1, <1>2, FromTyped
<1> HIDE DEF b, e
<1>5. b = s
  BY <1>1, <1>3, SameText
<1>6. Len(e) = Len(t)
  BY <1>1, <1>4
<1>7. ASSUME NEW k \in 1 .. Len(t)
      PROVE  e[k] = t[k]
  <2>1. k \in 1 .. Len(st) - (Len(s) + 1) + 1 /\ Len(s) + 1 + k - 1 = Len(s) + k
    BY <1>1
  <2> QED BY <2>1, <1>1, <1>4
<1>8. e = t
  BY <1>4, <1>6, <1>7, SameText
<1> QED BY <1>5, <1>8 DEF b, e, st

\* The text j is s, the token a and t.
Around(s, a, t, j) ==
  /\ j \in Texts
  /\ Len(s) \in Nat /\ Len(t) \in Nat
  /\ Len(j) = Len(s) + 1 + Len(t)
  /\ \A i \in 1 .. Len(s) : j[i] = s[i]
  /\ j[Len(s) + 1] = a
  /\ \A i \in 1 .. Len(t) : j[Len(s) + 1 + i] = t[i]
  /\ \A i \in Len(s) + 2 .. Len(s) + 1 + Len(t) : j[i] = t[i - (Len(s) + 1)]
  /\ Before(j, Len(s) + 1) = s
  /\ From(j, Len(s) + 2) = t

\* Joining a text, a token and a text makes such a text.
LEMMA AroundToken ==
  ASSUME NEW s \in Texts, NEW t \in Texts, NEW a \in Tokens
  PROVE  /\ Around(s, a, t, s \o <<a>> \o t)
         /\ s \o (<<a>> \o t) = s \o <<a>> \o t
<1> DEFINE b  == <<a>>
           sb == s \o b
           j  == sb \o t
<1>1. b \in Texts /\ Len(b) = 1 /\ b[1] = a
  BY DEF Texts
<1> HIDE DEF b
<1>2. /\ sb \in Texts
      /\ Len(s) \in Nat /\ Len(sb) = Len(s) + 1
      /\ \A i \in 1 .. Len(s) : sb[i] = s[i]
      /\ \A i \in 1 .. Len(b) : sb[Len(s) + i] = b[i]
  <2>1. /\ sb \in Texts
        /\ Len(s) \in Nat /\ Len(sb) = Len(s) + Len(b)
        /\ \A i \in 1 .. Len(s) : sb[i] = s[i]
        /\ \A i \in 1 .. Len(b) : sb[Len(s) + i] = b[i]
    BY <1>1, JoinOfTexts
  <2> HIDE DEF sb
  <2> QED BY <1>1, <2>1
<1>3. sb[Len(s) + 1] = a
  BY <1>1, <1>2
<1>4. Before(s \o (b \o t), Len(s) + 1) = s /\ s \o (b \o t) = j
  BY <1>1, JoinOfTexts, CutOfJoin, JoinInAnyOrder, ZenonT(60)
<1> HIDE DEF sb
<1>5. /\ j \in Texts
      /\ Len(t) \in Nat
      /\ Len(j) = Len(sb) + Len(t)
      /\ \A i \in 1 .. Len(sb) : j[i] = sb[i]
      /\ \A i \in 1 .. Len(t) : j[Len(sb) + i] = t[i]
      /\ \A i \in Len(sb) + 1 .. Len(sb) + Len(t) : j[i] = t[i - Len(sb)]
  BY <1>2, JoinOfTexts
<1>6. From(j, Len(sb) + 1) = t
  BY <1>2, CutOfJoin
<1> HIDE DEF j
<1>7. j[Len(s) + 1] = a /\ \A i \in 1 .. Len(s) : j[i] = s[i]
  BY <1>2, <1>3, <1>5
<1>8. Len(s) + 1 + 1 = Len(s) + 2
  BY <1>2
<1>9. /\ Len(j) = Len(s) + 1 + Len(t) /\ From(j, Len(s) + 2) = t
      /\ \A i \in 1 .. Len(t) : j[Len(s) + 1 + i] = t[i]
      /\ \A i \in Len(s) + 2 .. Len(s) + 1 + Len(t) : j[i] = t[i - (Len(s) + 1)]
  BY <1>2, <1>5, <1>6, <1>8
<1>10. Before(j, Len(s) + 1) = s
  BY <1>4
<1>11. Around(s, a, t, j)
  BY <1>2, <1>5, <1>7, <1>9, <1>10 DEF Around
<1> QED BY <1>4, <1>11 DEF j, sb, b
----------------------------------------------------------------------------
(* Where a part occurs. *)

\* A part occurs where its tokens stand.
LEMMA PositionsAre ==
  ASSUME NEW t \in Texts, NEW part \in Texts, part # << >>
  PROVE  \A i \in Int :
           i \in Positions(t, part) <=>
             /\ i \in 1 .. Len(t) - Len(part) + 1
             /\ \A k \in 1 .. Len(part) : t[i + k - 1] = part[k]
<1>1. Len(t) \in Nat /\ Len(part) \in Nat /\ Len(part) >= 1
  BY EmptySeq DEF Texts
<1>2. SUFFICES ASSUME NEW i \in 1 .. Len(t) - Len(part) + 1
               PROVE  SubSeq(t, i, i + Len(part) - 1) = part <=>
                        \A k \in 1 .. Len(part) : t[i + k - 1] = part[k]
  BY <1>1 DEF Positions
<1> DEFINE n == i + Len(part) - 1
           s == SubSeq(t, i, n)
<1>3. i \in Nat \ {0} /\ n \in Nat /\ n <= Len(t) /\ i <= n /\ n - i + 1 = Len(part)
  BY <1>1
<1>4. /\ s \in Texts
      /\ Len(s) = IF i <= n THEN n - i + 1 ELSE 0
      /\ \A k \in 1 .. n - i + 1 : s[k] = t[i + k - 1]
  BY <1>3, PieceTyped
<1> HIDE DEF s, n
<1>5. Len(s) = Len(part) /\ \A k \in 1 .. Len(part) : s[k] = t[i + k - 1]
  BY <1>3, <1>4
<1>6. s = part <=> \A k \in 1 .. Len(part) : s[k] = part[k]
  BY <1>4, <1>5, SameText
<1>7. s = part <=> \A k \in 1 .. Len(part) : t[i + k - 1] = part[k]
  BY <1>5, <1>6
<1> QED BY <1>7 DEF s, n

\* The same of parts of one, two and three tokens.
LEMMA OneToken ==
  ASSUME NEW t \in Texts, NEW a \in Tokens
  PROVE  \A i \in Int : i \in Positions(t, <<a>>) <=> i \in 1 .. Len(t) /\ t[i] = a
<1>1. <<a>> \in Texts /\ <<a>> # << >> /\ Len(<<a>>) = 1 /\ <<a>>[1] = a
  BY DEF Texts
<1>2. \A i \in Int : Len(t) - 1 + 1 = Len(t) /\ i + 1 - 1 = i
  BY DEF Texts
<1>3. \A i \in Int : i \in Positions(t, <<a>>) <=>
        i \in 1 .. Len(t) - 1 + 1 /\ \A k \in 1 .. 1 : t[i + k - 1] = <<a>>[k]
  BY <1>1, PositionsAre
<1>4. \A k \in 1 .. 1 : k = 1
  OBVIOUS
<1> QED BY <1>1, <1>2, <1>3, <1>4

\* The same of two tokens,
LEMMA TwoTokens ==
  ASSUME NEW t \in Texts, NEW a \in Tokens, NEW b \in Tokens
  PROVE  \A i \in Int : i \in Positions(t, <<a, b>>) <=>
           i \in 1 .. Len(t) - 1 /\ t[i] = a /\ t[i + 1] = b
<1> DEFINE part == <<a, b>>
<1>1. part \in Texts /\ part # << >> /\ Len(part) = 2 /\ part[1] = a /\ part[2] = b
  BY DEF Texts
<1> HIDE DEF part
<1>2. \A i \in Int : Len(t) - 2 + 1 = Len(t) - 1 /\ i + 1 - 1 = i /\ i + 2 - 1 = i + 1
  BY DEF Texts
<1>3. \A i \in Int : i \in Positions(t, part) <=>
        i \in 1 .. Len(t) - 2 + 1 /\ \A k \in 1 .. 2 : t[i + k - 1] = part[k]
  BY <1>1, PositionsAre
<1>4. ASSUME NEW i \in Int
      PROVE  (\A k \in 1 .. 2 : t[i + k - 1] = part[k]) <=> t[i] = a /\ t[i + 1] = b
  <2>1. \A k \in 1 .. 2 : k = 1 \/ k = 2
    OBVIOUS
  <2> QED BY <1>1, <1>2, <2>1
<1> QED BY <1>2, <1>3, <1>4 DEF part

\* and of three.
LEMMA ThreeTokens ==
  ASSUME NEW t \in Texts, NEW a \in Tokens, NEW b \in Tokens, NEW c \in Tokens
  PROVE  \A i \in Int : i \in Positions(t, <<a, b, c>>) <=>
           i \in 1 .. Len(t) - 2 /\ t[i] = a /\ t[i + 1] = b /\ t[i + 2] = c
<1> DEFINE part == <<a, b, c>>
<1>1. /\ part \in Texts /\ part # << >> /\ Len(part) = 3
      /\ part[1] = a /\ part[2] = b /\ part[3] = c
  BY DEF Texts
<1> HIDE DEF part
<1>2. \A i \in Int : /\ Len(t) - 3 + 1 = Len(t) - 2 /\ i + 1 - 1 = i
                     /\ i + 2 - 1 = i + 1 /\ i + 3 - 1 = i + 2
  BY DEF Texts
<1>3. \A i \in Int : i \in Positions(t, part) <=>
        i \in 1 .. Len(t) - 3 + 1 /\ \A k \in 1 .. 3 : t[i + k - 1] = part[k]
  BY <1>1, PositionsAre
<1>4. ASSUME NEW i \in Int
      PROVE  (\A k \in 1 .. 3 : t[i + k - 1] = part[k]) <=>
               t[i] = a /\ t[i + 1] = b /\ t[i + 2] = c
  <2>1. \A k \in 1 .. 3 : k = 1 \/ k = 2 \/ k = 3
    OBVIOUS
  <2> QED BY <1>1, <1>2, <2>1
<1> QED BY <1>2, <1>3, <1>4 DEF part

\* What occurs in one of two joined texts, and what does so in their join.
LEMMA PositionsInJoin ==
  ASSUME NEW s \in Texts, NEW t \in Texts, NEW part \in Texts, part # << >>
  PROVE  /\ \A i \in Positions(s, part) : i \in Positions(s \o t, part)
         /\ \A i \in Positions(s \o t, part) :
              i + Len(part) - 1 <= Len(s) => i \in Positions(s, part)
         /\ \A i \in Positions(t, part) : Len(s) + i \in Positions(s \o t, part)
         /\ \A i \in Positions(s \o t, part) : i > Len(s) => i - Len(s) \in Positions(t, part)
<1> DEFINE st == s \o t
           n  == Len(part)
<1>1. /\ st \in Texts
      /\ Len(s) \in Nat /\ Len(t) \in Nat
      /\ Len(st) = Len(s) + Len(t)
      /\ \A i \in 1 .. Len(s) : st[i] = s[i]
      /\ \A i \in 1 .. Len(t) : st[Len(s) + i] = t[i]
  BY JoinOfTexts
<1> HIDE DEF st
<1>2. n \in Nat \ {0}
  BY EmptySeq DEF Texts
<1>3. \A i \in Int : i \in Positions(st, part) <=>
        i \in 1 .. Len(st) - n + 1 /\ \A k \in 1 .. n : st[i + k - 1] = part[k]
  BY <1>1, PositionsAre
<1>4. \A i \in Int : i \in Positions(s, part) <=>
        i \in 1 .. Len(s) - n + 1 /\ \A k \in 1 .. n : s[i + k - 1] = part[k]
  BY PositionsAre
<1>5. \A i \in Int : i \in Positions(t, part) <=>
        i \in 1 .. Len(t) - n + 1 /\ \A k \in 1 .. n : t[i + k - 1] = part[k]
  BY PositionsAre
<1>6. Positions(st, part) \subseteq Int /\ Positions(s, part) \subseteq Int /\ Positions(t, part) \subseteq Int
  BY <1>1, <1>2, PositionsTyped
<1> HIDE DEF n
<1>7. ASSUME NEW i \in 1 .. Len(s) - n + 1
      PROVE  /\ i \in 1 .. Len(st) - n + 1
             /\ \A k \in 1 .. n : st[i + k - 1] = s[i + k - 1]
  <2>1. i \in 1 .. Len(st) - n + 1 /\ \A k \in 1 .. n : i + k - 1 \in 1 .. Len(s)
    BY <1>1, <1>2
  <2> QED BY <1>1, <2>1
<1>8. ASSUME NEW i \in 1 .. Len(t) - n + 1
      PROVE  /\ Len(s) + i \in 1 .. Len(st) - n + 1
             /\ \A k \in 1 .. n : st[Len(s) + i + k - 1] = t[i + k - 1]
  <2>1. Len(s) + i \in 1 .. Len(st) - n + 1
    BY <1>1, <1>2
  <2>2. \A k \in 1 .. n : /\ i + k - 1 \in 1 .. Len(t)
                          /\ Len(s) + i + k - 1 = Len(s) + (i + k - 1)
    BY <1>1, <1>2
  <2> QED BY <1>1, <2>1, <2>2
<1>9. ASSUME NEW i \in Positions(s, part)
      PROVE  i \in Positions(st, part)
  BY <1>3, <1>4, <1>6, <1>7
<1>10. ASSUME NEW i \in Positions(st, part), i + n - 1 <= Len(s)
       PROVE  i \in Positions(s, part)
  <2>1. i \in 1 .. Len(s) - n + 1
    BY <1>1, <1>2, <1>3, <1>6, <1>10
  <2> QED BY <1>3, <1>4, <1>6, <1>7, <2>1
<1>11. ASSUME NEW i \in Positions(t, part)
       PROVE  Len(s) + i \in Positions(st, part)
  <2>1. i \in 1 .. Len(t) - n + 1 /\ Len(s) + i \in Int
    BY <1>1, <1>5, <1>6
  <2> QED BY <1>3, <1>5, <1>6, <1>8, <2>1
<1>12. ASSUME NEW i \in Positions(st, part), i > Len(s)
       PROVE  i - Len(s) \in Positions(t, part)
  <2> DEFINE j == i - Len(s)
  <2>1. j \in 1 .. Len(t) - n + 1 /\ Len(s) + j = i
    BY <1>1, <1>2, <1>3, <1>6, <1>12
  <2> HIDE DEF j
  <2>2. \A k \in 1 .. n : st[i + k - 1] = t[j + k - 1]
    BY <1>8, <2>1
  <2>3. j \in Int /\ \A k \in 1 .. n : t[j + k - 1] = part[k]
    BY <1>1, <1>3, <1>6, <2>1, <2>2
  <2>4. j \in Positions(t, part)
    BY <1>5, <2>1, <2>3
  <2> QED BY <2>4 DEF j
<1> QED BY <1>9, <1>10, <1>11, <1>12 DEF st, n

\* A text begins with another one if it has its tokens first.
LEMMA PrefixIs ==
  ASSUME NEW s \in Texts, NEW t \in Texts
  PROVE  IsPrefix(s, t) <=> Len(s) <= Len(t) /\ \A i \in 1 .. Len(s) : s[i] = t[i]
<1>1. SUFFICES ASSUME Len(s) <= Len(t)
               PROVE  SubSeq(s, 1, Len(s)) = SubSeq(t, 1, Len(s)) <=>
                        \A i \in 1 .. Len(s) : s[i] = t[i]
  BY DEF IsPrefix
<1> DEFINE head == SubSeq(t, 1, Len(s))
<1>2. Len(s) \in Nat /\ Len(t) \in Nat /\ Len(s) - 1 + 1 = Len(s) /\ 1 \in Nat \ {0}
  BY DEF Texts
<1>3. SubSeq(s, 1, Len(s)) = s
  BY SubSeqFull DEF Texts
<1>4. /\ head \in Texts /\ Len(head) = IF 1 <= Len(s) THEN Len(s) - 1 + 1 ELSE 0
      /\ \A i \in 1 .. Len(s) - 1 + 1 : head[i] = t[1 + i - 1]
  BY <1>1, <1>2, PieceTyped
<1> HIDE DEF head
<1>5. Len(head) = Len(s)
  BY <1>2, <1>4
<1>6. \A i \in 1 .. Len(s) : head[i] = t[i]
  <2>1. \A i \in 1 .. Len(s) : 1 + i - 1 = i
    OBVIOUS
  <2> QED BY <1>2, <1>4, <2>1
<1>7. s = head <=> \A i \in 1 .. Len(s) : s[i] = head[i]
  BY <1>4, <1>5, SameText
<1>8. s = head <=> \A i \in 1 .. Len(s) : s[i] = t[i]
  BY <1>6, <1>7
<1> QED BY <1>3, <1>8 DEF head

\* In particular with one token, and with what was joined to it.
LEMMA BeginsWith ==
  ASSUME NEW t \in Texts, NEW a \in Tokens
  PROVE  IsPrefix(<<a>>, t) <=> t # NoText /\ t[1] = a
<1>1. <<a>> \in Texts /\ Len(<<a>>) = 1 /\ <<a>>[1] = a
  BY DEF Texts
<1>2. Len(t) \in Nat /\ (t # NoText <=> 1 <= Len(t))
  BY EmptySeq DEF Texts, NoText
<1>3. IsPrefix(<<a>>, t) <=> 1 <= Len(t) /\ \A i \in 1 .. 1 : <<a>>[i] = t[i]
  BY <1>1, PrefixIs
<1>4. \A i \in 1 .. 1 : i = 1
  OBVIOUS
<1> QED BY <1>1, <1>2, <1>3, <1>4

\* A joined text begins with the first of the two.
LEMMA BeginOfJoin ==
  ASSUME NEW s \in Texts, NEW t \in Texts
  PROVE  IsPrefix(s, s \o t)
<1> DEFINE st == s \o t
<1>1. /\ st \in Texts /\ Len(s) \in Nat /\ Len(t) \in Nat
      /\ Len(st) = Len(s) + Len(t)
      /\ \A i \in 1 .. Len(s) : st[i] = s[i]
  BY JoinOfTexts
<1> HIDE DEF st
<1>2. IsPrefix(s, st)
  BY <1>1, PrefixIs
<1> QED BY <1>2 DEF st
----------------------------------------------------------------------------
(* Notations. *)

\* A new reference is well-formed, and so it is with another path.
LEMMA SecretRefTyped ==
  ASSUME NEW name \in Texts
  PROVE  SecretRef(name) \in Refs
<1>1. NoText \in Texts
  BY SeparatorsTyped
<1>2. << >> \in Seq(Texts)
  BY EmptySeq
<1>3. "json" \in Formats
  BY DEF Formats
<1> QED BY <1>1, <1>2, <1>3 DEF SecretRef, Refs

\* A default path leaves a reference well-formed.
LEMMA WithDefaultTyped ==
  ASSUME NEW ref \in Refs, NEW path \in Texts
  PROVE  WithDefault(ref, path) \in Refs
BY DEF WithDefault, Refs

\* Before the first place of a part, unless that is the beginning.
LEMMA BeforeFirstTyped ==
  ASSUME NEW t \in Texts, NEW part \in Texts, part # << >>, Positions(t, part) # {}
  PROVE  Before(t, Min(Positions(t, part))) \in Texts
<1>1. Min(Positions(t, part)) \in 1 .. Len(t)
  BY FirstPosition, PositionsTyped
<1>2. Min(Positions(t, part)) \in 1 .. Len(t) + 1
  BY <1>1 DEF Texts
<1> QED BY <1>2, BeforeTyped

\* From the first place of a part, or later.
LEMMA FromFirstTyped ==
  ASSUME NEW t \in Texts, NEW part \in Texts, part # << >>, Positions(t, part) # {},
         NEW n \in Nat
  PROVE  From(t, Min(Positions(t, part)) + n) \in Texts
<1>1. Min(Positions(t, part)) \in 1 .. Len(t)
  BY FirstPosition, PositionsTyped
<1>2. Min(Positions(t, part)) + n \in Nat \ {0}
  BY <1>1 DEF Texts
<1> QED BY <1>2, FromTyped

\* extractRecordFromNotation returns a text.
LEMMA RecordOfTyped ==
  ASSUME NEW notation \in Texts
  PROVE  RecordOf(notation) \in Texts
<1> DEFINE rest == IF IsPrefix(Scheme, notation) THEN From(notation, 5) ELSE notation
<1>1. rest \in Texts
  BY FromTyped
<1> HIDE DEF rest
<1>2. Positions(rest, <<"/">>) # {} => Before(rest, Min(Positions(rest, <<"/">>))) \in Texts
  BY <1>1, SeparatorsTyped, BeforeFirstTyped
<1> QED BY <1>1, <1>2 DEF RecordOf, rest

\* The file of a notation that has "/file/" is a text.
LEMMA FileOfTyped ==
  ASSUME NEW notation \in Texts, Holds(notation, <<"/", "file", "/">>)
  PROVE  FileOf(notation) \in Texts
<1> DEFINE file == From(notation, Min(Positions(notation, <<"/", "file", "/">>)) + 3)
<1>1. file \in Texts
  BY SeparatorsTyped, FromFirstTyped DEF Holds
<1> HIDE DEF file
<1>2. Positions(file, <<"[">>) # {} => Before(file, Min(Positions(file, <<"[">>))) \in Texts
  BY <1>1, SeparatorsTyped, BeforeFirstTyped
<1> QED BY <1>1, <1>2 DEF FileOf, file

\* The end of a notation is in the text or behind it.
LEMMA NotationEndTyped ==
  ASSUME NEW value \in Texts
  PROVE  NotationEnd(value) \in 1 .. Len(value) + 1
<1> DEFINE skip == IF IsPrefix(Scheme, value) THEN 4 ELSE 0
           cuts == Positions(From(value, skip + 1), <<":", "/">>)
<1>1. Len(value) \in Nat
  BY DEF Texts
<1>2. skip \in {0, 4}
  OBVIOUS
<1>3. /\ From(value, skip + 1) \in Texts
      /\ Len(From(value, skip + 1)) =
           IF skip + 1 <= Len(value) THEN Len(value) - (skip + 1) + 1 ELSE 0
  BY <1>2, FromTyped
<1>4. /\ cuts # {} => Max(cuts) \in cuts
      /\ cuts \subseteq 1 .. Len(From(value, skip + 1))
  BY <1>3, SeparatorsTyped, LastPosition, PositionsTyped
<1> HIDE DEF cuts, skip
<1>5. cuts # {} => skip + Max(cuts) \in 1 .. Len(value)
  <2> DEFINE room == Len(From(value, skip + 1))
  <2>1. SUFFICES ASSUME cuts # {}
                 PROVE  skip + Max(cuts) \in 1 .. Len(value)
    OBVIOUS
  <2>2. Max(cuts) \in 1 .. room
    BY <1>4, <2>1
  <2>3. room = IF skip + 1 <= Len(value) THEN Len(value) - (skip + 1) + 1 ELSE 0
    BY <1>3
  <2> HIDE DEF room
  <2> QED BY <1>1, <1>2, <2>2, <2>3
<1>6. NotationEnd(value) \in {Len(value) + 1, skip + Max(cuts)}
  BY DEF NotationEnd, cuts, skip
<1>7. cuts = {} => NotationEnd(value) = Len(value) + 1
  BY DEF NotationEnd, cuts, skip
<1> QED BY <1>1, <1>5, <1>6, <1>7

\* parseKeeperNotation makes a well-formed reference.
LEMMA KeeperNotationTyped ==
  ASSUME NEW name \in Texts, NEW value \in Texts
  PROVE  KeeperNotation(name, value) \in Refs
<1> DEFINE end      == NotationEnd(value)
           notation == Before(value, end)
           path     == From(value, end + 1)
           isFile   == Holds(notation, <<"/", "file", "/">>)
           record   == RecordOf(notation)
           fileName == IF isFile THEN FileOf(notation) ELSE NoText
           named    == SecretRef(IF record # NoText THEN record ELSE name)
           where    == IF path # NoText THEN path ELSE DefaultPath(name)
<1>1. end \in 1 .. Len(value) + 1 /\ end + 1 \in Nat \ {0}
  BY NotationEndTyped DEF Texts
<1> HIDE DEF end
<1>2. notation \in Texts /\ path \in Texts
  BY <1>1, BeforeTyped, FromTyped
<1> HIDE DEF notation, path
<1>3. record \in Texts /\ isFile \in BOOLEAN
  BY <1>2, RecordOfTyped DEF Holds
<1>4. fileName \in Texts
  BY <1>2, FileOfTyped, SeparatorsTyped
<1>5. named \in Refs
  BY <1>3, SecretRefTyped
<1>6. where \in Texts
  BY <1>2, DefaultPathsTyped
<1>7. KeeperNotation(name, value) =
        [named EXCEPT !.format = "raw", !.notation = notation, !.isFile = isFile,
                      !.fileName = fileName, !.path = where]
  BY DEF KeeperNotation, end, notation, path
<1> HIDE DEF isFile, record, fileName, named, where
<1>8. "raw" \in Formats
  BY DEF Formats
<1> QED BY <1>2, <1>3, <1>4, <1>5, <1>6, <1>7, <1>8 DEF Refs
----------------------------------------------------------------------------
(* The other forms. *)

\* So does record[field]:path, if there is a "]:".
LEMMA FieldExtractionTyped ==
  ASSUME NEW name \in Texts, NEW value \in Texts, Holds(value, <<"]", ":">>)
  PROVE  FieldExtraction(name, value) \in Refs
<1> DEFINE close == Min(Positions(value, <<"]", ":">>))
           head  == Before(value, close)
           opens == Positions(head, <<"[">>)
           ref   == [SecretRef(name) EXCEPT !.path = From(value, close + 2)]
<1>1. head \in Texts /\ From(value, close + 2) \in Texts
  BY SeparatorsTyped, BeforeFirstTyped, FromFirstTyped DEF Holds
<1>2. ref \in Refs
  BY <1>1, SecretRefTyped DEF Refs
<1> HIDE DEF head
<1>3. opens # {} => Before(head, Min(opens)) \in Texts /\ From(head, Min(opens) + 1) \in Texts
  BY <1>1, SeparatorsTyped, BeforeFirstTyped, FromFirstTyped
<1>4. FieldExtraction(name, value) =
        IF opens # {} /\ Min(opens) > 1
        THEN [ref EXCEPT !.name = Before(head, Min(opens)),
                         !.fields = <<From(head, Min(opens) + 1)>>,
                         !.format = "raw"]
        ELSE ref
  BY DEF FieldExtraction, head
<1> HIDE DEF opens, ref
<1>5. "raw" \in Formats
  BY DEF Formats
<1>6. opens # {} => <<From(head, Min(opens) + 1)>> \in Seq(Texts)
  BY <1>3
<1> QED BY <1>2, <1>3, <1>4, <1>5, <1>6 DEF Refs

\* And record:path, or a path alone.
LEMMA RecordAndPathTyped ==
  ASSUME NEW name \in Texts, NEW value \in Texts
  PROVE  RecordAndPath(name, value) \in Refs
<1> DEFINE colon == Max({0} \cup Positions(value, <<":">>))
<1>1. Len(value) \in Nat
  BY DEF Texts
<1>2. {0} \cup Positions(value, <<":">>) \subseteq 0 .. Len(value)
  BY <1>1, SeparatorsTyped, PositionsTyped
<1>3. colon \in {0} \cup Positions(value, <<":">>)
  BY <1>1, <1>2, MaxIsGreatest
<1>4. colon \in 0 .. Len(value) /\ colon + 1 \in Nat \ {0}
  BY <1>1, <1>2, <1>3
<1> HIDE DEF colon
<1>5. From(value, colon + 1) \in Texts
  BY <1>4, FromTyped
<1>6. colon > 1 => colon \in 1 .. Len(value) + 1
  BY <1>1, <1>4
<1>7. colon > 1 => SecretRef(Before(value, colon)) \in Refs
  BY <1>6, BeforeTyped, SecretRefTyped
<1>8. RecordAndPath(name, value) =
        IF colon > 1 /\ IsPrefix(<<"/">>, From(value, colon + 1))
        THEN [SecretRef(Before(value, colon)) EXCEPT !.path = From(value, colon + 1)]
        ELSE [SecretRef(name) EXCEPT !.path = value]
  BY DEF RecordAndPath, colon
<1> QED BY <1>5, <1>7, <1>8, SecretRefTyped DEF Refs

\* parseSecretAnnotation makes a well-formed reference.
THEOREM SecretAnnotationTyped ==
  ASSUME NEW name \in Texts, NEW value \in Texts
  PROVE  SecretAnnotation(name, value) \in Refs
<1> DEFINE read == IF Holds(value, <<"[">>) /\ Holds(value, <<"]", ":">>)
                   THEN FieldExtraction(name, value)
                   ELSE IF IsPrefix(<<"/">>, value)
                        THEN [SecretRef(name) EXCEPT !.path = value]
                        ELSE RecordAndPath(name, value)
<1>1. KeeperNotation(name, value) \in Refs
  BY KeeperNotationTyped
<1>2. read \in Refs
  <2>1. [SecretRef(name) EXCEPT !.path = value] \in Refs
    BY SecretRefTyped DEF Refs
  <2> QED BY <2>1, FieldExtractionTyped, RecordAndPathTyped
<1> HIDE DEF read
<1>3. WithDefault(read, JsonPath(name)) \in Refs
  BY <1>2, DefaultPathsTyped, WithDefaultTyped
<1> QED BY <1>1, <1>3 DEF SecretAnnotation, read

\* A trimmed text is a text.
LEMMA TrimSpaceTyped ==
  ASSUME NEW t \in Texts
  PROVE  TrimSpace(t) \in Texts
<1> DEFINE kept == {i \in DOMAIN t : t[i] # Space}
<1>1. Len(t) \in Nat /\ kept \subseteq 1 .. Len(t)
  BY DEF Texts
<1>2. CASE kept = {}
  BY <1>2, SeparatorsTyped DEF TrimSpace
<1>3. CASE kept # {}
  <2>1. kept \subseteq Nat /\ kept \subseteq 0 .. Len(t)
    BY <1>1
  <2> HIDE DEF kept
  <2>2. Min(kept) \in kept
    BY <1>3, <2>1, MinIsLeast
  <2>5. Max(kept) \in kept
    BY <1>1, <1>3, <2>1, MaxIsGreatest
  <2>6. Min(kept) \in 1 .. Len(t) /\ Max(kept) \in 1 .. Len(t)
    BY <1>1, <2>2, <2>5
  <2>3. Min(kept) \in Nat \ {0} /\ Max(kept) \in Nat /\ Max(kept) <= Len(t)
    BY <1>1, <2>6
  <2>4. SubSeq(t, Min(kept), Max(kept)) \in Texts
    BY <2>3, PieceTyped
  <2> QED BY <1>3, <2>4 DEF TrimSpace, kept
<1> QED BY <1>2, <1>3

\* parseFileAnnotation makes a well-formed reference, whatever the annotation is
\* and wherever its blanks are.
THEOREM FileAnnotationTyped ==
  ASSUME NEW name \in Texts, NEW value \in Texts
  PROVE  FileAnnotation(name, value) \in Refs
<1> DEFINE colons == Positions(value, <<":">>)
           first  == Min(colons)
           second == Min({Len(value) + 1} \cup (colons \ {first}))
           ref    == [SecretRef(name) EXCEPT !.format = "raw", !.isFile = TRUE]
           read   == IF colons = {} THEN [ref EXCEPT !.fileName = value]
                     ELSE [ref EXCEPT
                             !.name = TrimSpace(Before(value, first)),
                             !.fileName = TrimSpace(SubSeq(value, first + 1, second - 1)),
                             !.path = TrimSpace(From(value, second + 1))]
           where  == IF read.fileName # NoText
                     THEN DefaultSecretsPath \o <<"/">> \o read.fileName
                     ELSE DefaultPath(name)
<1>1. Len(value) \in Nat
  BY DEF Texts
<1>2. colons \subseteq 1 .. Len(value)
  BY SeparatorsTyped, PositionsTyped
<1>3. ref \in Refs
  <2>1. "raw" \in Formats /\ TRUE \in BOOLEAN
    BY DEF Formats
  <2>2. SecretRef(name) \in Refs
    BY SecretRefTyped
  <2> QED BY <2>1, <2>2 DEF Refs
<1>4. second \in 1 .. Len(value) + 1
  <2>1. {Len(value) + 1} \cup (colons \ {first}) \subseteq 1 .. Len(value) + 1
    BY <1>1, <1>2
  <2>2. {Len(value) + 1} \cup (colons \ {first}) \subseteq Nat
    BY <1>1, <2>1
  <2> HIDE DEF colons, first
  <2>3. second \in {Len(value) + 1} \cup (colons \ {first})
    BY <2>2, MinIsLeast
  <2> HIDE DEF second
  <2> QED BY <2>1, <2>3
<1>5. colons # {} => first \in 1 .. Len(value)
  BY <1>2, SeparatorsTyped, FirstPosition
<1> HIDE DEF colons, second, first
<1>6. colons # {} =>
        /\ TrimSpace(Before(value, first)) \in Texts
        /\ TrimSpace(SubSeq(value, first + 1, second - 1)) \in Texts
        /\ TrimSpace(From(value, second + 1)) \in Texts
  <2>1. SUFFICES ASSUME colons # {}
                 PROVE  /\ TrimSpace(Before(value, first)) \in Texts
                        /\ TrimSpace(SubSeq(value, first + 1, second - 1)) \in Texts
                        /\ TrimSpace(From(value, second + 1)) \in Texts
    OBVIOUS
  <2>2. first \in 1 .. Len(value) + 1 /\ first + 1 \in Nat \ {0}
    BY <1>1, <1>5, <2>1
  <2>3. second - 1 \in Nat /\ second - 1 <= Len(value) /\ second + 1 \in Nat \ {0}
    BY <1>1, <1>4
  <2>4. /\ Before(value, first) \in Texts
        /\ SubSeq(value, first + 1, second - 1) \in Texts
        /\ From(value, second + 1) \in Texts
    BY <2>2, <2>3, BeforeTyped, FromTyped, PieceTyped
  <2> QED BY <2>4, TrimSpaceTyped
<1>7. read \in Refs
  <2> HIDE DEF ref
  <2>1. colons = {} => read \in Refs
    BY <1>3 DEF Refs
  <2>2. colons # {} => read \in Refs
    BY <1>3, <1>6 DEF Refs
  <2> QED BY <2>1, <2>2
<1> HIDE DEF read
<1>8. where \in Texts
  <2>1. read.fileName \in Texts
    BY <1>7 DEF Refs
  <2> QED BY <2>1, SeparatorsTyped, JoinTyped, DefaultPathsTyped
<1>9. WithDefault(read, where) \in Refs
  BY <1>7, <1>8, WithDefaultTyped
<1> QED BY <1>9, KeeperNotationTyped
        DEF FileAnnotation, where, read, second, first, colons
=============================================================================
