------------------------ MODULE KeeperClientProofs ------------------------
(***************************************************************************)
(* What the lookups of the Keeper client return, for all texts, lists of   *)
(* folders and records.                                                    *)
(***************************************************************************)
EXTENDS AnnotationForms, KeeperClient, TextProofs

(* The forms. *)

Kinds == {"path", "record", "field", "notation", "customNotation", "bareNotation",
          "fileNotation", "file", "folder"}

\* What the forms of each kind have.
LEMMA FormTyped ==
  ASSUME NEW f \in Forms
  PROVE  /\ f.kind \in Kinds
         /\ f.key \in Texts /\ f.title \in Texts /\ f.part \in Texts /\ f.path \in Texts
         /\ f.place \in Seq(Texts \ {NoText})
         /\ f.path = NoText \/ IsPrefix(<<"/">>, f.path)
         /\ f.kind \in {"path", "record", "field"} => f.path # NoText
         /\ f.kind \notin {"path", "folder"} => f.title # NoText /\ f.part \in Texts
         /\ f.kind \in {"field", "file"} \cup Notations => f.part # NoText
         /\ f.kind = "folder" => f.place # << >>
<1>1. NoText \in Texts /\ ~ IsPrefix(<<"/">>, NoText) /\ << >> \in Seq(Texts \ {NoText})
  BY SeparatorsTyped, WordsTyped, BeginsWith, EmptySeq
<1>2. /\ Keys \subseteq Texts
      /\ Titles \subseteq Texts \ {NoText} /\ Fields \subseteq Texts \ {NoText}
      /\ Files \subseteq Texts \ {NoText}
      /\ Places \subseteq Seq(Texts \ {NoText})
      /\ \A path \in Paths : path \in Texts /\ IsPrefix(<<"/">>, path) /\ path # NoText
  BY <1>1, FormAssumption
<1>3. f.kind \in Kinds
  BY DEF Forms, Kinds
<1>4. f.key \in Texts /\ f.title \in Texts /\ f.part \in Texts
  BY <1>1, <1>2 DEF Forms
<1>5. f.path \in Texts /\ (f.path = NoText \/ IsPrefix(<<"/">>, f.path))
  BY <1>1, <1>2 DEF Forms
<1>6. f.place \in Seq(Texts \ {NoText})
  <2>1. f.place \in Places \cup {<< >>}
    BY DEF Forms
  <2> QED BY <1>1, <1>2, <2>1
<1>7. f.kind \in {"path", "record", "field"} => f.path # NoText
  BY <1>2 DEF Forms
<1>8. f.kind \notin {"path", "folder"} => f.title # NoText
  BY <1>2 DEF Forms
<1>9. f.kind \in {"field", "file"} \cup Notations => f.part # NoText
  BY <1>2 DEF Forms, Notations
<1>10. f.kind = "folder" => f.place # << >>
  BY DEF Forms
<1> QED BY <1>3, <1>4, <1>5, <1>6, <1>7, <1>8, <1>9, <1>10
----------------------------------------------------------------------------
(* How the names of a place are joined. *)

Joined(names, n, g) ==
  g = [m \in 0 .. n |-> IF m = 0 THEN NoText ELSE IF m = 1 THEN names[1]
                        ELSE g[m - 1] \o <<"/">> \o names[m]]

\* There is such a function for each number of names.
LEMMA JoinedExists ==
  ASSUME NEW names, NEW n \in Nat
  PROVE  \E g : Joined(names, n, g)
<1> DEFINE T == {l \in Nat : ~ \E g : Joined(names, l, g)}
<1>1. SUFFICES ASSUME T # {}
               PROVE  FALSE
  OBVIOUS
<1>2. PICK l \in T : \A k \in T : l <= k
  <2>1. T \subseteq Nat
    OBVIOUS
  <2> HIDE DEF T
  <2> QED BY <1>1, <2>1, LeastNumber
<1>3. CASE l = 0
  <2> DEFINE g == [m \in 0 .. 0 |-> NoText]
  <2>1. \A m \in 0 .. 0 : m = 0
    OBVIOUS
  <2>2. Joined(names, 0, g)
    BY <2>1 DEF Joined
  <2> QED BY <2>2, <1>3
<1>4. CASE l # 0
  <2>1. l \in Nat /\ l - 1 \in Nat /\ l - 1 < l
    BY <1>4
  <2>2. l - 1 \notin T
    <3> HIDE DEF T
    <3> QED BY <2>1, <1>2
  <2>3. PICK g : Joined(names, l - 1, g)
    BY <2>1, <2>2
  <2> DEFINE Following(m, g1) == IF m = 0 THEN NoText ELSE IF m = 1 THEN names[1]
                             ELSE g1[m - 1] \o <<"/">> \o names[m]
             h == [m \in 0 .. l |-> IF m = l THEN Following(m, g) ELSE g[m]]
  <2>4. \A m \in 0 .. l - 1 : g[m] = Following(m, g)
    BY <2>3 DEF Joined
  <2>5. \A m \in 0 .. l : m # 0 => h[m - 1] = g[m - 1]
    BY <2>1
  <2>6. \A m \in 0 .. l : h[m] = Following(m, h)
    BY <2>1, <2>4, <2>5
  <2>7. h = [m \in 0 .. l |-> h[m]]
    OBVIOUS
  <2> HIDE DEF h
  <2>8. h = [m \in 0 .. l |-> Following(m, h)]
    BY <2>6, <2>7
  <2>9. Joined(names, l, h)
    BY <2>8 DEF Joined
  <2> QED BY <2>9
<1> QED BY <1>3, <1>4

\* Names that are not empty make a text that is not empty.
LEMMA SlashedTyped ==
  ASSUME NEW names \in Seq(Texts \ {NoText}), names # << >>
  PROVE  Slashed(names) \in Texts /\ Slashed(names) # NoText
<1>1. Len(names) \in Nat /\ Len(names) # 0 /\ \A i \in 1 .. Len(names) : names[i] \in Texts \ {NoText}
  BY EmptySeq
<1> DEFINE join == CHOOSE g : Joined(names, Len(names), g)
<1>2. Slashed(names) = join[Len(names)]
  BY DEF Slashed, Joined
<1>3. Joined(names, Len(names), join)
  BY <1>1, JoinedExists
<1> HIDE DEF join
<1>4. /\ join[1] = names[1]
      /\ \A m \in 2 .. Len(names) : join[m] = join[m - 1] \o <<"/">> \o names[m]
  <2>1. \A m \in 0 .. Len(names) :
          join[m] = IF m = 0 THEN NoText ELSE IF m = 1 THEN names[1]
                    ELSE join[m - 1] \o <<"/">> \o names[m]
    BY <1>3 DEF Joined
  <2>2. 1 \in 0 .. Len(names) /\ \A m \in 2 .. Len(names) : m \in 0 .. Len(names) /\ m # 0 /\ m # 1
    BY <1>1
  <2> QED BY <2>1, <2>2
<1> DEFINE T == {m \in 1 .. Len(names) : join[m] \notin Texts \ {NoText}}
<1>5. T = {}
  <2>1. SUFFICES ASSUME T # {}
                 PROVE  FALSE
    OBVIOUS
  <2>2. PICK m \in T : \A k \in T : m <= k
    <3>1. T \subseteq Nat
      OBVIOUS
    <3> HIDE DEF T
    <3> QED BY <2>1, <3>1, LeastNumber
  <2>3. m # 1
    BY <1>1, <1>4
  <2>4. m \in 2 .. Len(names) /\ m - 1 \in 1 .. Len(names) /\ ~ (m <= m - 1)
    BY <1>1, <2>3
  <2>5. m - 1 \notin T
    <3> HIDE DEF T
    <3> QED BY <2>2, <2>4
  <2>6. join[m - 1] \in Texts /\ names[m] \in Texts /\ <<"/">> \in Texts
    BY <1>1, <2>4, <2>5, SeparatorsTyped
  <2> DEFINE head == join[m - 1]
             name == names[m]
  <2>7. head \o <<"/">> \in Texts /\ Len(head \o <<"/">>) = Len(head) + Len(<<"/">>)
    BY <2>6, JoinOfTexts
  <2> HIDE DEF head, name
  <2>8. /\ (head \o <<"/">>) \o name \in Texts
        /\ Len((head \o <<"/">>) \o name) = Len(head \o <<"/">>) + Len(name)
    BY <2>6, <2>7, JoinOfTexts DEF name
  <2>9. Len(<<"/">>) = 1 /\ Len(head) \in Nat /\ Len(name) \in Nat /\ Len(NoText) = 0
    BY <2>6 DEF Texts, NoText, head, name
  <2>10. (head \o <<"/">>) \o name # NoText
    BY <2>7, <2>8, <2>9
  <2>11. join[m] = (head \o <<"/">>) \o name
    BY <1>4, <2>4 DEF head, name
  <2>12. join[m] \in Texts \ {NoText}
    BY <2>8, <2>10, <2>11
  <2> QED BY <2>12
<1> QED BY <1>1, <1>2, <1>5

\* What notations name is a text.
LEMMA SelectedTyped ==
  ASSUME NEW f \in Forms, f.kind \in Notations
  PROVE  /\ Located(f) \in Texts
         /\ Selector(f) \in Tokens
         /\ Selected(f) \in Texts /\ Selected(f) # NoText
<1>1. f.place \in Seq(Texts \ {NoText}) /\ f.title \in Texts \ {NoText} /\ f.part \in Texts
  BY FormTyped DEF Notations
<1> DEFINE names == Append(f.place, f.title)
<1>2. names \in Seq(Texts \ {NoText}) /\ names # << >>
  BY <1>1
<1>3. Located(f) \in Texts /\ Located(f) # NoText
  <2> HIDE DEF names
  <2>1. Slashed(names) \in Texts /\ Slashed(names) # NoText
    BY <1>2, SlashedTyped
  <2> QED BY <2>1 DEF Located, names
<1>4. Selector(f) \in Tokens
  <2>1. "custom_field" \in Tokens
    BY FormAssumption, TokenAssumption
  <2> QED BY <2>1, WordsTyped DEF Selector
<1> DEFINE word == <<"/", Selector(f), "/">>
           l    == Located(f)
<1>5. word \in Texts
  BY <1>4, WordsTyped DEF Texts
<1> HIDE DEF word, l
<1>6. l \in Texts /\ l # NoText
  BY <1>3 DEF l
<1>7. l \o word \in Texts /\ Len(l \o word) = Len(l) + Len(word)
  BY <1>5, <1>6, JoinOfTexts
<1>8. /\ (l \o word) \o f.part \in Texts
      /\ Len((l \o word) \o f.part) = Len(l \o word) + Len(f.part)
  BY <1>1, <1>7, JoinOfTexts
<1>9. Len(l) \in Nat \ {0} /\ Len(word) \in Nat /\ Len(f.part) \in Nat /\ Len(NoText) = 0
  BY <1>1, <1>5, <1>6, EmptySeq DEF Texts, NoText
<1>10. (l \o word) \o f.part # NoText
  <2> DEFINE j == (l \o word) \o f.part
             a == Len(l)
             b == Len(word)
             c == Len(f.part)
  <2>1. Len(j) = (a + b) + c
    BY <1>7, <1>8
  <2> HIDE DEF j, a, b, c
  <2>2. a \in Nat \ {0} /\ b \in Nat /\ c \in Nat
    BY <1>9 DEF a, b, c
  <2>3. Len(j) # Len(NoText)
    BY <1>9, <2>1, <2>2
  <2> QED BY <2>3 DEF j
<1> QED BY <1>3, <1>4, <1>8, <1>10 DEF Selected, word, l
----------------------------------------------------------------------------
(* The components of a path. *)

\* The elements of an ascending list, as the first, the second and so on of
\* their set.
LEMMA NthOfAscending ==
  ASSUME NEW n \in Nat, NEW o \in [1 .. n -> Nat],
         \A k, l \in 1 .. n : k < l => o[k] < o[l]
  PROVE  LET at == {o[k] : k \in 1 .. n}
         IN  /\ Cardinality(at) = n
             /\ \A k \in 1 .. n : Nth(at, k) = o[k]
<1> DEFINE First(m) == {o[k] : k \in 1 .. m}
           at       == First(n)
<1>1. ASSUME NEW m \in 0 .. n
      PROVE  Cardinality(First(m)) = m
  <2> DEFINE f == [k \in 1 .. m |-> o[k]]
  <2>1. 1 .. m \subseteq 1 .. n /\ m \in Int /\ 1 \in Int
    OBVIOUS
  <2>2. IsFiniteSet(1 .. m) /\ Cardinality(1 .. m) = m
    BY <2>1, FS_Interval
  <2>3. f \in Surjection(1 .. m, First(m))
    BY DEF Surjection
  <2>4. \A k, l \in 1 .. m : f[k] = f[l] => k = l
    <3>1. SUFFICES ASSUME NEW k \in 1 .. m, NEW l \in 1 .. m, k # l
                   PROVE  f[k] # f[l]
      OBVIOUS
    <3>2. k \in 1 .. n /\ l \in 1 .. n /\ (k < l \/ l < k)
      BY <3>1, <2>1
    <3>3. o[k] \in Nat /\ o[l] \in Nat /\ (o[k] < o[l] \/ o[l] < o[k])
      BY <3>2
    <3> QED BY <3>3
  <2>5. f \in Bijection(1 .. m, First(m))
    BY <2>3, <2>4 DEF Bijection, Injection, IsInjective, Surjection
  <2>6. ExistsBijection(1 .. m, First(m))
    BY <2>5 DEF ExistsBijection
  <2> QED BY <2>2, <2>6, FS_Bijection
<1>2. ASSUME NEW k \in 1 .. n
      PROVE  {j \in at : j <= o[k]} = First(k)
  <2>1. \A l \in 1 .. n : o[l] <= o[k] <=> l <= k
    <3>1. SUFFICES ASSUME NEW l \in 1 .. n
                   PROVE  o[l] <= o[k] <=> l <= k
      OBVIOUS
    <3>2. o[l] \in Nat /\ o[k] \in Nat /\ (l < k \/ l = k \/ k < l)
      OBVIOUS
    <3> QED BY <3>2
  <2>2. \A l : l \in 1 .. k <=> l \in 1 .. n /\ l <= k
    OBVIOUS
  <2> QED BY <2>1, <2>2
<1>3. ASSUME NEW k \in 1 .. n
      PROVE  Nth(at, k) = o[k]
  <2>1. \A l \in 1 .. n : Cardinality({j \in at : j <= o[l]}) = l
    <3>1. \A l \in 1 .. n : l \in 0 .. n
      OBVIOUS
    <3> HIDE DEF First
    <3> QED BY <1>1, <1>2, <3>1
  <2>2. o[k] \in at /\ Cardinality({j \in at : j <= o[k]}) = k
    BY <2>1
  <2>3. ASSUME NEW i \in at, Cardinality({j \in at : j <= i}) = k
        PROVE  i = o[k]
    <3>1. PICK l \in 1 .. n : i = o[l]
      OBVIOUS
    <3> HIDE DEF at
    <3>2. l = k
      BY <3>1, <2>1, <2>3
    <3> QED BY <3>1, <3>2
  <2> HIDE DEF at
  <2> QED BY <2>2, <2>3 DEF Nth
<1>4. Cardinality(at) = n
  <2>1. n \in 0 .. n
    OBVIOUS
  <2> HIDE DEF First
  <2> QED BY <1>1, <2>1
<1> QED BY <1>3, <1>4

\* A text has n names, each one but the last followed by a slash, and nothing
\* else; name k begins at o[k].
LaidOut(names, n, o, t) ==
  /\ o \in [1 .. n -> Nat \ {0}]
  /\ o[1] = 1
  /\ \A k \in 1 .. n : \A i \in 1 .. Len(names[k]) : t[o[k] + i - 1] = names[k][i]
  /\ \A k \in 1 .. n - 1 : /\ o[k] + Len(names[k]) + 1 = o[k + 1]
                           /\ t[o[k] + Len(names[k])] = "/"
  /\ o[n] + Len(names[n]) = Len(t) + 1
  /\ \A k, l \in 1 .. n : k < l => o[k] + Len(names[k]) < o[l]
  /\ \A p \in 1 .. Len(t) :
       t[p] = "/" \/ \E k \in 1 .. n : o[k] <= p /\ p < o[k] + Len(names[k])

\* Its components are the names.
LEMMA ComponentsOfLaidOut ==
  ASSUME NEW names \in Seq(Texts \ {NoText}), names # << >>, NEW t \in Texts, NEW o,
         LaidOut(names, Len(names), o, t),
         \A k \in 1 .. Len(names) : ~ Holds(names[k], <<"/">>)
  PROVE  Components(t) = names
<1> DEFINE n      == Len(names)
           L(k)   == Len(names[k])
           starts == {i \in DOMAIN t : t[i] # "/" /\ (i = 1 \/ t[i - 1] = "/")}
           Ends(i) == {j \in i .. Len(t) : t[j] = "/"} \cup {Len(t) + 1}
<1>1. /\ n \in Nat /\ n # 0 /\ Len(t) \in Nat /\ DOMAIN t = 1 .. Len(t)
      /\ \A k \in 1 .. n : names[k] \in Texts \ {NoText}
  BY EmptySeq DEF Texts
<1>2. ASSUME NEW k \in 1 .. n
      PROVE  L(k) \in Nat \ {0} /\ \A i \in 1 .. L(k) : names[k][i] # "/"
  <2>1. names[k] \in Texts /\ names[k] # NoText
    BY <1>1
  <2>2. \A i \in Int : i \in Positions(names[k], <<"/">>) <=> i \in 1 .. Len(names[k]) /\ names[k][i] = "/"
    BY <2>1, WordsTyped, OneToken
  <2>3. Positions(names[k], <<"/">>) = {}
    BY DEF Holds
  <2>4. Len(names[k]) \in Nat \ {0}
    BY <2>1, EmptySeq DEF Texts, NoText
  <2>5. \A i \in 1 .. Len(names[k]) : i \in Int
    BY <2>4
  <2> QED BY <2>2, <2>3, <2>4, <2>5
<1>3. /\ o \in [1 .. n -> Nat \ {0}] /\ o[1] = 1
      /\ \A k \in 1 .. n : \A i \in 1 .. L(k) : t[o[k] + i - 1] = names[k][i]
      /\ \A k \in 1 .. n - 1 : o[k] + L(k) + 1 = o[k + 1] /\ t[o[k] + L(k)] = "/"
      /\ o[n] + L(n) = Len(t) + 1
      /\ \A k, l \in 1 .. n : k < l => o[k] + L(k) < o[l]
      /\ \A p \in 1 .. Len(t) : t[p] = "/" \/ \E k \in 1 .. n : o[k] <= p /\ p < o[k] + L(k)
  BY DEF LaidOut
<1> HIDE DEF n, L
<1>4. ASSUME NEW k \in 1 .. n
      PROVE  o[k] \in Nat \ {0} /\ o[k] + L(k) <= Len(t) + 1
  <2>1. o[k] \in Nat \ {0} /\ o[n] \in Nat /\ L(k) \in Nat /\ L(n) \in Nat
    BY <1>1, <1>2, <1>3
  <2>2. k < n => o[k] + L(k) < o[n]
    BY <1>1, <1>3
  <2>3. k < n \/ k = n
    BY <1>1
  <2> QED BY <2>1, <2>2, <2>3, <1>1, <1>3
\* In a name there are no slashes.
<1>5. ASSUME NEW k \in 1 .. n, NEW p \in Nat, o[k] <= p, p < o[k] + L(k)
      PROVE  p \in 1 .. Len(t) /\ t[p] # "/"
  <2>1. o[k] \in Nat \ {0} /\ L(k) \in Nat \ {0} /\ o[k] + L(k) <= Len(t) + 1
    BY <1>2, <1>4
  <2>2. p - o[k] + 1 \in 1 .. L(k) /\ o[k] + (p - o[k] + 1) - 1 = p
    BY <2>1, <1>5
  <2>3. t[p] = names[k][p - o[k] + 1]
    BY <2>2, <1>3
  <2>4. p \in 1 .. Len(t)
    BY <2>1, <1>1, <1>5
  <2>5. t[p] # "/"
    BY <2>2, <2>3, <1>2
  <2> QED BY <2>4, <2>5
\* Before a name, there is nothing or a slash; so it is after it.
<1>6. ASSUME NEW k \in 1 .. n
      PROVE  o[k] = 1 \/ t[o[k] - 1] = "/"
  <2>1. k = 1 \/ k - 1 \in 1 .. n - 1
    BY <1>1
  <2>2. ASSUME k - 1 \in 1 .. n - 1
        PROVE  t[o[k] - 1] = "/"
    <3>1. o[k - 1] + L(k - 1) + 1 = o[k - 1 + 1] /\ t[o[k - 1] + L(k - 1)] = "/"
      BY <2>2, <1>3
    <3>2. n \in Nat /\ k - 1 + 1 = k
      BY <1>1
    <3>3. k - 1 \in 1 .. n
      BY <2>2, <3>2
    <3>4. o[k - 1] \in Nat /\ L(k - 1) \in Nat
      BY <3>3, <1>2, <1>4
    <3>5. o[k] = o[k - 1] + L(k - 1) + 1
      BY <3>1, <3>2
    <3>6. o[k] - 1 = o[k - 1] + L(k - 1)
      BY <3>4, <3>5
    <3> QED BY <3>1, <3>6
  <2> QED BY <2>1, <2>2, <1>3
<1>7. ASSUME NEW k \in 1 .. n
      PROVE  o[k] + L(k) = Len(t) + 1 \/ (o[k] + L(k) \in o[k] .. Len(t) /\ t[o[k] + L(k)] = "/")
  <2>1. k = n \/ k \in 1 .. n - 1
    BY <1>1
  <2>2. o[k] \in Nat /\ L(k) \in Nat /\ o[k] + L(k) <= Len(t) + 1
    BY <1>2, <1>4
  <2>3. CASE k = n
    BY <2>3, <1>3
  <2>4. CASE k \in 1 .. n - 1
    <3>1. o[k] + L(k) + 1 = o[k + 1] /\ t[o[k] + L(k)] = "/"
      BY <2>4, <1>3
    <3>2. k + 1 \in 1 .. n
      BY <2>4, <1>1
    <3>3. o[k + 1] \in Nat /\ o[k + 1] + L(k + 1) <= Len(t) + 1 /\ L(k + 1) \in Nat \ {0}
      BY <3>2, <1>2, <1>4
    <3>4. o[k] + L(k) \in o[k] .. Len(t)
      BY <2>2, <3>1, <3>3, <1>1
    <3> QED BY <3>1, <3>4
  <2> QED BY <2>1, <2>3, <2>4
<1>8. starts = {o[k] : k \in 1 .. n}
  <2>1. ASSUME NEW k \in 1 .. n
        PROVE  o[k] \in starts
    <3>1. o[k] \in Nat /\ o[k] <= o[k] /\ o[k] < o[k] + L(k)
      BY <1>2, <1>4
    <3>2. o[k] \in 1 .. Len(t) /\ t[o[k]] # "/"
      BY <3>1, <1>5
    <3> QED BY <3>2, <1>1, <1>6
  <2>2. ASSUME NEW i \in starts
        PROVE  \E k \in 1 .. n : i = o[k]
    <3>1. i \in 1 .. Len(t) /\ i \in Nat /\ t[i] # "/" /\ (i = 1 \/ t[i - 1] = "/")
      BY <1>1
    <3>2. PICK k \in 1 .. n : o[k] <= i /\ i < o[k] + L(k)
      BY <3>1, <1>3
    <3>3. o[k] \in Nat \ {0} /\ L(k) \in Nat
      BY <1>2, <1>4
    <3>4. i = o[k]
      <4>1. SUFFICES ASSUME i # o[k]
                     PROVE  FALSE
        OBVIOUS
      <4>2. i - 1 \in Nat /\ o[k] <= i - 1 /\ i - 1 < o[k] + L(k) /\ i # 1
        BY <3>1, <3>2, <3>3, <4>1
      <4>3. t[i - 1] # "/"
        BY <4>2, <1>5
      <4> QED BY <4>2, <4>3, <3>1
    <3> QED BY <3>4
  <2> HIDE DEF starts
  <2> QED BY <2>1, <2>2
<1>9. Cardinality(starts) = n /\ \A k \in 1 .. n : Nth(starts, k) = o[k]
  <2>1. o \in [1 .. n -> Nat]
    BY <1>3
  <2>2. \A k, l \in 1 .. n : k < l => o[k] < o[l]
    <3>1. \A k \in 1 .. n : o[k] \in Nat /\ L(k) \in Nat
      BY <1>2, <1>4
    <3>2. SUFFICES ASSUME NEW k \in 1 .. n, NEW l \in 1 .. n, k < l
                   PROVE  o[k] < o[l]
      OBVIOUS
    <3>3. o[k] + L(k) < o[l]
      BY <3>2, <1>3
    <3> QED BY <3>1, <3>3
  <2> HIDE DEF starts
  <2> QED BY <1>1, <1>8, <2>1, <2>2, NthOfAscending
<1>10. ASSUME NEW k \in 1 .. n
       PROVE  Min(Ends(o[k])) = o[k] + L(k)
  <2> DEFINE e == o[k] + L(k)
  <2>1. e \in Ends(o[k])
    BY <1>7
  <2>2. e \in Nat /\ o[k] \in Nat \ {0} /\ e <= Len(t) + 1
    BY <1>2, <1>4
  <2>3. \A j \in Ends(o[k]) : j \in Nat /\ e <= j
    <3>1. SUFFICES ASSUME NEW j \in Ends(o[k])
                   PROVE  j \in Nat /\ e <= j
      OBVIOUS
    <3>2. CASE j = Len(t) + 1
      BY <3>2, <2>2, <1>1
    <3>3. CASE j \in o[k] .. Len(t) /\ t[j] = "/"
      <4>1. j \in Nat /\ o[k] <= j
        BY <3>3, <2>2, <1>1
      <4>2. ~ (j < e)
        BY <4>1, <3>3, <1>5
      <4> QED BY <4>1, <4>2, <2>2
    <3> QED BY <3>1, <3>2, <3>3
  <2> HIDE DEF Ends, e
  <2>4. Min(Ends(o[k])) \in Ends(o[k]) /\ \A y \in Ends(o[k]) : Min(Ends(o[k])) <= y
    <3>1. Ends(o[k]) \subseteq Nat /\ Ends(o[k]) # {}
      BY <2>1, <2>3
    <3> QED BY <3>1, MinIsLeast
  <2>5. Min(Ends(o[k])) \in Nat /\ e <= Min(Ends(o[k])) /\ Min(Ends(o[k])) <= e
    BY <2>1, <2>3, <2>4
  <2>6. Min(Ends(o[k])) = e
    BY <2>2, <2>5
  <2> QED BY <2>6 DEF e
<1>11. ASSUME NEW k \in 1 .. n
       PROVE  SubSeq(t, o[k], o[k] + L(k) - 1) = names[k]
  <2> DEFINE e == o[k] + L(k) - 1
             s == SubSeq(t, o[k], e)
  <2>1. /\ o[k] \in Nat \ {0} /\ L(k) \in Nat \ {0} /\ e \in Nat /\ e <= Len(t)
        /\ o[k] <= e /\ e - o[k] + 1 = L(k)
    BY <1>1, <1>2, <1>4, SMTT(40)
  <2> HIDE DEF e
  <2>2. /\ s \in Texts
        /\ Len(s) = IF o[k] <= e THEN e - o[k] + 1 ELSE 0
        /\ \A i \in 1 .. e - o[k] + 1 : s[i] = t[o[k] + i - 1]
    BY <2>1, PieceTyped
  <2> HIDE DEF s
  <2>3. Len(s) = L(k) /\ \A i \in 1 .. L(k) : s[i] = names[k][i]
    BY <2>1, <2>2, <1>3
  <2>4. s = names[k]
    BY <2>2, <2>3, <1>1, SameText DEF L
  <2> QED BY <2>4 DEF s, e
<1>12. Components(t) = [k \in 1 .. n |-> SubSeq(t, Nth(starts, k), Min(Ends(Nth(starts, k))) - 1)]
  BY <1>9 DEF Components
<1>13. \A k \in 1 .. n : SubSeq(t, Nth(starts, k), Min(Ends(Nth(starts, k))) - 1) = names[k]
  <2> HIDE DEF starts, Ends
  <2>1. ASSUME NEW k \in 1 .. n
        PROVE  SubSeq(t, Nth(starts, k), Min(Ends(Nth(starts, k))) - 1) = names[k]
    <3> DEFINE b == Nth(starts, k)
    <3>1. b = o[k]
      BY <1>9
    <3> HIDE DEF b
    <3>2. Min(Ends(b)) = o[k] + L(k)
      BY <3>1, <1>10
    <3>3. SubSeq(t, o[k], o[k] + L(k) - 1) = names[k]
      BY <1>11
    <3> DEFINE e == Min(Ends(b))
               l == L(k)
    <3>4. e = o[k] + l
      BY <3>2
    <3>5. SubSeq(t, o[k], o[k] + l - 1) = names[k]
      BY <3>3
    <3>6. o[k] \in Nat /\ l \in Nat
      BY <1>2, <1>4
    <3> HIDE DEF e, l
    <3>7. SubSeq(t, b, e - 1) = names[k]
      BY <3>1, <3>4, <3>5, <3>6
    <3> QED BY <3>7 DEF b, e
  <2> QED BY <2>1
<1>14. names = [k \in 1 .. n |-> names[k]]
  BY DEF n
<1> HIDE DEF starts, Ends
<1> QED BY <1>12, <1>13, <1>14

\* A name alone,
LEMMA OneLaidOut ==
  ASSUME NEW names, names[1] \in Texts \ {NoText}
  PROVE  LaidOut(names, 1, [k \in 1 .. 1 |-> 1], names[1])
<1> DEFINE o == [k \in 1 .. 1 |-> 1]
           t == names[1]
<1>1. Len(t) \in Nat /\ \A k : k \in 1 .. 1 <=> k = 1
  BY DEF Texts
<1>2. o \in [1 .. 1 -> Nat \ {0}] /\ o[1] = 1
  BY <1>1
<1> HIDE DEF o, t
<1>3. \A i \in 1 .. Len(t) : 1 + i - 1 = i
  BY <1>1
<1>4. \A k \in 1 .. 1 : \A i \in 1 .. Len(names[k]) : t[o[k] + i - 1] = names[k][i]
  BY <1>1, <1>2, <1>3 DEF t
<1>5. o[1] + Len(t) = Len(t) + 1 /\ 1 .. 1 - 1 = {}
  BY <1>1, <1>2
<1>6. \A p \in 1 .. Len(t) : o[1] <= p /\ p < o[1] + Len(t)
  BY <1>1, <1>2
<1>7. \A k, l \in 1 .. 1 : ~ (k < l)
  BY <1>1
<1> QED BY <1>1, <1>2, <1>4, <1>5, <1>6, <1>7 DEF LaidOut, o, t

\* and one more behind a slash.
LEMMA OneMoreLaidOut ==
  ASSUME NEW n \in Nat \ {0}, NEW names, \A k \in 1 .. n + 1 : names[k] \in Texts \ {NoText},
         NEW t \in Texts, NEW o, LaidOut(names, n, o, t)
  PROVE  LaidOut(names, n + 1, [k \in 1 .. n + 1 |-> IF k = n + 1 THEN Len(t) + 2 ELSE o[k]],
                 t \o <<"/">> \o names[n + 1])
<1> DEFINE m == n + 1
           q == [k \in 1 .. m |-> IF k = m THEN Len(t) + 2 ELSE o[k]]
           x == names[m]
           j == t \o <<"/">> \o x
           L(k) == Len(names[k])
<1>1. /\ m \in Nat /\ n \in 1 .. m /\ n \in 1 .. n /\ m - 1 = n /\ m # n /\ m \in 1 .. m
      /\ \A k : k \in 1 .. m <=> k \in 1 .. n \/ k = m
      /\ \A k \in 1 .. n : k \in 1 .. m /\ k # m /\ k < m /\ k \in Nat
      /\ \A k \in 1 .. n - 1 : k \in 1 .. n /\ k + 1 \in 1 .. n
      /\ \A k : k \in 1 .. n <=> k \in 1 .. n - 1 \/ k = n
  OBVIOUS
<1>2. x \in Texts /\ x # NoText /\ \A k \in 1 .. m : L(k) \in Nat \ {0}
  <2>1. \A k \in 1 .. m : names[k] \in Texts \ {NoText}
    OBVIOUS
  <2>2. \A k \in 1 .. m : Len(names[k]) \in Nat \ {0}
    BY <2>1, EmptySeq DEF Texts, NoText
  <2> QED BY <2>1, <2>2, <1>1
<1>3. /\ j \in Texts /\ Len(t) \in Nat
      /\ Len(j) = Len(t) + 1 + L(m)
      /\ \A i \in 1 .. Len(t) : j[i] = t[i]
      /\ j[Len(t) + 1] = "/"
      /\ \A i \in 1 .. L(m) : j[Len(t) + 1 + i] = x[i]
  <2>1. Around(t, "/", x, j)
    BY <1>2, WordsTyped, AroundToken
  <2> HIDE DEF j
  <2> QED BY <2>1 DEF Around
<1>4. /\ o \in [1 .. n -> Nat \ {0}] /\ o[1] = 1
      /\ \A k \in 1 .. n : \A i \in 1 .. L(k) : t[o[k] + i - 1] = names[k][i]
      /\ \A k \in 1 .. n - 1 : o[k] + L(k) + 1 = o[k + 1] /\ t[o[k] + L(k)] = "/"
      /\ o[n] + L(n) = Len(t) + 1
      /\ \A k, l \in 1 .. n : k < l => o[k] + L(k) < o[l]
      /\ \A p \in 1 .. Len(t) : t[p] = "/" \/ \E k \in 1 .. n : o[k] <= p /\ p < o[k] + L(k)
  BY DEF LaidOut
<1>5. /\ q \in [1 .. m -> Nat \ {0}] /\ q[1] = 1 /\ q[m] = Len(t) + 2
      /\ \A k \in 1 .. n : q[k] = o[k]
  BY <1>1, <1>3, <1>4
<1> HIDE DEF m, q, x, j, L
\* A name ends in the text.
<1>6. ASSUME NEW k \in 1 .. n
      PROVE  o[k] \in Nat \ {0} /\ L(k) \in Nat \ {0} /\ o[k] + L(k) <= Len(t) + 1
  <2>1. o[k] \in Nat \ {0} /\ o[n] \in Nat /\ L(k) \in Nat \ {0} /\ L(n) \in Nat
    BY <1>1, <1>2, <1>4
  <2>2. k < n => o[k] + L(k) < o[n]
    BY <1>1, <1>4
  <2>3. k < n \/ k = n
    OBVIOUS
  <2> QED BY <2>1, <2>2, <2>3, <1>3, <1>4
<1>7. ASSUME NEW k \in 1 .. m, NEW i \in 1 .. L(k)
      PROVE  j[q[k] + i - 1] = names[k][i]
  <2>1. CASE k = m
    <3>1. i \in 1 .. L(m) /\ Len(t) + 2 + i - 1 = Len(t) + 1 + i
      BY <2>1, <1>2, <1>3
    <3> QED BY <2>1, <3>1, <1>3, <1>5 DEF x
  <2>2. CASE k \in 1 .. n
    <3>1. o[k] + i - 1 \in 1 .. Len(t)
      BY <2>2, <1>3, <1>6, SMTT(40)
    <3>2. j[o[k] + i - 1] = t[o[k] + i - 1]
      BY <3>1, <1>3
    <3>3. q[k] = o[k] /\ t[o[k] + i - 1] = names[k][i]
      BY <2>2, <1>4, <1>5
    <3> QED BY <3>2, <3>3
  <2> QED BY <2>1, <2>2, <1>1
<1>8. ASSUME NEW k \in 1 .. n
      PROVE  q[k] + L(k) + 1 = q[k + 1] /\ j[q[k] + L(k)] = "/"
  <2>1. CASE k = n
    <3>1. q[k] + L(k) = Len(t) + 1 /\ k + 1 = m
      BY <2>1, <1>1, <1>4, <1>5 DEF m
    <3> QED BY <3>1, <1>3, <1>5
  <2>2. CASE k \in 1 .. n - 1
    <3>1. o[k] + L(k) + 1 = o[k + 1] /\ t[o[k] + L(k)] = "/" /\ q[k] = o[k] /\ q[k + 1] = o[k + 1]
      BY <2>2, <1>1, <1>4, <1>5
    <3>2. o[k + 1] \in Nat /\ L(k + 1) \in Nat \ {0} /\ o[k + 1] + L(k + 1) <= Len(t) + 1
      BY <2>2, <1>1, <1>6
    <3>3. o[k] + L(k) \in 1 .. Len(t)
      <4>1. o[k] \in Nat \ {0} /\ L(k) \in Nat /\ Len(t) \in Nat
        BY <1>3, <1>6
      <4> QED BY <3>1, <3>2, <4>1, SMTT(40)
    <3> QED BY <3>1, <3>3, <1>3
  <2> QED BY <2>1, <2>2, <1>1
<1>9. q[m] + L(m) = Len(j) + 1
  BY <1>1, <1>2, <1>3, <1>5
<1>10. ASSUME NEW k \in 1 .. m, NEW l \in 1 .. m, k < l
       PROVE  q[k] + L(k) < q[l]
  <2>1. k \in 1 .. n
    BY <1>1, <1>10
  <2>2. CASE l = m
    <3>1. o[k] \in Nat /\ L(k) \in Nat /\ o[k] + L(k) <= Len(t) + 1 /\ Len(t) \in Nat
      BY <2>1, <1>3, <1>6
    <3>2. q[k] = o[k] /\ q[l] = Len(t) + 2
      BY <2>1, <2>2, <1>5
    <3> QED BY <3>1, <3>2
  <2>3. CASE l \in 1 .. n
    <3>1. o[k] + L(k) < o[l]
      BY <2>1, <2>3, <1>4, <1>10
    <3> QED BY <2>1, <2>3, <3>1, <1>5
  <2> QED BY <2>2, <2>3, <1>1
<1>11. ASSUME NEW p \in 1 .. Len(j), j[p] # "/"
       PROVE  \E k \in 1 .. m : q[k] <= p /\ p < q[k] + L(k)
  <2>1. CASE p \in 1 .. Len(t)
    <3>1. PICK k \in 1 .. n : o[k] <= p /\ p < o[k] + L(k)
      BY <2>1, <1>3, <1>4, <1>11
    <3>2. k \in 1 .. m /\ q[k] = o[k]
      BY <3>1, <1>1, <1>5
    <3> QED BY <3>1, <3>2
  <2>2. CASE p > Len(t)
    <3>1. p # Len(t) + 1 /\ L(m) \in Nat /\ p \in Nat
      BY <1>1, <1>2, <1>3, <1>11
    <3>2. q[m] <= p /\ p < q[m] + L(m)
      BY <2>2, <3>1, <1>3, <1>5
    <3> QED BY <3>2, <1>1
  <2>3. p \in 1 .. Len(t) \/ p > Len(t)
    BY <1>3
  <2> QED BY <2>1, <2>2, <2>3
<1>12. LaidOut(names, m, q, j)
  BY <1>1, <1>5, <1>7, <1>8, <1>9, <1>10, <1>11 DEF LaidOut, L
<1> QED BY <1>12 DEF m, q, j, x

\* What is laid out only depends on the names.
LEMMA SameLaidOut ==
  ASSUME NEW n \in Nat \ {0}, NEW names, NEW others, \A k \in 1 .. n : names[k] = others[k],
         NEW o, NEW t, LaidOut(names, n, o, t)
  PROVE  LaidOut(others, n, o, t)
<1>1. n \in 1 .. n /\ \A k \in 1 .. n - 1 : k \in 1 .. n
  OBVIOUS
<1> DEFINE L(k) == Len(names[k])
           R(k) == Len(others[k])
<1>2. \A k \in 1 .. n : L(k) = R(k)
  OBVIOUS
<1>3. /\ o \in [1 .. n -> Nat \ {0}] /\ o[1] = 1
      /\ \A k \in 1 .. n : \A i \in 1 .. L(k) : t[o[k] + i - 1] = names[k][i]
      /\ \A k \in 1 .. n - 1 : o[k] + L(k) + 1 = o[k + 1] /\ t[o[k] + L(k)] = "/"
      /\ o[n] + L(n) = Len(t) + 1
      /\ \A k, l \in 1 .. n : k < l => o[k] + L(k) < o[l]
      /\ \A p \in 1 .. Len(t) : t[p] = "/" \/ \E k \in 1 .. n : o[k] <= p /\ p < o[k] + L(k)
  BY DEF LaidOut
<1> HIDE DEF L
<1>4. \A k \in 1 .. n : \A i \in 1 .. R(k) : t[o[k] + i - 1] = others[k][i]
  <2>1. SUFFICES ASSUME NEW k \in 1 .. n, NEW i \in 1 .. R(k)
                 PROVE  t[o[k] + i - 1] = others[k][i]
    OBVIOUS
  <2>2. L(k) = R(k) /\ names[k] = others[k]
    BY <1>2
  <2> QED BY <2>1, <2>2, <1>3
<1>5. \A k \in 1 .. n - 1 : o[k] + R(k) + 1 = o[k + 1] /\ t[o[k] + R(k)] = "/"
  BY <1>1, <1>2, <1>3
<1>6. o[n] + R(n) = Len(t) + 1
  BY <1>1, <1>2, <1>3
<1>7. \A k, l \in 1 .. n : k < l => o[k] + R(k) < o[l]
  BY <1>2, <1>3
<1>8. \A p \in 1 .. Len(t) : t[p] = "/" \/ \E k \in 1 .. n : o[k] <= p /\ p < o[k] + R(k)
  BY <1>2, <1>3
<1> QED BY <1>3, <1>4, <1>5, <1>6, <1>7, <1>8 DEF LaidOut, R

\* Slashed puts names that are not empty so.
LEMMA SlashedLaidOut ==
  ASSUME NEW names \in Seq(Texts \ {NoText}), names # << >>
  PROVE  \E o : LaidOut(names, Len(names), o, Slashed(names))
<1> DEFINE n == Len(names)
           join == CHOOSE g : Joined(names, n, g)
           Fits(m) == \E o : LaidOut(names, m, o, join[m]) /\ join[m] \in Texts
<1>1. n \in Nat \ {0} /\ \A k \in 1 .. n : names[k] \in Texts \ {NoText}
  BY EmptySeq
<1>2. Slashed(names) = join[n]
  BY DEF Slashed, Joined
<1>3. Joined(names, n, join)
  BY <1>1, JoinedExists
<1> HIDE DEF join, n
<1>4. /\ join[1] = names[1]
      /\ \A m \in 1 .. n - 1 : join[m + 1] = join[m] \o <<"/">> \o names[m + 1]
  <2>1. \A m \in 0 .. n :
          join[m] = IF m = 0 THEN NoText ELSE IF m = 1 THEN names[1]
                    ELSE join[m - 1] \o <<"/">> \o names[m]
    BY <1>3 DEF Joined
  <2>2. 1 \in 0 .. n
    BY <1>1
  <2>3. join[1] = names[1]
    BY <2>1, <2>2
  <2>4. ASSUME NEW m \in 1 .. n - 1
        PROVE  join[m + 1] = join[m] \o <<"/">> \o names[m + 1]
    <3> DEFINE k == m + 1
    <3>1. k \in 0 .. n /\ k # 0 /\ k # 1 /\ k - 1 = m
      BY <1>1
    <3> HIDE DEF k
    <3>2. join[k] = join[k - 1] \o <<"/">> \o names[k]
      BY <2>1, <3>1
    <3>3. join[k] = join[m] \o <<"/">> \o names[k]
      BY <3>1, <3>2
    <3> QED BY <3>3 DEF k
  <2> QED BY <2>3, <2>4
<1>5. Fits(1)
  <2>1. names[1] \in Texts \ {NoText}
    BY <1>1
  <2> QED BY <2>1, <1>4, OneLaidOut
<1>6. ASSUME NEW m \in 1 .. n - 1, Fits(m)
      PROVE  Fits(m + 1)
  <2>1. m \in Nat \ {0} /\ m + 1 \in 1 .. n /\ \A k \in 1 .. m + 1 : names[k] \in Texts \ {NoText}
    BY <1>1
  <2>2. PICK o : LaidOut(names, m, o, join[m]) /\ join[m] \in Texts
    BY <1>6
  <2>3. LaidOut(names, m + 1, [k \in 1 .. m + 1 |-> IF k = m + 1 THEN Len(join[m]) + 2 ELSE o[k]],
                join[m] \o <<"/">> \o names[m + 1])
    BY <2>1, <2>2, OneMoreLaidOut
  <2>4. join[m] \o <<"/">> \o names[m + 1] \in Texts
    <3>1. names[m + 1] \in Texts
      BY <2>1
    <3> QED BY <2>2, <3>1, SeparatorsTyped, JoinTyped
  <2> QED BY <2>3, <2>4, <1>4
<1> DEFINE T == {m \in 1 .. n : ~ Fits(m)}
<1> HIDE DEF Fits
<1>7. T = {}
  <2>1. SUFFICES ASSUME T # {}
                 PROVE  FALSE
    OBVIOUS
  <2>2. PICK m \in T : \A k \in T : m <= k
    <3>1. T \subseteq Nat
      OBVIOUS
    <3> HIDE DEF T
    <3> QED BY <2>1, <3>1, LeastNumber
  <2>3. m \in 1 .. n /\ ~ Fits(m) /\ m # 1
    BY <1>5
  <2>4. m - 1 \in 1 .. n - 1 /\ m - 1 \in 1 .. n /\ m - 1 + 1 = m /\ ~ (m <= m - 1)
    BY <1>1, <2>3
  <2>5. Fits(m - 1)
    <3>1. m - 1 \notin T
      <4> HIDE DEF T
      <4> QED BY <2>2, <2>4
    <3> QED BY <3>1, <2>4
  <2> QED BY <2>3, <2>4, <2>5, <1>6
<1>8. Fits(n)
  BY <1>1, <1>7
<1> QED BY <1>2, <1>8 DEF Fits, n

\* A folder path is the names that it was written with.
THEOREM ComponentsOfPlace ==
  ASSUME NEW names \in Seq(Texts \ {NoText}), names # << >>,
         \A k \in 1 .. Len(names) : ~ Holds(names[k], <<"/">>)
  PROVE  Components(Slashed(names)) = names
<1>1. PICK o : LaidOut(names, Len(names), o, Slashed(names))
  BY SlashedLaidOut
<1>2. Slashed(names) \in Texts
  BY SlashedTyped
<1> QED BY <1>1, <1>2, ComponentsOfLaidOut
----------------------------------------------------------------------------
(* What parseNotationPath makes of notations. *)

\* The parts are n names of folders, the title, the selector and the parameter.
IsApart(parts, f) ==
  LET n == Len(f.place) IN
  /\ parts \in Seq(Texts \ {NoText}) /\ n \in Nat
  /\ Len(parts) = n + 3
  /\ \A k \in 1 .. n : parts[k] = f.place[k]
  /\ parts[n + 1] = f.title
  /\ parts[n + 2] = <<Selector(f)>>
  /\ parts[n + 3] = f.part

\* Nothing in a notation has a slash.
Slashless(f) ==
  /\ \A k \in DOMAIN f.place : ~ Holds(f.place[k], <<"/">>)
  /\ ~ Holds(f.title, <<"/">>) /\ ~ Holds(f.part, <<"/">>)

\* A notation without slashes in its names is taken apart where it was joined.
LEMMA PartsOfNotation ==
  ASSUME NEW f \in Forms, f.kind \in Notations, Slashless(f)
  PROVE  IsApart(NotationParts(Scheme \o Selected(f)), f)
<1> DEFINE n     == Len(f.place)
           sel   == <<Selector(f)>>
           names == Append(f.place, f.title)
           more  == Append(names, sel)
           parts == Append(more, f.part)
           l     == Located(f)
           S     == Texts \ {NoText}
<1>1. /\ f.place \in Seq(S) /\ f.title \in S /\ f.part \in S
  BY FormTyped DEF Notations
<1>2. sel \in S /\ ~ Holds(sel, <<"/">>)
  <2>1. Selector(f) \in {"field", "custom_field", "file"}
    BY DEF Selector, Notations
  <2>2. Selector(f) \in Tokens /\ Selector(f) # "/"
    BY <2>1, SelectedTyped
  <2>3. sel \in Texts /\ sel # NoText /\ Len(sel) = 1 /\ sel[1] = Selector(f)
    BY <2>2 DEF Texts, NoText
  <2> HIDE DEF sel
  <2>4. \A i \in Int : i \in Positions(sel, <<"/">>) <=> i \in 1 .. 1 /\ sel[i] = "/"
    BY <2>3, WordsTyped, OneToken
  <2>5. \A i \in 1 .. 1 : i = 1
    OBVIOUS
  <2>6. Positions(sel, <<"/">>) \subseteq Int
    BY <2>3, SeparatorsTyped, PositionsTyped
  <2> QED BY <2>2, <2>3, <2>4, <2>5, <2>6 DEF Holds
<1>3. /\ names \in Seq(S) /\ Len(names) = n + 1 /\ n \in Nat
      /\ \A k \in 1 .. n : names[k] = f.place[k]
      /\ names[n + 1] = f.title
  BY <1>1, AppendProperties
<1> HIDE DEF sel, names, S
<1>4. /\ more \in Seq(S) /\ Len(more) = n + 2
      /\ \A k \in 1 .. n + 1 : more[k] = names[k]
      /\ more[n + 2] = sel
  <2>1. /\ more \in Seq(S) /\ Len(more) = Len(names) + 1
        /\ \A k \in 1 .. Len(names) : more[k] = names[k]
        /\ more[Len(names) + 1] = sel
    BY <1>2, <1>3, AppendProperties
  <2>2. n + 1 + 1 = n + 2
    BY <1>3
  <2> HIDE DEF more
  <2> QED BY <1>3, <2>1, <2>2
<1> HIDE DEF more
<1>5. /\ parts \in Seq(S) /\ Len(parts) = n + 3
      /\ \A k \in 1 .. n + 2 : parts[k] = more[k]
      /\ parts[n + 3] = f.part
  <2>1. /\ parts \in Seq(S) /\ Len(parts) = Len(more) + 1
        /\ \A k \in 1 .. Len(more) : parts[k] = more[k]
        /\ parts[Len(more) + 1] = f.part
    BY <1>1, <1>4, AppendProperties
  <2>2. n + 2 + 1 = n + 3
    BY <1>3
  <2> HIDE DEF parts
  <2> QED BY <1>4, <2>1, <2>2
<1> HIDE DEF parts
<1>6. /\ \A k \in 1 .. n + 1 : parts[k] = names[k]
      /\ \A k \in 1 .. n : parts[k] = f.place[k]
      /\ parts[n + 1] = f.title /\ parts[n + 2] = sel /\ parts[n + 3] = f.part
  <2>1. n + 1 \in 1 .. n + 1 /\ n + 2 \in 1 .. n + 2
    BY <1>3
  <2>2. \A k \in 1 .. n : k \in 1 .. n + 1
    BY <1>3
  <2>3. \A k \in 1 .. n + 1 : k \in 1 .. n + 2
    BY <1>3
  <2> QED BY <1>3, <1>4, <1>5, <2>1, <2>2, <2>3
<1>7. l \in Texts /\ \E o : LaidOut(names, n + 1, o, l)
  <2>1. names # << >>
    <3>1. Len(<< >>) = 0 /\ n + 1 # 0
      BY <1>3
    <3> QED BY <1>3, <3>1
  <2>2. \E o : LaidOut(names, Len(names), o, Slashed(names))
    BY <1>3, <2>1, SlashedLaidOut DEF S
  <2> QED BY <1>3, <2>2, SelectedTyped DEF Located, names
<1> HIDE DEF l
<1>8. PICK o : LaidOut(parts, n + 1, o, l)
  <2>1. n + 1 \in Nat \ {0} /\ \A k \in 1 .. n + 1 : names[k] = parts[k]
    BY <1>3, <1>6
  <2> QED BY <1>7, <2>1, SameLaidOut
<1> DEFINE ls == l \o <<"/">> \o sel
<1>9. ls \in Texts /\ \E q : LaidOut(parts, n + 2, q, ls)
  <2>1. n + 1 \in Nat \ {0} /\ n + 1 + 1 = n + 2 /\ \A k \in 1 .. n + 2 : k \in 1 .. n + 3
    BY <1>3
  <2>2. \A k \in 1 .. n + 1 + 1 : parts[k] \in S
    BY <2>1, <1>5
  <2>3. \E q : LaidOut(parts, n + 1 + 1, q, l \o <<"/">> \o parts[n + 1 + 1])
    BY <2>1, <2>2, <1>7, <1>8, OneMoreLaidOut DEF S
  <2>4. l \o <<"/">> \o sel \in Texts
    BY <1>2, <1>7, SeparatorsTyped, JoinTyped DEF S
  <2> QED BY <2>1, <2>3, <2>4, <1>6
<1> HIDE DEF ls
<1>10. PICK q : LaidOut(parts, n + 2, q, ls)
  BY <1>9
<1>11. \E r : LaidOut(parts, n + 3, r, ls \o <<"/">> \o f.part)
  <2>1. n + 2 \in Nat \ {0} /\ n + 2 + 1 = n + 3
    BY <1>3
  <2>2. \A k \in 1 .. n + 2 + 1 : parts[k] \in S
    BY <2>1, <1>5
  <2>3. \E r : LaidOut(parts, n + 2 + 1, r, ls \o <<"/">> \o parts[n + 2 + 1])
    BY <2>1, <2>2, <1>9, <1>10, OneMoreLaidOut DEF S
  <2> QED BY <2>1, <2>3, <1>6
<1>12. ls \o <<"/">> \o f.part = Selected(f)
  <2> DEFINE word == <<"/", Selector(f), "/">>
             w    == <<"/">>
             x    == f.part
  <2>1. word = w \o sel \o w
    BY DEF sel
  <2>2. w \in Texts /\ sel \in Texts /\ x \in Texts /\ word \in Texts
    BY <1>1, <1>2, SeparatorsTyped, SelectedTyped, WordsTyped DEF Texts, S
  <2>3. Selected(f) = (l \o word) \o x
    BY DEF Selected, l
  <2> HIDE DEF word, w, x
  <2>4. w \o sel \in Texts /\ l \o w \in Texts /\ ls \in Texts
    BY <2>2, <1>7, <1>9, JoinTyped
  <2>5. l \o word = (l \o (w \o sel)) \o w
    <3>1. l \in Texts
      BY <1>7
    <3>2. (l \o (w \o sel)) \o w = l \o ((w \o sel) \o w)
      BY <2>2, <2>4, <3>1, JoinInAnyOrder, ZenonT(60)
    <3> QED BY <2>1, <3>2
  <2>6. l \o (w \o sel) = (l \o w) \o sel
    BY <2>2, <1>7, JoinInAnyOrder, SMTT(40)
  <2>7. ls = (l \o w) \o sel
    BY DEF ls, w
  <2>8. l \o word = ls \o w
    BY <2>5, <2>6, <2>7
  <2> QED BY <2>3, <2>8 DEF w, x
<1>13. Components(Selected(f)) = parts
  <2>1. parts # << >>
    <3>1. Len(<< >>) = 0 /\ n + 3 # 0
      BY <1>3
    <3> QED BY <1>5, <3>1
  <2>2. \A k \in 1 .. n + 3 : ~ Holds(parts[k], <<"/">>)
    <3>1. DOMAIN f.place = 1 .. n
      BY <1>1
    <3>2. \A k \in 1 .. n + 3 : k \in 1 .. n \/ k = n + 1 \/ k = n + 2 \/ k = n + 3
      BY <1>3
    <3> QED BY <3>1, <3>2, <1>2, <1>6 DEF Slashless
  <2>3. Selected(f) \in Texts
    BY SelectedTyped
  <2>4. PICK r : LaidOut(parts, Len(parts), r, Selected(f))
    BY <1>5, <1>11, <1>12
  <2> QED BY <2>1, <2>2, <2>3, <2>4, <1>5, ComponentsOfLaidOut DEF S
<1>14. NotationParts(Scheme \o Selected(f)) = parts
  <2> DEFINE x == Selected(f)
  <2>1. x \in Texts /\ Scheme \in Texts /\ Len(Scheme) = 4 /\ 4 + 1 = 5
    BY SelectedTyped, SeparatorsTyped
  <2> HIDE DEF x
  <2>2. IsPrefix(Scheme, Scheme \o x) /\ From(Scheme \o x, 5) = x
    <3>1. From(Scheme \o x, Len(Scheme) + 1) = x
      BY <2>1, CutOfJoin
    <3> QED BY <2>1, <3>1, BeginOfJoin
  <2>3. NotationParts(Scheme \o x) = Components(x)
    BY <2>2 DEF NotationParts
  <2> QED BY <2>3, <1>13 DEF x
<1> QED BY <1>3, <1>5, <1>6, <1>14 DEF IsApart, S, sel

\* What is taken from the record: the folder's path, the title, the selector and
\* the parameter, or nothing if there is no folder.
THEOREM NotationPathRead ==
  ASSUME NEW f \in Forms, f.kind \in Notations, Slashless(f),
         \A k \in DOMAIN f.place : f.place[k] \notin Selectors, f.title \notin Selectors
  PROVE  LET np == ParseNotationPath(Scheme \o Selected(f))
         IN  IF f.place = << >> THEN np.folder = << >>
             ELSE /\ np.folder = f.place /\ np.record = f.title
                  /\ np.selector = <<Selector(f)>> /\ np.parameter = f.part
<1> DEFINE n     == Len(f.place)
           parts == NotationParts(Scheme \o Selected(f))
           at    == {i \in DOMAIN parts : parts[i] \in Selectors}
           head  == SubSeq(parts, 1, n)
<1>1. /\ parts \in Seq(Texts \ {NoText}) /\ n \in Nat
      /\ Len(parts) = n + 3
      /\ \A k \in 1 .. n : parts[k] = f.place[k]
      /\ parts[n + 1] = f.title
      /\ parts[n + 2] = <<Selector(f)>>
      /\ parts[n + 3] = f.part
  BY PartsOfNotation DEF IsApart
<1>2. f.place \in Seq(Texts \ {NoText}) /\ DOMAIN f.place = 1 .. n /\ (f.place = << >> <=> n = 0)
  <2>1. f.place \in Seq(Texts \ {NoText})
    BY FormTyped
  <2> QED BY <2>1, EmptySeq
<1>3. <<Selector(f)>> \in Selectors
  <2>1. Selector(f) \in {"field", "custom_field", "file"}
    BY DEF Selector, Notations
  <2> QED BY <2>1 DEF Selectors
<1> HIDE DEF parts, n
<1>4. DOMAIN parts = 1 .. n + 3
  BY <1>1
<1>5. at # {} /\ Min(at) = n + 2
  <2>1. n + 2 \in at
    BY <1>1, <1>3, <1>4
  <2>2. \A i \in at : i \in Nat /\ n + 2 <= i
    <3>1. \A i \in 1 .. n + 3 : i \in Nat /\ (i \in 1 .. n \/ i = n + 1 \/ n + 2 <= i)
      BY <1>1
    <3> QED BY <3>1, <1>1, <1>2, <1>4
  <2> HIDE DEF at
  <2>3. Min(at) \in at /\ \A y \in at : Min(at) <= y
    <3>1. at \subseteq Nat /\ at # {}
      BY <2>1, <2>2
    <3> QED BY <3>1, MinIsLeast
  <2> QED BY <2>1, <2>2, <2>3, <1>1
<1> HIDE DEF at
<1>6. n + 2 - 1 = n + 1 /\ n + 1 - 1 = n /\ n + 1 + 1 = n + 2 /\ n + 1 + 2 = n + 3
  BY <1>1
<1>7. n + 2 <= Len(parts) /\ n + 3 <= Len(parts) /\ (n + 1 < 2 <=> n = 0)
  BY <1>1
<1>8. n # 0 => ParseNotationPath(Scheme \o Selected(f)) =
                 [folder |-> SubSeq(parts, 1, n), record |-> parts[n + 1],
                  selector |-> parts[n + 2], parameter |-> parts[n + 3]]
  <2>1. n # 0 => ~ (n + 1 < 2)
    BY <1>7
  <2>2. Min(at) - 1 = n + 1 /\ n + 1 - 1 = n
    BY <1>1, <1>5
  <2>3. n + 1 + 1 = n + 2 /\ n + 1 + 2 = n + 3 /\ n + 2 <= Len(parts) /\ n + 3 <= Len(parts)
    BY <1>6, <1>7
  <2> DEFINE notation == Scheme \o Selected(f)
             Part(i) == IF i <= Len(parts) THEN parts[i] ELSE NoText
             last == IF at = {} THEN Len(parts) ELSE Min(at) - 1
  <2>4. ParseNotationPath(notation) =
          IF last < 2 THEN [folder |-> << >>, record |-> NoText]
          ELSE [folder |-> SubSeq(parts, 1, last - 1), record |-> parts[last],
                selector |-> Part(last + 1), parameter |-> Part(last + 2)]
    BY Zenon DEF ParseNotationPath, at, parts
  <2>5. Part(n + 1 + 1) = parts[n + 2] /\ Part(n + 1 + 2) = parts[n + 3]
    BY <2>3
  <2>6. last = n + 1
    BY <1>5, <2>2
  <2> HIDE DEF Part, notation, last
  <2>7. SubSeq(parts, 1, last - 1) = SubSeq(parts, 1, n) /\ (n # 0 => ~ (last < 2))
    <3>1. last - 1 = n
      BY <1>1, <2>6
    <3>2. n # 0 => ~ (last < 2)
      BY <2>1, <2>6
    <3> QED BY <3>1, <3>2
  <2>8. Part(last + 1) = parts[n + 2] /\ Part(last + 2) = parts[n + 3] /\ parts[last] = parts[n + 1]
    BY <2>5, <2>6
  <2> QED BY <2>4, <2>7, <2>8 DEF notation
<1>9. n = 0 => ParseNotationPath(Scheme \o Selected(f)) = [folder |-> << >>, record |-> NoText]
  BY <1>5, <1>6, <1>7 DEF ParseNotationPath, at, parts
<1>10. head = f.place
  <2>1. \A k \in 1 .. n : parts[k] \in Texts \ {NoText}
    BY <1>1
  <2>2. /\ head \in Seq(Texts \ {NoText})
        /\ Len(head) = IF 1 <= n THEN n - 1 + 1 ELSE 0
        /\ \A k \in 1 .. n - 1 + 1 : head[k] = parts[1 + k - 1]
    BY <1>1, <2>1, SubSeqProperties
  <2>3. n - 1 + 1 = n /\ \A k \in 1 .. n : 1 + k - 1 = k
    BY <1>1
  <2> HIDE DEF head
  <2>4. Len(head) = Len(f.place) /\ \A k \in 1 .. Len(head) : head[k] = f.place[k]
    BY <2>2, <2>3, <1>1 DEF n
  <2> QED BY <2>2, <2>4, <1>2, SeqEqual
<1> QED BY <1>1, <1>2, <1>8, <1>9, <1>10
----------------------------------------------------------------------------
(* What ResolvePath returns. *)

\* What a lookup finds is at one of the positions, and it finds something if
\* there is one.
LEMMA FirstFound ==
  ASSUME NEW S, NEW list \in Seq(S), NEW at \in SUBSET DOMAIN list
  PROVE  /\ FirstOf(list, at) = << >> <=> at = {}
         /\ at # {} => \E i \in at : FirstOf(list, at) = <<list[i]>>
<1>1. DOMAIN list \subseteq Nat
  OBVIOUS
<1>2. at # {} => Min(at) \in at
  BY <1>1, MinIsLeast
<1>3. <<list[Min(at)]>> # << >>
  OBVIOUS
<1> QED BY <1>2, <1>3 DEF FirstOf

\* The same of the last one.
LEMMA LastFound ==
  ASSUME NEW S, NEW list \in Seq(S), NEW at \in SUBSET DOMAIN list
  PROVE  /\ LastOf(list, at) = << >> <=> at = {}
         /\ at # {} => \E i \in at : LastOf(list, at) = <<list[i]>>
<1>1. at \subseteq 0 .. Len(list) /\ Len(list) \in Nat
  OBVIOUS
<1>2. at # {} => Max(at) \in at
  BY <1>1, MaxIsGreatest
<1>3. <<list[Max(at)]>> # << >>
  OBVIOUS
<1> QED BY <1>2, <1>3 DEF LastOf

\* Where the folders are that may follow what was reached at the level before.
Following(folders, names, n, before) ==
  {i \in DOMAIN folders :
     /\ folders[i].name = names[n]
     /\ IF n = 1 THEN IsRoot(folders, folders[i])
        ELSE before # << >> /\ folders[i].parent = before[1].uid}

Descent(folders, names, n, g) ==
  g = [m \in 0 .. n |-> IF m = 0 THEN << >>
                        ELSE FirstOf(folders, Following(folders, names, m, g[m - 1]))]

\* There is such a descent for each number of names.
LEMMA DescentExists ==
  ASSUME NEW folders, NEW names, NEW n \in Nat
  PROVE  \E g : Descent(folders, names, n, g)
<1> DEFINE T == {l \in Nat : ~ \E g : Descent(folders, names, l, g)}
           Level(m, g1) == IF m = 0 THEN << >>
                           ELSE FirstOf(folders, Following(folders, names, m, g1[m - 1]))
<1>1. SUFFICES ASSUME T # {}
               PROVE  FALSE
  OBVIOUS
<1>2. PICK l \in T : \A k \in T : l <= k
  <2>1. T \subseteq Nat
    OBVIOUS
  <2> HIDE DEF T
  <2> QED BY <1>1, <2>1, LeastNumber
<1>3. CASE l = 0
  <2> DEFINE g == [m \in 0 .. 0 |-> << >>]
  <2>1. \A m \in 0 .. 0 : m = 0
    OBVIOUS
  <2>2. Descent(folders, names, 0, g)
    BY <2>1 DEF Descent
  <2> QED BY <2>2, <1>3
<1>4. CASE l # 0
  <2>1. l \in Nat /\ l - 1 \in Nat /\ l - 1 < l
    BY <1>4
  <2>2. l - 1 \notin T
    <3> HIDE DEF T
    <3> QED BY <2>1, <1>2
  <2>3. PICK g : Descent(folders, names, l - 1, g)
    BY <2>1, <2>2
  <2> DEFINE h == [m \in 0 .. l |-> IF m = l THEN Level(m, g) ELSE g[m]]
  <2>4. \A m \in 0 .. l - 1 : g[m] = Level(m, g)
    BY <2>3 DEF Descent
  <2>5. \A m \in 0 .. l : m # 0 => h[m - 1] = g[m - 1]
    BY <2>1
  <2>6. \A m \in 0 .. l : h[m] = Level(m, h)
    BY <2>1, <2>4, <2>5
  <2>7. h = [m \in 0 .. l |-> h[m]]
    OBVIOUS
  <2> HIDE DEF h
  <2>8. h = [m \in 0 .. l |-> Level(m, h)]
    BY <2>6, <2>7
  <2>9. Descent(folders, names, l, h)
    BY <2>8 DEF Descent
  <2> QED BY <2>9
<1> QED BY <1>3, <1>4

\* Folders that lead along the first n names, from a root.
Leads(folders, names, n, c) ==
  /\ c \in [1 .. n -> ToSet(folders)]
  /\ \A g \in ToSet(folders) : g.uid # c[1].parent
  /\ \A i \in 1 .. n : c[i].name = names[i]
  /\ \A i \in 2 .. n : c[i].parent = c[i - 1].uid

\* What is reached with n names is the end of a way along them, and where there
\* is a way on from there it does not stop.
GoesDown(folders, names, g) ==
  /\ \A n \in 1 .. Len(names) : g[n] # << >> =>
       \E c : Leads(folders, names, n, c) /\ g[n] = <<c[n]>>
  /\ \A n \in 1 .. Len(names), f \in ToSet(folders) :
       /\ f.name = names[n]
       /\ n = 1 => \A h \in ToSet(folders) : h.uid # f.parent
       /\ n # 1 => g[n - 1] # << >> /\ f.parent = g[n - 1][1].uid
       => g[n] # << >>

\* That is how ResolvePath goes down.
LEMMA PathResolved ==
  ASSUME NEW S, NEW folders \in Seq(S), NEW names, Len(names) \in Nat \ {0}
  PROVE  \E g : ResolvePath(folders, names) = g[Len(names)] /\ GoesDown(folders, names, g)
<1> DEFINE last == Len(names)
           g == CHOOSE r : Descent(folders, names, last, r)
           At(n) == Following(folders, names, n, g[n - 1])
<1>1. last \in Nat \ {0} /\ 1 \in 1 .. last
  OBVIOUS
<1>2. ResolvePath(folders, names) = g[last]
  BY DEF ResolvePath, Descent, Following
<1>3. Descent(folders, names, last, g)
  BY <1>1, DescentExists
<1> HIDE DEF g, last
<1>4. \A n \in 1 .. last : g[n] = FirstOf(folders, At(n))
  <2>1. \A n \in 0 .. last : g[n] = IF n = 0 THEN << >> ELSE FirstOf(folders, At(n))
    BY <1>3 DEF Descent
  <2>2. \A n \in 1 .. last : n \in 0 .. last /\ n # 0
    BY <1>1
  <2> QED BY <2>1, <2>2
<1>5. ASSUME NEW n \in 1 .. last
      PROVE  At(n) \in SUBSET DOMAIN folders
  BY DEF Following
<1>6. ASSUME NEW n \in 1 .. last
      PROVE  /\ g[n] = << >> <=> At(n) = {}
             /\ g[n] # << >> => \E i \in At(n) : g[n] = <<folders[i]>>
  <2> HIDE DEF At
  <2> QED BY <1>4, <1>5, FirstFound
<1>7. \A i \in DOMAIN folders : folders[i] \in ToSet(folders)
  BY DEF ToSet
<1> DEFINE Good(n) == g[n] # << >> => \E c : Leads(folders, names, n, c) /\ g[n] = <<c[n]>>
           T == {n \in 1 .. last : ~ Good(n)}
<1>8. T = {}
  <2>1. SUFFICES ASSUME T # {}
                 PROVE  FALSE
    OBVIOUS
  <2>2. PICK n \in T : \A k \in T : n <= k
    <3>1. T \subseteq Nat
      OBVIOUS
    <3> HIDE DEF T
    <3> QED BY <2>1, <3>1, LeastNumber
  <2>3. n \in 1 .. last /\ ~ Good(n) /\ g[n] # << >>
    OBVIOUS
  <2>4. PICK i \in At(n) : g[n] = <<folders[i]>>
    <3> HIDE DEF At
    <3> QED BY <2>3, <1>6
  <2> DEFINE f == folders[i]
  <2>5. f \in ToSet(folders) /\ f.name = names[n]
    BY <1>7 DEF Following
  <2> HIDE DEF f
  <2>6. CASE n = 1
    <3> DEFINE c == [k \in 1 .. 1 |-> f]
    <3>1. \A h \in ToSet(folders) : h.uid # f.parent
      BY <2>6 DEF Following, IsRoot, ToSet, f
    <3>2. c[1] = f /\ c \in [1 .. 1 -> ToSet(folders)] /\ 2 .. 1 = {} /\ \A k \in 1 .. 1 : k = 1
      BY <2>5
    <3> HIDE DEF c
    <3>3. Leads(folders, names, 1, c)
      BY <2>5, <2>6, <3>1, <3>2 DEF Leads
    <3>4. g[n] = <<c[n]>>
      BY <2>4, <2>6, <3>2 DEF f
    <3> QED BY <2>3, <2>6, <3>3, <3>4
  <2>7. CASE n # 1
    <3>1. g[n - 1] # << >> /\ f.parent = g[n - 1][1].uid
      BY <2>7 DEF Following, f
    <3>2. n - 1 \in 1 .. last /\ ~ (n <= n - 1) /\ n \in Nat
      BY <1>1, <2>3, <2>7
    <3>3. n - 1 \notin T
      <4> HIDE DEF T
      <4> QED BY <2>2, <3>2
    <3>4. PICK d : Leads(folders, names, n - 1, d) /\ g[n - 1] = <<d[n - 1]>>
      <4>1. Good(n - 1)
        BY <3>2, <3>3
      <4> QED BY <3>1, <4>1
    <3> DEFINE c == [k \in 1 .. n |-> IF k = n THEN f ELSE d[k]]
    <3>5. /\ d \in [1 .. n - 1 -> ToSet(folders)]
          /\ \A h \in ToSet(folders) : h.uid # d[1].parent
          /\ \A k \in 1 .. n - 1 : d[k].name = names[k]
          /\ \A k \in 2 .. n - 1 : d[k].parent = d[k - 1].uid
      BY <3>4 DEF Leads
    <3>6. /\ \A k \in 1 .. n : k \in 1 .. n - 1 \/ k = n
          /\ \A k \in 1 .. n - 1 : k \in 1 .. n /\ k # n
          /\ \A k \in 2 .. n : k - 1 \in 1 .. n - 1
          /\ \A k \in 2 .. n : k \in 2 .. n - 1 \/ k = n
          /\ \A k \in 2 .. n - 1 : k \in 1 .. n - 1
          /\ n \in 1 .. n /\ 1 \in 1 .. n - 1
      BY <1>1, <2>3, <2>7
    <3>7. /\ c \in [1 .. n -> ToSet(folders)] /\ c[n] = f
          /\ \A k \in 1 .. n - 1 : c[k] = d[k]
      BY <2>5, <3>5, <3>6
    <3> HIDE DEF c
    <3>8. \A h \in ToSet(folders) : h.uid # c[1].parent
      BY <3>5, <3>6, <3>7
    <3>9. \A k \in 1 .. n : c[k].name = names[k]
      BY <2>5, <3>5, <3>6, <3>7
    <3>10. f.parent = d[n - 1].uid
      BY <3>1, <3>4
    <3>11. \A k \in 2 .. n : c[k].parent = c[k - 1].uid
      BY <3>5, <3>6, <3>7, <3>10
    <3>12. Leads(folders, names, n, c)
      BY <3>7, <3>8, <3>9, <3>11 DEF Leads
    <3>13. g[n] = <<c[n]>>
      BY <2>4, <3>7 DEF f
    <3> QED BY <2>3, <3>12, <3>13
  <2> QED BY <2>6, <2>7
<1>9. \A n \in 1 .. last : Good(n)
  BY <1>8
<1>10. ASSUME NEW n \in 1 .. last, NEW f \in ToSet(folders),
              f.name = names[n],
              n = 1 => \A h \in ToSet(folders) : h.uid # f.parent,
              n # 1 => g[n - 1] # << >> /\ f.parent = g[n - 1][1].uid
       PROVE  g[n] # << >>
  <2>1. PICK i \in DOMAIN folders : f = folders[i]
    BY DEF ToSet
  <2>2. n = 1 => IsRoot(folders, f)
    BY <1>7, <1>10 DEF IsRoot
  <2>3. i \in At(n)
    BY <2>1, <2>2, <1>10 DEF Following
  <2> HIDE DEF At
  <2> QED BY <2>3, <1>6
<1>11. GoesDown(folders, names, g)
  BY <1>9, <1>10 DEF GoesDown, last
<1> QED BY <1>2, <1>11 DEF last
----------------------------------------------------------------------------
(* What is taken from a record. *)

FieldsOf(record) == ToSet(record.fields \o record.custom)

\* Both sections are in the list of all fields, and nothing else.
LEMMA SectionsJoined ==
  ASSUME NEW record \in RecordType
  PROVE  LET all == record.fields \o record.custom
         IN  /\ all \in Seq(FieldType) /\ DOMAIN all = 1 .. Len(all) /\ Len(all) \in Nat
             /\ \A i \in DOMAIN all : all[i] \in FieldsOf(record)
             /\ \A g \in FieldsOf(record) : \E i \in DOMAIN all : g = all[i]
             /\ \A i \in DOMAIN record.fields : record.fields[i] \in FieldsOf(record)
             /\ \A i \in DOMAIN record.custom : record.custom[i] \in FieldsOf(record)
<1> DEFINE a   == record.fields
           b   == record.custom
           all == a \o b
<1>1. a \in Seq(FieldType) /\ b \in Seq(FieldType)
  BY DEF RecordType
<1>2. FieldsOf(record) = {all[i] : i \in DOMAIN all}
  BY DEF FieldsOf, ToSet
<1> HIDE DEF a, b
<1>3. /\ all \in Seq(FieldType) /\ Len(all) = Len(a) + Len(b)
      /\ \A i \in 1 .. Len(a) + Len(b) : all[i] = IF i <= Len(a) THEN a[i] ELSE b[i - Len(a)]
  BY <1>1, ConcatProperties
<1>4. /\ Len(a) \in Nat /\ Len(b) \in Nat
      /\ DOMAIN a = 1 .. Len(a) /\ DOMAIN b = 1 .. Len(b)
  BY <1>1
<1> HIDE DEF all
<1>5. DOMAIN all = 1 .. Len(all) /\ Len(all) \in Nat
  BY <1>3
<1>6. ASSUME NEW i \in DOMAIN a
      PROVE  a[i] \in FieldsOf(record)
  <2>1. i \in DOMAIN all /\ all[i] = a[i]
    BY <1>3, <1>4, <1>5
  <2> QED BY <2>1, <1>2
<1>7. ASSUME NEW i \in DOMAIN b
      PROVE  b[i] \in FieldsOf(record)
  <2> DEFINE k == Len(a) + i
  <2>1. k \in 1 .. Len(a) + Len(b) /\ ~ (k <= Len(a)) /\ k - Len(a) = i
    BY <1>4
  <2> HIDE DEF k
  <2>2. k \in DOMAIN all /\ all[k] = b[i]
    BY <2>1, <1>3, <1>5
  <2> QED BY <2>2, <1>2
<1> QED BY <1>2, <1>3, <1>5, <1>6, <1>7 DEF all, a, b

\* The value of a field of a type comes from one that has the type.
LEMMA FieldByTypeFound ==
  ASSUME NEW record \in RecordType, NEW type
  PROVE  FieldByType(record, type) # NoText =>
           \E g \in FieldsOf(record) : g.type = type /\ g.value = FieldByType(record, type)
<1> DEFINE at == {i \in DOMAIN record.fields : record.fields[i].type = type}
<1>1. record.fields \in Seq(FieldType)
  BY DEF RecordType
<1>2. at \subseteq Nat
  BY <1>1
<1>3. at # {} => Min(at) \in at
  <2> HIDE DEF at
  <2> QED BY <1>2, MinIsLeast
<1>4. FieldByType(record, type) = IF at = {} THEN NoText ELSE record.fields[Min(at)].value
  BY DEF FieldByType
<1>5. SUFFICES ASSUME at # {}
               PROVE  \E g \in FieldsOf(record) :
                        g.type = type /\ g.value = record.fields[Min(at)].value
  <2> HIDE DEF at
  <2> QED BY <1>4
<1>6. Min(at) \in DOMAIN record.fields /\ record.fields[Min(at)].type = type
  BY <1>3, <1>5
<1> HIDE DEF at
<1> QED BY <1>6, SectionsJoined

\* A pair of key and value that a record may have.
IsPairOf(pair, record) ==
  \E g \in FieldsOf(record) :
    /\ pair = <<pair[1], g.value>> /\ g.value # NoText /\ pair[1] # NoText
    /\ pair[1] = Key(g) \/ (pair[1] = <<"notes">> /\ g.type = <<"note">>)

\* recordToSecretData takes pairs of the record, and each key that has a value.
THEOREM SecretFieldsTaken ==
  ASSUME NEW record \in RecordType
  PROVE  /\ \A pair \in SecretFields(record) : IsPairOf(pair, record)
         /\ \A g \in FieldsOf(record) :
              g.value # NoText /\ Key(g) # NoText =>
                \E pair \in SecretFields(record) : pair[1] = Key(g)
<1> DEFINE all    == record.fields \o record.custom
           named  == {i \in DOMAIN all : all[i].value # NoText /\ Key(all[i]) # NoText}
           latest == {i \in named : \A j \in named : j > i => Key(all[j]) # Key(all[i])}
           data   == {<<Key(all[i]), all[i].value>> : i \in latest}
           note   == FieldByType(record, <<"note">>)
           notes  == <<<<"notes">>, note>>
<1>1. /\ DOMAIN all = 1 .. Len(all) /\ Len(all) \in Nat
      /\ \A i \in DOMAIN all : all[i] \in FieldsOf(record)
      /\ \A g \in FieldsOf(record) : \E i \in DOMAIN all : g = all[i]
  BY SectionsJoined
<1>2. SecretFields(record) =
        IF note = NoText THEN data ELSE {pair \in data : pair[1] # <<"notes">>} \cup {notes}
  BY DEF SecretFields
<1>3. ASSUME NEW pair \in data
      PROVE  IsPairOf(pair, record)
  <2>1. PICK i \in latest : pair = <<Key(all[i]), all[i].value>>
    OBVIOUS
  <2>2. i \in DOMAIN all /\ all[i].value # NoText /\ Key(all[i]) # NoText
    OBVIOUS
  <2>3. all[i] \in FieldsOf(record)
    BY <2>2, <1>1
  <2> DEFINE g == all[i]
  <2>4. pair = <<Key(g), g.value>> /\ g.value # NoText /\ Key(g) # NoText /\ g \in FieldsOf(record)
    BY <2>1, <2>2, <2>3
  <2> HIDE DEF g
  <2>5. pair[1] = Key(g)
    BY <2>4
  <2> QED BY <2>4, <2>5 DEF IsPairOf
<1>4. ASSUME note # NoText
      PROVE  IsPairOf(notes, record)
  <2>1. PICK g \in FieldsOf(record) : g.type = <<"note">> /\ g.value = note
    BY <1>4, FieldByTypeFound
  <2>2. notes[1] = <<"notes">> /\ <<"notes">> # NoText
    BY DEF NoText
  <2>3. notes = <<notes[1], g.value>>
    BY <2>1, <2>2
  <2> HIDE DEF notes, note
  <2> QED BY <2>1, <2>2, <2>3, <1>4 DEF IsPairOf
<1>5. ASSUME NEW pair \in SecretFields(record)
      PROVE  IsPairOf(pair, record)
  <2> HIDE DEF data, note, notes
  <2>1. pair \in data \/ (note # NoText /\ pair = notes)
    BY <1>2
  <2> QED BY <2>1, <1>3, <1>4
<1>6. ASSUME NEW g \in FieldsOf(record), g.value # NoText, Key(g) # NoText
      PROVE  \E pair \in SecretFields(record) : pair[1] = Key(g)
  <2> DEFINE same == {i \in named : Key(all[i]) = Key(g)}
             top  == Max(same)
  <2>1. same # {} /\ same \subseteq 0 .. Len(all)
    <3>1. PICK i \in DOMAIN all : g = all[i]
      BY <1>1
    <3>2. i \in same
      BY <3>1, <1>6
    <3>3. \A j \in same : j \in DOMAIN all
      OBVIOUS
    <3> HIDE DEF same, all
    <3>4. \A j \in 1 .. Len(all) : j \in 0 .. Len(all)
      BY <1>1
    <3> QED BY <3>2, <3>3, <3>4, <1>1
  <2>2. top \in same /\ \A i \in same : top >= i
    <3> HIDE DEF same
    <3> QED BY <2>1, <1>1, MaxIsGreatest
  <2>3. top \in named /\ Key(all[top]) = Key(g)
    <3> HIDE DEF top
    <3> QED BY <2>2, ZenonT(60)
  <2>4. \A j \in named : j > top => Key(all[j]) # Key(all[top])
    <3>1. SUFFICES ASSUME NEW j \in named, Key(all[j]) = Key(all[top])
                   PROVE  ~ (j > top)
      OBVIOUS
    <3>2. j \in same
      BY <3>1, <2>3
    <3>3. top >= j /\ top \in Nat /\ j \in Nat
      <4> HIDE DEF top
      <4>1. same \subseteq Nat
        <5> HIDE DEF same, all
        <5> QED BY <2>1, <1>1
      <4> QED BY <3>2, <2>2, <4>1
    <3> HIDE DEF top
    <3> QED BY <3>3
  <2> HIDE DEF top
  <2>5. top \in latest
    BY <2>3, <2>4
  <2> DEFINE pair == <<Key(all[top]), all[top].value>>
  <2>6. pair \in data /\ pair[1] = Key(g)
    BY <2>3, <2>5
  <2> HIDE DEF pair
  <2>7. notes[1] = <<"notes">>
    OBVIOUS
  <2> HIDE DEF data, notes, note
  <2> QED BY <1>2, <2>6, <2>7
<1> QED BY <1>5, <1>6

\* A value under a key is the one of a pair, and it is there if a pair is.
LEMMA ValueTaken ==
  ASSUME NEW record \in RecordType, NEW key
  PROVE  /\ ValueUnder(record, key).ok =>
              \E pair \in SecretFields(record) :
                pair[1] = key /\ ValueUnder(record, key) = Raw(pair[2])
         /\ (\E pair \in SecretFields(record) : pair[1] = key) => ValueUnder(record, key).ok
<1> DEFINE found == WithKeys(SecretFields(record), {key})
           pair  == CHOOSE p \in found : TRUE
<1>1. found = {p \in SecretFields(record) : p[1] = key}
  BY DEF WithKeys
<1>2. ValueUnder(record, key) = IF found = {} THEN Failed ELSE Raw(pair[2])
  BY DEF ValueUnder
<1>3. ~ Failed.ok /\ \A v : Raw(v).ok
  BY DEF Failed, Raw, Answer
<1>4. found # {} => pair \in found
  OBVIOUS
<1> HIDE DEF found, pair
<1> QED BY <1>1, <1>2, <1>3, <1>4

\* So is the content of an attachment with the name or title.
LEMMA FileTaken ==
  ASSUME NEW record \in RecordType, NEW fileName
  PROVE  /\ FileContent(record, fileName).ok =>
              \E a \in ToSet(record.files) :
                fileName \in {a.name, a.title} /\ FileContent(record, fileName) = Raw(a.data)
         /\ (\E a \in ToSet(record.files) : fileName \in {a.name, a.title}) =>
              FileContent(record, fileName).ok
<1> DEFINE files == record.files
           at    == {i \in DOMAIN files : fileName \in {files[i].name, files[i].title}}
<1>1. files \in Seq(AttachmentType)
  BY DEF RecordType
<1>2. at \subseteq Nat
  BY <1>1
<1>3. at # {} => Min(at) \in at
  <2> HIDE DEF at
  <2> QED BY <1>2, MinIsLeast
<1>4. FileContent(record, fileName) = IF at = {} THEN Failed ELSE Raw(files[Min(at)].data)
  BY DEF FileContent
<1>5. ~ Failed.ok /\ \A v : Raw(v).ok
  BY DEF Failed, Raw, Answer
<1>6. \A i \in at : files[i] \in ToSet(files) /\ fileName \in {files[i].name, files[i].title}
  BY DEF ToSet
<1>7. (\E a \in ToSet(files) : fileName \in {a.name, a.title}) => at # {}
  BY DEF ToSet
<1> HIDE DEF at
<1> QED BY <1>3, <1>4, <1>5, <1>6, <1>7

\* A section's value is the one of a field with the name, and it is there if
\* all of the fields with the name have one.
LEMMA SectionTaken ==
  ASSUME NEW section \in Seq(FieldType), NEW name
  PROVE  LET same == {g \in ToSet(section) : name \in {g.type, g.label}}
         IN  /\ InSection(section, name).ok =>
                  \E g \in same : g.value # NoText /\ InSection(section, name) = Raw(g.value)
             /\ same # {} /\ (\A g \in same : g.value # NoText) => InSection(section, name).ok
<1> DEFINE at   == {i \in DOMAIN section : name \in {section[i].type, section[i].label}}
           same == {g \in ToSet(section) : name \in {g.type, g.label}}
           g    == section[Min(at)]
<1>1. at \subseteq Nat
  OBVIOUS
<1>2. at # {} => Min(at) \in at
  <2> HIDE DEF at
  <2> QED BY <1>1, MinIsLeast
<1>3. at # {} => g \in same
  BY <1>2 DEF ToSet
<1>4. same # {} => at # {}
  BY DEF ToSet
<1>5. InSection(section, name) = IF at = {} \/ g.value = NoText THEN Failed ELSE Raw(g.value)
  BY DEF InSection
<1>6. ~ Failed.ok /\ \A v : Raw(v).ok
  BY DEF Failed, Raw, Answer
<1> HIDE DEF at, same, g
<1>7. /\ InSection(section, name).ok =>
           \E h \in same : h.value # NoText /\ InSection(section, name) = Raw(h.value)
      /\ same # {} /\ (\A h \in same : h.value # NoText) => InSection(section, name).ok
  BY <1>3, <1>4, <1>5, <1>6
<1> QED BY <1>7 DEF same

===========================================================================
