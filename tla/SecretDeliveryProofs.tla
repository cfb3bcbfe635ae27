------------------------ MODULE SecretDeliveryProofs ------------------------
(***************************************************************************)
(* Whatever the annotations say, a form that is not deceptive is read as   *)
(* it was meant; and whatever is in the vault, what is delivered is what   *)
(* was meant, and what is there is found.                                  *)
(***************************************************************************)
EXTENDS SecretDelivery, KeeperClientProofs

(* What the parsers make of each form of text. *)

\* A record and a path: the last colon is the one between them.
LEMMA RecordAndPathRead ==
  ASSUME NEW key \in Texts, NEW title \in Texts, NEW path \in Texts,
         title # NoText, ~ IsPrefix(<<"/">>, title),
         IsPrefix(<<"/">>, path), ~ Holds(path, <<":">>)
  PROVE  LET t == title \o <<":">> \o path
         IN  /\ ~ IsPrefix(<<"/">>, t)
             /\ RecordAndPath(key, t) = [SecretRef(title) EXCEPT !.path = path]
<1> DEFINE t == title \o <<":">> \o path
           n == Len(title)
           m == Len(path)
<1>1. /\ t \in Texts
      /\ n \in Nat /\ m \in Nat
      /\ Len(t) = n + 1 + m
      /\ \A i \in 1 .. n : t[i] = title[i]
      /\ t[n + 1] = ":"
      /\ \A i \in n + 2 .. n + 1 + m : t[i] = path[i - (n + 1)]
      /\ Before(t, n + 1) = title
      /\ From(t, n + 2) = path
  <2>1. Around(title, ":", path, t)
    BY WordsTyped, AroundToken
  <2> HIDE DEF t
  <2> QED BY <2>1 DEF Around
<1>2. n # 0
  BY EmptySeq DEF Texts, NoText
<1>3. \A i \in Int : i \in Positions(path, <<":">>) <=> i \in 1 .. m /\ path[i] = ":"
  BY WordsTyped, OneToken
<1>4. title[1] # "/"
  BY WordsTyped, BeginsWith
<1> HIDE DEF t, n, m
<1>5. ~ IsPrefix(<<"/">>, t)
  <2>1. t[1] = title[1]
    BY <1>1, <1>2
  <2> QED BY <1>1, <1>4, <2>1, WordsTyped, BeginsWith
<1> DEFINE colons == Positions(t, <<":">>)
           colon  == Max({0} \cup colons)
<1>6. \A i \in Int : i \in colons <=> i \in 1 .. Len(t) /\ t[i] = ":"
  <2>1. t \in Texts /\ ":" \in Tokens
    BY <1>1, WordsTyped
  <2> HIDE DEF t
  <2> QED BY <2>1, OneToken
<1>7. {0} \cup colons \subseteq 0 .. Len(t) /\ Len(t) \in Nat
  <2>1. t \in Texts /\ Len(t) \in Nat
    BY <1>1
  <2>2. colons \subseteq 1 .. Len(t)
    BY <2>1, SeparatorsTyped, PositionsTyped
  <2> HIDE DEF colons
  <2> QED BY <2>1, <2>2
<1> HIDE DEF colons
<1>8. colon \in {0} \cup colons /\ \A i \in colons : colon >= i
  BY <1>7, MaxIsGreatest
<1> HIDE DEF colon
<1>9. colon = n + 1
  <2>1. n + 1 \in colons
    BY <1>1, <1>6
  <2>2. colon >= n + 1 /\ colon \in 1 .. Len(t) /\ colon \in colons
    BY <1>1, <1>7, <1>8, <2>1
  <2>3. t[colon] = ":"
    BY <1>6, <1>7, <2>2
  <2>4. SUFFICES ASSUME colon > n + 1
                 PROVE  FALSE
    BY <1>1, <2>2
  <2> DEFINE i == colon - (n + 1)
  <2>5. colon \in n + 2 .. n + 1 + m /\ i \in 1 .. m /\ i \in Int
    BY <1>1, <2>2, <2>4
  <2>6. path[i] = ":"
    BY <1>1, <2>3, <2>5
  <2> HIDE DEF i
  <2>7. i \in Positions(path, <<":">>)
    BY <1>3, <2>5, <2>6
  <2> QED BY <2>7 DEF Holds
<1>10. colon > 1 /\ colon + 1 = n + 2
  BY <1>1, <1>2, <1>9
<1>11. RecordAndPath(key, t) = [SecretRef(title) EXCEPT !.path = path]
  <2>1. Before(t, colon) = title /\ From(t, colon + 1) = path
    BY <1>1, <1>9, <1>10
  <2> QED BY <1>10, <2>1 DEF RecordAndPath, colon, colons
<1> QED BY <1>5, <1>11 DEF t

\* Before a token that is not in a text, the first place of the token in what
\* is joined with it is that token.
LEMMA FirstOfToken ==
  ASSUME NEW s \in Texts, NEW a \in Tokens, NEW t \in Texts, NEW j,
         Around(s, a, t, j), ~ Holds(s, <<a>>)
  PROVE  /\ Positions(j, <<a>>) # {}
         /\ Min(Positions(j, <<a>>)) = Len(s) + 1
<1> DEFINE at == Positions(j, <<a>>)
           n  == Len(s)
<1>1. /\ j \in Texts /\ n \in Nat /\ Len(t) \in Nat /\ Len(j) = n + 1 + Len(t)
      /\ \A i \in 1 .. n : j[i] = s[i]
      /\ j[n + 1] = a
  BY DEF Around
<1>2. \A i \in 1 .. n : s[i] # a
  <2>1. \A i \in Int : i \in Positions(s, <<a>>) <=> i \in 1 .. Len(s) /\ s[i] = a
    BY OneToken
  <2> QED BY <2>1 DEF Holds
<1>3. \A i \in Int : i \in at <=> i \in 1 .. Len(j) /\ j[i] = a
  BY <1>1, OneToken
<1>4. at \subseteq 1 .. Len(j)
  <2>1. <<a>> \in Texts /\ <<a>> # << >>
    BY DEF Texts
  <2> QED BY <1>1, <2>1, PositionsTyped
<1> HIDE DEF at, n
<1>5. Len(j) \in Nat
  BY <1>1
<1>6. at \subseteq Nat
  BY <1>4, <1>5
<1>7. n + 1 \in at
  BY <1>1, <1>3
<1> DEFINE first == Min(at)
<1>8. first \in at /\ first <= n + 1
  BY <1>6, <1>7, MinIsLeast
<1> HIDE DEF first
<1>9. first \in 1 .. Len(j) /\ first \in Int
  BY <1>4, <1>5, <1>8
<1>10. j[first] = a
  BY <1>3, <1>8, <1>9
<1>11. ~ (first <= n)
  BY <1>1, <1>2, <1>9, <1>10
<1>12. first = n + 1
  BY <1>1, <1>8, <1>9, <1>11
<1> QED BY <1>7, <1>12 DEF first, at, n

IsFieldRef(got, title, part, path) ==
  /\ got.name = title /\ got.fields = <<part>> /\ got.path = path
  /\ got.format = "raw" /\ got.notation = NoText /\ got.isFile = FALSE

\* A record, a field and a path: the first "]:" ends the field and the first
\* "[" begins it.
LEMMA FieldExtractionRead ==
  ASSUME NEW key \in Texts, NEW title \in Texts, NEW part \in Texts, NEW path \in Texts,
         title # NoText, ~ Holds(title, <<"[">>),
         ~ Holds(title \o <<"[">> \o part, <<"]", ":">>)
  PROVE  LET t == title \o <<"[">> \o part \o <<"]">> \o (<<":">> \o path)
         IN  /\ Holds(t, <<"[">>) /\ Holds(t, <<"]", ":">>)
             /\ IsFieldRef(FieldExtraction(key, t), title, part, path)
<1> DEFINE h == title \o <<"[">> \o part
           d == h \o <<"]">>
           c == <<":">> \o path
           t == d \o c
           n == Len(h)
           q == Len(title)
<1>1. Around(title, "[", part, h)
  BY WordsTyped, AroundToken
<1>2. h \in Texts /\ q \in Nat /\ h[q + 1] = "[" /\ n = q + 1 + Len(part) /\ Len(part) \in Nat
  BY <1>1 DEF Around
<1>3. Before(h, q + 1) = title /\ From(h, q + 2) = part
  BY <1>1 DEF Around
<1>4. Positions(h, <<"[">>) # {} /\ Min(Positions(h, <<"[">>)) = q + 1
  BY <1>1, WordsTyped, FirstOfToken
<1>5. q # 0
  BY EmptySeq DEF Texts, NoText
<1> HIDE DEF h
<1>6. d \in Texts /\ Len(d) = n + 1
  <2>1. <<"]">> \in Texts /\ Len(<<"]">>) = 1
    BY WordsTyped DEF Texts
  <2>2. Len(d) = Len(h) + Len(<<"]">>) /\ d \in Texts
    BY <1>2, <2>1, JoinOfTexts
  <2> HIDE DEF d
  <2> QED BY <2>1, <2>2
<1>7. c \in Texts /\ c[1] = ":" /\ c # << >> /\ Len(c) \in Nat \ {0}
  <2>1. <<":">> \in Texts /\ Len(<<":">>) = 1 /\ <<":">>[1] = ":" /\ 1 \in 1 .. 1
    BY WordsTyped DEF Texts
  <2>2. /\ c \in Texts /\ Len(c) = Len(<<":">>) + Len(path) /\ Len(path) \in Nat
        /\ \A i \in 1 .. Len(<<":">>) : c[i] = <<":">>[i]
    BY <2>1, JoinOfTexts
  <2> HIDE DEF c
  <2> QED BY <2>1, <2>2
<1>8. Around(h, "]", c, t)
  BY <1>2, <1>7, WordsTyped, AroundToken
<1>9. Around(d, ":", path, t)
  BY <1>6, WordsTyped, AroundToken, ZenonT(60)
<1> HIDE DEF c, d, t
<1>10. /\ t \in Texts /\ n \in Nat /\ Len(t) = n + 1 + Len(c)
       /\ \A i \in 1 .. n : t[i] = h[i]
       /\ t[n + 1] = "]"
       /\ \A i \in 1 .. Len(c) : t[n + 1 + i] = c[i]
       /\ Before(t, n + 1) = h
  BY <1>8 DEF Around
<1>11. From(t, n + 3) = path
  <2>1. From(t, Len(d) + 2) = path /\ Len(d) + 2 = n + 3
    BY <1>6, <1>9, <1>10 DEF Around
  <2> QED BY <2>1
<1> HIDE DEF n, q
<1>12. Holds(t, <<"[">>)
  <2>1. q + 1 \in 1 .. n /\ q + 1 \in 1 .. Len(t) /\ q + 1 \in Int
    BY <1>2, <1>7, <1>10
  <2>2. q + 1 \in Positions(t, <<"[">>)
    BY <1>2, <1>10, <2>1, WordsTyped, OneToken
  <2> QED BY <2>2 DEF Holds
<1> DEFINE closes == Positions(t, <<"]", ":">>)
           close  == Min(closes)
<1>13. \A i \in Int : i \in closes <=> i \in 1 .. Len(t) - 1 /\ t[i] = "]" /\ t[i + 1] = ":"
  BY <1>10, WordsTyped, TwoTokens
<1>14. closes \subseteq 1 .. Len(t) /\ Len(t) \in Nat
  <2>1. t \in Texts /\ Len(t) \in Nat
    BY <1>7, <1>10
  <2> QED BY <2>1, SeparatorsTyped, PositionsTyped
<1> HIDE DEF closes
<1>15. n + 1 \in closes
  <2>1. 1 \in 1 .. Len(c) /\ n + 1 \in 1 .. Len(t) - 1 /\ n + 1 \in Int
    BY <1>7, <1>10
  <2>2. t[n + 1 + 1] = ":"
    BY <1>7, <1>10, <2>1
  <2> QED BY <1>10, <1>13, <2>1, <2>2
<1>16. close \in closes /\ close <= n + 1
  <2>1. closes \subseteq Nat
    BY <1>14
  <2> QED BY <1>15, <2>1, MinIsLeast
<1> HIDE DEF close
<1>17. close = n + 1
  <2>1. close \in Int /\ close >= 1 /\ close <= n + 1 /\ t[close] = "]" /\ t[close + 1] = ":"
    BY <1>10, <1>13, <1>14, <1>16
  <2>2. close # n
    BY <1>10, <2>1
  <2>3. SUFFICES ASSUME close + 1 <= n
                 PROVE  FALSE
    BY <1>10, <2>1, <2>2
  <2>4. close \in 1 .. n /\ close + 1 \in 1 .. n /\ close \in 1 .. n - 1
    BY <1>10, <2>1, <2>3
  <2>5. h[close] = "]" /\ h[close + 1] = ":"
    BY <1>10, <2>1, <2>4
  <2>6. close \in Positions(h, <<"]", ":">>)
    BY <1>2, <2>1, <2>4, <2>5, WordsTyped, TwoTokens DEF n
  <2> QED BY <2>6 DEF Holds, h
<1>18. /\ Before(t, close) = h /\ From(t, close + 2) = path
       /\ Min(Positions(h, <<"[">>)) > 1 /\ q + 1 + 1 = q + 2
  <2>1. close + 2 = n + 3 /\ q + 1 > 1 /\ q + 1 + 1 = q + 2
    BY <1>2, <1>5, <1>10, <1>17
  <2> QED BY <1>4, <1>10, <1>11, <1>17, <2>1 DEF q
<1>19. FieldExtraction(key, t) =
         [[SecretRef(key) EXCEPT !.path = path]
           EXCEPT !.name = title, !.fields = <<part>>, !.format = "raw"]
  <2> DEFINE opens == Positions(h, <<"[">>)
  <2>1. /\ opens # {} /\ Min(opens) > 1
        /\ Before(h, Min(opens)) = title /\ From(h, Min(opens) + 1) = part
    BY <1>3, <1>4, <1>18 DEF q
  <2> QED BY <1>18, <2>1 DEF FieldExtraction, close, closes
<1>20. Holds(t, <<"]", ":">>)
  BY <1>15 DEF Holds, closes
<1>21. IsFieldRef(FieldExtraction(key, t), title, part, path)
  BY <1>19 DEF SecretRef, IsFieldRef
<1> QED BY <1>12, <1>20, <1>21 DEF t, d, c, h

\* Where a notation ends whose path is given: at the last ":/".
LEMMA EndBeforePath ==
  ASSUME NEW selected \in Texts, NEW path \in Texts, selected # NoText,
         IsPrefix(<<"/">>, path), ~ Holds(path, <<":", "/">>)
  PROVE  LET n == Scheme \o selected
             t == n \o (<<":">> \o path)
         IN  /\ NotationEnd(t) = Len(n) + 1
             /\ Before(t, Len(n) + 1) = n /\ From(t, Len(n) + 2) = path
<1> DEFINE n == Scheme \o selected
           c == <<":">> \o path
           t == n \o c
           r == selected \o c
           l == Len(selected)
           m == Len(path)
<1>1. Scheme \in Texts /\ Len(Scheme) = 4 /\ ":" \in Tokens /\ "/" \in Tokens
  BY SeparatorsTyped, WordsTyped
<1>2. n \in Texts /\ Len(n) = 4 + l /\ l \in Nat /\ l # 0 /\ c \in Texts
  <2>1. n \in Texts /\ Len(n) = Len(Scheme) + Len(selected) /\ l \in Nat
    BY <1>1, JoinOfTexts
  <2>2. l # 0
    BY EmptySeq DEF Texts, NoText
  <2>3. c \in Texts
    BY SeparatorsTyped, JoinTyped
  <2> QED BY <1>1, <2>1, <2>2, <2>3
<1>3. r \in Texts /\ t = Scheme \o r
  <2>1. r \in Texts
    BY <1>2, JoinTyped
  <2>2. Scheme \o (selected \o c) = (Scheme \o selected) \o c
    BY <1>1, <1>2, JoinInAnyOrder
  <2> QED BY <2>1, <2>2
<1>4. Around(n, ":", path, t)
  BY <1>1, <1>2, AroundToken, ZenonT(60)
<1>5. Around(selected, ":", path, r)
  BY <1>1, AroundToken
<1> HIDE DEF n, c, t, r
<1>6. From(t, 5) = r /\ IsPrefix(Scheme, t)
  <2>1. From(Scheme \o r, Len(Scheme) + 1) = r /\ IsPrefix(Scheme, Scheme \o r)
    BY <1>1, <1>3, CutOfJoin, BeginOfJoin
  <2>2. Len(Scheme) + 1 = 5
    BY <1>1
  <2> QED BY <1>3, <2>1, <2>2
<1>7. /\ r \in Texts /\ Len(r) = l + 1 + m /\ m \in Nat /\ r[l + 1] = ":"
      /\ \A i \in 1 .. m : r[l + 1 + i] = path[i]
      /\ \A i \in l + 2 .. l + 1 + m : r[i] = path[i - (l + 1)]
  BY <1>5 DEF Around
<1>8. path[1] = "/" /\ m # 0
  <2>1. path # NoText /\ path[1] = "/"
    BY <1>1, BeginsWith
  <2> QED BY <2>1, EmptySeq DEF Texts, NoText
<1>9. \A i \in Int : i \in Positions(path, <<":", "/">>) <=>
        i \in 1 .. m - 1 /\ path[i] = ":" /\ path[i + 1] = "/"
  BY <1>1, TwoTokens
<1> HIDE DEF l, m
<1> DEFINE cuts == Positions(r, <<":", "/">>)
           cut  == Max(cuts)
<1>10. \A i \in Int : i \in cuts <=> i \in 1 .. Len(r) - 1 /\ r[i] = ":" /\ r[i + 1] = "/"
  BY <1>1, <1>7, TwoTokens
<1>11. cuts \subseteq 0 .. Len(r) /\ Len(r) \in Nat
  <2>1. Len(r) \in Nat
    BY <1>2, <1>7
  <2>2. cuts \subseteq 1 .. Len(r)
    BY <1>7, SeparatorsTyped, PositionsTyped
  <2> HIDE DEF cuts
  <2> QED BY <2>1, <2>2
<1> HIDE DEF cuts
<1>12. l + 1 \in cuts
  <2>1. 1 \in 1 .. m /\ l + 1 \in 1 .. Len(r) - 1 /\ l + 1 \in Int
    BY <1>2, <1>7, <1>8
  <2>2. r[l + 1 + 1] = "/"
    BY <1>7, <1>8, <2>1
  <2> QED BY <1>7, <1>10, <2>1, <2>2
<1>13. cut \in cuts /\ cut >= l + 1
  BY <1>11, <1>12, MaxIsGreatest
<1> HIDE DEF cut
<1>14. cut = l + 1
  <2>1. cut \in Int /\ cut \in 1 .. Len(r) - 1 /\ r[cut] = ":" /\ r[cut + 1] = "/"
    BY <1>10, <1>11, <1>13
  <2>2. SUFFICES ASSUME cut > l + 1
                 PROVE  FALSE
    BY <1>2, <1>13, <2>1
  <2> DEFINE i == cut - (l + 1)
  <2>3. /\ cut \in l + 2 .. l + 1 + m /\ cut + 1 \in l + 2 .. l + 1 + m
        /\ i \in 1 .. m - 1 /\ i \in Int /\ cut + 1 - (l + 1) = i + 1
    BY <1>2, <1>7, <2>1, <2>2
  <2>4. path[i] = ":" /\ path[i + 1] = "/"
    <3>1. \A x \in l + 2 .. l + 1 + m : r[x] = path[x - (l + 1)]
      BY <1>7
    <3>2. r[cut] = path[i]
      BY <2>3, <3>1
    <3> DEFINE z == cut + 1
    <3>3. z \in l + 2 .. l + 1 + m /\ z - (l + 1) = i + 1
      BY <1>2, <1>7, <2>1, <2>2, <2>3
    <3> HIDE DEF z
    <3>4. r[z] = path[i + 1]
      BY <3>1, <3>3
    <3>5. r[cut + 1] = path[i + 1]
      BY <3>4 DEF z
    <3> QED BY <2>1, <3>2, <3>5
  <2> HIDE DEF i
  <2>5. i \in Positions(path, <<":", "/">>)
    BY <1>9, <2>3, <2>4
  <2> QED BY <2>5 DEF Holds
<1>15. NotationEnd(t) = Len(n) + 1
  <2>1. cuts # {} /\ cut > 1 /\ 4 + cut = Len(n) + 1
    BY <1>2, <1>12, <1>14
  <2>2. 4 + 1 = 5
    OBVIOUS
  <2> QED BY <1>6, <2>1, <2>2 DEF NotationEnd, cut, cuts
<1>16. Before(t, Len(n) + 1) = n /\ From(t, Len(n) + 2) = path
  BY <1>4 DEF Around
<1> QED BY <1>15, <1>16 DEF t, c, n

\* And whose path is not given: at the end.
LEMMA EndOfNotation ==
  ASSUME NEW selected \in Texts, selected # NoText, ~ Holds(From(selected, 2), <<":", "/">>)
  PROVE  LET n == Scheme \o selected
         IN  /\ NotationEnd(n) = Len(n) + 1
             /\ Before(n, Len(n) + 1) = n /\ From(n, Len(n) + 2) = NoText
<1> DEFINE n == Scheme \o selected
           l == Len(selected)
           s == From(selected, 2)
<1>1. Scheme \in Texts /\ Len(Scheme) = 4 /\ ":" \in Tokens /\ "/" \in Tokens
  BY SeparatorsTyped, WordsTyped
<1>2. n \in Texts /\ Len(n) \in Nat /\ l \in Nat /\ l # 0
  <2>1. n \in Texts /\ l \in Nat
    BY <1>1, JoinOfTexts
  <2>2. l # 0
    BY EmptySeq DEF Texts, NoText
  <2> QED BY <2>1, <2>2 DEF Texts
<1>3. From(n, 5) = selected /\ IsPrefix(Scheme, n)
  <2>1. From(n, Len(Scheme) + 1) = selected /\ IsPrefix(Scheme, n)
    BY <1>1, CutOfJoin, BeginOfJoin
  <2>2. Len(Scheme) + 1 = 5
    BY <1>1
  <2> QED BY <2>1, <2>2
<1>4. Before(n, Len(n) + 1) = n
  <2>1. SubSeq(n, 1, Len(n)) = n
    BY <1>2, SubSeqFull DEF Texts
  <2>2. Len(n) + 1 - 1 = Len(n)
    BY <1>2
  <2> QED BY <2>1, <2>2 DEF Before
<1>5. From(n, Len(n) + 2) = NoText
  <2>1. Len(n) + 2 \in Nat \ {0} /\ ~ (Len(n) + 2 <= Len(n))
    BY <1>2
  <2>2. From(n, Len(n) + 2) \in Texts /\ Len(From(n, Len(n) + 2)) = 0
    BY <1>2, <2>1, FromTyped
  <2> QED BY <2>2, EmptySeq DEF Texts, NoText
<1> HIDE DEF n
<1>6. /\ s \in Texts
      /\ Len(s) = IF 2 <= l THEN l - 2 + 1 ELSE 0
      /\ \A k \in 1 .. l - 2 + 1 : s[k] = selected[2 + k - 1]
  <2>1. 2 \in Nat \ {0}
    OBVIOUS
  <2>2. s \in Texts
    BY <2>1, FromTyped
  <2>3. Len(s) = IF 2 <= l THEN l - 2 + 1 ELSE 0
    BY <2>1, FromTyped
  <2>4. \A k \in 1 .. l - 2 + 1 : s[k] = selected[2 + k - 1]
    BY <2>1, FromTyped
  <2> QED BY <2>2, <2>3, <2>4
<1>7. \A i \in Int : i \in Positions(s, <<":", "/">>) <=>
        i \in 1 .. Len(s) - 1 /\ s[i] = ":" /\ s[i + 1] = "/"
  BY <1>1, <1>6, TwoTokens
<1> DEFINE cuts == Positions(selected, <<":", "/">>)
           cut  == Max(cuts)
<1>8. \A i \in Int : i \in cuts <=>
        i \in 1 .. l - 1 /\ selected[i] = ":" /\ selected[i + 1] = "/"
  BY <1>1, TwoTokens
<1>9. cuts # {} => cut \in cuts
  BY SeparatorsTyped, LastPosition
<1>10. cuts \subseteq 1 .. l
  BY SeparatorsTyped, PositionsTyped
<1> HIDE DEF cuts, l, s
<1>11. \A i \in cuts : ~ (i > 1)
  <2>1. SUFFICES ASSUME NEW i \in cuts, i > 1
                 PROVE  FALSE
    OBVIOUS
  <2>2. i \in Int /\ i \in 2 .. l - 1 /\ selected[i] = ":" /\ selected[i + 1] = "/"
    BY <1>2, <1>8, <1>10, <2>1
  <2> DEFINE k == i - 1
  <2>3. /\ k \in Int /\ k \in 1 .. Len(s) - 1 /\ k + 1 = i
        /\ k \in 1 .. l - 2 + 1 /\ 2 + k - 1 = i
        /\ i \in 1 .. l - 2 + 1 /\ 2 + i - 1 = i + 1
    BY <1>2, <1>6, <2>2
  <2> HIDE DEF k
  <2>4. s[k] = ":" /\ s[i] = "/"
    BY <1>6, <2>2, <2>3
  <2>5. k \in Positions(s, <<":", "/">>)
    BY <1>7, <2>3, <2>4
  <2> QED BY <2>5 DEF Holds, s
<1>12. NotationEnd(n) = Len(n) + 1
  <2>1. ~ (cuts # {} /\ cut > 1)
    BY <1>9, <1>11
  <2>2. 4 + 1 = 5
    OBVIOUS
  <2> QED BY <1>3, <2>1, <2>2 DEF NotationEnd, cuts
<1> QED BY <1>4, <1>5, <1>12 DEF n

\* What is made of a notation whose end is known.
LEMMA KeeperNotationRead ==
  ASSUME NEW key \in Texts, NEW value \in Texts, NEW n \in Texts, NEW path \in Texts,
         NotationEnd(value) = Len(n) + 1,
         Before(value, Len(n) + 1) = n, From(value, Len(n) + 2) = path
  PROVE  LET got == KeeperNotation(key, value)
         IN  /\ got.notation = n /\ got.fields = << >>
             /\ got.path = IF path # NoText THEN path ELSE DefaultPath(key)
             /\ got.isFile = Holds(n, <<"/", "file", "/">>)
             /\ got.isFile => got.fileName = FileOf(n)
<1> DEFINE end == NotationEnd(value)
           got == KeeperNotation(key, value)
<1>1. end + 1 = Len(n) + 2
  BY DEF Texts
<1>2. Before(value, end) = n /\ From(value, end + 1) = path
  BY <1>1
<1> HIDE DEF end
<1>3. /\ got.notation = Before(value, end) /\ got.fields = << >>
      /\ got.path = IF From(value, end + 1) # NoText THEN From(value, end + 1) ELSE DefaultPath(key)
      /\ got.isFile = Holds(Before(value, end), <<"/", "file", "/">>)
      /\ got.fileName = IF Holds(Before(value, end), <<"/", "file", "/">>)
                        THEN FileOf(Before(value, end)) ELSE NoText
  BY DEF KeeperNotation, SecretRef, end
<1> HIDE DEF got
<1> QED BY <1>2, <1>3 DEF got

\* The part of a notation of an attachment: it follows the first "/file/".
LEMMA FileOfRead ==
  ASSUME NEW s \in Texts, NEW part \in Texts, part # NoText,
         ~ Holds(s \o <<"/">>, <<"/", "file", "/">>),
         Holds(part, <<"[">>) => part[1] = "["
  PROVE  LET n == s \o <<"/", "file", "/">> \o part
         IN  Holds(n, <<"/", "file", "/">>) /\ FileOf(n) = part
<1> DEFINE word == <<"/", "file", "/">>
           h == s \o word
           n == h \o part
           l == Len(s)
           e == s \o <<"/">>
<1>1. "/" \in Tokens /\ "file" \in Tokens /\ "[" \in Tokens
  BY WordsTyped
<1>2. /\ word \in Texts /\ word # << >> /\ Len(word) = 3
      /\ word[1] = "/" /\ word[2] = "file" /\ word[3] = "/"
  BY <1>1 DEF Texts
<1> HIDE DEF word
<1>3. /\ h \in Texts /\ l \in Nat /\ Len(h) = l + 3
      /\ \A i \in 1 .. l : h[i] = s[i]
      /\ h[l + 1] = "/" /\ h[l + 2] = "file" /\ h[l + 3] = "/"
  <2>1. /\ h \in Texts /\ l \in Nat /\ Len(h) = Len(s) + Len(word)
        /\ \A i \in 1 .. l : h[i] = s[i]
        /\ \A i \in 1 .. Len(word) : h[l + i] = word[i]
    BY <1>2, JoinOfTexts
  <2>2. 1 \in 1 .. 3 /\ 2 \in 1 .. 3 /\ 3 \in 1 .. 3
    OBVIOUS
  <2> HIDE DEF h
  <2> QED BY <1>2, <2>1, <2>2
<1>4. /\ e \in Texts /\ Len(e) = l + 1
      /\ \A i \in 1 .. l : e[i] = s[i]
      /\ e[l + 1] = "/"
  <2>1. <<"/">> \in Texts /\ Len(<<"/">>) = 1 /\ <<"/">>[1] = "/" /\ 1 \in 1 .. 1
    BY <1>1 DEF Texts
  <2>2. /\ e \in Texts /\ Len(e) = l + Len(<<"/">>)
        /\ \A i \in 1 .. l : e[i] = s[i]
        /\ \A i \in 1 .. Len(<<"/">>) : e[l + i] = <<"/">>[i]
    BY <2>1, JoinOfTexts
  <2> HIDE DEF e
  <2> QED BY <2>1, <2>2
<1> HIDE DEF h
<1>5. /\ n \in Texts /\ Len(part) \in Nat /\ Len(n) = Len(h) + Len(part)
      /\ \A i \in 1 .. Len(h) : n[i] = h[i]
      /\ From(n, Len(h) + 1) = part
  BY <1>3, JoinOfTexts, CutOfJoin
<1> HIDE DEF n, l, e
<1>6. /\ \A i \in 1 .. l + 1 : n[i] = e[i]
      /\ n[l + 1] = "/" /\ n[l + 2] = "file" /\ n[l + 3] = "/"
  BY <1>3, <1>4, <1>5
<1> DEFINE at    == Positions(n, word)
           first == Min(at)
<1>7. \A i \in Int : i \in at <=>
        i \in 1 .. Len(n) - 2 /\ n[i] = "/" /\ n[i + 1] = "file" /\ n[i + 2] = "/"
  <2>1. n \in Texts
    BY <1>5
  <2> HIDE DEF at
  <2>2. \A i \in Int : i \in Positions(n, word) <=>
          i \in 1 .. Len(n) - 2 /\ n[i] = "/" /\ n[i + 1] = "file" /\ n[i + 2] = "/"
    BY <1>1, <2>1, ThreeTokens DEF word
  <2> QED BY <2>2 DEF at
<1>8. \A i \in Int : i \in Positions(e, word) <=>
        i \in 1 .. Len(e) - 2 /\ e[i] = "/" /\ e[i + 1] = "file" /\ e[i + 2] = "/"
  BY <1>1, <1>4, ThreeTokens DEF word
<1>9. at \subseteq 1 .. Len(n) /\ Len(n) \in Nat
  <2>1. Len(n) \in Nat
    BY <1>3, <1>5
  <2>2. at \subseteq 1 .. Len(n)
    BY <1>2, <1>5, PositionsTyped
  <2> QED BY <2>1, <2>2
<1> HIDE DEF at
<1>10. l + 1 \in at
  <2>1. l + 1 \in Int /\ l + 1 \in 1 .. Len(n) - 2 /\ l + 1 + 1 = l + 2 /\ l + 1 + 2 = l + 3
    BY <1>3, <1>5
  <2>2. n[l + 1 + 1] = "file" /\ n[l + 1 + 2] = "/"
    BY <1>6, <2>1
  <2> QED BY <1>6, <1>7, <2>1, <2>2
<1>11. first \in at /\ first <= l + 1
  <2>1. at \subseteq Nat
    BY <1>9
  <2> QED BY <1>10, <2>1, MinIsLeast
<1> HIDE DEF first
<1>12. first = l + 1
  <2>1. /\ first \in Int /\ first \in 1 .. Len(n) - 2
        /\ n[first] = "/" /\ n[first + 1] = "file" /\ n[first + 2] = "/"
    BY <1>7, <1>9, <1>11
  <2>2. first # l
    BY <1>6, <2>1
  <2>3. SUFFICES ASSUME first < l
                 PROVE  FALSE
    BY <1>3, <1>11, <2>1, <2>2
  <2>4. /\ first \in 1 .. l + 1 /\ first + 1 \in 1 .. l + 1 /\ first + 2 \in 1 .. l + 1
        /\ first \in 1 .. Len(e) - 2
    BY <1>3, <1>4, <2>1, <2>3
  <2>5. e[first] = "/" /\ e[first + 1] = "file" /\ e[first + 2] = "/"
    BY <1>6, <2>1, <2>4
  <2>6. first \in Positions(e, word)
    BY <1>8, <2>1, <2>4, <2>5
  <2> QED BY <2>6 DEF Holds, e, word
<1>13. From(n, first + 3) = part
  <2>1. first + 3 = Len(h) + 1
    BY <1>3, <1>12
  <2> QED BY <1>5, <2>1
<1> DEFINE open == Positions(part, <<"[">>)
<1>14. ~ (open # {} /\ Min(open) > 1)
  <2>1. SUFFICES ASSUME open # {}
                 PROVE  ~ (Min(open) > 1)
    OBVIOUS
  <2>2. Min(open) \in open /\ \A i \in open : Min(open) <= i
    BY <2>1, SeparatorsTyped, FirstPosition
  <2>3. \A i \in Int : i \in open <=> i \in 1 .. Len(part) /\ part[i] = "["
    BY <1>1, OneToken
  <2>4. open \subseteq 1 .. Len(part)
    BY SeparatorsTyped, PositionsTyped
  <2>5. part[1] = "[" /\ 1 \in 1 .. Len(part)
    BY <1>5, <2>1, EmptySeq DEF Holds, Texts, NoText
  <2>6. 1 \in open
    BY <2>3, <2>5
  <2> DEFINE m == Min(open)
  <2> HIDE DEF open
  <2>7. m \in 1 .. Len(part) /\ m <= 1
    BY <2>2, <2>4, <2>6
  <2> HIDE DEF m
  <2>8. ~ (m > 1)
    BY <1>5, <2>7
  <2> QED BY <2>8 DEF m
<1>15. FileOf(n) = part
  BY <1>13, <1>14 DEF FileOf, first, at, word
<1>16. Holds(n, word)
  BY <1>10 DEF Holds, at
<1> QED BY <1>15, <1>16 DEF n, h, word

IsFileRef(got, title, part, path) ==
  /\ got.name = title /\ got.fileName = part /\ got.isFile = TRUE
  /\ got.fields = << >> /\ got.notation = NoText
  /\ got.path = IF path # NoText THEN path ELSE DefaultSecretsPath \o <<"/">> \o part

\* An attachment: the first two colons are the separators; what stands between
\* them has no blanks at its ends.
LEMMA FileAnnotationRead ==
  ASSUME NEW key \in Texts, NEW title \in Texts, NEW part \in Texts, NEW path \in Texts,
         part # NoText, ~ Holds(title, <<":">>), ~ Holds(part, <<":">>),
         TrimSpace(title) = title, TrimSpace(part) = part, TrimSpace(path) = path,
         ~ IsPrefix(Scheme, title \o <<":">> \o part \o ColonPath(path))
  PROVE  IsFileRef(FileAnnotation(key, title \o <<":">> \o part \o ColonPath(path)),
                   title, part, path)
<1> DEFINE c == ColonPath(path)
           h == title \o <<":">> \o part
           t == h \o c
           n == Len(h)
           q == Len(title)
<1>1. ":" \in Tokens /\ <<":">> \in Texts
  BY WordsTyped, SeparatorsTyped
<1>2. c \in Texts
  BY <1>1, SeparatorsTyped, JoinTyped DEF ColonPath
<1>3. Around(title, ":", part, h)
  BY <1>1, AroundToken
<1>4. part \o c \in Texts /\ title \o <<":">> \in Texts
  BY <1>1, <1>2, JoinTyped
<1>5. Around(title, ":", part \o c, t)
  <2>1. (title \o <<":">>) \o (part \o c) = t
    <3> DEFINE s == title \o <<":">>
    <3>1. s \in Texts
      BY <1>4
    <3> HIDE DEF s, c
    <3>2. s \o (part \o c) = (s \o part) \o c
      BY <1>2, <3>1, JoinInAnyOrder, SMTT(40)
    <3> QED BY <3>2 DEF s
  <2>2. Around(title, ":", part \o c, title \o <<":">> \o (part \o c))
    BY <1>1, <1>4, AroundToken
  <2> QED BY <2>1, <2>2
<1>6. path # NoText => Around(h, ":", path, t)
  <2>1. h \in Texts
    BY <1>3 DEF Around
  <2> QED BY <1>1, <2>1, AroundToken DEF ColonPath
<1>7. path = NoText => t = h
  <2>1. h \in Texts
    BY <1>3 DEF Around
  <2> QED BY <2>1, ConcatEmptySeq DEF ColonPath, NoText, Texts
<1>8. /\ h \in Texts /\ q \in Nat /\ Len(part) \in Nat /\ n = q + 1 + Len(part)
      /\ h[q + 1] = ":"
      /\ \A i \in q + 2 .. q + 1 + Len(part) : h[i] = part[i - (q + 1)]
      /\ From(h, q + 2) = part
  BY <1>3 DEF Around
<1>9. /\ t \in Texts /\ Len(t) \in Nat /\ n <= Len(t)
      /\ \A i \in 1 .. n : t[i] = h[i]
  <2>1. /\ t \in Texts /\ Len(c) \in Nat /\ n \in Nat /\ Len(t) = n + Len(c)
        /\ \A i \in 1 .. n : t[i] = h[i]
    <3>1. h \in Texts
      BY <1>8
    <3> HIDE DEF h, c
    <3>2. t \in Texts /\ Len(c) \in Nat /\ n \in Nat
      BY <1>2, <3>1, JoinOfTexts
    <3>3. Len(t) = n + Len(c)
      BY <1>2, <3>1, JoinOfTexts
    <3>4. \A i \in 1 .. n : t[i] = h[i]
      BY <1>2, <3>1, JoinOfTexts
    <3> QED BY <3>2, <3>3, <3>4
  <2> HIDE DEF t, n, h, c
  <2> QED BY <2>1
<1>10. From(t, n + 2) = path
  <2>1. CASE path # NoText
    BY <1>6, <2>1 DEF Around
  <2>2. CASE path = NoText
    <3>1. n \in Nat /\ n + 2 \in Nat \ {0} /\ ~ (n + 2 <= n)
      BY <1>8
    <3>2. From(h, n + 2) \in Texts /\ Len(From(h, n + 2)) = 0
      BY <1>8, <3>1, FromTyped
    <3>3. From(h, n + 2) = NoText
      BY <3>2, EmptySeq DEF Texts, NoText
    <3> QED BY <1>7, <2>2, <3>3
  <2> QED BY <2>1, <2>2
<1> DEFINE colons == Positions(t, <<":">>)
           first  == Min(colons)
           ends   == {Len(t) + 1} \cup (colons \ {first})
           second == Min(ends)
<1>11. Before(t, q + 1) = title
  BY <1>5 DEF Around
<1>12. colons # {} /\ first = q + 1
  BY <1>1, <1>4, <1>5, FirstOfToken
<1>13. \A i \in Int : i \in colons <=> i \in 1 .. Len(t) /\ t[i] = ":"
  BY <1>1, <1>9, OneToken
<1>14. colons \subseteq 1 .. Len(t)
  BY <1>9, SeparatorsTyped, PositionsTyped
<1>15. \A i \in colons : first <= i
  BY <1>9, <1>12, SeparatorsTyped, FirstPosition
<1>16. path # NoText => t[n + 1] = ":" /\ n + 1 <= Len(t)
  <2>1. SUFFICES ASSUME path # NoText
                 PROVE  t[n + 1] = ":" /\ n + 1 <= Len(t)
    OBVIOUS
  <2>2. t[n + 1] = ":" /\ Len(t) = n + 1 + Len(path) /\ Len(path) \in Nat /\ n \in Nat
    BY <1>6, <2>1 DEF Around
  <2> HIDE DEF t, n
  <2> QED BY <2>2
<1>17. path = NoText => Len(t) = n
  BY <1>7
<1>18. \A i \in Int : i \in Positions(part, <<":">>) <=> i \in 1 .. Len(part) /\ part[i] = ":"
  BY <1>1, OneToken
<1> HIDE DEF t, h, n, q, c, colons, first
<1>19. ends \subseteq Nat
  <2>1. Len(t) + 1 \in Nat /\ colons \subseteq Nat
    BY <1>9, <1>14
  <2> QED BY <2>1
<1>20. n + 1 \in ends
  <2>1. n \in Nat /\ n + 1 # q + 1
    <3>1. Len(part) # 0
      BY EmptySeq DEF Texts, NoText
    <3> QED BY <1>8, <3>1
  <2>2. CASE path = NoText
    BY <1>17, <2>2
  <2>3. CASE path # NoText
    <3>1. n + 1 \in 1 .. Len(t) /\ n + 1 \in Int
      BY <1>9, <1>16, <2>1, <2>3
    <3>2. n + 1 \in colons
      BY <1>13, <1>16, <2>3, <3>1
    <3>3. n + 1 # first
      BY <1>12, <2>1
    <3> QED BY <3>2, <3>3
  <2> QED BY <2>2, <2>3
<1>21. \A i \in ends : n + 1 <= i
  <2>1. SUFFICES ASSUME NEW i \in colons, i # first
                 PROVE  n + 1 <= i
    BY <1>8, <1>9
  <2>2. i \in Int /\ i \in 1 .. Len(t) /\ t[i] = ":" /\ q + 1 < i
    BY <1>8, <1>9, <1>12, <1>13, <1>14, <1>15, <2>1
  <2>3. SUFFICES ASSUME i <= n
                 PROVE  FALSE
    BY <1>8, <2>2
  <2> DEFINE k == i - (q + 1)
  <2>4. /\ i \in 1 .. n /\ i \in q + 2 .. q + 1 + Len(part)
        /\ k \in 1 .. Len(part) /\ k \in Int
    BY <1>8, <2>2, <2>3
  <2>5. t[i] = h[i] /\ h[i] = part[k]
    BY <1>8, <1>9, <2>4
  <2> HIDE DEF k
  <2>6. k \in Positions(part, <<":">>)
    BY <1>18, <2>2, <2>4, <2>5
  <2> QED BY <2>6 DEF Holds
<1> HIDE DEF ends
<1>22. second = n + 1
  <2>1. second \in ends /\ second <= n + 1
    BY <1>19, <1>20, MinIsLeast
  <2> HIDE DEF second
  <2>2. n + 1 <= second /\ second \in Nat /\ n + 1 \in Nat
    BY <1>19, <1>20, <1>21, <2>1
  <2> QED BY <2>1, <2>2
<1> HIDE DEF second
<1>23. SubSeq(t, first + 1, second - 1) = part
  <2> DEFINE s == SubSeq(t, q + 2, n)
  <2>1. first + 1 = q + 2 /\ second - 1 = n
    BY <1>8, <1>12, <1>22
  <2>2. q + 2 \in Nat \ {0} /\ n \in Nat /\ n - (q + 2) + 1 = Len(part)
    BY <1>8
  <2>3. /\ s \in Texts
        /\ Len(s) = IF q + 2 <= n THEN n - (q + 2) + 1 ELSE 0
        /\ \A i \in 1 .. n - (q + 2) + 1 : s[i] = t[q + 2 + i - 1]
    BY <1>9, <2>2, PieceTyped, SMTT(40)
  <2> HIDE DEF s
  <2>4. Len(s) = Len(part)
    BY <1>8, <2>2, <2>3
  <2>5. ASSUME NEW i \in 1 .. Len(part)
        PROVE  s[i] = part[i]
    <3> DEFINE k == q + 2 + i - 1
    <3>1. k \in 1 .. n /\ k \in q + 2 .. q + 1 + Len(part) /\ k - (q + 1) = i
      BY <1>8
    <3>2. s[i] = t[k]
      BY <2>2, <2>3
    <3> HIDE DEF k
    <3> QED BY <1>8, <1>9, <3>1, <3>2
  <2>6. s = part
    BY <2>3, <2>4, <2>5, SameText
  <2> QED BY <2>1, <2>6 DEF s
<1>24. Before(t, first) = title /\ From(t, second + 1) = path
  <2>1. second + 1 = n + 2
    BY <1>8, <1>22
  <2> QED BY <1>10, <1>11, <1>12, <1>22, <2>1
<1> DEFINE read == [[SecretRef(key) EXCEPT !.format = "raw", !.isFile = TRUE]
                      EXCEPT !.name = title, !.fileName = part, !.path = path]
<1>25. FileAnnotation(key, t) = WithDefault(read, DefaultSecretsPath \o <<"/">> \o part)
  <2>1. ~ IsPrefix(Scheme, t)
    BY DEF t, h, c
  <2>2. read.fileName = part
    BY DEF SecretRef
  <2> DEFINE read1 == IF colons = {}
                      THEN [[SecretRef(key) EXCEPT !.format = "raw", !.isFile = TRUE]
                              EXCEPT !.fileName = t]
                      ELSE [[SecretRef(key) EXCEPT !.format = "raw", !.isFile = TRUE]
                              EXCEPT !.name = TrimSpace(Before(t, first)),
                                     !.fileName = TrimSpace(SubSeq(t, first + 1, second - 1)),
                                     !.path = TrimSpace(From(t, second + 1))]
  <2>3. read1 = read
    BY <1>12, <1>23, <1>24
  <2> HIDE DEF read
  <2>4. FileAnnotation(key, t) =
          WithDefault(read1, IF read1.fileName # NoText
                             THEN DefaultSecretsPath \o <<"/">> \o read1.fileName
                             ELSE DefaultPath(key))
    BY <2>1 DEF FileAnnotation, second, ends, first, colons
  <2> HIDE DEF read1
  <2> QED BY <2>2, <2>3, <2>4
<1>26. /\ read.name = title /\ read.fileName = part /\ read.isFile = TRUE
       /\ read.fields = << >> /\ read.notation = NoText /\ read.path = path
  BY DEF SecretRef
<1> DEFINE default == DefaultSecretsPath \o <<"/">> \o part
<1>27. LET got == WithDefault(read, default)
       IN  /\ got.name = title /\ got.fileName = part /\ got.isFile = TRUE
           /\ got.fields = << >> /\ got.notation = NoText
           /\ got.path = IF path # NoText THEN path ELSE default
  <2> HIDE DEF default
  <2> QED BY DEF WithDefault, SecretRef
<1>28. IsFileRef(WithDefault(read, default), title, part, path)
  <2> HIDE DEF read
  <2> QED BY <1>27 DEF IsFileRef
<1> QED BY <1>25, <1>28 DEF t, h, c

----------------------------------------------------------------------------
(* Each form is read as it was meant. *)

ReadAs(f) ==
  IF f.kind = "file" THEN FileAnnotation(f.key, Text(f))
  ELSE IF f.kind = "folder" THEN FolderAnnotation(Text(f), f.path)
  ELSE SecretAnnotation(f.key, Text(f))

\* A path.
LEMMA PathRead ==
  ASSUME NEW f \in Forms, f.kind = "path", ~ Deceptive(f)
  PROVE  Matches(ReadAs(f), f)
<1>1. Text(f) = f.path /\ f.path # NoText /\ IsPrefix(<<"/">>, f.path)
  <2>1. f.path # NoText /\ (f.path = NoText \/ IsPrefix(<<"/">>, f.path))
    BY FormTyped
  <2>2. Text(f) = f.path
    BY DEF Text, Notations
  <2> QED BY <2>1, <2>2
<1>2. ~ IsNotation(Text(f)) /\ ~ (Holds(Text(f), <<"[">>) /\ Holds(Text(f), <<"]", ":">>))
  BY DEF Deceptive
<1> DEFINE got == [SecretRef(f.key) EXCEPT !.path = f.path]
<1>3. ReadAs(f) = WithDefault(got, JsonPath(f.key))
  BY <1>1, <1>2 DEF ReadAs, SecretAnnotation
<1>4. /\ got.path = f.path /\ got.name = f.key /\ got.fields = << >>
      /\ got.notation = NoText /\ got.isFile = FALSE
  BY DEF SecretRef
<1> HIDE DEF got
<1>5. ReadAs(f) = got
  BY <1>1, <1>3, <1>4 DEF WithDefault
<1> QED BY <1>1, <1>4, <1>5 DEF Matches, MeantPath, Notations

\* A record and a path.
LEMMA RecordRead ==
  ASSUME NEW f \in Forms, f.kind = "record", ~ Deceptive(f)
  PROVE  Matches(ReadAs(f), f)
<1>1. /\ f.key \in Texts /\ f.title \in Texts /\ f.title # NoText
      /\ f.path \in Texts /\ f.path # NoText /\ IsPrefix(<<"/">>, f.path)
  BY FormTyped
<1>2. /\ ~ IsNotation(Text(f)) /\ ~ (Holds(Text(f), <<"[">>) /\ Holds(Text(f), <<"]", ":">>))
      /\ ~ IsPrefix(<<"/">>, f.title) /\ ~ Holds(f.path, <<":">>)
  BY DEF Deceptive
<1>3. Text(f) = f.title \o <<":">> \o f.path
  <2>1. Text(f) = f.title \o (<<":">> \o f.path)
    BY <1>1 DEF Text, ColonPath, Notations
  <2>2. f.title \o (<<":">> \o f.path) = f.title \o <<":">> \o f.path
    BY <1>1, WordsTyped, AroundToken, ZenonT(60)
  <2> QED BY <2>1, <2>2
<1> DEFINE t   == f.title \o <<":">> \o f.path
           got == [SecretRef(f.title) EXCEPT !.path = f.path]
<1>4. ~ IsPrefix(<<"/">>, t) /\ RecordAndPath(f.key, t) = got
  BY <1>1, <1>2, RecordAndPathRead
<1> HIDE DEF t
<1>5. ReadAs(f) = WithDefault(got, JsonPath(f.key))
  BY <1>2, <1>3, <1>4 DEF ReadAs, SecretAnnotation, t
<1>6. /\ got.path = f.path /\ got.name = f.title /\ got.fields = << >>
      /\ got.notation = NoText /\ got.isFile = FALSE
  BY DEF SecretRef
<1> HIDE DEF got
<1>7. ReadAs(f) = got
  BY <1>1, <1>5, <1>6 DEF WithDefault
<1> QED BY <1>1, <1>6, <1>7 DEF Matches, MeantPath, Notations

\* A field of a record and a path.
LEMMA FieldRead ==
  ASSUME NEW f \in Forms, f.kind = "field", ~ Deceptive(f)
  PROVE  Matches(ReadAs(f), f)
<1>1. /\ f.key \in Texts /\ f.title \in Texts /\ f.title # NoText
      /\ f.part \in Texts /\ f.path \in Texts /\ f.path # NoText
  BY FormTyped
<1>2. /\ ~ IsNotation(Text(f))
      /\ ~ Holds(f.title, <<"[">>)
      /\ ~ Holds(f.title \o <<"[">> \o f.part, <<"]", ":">>)
  BY DEF Deceptive
<1> DEFINE t   == f.title \o <<"[">> \o f.part \o <<"]">> \o (<<":">> \o f.path)
           got == FieldExtraction(f.key, t)
<1>3. Text(f) = t
  BY <1>1 DEF Text, ColonPath, Notations
<1>4. /\ Holds(t, <<"[">>) /\ Holds(t, <<"]", ":">>)
      /\ IsFieldRef(got, f.title, f.part, f.path)
  BY <1>1, <1>2, FieldExtractionRead
<1> HIDE DEF t
<1>5. ReadAs(f) = WithDefault(got, JsonPath(f.key))
  BY <1>2, <1>3, <1>4 DEF ReadAs, SecretAnnotation
<1> HIDE DEF got
<1>6. ReadAs(f) = got
  BY <1>1, <1>4, <1>5 DEF WithDefault, IsFieldRef
<1>7. <<f.part>> # << >>
  OBVIOUS
<1> QED BY <1>1, <1>4, <1>6, <1>7 DEF IsFieldRef, Matches, MeantPath, Notations

\* An attachment.
LEMMA FileRead ==
  ASSUME NEW f \in Forms, f.kind = "file", ~ Deceptive(f)
  PROVE  Matches(ReadAs(f), f)
<1>1. /\ f.key \in Texts /\ f.title \in Texts /\ f.part \in Texts /\ f.part # NoText
      /\ f.path \in Texts
  BY FormTyped
<1>2. /\ ~ Holds(f.title, <<":">>) /\ ~ Holds(f.part, <<":">>)
      /\ ~ IsPrefix(Scheme, Text(f))
      /\ TrimSpace(f.title) = f.title /\ TrimSpace(f.part) = f.part
      /\ TrimSpace(f.path) = f.path
  BY DEF Deceptive
<1> DEFINE t   == f.title \o <<":">> \o f.part \o ColonPath(f.path)
           got == FileAnnotation(f.key, t)
<1>3. Text(f) = t
  BY DEF Text, Notations
<1>4. IsFileRef(got, f.title, f.part, f.path)
  <2>1. ~ IsPrefix(Scheme, t)
    BY <1>2, <1>3
  <2> QED BY <1>1, <1>2, <2>1, FileAnnotationRead
<1>5. ReadAs(f) = got
  BY <1>3 DEF ReadAs
<1> HIDE DEF got
<1> QED BY <1>4, <1>5 DEF IsFileRef, Matches, MeantPath, Notations

\* A folder.
LEMMA FolderRead ==
  ASSUME NEW f \in Forms, f.kind = "folder", ~ Deceptive(f)
  PROVE  Matches(ReadAs(f), f)
<1> DEFINE t   == Slashed(f.place)
           got == [SecretRef(t) EXCEPT !.path = f.path]
<1>1. t \in Texts /\ t # NoText
  BY FormTyped, SlashedTyped
<1>2. Text(f) = t
  BY DEF Text, Notations
<1>3. TrimSpace(t) = t
  BY <1>2 DEF Deceptive
<1> HIDE DEF t
<1>4. ReadAs(f) = WithDefault(got, DefaultSecretsPath)
  BY <1>2, <1>3 DEF ReadAs, FolderAnnotation
<1>5. /\ ReadAs(f).name = t /\ ReadAs(f).fields = << >>
      /\ ReadAs(f).notation = NoText /\ ReadAs(f).isFile = FALSE
      /\ ReadAs(f).path = IF f.path = NoText THEN DefaultSecretsPath ELSE f.path
  BY <1>4 DEF WithDefault, SecretRef
<1> QED BY <1>5 DEF Matches, MeantPath, Notations, t

\* A notation is cut where its path begins.
LEMMA NotationCut ==
  ASSUME NEW f \in Forms, f.kind \in Notations, ~ Deceptive(f)
  PROVE  LET n == Scheme \o Selected(f)
         IN  /\ Text(f) = n \o ColonPath(f.path)
             /\ Text(f) \in Texts /\ IsPrefix(Scheme, Text(f))
             /\ NotationEnd(Text(f)) = Len(n) + 1
             /\ Before(Text(f), Len(n) + 1) = n
             /\ From(Text(f), Len(n) + 2) = f.path
<1> DEFINE x == Selected(f)
           c == ColonPath(f.path)
           n == Scheme \o x
           t == n \o c
<1>1. /\ f.path \in Texts /\ (f.path = NoText \/ IsPrefix(<<"/">>, f.path))
      /\ x \in Texts /\ x # NoText /\ Scheme \in Texts
  BY FormTyped, SelectedTyped, SeparatorsTyped
<1>2. Text(f) = t
  BY DEF Text, Notations
<1>3. ~ Holds(IF f.path = NoText THEN From(x, 2) ELSE f.path, <<":", "/">>)
  BY DEF Deceptive
<1> HIDE DEF x
<1>4. c \in Texts
  BY <1>1, SeparatorsTyped, JoinTyped DEF ColonPath
<1>5. t \in Texts /\ IsPrefix(Scheme, t)
  <2> HIDE DEF c
  <2>1. x \o c \in Texts
    BY <1>1, <1>4, JoinTyped
  <2>2. Scheme \o (x \o c) = t
    BY <1>1, <1>4, JoinInAnyOrder
  <2>3. IsPrefix(Scheme, Scheme \o (x \o c)) /\ Scheme \o (x \o c) \in Texts
    BY <1>1, <2>1, JoinTyped, BeginOfJoin
  <2> QED BY <2>2, <2>3
<1>6. /\ NotationEnd(t) = Len(n) + 1
      /\ Before(t, Len(n) + 1) = n /\ From(t, Len(n) + 2) = f.path
  <2>1. CASE f.path = NoText
    <3>1. NotationEnd(n) = Len(n) + 1 /\ Before(n, Len(n) + 1) = n /\ From(n, Len(n) + 2) = NoText
      BY <1>1, <1>3, <2>1, EndOfNotation
    <3>2. n \in Texts
      BY <1>1, JoinTyped
    <3> HIDE DEF n
    <3>3. t = n
      BY <2>1, <3>2, ConcatEmptySeq DEF ColonPath, NoText, Texts
    <3> QED BY <2>1, <3>1, <3>3
  <2>2. CASE f.path # NoText
    <3>1. IsPrefix(<<"/">>, f.path) /\ ~ Holds(f.path, <<":", "/">>)
      BY <1>1, <1>3, <2>2
    <3>2. c = <<":">> \o f.path
      BY <2>2 DEF ColonPath
    <3> QED BY <1>1, <3>1, <3>2, EndBeforePath
  <2> QED BY <2>1, <2>2
<1> QED BY <1>2, <1>5, <1>6 DEF x

\* A notation, of a field or of an attachment; the path is no part of it.
LEMMA NotationRead ==
  ASSUME NEW f \in Forms, f.kind \in Notations, ~ Deceptive(f)
  PROVE  Matches(ReadAs(f), f) /\ ReadAs(f).notation = Scheme \o Selected(f)
<1> DEFINE n   == Scheme \o Selected(f)
           got == KeeperNotation(f.key, Text(f))
<1>1. /\ f.key \in Texts /\ f.path \in Texts /\ f.part \in Texts /\ f.part # NoText
  BY FormTyped DEF Notations
<1>2. Scheme \in Texts /\ Selected(f) \in Texts /\ Located(f) \in Texts /\ Len(Scheme) = 4
  BY SelectedTyped, SeparatorsTyped
<1>3. n \in Texts /\ n # NoText
  <2>1. /\ n \in Texts /\ Len(n) = Len(Scheme) + Len(Selected(f))
        /\ Len(Selected(f)) \in Nat
    BY <1>2, JoinOfTexts
  <2>2. Len(NoText) = 0
    BY DEF NoText
  <2> HIDE DEF n
  <2> QED BY <1>2, <2>1, <2>2
<1>4. /\ Text(f) = n \o ColonPath(f.path)
      /\ Text(f) \in Texts /\ IsPrefix(Scheme, Text(f))
      /\ NotationEnd(Text(f)) = Len(n) + 1
      /\ Before(Text(f), Len(n) + 1) = n
      /\ From(Text(f), Len(n) + 2) = f.path
  BY NotationCut
<1>5. ReadAs(f) = got
  BY <1>4 DEF ReadAs, SecretAnnotation, IsNotation, Notations
<1>6. f.kind # "fileNotation" => ~ Holds(n, <<"/", "file", "/">>)
  BY DEF Deceptive, Notations
<1>7. f.kind = "fileNotation" => Holds(n, <<"/", "file", "/">>) /\ FileOf(n) = f.part
  <2>1. SUFFICES ASSUME f.kind = "fileNotation"
                 PROVE  Holds(n, <<"/", "file", "/">>) /\ FileOf(n) = f.part
    OBVIOUS
  <2> DEFINE l    == Located(f)
             word == <<"/", "file", "/">>
             s    == Scheme \o l
  <2>2. /\ ~ Holds(Scheme \o l \o <<"/">>, word)
        /\ Holds(f.part, <<"[">>) => f.part[1] = "["
    BY <2>1 DEF Deceptive
  <2>3. n = Scheme \o (l \o word \o f.part)
    BY <2>1 DEF Selected, Selector
  <2>4. l \in Texts /\ word \in Texts /\ s \in Texts /\ word \o f.part \in Texts
    BY <1>1, <1>2, SeparatorsTyped, JoinTyped
  <2>5. s \o word \o f.part = n
    <3> DEFINE p == f.part
    <3> HIDE DEF l, word, s, p
    <3>1. p \in Texts /\ l \in Texts /\ word \in Texts /\ s \in Texts
      BY <1>1, <2>4 DEF p
    <3>2. l \o word \o f.part = l \o (word \o f.part)
      <4>1. l \o word \o p = l \o (word \o p)
        BY <3>1, JoinInAnyOrder
      <4> QED BY <4>1 DEF p
    <3>3. Scheme \o (l \o (word \o f.part)) = (Scheme \o l) \o (word \o f.part)
      BY <1>2, <2>4, JoinInAnyOrder, ZenonT(60)
    <3>4. s \o (word \o f.part) = s \o word \o f.part
      <4>1. s \o (word \o p) = s \o word \o p
        BY <3>1, JoinInAnyOrder
      <4> QED BY <4>1 DEF p
    <3> QED BY <2>3, <3>2, <3>3, <3>4 DEF s
  <2>6. /\ Holds(s \o word \o f.part, word)
        /\ FileOf(s \o word \o f.part) = f.part
    BY <1>1, <2>2, <2>4, FileOfRead
  <2> QED BY <2>5, <2>6
<1> HIDE DEF n
<1>8. /\ got.notation = n /\ got.fields = << >>
      /\ got.path = IF f.path # NoText THEN f.path ELSE DefaultPath(f.key)
      /\ got.isFile = Holds(n, <<"/", "file", "/">>)
      /\ got.isFile => got.fileName = FileOf(n)
  BY <1>1, <1>3, <1>4, KeeperNotationRead
<1> HIDE DEF got
<1>9. Matches(ReadAs(f), f)
  BY <1>3, <1>4, <1>5, <1>6, <1>7, <1>8 DEF Matches, MeantPath, Notations
<1> QED BY <1>5, <1>8, <1>9 DEF n
----------------------------------------------------------------------------
(* What is read is what was meant. *)

\* A form that is not deceptive is read as it was meant.
LEMMA FormRead ==
  ASSUME NEW f \in Forms, ~ Deceptive(f)
  PROVE  Matches(ReadAs(f), f)
<1>1. f.kind \in Kinds
  BY FormTyped
<1>2. f.kind # "bareNotation"
  BY DEF Deceptive
<1> QED BY <1>1, <1>2, PathRead, RecordRead, FieldRead, NotationRead, FileRead, FolderRead
        DEF Kinds, Notations

\* What was read is what the parser makes of the form's text.
ReadInv ==
  /\ form \in Forms
  /\ ref \in {Unread, ReadAs(form)}

\* ReadsAsMeant of every execution, whatever the tokens, names and paths:
\* what parseSecretAnnotation, parseKeeperNotation, parseFileAnnotation and the
\* folder annotation make of a documented form is the record, the part and the
\* path that were meant.
THEOREM FormsReadAsMeant == Spec => []ReadsAsMeant
<1>1. Init => ReadInv
  BY DEF Init, ReadInv
<1>2. ReadInv /\ [Next]_vars => ReadInv'
  <2>1. SUFFICES ASSUME ReadInv, [Next]_vars
                 PROVE  ReadInv'
    OBVIOUS
  <2>2. CASE ReadSecret
    BY <2>1, <2>2 DEF ReadSecret, Read, ReadInv, ReadAs
  <2>3. CASE ReadFile
    BY <2>1, <2>3 DEF ReadFile, Read, ReadInv, ReadAs
  <2>4. CASE ReadFolder
    BY <2>1, <2>4 DEF ReadFolder, Read, ReadInv, ReadAs
  <2>5. CASE EnvSkipsFile
    BY <2>1, <2>5 DEF EnvSkipsFile, ReadInv
  <2>6. CASE AskFolders
    BY <2>1, <2>6 DEF AskFolders, ReadInv
  <2>7. CASE AskRecords
    BY <2>1, <2>7 DEF AskRecords, ReadInv
  <2>8. CASE CallFails
    BY <2>1, <2>8 DEF CallFails, ReadInv
  <2>9. ASSUME NEW v \in Vaults, Change(v)
        PROVE  ReadInv'
    BY <2>1, <2>9 DEF Change, ReadInv
  <2>10. CASE UNCHANGED vars
    BY <2>1, <2>10 DEF vars, ReadInv
  <2> QED BY <2>1, <2>2, <2>3, <2>4, <2>5, <2>6, <2>7, <2>8, <2>9, <2>10 DEF Next
<1>3. ReadInv => ReadsAsMeant
  BY FormRead DEF ReadInv, ReadsAsMeant
<1> QED BY <1>1, <1>2, <1>3, PTL DEF Spec
----------------------------------------------------------------------------
(* The folder that is meant. *)

\* What leads along all the names of a place ends in a folder at the place.
LEMMA LeadsToFolder ==
  ASSUME NEW folders, NEW place, Len(place) \in Nat \ {0}, DOMAIN place = 1 .. Len(place),
         NEW u
  PROVE  u \in FoldersAt(folders, place) <=>
           \E c : Leads(folders, place, Len(place), c) /\ u = c[Len(place)].uid
<1> DEFINE all == ToSet(folders)
           n   == Len(place)
           Chain(c) ==
             /\ \A g \in all : g.uid # c[1].parent
             /\ \A i \in DOMAIN place : c[i].name = place[i]
             /\ \A i \in 2 .. n : c[i].parent = c[i - 1].uid
<1>1. FoldersAt(folders, place) = {c[n].uid : c \in {d \in [DOMAIN place -> all] : Chain(d)}}
  BY DEF FoldersAt
<1>2. \A c : Leads(folders, place, n, c) <=> c \in [DOMAIN place -> all] /\ Chain(c)
  BY DEF Leads
<1> HIDE DEF Chain, n, all
<1>3. u \in FoldersAt(folders, place) <=>
        \E c \in {d \in [DOMAIN place -> all] : Chain(d)} : u = c[n].uid
  BY <1>1
<1> QED BY <1>2, <1>3 DEF n

\* So is what leads along the first names.
LEMMA LeadsToFirst ==
  ASSUME NEW folders, NEW S, NEW place \in Seq(S), NEW n \in 1 .. Len(place), NEW u
  PROVE  u \in FoldersAt(folders, SubSeq(place, 1, n)) <=>
           \E c : Leads(folders, place, n, c) /\ u = c[n].uid
<1> DEFINE head == SubSeq(place, 1, n)
<1>1. /\ head \in Seq(S) /\ Len(head) = n /\ n \in Nat \ {0}
      /\ \A k \in 1 .. n : head[k] = place[k]
  <2>1. \A k \in 1 .. n : place[k] \in S
    OBVIOUS
  <2>2. n - 1 + 1 = n /\ \A k \in 1 .. n : 1 + k - 1 = k
    OBVIOUS
  <2> QED BY <2>1, <2>2, SubSeqProperties
<1> HIDE DEF head
<1>2. DOMAIN head = 1 .. Len(head)
  BY <1>1
<1>3. u \in FoldersAt(folders, head) <=> \E c : Leads(folders, head, n, c) /\ u = c[n].uid
  BY <1>1, <1>2, LeadsToFolder
<1>4. \A c : Leads(folders, head, n, c) <=> Leads(folders, place, n, c)
  BY <1>1 DEF Leads
<1> QED BY <1>3, <1>4 DEF head

\* ResolvePath finds a folder at the place; where there is one folder at each
\* step of the way it finds one.
LEMMA PlaceResolved ==
  ASSUME NEW S, NEW folders \in Seq(S), NEW T, NEW place \in Seq(T), place # << >>
  PROVE  LET found == ResolvePath(folders, place)
         IN  /\ found # << >> => found[1].uid \in FoldersAt(folders, place)
             /\ IsPlain(place, folders) => found # << >>
<1> DEFINE last  == Len(place)
           found == ResolvePath(folders, place)
<1>1. last \in Nat \ {0} /\ DOMAIN place = 1 .. last
  BY EmptySeq
<1>2. PICK g : found = g[last] /\ GoesDown(folders, place, g)
  BY <1>1, PathResolved
<1> HIDE DEF last, found
<1>3. found # << >> => found[1].uid \in FoldersAt(folders, place)
  <2>1. SUFFICES ASSUME found # << >>
                 PROVE  found[1].uid \in FoldersAt(folders, place)
    OBVIOUS
  <2>2. PICK c : Leads(folders, place, last, c) /\ found = <<c[last]>>
    BY <1>1, <1>2, <2>1 DEF GoesDown, last
  <2>3. found[1].uid = c[last].uid
    BY <2>2
  <2> QED BY <1>1, <2>2, <2>3, LeadsToFolder DEF last
<1>4. ASSUME IsPlain(place, folders)
      PROVE  found # << >>
  <2> DEFINE Way(n, u) == \E c : Leads(folders, place, n, c) /\ u = c[n].uid
             Gaps == {n \in 1 .. last : g[n] = << >>}
  <2>1. \A n \in 1 .. last : \E u : Way(n, u) /\ \A w : Way(n, w) => w = u
    <3>1. SUFFICES ASSUME NEW n \in 1 .. last
                   PROVE  \E u : Way(n, u) /\ \A w : Way(n, w) => w = u
      OBVIOUS
    <3>2. PICK u : FoldersAt(folders, SubSeq(place, 1, n)) = {u}
      BY <1>1, <1>4 DEF IsPlain, IsSingle
    <3>3. \A w : w \in FoldersAt(folders, SubSeq(place, 1, n)) <=> Way(n, w)
      BY LeadsToFirst DEF last
    <3> QED BY <3>2, <3>3
  <2>2. SUFFICES ASSUME Gaps # {}
                 PROVE  FALSE
    BY <1>1, <1>2
  <2>3. PICK n \in Gaps : \A k \in Gaps : n <= k
    <3>1. Gaps \subseteq Nat
      OBVIOUS
    <3> HIDE DEF Gaps
    <3> QED BY <2>2, <3>1, LeastNumber
  <2>4. n \in 1 .. last /\ g[n] = << >>
    OBVIOUS
  <2>5. PICK c : Leads(folders, place, n, c)
    BY <2>1, <2>4
  <2>6. /\ c[n] \in ToSet(folders) /\ c[n].name = place[n]
        /\ n = 1 => \A h \in ToSet(folders) : h.uid # c[n].parent
        /\ n # 1 => c[n].parent = c[n - 1].uid
    BY <2>4, <2>5 DEF Leads
  <2>7. ASSUME n # 1
        PROVE  g[n - 1] # << >> /\ c[n].parent = g[n - 1][1].uid
    <3>1. n - 1 \in 1 .. last /\ ~ (n <= n - 1) /\ n \in Nat
      BY <1>1, <2>4, <2>7
    <3>2. g[n - 1] # << >>
      <4>1. n - 1 \notin Gaps
        <5> HIDE DEF Gaps
        <5> QED BY <2>3, <3>1
      <4> QED BY <3>1, <4>1
    <3>3. PICK d : Leads(folders, place, n - 1, d) /\ g[n - 1] = <<d[n - 1]>>
      BY <1>2, <3>1, <3>2 DEF GoesDown, last
    <3>4. Leads(folders, place, n - 1, [k \in 1 .. n - 1 |-> c[k]])
      <4>1. /\ \A k \in 1 .. n - 1 : k \in 1 .. n
            /\ \A k \in 2 .. n - 1 : k \in 2 .. n /\ k \in 1 .. n - 1 /\ k - 1 \in 1 .. n - 1
            /\ 1 \in 1 .. n - 1
        BY <3>1
      <4> QED BY <2>5, <4>1 DEF Leads
    <3>5. Way(n - 1, c[n - 1].uid) /\ Way(n - 1, d[n - 1].uid)
      <4>1. n - 1 \in 1 .. n - 1
        BY <3>1
      <4> DEFINE e == [k \in 1 .. n - 1 |-> c[k]]
      <4>2. e[n - 1] = c[n - 1]
        BY <4>1
      <4> HIDE DEF e
      <4>3. Leads(folders, place, n - 1, e)
        BY <3>4 DEF e
      <4> QED BY <3>3, <4>2, <4>3
    <3>6. c[n - 1].uid = d[n - 1].uid
      <4> HIDE DEF Way
      <4> QED BY <2>1, <3>1, <3>5
    <3> QED BY <2>6, <2>7, <3>2, <3>3, <3>6
  <2> QED BY <1>2, <2>4, <2>6, <2>7 DEF GoesDown, last
<1> QED BY <1>3, <1>4 DEF found
\* Of the forms that are not misleading, those without a place are those that
\* cannot have one.
LEMMA PlaceTyped ==
  ASSUME NEW f \in Forms, ~ Misleading(f)
  PROVE  /\ f.kind \in {"path", "record", "field", "file", "folder"} \cup Notations
         /\ f.kind \notin Notations \cup {"folder"} => f.place = << >>
<1>1. f.kind # "bareNotation"
  BY DEF Misleading, Deceptive
<1>2. f.kind \in Kinds
  BY FormTyped
<1>3. f.kind \in {"path", "record", "field", "file"} => f.place = << >>
  BY DEF Forms
<1> QED BY <1>1, <1>2, <1>3 DEF Kinds, Notations

\* A form that is not misleading is read as it was meant, a notation without
\* its path.
LEMMA NotMisleadingRead ==
  ASSUME NEW f \in Forms, ~ Misleading(f)
  PROVE  /\ Matches(ReadAs(f), f)
         /\ f.kind \in Notations => ReadAs(f).notation = Scheme \o Selected(f)
         /\ f.kind \notin Notations => ReadAs(f).notation = NoText
<1>1. ~ Deceptive(f)
  BY DEF Misleading
<1> QED BY <1>1, FormRead, NotationRead DEF Matches

\* The path that is looked up is the place that was meant.
LEMMA PlaceRead ==
  ASSUME form \in Forms, ~ Misleading(form), ref = ReadAs(form)
  PROVE  FolderNames = form.place
<1>1. /\ form.place \in Seq(Texts \ {NoText}) /\ DOMAIN form.place = 1 .. Len(form.place)
      /\ \A k \in DOMAIN form.place : ~ Holds(form.place[k], <<"/">>)
  BY FormTyped DEF Misleading
<1>2. /\ Matches(ref, form)
      /\ form.kind \in Notations => ref.notation = Scheme \o Selected(form)
      /\ form.kind \notin Notations => ref.notation = NoText
  BY NotMisleadingRead
<1>3. CASE form.kind = "folder"
  <2>1. ref.name = Slashed(form.place) /\ form.place # << >>
    BY <1>2, <1>3, FormTyped DEF Matches
  <2> QED BY <1>1, <1>3, <2>1, ComponentsOfPlace DEF FolderNames
<1>4. CASE form.kind \in Notations
  <2>1. /\ Slashless(form) /\ form.title \notin Selectors
        /\ \A k \in DOMAIN form.place : form.place[k] \notin Selectors
    BY <1>1, <1>4 DEF Misleading, Slashless
  <2>2. ParseNotationPath(Scheme \o Selected(form)).folder = form.place
    <3>1. LET np == ParseNotationPath(Scheme \o Selected(form))
          IN  IF form.place = << >> THEN np.folder = << >>
              ELSE /\ np.folder = form.place /\ np.record = form.title
                   /\ np.selector = <<Selector(form)>> /\ np.parameter = form.part
      BY <1>4, <2>1, NotationPathRead
    <3> QED BY <3>1
  <2>3. ref.notation # NoText /\ form.kind # "folder"
    BY <1>2, <1>4 DEF Matches, Notations
  <2> QED BY <1>2, <1>4, <2>2, <2>3 DEF FolderNames
<1>5. CASE form.kind \notin Notations \cup {"folder"}
  BY <1>2, <1>5, PlaceTyped DEF FolderNames
<1> QED BY <1>3, <1>4, <1>5
----------------------------------------------------------------------------
(* The record that is meant. *)

\* One record is meant, its title is taken for what it is, and each folder on the
\* way to it is the only one.
IsOnly(i, f, c, v) ==
  /\ Meant(f, v) = {i}
  /\ TakenRight(f, c, v.records[i])
  /\ f.place # << >> => IsPlain(f.place, v.folders)

\* What was found is a record that is meant, and the only one is found.
IsRight(found, f, c, v) ==
  /\ found # << >> => \E i \in Meant(f, v) : found = <<v.records[i]>>
  /\ \A i : IsOnly(i, f, c, v) => found = <<v.records[i]>>

\* So are the first and the last record at positions that are meant.
LEMMA FirstOrLastIsRight ==
  ASSUME NEW f, NEW c, NEW v \in Vaults, NEW at \in SUBSET Meant(f, v),
         \A i : IsOnly(i, f, c, v) => i \in at
  PROVE  IsRight(FirstOf(v.records, at), f, c, v) /\ IsRight(LastOf(v.records, at), f, c, v)
<1>1. v.records \in Seq(RecordType)
  BY VaultAssumption DEF Vaults
<1>2. at \in SUBSET DOMAIN v.records
  BY DEF Meant
<1> DEFINE Good(found) ==
      /\ found = << >> <=> at = {}
      /\ at # {} => \E i \in at : found = <<v.records[i]>>
<1>3. Good(FirstOf(v.records, at)) /\ Good(LastOf(v.records, at))
  BY <1>1, <1>2, FirstFound, LastFound
<1>4. ASSUME NEW found, Good(found)
      PROVE  IsRight(found, f, c, v)
  <2>1. \A i : IsOnly(i, f, c, v) => at = {i}
    BY DEF IsOnly
  <2> QED BY <1>4, <2>1 DEF IsRight
<1> HIDE DEF Good
<1> QED BY <1>3, <1>4

\* Without a place the title or UID tells what is meant.
LEMMA NamedMeant ==
  ASSUME NEW f \in Forms, f.kind # "folder", f.place = << >>, NEW v
  PROVE  /\ Meant(f, v) \subseteq DOMAIN v.records
         /\ \A i \in DOMAIN v.records :
              i \in Meant(f, v) <=> Title(f) \in {v.records[i].title, v.records[i].uid}
BY DEF Meant

\* GetSecret finds it.
LEMMA GetSecretIsRight ==
  ASSUME NEW f \in Forms, f.kind \in {"path", "record", "field", "file"}, f.place = << >>,
         NEW c \in {"file", "env"}, NEW v \in Vaults, NEW s
  PROVE  IsRight(GetSecret(v, s, Title(f)), f, c, v)
<1> DEFINE at == IF LooksLikeUID(Title(f)) THEN ByUID(v, Title(f)) ELSE Titled(v, Title(f))
<1>1. /\ \A i \in DOMAIN v.records :
           i \in Meant(f, v) <=> Title(f) \in {v.records[i].title, v.records[i].uid}
      /\ Meant(f, v) \subseteq DOMAIN v.records
  BY NamedMeant
<1>2. at \in SUBSET Meant(f, v)
  BY <1>1 DEF ByUID, Titled
<1>3. \A i : IsOnly(i, f, c, v) => i \in at
  <2>1. c # "k8s" /\ f.kind \notin Notations
    BY DEF Notations
  <2>2. SUFFICES ASSUME NEW i, IsOnly(i, f, c, v)
                 PROVE  i \in at
    OBVIOUS
  <2>3. i \in DOMAIN v.records
    BY <1>1, <2>2 DEF IsOnly
  <2> QED BY <2>1, <2>2, <2>3 DEF IsOnly, TakenRight, ByUID, Titled
<1>4. IsRight(FirstOf(v.records, at), f, c, v)
  BY <1>2, <1>3, FirstOrLastIsRight
<1>5. CASE LooksLikeUID(Title(f))
  BY <1>4, <1>5 DEF GetSecret
<1>6. CASE ~ LooksLikeUID(Title(f)) /\ ~ (s /\ Cardinality(Titled(v, Title(f))) > 1)
  BY <1>4, <1>6 DEF GetSecret, GetSecretByTitle
<1>7. CASE ~ LooksLikeUID(Title(f)) /\ s /\ Cardinality(Titled(v, Title(f))) > 1
  <2>1. GetSecret(v, s, Title(f)) = << >>
    BY <1>7 DEF GetSecret, GetSecretByTitle
  <2>2. ASSUME NEW i, IsOnly(i, f, c, v)
        PROVE  FALSE
    <3>1. Titled(v, Title(f)) = {i}
      BY <1>2, <1>3, <1>7, <2>2 DEF IsOnly
    <3>2. Cardinality({i}) = 1
      BY FS_Singleton
    <3> QED BY <1>7, <3>1, <3>2
  <2> QED BY <2>1, <2>2 DEF IsRight
<1> QED BY <1>5, <1>6, <1>7

\* GetFileContent finds it too.
LEMMA FileRecordIsRight ==
  ASSUME NEW f \in Forms, f.kind = "file", f.place = << >>, NEW c, NEW v \in Vaults
  PROVE  LET at == IF LooksLikeUID(f.title) THEN ByUID(v, f.title) ELSE Titled(v, f.title)
         IN  IsRight(FirstOf(v.records, at), f, c, v)
<1> DEFINE at == IF LooksLikeUID(f.title) THEN ByUID(v, f.title) ELSE Titled(v, f.title)
<1>1. /\ \A i \in DOMAIN v.records :
           i \in Meant(f, v) <=> Title(f) \in {v.records[i].title, v.records[i].uid}
      /\ Meant(f, v) \subseteq DOMAIN v.records
      /\ Title(f) = f.title
  BY NamedMeant DEF Title
<1>2. at \in SUBSET Meant(f, v)
  BY <1>1 DEF ByUID, Titled
<1>3. \A i : IsOnly(i, f, c, v) => i \in at
  <2>1. SUFFICES ASSUME NEW i, IsOnly(i, f, c, v)
                 PROVE  i \in at
    OBVIOUS
  <2>2. i \in DOMAIN v.records /\ f.kind \notin Notations
    BY <1>1, <2>1 DEF IsOnly, Notations
  <2> QED BY <1>1, <2>1, <2>2 DEF IsOnly, TakenRight, ByUID, Titled
<1> QED BY <1>2, <1>3, FirstOrLastIsRight

\* batchFetchSecrets finds it for a Kubernetes Secret.
LEMMA BatchedIsRight ==
  ASSUME form \in Forms, form.kind \in {"path", "record", "field"}, form.place = << >>,
         ref.name = Title(form), vault \in Vaults
  PROVE  IsRight(BatchedRecord, form, "k8s", vault)
<1> DEFINE at == IF WebhookTakesForUID(ref.name) THEN ByUID(vault, ref.name)
                 ELSE Titled(vault, ref.name)
           t  == Title(form)
<1>1. /\ \A i \in DOMAIN vault.records :
           i \in Meant(form, vault) <=> t \in {vault.records[i].title, vault.records[i].uid}
      /\ Meant(form, vault) \subseteq DOMAIN vault.records
  BY NamedMeant
<1>2. at \in SUBSET Meant(form, vault)
  BY <1>1 DEF ByUID, Titled
<1>3. \A i : IsOnly(i, form, "k8s", vault) => i \in at
  <2>1. SUFFICES ASSUME NEW i, IsOnly(i, form, "k8s", vault)
                 PROVE  i \in at
    OBVIOUS
  <2>2. i \in DOMAIN vault.records /\ form.kind \notin Notations /\ form.kind # "file"
    BY <1>1, <2>1 DEF IsOnly, Notations
  <2> QED BY <2>1, <2>2 DEF IsOnly, TakenRight, ByUID, Titled, WebhookTakesForUID
<1>4. BatchedRecord = LastOf(vault.records, at)
  BY DEF BatchedRecord
<1> QED BY <1>2, <1>3, <1>4, FirstOrLastIsRight

\* A folder at a place with one folder at each step is the only one there.
LEMMA OneFolderAtPlace ==
  ASSUME NEW T, NEW place \in Seq(T), place # << >>, NEW folders, IsPlain(place, folders),
         NEW u \in FoldersAt(folders, place)
  PROVE  FoldersAt(folders, place) = {u}
<1>1. Len(place) \in DOMAIN place
  BY EmptySeq
<1>2. SubSeq(place, 1, Len(place)) = place
  BY SubSeqFull
<1>3. IsSingle(FoldersAt(folders, place))
  BY <1>1, <1>2 DEF IsPlain
<1> QED BY <1>3 DEF IsSingle

\* GetNotation finds it in a folder at the place.
LEMMA FolderRecordIsRight ==
  ASSUME NEW f \in Forms, f.kind \in Notations, f.place # << >>, NEW c, NEW v \in Vaults,
         NEW u \in FoldersAt(v.folders, f.place)
  PROVE  LET at == {i \in InFolder(v, u) : f.title \in {v.records[i].title, v.records[i].uid}}
         IN  IsRight(FirstOf(v.records, at), f, c, v)
<1> DEFINE at == {i \in InFolder(v, u) : f.title \in {v.records[i].title, v.records[i].uid}}
<1>1. \A i : i \in Meant(f, v) <=>
        /\ i \in DOMAIN v.records
        /\ v.records[i].folders \cap FoldersAt(v.folders, f.place) # {}
        /\ f.title \in {v.records[i].title, v.records[i].uid}
  BY DEF Meant, Title, Notations
<1>2. at \in SUBSET Meant(f, v)
  BY <1>1 DEF InFolder
<1>3. \A i : IsOnly(i, f, c, v) => i \in at
  <2>1. SUFFICES ASSUME NEW i, IsOnly(i, f, c, v)
                 PROVE  i \in at
    OBVIOUS
  <2>2. i \in Meant(f, v) /\ IsPlain(f.place, v.folders)
    BY <2>1 DEF IsOnly
  <2>3. FoldersAt(v.folders, f.place) = {u}
    BY <2>2, FormTyped, OneFolderAtPlace
  <2> QED BY <1>1, <2>2, <2>3 DEF InFolder
<1> QED BY <1>2, <1>3, FirstOrLastIsRight

\* So does the SDK, which takes the only record with the UID or else the title.
LEMMA SDKRecordIsRight ==
  ASSUME NEW f \in Forms, f.kind \in Notations, f.place = << >>, NEW c, NEW v \in Vaults
  PROVE  LET byUID == ByUID(v, f.title)
             at    == IF byUID # {} THEN byUID ELSE Titled(v, f.title)
         IN  /\ Cardinality(at) = 1 => Min(at) \in Meant(f, v)
             /\ \A i : IsOnly(i, f, c, v) => Cardinality(at) = 1 /\ Min(at) = i
<1> DEFINE byUID == ByUID(v, f.title)
           at    == IF byUID # {} THEN byUID ELSE Titled(v, f.title)
<1>1. \A i : i \in Meant(f, v) <=>
        i \in DOMAIN v.records /\ f.title \in {v.records[i].title, v.records[i].uid}
  BY DEF Meant, Title, Notations
<1>2. at \in SUBSET Meant(f, v)
  BY <1>1 DEF ByUID, Titled
<1>3. at \subseteq Nat
  BY <1>1, <1>2, VaultAssumption DEF Vaults
<1>4. ASSUME Cardinality(at) = 1
      PROVE  Min(at) \in Meant(f, v)
  <2> HIDE DEF at
  <2>1. at # {}
    <3>1. at = {} => Cardinality(at) = 0
      BY FS_EmptySet
    <3> QED BY <1>4, <3>1
  <2> QED BY <1>2, <1>3, <2>1, MinIsLeast
<1>5. ASSUME NEW i, IsOnly(i, f, c, v)
      PROVE  Cardinality(at) = 1 /\ Min(at) = i
  <2>1. Meant(f, v) = {i}
    BY <1>5 DEF IsOnly
  <2>2. at # {}
    BY <1>1, <2>1 DEF ByUID, Titled
  <2> HIDE DEF at
  <2>3. at = {i}
    BY <1>2, <2>1, <2>2
  <2>4. Cardinality(at) = 1
    BY <2>3, FS_Singleton
  <2>5. Min(at) \in at
    BY <1>3, <2>2, MinIsLeast
  <2> QED BY <2>3, <2>4, <2>5
<1> QED BY <1>4, <1>5
----------------------------------------------------------------------------
(* What is taken from the record. *)

\* An answer is what the record has, and it is one if the part is there.
IsTaken(result, f, record) ==
  /\ result = [ok |-> result.ok, data |-> result.data]
  /\ result.ok => IsMeant(f, result.data, record)
  /\ HasPart(f, record) => result.ok /\ result.data # {}

\* Failures and answers have their parts.
LEMMA AnswerParts ==
  /\ Failed = [ok |-> Failed.ok, data |-> Failed.data] /\ ~ Failed.ok
  /\ \A d : Answer(d) = [ok |-> Answer(d).ok, data |-> Answer(d).data]
  /\ \A d : Answer(d).ok /\ Answer(d).data = d
  /\ \A t : Raw(t) = [ok |-> Raw(t).ok, data |-> Raw(t).data]
  /\ \A t : Raw(t).ok /\ Raw(t).data = {<<NoText, t>>} /\ Raw(t).data # {}
BY DEF Failed, Answer, Raw

\* A field that has the part's name as its key is one that may be meant.
LEMMA PairIsMeant ==
  ASSUME NEW f, f.kind \in {"field"} \cup Sections, NEW record \in RecordType,
         NEW pair \in SecretFields(record), pair[1] = f.part
  PROVE  pair[2] \in MeantValues(f, record)
<1>1. PICK g \in FieldsOf(record) :
        /\ pair = <<pair[1], g.value>> /\ g.value # NoText
        /\ pair[1] = Key(g) \/ (pair[1] = <<"notes">> /\ g.type = <<"note">>)
  BY SecretFieldsTaken DEF IsPairOf
<1>2. pair[2] = g.value
  BY <1>1
<1>3. f.part \in {g.type, g.label} \/ (f.part = <<"notes">> /\ g.type = <<"note">>)
  BY <1>1 DEF Key
<1>4. f.kind \notin {"file", "fileNotation"} /\ g \in AllFields(record)
  BY DEF Sections, AllFields, FieldsOf
<1> QED BY <1>1, <1>2, <1>3, <1>4 DEF MeantValues

\* All fields.
LEMMA WholeTaken ==
  ASSUME NEW f, IsWhole(f), NEW record \in RecordType
  PROVE  IsTaken(Answer(SecretFields(record)), f, record)
<1> DEFINE data == SecretFields(record)
           fields == {h \in AllFields(record) : h.value # NoText}
<1>1. /\ \A pair \in data : IsPairOf(pair, record)
      /\ \A g \in AllFields(record) :
           g.value # NoText /\ Key(g) # NoText => \E pair \in data : pair[1] = Key(g)
  BY SecretFieldsTaken DEF AllFields, FieldsOf
<1> HIDE DEF data
<1>2. \A pair \in data : \E g \in fields :
        /\ pair[2] = g.value /\ pair[1] # NoText
        /\ pair[1] = Key(g) \/ (pair[1] = <<"notes">> /\ g.type = <<"note">>)
  <2>1. SUFFICES ASSUME NEW pair \in data
                 PROVE  \E g \in fields :
                          /\ pair[2] = g.value /\ pair[1] # NoText
                          /\ pair[1] = Key(g) \/ (pair[1] = <<"notes">> /\ g.type = <<"note">>)
    OBVIOUS
  <2>2. PICK g \in FieldsOf(record) :
          /\ pair = <<pair[1], g.value>> /\ g.value # NoText /\ pair[1] # NoText
          /\ pair[1] = Key(g) \/ (pair[1] = <<"notes">> /\ g.type = <<"note">>)
    BY <1>1 DEF IsPairOf
  <2>3. pair[2] = g.value
    BY <2>2
  <2>4. g \in fields
    BY <2>2 DEF AllFields, FieldsOf
  <2> QED BY <2>2, <2>3, <2>4
<1>3. {pair[1] : pair \in data} \ {<<"notes">>} =
        {Key(g) : g \in fields} \ {NoText, <<"notes">>}
  <2>1. \A key : key # <<"notes">> /\ (\E pair \in data : key = pair[1]) =>
                   key # NoText /\ \E g \in fields : key = Key(g)
    BY <1>2
  <2>2. \A key : key # NoText /\ (\E g \in fields : key = Key(g)) =>
                   \E pair \in data : key = pair[1]
    BY <1>1
  <2> QED BY <2>1, <2>2
<1>4. \A pair \in data : \E g \in AllFields(record) :
        /\ pair[2] = g.value
        /\ pair[1] = Key(g) \/ (pair[1] = <<"notes">> /\ g.type = <<"note">>)
  BY <1>2
<1>5. IsMeant(f, data, record)
  BY <1>3, <1>4 DEF IsMeant
<1>6. HasPart(f, record) => data # {}
  <2>1. f.kind \notin {"file", "fileNotation", "field"} \cup Sections
    BY DEF IsWhole, Sections
  <2>2. HasPart(f, record) => \E g \in fields : Key(g) # NoText
    BY <2>1 DEF HasPart
  <2> QED BY <1>1, <2>2
<1> QED BY <1>5, <1>6, AnswerParts DEF IsTaken, data

\* The value under the part's name, for a field or a notation in a folder.
LEMMA KeyTaken ==
  ASSUME NEW f \in Forms, f.kind = "field" \/ (f.kind \in Sections /\ f.place # << >>),
         NEW record \in RecordType
  PROVE  /\ IsTaken(ValueUnder(record, f.part), f, record)
         /\ IsTaken(Answer(WithKeys(SecretFields(record), {f.part})), f, record)
         /\ HasPart(f, record) => \E pair \in SecretFields(record) : pair[1] = f.part
<1>1. ~ IsWhole(f) /\ f.part # NoText /\ f.kind \in {"field"} \cup Sections
  BY FormTyped DEF IsWhole, Notations, Sections
<1>2. HasPart(f, record) => \E pair \in SecretFields(record) : pair[1] = f.part
  <2>1. f.kind \notin {"file", "fileNotation"} /\ ~ (f.kind \in Sections /\ f.place = << >>)
    BY DEF Sections
  <2>2. HasPart(f, record) => \E g \in AllFields(record) : g.value # NoText /\ Key(g) = f.part
    BY <1>1, <2>1 DEF HasPart
  <2> QED BY <1>1, <2>2, SecretFieldsTaken DEF AllFields, FieldsOf
<1>3. \A pair \in SecretFields(record) : pair[1] = f.part => pair[2] \in MeantValues(f, record)
  BY <1>1, PairIsMeant
<1>4. IsTaken(ValueUnder(record, f.part), f, record)
  <2> DEFINE result == ValueUnder(record, f.part)
  <2>1. /\ result.ok => \E pair \in SecretFields(record) :
                          pair[1] = f.part /\ result = Raw(pair[2])
        /\ HasPart(f, record) => result.ok
    BY <1>2, ValueTaken
  <2>2. result = [ok |-> result.ok, data |-> result.data]
    BY AnswerParts DEF ValueUnder
  <2> HIDE DEF result
  <2>3. ASSUME result.ok
        PROVE  IsMeant(f, result.data, record) /\ result.data # {}
    <3>1. PICK pair \in SecretFields(record) : pair[1] = f.part /\ result = Raw(pair[2])
      BY <2>1, <2>3
    <3>2. result.data = {<<NoText, pair[2]>>}
      BY <3>1, AnswerParts
    <3> QED BY <1>1, <1>3, <3>1, <3>2 DEF IsMeant
  <2>4. IsTaken(result, f, record)
    BY <2>1, <2>2, <2>3 DEF IsTaken
  <2> QED BY <2>4 DEF result
<1>5. IsTaken(Answer(WithKeys(SecretFields(record), {f.part})), f, record)
  <2> DEFINE data == WithKeys(SecretFields(record), {f.part})
  <2>1. data = {pair \in SecretFields(record) : pair[1] = f.part}
    BY DEF WithKeys
  <2> HIDE DEF data
  <2>2. IsMeant(f, data, record) /\ (HasPart(f, record) => data # {})
    BY <1>1, <1>2, <1>3, <2>1 DEF IsMeant
  <2> QED BY <2>2, AnswerParts DEF IsTaken, data
<1> QED BY <1>2, <1>4, <1>5

\* A standard field by its type, or the value under the key.
LEMMA FieldOrKeyTaken ==
  ASSUME NEW f \in Forms, f.kind \in Sections, f.place # << >>, NEW record \in RecordType
  PROVE  IsTaken(FieldOrKey(record, f.part), f, record)
<1> DEFINE value == FieldByType(record, f.part)
<1>1. CASE value = NoText
  BY <1>1, KeyTaken DEF FieldOrKey
<1>2. CASE value # NoText
  <2>1. FieldOrKey(record, f.part) = Raw(value)
    BY <1>2 DEF FieldOrKey
  <2>2. PICK g \in FieldsOf(record) : g.type = f.part /\ g.value = value
    BY <1>2, FieldByTypeFound
  <2> HIDE DEF value
  <2>3. value \in MeantValues(f, record)
    BY <1>2, <2>2 DEF MeantValues, AllFields, FieldsOf, Sections
  <2>4. IsMeant(f, Raw(value).data, record)
    BY <2>3, AnswerParts DEF IsMeant, IsWhole, Sections
  <2> QED BY <2>1, <2>4, AnswerParts DEF IsTaken
<1> QED BY <1>1, <1>2

\* The content of an attachment.
LEMMA ContentTaken ==
  ASSUME NEW f, f.kind \in {"file", "fileNotation"}, NEW record \in RecordType
  PROVE  IsTaken(FileContent(record, f.part), f, record)
<1> DEFINE result == FileContent(record, f.part)
           files  == {a \in ToSet(record.files) : f.part \in {a.name, a.title}}
<1>1. /\ result.ok => \E a \in files : result = Raw(a.data)
      /\ files # {} => result.ok
  BY FileTaken
<1>2. MeantValues(f, record) = {a.data : a \in files}
  BY DEF MeantValues
<1>3. HasPart(f, record) => files # {}
  BY <1>2, SMTT(40) DEF HasPart, IsWhole, Sections
<1>4. result = [ok |-> result.ok, data |-> result.data]
  BY AnswerParts DEF FileContent
<1>5. ~ IsWhole(f)
  BY DEF IsWhole
<1> HIDE DEF result, files
<1>6. ASSUME result.ok
      PROVE  IsMeant(f, result.data, record) /\ result.data # {}
  <2>1. PICK a \in files : result = Raw(a.data)
    BY <1>1, <1>6
  <2>2. result.data = {<<NoText, a.data>>}
    BY <2>1, AnswerParts
  <2> QED BY <1>2, <1>5, <2>2 DEF IsMeant
<1>7. IsTaken(result, f, record)
  BY <1>1, <1>3, <1>4, <1>6 DEF IsTaken
<1> QED BY <1>7 DEF result

\* What the SDK takes from the section that a notation names.
LEMMA SectionFieldTaken ==
  ASSUME NEW f, f.kind \in Sections, f.place = << >>, NEW record \in RecordType
  PROVE  LET section == IF f.kind = "notation" THEN record.fields ELSE record.custom
         IN  IsTaken(InSection(section, Unindexed(f.part)), f, record)
<1> DEFINE section == IF f.kind = "notation" THEN record.fields ELSE record.custom
           name    == Unindexed(f.part)
           result  == InSection(section, name)
           same    == {g \in ToSet(section) : name \in {g.type, g.label}}
<1>1. section \in Seq(FieldType) /\ ToSet(section) \subseteq AllFields(record)
  <2>1. record.fields \in Seq(FieldType) /\ record.custom \in Seq(FieldType)
    BY DEF RecordType
  <2>2. /\ \A i \in DOMAIN record.fields : record.fields[i] \in FieldsOf(record)
        /\ \A i \in DOMAIN record.custom : record.custom[i] \in FieldsOf(record)
    BY SectionsJoined
  <2>3. ToSet(record.fields) \subseteq FieldsOf(record) /\ ToSet(record.custom) \subseteq FieldsOf(record)
    BY <2>2 DEF ToSet
  <2>4. FieldsOf(record) = AllFields(record)
    BY DEF AllFields, FieldsOf
  <2> QED BY <2>1, <2>3, <2>4
<1>2. /\ result.ok => \E g \in same : g.value # NoText /\ result = Raw(g.value)
      /\ same # {} /\ (\A g \in same : g.value # NoText) => result.ok
  <2> HIDE DEF section, name
  <2> QED BY <1>1, SectionTaken
<1>3. result = [ok |-> result.ok, data |-> result.data]
  BY AnswerParts DEF InSection
<1>4. HasPart(f, record) => same # {} /\ \A g \in same : g.value # NoText
  <2>1. ~ Holds(f.part, <<"[">>) => name = f.part
    BY DEF Holds, Unindexed
  <2> HIDE DEF name
  <2>2. HasPart(f, record) =>
          /\ name = f.part
          /\ {g \in ToSet(section) : f.part \in {g.type, g.label}} # {}
          /\ \A g \in {h \in ToSet(section) : f.part \in {h.type, h.label}} : g.value # NoText
    BY <2>1 DEF HasPart, IsWhole, Sections
  <2> QED BY <2>2
<1>5. \A g \in same : g.value # NoText => g.value \in MeantValues(f, record)
  BY <1>1 DEF MeantValues, Sections, Notations
<1>6. ~ IsWhole(f)
  BY DEF IsWhole, Sections
<1> HIDE DEF result, same
<1>7. ASSUME result.ok
      PROVE  IsMeant(f, result.data, record) /\ result.data # {}
  <2>1. PICK g \in same : g.value # NoText /\ result = Raw(g.value)
    BY <1>2, <1>7
  <2>2. result.data = {<<NoText, g.value>>}
    BY <2>1, AnswerParts
  <2> QED BY <1>5, <1>6, <2>1, <2>2 DEF IsMeant
<1>8. IsTaken(result, f, record)
  BY <1>2, <1>3, <1>4, <1>7 DEF IsTaken
<1> QED BY <1>8 DEF result
----------------------------------------------------------------------------
(* What is delivered over each channel. *)

\* An answer is what a record has that is meant, and there is one if the only
\* such record has the part.
IsGood(result, f, c, v) ==
  /\ result = [ok |-> result.ok, data |-> result.data]
  /\ result.ok => \E i \in Meant(f, v) : IsMeant(f, result.data, v.records[i])
  /\ \A i : IsOnly(i, f, c, v) /\ HasPart(f, v.records[i]) => result.ok /\ result.data # {}

\* It is if it is taken from the right record.
LEMMA TakenFromRight ==
  ASSUME NEW f, NEW c, NEW v, NEW found, IsRight(found, f, c, v), NEW result,
         found = << >> => result = Failed,
         \A i \in DOMAIN v.records : found = <<v.records[i]>> => IsTaken(result, f, v.records[i])
  PROVE  IsGood(result, f, c, v)
<1>1. Meant(f, v) \subseteq DOMAIN v.records
  BY DEF Meant
<1>2. found # << >> => \E i \in Meant(f, v) : found = <<v.records[i]>>
  BY DEF IsRight
<1>3. result = [ok |-> result.ok, data |-> result.data]
  BY <1>1, <1>2, AnswerParts DEF IsTaken
<1>4. result.ok => \E i \in Meant(f, v) : IsMeant(f, result.data, v.records[i])
  BY <1>1, <1>2, AnswerParts DEF IsTaken
<1>5. ASSUME NEW i, IsOnly(i, f, c, v), HasPart(f, v.records[i])
      PROVE  result.ok /\ result.data # {}
  <2>1. i \in DOMAIN v.records
    BY <1>1, <1>5 DEF IsOnly
  <2>2. found = <<v.records[i]>>
    BY <1>5 DEF IsRight
  <2> QED BY <1>5, <2>1, <2>2 DEF IsTaken
<1> QED BY <1>3, <1>4, <1>5 DEF IsGood

\* The name under which one part of a record arrives does not matter.
LEMMA KeyedGood ==
  ASSUME NEW f, ~ IsWhole(f), NEW c, NEW v, NEW result, IsGood(result, f, c, v),
         NEW key
  PROVE  IsGood(Keyed(key, result), f, c, v)
<1> DEFINE d     == {<<key, pair[2]>> : pair \in result.data}
           keyed == Keyed(key, result)
<1>1. result = [ok |-> result.ok, data |-> result.data]
  BY DEF IsGood
<1>2. keyed = [ok |-> result.ok, data |-> d]
  <2>1. keyed = [result EXCEPT !.data = d]
    BY DEF Keyed
  <2> HIDE DEF d, keyed
  <2> QED BY <1>1, <2>1
<1>3. /\ \A pair \in d : \E old \in result.data : pair[2] = old[2]
      /\ result.data # {} => d # {}
  <2> DEFINE Pair(old) == <<key, old[2]>>
  <2>1. \A old : Pair(old)[2] = old[2]
    OBVIOUS
  <2>2. d = {Pair(old) : old \in result.data}
    OBVIOUS
  <2> HIDE DEF Pair, d
  <2> QED BY <2>1, <2>2
<1> HIDE DEF d
<1>4. keyed.ok = result.ok /\ keyed.data = d /\ keyed = [ok |-> keyed.ok, data |-> keyed.data]
  BY <1>2
<1> HIDE DEF keyed
<1>5. \A record : IsMeant(f, result.data, record) => IsMeant(f, keyed.data, record)
  BY <1>3, <1>4 DEF IsMeant
<1>6. IsGood(keyed, f, c, v)
  BY <1>3, <1>4, <1>5 DEF IsGood
<1> QED BY <1>6 DEF keyed

\* Of a vault's records only a place tells the folders.
LEMMA FoldersDoNotMatter ==
  ASSUME NEW f, f.place = << >>, NEW c, NEW v, NEW w, v.records = w.records,
         NEW result, IsGood(result, f, c, v)
  PROVE  IsGood(result, f, c, w)
<1>1. Meant(f, v) = Meant(f, w)
  BY DEF Meant
<1>2. \A i : IsOnly(i, f, c, w) => IsOnly(i, f, c, v)
  BY <1>1 DEF IsOnly
<1> QED BY <1>1, <1>2 DEF IsGood

\* A notation with a folder, once the folder is known.
LEMMA FolderNotationGood ==
  ASSUME NEW f \in Forms, f.kind \in Notations, f.place # << >>, NEW c, NEW v \in Vaults,
         NEW u \in FoldersAt(v.folders, f.place), NEW np,
         np.record = f.title, np.selector = <<Selector(f)>>, np.parameter = f.part
  PROVE  IsGood(NotationInFolder(v, u, np), f, c, v)
<1> DEFINE at     == {i \in InFolder(v, u) : f.title \in {v.records[i].title, v.records[i].uid}}
           found  == FirstOf(v.records, at)
           result == NotationInFolder(v, u, np)
           taken  == IF f.kind = "notation" THEN FieldOrKey(found[1], f.part)
                     ELSE IF f.kind = "customNotation" THEN ValueUnder(found[1], f.part)
                     ELSE FileContent(found[1], f.part)
<1>1. IsRight(found, f, c, v)
  BY FolderRecordIsRight
<1>2. f.part # NoText
  BY FormTyped
<1>3. result = IF found = << >> THEN Failed ELSE taken
  <2> DEFINE sel == <<Selector(f)>>
  <2>1. /\ f.kind = "notation" => sel = <<"field">>
        /\ f.kind = "customNotation" => sel = <<"custom_field">>
        /\ f.kind = "fileNotation" => sel = <<"file">>
        /\ f.kind \in {"notation", "customNotation", "fileNotation"}
    BY DEF Selector, Notations
  <2>2. sel # NoText
    BY DEF NoText
  <2>3. /\ <<"field">> # <<"type">> /\ <<"field">> # <<"title">> /\ <<"field">> # <<"notes">>
        /\ <<"custom_field">> # <<"type">> /\ <<"custom_field">> # <<"title">>
        /\ <<"custom_field">> # <<"notes">> /\ <<"custom_field">> # <<"field">>
        /\ <<"file">> # <<"type">> /\ <<"file">> # <<"title">> /\ <<"file">> # <<"notes">>
        /\ <<"file">> # <<"field">> /\ <<"file">> # <<"custom_field">>
    OBVIOUS
  <2>4. np.selector = sel /\ np.parameter # NoText
    BY <1>2
  <2> HIDE DEF sel
  <2>5. CASE f.kind = "notation"
    <3>1. sel = <<"field">>
      BY <2>1, <2>5
    <3> QED BY <2>2, <2>3, <2>4, <2>5, <3>1 DEF NotationInFolder
  <2>6. CASE f.kind = "customNotation"
    <3>1. sel = <<"custom_field">>
      BY <2>1, <2>6
    <3> QED BY <2>2, <2>3, <2>4, <2>6, <3>1 DEF NotationInFolder
  <2>7. CASE f.kind = "fileNotation"
    <3>1. sel = <<"file">>
      BY <2>1, <2>7
    <3> QED BY <2>2, <2>3, <2>4, <2>7, <3>1 DEF NotationInFolder
  <2> QED BY <2>1, <2>5, <2>6, <2>7
<1>4. ASSUME NEW i \in DOMAIN v.records, found = <<v.records[i]>>
      PROVE  IsTaken(result, f, v.records[i])
  <2> DEFINE record == v.records[i]
  <2>1. record \in RecordType
    BY VaultAssumption DEF Vaults
  <2>2. found[1] = record /\ found # << >>
    BY <1>4
  <2> HIDE DEF record, found
  <2>3. result = IF f.kind = "notation" THEN FieldOrKey(record, f.part)
                 ELSE IF f.kind = "customNotation" THEN ValueUnder(record, f.part)
                 ELSE FileContent(record, f.part)
    BY <1>3, <2>2
  <2> HIDE DEF result
  <2>4. CASE f.kind = "notation"
    BY <2>1, <2>3, <2>4, FieldOrKeyTaken DEF Sections, record
  <2>5. CASE f.kind = "customNotation"
    BY <2>1, <2>3, <2>5, KeyTaken DEF Sections, record
  <2>6. CASE f.kind = "fileNotation"
    BY <2>1, <2>3, <2>6, ContentTaken DEF record
  <2> QED BY <2>4, <2>5, <2>6 DEF Notations
<1> HIDE DEF found, result
<1> QED BY <1>1, <1>3, <1>4, TakenFromRight DEF result

\* A notation for the SDK.
LEMMA SDKNotationGood ==
  ASSUME NEW f \in Forms, f.kind \in Notations, f.place = << >>, Slashless(f), NEW c,
         NEW v \in Vaults
  PROVE  IsGood(SDKNotation(v, Scheme \o Selected(f)), f, c, v)
<1> DEFINE parts  == NotationParts(Scheme \o Selected(f))
           byUID  == ByUID(v, f.title)
           at     == IF byUID # {} THEN byUID ELSE Titled(v, f.title)
           record == v.records[Min(at)]
           found  == IF Cardinality(at) = 1 THEN <<record>> ELSE << >>
           result == SDKNotation(v, Scheme \o Selected(f))
           name   == Unindexed(f.part)
<1>1. /\ Len(parts) = 3 /\ parts[1] = f.title /\ parts[2] = <<Selector(f)>> /\ parts[3] = f.part
  <2>1. IsApart(parts, f)
    BY PartsOfNotation
  <2>2. Len(f.place) = 0
    OBVIOUS
  <2> HIDE DEF parts
  <2> QED BY <2>1, <2>2 DEF IsApart
<1>2. /\ Cardinality(at) = 1 => Min(at) \in Meant(f, v)
      /\ \A i : IsOnly(i, f, c, v) => Cardinality(at) = 1 /\ Min(at) = i
  BY SDKRecordIsRight
<1>3. IsRight(found, f, c, v)
  <2> HIDE DEF at
  <2>1. <<record>> # << >>
    OBVIOUS
  <2> QED BY <1>2, <2>1 DEF IsRight
<1>4. result = IF found = << >> THEN Failed
               ELSE IF f.kind = "notation" THEN InSection(record.fields, name)
               ELSE IF f.kind = "customNotation" THEN InSection(record.custom, name)
               ELSE FileContent(record, f.part)
  <2> DEFINE sel == <<Selector(f)>>
  <2>1. /\ f.kind = "notation" => sel = <<"field">>
        /\ f.kind = "customNotation" => sel = <<"custom_field">>
        /\ f.kind = "fileNotation" => sel = <<"file">>
        /\ f.kind \in {"notation", "customNotation", "fileNotation"}
    BY DEF Selector, Notations
  <2>2. found = << >> <=> Cardinality(at) # 1
    OBVIOUS
  <2> HIDE DEF sel, found, name
  <2>3. result = IF Cardinality(at) # 1 THEN Failed
                 ELSE CASE sel = <<"type">> -> Raw(record.type)
                        [] sel = <<"title">> -> Raw(record.title)
                        [] sel = <<"notes">> -> Raw(FieldByType(record, <<"note">>))
                        [] sel = <<"field">> -> InSection(record.fields, name)
                        [] sel = <<"custom_field">> -> InSection(record.custom, name)
                        [] sel = <<"file">> -> FileContent(record, f.part)
                        [] OTHER -> Failed
    <3> HIDE DEF parts
    <3>1. ~ (Len(parts) < 2) /\ ~ (Len(parts) < 3)
      BY <1>1
    <3> QED BY <1>1, <3>1 DEF SDKNotation, parts, sel, name
  <2>4. /\ <<"field">> # <<"type">> /\ <<"field">> # <<"title">> /\ <<"field">> # <<"notes">>
        /\ <<"custom_field">> # <<"type">> /\ <<"custom_field">> # <<"title">>
        /\ <<"custom_field">> # <<"notes">> /\ <<"custom_field">> # <<"field">>
        /\ <<"file">> # <<"type">> /\ <<"file">> # <<"title">> /\ <<"file">> # <<"notes">>
        /\ <<"file">> # <<"field">> /\ <<"file">> # <<"custom_field">>
    OBVIOUS
  <2> HIDE DEF result, record, at
  <2>5. CASE f.kind = "notation"
    BY <2>1, <2>2, <2>3, <2>4, <2>5
  <2>6. CASE f.kind = "customNotation"
    BY <2>1, <2>2, <2>3, <2>4, <2>6
  <2>7. CASE f.kind = "fileNotation"
    BY <2>1, <2>2, <2>3, <2>4, <2>7
  <2> QED BY <2>1, <2>5, <2>6, <2>7
<1>5. ASSUME NEW i \in DOMAIN v.records, found = <<v.records[i]>>
      PROVE  IsTaken(result, f, v.records[i])
  <2>1. v.records[i] \in RecordType
    BY VaultAssumption DEF Vaults
  <2>2. found # << >> /\ record = v.records[i]
    <3> HIDE DEF record
    <3> QED BY <1>5
  <2> HIDE DEF record, found, result, name
  <2>3. record \in RecordType /\
        result = IF f.kind = "notation" THEN InSection(record.fields, name)
                 ELSE IF f.kind = "customNotation" THEN InSection(record.custom, name)
                 ELSE FileContent(record, f.part)
    BY <1>4, <2>1, <2>2
  <2>4. CASE f.kind \in Sections
    <3>1. LET section == IF f.kind = "notation" THEN record.fields ELSE record.custom
          IN  IsTaken(InSection(section, name), f, record)
      BY <2>3, <2>4, SectionFieldTaken DEF name
    <3> QED BY <2>2, <2>3, <2>4, <3>1 DEF Sections
  <2>5. CASE f.kind = "fileNotation"
    BY <2>2, <2>3, <2>5, ContentTaken
  <2> QED BY <2>4, <2>5 DEF Notations, Sections
<1> HIDE DEF found, result, record
<1> QED BY <1>3, <1>4, <1>5, TakenFromRight DEF result

\* GetNotation, if the folder is one at the place.
LEMMA NotationGood ==
  ASSUME form \in Forms, form.kind \in Notations, ~ Misleading(form),
         ref.notation = Scheme \o Selected(form), vault \in Vaults,
         NEW v \in Vaults, v.records = vault.records,
         form.place # << >> => folder[1].uid \in FoldersAt(v.folders, form.place),
         NEW c
  PROVE  IsGood(NotationAnswer, form, c, v)
<1> DEFINE n  == Scheme \o Selected(form)
           np == ParseNotationPath(n)
<1>1. /\ Slashless(form) /\ form.title \notin Selectors
      /\ \A k \in DOMAIN form.place : form.place[k] \notin Selectors
  BY DEF Misleading, Slashless
<1>2. IF form.place = << >> THEN np.folder = << >>
      ELSE /\ np.folder = form.place /\ np.record = form.title
           /\ np.selector = <<Selector(form)>> /\ np.parameter = form.part
  BY <1>1, NotationPathRead
<1>3. CASE form.place = << >>
  <2>1. NotationAnswer = SDKNotation(vault, n)
    <3> HIDE DEF n
    <3>1. ref.notation = n
      BY DEF n
    <3> QED BY <1>2, <1>3, <3>1 DEF NotationAnswer
  <2>2. IsGood(SDKNotation(vault, n), form, c, vault)
    BY <1>1, <1>3, SDKNotationGood
  <2> HIDE DEF n, np
  <2> QED BY <1>3, <2>1, <2>2, FoldersDoNotMatter
<1>4. CASE form.place # << >>
  <2> DEFINE u == folder[1].uid
  <2>1. NotationAnswer = NotationInFolder(vault, u, np)
    <3> HIDE DEF n
    <3>1. ref.notation = n
      BY DEF n
    <3> QED BY <1>2, <1>4, <3>1 DEF NotationAnswer
  <2>2. NotationInFolder(vault, u, np) = NotationInFolder(v, u, np)
    <3> HIDE DEF u, np
    <3>1. InFolder(vault, u) = InFolder(v, u)
      BY DEF InFolder
    <3> QED BY <3>1 DEF NotationInFolder
  <2>3. IsGood(NotationInFolder(v, u, np), form, c, v)
    BY <1>2, <1>4, FolderNotationGood
  <2> QED BY <2>1, <2>2, <2>3
<1> QED BY <1>3, <1>4

\* What a form without a notation and a folder is read as.
LEMMA PlainRead ==
  ASSUME NEW f \in Forms, f.kind \in {"path", "record", "field", "file"}, ~ Misleading(f),
         NEW entry, entry = ReadAs(f)
  PROVE  /\ f.place = << >> /\ entry.notation = NoText /\ entry.name = Title(f)
         /\ entry.isFile <=> f.kind = "file"
         /\ f.kind = "file" => entry.fileName = f.part /\ Title(f) = f.title
         /\ IF f.kind = "field" THEN entry.fields = <<f.part>> ELSE entry.fields = << >>
         /\ IsWhole(f) <=> f.kind \in {"path", "record"}
<1>1. f.kind \notin Notations \cup {"folder"}
  BY DEF Notations
<1>2. Matches(entry, f) /\ entry.notation = NoText /\ f.place = << >>
  BY <1>1, NotMisleadingRead, PlaceTyped
<1> QED BY <1>1, <1>2 DEF Matches, Title, IsWhole

\* All fields, a field or an attachment of what GetSecret has found.
LEMMA FieldsGood ==
  ASSUME NEW f \in Forms, NEW c, NEW v \in Vaults, NEW found, IsRight(found, f, c, v)
  PROVE  LET Good(taken) == IsGood(IF found = << >> THEN Failed ELSE taken, f, c, v)
         IN  /\ IsWhole(f) => Good(Answer(SecretFields(found[1])))
             /\ f.kind = "field" =>
                  /\ Good(ValueUnder(found[1], f.part))
                  /\ Good(Answer(WithKeys(SecretFields(found[1]), {f.part})))
                  /\ Good(IF WithKeys(SecretFields(found[1]), {f.part}) = {} THEN Failed
                          ELSE Answer(WithKeys(SecretFields(found[1]), {f.part})))
             /\ f.kind = "file" => Good(FileContent(found[1], f.part))
<1> DEFINE Given(taken) == IF found = << >> THEN Failed ELSE taken
<1>1. ASSUME NEW taken, NEW i \in DOMAIN v.records, found = <<v.records[i]>>
      PROVE  /\ Given(taken) = taken /\ found[1] = v.records[i] /\ v.records[i] \in RecordType
  <2>1. found # << >> /\ found[1] = v.records[i]
    BY <1>1
  <2> QED BY <2>1, VaultAssumption DEF Vaults
<1>2. ASSUME NEW taken,
             \A i \in DOMAIN v.records : found = <<v.records[i]>> => IsTaken(taken, f, v.records[i])
      PROVE  IsGood(Given(taken), f, c, v)
  <2>1. found = << >> => Given(taken) = Failed
    OBVIOUS
  <2>2. \A i \in DOMAIN v.records :
          found = <<v.records[i]>> => IsTaken(Given(taken), f, v.records[i])
    BY <1>1, <1>2
  <2> HIDE DEF Given
  <2> QED BY <2>1, <2>2, TakenFromRight
<1>3. ASSUME IsWhole(f)
      PROVE  IsGood(Given(Answer(SecretFields(found[1]))), f, c, v)
  BY <1>1, <1>2, <1>3, WholeTaken
<1>4. ASSUME f.kind = "field"
      PROVE  /\ IsGood(Given(ValueUnder(found[1], f.part)), f, c, v)
             /\ IsGood(Given(Answer(WithKeys(SecretFields(found[1]), {f.part}))), f, c, v)
  BY <1>1, <1>2, <1>4, KeyTaken
<1>5. ASSUME f.kind = "field"
      PROVE  IsGood(Given(IF WithKeys(SecretFields(found[1]), {f.part}) = {} THEN Failed
                          ELSE Answer(WithKeys(SecretFields(found[1]), {f.part}))), f, c, v)
  <2> DEFINE asked == WithKeys(SecretFields(found[1]), {f.part})
             taken == IF asked = {} THEN Failed ELSE Answer(asked)
  <2>1. ASSUME NEW i \in DOMAIN v.records, found = <<v.records[i]>>
        PROVE  IsTaken(taken, f, v.records[i])
    <3> DEFINE record == v.records[i]
    <3>1. record \in RecordType /\ found[1] = record
      BY <1>1, <2>1
    <3> HIDE DEF record
    <3>2. asked = {pair \in SecretFields(record) : pair[1] = f.part}
      BY <3>1 DEF WithKeys
    <3>3. /\ IsTaken(Answer(asked), f, record)
          /\ HasPart(f, record) => \E pair \in SecretFields(record) : pair[1] = f.part
      BY <1>5, <3>1, KeyTaken
    <3>4. HasPart(f, record) => asked # {}
      BY <3>2, <3>3
    <3> HIDE DEF asked
    <3> QED BY <3>3, <3>4, AnswerParts DEF IsTaken, record
  <2> HIDE DEF taken, Given
  <2>2. IsGood(Given(taken), f, c, v)
    BY <1>2, <2>1
  <2> QED BY <2>2 DEF taken
<1>6. ASSUME f.kind = "file"
      PROVE  IsGood(Given(FileContent(found[1], f.part)), f, c, v)
  BY <1>1, <1>2, <1>6, ContentTaken
<1> QED BY <1>3, <1>4, <1>5, <1>6

\* An attachment, whoever asks for it.
LEMMA FileContentGood ==
  ASSUME NEW f \in Forms, f.kind = "file", f.place = << >>, NEW c, NEW v \in Vaults
  PROVE  IsGood(GetFileContent(v, f.title, f.part), f, c, v)
<1> DEFINE at    == IF LooksLikeUID(f.title) THEN ByUID(v, f.title) ELSE Titled(v, f.title)
           found == FirstOf(v.records, at)
<1>1. IsRight(found, f, c, v)
  BY FileRecordIsRight
<1>2. GetFileContent(v, f.title, f.part) =
        IF found = << >> THEN Failed ELSE FileContent(found[1], f.part)
  BY DEF GetFileContent
<1> HIDE DEF found
<1>3. IsGood(IF found = << >> THEN Failed ELSE FileContent(found[1], f.part), f, c, v)
  BY <1>1, FieldsGood
<1> QED BY <1>2, <1>3

\* What a lookup starts from: the folder of its path, if it has one, is a folder
\* at the place that is meant, in a vault v with the same records.
Found(v) ==
  /\ form \in Forms /\ ~ Misleading(form) /\ ref = ReadAs(form)
  /\ vault \in Vaults /\ v \in Vaults /\ v.records = vault.records
  /\ form.place # << >> => folder[1].uid \in FoldersAt(v.folders, form.place)

\* Files.
LEMMA FileAnswerGood ==
  ASSUME NEW v, Found(v), form.kind # "folder"
  PROVE  IsGood(FileAnswer, form, "file", v)
<1>1. CASE form.kind \in Notations
  <2>1. ref.notation = Scheme \o Selected(form) /\ ref.notation # NoText
    BY <1>1, NotMisleadingRead DEF Found, Matches
  <2>2. IsGood(NotationAnswer, form, "file", v)
    BY <1>1, <2>1, NotationGood DEF Found
  <2> QED BY <2>1, <2>2 DEF FileAnswer
<1>2. CASE form.kind \in {"path", "record", "field", "file"}
  <2>1. /\ form.place = << >> /\ ref.notation = NoText /\ ref.name = Title(form)
        /\ ref.isFile <=> form.kind = "file"
        /\ form.kind = "file" => ref.fileName = form.part /\ Title(form) = form.title
        /\ IF form.kind = "field" THEN ref.fields = <<form.part>> ELSE ref.fields = << >>
        /\ IsWhole(form) <=> form.kind \in {"path", "record"}
    BY <1>2, PlainRead DEF Found
  <2>2. CASE form.kind = "file"
    <3>1. FileAnswer = GetFileContent(vault, form.title, form.part)
      BY <2>1, <2>2 DEF FileAnswer
    <3>2. IsGood(FileAnswer, form, "file", vault)
      BY <2>1, <2>2, <3>1, FileContentGood DEF Found
    <3> QED BY <2>1, <3>2, FoldersDoNotMatter DEF Found
  <2>3. CASE form.kind # "file"
    <3> DEFINE found == GetSecret(vault, strict, ref.name)
    <3>1. IsRight(found, form, "file", vault)
      BY <1>2, <2>1, GetSecretIsRight DEF Found
    <3>2. FileAnswer = IF found = << >> THEN Failed
                       ELSE IF form.kind = "field" THEN ValueUnder(found[1], form.part)
                       ELSE Answer(SecretFields(found[1]))
      <4>1. Len(<<form.part>>) = 1 /\ <<form.part>>[1] = form.part /\ Len(<< >>) # 1
        OBVIOUS
      <4>2. GetSecretField(vault, strict, ref.name, form.part) =
              IF found = << >> THEN Failed ELSE ValueUnder(found[1], form.part)
        BY DEF GetSecretField
      <4> HIDE DEF found
      <4> QED BY <1>2, <2>1, <2>3, <4>1, <4>2 DEF FileAnswer, found
    <3> HIDE DEF found
    <3>3. IsGood(FileAnswer, form, "file", vault)
      BY <1>2, <2>1, <2>3, <3>1, <3>2, FieldsGood DEF Found
    <3> QED BY <2>1, <3>3, FoldersDoNotMatter DEF Found
  <2> QED BY <2>2, <2>3
<1> QED BY <1>1, <1>2, PlaceTyped DEF Found

\* Environment variables.
LEMMA EnvAnswerGood ==
  ASSUME NEW v, Found(v), form.kind # "folder", ~ ref.isFile
  PROVE  IsGood(EnvAnswer, form, "env", v)
<1>1. CASE form.kind \in Notations
  <2>1. ref.notation = Scheme \o Selected(form) /\ ref.notation # NoText
    BY <1>1, NotMisleadingRead DEF Found, Matches
  <2>2. IsGood(NotationAnswer, form, "env", v)
    BY <1>1, <2>1, NotationGood DEF Found
  <2>3. IsGood(Keyed(ref.name, NotationAnswer), form, "env", v)
    BY <1>1, <2>2, KeyedGood DEF IsWhole, Notations
  <2> QED BY <2>1, <2>3 DEF EnvAnswer
<1>2. CASE form.kind \in {"path", "record", "field", "file"}
  <2>1. /\ form.place = << >> /\ ref.notation = NoText /\ ref.name = Title(form)
        /\ form.kind # "file"
        /\ IF form.kind = "field" THEN ref.fields = <<form.part>> ELSE ref.fields = << >>
        /\ IsWhole(form) <=> form.kind \in {"path", "record"}
    BY <1>2, PlainRead DEF Found
  <2> DEFINE found == GetSecret(vault, strict, ref.name)
             data  == SecretFields(found[1])
             asked == WithKeys(data, {form.part})
  <2>2. IsRight(found, form, "env", vault)
    BY <1>2, <2>1, GetSecretIsRight DEF Found
  <2>3. EnvAnswer = IF found = << >> THEN Failed
                    ELSE IF form.kind # "field" THEN Answer(data)
                    ELSE IF asked = {} THEN Failed ELSE Answer(asked)
    <3>1. ToSet(<<form.part>>) = {form.part} /\ <<form.part>> # << >>
      BY DEF ToSet
    <3> HIDE DEF found, data
    <3> QED BY <1>2, <2>1, <3>1 DEF EnvAnswer, found, data
  <2> HIDE DEF found
  <2>4. IsGood(EnvAnswer, form, "env", vault)
    BY <1>2, <2>1, <2>2, <2>3, FieldsGood DEF Found
  <2> QED BY <2>1, <2>4, FoldersDoNotMatter DEF Found
<1> QED BY <1>1, <1>2, PlaceTyped DEF Found

\* Kubernetes Secrets.
LEMMA K8sAnswerGood ==
  ASSUME NEW v, Found(v), form.kind # "folder"
  PROVE  IsGood(K8sAnswer, form, "k8s", v)
<1>1. CASE form.kind \in Notations
  <2>1. ref.notation = Scheme \o Selected(form) /\ ref.notation # NoText
    BY <1>1, NotMisleadingRead DEF Found, Matches
  <2>2. IsGood(NotationAnswer, form, "k8s", v)
    BY <1>1, <2>1, NotationGood DEF Found
  <2>3. IsGood(Keyed(<<"value">>, NotationAnswer), form, "k8s", v)
    BY <1>1, <2>2, KeyedGood DEF IsWhole, Notations
  <2> QED BY <2>1, <2>3 DEF K8sAnswer
<1>2. CASE form.kind \in {"path", "record", "field", "file"}
  <2>1. /\ form.place = << >> /\ ref.notation = NoText /\ ref.name = Title(form)
        /\ ref.isFile <=> form.kind = "file"
        /\ form.kind = "file" => ref.fileName = form.part /\ Title(form) = form.title
        /\ IF form.kind = "field" THEN ref.fields = <<form.part>> ELSE ref.fields = << >>
        /\ IsWhole(form) <=> form.kind \in {"path", "record"}
    BY <1>2, PlainRead DEF Found
  <2>2. CASE form.kind = "file"
    <3>1. K8sAnswer = Keyed(ref.fileName, GetFileContent(vault, form.title, form.part))
      BY <2>1, <2>2 DEF K8sAnswer
    <3>2. IsGood(GetFileContent(vault, form.title, form.part), form, "k8s", vault)
      BY <2>1, <2>2, FileContentGood DEF Found
    <3>3. IsGood(K8sAnswer, form, "k8s", vault)
      BY <2>1, <2>2, <3>1, <3>2, KeyedGood
    <3> QED BY <2>1, <3>3, FoldersDoNotMatter DEF Found
  <2>3. CASE form.kind # "file"
    <3> DEFINE found == BatchedRecord
               data  == SecretFields(found[1])
    <3>1. IsRight(found, form, "k8s", vault)
      BY <1>2, <2>1, <2>3, BatchedIsRight DEF Found
    <3>2. K8sAnswer = IF found = << >> THEN Failed
                      ELSE IF form.kind # "field" THEN Answer(data)
                      ELSE Answer(WithKeys(data, {form.part}))
      <4>1. ToSet(<<form.part>>) = {form.part} /\ <<form.part>> # << >>
        BY DEF ToSet
      <4> QED BY <1>2, <2>1, <2>3, <4>1 DEF K8sAnswer
    <3> HIDE DEF found
    <3>3. IsGood(K8sAnswer, form, "k8s", vault)
      BY <1>2, <2>1, <2>3, <3>1, <3>2, FieldsGood DEF Found
    <3> QED BY <2>1, <3>3, FoldersDoNotMatter DEF Found
  <2> QED BY <2>2, <2>3
<1> QED BY <1>1, <1>2, PlaceTyped DEF Found

\* A folder of files.
LEMMA FolderAnswerGood ==
  ASSUME NEW v, Found(v), form.kind = "folder"
  PROVE  /\ FolderAnswer.ok /\ IsOf(form, FolderAnswer.data, v)
         /\ IsThere(form, channel, v) => FolderAnswer.data # {}
<1> DEFINE u           == folder[1].uid
           at          == InFolder(vault, u)
           FileName(i) == SanitizeFilename(vault.records[i].title)
           latest      == {i \in at : \A j \in at : j > i => FileName(j) # FileName(i)}
           Pair(i)     == <<FileName(i), vault.records[i].uid>>
           data        == {Pair(i) : i \in latest}
           records     == {r \in ToSet(v.records) : u \in r.folders}
<1>1. FolderAnswer.ok /\ FolderAnswer.data = data
  <2>1. FolderAnswer = Answer(data)
    BY DEF FolderAnswer
  <2> HIDE DEF data
  <2> QED BY <2>1, AnswerParts
<1>2. form.place # << >> /\ u \in FoldersAt(v.folders, form.place)
  BY FormTyped DEF Found
<1>3. /\ v.records = vault.records
      /\ DOMAIN vault.records = 1 .. Len(vault.records) /\ Len(vault.records) \in Nat
  BY VaultAssumption DEF Found, Vaults
<1>4. at \subseteq 1 .. Len(vault.records) /\ at \subseteq 0 .. Len(vault.records) /\ at \subseteq Nat
  BY <1>3 DEF InFolder
<1>5. /\ \A i \in at : vault.records[i] \in records
      /\ \A r \in records : \E i \in at : r = vault.records[i]
  BY <1>3 DEF InFolder, ToSet
<1>6. ASSUME NEW i \in at
      PROVE  \E k \in latest : FileName(k) = FileName(i)
  <2> DEFINE same == {k \in at : FileName(k) = FileName(i)}
             top  == Max(same)
  <2>1. same # {} /\ same \subseteq 0 .. Len(vault.records) /\ same \subseteq Nat
    BY <1>4
  <2>2. top \in same /\ \A k \in same : top >= k
    <3> HIDE DEF same
    <3> QED BY <2>1, <1>3, MaxIsGreatest
  <2>3. top \in at /\ FileName(top) = FileName(i) /\ top \in Nat
    <3> HIDE DEF top, FileName
    <3> QED BY <2>1, <2>2
  <2>4. \A j \in at : j > top => FileName(j) # FileName(top)
    <3>1. SUFFICES ASSUME NEW j \in at, FileName(j) = FileName(top)
                   PROVE  ~ (j > top)
      OBVIOUS
    <3> HIDE DEF top, FileName
    <3>2. j \in same /\ j \in Nat
      BY <1>4, <2>3, <3>1
    <3>3. top >= j
      BY <2>2, <3>2
    <3> QED BY <2>3, <3>2, <3>3
  <2> HIDE DEF top, FileName
  <2> QED BY <2>3, <2>4
<1>7. \A i : Pair(i)[1] = FileName(i)
  OBVIOUS
<1>8. AreFilesOf(data, records)
  <2>1. \A pair \in data : \E r \in records : pair = <<SanitizeFilename(r.title), r.uid>>
    BY <1>5
  <2>2. ASSUME NEW r \in records
        PROVE  \E pair \in data : pair[1] = SanitizeFilename(r.title)
    <3>1. PICK i \in at : r = vault.records[i]
      BY <1>5
    <3>2. PICK k \in latest : FileName(k) = FileName(i)
      BY <1>6
    <3>3. Pair(k) \in data
      OBVIOUS
    <3> HIDE DEF data, Pair
    <3> QED BY <1>7, <3>1, <3>2, <3>3
  <2> HIDE DEF data, records
  <2> QED BY <2>1, <2>2 DEF AreFilesOf
<1>9. IsOf(form, data, v)
  <2> HIDE DEF data, u
  <2> QED BY <1>2, <1>8 DEF IsOf
<1>10. ASSUME IsThere(form, channel, v)
       PROVE  data # {}
  <2>1. IsPlain(form.place, v.folders) /\ Meant(form, v) # {}
    BY <1>2, <1>10 DEF IsThere
  <2>2. FoldersAt(v.folders, form.place) = {u}
    <3> HIDE DEF u
    <3> QED BY <1>2, <2>1, FormTyped, OneFolderAtPlace DEF Found
  <2>3. PICK i \in DOMAIN v.records : v.records[i].folders \cap {u} # {}
    BY <1>2, <2>1, <2>2 DEF Meant
  <2>4. i \in at
    BY <1>3, <2>3 DEF InFolder
  <2>5. PICK k \in latest : FileName(k) = FileName(i)
    BY <1>6, <2>4
  <2>6. Pair(k) \in data
    OBVIOUS
  <2> QED BY <2>6
<1> QED BY <1>1, <1>9, <1>10

\* An answer that is good is one that is asked for, over the right channel.
LEMMA DeliveredGood ==
  ASSUME NEW v, Found(v), channel \in Channels, ~ (channel = "env" /\ ref.isFile)
  PROVE  /\ Delivered.ok => IsOf(form, Delivered.data, v)
         /\ IsThere(form, channel, v) => Delivered.ok /\ Delivered.data # {}
<1>1. CASE form.kind = "folder"
  <2>1. Delivered = FolderAnswer
    BY <1>1 DEF Delivered
  <2> QED BY <1>1, <2>1, FolderAnswerGood
<1>2. CASE form.kind # "folder"
  <2>1. IsGood(Delivered, form, channel, v)
    <3>1. CASE channel = "file"
      BY <1>2, <3>1, FileAnswerGood DEF Delivered
    <3>2. CASE channel = "env"
      BY <1>2, <3>2, EnvAnswerGood DEF Delivered
    <3>3. CASE channel = "k8s"
      BY <1>2, <3>3, K8sAnswerGood DEF Delivered
    <3> QED BY <3>1, <3>2, <3>3 DEF Channels
  <2>2. Delivered.ok => IsOf(form, Delivered.data, v)
    BY <1>2, <2>1 DEF IsGood, IsOf
  <2>3. IsThere(form, channel, v) =>
          \E i : IsOnly(i, form, channel, v) /\ HasPart(form, v.records[i])
    BY <1>2 DEF IsThere, IsOnly
  <2> QED BY <2>1, <2>2, <2>3 DEF IsGood
<1> QED BY <1>1, <1>2
----------------------------------------------------------------------------
(* What is delivered is what was meant. *)

\* The folders of one vault and the records of another.
Mixed(w, v) == [folders |-> w.folders, records |-> v.records]

\* An answer is of a vault, and there is one if what is meant is there.
AnswersWell(result, f, c, v) ==
  /\ result.ok => IsOf(f, result.data, v)
  /\ IsThere(f, c, v) => result.ok /\ result.data # {}

\* Until Keeper answers nothing is known; then the folder is one of a vault of
\* the span, and in the end the answer is one of its folders and of the records
\* that Keeper has now.
DeliveryInv ==
  /\ form \in Forms /\ channel \in Channels
  /\ vault \in Vaults /\ span \subseteq Vaults
  /\ pc # "read" => ref = ReadAs(form)
  /\ pc \in {"read", "look up"} => answer = Failed
  /\ pc = "resolved" => ~ (channel = "env" /\ ref.isFile)
  /\ pc = "resolved" /\ ~ Misleading(form) =>
       /\ vault \in span /\ form.place # << >> /\ folder # << >>
       /\ \E w \in span : folder = ResolvePath(w.folders, form.place)
  /\ pc = "answered" /\ ~ Misleading(form) =>
       /\ vault \in span
       /\ \E w \in span : AnswersWell(answer, form, channel, Mixed(w, vault))

\* The vaults of a mixture.
LEMMA MixedVaults ==
  ASSUME NEW w \in Vaults, NEW v \in Vaults
  PROVE  /\ Mixed(w, v) \in Vaults /\ Mixed(w, v).records = v.records
         /\ Mixed(w, v).folders = w.folders
         /\ w.folders = v.folders => Mixed(w, v) = v
         /\ w.records = v.records => Mixed(w, v) = w
BY DEF Mixed, Vaults

\* The first call: the folder is found, or what is meant is not there.
LEMMA AskFoldersStep ==
  ASSUME DeliveryInv, AskFolders
  PROVE  DeliveryInv'
<1>1. /\ form \in Forms /\ channel \in Channels /\ vault \in Vaults
      /\ ref = ReadAs(form) /\ answer = Failed /\ ~ (channel = "env" /\ ref.isFile)
      /\ FolderNames # << >>
  BY DEF DeliveryInv, AskFolders, ToLookUp
<1> DEFINE found == ResolvePath(vault.folders, FolderNames)
<1>2. /\ folder' = found /\ pc' = (IF found = << >> THEN "answered" ELSE "resolved")
      /\ span' = {vault}
      /\ UNCHANGED <<form, channel, strict, vault, changes, ref, answer>>
  BY DEF AskFolders
<1>3. ~ Misleading(form) => FolderNames = form.place /\ form.place # << >>
  BY <1>1, PlaceRead
<1> HIDE DEF found
<1>4. ASSUME ~ Misleading(form), found = << >>
      PROVE  AnswersWell(answer, form, channel, Mixed(vault, vault))
  <2>1. vault.folders \in Seq(FolderType) /\ form.place \in Seq(Texts \ {NoText})
    BY <1>1, VaultAssumption, FormTyped DEF Vaults
  <2>2. ~ IsPlain(form.place, vault.folders)
    BY <1>3, <1>4, <2>1, PlaceResolved DEF found
  <2>3. ~ IsThere(form, channel, vault)
    BY <1>3, <1>4, <2>2 DEF IsThere
  <2> QED BY <1>1, <2>3, MixedVaults, AnswerParts DEF AnswersWell
<1>5. ASSUME ~ Misleading(form)
      PROVE  found = ResolvePath(vault.folders, form.place)
  BY <1>3, <1>5 DEF found
<1> QED BY <1>1, <1>2, <1>3, <1>4, <1>5 DEF DeliveryInv

\* The second call: what is delivered is of the folders that were found and of
\* the records that Keeper has now.
LEMMA AskRecordsStep ==
  ASSUME DeliveryInv, AskRecords
  PROVE  DeliveryInv'
<1>1. /\ form \in Forms /\ channel \in Channels /\ vault \in Vaults /\ span \subseteq Vaults
      /\ ref = ReadAs(form) /\ ~ (channel = "env" /\ ref.isFile)
  BY DEF DeliveryInv, AskRecords, ToLookUp
<1>2. /\ answer' = Delivered /\ span' = span \cup {vault} /\ pc' = "answered"
      /\ UNCHANGED <<form, channel, strict, vault, changes, ref, folder>>
  BY DEF AskRecords
<1>3. ASSUME ~ Misleading(form)
      PROVE  \E w \in span \cup {vault} :
               AnswersWell(Delivered, form, channel, Mixed(w, vault))
  <2>1. PICK w \in span \cup {vault} : Found(Mixed(w, vault))
    <3>1. CASE pc = "resolved"
      <4>1. PICK w \in span : folder = ResolvePath(w.folders, form.place)
        BY <1>3, <3>1 DEF DeliveryInv
      <4>2. w \in Vaults /\ folder # << >> /\ form.place # << >>
        BY <1>1, <1>3, <3>1 DEF DeliveryInv
      <4>3. w.folders \in Seq(FolderType) /\ form.place \in Seq(Texts \ {NoText})
        BY <1>1, <4>2, VaultAssumption, FormTyped DEF Vaults
      <4>4. folder[1].uid \in FoldersAt(w.folders, form.place)
        BY <4>1, <4>2, <4>3, PlaceResolved
      <4>5. Found(Mixed(w, vault))
        BY <1>1, <1>3, <4>2, <4>4, MixedVaults DEF Found
      <4> QED BY <4>5
    <3>2. CASE pc # "resolved"
      <4>1. form.place = << >>
        BY <1>1, <1>3, <3>2, PlaceRead DEF AskRecords
      <4>2. Found(Mixed(vault, vault))
        BY <1>1, <1>3, <4>1, MixedVaults DEF Found
      <4> QED BY <4>2
    <3> QED BY <3>1, <3>2
  <2> QED BY <1>1, <2>1, DeliveredGood DEF AnswersWell
<1> QED BY <1>1, <1>2, <1>3 DEF DeliveryInv

\* DeliveryInv of every execution.
LEMMA DeliveryInvariant == Spec => []DeliveryInv
<1>1. Init => DeliveryInv
  BY DEF Init, DeliveryInv, Channels
<1>2. DeliveryInv /\ [Next]_vars => DeliveryInv'
  <2>1. SUFFICES ASSUME DeliveryInv, [Next]_vars
                 PROVE  DeliveryInv'
    OBVIOUS
  <2>2. CASE ReadSecret
    BY <2>1, <2>2 DEF ReadSecret, Read, DeliveryInv, ReadAs
  <2>3. CASE ReadFile
    BY <2>1, <2>3 DEF ReadFile, Read, DeliveryInv, ReadAs
  <2>4. CASE ReadFolder
    BY <2>1, <2>4 DEF ReadFolder, Read, DeliveryInv, ReadAs
  <2>5. CASE EnvSkipsFile
    BY <2>1, <2>5 DEF EnvSkipsFile, DeliveryInv
  <2>6. CASE AskFolders
    BY <2>1, <2>6, AskFoldersStep
  <2>7. CASE AskRecords
    BY <2>1, <2>7, AskRecordsStep
  <2>8. CASE CallFails
    BY <2>1, <2>8 DEF CallFails, ToLookUp, DeliveryInv
  <2>9. ASSUME NEW v \in Vaults, Change(v)
        PROVE  DeliveryInv'
    BY <2>1, <2>9 DEF Change, DeliveryInv
  <2>10. CASE UNCHANGED vars
    BY <2>1, <2>10 DEF vars, DeliveryInv
  <2> QED BY <2>1, <2>2, <2>3, <2>4, <2>5, <2>6, <2>7, <2>8, <2>9, <2>10 DEF Next
<1> QED BY <1>1, <1>2, PTL DEF Spec

\* DeliversAsMeant of every execution, whatever the forms, the folders and the
\* records: what arrives over a channel is the part that was meant of a record
\* that was meant, as Keeper had them at one moment, unless both the folders and
\* the records changed between the two calls.
THEOREM DeliveredAsMeant == Spec => []DeliversAsMeant
<1>1. DeliveryInv => DeliversAsMeant
  <2>1. SUFFICES ASSUME DeliveryInv, pc = "answered", answer.ok, ~ Misleading(form), ~ BothChanged
                 PROVE  \E v \in span : IsOf(form, answer.data, v)
    BY DEF DeliversAsMeant
  <2>2. vault \in span /\ vault \in Vaults /\ span \subseteq Vaults
    BY <2>1 DEF DeliveryInv
  <2>3. PICK w \in span : IsOf(form, answer.data, Mixed(w, vault))
    BY <2>1 DEF DeliveryInv, AnswersWell
  <2>4. w.folders = vault.folders \/ w.records = vault.records
    BY <2>1, <2>2 DEF BothChanged
  <2> QED BY <2>2, <2>3, <2>4, MixedVaults
<1> QED BY <1>1, DeliveryInvariant, PTL

\* FindsWhatIsThere of every execution: what is there and is the only thing that
\* can be meant is delivered, over every channel, strict or not, if Keeper
\* answers and the vault does not change between the calls.
THEOREM FoundWhatIsThere == Spec => []FindsWhatIsThere
<1>1. DeliveryInv => FindsWhatIsThere
  <2>1. SUFFICES ASSUME DeliveryInv, pc = "answered", ~ Misleading(form),
                        NEW v \in span, span = {v}, IsThere(form, channel, v)
                 PROVE  answer.ok /\ answer.data # {}
    BY DEF FindsWhatIsThere
  <2>2. vault = v /\ v \in Vaults
    BY <2>1 DEF DeliveryInv
  <2>3. AnswersWell(answer, form, channel, Mixed(v, vault))
    BY <2>1 DEF DeliveryInv
  <2> QED BY <2>1, <2>2, <2>3, MixedVaults DEF AnswersWell
<1> QED BY <1>1, DeliveryInvariant, PTL
=============================================================================
