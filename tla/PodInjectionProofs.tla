------------------------- MODULE PodInjectionProofs -------------------------
(***************************************************************************)
(* For any number of pods, any annotations, containers and records: with   *)
(* fail-on-error no variable is left out, pods of one workload are alike   *)
(* whatever the order of Go's maps, what is written is what the full       *)
(* configuration asks for, and a pod that is admitted runs.                *)
(***************************************************************************)
EXTENDS PodInjection, TextProofs

\* The annotations of a workload, as far as the proofs need them.
LEMMA WorkloadTyped ==
  ASSUME NEW a \in Workloads
  PROVE  /\ a.listed \in Seq(Texts) /\ a.yaml \in Seq(YamlEntries)
         /\ a.named \subseteq Texts \X Texts /\ a.filed \subseteq Texts \X Texts
         /\ IsFiniteSet(a.named) /\ IsFiniteSet(a.filed)
         /\ a.envVars \in BOOLEAN /\ a.failOnError \in BOOLEAN /\ a.ksmConfig \in BOOLEAN
         /\ a.initOnly \in BOOLEAN
         /\ a.prefix \in Texts
BY WorkloadAssumption
----------------------------------------------------------------------------
(* The entries of a workload. *)

\* A title that the annotation "secrets" lists makes a well-formed reference.
LEMMA ListedTyped ==
  ASSUME NEW a \in Workloads, NEW title \in Texts
  PROVE  Listed(a, title) \in Refs
<1>1. SecretRef(TrimSpace(title)) \in Refs /\ JsonPath(title) \in Texts
  BY TrimSpaceTyped, SecretRefTyped, DefaultPathsTyped
<1>2. a.envVars \in BOOLEAN /\ a.prefix \in Texts
  BY WorkloadTyped
<1> QED BY <1>1, <1>2 DEF Listed, Refs

\* And so does an entry of the full configuration.
LEMMA FullConfigTyped ==
  ASSUME NEW y \in YamlEntries
  PROVE  FullConfig(y) \in Refs
<1> DEFINE name   == IF y.notation # NoText THEN RecordOf(y.notation) ELSE y.record
           format == IF Len(y.fields) = 1 \/ y.file # NoText THEN "raw"
                     ELSE IF y.format = "" THEN "json" ELSE y.format
           path   == IF y.path # NoText THEN y.path
                     ELSE IF name # NoText THEN JsonPath(name) ELSE NoText
           isFile == y.file # NoText \/ Holds(y.notation, <<"/", "file", "/">>)
<1>1. /\ y.record \in Texts /\ y.notation \in Texts /\ y.path \in Texts
      /\ y.fields \in Seq(Texts) /\ y.format \in Formats /\ y.template \in BOOLEAN
      /\ y.file \in Texts /\ y.env \in BOOLEAN /\ y.prefix \in Texts
  BY DEF YamlEntries
<1>2. name \in Texts
  BY <1>1, RecordOfTyped
<1>3. format \in Formats
  BY <1>1 DEF Formats
<1>4. path \in Texts
  BY <1>1, <1>2, DefaultPathsTyped, SeparatorsTyped
<1>5. isFile \in BOOLEAN
  BY DEF Holds
<1>6. FullConfig(y) =
        [name |-> name, path |-> path, fields |-> y.fields, format |-> format,
         template |-> y.template, notation |-> y.notation, fileName |-> y.file,
         isFile |-> isFile, env |-> y.env, prefix |-> y.prefix]
  BY DEF FullConfig
<1> HIDE DEF name, format, path, isFile
<1> QED BY <1>1, <1>2, <1>3, <1>4, <1>5, <1>6 DEF Refs

\* The image of a finite set of pairs of texts is finite.
LEMMA NamedTyped ==
  ASSUME NEW a \in Workloads
  PROVE  /\ Named(a) \subseteq Refs /\ IsFiniteSet(Named(a))
         /\ Filed(a) \subseteq Refs /\ IsFiniteSet(Filed(a))
<1>1. /\ a.named \subseteq Texts \X Texts /\ a.filed \subseteq Texts \X Texts
      /\ IsFiniteSet(a.named) /\ IsFiniteSet(a.filed)
  BY WorkloadTyped
<1>2. Named(a) \subseteq Refs /\ Filed(a) \subseteq Refs
  BY <1>1, SecretAnnotationTyped, FileAnnotationTyped DEF Named, Filed
<1> DEFINE f == [n \in a.named |-> SecretAnnotation(n[1], n[2])]
           g == [n \in a.filed |-> FileAnnotation(n[1], n[2])]
<1>3. f \in Surjection(a.named, Named(a))
  BY DEF Surjection, Named
<1>4. g \in Surjection(a.filed, Filed(a))
  BY DEF Surjection, Filed
<1> QED BY <1>1, <1>2, <1>3, <1>4, FS_Surjection

\* Both make lists of references, in their order.
LEMMA RefsTyped ==
  ASSUME NEW a \in Workloads
  PROVE  /\ ListedRefs(a) \in Seq(Refs) /\ Len(ListedRefs(a)) = Len(a.listed)
         /\ YamlRefs(a) \in Seq(Refs) /\ Len(YamlRefs(a)) = Len(a.yaml)
<1>1. /\ Len(a.listed) \in Nat /\ \A i \in 1 .. Len(a.listed) : a.listed[i] \in Texts
      /\ Len(a.yaml) \in Nat /\ \A i \in 1 .. Len(a.yaml) : a.yaml[i] \in YamlEntries
  BY WorkloadTyped
<1>2. ListedRefs(a) \in [1 .. Len(a.listed) -> Refs]
  BY <1>1, ListedTyped DEF ListedRefs
<1>3. YamlRefs(a) \in [1 .. Len(a.yaml) -> Refs]
  BY <1>1, FullConfigTyped DEF YamlRefs
<1> QED BY <1>1, <1>2, <1>3, FunctionIsSeq

\* The entries that come in any order lie between two places.
Before1(a) == Len(a.listed)
Before2(a) == Before1(a) + Cardinality(Named(a)) + Cardinality(Filed(a))

\* What the entries are, whatever the order of the maps.
LEMMA ParsedShape ==
  ASSUME NEW a \in Workloads, NEW u \in Parsed(a)
  PROVE  /\ u \in Seq(Refs)
         /\ Before1(a) \in Nat /\ Before2(a) \in Nat /\ Before1(a) <= Before2(a)
         /\ Len(u) = Before2(a) + Len(a.yaml)
         /\ \A i \in 1 .. Before1(a) : u[i] = ListedRefs(a)[i]
         /\ \A i \in Before1(a) + 1 .. Before2(a) : u[i] \in Unordered(a)
         /\ \A s \in Unordered(a) : \E i \in Before1(a) + 1 .. Before2(a) : u[i] = s
         /\ \A i \in 1 .. Len(a.yaml) : u[Before2(a) + i] = YamlRefs(a)[i]
<1>1. PICK n \in SetToSeqs(Named(a)), f \in SetToSeqs(Filed(a)) :
             u = ListedRefs(a) \o n \o f \o YamlRefs(a)
  BY DEF Parsed
<1> DEFINE L == ListedRefs(a)
           Y == YamlRefs(a)
<1>2. /\ L \in Seq(Refs) /\ Len(L) = Len(a.listed) /\ Len(L) \in Nat
      /\ Y \in Seq(Refs) /\ Len(Y) = Len(a.yaml) /\ Len(Y) \in Nat
  BY RefsTyped
<1>3. /\ n \in Seq(Named(a)) /\ Len(n) = Cardinality(Named(a)) /\ Len(n) \in Nat
      /\ \A x \in Named(a) : \E i \in 1 .. Len(n) : n[i] = x
  BY NamedTyped, OrderIsComplete
<1>4. /\ f \in Seq(Filed(a)) /\ Len(f) = Cardinality(Filed(a)) /\ Len(f) \in Nat
      /\ \A x \in Filed(a) : \E i \in 1 .. Len(f) : f[i] = x
  BY NamedTyped, OrderIsComplete
<1>5. n \in Seq(Refs) /\ f \in Seq(Refs)
  BY <1>3, <1>4, NamedTyped, SeqMonotonic
<1>6. L \in Seq(Refs) /\ Y \in Seq(Refs)
  BY <1>2
<1> HIDE DEF L, Y
<1> DEFINE Lnf == L \o n \o f
<1>7. /\ Lnf \in Seq(Refs)
      /\ Len(Lnf) = Len(L) + Len(n) + Len(f)
      /\ \A i \in 1 .. Len(L) : Lnf[i] = L[i]
      /\ \A i \in 1 .. Len(n) : Lnf[Len(L) + i] = n[i]
      /\ \A i \in 1 .. Len(f) : Lnf[Len(L) + Len(n) + i] = f[i]
  BY <1>5, <1>6, ThreeJoined DEF Lnf
<1>8. u = Lnf \o Y
  BY <1>1 DEF L, Y
<1> HIDE DEF Lnf
<1>9. /\ u \in Seq(Refs) /\ Len(u) = Len(Lnf) + Len(Y)
      /\ \A i \in 1 .. Len(Lnf) + Len(Y) : u[i] = IF i <= Len(Lnf) THEN Lnf[i] ELSE Y[i - Len(Lnf)]
  <2>1. Lnf \in Seq(Refs)
    BY <1>7
  <2> QED BY <2>1, <1>8, <1>6, ConcatProperties
<1>10. Len(L) \in Nat /\ Len(n) \in Nat /\ Len(f) \in Nat /\ Len(Y) \in Nat
  BY <1>2, <1>3, <1>4
<1>11. /\ Before1(a) = Len(L)
       /\ Before2(a) = Len(L) + Len(n) + Len(f)
       /\ Len(Lnf) = Len(L) + Len(n) + Len(f)
  BY <1>2, <1>3, <1>4, <1>7 DEF Before1, Before2
<1>12. \A i \in 1 .. Len(L) + Len(n) + Len(f) : u[i] = Lnf[i]
  BY <1>9, <1>10, <1>11
<1>13. \A i \in 1 .. Before1(a) : u[i] = L[i]
  BY <1>7, <1>10, <1>11, <1>12
<1>14. \A i \in 1 .. Len(n) : u[Before1(a) + i] = n[i]
  <2> TAKE i \in 1 .. Len(n)
  <2>1. Len(L) + i \in 1 .. Len(L) + Len(n) + Len(f)
    BY <1>10
  <2> QED BY <2>1, <1>7, <1>11, <1>12
<1>15. \A i \in 1 .. Len(f) : u[Before1(a) + Len(n) + i] = f[i]
  <2> TAKE i \in 1 .. Len(f)
  <2>1. Len(L) + Len(n) + i \in 1 .. Len(L) + Len(n) + Len(f)
    BY <1>10
  <2> QED BY <2>1, <1>7, <1>11, <1>12
<1>16. \A i \in 1 .. Len(Y) : u[Before2(a) + i] = Y[i]
  <2> TAKE i \in 1 .. Len(Y)
  <2>1. /\ Len(Lnf) + i \in 1 .. Len(Lnf) + Len(Y)
        /\ ~ (Len(Lnf) + i <= Len(Lnf)) /\ Len(Lnf) + i - Len(Lnf) = i
    BY <1>10, <1>11
  <2> QED BY <2>1, <1>9, <1>11
<1>17. ASSUME NEW i \in Before1(a) + 1 .. Before2(a)
       PROVE  u[i] \in Unordered(a)
  <2>1. CASE i <= Before1(a) + Len(n)
    <3>1. i - Before1(a) \in 1 .. Len(n) /\ Before1(a) + (i - Before1(a)) = i
      BY <1>10, <1>11, <2>1
    <3>2. u[i] = n[i - Before1(a)]
      BY <3>1, <1>14
    <3> QED BY <3>1, <3>2, <1>3 DEF Unordered
  <2>2. CASE i > Before1(a) + Len(n)
    <3>1. /\ i - Before1(a) - Len(n) \in 1 .. Len(f)
          /\ Before1(a) + Len(n) + (i - Before1(a) - Len(n)) = i
      BY <1>10, <1>11, <2>2
    <3>2. u[i] = f[i - Before1(a) - Len(n)]
      BY <3>1, <1>15
    <3> QED BY <3>1, <3>2, <1>4 DEF Unordered
  <2> QED BY <2>1, <2>2, <1>10, <1>11
<1>18. ASSUME NEW s \in Unordered(a)
       PROVE  \E i \in Before1(a) + 1 .. Before2(a) : u[i] = s
  <2>1. CASE s \in Named(a)
    <3>1. PICK i \in 1 .. Len(n) : n[i] = s
      BY <1>3, <2>1
    <3>2. Before1(a) + i \in Before1(a) + 1 .. Before2(a)
      BY <1>10, <1>11
    <3> QED BY <3>1, <3>2, <1>14
  <2>2. CASE s \in Filed(a)
    <3>1. PICK i \in 1 .. Len(f) : f[i] = s
      BY <1>4, <2>2
    <3>2. Before1(a) + Len(n) + i \in Before1(a) + 1 .. Before2(a)
      BY <1>10, <1>11
    <3> QED BY <3>1, <3>2, <1>15
  <2> QED BY <2>1, <2>2 DEF Unordered
<1>19. /\ u \in Seq(Refs)
       /\ Before1(a) \in Nat /\ Before2(a) \in Nat /\ Before1(a) <= Before2(a)
       /\ Len(u) = Before2(a) + Len(a.yaml)
  BY <1>2, <1>9, <1>10, <1>11
<1> QED BY <1>2, <1>13, <1>17, <1>18, <1>19, <1>16 DEF L, Y

\* Two lists of one workload differ between the two places only.
LEMMA ParsedAlike ==
  ASSUME NEW a \in Workloads, NEW u \in Parsed(a), NEW w \in Parsed(a)
  PROVE  /\ Len(u) = Len(w) /\ Len(u) \in Nat
         /\ Before1(a) \in Nat /\ Before2(a) \in Nat /\ Before2(a) <= Len(u)
         /\ \A i \in 1 .. Len(u) : u[i] = w[i] \/ i \in Before1(a) + 1 .. Before2(a)
         /\ \A i \in Before1(a) + 1 .. Before2(a) :
              /\ u[i] \in Unordered(a)
              /\ \E j \in Before1(a) + 1 .. Before2(a) : w[j] = u[i]
<1>1. /\ Before1(a) \in Nat /\ Before2(a) \in Nat /\ Len(a.yaml) \in Nat
      /\ Len(u) = Before2(a) + Len(a.yaml) /\ Len(w) = Before2(a) + Len(a.yaml)
  BY ParsedShape, WorkloadTyped
<1>2. ASSUME NEW i \in 1 .. Len(u), i \notin Before1(a) + 1 .. Before2(a)
      PROVE  u[i] = w[i]
  <2>1. CASE i <= Before1(a)
    <3>1. i \in 1 .. Before1(a)
      BY <1>1, <2>1
    <3> QED BY <3>1, ParsedShape
  <2>2. CASE i > Before2(a)
    <3>1. i - Before2(a) \in 1 .. Len(a.yaml) /\ Before2(a) + (i - Before2(a)) = i
      BY <1>1, <2>2
    <3>2. /\ u[Before2(a) + (i - Before2(a))] = YamlRefs(a)[i - Before2(a)]
          /\ w[Before2(a) + (i - Before2(a))] = YamlRefs(a)[i - Before2(a)]
      BY <3>1, ParsedShape
    <3> QED BY <3>1, <3>2
  <2> QED BY <1>1, <1>2, <2>1, <2>2
<1>3. ASSUME NEW i \in Before1(a) + 1 .. Before2(a)
      PROVE  /\ u[i] \in Unordered(a)
             /\ \E j \in Before1(a) + 1 .. Before2(a) : w[j] = u[i]
  <2>1. u[i] \in Unordered(a)
    BY ParsedShape
  <2> QED BY <2>1, ParsedShape
<1> QED BY <1>1, <1>2, <1>3

\* The place i is the last one in u of a member of G.
LastOf(u, G, i) ==
  /\ i \in 1 .. Len(u) /\ u[i] \in G
  /\ \A k \in 1 .. Len(u) : u[k] \in G => k <= i

\* Of the entries of a kind that at most one unordered entry is of, the last one
\* is the same in every order.
LEMMA LastOnesAgree ==
  ASSUME NEW a \in Workloads, NEW u \in Parsed(a), NEW w \in Parsed(a), NEW G,
         \A r, s \in Unordered(a) : r \in G /\ s \in G => r = s,
         NEW i, LastOf(u, G, i), NEW j, LastOf(w, G, j)
  PROVE  u[i] = w[j]
<1> DEFINE Mid == Before1(a) + 1 .. Before2(a)
<1>1. /\ Len(u) = Len(w) /\ Len(u) \in Nat
      /\ Before1(a) \in Nat /\ Before2(a) \in Nat /\ Before2(a) <= Len(u)
  BY ParsedAlike
<1>2. /\ i \in 1 .. Len(u) /\ u[i] \in G /\ \A k \in 1 .. Len(u) : u[k] \in G => k <= i
      /\ j \in 1 .. Len(w) /\ w[j] \in G /\ \A k \in 1 .. Len(w) : w[k] \in G => k <= j
  BY DEF LastOf
<1>3. Mid \subseteq 1 .. Len(u) /\ Mid \subseteq 1 .. Len(w)
  BY <1>1, <1>2
<1>4. CASE i \notin Mid /\ j \notin Mid
  <2>1. u[i] = w[i] /\ u[j] = w[j]
    BY <1>1, <1>4, <1>2, ParsedAlike
  <2>2. j <= i /\ i <= j
    BY <2>1, <1>1, <1>2
  <2>3. i = j
    BY <2>2, <1>1, <1>2
  <2> QED BY <2>1, <2>3, <1>2
<1>5. CASE i \in Mid /\ j \in Mid
  BY <1>5, <1>2, ParsedAlike
<1>6. CASE i \in Mid /\ j \notin Mid
  <2>1. PICK k \in Mid : w[k] = u[i]
    BY <1>6, <1>2, ParsedAlike
  <2>2. k <= j
    BY <2>1, <1>3, <1>2
  <2>3. u[j] = w[j]
    BY <1>1, <1>6, <1>2, ParsedAlike
  <2>4. j <= i
    BY <2>3, <1>1, <1>2
  <2> QED BY <1>1, <1>6, <2>2, <2>4, <1>2
<1>7. CASE i \notin Mid /\ j \in Mid
  <2>1. PICK k \in Mid : u[k] = w[j]
    BY <1>7, <1>2, ParsedAlike
  <2>2. k <= i
    BY <2>1, <1>3, <1>2
  <2>3. u[i] = w[i]
    BY <1>1, <1>7, <1>2, ParsedAlike
  <2>4. i <= j
    BY <2>3, <1>1, <1>2
  <2> QED BY <1>1, <1>7, <2>2, <2>4, <1>2
<1> QED BY <1>4, <1>5, <1>6, <1>7, <1>2

\* What is in one list is in the other.
LEMMA FoundInOther ==
  ASSUME NEW a \in Workloads, NEW u \in Parsed(a), NEW w \in Parsed(a),
         NEW i \in 1 .. Len(u)
  PROVE  \E j \in 1 .. Len(w) : w[j] = u[i]
<1>1. CASE i \in Before1(a) + 1 .. Before2(a)
  <2>1. PICK j \in Before1(a) + 1 .. Before2(a) : w[j] = u[i]
    BY <1>1, ParsedAlike
  <2>2. /\ Before1(a) \in Nat /\ Before2(a) \in Nat /\ Before2(a) <= Len(u)
        /\ Len(u) = Len(w) /\ Len(u) \in Nat
    BY ParsedAlike
  <2>3. j \in 1 .. Len(w)
    BY <2>2
  <2> QED BY <2>1, <2>3
<1>2. CASE i \notin Before1(a) + 1 .. Before2(a)
  <2>1. u[i] = w[i] /\ Len(u) = Len(w)
    BY <1>2, ParsedAlike
  <2> QED BY <2>1
<1> QED BY <1>1, <1>2
----------------------------------------------------------------------------
(* The variables of an entry. *)

Vars == [key : Texts, record : Texts, field : Texts]

\* The key of a name is a text as long as the name.
LEMMA ToEnvKeyTyped ==
  ASSUME NEW name \in Texts
  PROVE  /\ ToEnvKey(name) \in Texts
         /\ Len(ToEnvKey(name)) = Len(name)
         /\ DOMAIN ToEnvKey(name) = 1 .. Len(name)
<1>1. Len(name) \in Nat /\ name \in Seq(Tokens)
  BY DEF Texts
<1>2. \A i \in 1 .. Len(name) : name[i] \in Tokens
  BY <1>1
<1>3. Underscore \in Tokens /\ \A word \in Words : Upper[word] \in Tokens
  BY TokenAssumption, WordsTyped
<1>4. ToEnvKey(name) \in [1 .. Len(name) -> Tokens]
  BY <1>2, <1>3 DEF ToEnvKey
<1>5. ToEnvKey(name) \in Seq(Tokens) /\ Len(ToEnvKey(name)) = Len(name)
  BY <1>1, <1>4, FunctionIsSeq
<1> QED BY <1>4, <1>5 DEF Texts

\* What Among takes from a list, and that it takes all if it may.
LEMMA AmongTyped ==
  ASSUME NEW S, NEW list \in Seq(S), NEW set
  PROVE  /\ Among(list, set) \in Seq(S)
         /\ \A k \in 1 .. Len(Among(list, set)) :
              \E i \in 1 .. Len(list) : list[i] \in set /\ Among(list, set)[k] = list[i]
         /\ (\A i \in 1 .. Len(list) : list[i] \in set) => Len(Among(list, set)) = Len(list)
<1> DEFINE at == {i \in DOMAIN list : list[i] \in set}
           Count(i) == Cardinality({j \in at : j <= i})
<1>1. Len(list) \in Nat /\ DOMAIN list = 1 .. Len(list) /\ at \subseteq 1 .. Len(list)
  OBVIOUS
<1>2. IsFiniteSet(1 .. Len(list)) /\ Cardinality(1 .. Len(list)) = Len(list)
  <2>1. 1 \in Int /\ Len(list) \in Int
    BY <1>1
  <2>2. /\ IsFiniteSet(1 .. Len(list))
        /\ Cardinality(1 .. Len(list)) = IF 1 > Len(list) THEN 0 ELSE Len(list) - 1 + 1
    BY <2>1, FS_Interval
  <2> QED BY <1>1, <2>2
<1>3. Cardinality(at) \in Nat
  <2>1. at \in SUBSET (1 .. Len(list))
    BY <1>1
  <2> QED BY <2>1, <1>2, FS_Subset, FS_CardinalityType
<1>4. ASSUME NEW k \in 1 .. Cardinality(at)
      PROVE  (CHOOSE i \in at : Count(i) = k) \in at
  <2>1. \E i \in at : Count(i) = k
    BY <1>1, CountIsReached, ZenonT(60)
  <2> HIDE DEF at, Count
  <2> QED BY <2>1
<1>5. Among(list, set) = [k \in 1 .. Cardinality(at) |-> list[CHOOSE i \in at : Count(i) = k]]
  BY DEF Among, Nth
<1>6. \A i \in at : i \in 1 .. Len(list) /\ list[i] \in set /\ list[i] \in S
  OBVIOUS
<1>7. (\A i \in 1 .. Len(list) : list[i] \in set) => at = 1 .. Len(list)
  OBVIOUS
<1> HIDE DEF at, Count
<1>8. Among(list, set) \in [1 .. Cardinality(at) -> S]
  BY <1>4, <1>5, <1>6
<1>9. Among(list, set) \in Seq(S) /\ Len(Among(list, set)) = Cardinality(at)
  BY <1>3, <1>8, FunctionIsSeq
<1>10. ASSUME NEW k \in 1 .. Cardinality(at)
       PROVE  \E i \in 1 .. Len(list) : list[i] \in set /\ Among(list, set)[k] = list[i]
  BY <1>4, <1>5, <1>6
<1> QED BY <1>2, <1>7, <1>9, <1>10

\* What the names of variables are made of are texts.
LEMMA SourcesTyped ==
  ASSUME NEW s \in Refs
  PROVE  /\ Sources(s) \subseteq Texts
         /\ s.notation = NoText => Fields(s) \subseteq Texts /\ IsFiniteSet(Fields(s))
<1>1. s.name \in Texts /\ s.fields \in Seq(Texts) /\ s.notation \in Texts
  BY DEF Refs
<1>2. ASSUME s.notation = NoText
      PROVE  Fields(s) \subseteq Texts /\ IsFiniteSet(Fields(s))
  <2>1. CASE RecordMissing(s)
    BY <2>1, FS_EmptySet DEF Fields
  <2>2. CASE ~ RecordMissing(s)
    <3>1. s.name \in DOMAIN FieldsOf
      BY <1>2, <2>2 DEF RecordMissing
    <3> QED BY <2>2, <3>1, FieldsAssumption DEF Fields
  <2> QED BY <2>1, <2>2
<1>3. ToSet(s.fields) = {s.fields[i] : i \in 1 .. Len(s.fields)}
  BY <1>1 DEF ToSet
<1>4. Sources(s) \subseteq Texts
  <2>1. \A i \in 1 .. Len(s.fields) : s.fields[i] \in Texts
    BY <1>1
  <2> QED BY <1>1, <1>2, <1>3, <2>1 DEF Sources
<1> QED BY <1>2, <1>4

\* The set of all variables of a record.
RecordVars(a, s) == {Var(a, s, f, f) : f \in Fields(s)}

\* A variable has a name and a source.
LEMMA VarTyped ==
  ASSUME NEW a \in Workloads, NEW s \in Refs, NEW f \in Texts, NEW g \in Texts
  PROVE  /\ Prefix(a, s) \in Texts
         /\ Var(a, s, f, g) \in Vars
         /\ Var(a, s, f, g).key = ToEnvKey(Prefix(a, s) \o f)
<1>1. s.prefix \in Texts /\ a.prefix \in Texts /\ s.name \in Texts
  BY WorkloadTyped DEF Refs
<1>2. Prefix(a, s) \in Texts
  BY <1>1 DEF Prefix
<1>3. ToEnvKey(Prefix(a, s) \o f) \in Texts
  <2>1. Prefix(a, s) \o f \in Texts
    BY <1>2, JoinTyped
  <2> QED BY <2>1, ToEnvKeyTyped
<1> QED BY <1>1, <1>2, <1>3 DEF Var, Vars

\* An order of all variables of a record.
LEMMA RecordVarsOrdered ==
  ASSUME NEW a \in Workloads, NEW s \in Refs, s.notation = NoText,
         NEW v \in SetToSeqs(RecordVars(a, s))
  PROVE  /\ v \in Seq(Vars)
         /\ \A k \in 1 .. Len(v) : \E f \in Fields(s) : v[k] = Var(a, s, f, f)
         /\ \A f \in Fields(s) : \E k \in 1 .. Len(v) : v[k] = Var(a, s, f, f)
         /\ \A k, l \in 1 .. Len(v) : v[k] = v[l] => k = l
<1>1. Fields(s) \subseteq Texts /\ IsFiniteSet(Fields(s))
  BY SourcesTyped
<1> DEFINE F == [f \in Fields(s) |-> Var(a, s, f, f)]
<1>2. F \in Surjection(Fields(s), RecordVars(a, s))
  BY DEF Surjection, RecordVars
<1>3. IsFiniteSet(RecordVars(a, s))
  BY <1>1, <1>2, FS_Surjection
<1>4. RecordVars(a, s) \subseteq Vars
  BY <1>1, VarTyped DEF RecordVars
<1>5. /\ v \in Seq(RecordVars(a, s))
      /\ \A x \in RecordVars(a, s) : \E k \in 1 .. Len(v) : v[k] = x
      /\ \A k, l \in 1 .. Len(v) : v[k] = v[l] => k = l
  BY <1>3, OrderIsComplete
<1>6. v \in Seq(Vars)
  BY <1>4, <1>5, SeqMonotonic
<1>7. \A k \in 1 .. Len(v) : v[k] \in RecordVars(a, s)
  BY <1>5
<1> QED BY <1>5, <1>6, <1>7 DEF RecordVars

\* The variables of an entry that names fields.
LEMMA NamedFieldsVars ==
  ASSUME NEW a \in Workloads, NEW s \in Refs, s.notation = NoText, s.fields # << >>,
         NEW v \in EnvVars(a, s)
  PROVE  /\ EnvVars(a, s) = {v}
         /\ v \in Seq(Vars)
         /\ \A k \in 1 .. Len(v) : \E f \in Sources(s) : v[k] = Var(a, s, f, f)
         /\ ~ FieldMissing(s) => Len(v) = Len(s.fields)
<1> DEFINE there == Among(s.fields, Fields(s))
           block == [k \in DOMAIN there |-> Var(a, s, there[k], there[k])]
<1>1. s.fields \in Seq(Texts) /\ Len(s.fields) \in Nat /\ DOMAIN s.fields = 1 .. Len(s.fields)
  BY DEF Refs
<1>2. EnvVars(a, s) = {block} /\ v = block
  BY DEF EnvVars
<1>3. /\ there \in Seq(Texts)
      /\ \A k \in 1 .. Len(there) :
           \E i \in 1 .. Len(s.fields) : s.fields[i] \in Fields(s) /\ there[k] = s.fields[i]
      /\ (\A i \in 1 .. Len(s.fields) : s.fields[i] \in Fields(s)) => Len(there) = Len(s.fields)
  BY <1>1, AmongTyped
<1>4. Sources(s) = {s.fields[i] : i \in 1 .. Len(s.fields)}
  BY <1>1 DEF Sources, ToSet
<1>5. ~ FieldMissing(s) => \A i \in 1 .. Len(s.fields) : s.fields[i] \in Fields(s)
  BY <1>1 DEF FieldMissing
<1> HIDE DEF there
<1>6. Len(there) \in Nat /\ DOMAIN there = 1 .. Len(there)
  BY <1>3
<1>7. \A k \in 1 .. Len(there) : there[k] \in Sources(s) /\ there[k] \in Texts
  BY <1>3, <1>4
<1>8. block \in [1 .. Len(there) -> Vars]
  BY <1>6, <1>7, VarTyped
<1>9. block \in Seq(Vars) /\ Len(block) = Len(there)
  BY <1>6, <1>8, FunctionIsSeq
<1>10. \A k \in 1 .. Len(there) : block[k] = Var(a, s, there[k], there[k])
  BY <1>6
<1> HIDE DEF block
<1> QED BY <1>2, <1>3, <1>5, <1>7, <1>9, <1>10

\* Each variable of an entry is named after the prefix and one of its names.
LEMMA EnvVarsTyped ==
  ASSUME NEW a \in Workloads, NEW s \in Refs, NEW v \in EnvVars(a, s)
  PROVE  /\ v \in Seq(Vars)
         /\ \A k \in 1 .. Len(v) : \E f \in Sources(s) :
              v[k].key = ToEnvKey(Prefix(a, s) \o f)
<1>1. s.name \in Texts /\ s.notation \in Texts
  BY DEF Refs
<1>2. Sources(s) \subseteq Texts
  BY SourcesTyped
<1>3. CASE s.notation # NoText
  <2>1. v = <<Var(a, s, s.name, s.notation)>> /\ s.name \in Sources(s)
    BY <1>3 DEF EnvVars, Sources
  <2>2. /\ Var(a, s, s.name, s.notation) \in Vars
        /\ Var(a, s, s.name, s.notation).key = ToEnvKey(Prefix(a, s) \o s.name)
    BY <1>1, VarTyped
  <2> QED BY <2>1, <2>2
<1>4. CASE s.notation = NoText /\ s.fields # << >>
  <2>1. /\ v \in Seq(Vars)
        /\ \A k \in 1 .. Len(v) : \E f \in Sources(s) : v[k] = Var(a, s, f, f)
    BY <1>4, NamedFieldsVars
  <2>2. \A f \in Sources(s) : Var(a, s, f, f).key = ToEnvKey(Prefix(a, s) \o f)
    BY <1>2, VarTyped
  <2> QED BY <2>1, <2>2
<1>5. CASE s.notation = NoText /\ s.fields = << >>
  <2>1. v \in SetToSeqs(RecordVars(a, s)) /\ Sources(s) = Fields(s)
    BY <1>5 DEF EnvVars, RecordVars, Sources
  <2>2. /\ v \in Seq(Vars)
        /\ \A k \in 1 .. Len(v) : \E f \in Fields(s) : v[k] = Var(a, s, f, f)
    BY <1>5, <2>1, RecordVarsOrdered
  <2>3. \A f \in Fields(s) : Var(a, s, f, f).key = ToEnvKey(Prefix(a, s) \o f)
    BY <1>2, <2>1, VarTyped
  <2> QED BY <2>1, <2>2, <2>3
<1> QED BY <1>3, <1>4, <1>5

\* The variable at place i is the last one of its name in e.
IsLast(e, i) == i \in DOMAIN e /\ \A j \in DOMAIN e : j > i => e[j].key # e[i].key

\* What is last of its name in the variables of an entry is so in every order.
LEMMA LastInBlock ==
  ASSUME NEW a \in Workloads, NEW s \in Refs, NEW v \in EnvVars(a, s), NEW w \in EnvVars(a, s),
         NEW k \in 1 .. Len(v)
  PROVE  \E l \in 1 .. Len(w) :
           /\ w[l] = v[k]
           /\ ~ FieldsMeet(a, s, v[k].key) /\ IsLast(v, k) => IsLast(w, l)
<1>1. CASE s.notation # NoText
  BY <1>1 DEF EnvVars
<1>2. CASE s.notation = NoText /\ s.fields # << >>
  <2>1. EnvVars(a, s) = {v}
    BY <1>2, NamedFieldsVars
  <2>2. v = w
    BY <2>1
  <2> QED BY <2>2
<1>3. CASE s.notation = NoText /\ s.fields = << >>
  <2>1. v \in SetToSeqs(RecordVars(a, s)) /\ w \in SetToSeqs(RecordVars(a, s))
    BY <1>3 DEF EnvVars, RecordVars
  <2>2. PICK f \in Fields(s) : v[k] = Var(a, s, f, f)
    BY <1>3, <2>1, RecordVarsOrdered
  <2>3. PICK l \in 1 .. Len(w) : w[l] = Var(a, s, f, f)
    BY <1>3, <2>1, RecordVarsOrdered
  <2>4. w \in Seq(Vars) /\ DOMAIN w = 1 .. Len(w) /\ Len(w) \in Nat
    <3>1. w \in Seq(Vars)
      BY <1>3, <2>1, RecordVarsOrdered
    <3> QED BY <3>1
  <2>7. \A x, y \in 1 .. Len(w) : w[x] = w[y] => x = y
    BY <1>3, <2>1, RecordVarsOrdered
  <2>5. ASSUME ~ FieldsMeet(a, s, v[k].key), NEW m \in 1 .. Len(w), m > l,
               w[m].key = w[l].key
        PROVE  FALSE
    <3>1. PICK g \in Fields(s) : w[m] = Var(a, s, g, g)
      BY <1>3, <2>1, RecordVarsOrdered
    <3>2. f \in Texts /\ g \in Texts
      BY <1>3, SourcesTyped
    <3>3. /\ v[k].key = ToEnvKey(Prefix(a, s) \o f)
          /\ w[m].key = ToEnvKey(Prefix(a, s) \o g)
          /\ w[l].key = v[k].key
      BY <2>2, <2>3, <3>1, <3>2, VarTyped
    <3>5. f = g
      BY <1>3, <2>5, <3>3 DEF FieldsMeet
    <3>6. m = l
      <4>1. w[m] = w[l]
        BY <2>3, <3>1, <3>5
      <4> QED BY <2>7, <4>1
    <3> QED BY <2>4, <2>5, <3>6
  <2>6. ~ FieldsMeet(a, s, v[k].key) => IsLast(w, l)
    BY <2>4, <2>5 DEF IsLast
  <2> QED BY <2>2, <2>3, <2>6
<1> QED BY <1>1, <1>2, <1>3
----------------------------------------------------------------------------
(* The inductive invariant. *)

Mutated == {"client", "env", "k8s"} \cup Admitted
Kept    == {"mutate"} \cup Mutated

\* filterEnvVarSecrets of the entries u of a workload.
EnvEntriesIn(a, u) == {i \in DOMAIN u : ~ u[i].isFile /\ (u[i].env \/ a.envVars)}

\* The list of variables e consists of one block for each entry that they were
\* made of, in the order of the entries and without gaps.
Laid(a, u, made, e) ==
  \E from, to \in [made -> 0 .. Len(e)] :
    /\ \A i \in made : \E b \in EnvVars(a, u[i]) :
         /\ to[i] = from[i] + Len(b)
         /\ \A k \in 1 .. Len(b) : e[from[i] + k] = b[k]
    /\ \A i, j \in made : i < j => to[i] <= from[j]
    /\ \A x \in 1 .. Len(e) : \E i \in made : from[i] < x /\ x <= to[i]

\* The entries are a parse of the annotations, and variables are made of them
\* from the first to the last; with fail-on-error none is skipped, and all that
\* were not skipped could be made.
EntriesInv(a, point, u, left, out) ==
  /\ point \in Kept => u \in Parsed(a)
  /\ point \in {"sent", "mutate"} => out = {}
  /\ point \in Mutated =>
       /\ left \subseteq EnvEntriesIn(a, u) /\ out \subseteq EnvEntriesIn(a, u)
       /\ left \cap out = {}
       /\ left # {} <=> point \in {"client", "env"}
       /\ point = "client" => left = EnvEntriesIn(a, u)
       /\ \A i \in EnvEntriesIn(a, u) \ left, j \in left : i < j
       /\ a.failOnError => out = {}
       /\ \A i \in EnvEntriesIn(a, u) \ (left \cup out) : Buildable(a, u[i])

\* All containers have the variables of the entries that are done.
VarsInv(a, point, u, left, out, there, e) ==
  /\ point \in {"sent", "mutate"} => there = Apps
  /\ point \in Mutated =>
       /\ there = Apps \cup IF a.initOnly THEN {} ELSE {Sidecar}
       /\ \A c \in there :
            /\ e[c] \in Seq(Vars)
            /\ Laid(a, u, EnvEntriesIn(a, u) \ (left \cup out), e[c])
       /\ \A c, d \in there : e[c] = e[d]

\* What the agent writes for the entries u.
FailingIn(u) == {i \in DOMAIN u : Fails(u[i])}

LastAt(u, path) == Max({i \in DOMAIN u \ FailingIn(u) : u[i].path = path})

WrittenOf(u) ==
  [path \in {u[i].path : i \in DOMAIN u \ FailingIn(u)} |->
     Fetched(SecretConfig(u[LastAt(u, path)]))]

\* The agent was started with the entries.
Ran(a, point) ==
  \/ point \in {"started", "running", "exits"}
  \/ point = "stuck" /\ a.ksmConfig /\ Configured(a)

\* Files are there from the first fetch on, and a pod that does not run has a
\* reason.
RunInv(a, point, u, written) ==
  /\ written = IF Ran(a, point) THEN WrittenOf(u) ELSE << >>
  /\ point = "stuck" /\ a.ksmConfig /\ Configured(a) => FailingIn(u) # {}
  /\ point = "exits" => a.signal \/ a.interval \notin Intervals

ReqInv(q) ==
  /\ EntriesInv(app[q], pc[q], secrets[q], todo[q], skipped[q])
  /\ VarsInv(app[q], pc[q], secrets[q], todo[q], skipped[q], containers[q], env[q])
  /\ RunInv(app[q], pc[q], secrets[q], files[q])

IInv ==
  /\ TypeOK
  /\ DOMAIN env = Requests /\ env = [q \in Requests |-> env[q]]
  /\ DOMAIN files = Requests /\ files = [q \in Requests |-> files[q]]
  /\ \A q \in Requests : ReqInv(q)

\* No entries make no variables.
LEMMA LaidFirst ==
  ASSUME NEW a, NEW u
  PROVE  Laid(a, u, {}, << >>)
<1> DEFINE from == [i \in {} |-> 0]
<1>1. from \in [{} -> 0 .. 0] /\ Len(<< >>) = 0
  OBVIOUS
<1>2. \A x \in 1 .. Len(<< >>) : FALSE
  OBVIOUS
<1> HIDE DEF from
<1>3. /\ \A i \in {} : \E b \in EnvVars(a, u[i]) :
           /\ from[i] = from[i] + Len(b)
           /\ \A k \in 1 .. Len(b) : << >>[from[i] + k] = b[k]
      /\ \A i, j \in {} : i < j => from[i] <= from[j]
      /\ \A x \in 1 .. Len(<< >>) : \E i \in {} : from[i] < x /\ x <= from[i]
  BY <1>2
<1> QED BY <1>1, <1>3 DEF Laid

\* The variables of a later entry are a block of their own at the end.
LEMMA LaidNext ==
  ASSUME NEW a \in Workloads, NEW u \in Seq(Refs), NEW made, made \subseteq DOMAIN u,
         NEW e \in Seq(Vars), Laid(a, u, made, e),
         NEW n \in DOMAIN u, \A i \in made : i < n,
         NEW b \in EnvVars(a, u[n])
  PROVE  /\ e \o b \in Seq(Vars)
         /\ Laid(a, u, made \cup {n}, e \o b)
<1>1. b \in Seq(Vars) /\ Len(b) \in Nat /\ Len(e) \in Nat /\ n \in Nat
  <2>1. u[n] \in Refs /\ n \in Nat
    OBVIOUS
  <2> QED BY <2>1, EnvVarsTyped
<1>2. e \in Seq(Vars) /\ b \in Seq(Vars)
  BY <1>1
<1>3. /\ e \o b \in Seq(Vars) /\ Len(e \o b) = Len(e) + Len(b)
      /\ \A x \in 1 .. Len(e) + Len(b) : (e \o b)[x] = IF x <= Len(e) THEN e[x] ELSE b[x - Len(e)]
  BY <1>2, ConcatProperties
<1>4. PICK from \in [made -> 0 .. Len(e)], to \in [made -> 0 .. Len(e)] :
        /\ \A i \in made : \E c \in EnvVars(a, u[i]) :
             /\ to[i] = from[i] + Len(c)
             /\ \A k \in 1 .. Len(c) : e[from[i] + k] = c[k]
        /\ \A i, j \in made : i < j => to[i] <= from[j]
        /\ \A x \in 1 .. Len(e) : \E i \in made : from[i] < x /\ x <= to[i]
  BY DEF Laid
<1>5. n \notin made
  <2>1. ~ (n < n)
    BY <1>1
  <2> QED BY <2>1
<1> DEFINE F == [i \in made \cup {n} |-> IF i = n THEN Len(e) ELSE from[i]]
           T == [i \in made \cup {n} |-> IF i = n THEN Len(e) + Len(b) ELSE to[i]]
           f == e \o b
<1>6. /\ F[n] = Len(e) /\ T[n] = Len(e) + Len(b)
      /\ \A i \in made : F[i] = from[i] /\ T[i] = to[i]
  BY <1>5
<1>7. /\ \A i \in made : from[i] \in 0 .. Len(e) /\ to[i] \in 0 .. Len(e)
      /\ 0 .. Len(e) \subseteq 0 .. Len(e) + Len(b)
      /\ Len(e) \in 0 .. Len(e) + Len(b) /\ Len(e) + Len(b) \in 0 .. Len(e) + Len(b)
  BY <1>1
<1>8. F \in [made \cup {n} -> 0 .. Len(e) + Len(b)] /\ T \in [made \cup {n} -> 0 .. Len(e) + Len(b)]
  BY <1>7
<1>9. /\ Len(f) = Len(e) + Len(b)
      /\ \A x \in 1 .. Len(e) : f[x] = e[x]
      /\ \A k \in 1 .. Len(b) : f[Len(e) + k] = b[k]
  <2>1. \A k \in 1 .. Len(b) : /\ Len(e) + k \in 1 .. Len(e) + Len(b)
                               /\ ~ (Len(e) + k <= Len(e)) /\ Len(e) + k - Len(e) = k
    BY <1>1
  <2>2. \A x \in 1 .. Len(e) : x \in 1 .. Len(e) + Len(b) /\ x <= Len(e)
    BY <1>1
  <2> QED BY <1>3, <2>1, <2>2
<1> HIDE DEF F, T, f
<1>10. ASSUME NEW i \in made \cup {n}
       PROVE  \E c \in EnvVars(a, u[i]) :
                /\ T[i] = F[i] + Len(c)
                /\ \A k \in 1 .. Len(c) : f[F[i] + k] = c[k]
  <2>1. CASE i = n
    BY <1>6, <1>9, <2>1, ZenonT(60)
  <2>2. CASE i \in made
    <3>1. PICK c \in EnvVars(a, u[i]) : /\ to[i] = from[i] + Len(c)
                                        /\ \A k \in 1 .. Len(c) : e[from[i] + k] = c[k]
      BY <1>4, <2>2
    <3>2. u[i] \in Refs /\ Len(c) \in Nat
      <4>1. u[i] \in Refs
        BY <2>2
      <4> QED BY <4>1, EnvVarsTyped
    <3>3. /\ from[i] \in Nat /\ to[i] <= Len(e)
      BY <1>1, <1>7, <2>2
    <3>4. \A k \in 1 .. Len(c) : from[i] + k \in 1 .. Len(e)
      BY <3>1, <3>2, <3>3, <1>1
    <3> QED BY <1>6, <1>9, <2>2, <3>1, <3>4
  <2> QED BY <2>1, <2>2
<1>11. ASSUME NEW i \in made \cup {n}, NEW j \in made \cup {n}, i < j
       PROVE  T[i] <= F[j]
  <2>1. CASE i \in made /\ j \in made
    BY <1>4, <1>6, <1>11, <2>1
  <2>2. CASE i \in made /\ j = n
    BY <1>1, <1>6, <1>7, <2>2
  <2>3. CASE i = n
    <3>1. ~ (i < j)
      BY <1>1, <2>3
    <3> QED BY <1>11, <3>1
  <2> QED BY <2>1, <2>2, <2>3
<1>12. ASSUME NEW x \in 1 .. Len(e) + Len(b)
       PROVE  \E i \in made \cup {n} : F[i] < x /\ x <= T[i]
  <2>1. CASE x <= Len(e)
    <3>1. x \in 1 .. Len(e)
      BY <1>1, <2>1
    <3> QED BY <3>1, <1>4, <1>6
  <2>2. CASE x > Len(e)
    BY <1>1, <1>6, <2>2
  <2> QED BY <1>1, <2>1, <2>2
<1>13. Laid(a, u, made \cup {n}, f)
  BY <1>8, <1>9, <1>10, <1>11, <1>12 DEF Laid
<1> QED BY <1>3, <1>13 DEF f
----------------------------------------------------------------------------
(* The steps. *)

\* A request for which nothing changes keeps the invariant.
LEMMA OthersKept ==
  ASSUME NEW r, ReqInv(r),
         app'[r] = app[r], pc'[r] = pc[r], secrets'[r] = secrets[r], todo'[r] = todo[r],
         skipped'[r] = skipped[r], containers'[r] = containers[r], env'[r] = env[r],
         files'[r] = files[r]
  PROVE  ReqInv(r)'
BY DEF ReqInv

\* The operators that read the state are those of the invariant.
LEMMA OfState ==
  ASSUME NEW q
  PROVE  /\ EnvEntries(q) = EnvEntriesIn(app[q], secrets[q])
         /\ Failing(q) = FailingIn(secrets[q])
         /\ Written(q) = WrittenOf(secrets[q])
<1>1. EnvEntries(q) = EnvEntriesIn(app[q], secrets[q])
  BY DEF EnvEntries, EnvEntriesIn
<1>2. Failing(q) = FailingIn(secrets[q])
  BY DEF Failing, FailingIn
<1> DEFINE done    == DOMAIN secrets[q] \ Failing(q)
           last(p) == Max({i \in done : secrets[q][i].path = p})
<1>3. Written(q) = [p \in {secrets[q][i].path : i \in done} |->
                      Fetched(SecretConfig(secrets[q][last(p)]))]
  BY DEF Written
<1>4. \A p : last(p) = LastAt(secrets[q], p)
  BY <1>2 DEF LastAt
<1> HIDE DEF last
<1>5. Written(q) = WrittenOf(secrets[q])
  BY <1>2, <1>3, <1>4 DEF WrittenOf
<1> QED BY <1>1, <1>2, <1>5

\* A step that gives a request new values that are typed and keep the invariant.
LEMMA StepKeeps ==
  ASSUME IInv, NEW q \in Requests, app' = app,
         NEW p \in Points, pc' = [pc EXCEPT ![q] = p],
         NEW u \in Seq(Refs), secrets' = [secrets EXCEPT ![q] = u],
         NEW l \in SUBSET Nat, todo' = [todo EXCEPT ![q] = l],
         NEW o \in SUBSET Nat, skipped' = [skipped EXCEPT ![q] = o],
         NEW cs \in {Apps, Apps \cup {Sidecar}}, containers' = [containers EXCEPT ![q] = cs],
         NEW m \in {{}, Apps}, mounts' = [mounts EXCEPT ![q] = m],
         NEW e, DOMAIN e = cs, env' = [env EXCEPT ![q] = e],
         NEW w, \A x \in DOMAIN w : InVolume(x), files' = [files EXCEPT ![q] = w],
         EntriesInv(app[q], p, u, l, o),
         VarsInv(app[q], p, u, l, o, cs, e),
         RunInv(app[q], p, u, w)
  PROVE  IInv'
<1>1. /\ TypeOK
      /\ DOMAIN env = Requests /\ env = [r \in Requests |-> env[r]]
      /\ DOMAIN files = Requests /\ files = [r \in Requests |-> files[r]]
      /\ \A r \in Requests : ReqInv(r)
  BY DEF IInv
<1>2. /\ app \in [Requests -> Workloads] /\ pc \in [Requests -> Points]
      /\ secrets \in [Requests -> Seq(Refs)]
      /\ todo \in [Requests -> SUBSET Nat] /\ skipped \in [Requests -> SUBSET Nat]
      /\ containers \in [Requests -> {Apps, Apps \cup {Sidecar}}]
      /\ mounts \in [Requests -> {{}, Apps}]
      /\ \A r \in Requests : DOMAIN env[r] = containers[r]
      /\ \A r \in Requests : \A x \in DOMAIN files[r] : InVolume(x)
  BY <1>1 DEF TypeOK
<1>3. /\ pc'[q] = p /\ secrets'[q] = u /\ todo'[q] = l /\ skipped'[q] = o
      /\ containers'[q] = cs /\ mounts'[q] = m /\ env'[q] = e /\ files'[q] = w
  BY <1>1, <1>2
<1>4. ASSUME NEW r \in Requests, r # q
      PROVE  /\ pc'[r] = pc[r] /\ secrets'[r] = secrets[r] /\ todo'[r] = todo[r]
             /\ skipped'[r] = skipped[r] /\ containers'[r] = containers[r]
             /\ env'[r] = env[r] /\ files'[r] = files[r]
  BY <1>1, <1>2, <1>4
<1>5. ReqInv(q)'
  BY <1>3 DEF ReqInv
<1>6. ASSUME NEW r \in Requests, r # q
      PROVE  ReqInv(r)'
  <2>1. ReqInv(r) /\ app'[r] = app[r]
    BY <1>1
  <2> QED BY <2>1, <1>4, <1>6, OthersKept
<1>7. /\ app' \in [Requests -> Workloads] /\ pc' \in [Requests -> Points]
      /\ secrets' \in [Requests -> Seq(Refs)]
      /\ todo' \in [Requests -> SUBSET Nat] /\ skipped' \in [Requests -> SUBSET Nat]
  BY <1>2
<1>8. /\ containers' \in [Requests -> {Apps, Apps \cup {Sidecar}}]
      /\ mounts' \in [Requests -> {{}, Apps}]
  BY <1>2
<1>9. /\ DOMAIN env' = Requests /\ env' = [r \in Requests |-> env'[r]]
      /\ DOMAIN files' = Requests /\ files' = [r \in Requests |-> files'[r]]
  BY <1>1
<1>10. \A r \in Requests : /\ DOMAIN env'[r] = containers'[r]
                           /\ \A x \in DOMAIN files'[r] : InVolume(x)
  BY <1>2, <1>3, <1>4
<1>11. TypeOK'
  BY <1>7, <1>8, <1>10 DEF TypeOK
<1> QED BY <1>5, <1>6, <1>9, <1>11 DEF IInv

\* What is known of a request.
LEMMA RequestTyped ==
  ASSUME IInv, NEW q \in Requests
  PROVE  /\ app[q] \in Workloads /\ pc[q] \in Points
         /\ secrets[q] \in Seq(Refs)
         /\ todo[q] \in SUBSET Nat /\ skipped[q] \in SUBSET Nat
         /\ containers[q] \in {Apps, Apps \cup {Sidecar}} /\ mounts[q] \in {{}, Apps}
         /\ DOMAIN env[q] = containers[q]
         /\ \A x \in DOMAIN files[q] : InVolume(x)
         /\ EntriesInv(app[q], pc[q], secrets[q], todo[q], skipped[q])
         /\ VarsInv(app[q], pc[q], secrets[q], todo[q], skipped[q], containers[q], env[q])
         /\ RunInv(app[q], pc[q], secrets[q], files[q])
<1>1. TypeOK /\ ReqInv(q)
  BY DEF IInv
<1>2. /\ app \in [Requests -> Workloads] /\ pc \in [Requests -> Points]
      /\ secrets \in [Requests -> Seq(Refs)]
      /\ todo \in [Requests -> SUBSET Nat] /\ skipped \in [Requests -> SUBSET Nat]
      /\ containers \in [Requests -> {Apps, Apps \cup {Sidecar}}]
      /\ mounts \in [Requests -> {{}, Apps}]
      /\ DOMAIN env[q] = containers[q]
      /\ \A x \in DOMAIN files[q] : InVolume(x)
  BY <1>1 DEF TypeOK
<1> QED BY <1>1, <1>2 DEF ReqInv

\* What does not change, as a step that changes nothing.
LEMMA NothingNew ==
  ASSUME IInv, NEW q \in Requests
  PROVE  /\ pc = [pc EXCEPT ![q] = pc[q]]
         /\ secrets = [secrets EXCEPT ![q] = secrets[q]]
         /\ todo = [todo EXCEPT ![q] = todo[q]]
         /\ skipped = [skipped EXCEPT ![q] = skipped[q]]
         /\ containers = [containers EXCEPT ![q] = containers[q]]
         /\ mounts = [mounts EXCEPT ![q] = mounts[q]]
         /\ env = [env EXCEPT ![q] = env[q]]
         /\ files = [files EXCEPT ![q] = files[q]]
<1>1. /\ DOMAIN env = Requests /\ env = [r \in Requests |-> env[r]]
      /\ DOMAIN files = Requests /\ files = [r \in Requests |-> files[r]]
      /\ TypeOK
  BY DEF IInv
<1>2. /\ pc \in [Requests -> Points] /\ secrets \in [Requests -> Seq(Refs)]
      /\ todo \in [Requests -> SUBSET Nat] /\ skipped \in [Requests -> SUBSET Nat]
      /\ containers \in [Requests -> {Apps, Apps \cup {Sidecar}}]
      /\ mounts \in [Requests -> {{}, Apps}]
  BY <1>1 DEF TypeOK
<1> QED BY <1>1, <1>2

\* A step that only brings the request to another point.
LEMMA MoveKeeps ==
  ASSUME IInv, NEW q \in Requests, NEW p \in Points, pc' = [pc EXCEPT ![q] = p],
         UNCHANGED <<app, secrets, todo, skipped, pod, files>>,
         EntriesInv(app[q], p, secrets[q], todo[q], skipped[q]),
         VarsInv(app[q], p, secrets[q], todo[q], skipped[q], containers[q], env[q]),
         RunInv(app[q], p, secrets[q], files[q])
  PROVE  IInv'
<1> DEFINE u  == secrets[q]
           l  == todo[q]
           o  == skipped[q]
           cs == containers[q]
           m  == mounts[q]
           e  == env[q]
           w  == files[q]
<1>1. /\ app' = app
      /\ secrets' = [secrets EXCEPT ![q] = u]
      /\ todo' = [todo EXCEPT ![q] = l]
      /\ skipped' = [skipped EXCEPT ![q] = o]
      /\ containers' = [containers EXCEPT ![q] = cs]
      /\ mounts' = [mounts EXCEPT ![q] = m]
      /\ env' = [env EXCEPT ![q] = e]
      /\ files' = [files EXCEPT ![q] = w]
  BY NothingNew DEF pod
<1>2. /\ u \in Seq(Refs) /\ l \in SUBSET Nat /\ o \in SUBSET Nat
      /\ cs \in {Apps, Apps \cup {Sidecar}} /\ m \in {{}, Apps}
      /\ DOMAIN e = cs
      /\ \A x \in DOMAIN w : InVolume(x)
  BY RequestTyped
<1>3. /\ EntriesInv(app[q], p, u, l, o)
      /\ VarsInv(app[q], p, u, l, o, cs, e)
      /\ RunInv(app[q], p, u, w)
  OBVIOUS
<1> HIDE DEF u, l, o, cs, m, e, w
<1> QED BY <1>1, <1>2, <1>3, StepKeeps, ZenonT(60)

\* Which point is in which phase.
LEMMA Phases ==
  /\ "sent" \notin Kept /\ "plain" \notin Kept /\ "denied" \notin Kept
  /\ "mutate" \in Kept /\ Mutated \subseteq Kept /\ "mutate" \notin Mutated
  /\ "sent" \notin Mutated /\ "plain" \notin Mutated /\ "denied" \notin Mutated
  /\ "client" \in Mutated /\ "env" \in Mutated /\ "k8s" \in Mutated
  /\ "client" \notin Admitted /\ "env" \notin Admitted
  /\ Admitted \subseteq Mutated
  /\ Mutated \subseteq Points /\ "sent" \in Points /\ "plain" \in Points /\ "denied" \in Points
  /\ "mutate" \in Points
  /\ \A x \in Points : x \notin Kept => x \in {"sent", "plain", "denied"}
BY DEF Kept, Mutated, Admitted, Points

\* A pod that is turned away has no files.
LEMMA TurnedAway ==
  ASSUME IInv, NEW q \in Requests, NEW p \in {"plain", "denied"}, pc' = [pc EXCEPT ![q] = p],
         pc[q] \in {"sent", "env", "k8s"},
         UNCHANGED <<app, secrets, todo, skipped, pod, files>>
  PROVE  IInv'
<1>1. p \notin Kept /\ p \notin Mutated /\ p \notin {"sent", "mutate"} /\ p \in Points
  BY Phases
<1>2. EntriesInv(app[q], p, secrets[q], todo[q], skipped[q])
  BY <1>1 DEF EntriesInv
<1>3. VarsInv(app[q], p, secrets[q], todo[q], skipped[q], containers[q], env[q])
  BY <1>1 DEF VarsInv
<1>4. RunInv(app[q], p, secrets[q], files[q])
  <2>1. ~ Ran(app[q], pc[q]) /\ ~ Ran(app[q], p)
    BY DEF Ran
  <2>2. files[q] = << >>
    BY <2>1, RequestTyped DEF RunInv
  <2> QED BY <2>1, <2>2 DEF RunInv
<1> QED BY <1>1, <1>2, <1>3, <1>4, MoveKeeps

\* The annotations are parsed.
LEMMA ParseKeeps ==
  ASSUME IInv, NEW q \in Requests, Parse(q)
  PROVE  IInv'
<1>1. PICK s \in Parsed(app[q]) : secrets' = [secrets EXCEPT ![q] = s]
  BY DEF Parse
<1>2. /\ pc[q] = "sent" /\ pc' = [pc EXCEPT ![q] = "mutate"]
      /\ UNCHANGED <<app, todo, skipped, containers, mounts, env, files>>
  BY DEF Parse, Asked, At, Goto, pod
<1>3. s \in Seq(Refs) /\ app[q] \in Workloads
  BY RequestTyped, ParsedShape
<1>4. EntriesInv(app[q], "mutate", s, todo[q], skipped[q])
  BY <1>2, RequestTyped, Phases DEF EntriesInv
<1>5. VarsInv(app[q], "mutate", s, todo[q], skipped[q], containers[q], env[q])
  BY <1>2, RequestTyped, Phases DEF VarsInv
<1>6. RunInv(app[q], "mutate", s, files[q])
  <2>1. ~ Ran(app[q], pc[q]) /\ ~ Ran(app[q], "mutate")
    BY <1>2 DEF Ran
  <2>2. files[q] = << >>
    BY <2>1, RequestTyped DEF RunInv
  <2> QED BY <2>1, <2>2 DEF RunInv
<1>7. /\ todo' = [todo EXCEPT ![q] = todo[q]]
      /\ skipped' = [skipped EXCEPT ![q] = skipped[q]]
      /\ containers' = [containers EXCEPT ![q] = containers[q]]
      /\ mounts' = [mounts EXCEPT ![q] = mounts[q]]
      /\ env' = [env EXCEPT ![q] = env[q]]
      /\ files' = [files EXCEPT ![q] = files[q]]
      /\ app' = app /\ pc' = [pc EXCEPT ![q] = "mutate"]
  BY <1>2, NothingNew
<1>8. "mutate" \in Points
  BY Phases
<1>9. /\ todo[q] \in SUBSET Nat /\ skipped[q] \in SUBSET Nat
      /\ containers[q] \in {Apps, Apps \cup {Sidecar}} /\ mounts[q] \in {{}, Apps}
      /\ DOMAIN env[q] = containers[q]
      /\ \A x \in DOMAIN files[q] : InVolume(x)
  BY RequestTyped
<1> QED BY <1>1, <1>3, <1>4, <1>5, <1>6, <1>7, <1>8, <1>9, StepKeeps

\* Containers and mounts are added to the pod.
LEMMA MutateKeeps ==
  ASSUME IInv, NEW q \in Requests, Mutate(q)
  PROVE  IInv'
<1> DEFINE a  == app[q]
           u  == secrets[q]
           E  == EnvEntriesIn(a, u)
           cs == Apps \cup IF a.initOnly THEN {} ELSE {Sidecar}
           e  == [c \in cs |-> << >>]
           p  == IF E = {} THEN "k8s" ELSE "client"
<1>1. /\ pc[q] = "mutate"
      /\ mounts' = [mounts EXCEPT ![q] = containers[q]]
      /\ containers' = [containers EXCEPT ![q] =
                          @ \cup IF app[q].initOnly THEN {} ELSE {Sidecar}]
      /\ env' = [env EXCEPT ![q] = [c \in containers'[q] |-> << >>]]
      /\ todo' = [todo EXCEPT ![q] = E]
      /\ pc' = [pc EXCEPT ![q] = p]
      /\ UNCHANGED <<app, secrets, skipped, files>>
  BY OfState DEF Mutate, At, Goto
<1>2. /\ a \in Workloads /\ u \in Seq(Refs) /\ a.initOnly \in BOOLEAN
      /\ u \in Parsed(a) /\ skipped[q] = {} /\ containers[q] = Apps
  BY <1>1, RequestTyped, WorkloadTyped, Phases DEF EntriesInv, VarsInv
<1>3. containers \in [Requests -> {Apps, Apps \cup {Sidecar}}]
  BY DEF IInv, TypeOK
<1>4. /\ mounts' = [mounts EXCEPT ![q] = Apps]
      /\ containers' = [containers EXCEPT ![q] = cs]
      /\ env' = [env EXCEPT ![q] = e]
      /\ cs \in {Apps, Apps \cup {Sidecar}}
  BY <1>1, <1>2, <1>3
<1>5. E \in SUBSET Nat
  BY <1>2 DEF EnvEntriesIn
<1>6. p \in Points /\ p \in Mutated /\ p \in Kept /\ p \notin {"sent", "mutate"}
  BY Phases
<1>7. EntriesInv(a, p, u, E, {})
  <2>1. E # {} <=> p \in {"client", "env"}
    OBVIOUS
  <2>2. E \ (E \cup {}) = {} /\ E \ E = {}
    OBVIOUS
  <2> HIDE DEF E, p, a, u
  <2>3. E = EnvEntriesIn(a, u)
    BY DEF E
  <2> QED BY <1>2, <1>6, <2>1, <2>2, <2>3 DEF EntriesInv
<1>8. VarsInv(a, p, u, E, {}, cs, e)
  <2>1. /\ E \ (E \cup {}) = {} /\ << >> \in Seq(Vars)
        /\ \A c \in cs : e[c] = << >>
    OBVIOUS
  <2>2. Laid(a, u, {}, << >>)
    BY LaidFirst
  <2>3. \A c \in cs : e[c] \in Seq(Vars) /\ Laid(a, u, E \ (E \cup {}), e[c])
    BY <2>1, <2>2
  <2>4. \A c, d \in cs : e[c] = e[d]
    BY <2>1
  <2>5. cs = Apps \cup IF a.initOnly THEN {} ELSE {Sidecar}
    OBVIOUS
  <2> HIDE DEF cs, e, p
  <2> QED BY <1>6, <2>3, <2>4, <2>5 DEF VarsInv
<1>9. RunInv(a, p, u, files[q])
  <2>1. ~ Ran(a, pc[q]) /\ ~ Ran(a, p)
    BY <1>1 DEF Ran
  <2>2. files[q] = << >>
    BY <2>1, RequestTyped DEF RunInv
  <2> QED BY <2>1, <2>2 DEF RunInv
<1>10. /\ secrets' = [secrets EXCEPT ![q] = u]
       /\ skipped' = [skipped EXCEPT ![q] = {}]
       /\ files' = [files EXCEPT ![q] = files[q]]
       /\ app' = app /\ pc' = [pc EXCEPT ![q] = p] /\ todo' = [todo EXCEPT ![q] = E]
  BY <1>1, <1>2, NothingNew
<1>11. DOMAIN e = cs /\ {} \in SUBSET Nat /\ Apps \in {{}, Apps}
       /\ \A x \in DOMAIN files[q] : InVolume(x)
  BY RequestTyped
<1> HIDE DEF a, u, E, cs, e, p
<1>12. a = app[q]
  BY DEF a
<1> QED BY <1>2, <1>4, <1>5, <1>6, <1>7, <1>8, <1>9, <1>10, <1>11, <1>12, StepKeeps

\* From one point after mutatePod to another, with the same entries.
LEMMA SameEntries ==
  ASSUME NEW a, NEW u, NEW left, NEW out, NEW there, NEW e,
         NEW x \in Mutated, EntriesInv(a, x, u, left, out), VarsInv(a, x, u, left, out, there, e),
         NEW p \in Mutated, p # "client", left # {} <=> p \in {"client", "env"}
  PROVE  EntriesInv(a, p, u, left, out) /\ VarsInv(a, p, u, left, out, there, e)
<1>1. p \in Kept /\ x \in Kept /\ p \notin {"sent", "mutate"}
  BY Phases
<1>2. EntriesInv(a, p, u, left, out)
  BY <1>1 DEF EntriesInv
<1>3. VarsInv(a, p, u, left, out, there, e)
  BY <1>1 DEF VarsInv
<1> QED BY <1>2, <1>3

\* A pod that is not started yet has no files.
LEMMA NotStarted ==
  ASSUME IInv, NEW q \in Requests, pc[q] \in {"sent", "mutate", "client", "env", "k8s", "allowed"},
         NEW p \in {"sent", "mutate", "client", "env", "k8s", "allowed", "denied"}, NEW u
  PROVE  files[q] = << >> /\ RunInv(app[q], p, u, files[q])
<1>1. ~ Ran(app[q], pc[q]) /\ ~ Ran(app[q], p)
  BY DEF Ran
<1>2. files[q] = << >>
  BY <1>1, RequestTyped DEF RunInv
<1> QED BY <1>1, <1>2 DEF RunInv

\* The webhook has a client for environment variables.
LEMMA ClientCreatedKeeps ==
  ASSUME IInv, NEW q \in Requests, ClientCreated(q)
  PROVE  IInv'
<1>1. /\ pc[q] = "client" /\ pc' = [pc EXCEPT ![q] = "env"]
      /\ UNCHANGED <<app, secrets, todo, skipped, pod, files>>
  BY DEF ClientCreated, At, Goto
<1>2. /\ EntriesInv(app[q], "client", secrets[q], todo[q], skipped[q])
      /\ VarsInv(app[q], "client", secrets[q], todo[q], skipped[q], containers[q], env[q])
  BY <1>1, RequestTyped
<1>3. todo[q] # {}
  BY <1>2, Phases DEF EntriesInv
<1>4. /\ EntriesInv(app[q], "env", secrets[q], todo[q], skipped[q])
      /\ VarsInv(app[q], "env", secrets[q], todo[q], skipped[q], containers[q], env[q])
  BY <1>2, <1>3, Phases, SameEntries
<1>5. RunInv(app[q], "env", secrets[q], files[q])
  BY <1>1, NotStarted
<1>6. "env" \in Points
  BY Phases
<1> QED BY <1>1, <1>4, <1>5, <1>6, MoveKeeps

\* The pod is admitted.
LEMMA AdmitKeeps ==
  ASSUME IInv, NEW q \in Requests, Admit(q)
  PROVE  IInv'
<1>1. /\ pc[q] = "k8s" /\ pc' = [pc EXCEPT ![q] = "allowed"]
      /\ UNCHANGED <<app, secrets, todo, skipped, pod, files>>
  BY DEF Admit, At, Goto
<1>2. /\ EntriesInv(app[q], "k8s", secrets[q], todo[q], skipped[q])
      /\ VarsInv(app[q], "k8s", secrets[q], todo[q], skipped[q], containers[q], env[q])
  BY <1>1, RequestTyped
<1>3. todo[q] = {}
  BY <1>2, Phases DEF EntriesInv
<1>4. "allowed" \in Mutated /\ "allowed" \in Points
  BY Phases DEF Admitted
<1>5. /\ EntriesInv(app[q], "allowed", secrets[q], todo[q], skipped[q])
      /\ VarsInv(app[q], "allowed", secrets[q], todo[q], skipped[q], containers[q], env[q])
  BY <1>2, <1>3, <1>4, Phases, SameEntries
<1>6. RunInv(app[q], "allowed", secrets[q], files[q])
  BY <1>1, NotStarted
<1> QED BY <1>1, <1>4, <1>5, <1>6, MoveKeeps

\* The pod that was admitted goes on.
LEMMA RunsOn ==
  ASSUME IInv, NEW q \in Requests, pc[q] \in Admitted, NEW p \in Admitted
  PROVE  /\ p \in Points
         /\ EntriesInv(app[q], p, secrets[q], todo[q], skipped[q])
         /\ VarsInv(app[q], p, secrets[q], todo[q], skipped[q], containers[q], env[q])
<1>1. /\ p \in Mutated /\ pc[q] \in Mutated /\ p \notin {"client", "env"}
      /\ pc[q] \notin {"client", "env"} /\ p \in Points
  BY Phases
<1>2. /\ EntriesInv(app[q], pc[q], secrets[q], todo[q], skipped[q])
      /\ VarsInv(app[q], pc[q], secrets[q], todo[q], skipped[q], containers[q], env[q])
  BY RequestTyped
<1>3. todo[q] = {}
  BY <1>1, <1>2 DEF EntriesInv
<1> QED BY <1>1, <1>2, <1>3, SameEntries

\* A container is never created, or the init container rejects what it is given.
LEMMA StuckKeeps ==
  ASSUME IInv, NEW q \in Requests, NeverCreated(q) \/ InitRejects(q)
  PROVE  IInv'
<1>1. /\ pc[q] = "allowed" /\ pc' = [pc EXCEPT ![q] = "stuck"]
      /\ UNCHANGED <<app, secrets, todo, skipped, pod, files>>
      /\ ~ (app[q].ksmConfig /\ Configured(app[q]))
  BY DEF NeverCreated, InitRejects, At, Goto
<1>2. "allowed" \in Admitted /\ "stuck" \in Admitted
  BY DEF Admitted
<1>3. /\ "stuck" \in Points
      /\ EntriesInv(app[q], "stuck", secrets[q], todo[q], skipped[q])
      /\ VarsInv(app[q], "stuck", secrets[q], todo[q], skipped[q], containers[q], env[q])
  BY <1>1, <1>2, RunsOn
<1>4. files[q] = << >>
  BY <1>1, NotStarted
<1>5. RunInv(app[q], "stuck", secrets[q], files[q])
  BY <1>1, <1>4 DEF RunInv, Ran
<1> QED BY <1>1, <1>3, <1>5, MoveKeeps

\* The sidecar starts or exits.
LEMMA SidecarStartsKeeps ==
  ASSUME IInv, NEW q \in Requests, SidecarStarts(q)
  PROVE  IInv'
<1> DEFINE p == IF SidecarArgs(app[q]) \subseteq Flags /\ app[q].interval \in Intervals
                THEN "running" ELSE "exits"
<1>1. /\ pc[q] = "started" /\ pc' = [pc EXCEPT ![q] = p]
      /\ UNCHANGED <<app, secrets, todo, skipped, pod, files>>
  BY DEF SidecarStarts, At, Goto
<1>2. "started" \in Admitted /\ p \in Admitted
  BY DEF Admitted
<1>3. ~ app[q].signal => SidecarArgs(app[q]) \subseteq Flags
  BY DEF SidecarArgs, Flags
<1>4. p = "exits" => app[q].signal \/ app[q].interval \notin Intervals
  BY <1>3
<1>5. p \in {"running", "exits"}
  OBVIOUS
<1> HIDE DEF p
<1>6. /\ p \in Points
      /\ EntriesInv(app[q], p, secrets[q], todo[q], skipped[q])
      /\ VarsInv(app[q], p, secrets[q], todo[q], skipped[q], containers[q], env[q])
  BY <1>1, <1>2, RunsOn
<1>7. files[q] = WrittenOf(secrets[q])
  BY <1>1, RequestTyped DEF RunInv, Ran
<1>8. RunInv(app[q], p, secrets[q], files[q])
  BY <1>4, <1>5, <1>7 DEF RunInv, Ran
<1> QED BY <1>1, <1>6, <1>8, MoveKeeps

\* What the agent writes is in the volume.
LEMMA WrittenInVolume ==
  ASSUME NEW u
  PROVE  \A x \in DOMAIN WrittenOf(u) : InVolume(x)
<1>1. DOMAIN WrittenOf(u) = {u[i].path : i \in DOMAIN u \ FailingIn(u)}
  BY DEF WrittenOf
<1>2. \A i \in DOMAIN u \ FailingIn(u) : InVolume(u[i].path)
  BY DEF FailingIn, Fails
<1> QED BY <1>1, <1>2

\* The init container fetches every entry and writes it.
LEMMA InitRunsKeeps ==
  ASSUME IInv, NEW q \in Requests, InitRuns(q)
  PROVE  IInv'
<1> DEFINE p == IF app[q].failOnError /\ Failing(q) # {} THEN "stuck" ELSE "started"
           w == WrittenOf(secrets[q])
<1>1. /\ pc[q] = "allowed" /\ pc' = [pc EXCEPT ![q] = p]
      /\ files' = [files EXCEPT ![q] = w]
      /\ UNCHANGED <<app, secrets, todo, skipped, containers, mounts, env>>
      /\ app[q].ksmConfig /\ Configured(app[q])
  BY OfState DEF InitRuns, At, Goto, pod
<1>2. "allowed" \in Admitted /\ p \in Admitted
  BY DEF Admitted
<1>3. p \in {"stuck", "started"} /\ (p = "stuck" => FailingIn(secrets[q]) # {})
  BY OfState
<1>4. DOMAIN w = DOMAIN w /\ \A x \in DOMAIN w : InVolume(x)
  BY WrittenInVolume
<1> HIDE DEF p
<1>5. /\ p \in Points
      /\ EntriesInv(app[q], p, secrets[q], todo[q], skipped[q])
      /\ VarsInv(app[q], p, secrets[q], todo[q], skipped[q], containers[q], env[q])
  BY <1>1, <1>2, RunsOn
<1>6. RunInv(app[q], p, secrets[q], w)
  BY <1>1, <1>3 DEF RunInv, Ran
<1> HIDE DEF w
<1>7. /\ secrets' = [secrets EXCEPT ![q] = secrets[q]]
      /\ todo' = [todo EXCEPT ![q] = todo[q]]
      /\ skipped' = [skipped EXCEPT ![q] = skipped[q]]
      /\ containers' = [containers EXCEPT ![q] = containers[q]]
      /\ mounts' = [mounts EXCEPT ![q] = mounts[q]]
      /\ env' = [env EXCEPT ![q] = env[q]]
      /\ app' = app /\ pc' = [pc EXCEPT ![q] = p] /\ files' = [files EXCEPT ![q] = w]
  BY <1>1, NothingNew
<1>8. /\ secrets[q] \in Seq(Refs)
      /\ todo[q] \in SUBSET Nat /\ skipped[q] \in SUBSET Nat
      /\ containers[q] \in {Apps, Apps \cup {Sidecar}} /\ mounts[q] \in {{}, Apps}
      /\ DOMAIN env[q] = containers[q]
  BY RequestTyped
<1> QED BY <1>4, <1>5, <1>6, <1>7, <1>8, StepKeeps

\* The webhook has no client.
LEMMA ClientFailsKeeps ==
  ASSUME IInv, NEW q \in Requests, ClientFails(q)
  PROVE  IInv'
<1> DEFINE a == app[q]
           u == secrets[q]
           E == EnvEntriesIn(a, u)
           p == IF a.failOnError THEN "denied" ELSE "k8s"
<1>1. /\ pc[q] = "client" /\ pc' = [pc EXCEPT ![q] = p]
      /\ skipped' = [skipped EXCEPT ![q] = todo[q]]
      /\ todo' = [todo EXCEPT ![q] = {}]
      /\ UNCHANGED <<app, secrets, containers, mounts, env, files>>
  BY DEF ClientFails, At, Goto, pod
<1>2. /\ EntriesInv(a, "client", u, todo[q], skipped[q])
      /\ VarsInv(a, "client", u, todo[q], skipped[q], containers[q], env[q])
  BY <1>1, RequestTyped
<1>3. /\ u \in Parsed(a)
      /\ todo[q] = E
      /\ containers[q] = Apps \cup IF a.initOnly THEN {} ELSE {Sidecar}
      /\ \A c \in containers[q] : /\ env[q][c] \in Seq(Vars)
                                  /\ Laid(a, u, E \ (todo[q] \cup skipped[q]), env[q][c])
      /\ \A c, d \in containers[q] : env[q][c] = env[q][d]
  BY <1>2, Phases DEF EntriesInv, VarsInv
<1>4. E \ (todo[q] \cup skipped[q]) = {} /\ E \ ({} \cup todo[q]) = {}
  BY <1>3
<1>5. p \in Points /\ p \notin {"sent", "mutate", "client", "env"}
  BY Phases
<1>6. EntriesInv(a, p, u, {}, todo[q])
  <2>1. CASE a.failOnError
    BY <1>5, <2>1, Phases DEF EntriesInv
  <2>2. CASE ~ a.failOnError
    <3> HIDE DEF a, u, p
    <3>1. E = EnvEntriesIn(a, u)
      OBVIOUS
    <3> HIDE DEF E
    <3> QED BY <1>3, <1>4, <1>5, <2>2, <3>1, Phases DEF EntriesInv
  <2> QED BY <2>1, <2>2
<1>7. VarsInv(a, p, u, {}, todo[q], containers[q], env[q])
  BY <1>3, <1>4, <1>5 DEF VarsInv
<1>8. RunInv(a, p, u, files[q])
  BY <1>1, NotStarted
<1>9. /\ secrets' = [secrets EXCEPT ![q] = secrets[q]]
      /\ containers' = [containers EXCEPT ![q] = containers[q]]
      /\ mounts' = [mounts EXCEPT ![q] = mounts[q]]
      /\ env' = [env EXCEPT ![q] = env[q]] /\ files' = [files EXCEPT ![q] = files[q]]
      /\ app' = app /\ pc' = [pc EXCEPT ![q] = p]
      /\ skipped' = [skipped EXCEPT ![q] = todo[q]]
      /\ todo' = [todo EXCEPT ![q] = {}]
  BY <1>1, NothingNew
<1>10. /\ secrets[q] \in Seq(Refs)
       /\ todo[q] \in SUBSET Nat /\ {} \in SUBSET Nat
       /\ containers[q] \in {Apps, Apps \cup {Sidecar}} /\ mounts[q] \in {{}, Apps}
       /\ DOMAIN env[q] = containers[q]
       /\ \A x \in DOMAIN files[q] : InVolume(x)
  BY RequestTyped
<1> HIDE DEF p
<1> QED BY <1>5, <1>6, <1>7, <1>8, <1>9, <1>10, StepKeeps

\* At "env": the entry that is next is the least of those that are left.
LEMMA NextIsLeast ==
  ASSUME IInv, NEW q \in Requests, pc[q] = "env"
  PROVE  /\ Entry(q) \in todo[q] /\ Entry(q) \in DOMAIN secrets[q]
         /\ todo[q] \subseteq Nat /\ secrets[q] \in Seq(Refs)
         /\ \A j \in todo[q] : Entry(q) <= j
         /\ EntriesInv(app[q], "env", secrets[q], todo[q], skipped[q])
         /\ VarsInv(app[q], "env", secrets[q], todo[q], skipped[q], containers[q], env[q])
<1>1. /\ EntriesInv(app[q], "env", secrets[q], todo[q], skipped[q])
      /\ VarsInv(app[q], "env", secrets[q], todo[q], skipped[q], containers[q], env[q])
      /\ todo[q] \subseteq Nat /\ secrets[q] \in Seq(Refs)
  BY RequestTyped
<1>2. todo[q] # {} /\ todo[q] \subseteq EnvEntriesIn(app[q], secrets[q])
  BY <1>1, Phases DEF EntriesInv
<1>3. Entry(q) \in todo[q] /\ \A j \in todo[q] : Entry(q) <= j
  BY <1>1, <1>2, MinIsLeast DEF Entry
<1>4. Entry(q) \in DOMAIN secrets[q]
  BY <1>2, <1>3 DEF EnvEntriesIn
<1> QED BY <1>1, <1>3, <1>4

\* An entry that fails gives no variables.
LEMMA EnvSkipsKeeps ==
  ASSUME IInv, NEW q \in Requests, EnvSkips(q)
  PROVE  IInv'
<1> DEFINE a == app[q]
           u == secrets[q]
           E == EnvEntriesIn(a, u)
           n == Entry(q)
           l == todo[q] \ {n}
           o == skipped[q] \cup {n}
           p == IF l # {} THEN "env" ELSE "k8s"
<1>1. /\ pc[q] = "env" /\ ~ a.failOnError
      /\ skipped' = [skipped EXCEPT ![q] = @ \cup {n}]
      /\ todo' = [todo EXCEPT ![q] = @ \ {n}]
      /\ pc' = [pc EXCEPT ![q] = IF todo'[q] # {} THEN "env" ELSE "k8s"]
      /\ UNCHANGED <<app, secrets, containers, mounts, env, files>>
  BY DEF EnvSkips, NextEntry, At, Goto, pod
<1>2. todo \in [Requests -> SUBSET Nat] /\ skipped \in [Requests -> SUBSET Nat]
  BY DEF IInv, TypeOK
<1>3. /\ skipped' = [skipped EXCEPT ![q] = o] /\ todo' = [todo EXCEPT ![q] = l]
      /\ pc' = [pc EXCEPT ![q] = p]
  BY <1>1, <1>2
<1>4. /\ n \in todo[q] /\ n \in Nat /\ todo[q] \subseteq Nat
      /\ \A j \in todo[q] : n <= j
      /\ EntriesInv(a, "env", u, todo[q], skipped[q])
      /\ VarsInv(a, "env", u, todo[q], skipped[q], containers[q], env[q])
  BY <1>1, NextIsLeast
<1>5. /\ u \in Parsed(a)
      /\ todo[q] \subseteq E /\ skipped[q] \subseteq E /\ todo[q] \cap skipped[q] = {}
      /\ \A i \in E \ todo[q], j \in todo[q] : i < j
      /\ \A i \in E \ (todo[q] \cup skipped[q]) : Buildable(a, u[i])
  BY <1>4, Phases DEF EntriesInv
<1>6. /\ l \subseteq E /\ o \subseteq E /\ l \cap o = {}
      /\ E \ (l \cup o) = E \ (todo[q] \cup skipped[q])
      /\ l \in SUBSET Nat /\ o \in SUBSET Nat
  BY <1>2, <1>4, <1>5
<1>7. \A i \in E \ l, j \in l : i < j
  <2> TAKE i \in E \ l, j \in l
  <2>1. CASE i = n
    <3>1. n <= j /\ n # j /\ j \in Nat
      BY <1>4
    <3> QED BY <1>4, <2>1, <3>1
  <2>2. CASE i # n
    BY <1>5, <2>2
  <2> QED BY <2>1, <2>2
<1>8. /\ p \in {"env", "k8s"} /\ p \in Points /\ p \in Mutated /\ p \in Kept
      /\ p \notin {"sent", "mutate"} /\ p # "client" /\ (l # {} <=> p \in {"client", "env"})
  BY Phases
<1> HIDE DEF l, o, p
<1>9. EntriesInv(a, p, u, l, o)
  BY <1>1, <1>5, <1>6, <1>7, <1>8 DEF EntriesInv
<1>10. VarsInv(a, p, u, l, o, containers[q], env[q])
  BY <1>4, <1>6, <1>8, Phases DEF VarsInv
<1>11. RunInv(a, p, u, files[q])
  BY <1>1, <1>8, NotStarted
<1>12. /\ secrets' = [secrets EXCEPT ![q] = secrets[q]]
       /\ containers' = [containers EXCEPT ![q] = containers[q]]
       /\ mounts' = [mounts EXCEPT ![q] = mounts[q]]
       /\ env' = [env EXCEPT ![q] = env[q]] /\ files' = [files EXCEPT ![q] = files[q]]
       /\ app' = app
  BY <1>1, NothingNew
<1>13. /\ secrets[q] \in Seq(Refs)
       /\ containers[q] \in {Apps, Apps \cup {Sidecar}} /\ mounts[q] \in {{}, Apps}
       /\ DOMAIN env[q] = containers[q]
       /\ \A x \in DOMAIN files[q] : InVolume(x)
  BY RequestTyped
<1> QED BY <1>3, <1>6, <1>8, <1>9, <1>10, <1>11, <1>12, <1>13, StepKeeps

\* An entry gives its variables, behind those of the entries before.
LEMMA InjectEnvKeeps ==
  ASSUME IInv, NEW q \in Requests, InjectEnv(q)
  PROVE  IInv'
<1> DEFINE a    == app[q]
           u    == secrets[q]
           E    == EnvEntriesIn(a, u)
           n    == Entry(q)
           l    == todo[q] \ {n}
           o    == skipped[q]
           p    == IF l # {} THEN "env" ELSE "k8s"
           made == E \ (todo[q] \cup o)
<1>1. PICK v \in EnvVars(a, u[n]) :
             env' = [env EXCEPT ![q] = [c \in containers[q] |-> @[c] \o v]]
  BY DEF InjectEnv
<1> DEFINE e == [c \in containers[q] |-> env[q][c] \o v]
<1>2. /\ pc[q] = "env" /\ Buildable(a, u[n])
      /\ todo' = [todo EXCEPT ![q] = @ \ {n}]
      /\ pc' = [pc EXCEPT ![q] = IF todo'[q] # {} THEN "env" ELSE "k8s"]
      /\ UNCHANGED <<app, secrets, skipped, containers, mounts, files>>
  BY DEF InjectEnv, NextEntry, At, Goto
<1>3. todo \in [Requests -> SUBSET Nat] /\ DOMAIN env = Requests
  BY DEF IInv, TypeOK
<1>4. /\ todo' = [todo EXCEPT ![q] = l] /\ pc' = [pc EXCEPT ![q] = p]
      /\ env' = [env EXCEPT ![q] = e]
  BY <1>1, <1>2, <1>3
<1>5. /\ n \in todo[q] /\ n \in Nat /\ todo[q] \subseteq Nat /\ n \in DOMAIN u
      /\ u \in Seq(Refs) /\ a \in Workloads /\ skipped[q] \in SUBSET Nat
      /\ \A j \in todo[q] : n <= j
      /\ EntriesInv(a, "env", u, todo[q], o)
      /\ VarsInv(a, "env", u, todo[q], o, containers[q], env[q])
  BY <1>2, NextIsLeast, RequestTyped
<1>6. /\ u \in Parsed(a)
      /\ todo[q] \subseteq E /\ o \subseteq E /\ todo[q] \cap o = {}
      /\ \A i \in E \ todo[q], j \in todo[q] : i < j
      /\ a.failOnError => o = {}
      /\ \A i \in made : Buildable(a, u[i])
  BY <1>5, Phases DEF EntriesInv
<1>7. /\ containers[q] = Apps \cup IF a.initOnly THEN {} ELSE {Sidecar}
      /\ \A c \in containers[q] : env[q][c] \in Seq(Vars) /\ Laid(a, u, made, env[q][c])
      /\ \A c, d \in containers[q] : env[q][c] = env[q][d]
  BY <1>5, Phases DEF VarsInv
<1>8. /\ l \subseteq E /\ l \cap o = {} /\ l \in SUBSET Nat
      /\ E \ (l \cup o) = made \cup {n}
  BY <1>5, <1>6
<1>9. \A i \in E \ l, j \in l : i < j
  <2> TAKE i \in E \ l, j \in l
  <2>1. CASE i = n
    <3>1. n <= j /\ n # j /\ j \in Nat
      BY <1>5
    <3> QED BY <1>5, <2>1, <3>1
  <2>2. CASE i # n
    BY <1>6, <2>2
  <2> QED BY <2>1, <2>2
<1>10. /\ p \in {"env", "k8s"} /\ p \in Points /\ p \in Mutated /\ p \in Kept
       /\ p \notin {"sent", "mutate"} /\ p # "client" /\ (l # {} <=> p \in {"client", "env"})
  BY Phases
<1>11. /\ made \subseteq DOMAIN u
       /\ \A i \in made : i < n
  BY <1>5, <1>6 DEF EnvEntriesIn
<1> HIDE DEF l, p, made
<1>12. ASSUME NEW c \in containers[q]
       PROVE  e[c] \in Seq(Vars) /\ Laid(a, u, made \cup {n}, e[c])
  <2>1. env[q][c] \in Seq(Vars) /\ Laid(a, u, made, env[q][c]) /\ e[c] = env[q][c] \o v
    BY <1>7
  <2> HIDE DEF a, u, n, e
  <2>2. env[q][c] \o v \in Seq(Vars) /\ Laid(a, u, made \cup {n}, env[q][c] \o v)
    BY <1>1, <1>5, <1>11, <2>1, LaidNext
  <2> QED BY <2>1, <2>2
<1>13. \A c, d \in containers[q] : e[c] = e[d]
  <2> TAKE c, d \in containers[q]
  <2>1. env[q][c] = env[q][d]
    BY <1>7
  <2> QED BY <2>1
<1>14. EntriesInv(a, p, u, l, o)
  <2>1. \A i \in made \cup {n} : Buildable(a, u[i])
    BY <1>2, <1>6
  <2> QED BY <1>6, <1>8, <1>9, <1>10, <2>1 DEF EntriesInv
<1>15. VarsInv(a, p, u, l, o, containers[q], e)
  <2> HIDE DEF e
  <2> QED BY <1>7, <1>8, <1>10, <1>12, <1>13 DEF VarsInv
<1>16. RunInv(a, p, u, files[q])
  BY <1>2, <1>10, NotStarted
<1>17. /\ secrets' = [secrets EXCEPT ![q] = secrets[q]]
       /\ skipped' = [skipped EXCEPT ![q] = skipped[q]]
       /\ containers' = [containers EXCEPT ![q] = containers[q]]
       /\ mounts' = [mounts EXCEPT ![q] = mounts[q]]
       /\ files' = [files EXCEPT ![q] = files[q]]
       /\ app' = app
  BY <1>2, NothingNew
<1>18. /\ secrets[q] \in Seq(Refs)
       /\ containers[q] \in {Apps, Apps \cup {Sidecar}} /\ mounts[q] \in {{}, Apps}
       /\ DOMAIN e = containers[q]
       /\ \A x \in DOMAIN files[q] : InVolume(x)
  BY RequestTyped
<1> HIDE DEF e
<1> QED BY <1>4, <1>5, <1>8, <1>10, <1>14, <1>15, <1>16, <1>17, <1>18, StepKeeps
----------------------------------------------------------------------------
(* The theorems. *)

\* The invariant holds at the beginning.
LEMMA InitInv ==
  ASSUME Init
  PROVE  IInv
<1>1. TypeOK
  <2>1. "sent" \in Points
    BY Phases
  <2>2. << >> \in Seq(Refs) /\ DOMAIN << >> = {}
    OBVIOUS
  <2> QED BY <2>1, <2>2 DEF Init, TypeOK
<1>2. ASSUME NEW q \in Requests
      PROVE  ReqInv(q)
  <2>1. /\ pc[q] = "sent" /\ skipped[q] = {} /\ containers[q] = Apps /\ files[q] = << >>
        /\ ~ Ran(app[q], "sent")
    BY <1>2 DEF Init, Ran
  <2> QED BY <2>1, Phases DEF ReqInv, EntriesInv, VarsInv, RunInv
<1>3. /\ DOMAIN env = Requests /\ env = [q \in Requests |-> env[q]]
      /\ DOMAIN files = Requests /\ files = [q \in Requests |-> files[q]]
  BY DEF Init
<1> QED BY <1>1, <1>2, <1>3 DEF IInv

\* Every step preserves it.
LEMMA StepInv ==
  ASSUME IInv, [Next]_vars
  PROVE  IInv'
<1>1. CASE UNCHANGED vars
  <2>1. UNCHANGED <<app, pc, secrets, todo, skipped, containers, mounts, env, files>>
    BY <1>1 DEF vars, pod
  <2>2. \A q \in Requests : ReqInv(q)'
    BY <2>1, OthersKept DEF IInv
  <2>3. TypeOK'
    BY <2>1 DEF IInv, TypeOK
  <2> QED BY <2>1, <2>2, <2>3 DEF IInv
<1>2. ASSUME NEW q \in Requests, Step(q)
      PROVE  IInv'
  <2>1. CASE Ignore(q)
    <3>1. /\ pc[q] = "sent" /\ pc' = [pc EXCEPT ![q] = "plain"]
          /\ UNCHANGED <<app, secrets, todo, skipped, pod, files>>
      BY <2>1 DEF Ignore, At, Goto
    <3> QED BY <3>1, TurnedAway
  <2>2. CASE Refuse(q)
    <3>1. /\ pc[q] = "sent" /\ pc' = [pc EXCEPT ![q] = "denied"]
          /\ UNCHANGED <<app, secrets, todo, skipped, pod, files>>
      BY <2>2 DEF Refuse, Asked, At, Goto
    <3> QED BY <3>1, TurnedAway
  <2>3. CASE Parse(q)
    BY <2>3, ParseKeeps
  <2>4. CASE Mutate(q)
    BY <2>4, MutateKeeps
  <2>5. CASE ClientCreated(q)
    BY <2>5, ClientCreatedKeeps
  <2>6. CASE ClientFails(q)
    BY <2>6, ClientFailsKeeps
  <2>7. CASE InjectEnv(q)
    BY <2>7, InjectEnvKeeps
  <2>8. CASE EnvDenies(q)
    <3>1. /\ pc[q] = "env" /\ pc' = [pc EXCEPT ![q] = "denied"]
          /\ UNCHANGED <<app, secrets, todo, skipped, pod, files>>
      BY <2>8 DEF EnvDenies, At, Goto
    <3> QED BY <3>1, TurnedAway
  <2>9. CASE EnvSkips(q)
    BY <2>9, EnvSkipsKeeps
  <2>10. CASE Admit(q)
    BY <2>10, AdmitKeeps
  <2>11. CASE K8sDenies(q)
    <3>1. /\ pc[q] = "k8s" /\ pc' = [pc EXCEPT ![q] = "denied"]
          /\ UNCHANGED <<app, secrets, todo, skipped, pod, files>>
      BY <2>11 DEF K8sDenies, At, Goto
    <3> QED BY <3>1, TurnedAway
  <2>12. CASE NeverCreated(q) \/ InitRejects(q)
    BY <2>12, StuckKeeps
  <2>13. CASE InitRuns(q)
    BY <2>13, InitRunsKeeps
  <2>14. CASE SidecarStarts(q)
    BY <2>14, SidecarStartsKeeps
  <2> QED BY <1>2, <2>1, <2>2, <2>3, <2>4, <2>5, <2>6, <2>7, <2>8, <2>9, <2>10, <2>11,
             <2>12, <2>13, <2>14 DEF Step
<1> QED BY <1>1, <1>2 DEF Next

\* The inductive invariant holds.
LEMMA InvHolds == Spec => []IInv
<1>1. Init => IInv
  BY InitInv
<1>2. IInv /\ [Next]_vars => IInv'
  BY StepInv
<1> QED BY <1>1, <1>2, PTL DEF Spec

\* Requests and pods keep their types: mounts are those of the template's
\* containers, every container has its list of variables, and files are written
\* to the volume only.
THEOREM PodTypes == Spec => []TypeOK
<1>1. IInv => TypeOK
  BY DEF IInv
<1> QED BY <1>1, InvHolds, PTL

\* A pod that is admitted and does not run has a reason in its annotations or
\* in Keeper (buildInitContainer, buildSidecarContainer and main of cmd/sidecar).
THEOREM PodsRun == Spec => []AdmittedRuns
<1>1. ASSUME IInv
      PROVE  AdmittedRuns
  <2> SUFFICES ASSUME NEW q \in Requests, pc[q] \in {"stuck", "exits"},
                      app[q].ksmConfig /\ Configured(app[q]), app[q].interval \in Intervals
               PROVE  app[q].signal \/ Failing(q) # {}
    BY DEF AdmittedRuns
  <2>1. RunInv(app[q], pc[q], secrets[q], files[q]) /\ Failing(q) = FailingIn(secrets[q])
    BY <1>1, RequestTyped, OfState
  <2> QED BY <2>1 DEF RunInv
<1> QED BY <1>1, InvHolds, PTL

\* What is known of a pod that was admitted.
LEMMA AdmittedPod ==
  ASSUME IInv, NEW q \in Requests, pc[q] \in Admitted
  PROVE  /\ app[q] \in Workloads /\ secrets[q] \in Parsed(app[q]) /\ secrets[q] \in Seq(Refs)
         /\ containers[q] = Apps \cup IF app[q].initOnly THEN {} ELSE {Sidecar}
         /\ app[q].failOnError => skipped[q] = {}
         /\ \A i \in EnvEntriesIn(app[q], secrets[q]) \ skipped[q] :
              Buildable(app[q], secrets[q][i])
         /\ \A c \in containers[q] :
              /\ env[q][c] \in Seq(Vars)
              /\ Laid(app[q], secrets[q], EnvEntriesIn(app[q], secrets[q]) \ skipped[q], env[q][c])
         /\ \A c, d \in containers[q] : env[q][c] = env[q][d]
         /\ files[q] = IF Ran(app[q], pc[q]) THEN WrittenOf(secrets[q]) ELSE << >>
<1>1. /\ pc[q] \in Mutated /\ pc[q] \in Kept /\ pc[q] \notin {"client", "env"}
  BY Phases
<1>2. /\ app[q] \in Workloads /\ secrets[q] \in Seq(Refs)
      /\ EntriesInv(app[q], pc[q], secrets[q], todo[q], skipped[q])
      /\ VarsInv(app[q], pc[q], secrets[q], todo[q], skipped[q], containers[q], env[q])
      /\ RunInv(app[q], pc[q], secrets[q], files[q])
  BY RequestTyped
<1>3. /\ todo[q] = {} /\ secrets[q] \in Parsed(app[q])
      /\ app[q].failOnError => skipped[q] = {}
      /\ \A i \in EnvEntriesIn(app[q], secrets[q]) \ (todo[q] \cup skipped[q]) :
           Buildable(app[q], secrets[q][i])
  BY <1>1, <1>2 DEF EntriesInv
<1>4. todo[q] \cup skipped[q] = skipped[q]
  BY <1>3
<1>5. /\ containers[q] = Apps \cup IF app[q].initOnly THEN {} ELSE {Sidecar}
      /\ \A c \in containers[q] :
           /\ env[q][c] \in Seq(Vars)
           /\ Laid(app[q], secrets[q],
                   EnvEntriesIn(app[q], secrets[q]) \ (todo[q] \cup skipped[q]), env[q][c])
      /\ \A c, d \in containers[q] : env[q][c] = env[q][d]
  BY <1>1, <1>2 DEF VarsInv
<1> QED BY <1>2, <1>3, <1>4, <1>5 DEF RunInv

\* With fail-on-error, no variable of an admitted pod is left out, in none of
\* its containers (injectEnvironmentVariables, buildEnvVarsFromSecret).
THEOREM VariablesComplete == Spec => []EnvComplete
<1>1. ASSUME IInv
      PROVE  EnvComplete
  <2> SUFFICES ASSUME NEW q \in Requests, pc[q] \in Admitted, app[q].failOnError,
                      NEW s \in ToSet(secrets[q]), s.env \/ app[q].envVars, ~ s.isFile
               PROVE  \E v \in EnvVars(app[q], s) : \A c \in containers[q] :
                        /\ ToSet(v) \subseteq ToSet(env[q][c])
                        /\ s.notation = NoText /\ s.fields # << >> => Len(v) = Len(s.fields)
    BY DEF EnvComplete
  <2> DEFINE a == app[q]
             u == secrets[q]
             E == EnvEntriesIn(a, u)
  <2>1. /\ a \in Workloads /\ u \in Seq(Refs)
        /\ containers[q] = Apps \cup IF app[q].initOnly THEN {} ELSE {Sidecar}
        /\ skipped[q] = {} /\ E \ skipped[q] = E
        /\ \A i \in E : Buildable(a, u[i])
        /\ \A c \in containers[q] : env[q][c] \in Seq(Vars) /\ Laid(a, u, E, env[q][c])
        /\ \A c, d \in containers[q] : env[q][c] = env[q][d]
    <3>1. skipped[q] = {}
      BY <1>1, AdmittedPod
    <3>2. E \ skipped[q] = E
      BY <3>1
    <3>3. /\ a \in Workloads /\ u \in Seq(Refs)
          /\ containers[q] = Apps \cup IF app[q].initOnly THEN {} ELSE {Sidecar}
          /\ \A i \in E \ skipped[q] : Buildable(a, u[i])
          /\ \A c \in containers[q] :
               env[q][c] \in Seq(Vars) /\ Laid(a, u, E \ skipped[q], env[q][c])
          /\ \A c, d \in containers[q] : env[q][c] = env[q][d]
      BY <1>1, AdmittedPod
    <3> HIDE DEF E, a, u
    <3> QED BY <3>1, <3>2, <3>3
  <2>2. PICK i \in DOMAIN u : u[i] = s
    BY DEF ToSet
  <2>3. i \in E /\ s \in Refs
    BY <2>1, <2>2 DEF EnvEntriesIn
  <2>4. PICK d \in containers[q] : TRUE
    BY <2>1, AppsAssumption
  <2> DEFINE e == env[q][d]
  <2>5. Laid(a, u, E, e) /\ e \in Seq(Vars) /\ Len(e) \in Nat
    BY <2>1
  <2>6. PICK from \in [E -> 0 .. Len(e)], to \in [E -> 0 .. Len(e)] :
          \A j \in E : \E b \in EnvVars(a, u[j]) :
            /\ to[j] = from[j] + Len(b)
            /\ \A k \in 1 .. Len(b) : e[from[j] + k] = b[k]
    BY <2>5 DEF Laid
  <2>7. PICK b \in EnvVars(a, s) : /\ to[i] = from[i] + Len(b)
                                   /\ \A k \in 1 .. Len(b) : e[from[i] + k] = b[k]
    BY <2>2, <2>3, <2>6
  <2>8. b \in Seq(Vars) /\ Len(b) \in Nat /\ DOMAIN b = 1 .. Len(b)
    BY <2>1, <2>3, EnvVarsTyped
  <2>9. from[i] \in Nat /\ to[i] \in Nat /\ to[i] <= Len(e)
    BY <2>3, <2>5, <2>6
  <2>10. \A k \in 1 .. Len(b) : from[i] + k \in DOMAIN e
    <3>1. DOMAIN e = 1 .. Len(e)
      BY <2>5
    <3> HIDE DEF e
    <3> QED BY <2>5, <2>7, <2>8, <2>9, <3>1
  <2>11. ToSet(b) \subseteq ToSet(e)
    <3> HIDE DEF e
    <3> QED BY <2>7, <2>8, <2>10 DEF ToSet
  <2>12. \A c \in containers[q] : ToSet(b) \subseteq ToSet(env[q][c])
    BY <2>1, <2>11
  <2>13. s.notation = NoText /\ s.fields # << >> => Len(b) = Len(s.fields)
    <3>1. ~ FieldMissing(s)
      BY <2>1, <2>2, <2>3 DEF Buildable
    <3> QED BY <2>1, <2>3, <3>1, NamedFieldsVars
  <2> QED BY <2>12, <2>13
<1> QED BY <1>1, InvHolds, PTL

\* The empty text holds nothing.
LEMMA NothingHeld == ~ Holds(NoText, <<"/", "file", "/">>)
<1>1. Len(NoText) = 0 /\ Len(<<"/", "file", "/">>) = 3
  BY SeparatorsTyped DEF NoText
<1> DEFINE part == <<"/", "file", "/">>
<1>2. 1 .. Len(NoText) - Len(part) + 1 = {}
  BY <1>1
<1> HIDE DEF part
<1>3. Positions(NoText, part) = {}
  BY <1>2 DEF Positions
<1> QED BY <1>3 DEF Holds, part

\* A path in the volume is not empty.
LEMMA InVolumeNamed ==
  ASSUME NEW path, InVolume(path)
  PROVE  path # NoText
<1> DEFINE root == DefaultSecretsPath \o <<"/">>
<1>1. Len(root) <= Len(path)
  BY DEF InVolume, IsStrictPrefix, IsPrefix
<1>2. DefaultSecretsPath \in Seq(Tokens) /\ <<"/">> \in Seq(Tokens)
  BY SeparatorsTyped DEF Texts
<1>3. Len(root) = Len(DefaultSecretsPath) + 1 /\ Len(DefaultSecretsPath) \in Nat
  BY <1>2, ConcatProperties
<1> HIDE DEF root
<1>4. Len(NoText) = 0
  BY DEF NoText
<1> QED BY <1>1, <1>3, <1>4

\* An entry of the full configuration comes through parsing, the configuration
\* of the agent and its own type of an entry, and is fetched as it was meant.
LEMMA FetchedAsMeant ==
  ASSUME NEW y \in YamlEntries, ~ y.template
  PROVE  Fetched(SecretConfig(FullConfig(y))) = Meaning(y)
<1> DEFINE f == FullConfig(y)
           c == SecretConfig(f)
<1>1. f \in Refs
  BY FullConfigTyped
<1>2. /\ f.notation = y.notation /\ f.fileName = y.file /\ f.fields = y.fields
      /\ f.isFile = (y.file # NoText \/ Holds(y.notation, <<"/", "file", "/">>))
      /\ f.name = IF y.notation # NoText THEN RecordOf(y.notation) ELSE y.record
      /\ f.format = IF Len(y.fields) = 1 \/ y.file # NoText THEN "raw"
                    ELSE IF y.format = "" THEN "json" ELSE y.format
  BY DEF FullConfig
<1>3. /\ c.notation = f.notation /\ c.fileName = f.fileName /\ c.fields = f.fields
      /\ c.isFile = f.isFile /\ c.name = f.name /\ c.format = f.format /\ c.template = FALSE
  BY <1>1 DEF SecretConfig, Refs
<1> HIDE DEF c, f
<1>4. CASE y.notation # NoText
  <2>1. Fetched(c) = <<"notation", y.notation>>
    BY <1>2, <1>3, <1>4 DEF Fetched
  <2> QED BY <1>4, <2>1 DEF Meaning, c, f
<1>5. CASE y.notation = NoText /\ y.file # NoText
  <2>1. Fetched(c) = <<"file", y.record, y.file>>
    BY <1>2, <1>3, <1>5 DEF Fetched
  <2> QED BY <1>5, <2>1 DEF Meaning, c, f
<1>6. CASE y.notation = NoText /\ y.file = NoText
  <2>1. ~ c.isFile /\ c.notation = NoText /\ c.name = y.record /\ c.fields = y.fields
    BY <1>2, <1>3, <1>6, NothingHeld
  <2>2. CASE Len(y.fields) = 1
    <3>1. Fetched(c) = <<"field", y.record, y.fields[1]>>
      BY <2>1, <2>2 DEF Fetched
    <3> QED BY <1>6, <2>2, <3>1 DEF Meaning, c, f
  <2>3. CASE Len(y.fields) # 1
    <3>1. c.format = IF y.format = "" THEN "json" ELSE y.format
      BY <1>2, <1>3, <1>6, <2>3
    <3>2. Fetched(c) = <<"record", y.record, y.fields, c.format>>
      BY <1>3, <2>1, <2>3 DEF Fetched
    <3> QED BY <1>6, <2>3, <3>1, <3>2 DEF Meaning, c, f
  <2> QED BY <2>2, <2>3
<1> QED BY <1>4, <1>5, <1>6

\* The last of the entries with a path that are not failing.
LEMMA LastTyped ==
  ASSUME NEW u \in Seq(Refs), NEW x \in DOMAIN WrittenOf(u)
  PROVE  /\ LastAt(u, x) \in DOMAIN u \ FailingIn(u) /\ u[LastAt(u, x)].path = x
         /\ \A i \in DOMAIN u \ FailingIn(u) : u[i].path = x => i <= LastAt(u, x)
         /\ WrittenOf(u)[x] = Fetched(SecretConfig(u[LastAt(u, x)]))
<1> DEFINE T == {i \in DOMAIN u \ FailingIn(u) : u[i].path = x}
<1>1. Len(u) \in Nat /\ DOMAIN u = 1 .. Len(u)
  OBVIOUS
<1>2. T \subseteq 0 .. Len(u)
  BY <1>1
<1>3. x \in {u[i].path : i \in DOMAIN u \ FailingIn(u)}
  BY DEF WrittenOf
<1>4. T # {}
  BY <1>3
<1>5. LastAt(u, x) = Max(T)
  BY DEF LastAt
<1>6. LastAt(u, x) \in T /\ \A i \in T : LastAt(u, x) >= i
  <2> HIDE DEF T
  <2> QED BY <1>1, <1>2, <1>4, <1>5, MaxIsGreatest
<1>7. \A i \in T : i <= LastAt(u, x)
  BY <1>1, <1>6
<1>8. WrittenOf(u)[x] = Fetched(SecretConfig(u[LastAt(u, x)]))
  BY <1>3 DEF WrittenOf
<1> QED BY <1>6, <1>7, <1>8

\* An entry that does not fail is written where it is meant to be.
LEMMA MeantPathIsRight ==
  ASSUME NEW y, ~ Fails(FullConfig(y))
  PROVE  FullConfig(y).path = MeantPath(y)
<1> DEFINE name == IF y.notation # NoText THEN RecordOf(y.notation) ELSE y.record
           path == IF y.path # NoText THEN y.path
                   ELSE IF name # NoText THEN JsonPath(name) ELSE NoText
<1>1. FullConfig(y).path = path
  BY DEF FullConfig
<1>2. path # NoText
  <2> HIDE DEF path
  <2>1. InVolume(path)
    BY <1>1 DEF Fails
  <2> QED BY <2>1, InVolumeNamed
<1>3. path = IF y.path # NoText THEN y.path ELSE JsonPath(name)
  BY <1>2
<1>4. MeantPath(y) = IF y.path # NoText THEN y.path ELSE JsonPath(name)
  BY DEF MeantPath
<1> HIDE DEF path, name
<1> QED BY <1>1, <1>3, <1>4

\* What arrives on the volume is what the full configuration asked for, at its
\* path or the default one, unless a later entry is written there
\* (parseFullConfig, buildSidecarConfig, main of cmd/sidecar, fetchSecret).
THEOREM MeaningKept == Spec => []WrittenAsMeant
<1>1. ASSUME IInv
      PROVE  WrittenAsMeant
  <2> SUFFICES ASSUME NEW q \in Requests, pc[q] \in {"started", "running"},
                      NEW i \in DOMAIN app[q].yaml,
                      ~ Fails(FullConfig(app[q].yaml[i])), ~ app[q].yaml[i].template,
                      \A j \in DOMAIN app[q].yaml :
                        j > i => FullConfig(app[q].yaml[j]).path # MeantPath(app[q].yaml[i])
               PROVE  files[q][MeantPath(app[q].yaml[i])] = Meaning(app[q].yaml[i])
    BY DEF WrittenAsMeant
  <2> DEFINE a == app[q]
             u == secrets[q]
             y == a.yaml[i]
             x == MeantPath(y)
             n == Before2(a) + i
  <2>1. /\ a \in Workloads /\ u \in Parsed(a) /\ files[q] = WrittenOf(u)
        /\ u \in Seq(Refs)
    BY <1>1, AdmittedPod DEF Admitted, Ran
  <2>2. /\ a.yaml \in Seq(YamlEntries) /\ y \in YamlEntries
        /\ Len(a.yaml) \in Nat /\ i \in 1 .. Len(a.yaml) /\ DOMAIN a.yaml = 1 .. Len(a.yaml)
    <3>1. a.yaml \in Seq(YamlEntries)
      BY <2>1, WorkloadTyped
    <3> QED BY <3>1
  <2>3. /\ Before2(a) \in Nat /\ Len(u) = Before2(a) + Len(a.yaml)
        /\ \A j \in 1 .. Len(a.yaml) : u[Before2(a) + j] = FullConfig(a.yaml[j])
    <3>1. \A j \in 1 .. Len(a.yaml) : YamlRefs(a)[j] = FullConfig(a.yaml[j])
      BY DEF YamlRefs
    <3> HIDE DEF a, u
    <3> QED BY <2>1, <3>1, ParsedShape
  <2>4. n \in DOMAIN u /\ n \in Nat /\ u[n] = FullConfig(y)
    <3>1. DOMAIN u = 1 .. Len(u)
      BY <2>1
    <3>2. n \in 1 .. Len(u)
      BY <2>2, <2>3
    <3> QED BY <2>2, <2>3, <3>1, <3>2
  <2>5. u[n].path = x
    BY <2>4, MeantPathIsRight
  <2>6. n \in DOMAIN u \ FailingIn(u)
    BY <2>4 DEF FailingIn
  <2>7. x \in DOMAIN WrittenOf(u)
    BY <2>5, <2>6 DEF WrittenOf
  <2> DEFINE m == LastAt(u, x)
  <2>8. /\ m \in DOMAIN u /\ u[m].path = x /\ n <= m
        /\ WrittenOf(u)[x] = Fetched(SecretConfig(u[m]))
    BY <2>1, <2>5, <2>6, <2>7, LastTyped
  <2>9. m = n
    <3> HIDE DEF m
    <3> SUFFICES ASSUME m # n
                 PROVE  FALSE
      OBVIOUS
    <3>1. m \in 1 .. Len(u)
      BY <2>1, <2>8
    <3>2. /\ m - Before2(a) \in 1 .. Len(a.yaml) /\ m - Before2(a) > i
          /\ Before2(a) + (m - Before2(a)) = m
      BY <2>2, <2>3, <2>4, <2>8, <3>1, SMTT(40)
    <3>3. u[m] = FullConfig(a.yaml[m - Before2(a)])
      BY <2>3, <3>2
    <3> QED BY <2>2, <2>8, <3>2, <3>3
  <2>10. files[q][x] = Fetched(SecretConfig(FullConfig(y)))
    BY <2>1, <2>4, <2>8, <2>9
  <2> QED BY <2>2, <2>10, FetchedAsMeant
<1> QED BY <1>1, InvHolds, PTL
----------------------------------------------------------------------------
(* Pods of one workload. *)

\* The same paths are written, and the same to each where no order of a map
\* decides between two entries.
LEMMA SameFiles ==
  ASSUME NEW a \in Workloads, NEW u \in Parsed(a), NEW w \in Parsed(a)
  PROVE  /\ DOMAIN WrittenOf(u) = DOMAIN WrittenOf(w)
         /\ \A x \in DOMAIN WrittenOf(u) :
              ~ PathDepends(a, x) => WrittenOf(u)[x] = WrittenOf(w)[x]
<1>1. /\ u \in Seq(Refs) /\ DOMAIN u = 1 .. Len(u)
      /\ w \in Seq(Refs) /\ DOMAIN w = 1 .. Len(w)
  <2>1. u \in Seq(Refs) /\ w \in Seq(Refs)
    BY ParsedShape
  <2> QED BY <2>1
<1>2. /\ DOMAIN WrittenOf(u) = {u[i].path : i \in DOMAIN u \ FailingIn(u)}
      /\ DOMAIN WrittenOf(w) = {w[i].path : i \in DOMAIN w \ FailingIn(w)}
  BY DEF WrittenOf
<1>3. DOMAIN WrittenOf(u) \subseteq DOMAIN WrittenOf(w)
  <2> SUFFICES ASSUME NEW i \in DOMAIN u \ FailingIn(u)
               PROVE  u[i].path \in DOMAIN WrittenOf(w)
    BY <1>2
  <2>1. PICK j \in 1 .. Len(w) : w[j] = u[i]
    BY <1>1, FoundInOther, ZenonT(60)
  <2>2. j \in DOMAIN w \ FailingIn(w)
    BY <1>1, <2>1 DEF FailingIn
  <2> QED BY <1>2, <2>1, <2>2
<1>4. DOMAIN WrittenOf(w) \subseteq DOMAIN WrittenOf(u)
  <2> SUFFICES ASSUME NEW i \in DOMAIN w \ FailingIn(w)
               PROVE  w[i].path \in DOMAIN WrittenOf(u)
    BY <1>2
  <2>1. PICK j \in 1 .. Len(u) : u[j] = w[i]
    BY <1>1, FoundInOther, ZenonT(60)
  <2>2. j \in DOMAIN u \ FailingIn(u)
    BY <1>1, <2>1 DEF FailingIn
  <2> QED BY <1>2, <2>1, <2>2
<1>5. ASSUME NEW x \in DOMAIN WrittenOf(u), ~ PathDepends(a, x)
      PROVE  WrittenOf(u)[x] = WrittenOf(w)[x]
  <2> DEFINE i == LastAt(u, x)
             j == LastAt(w, x)
             G == {s \in Refs : s.path = x /\ ~ Fails(s)}
  <2>1. /\ i \in DOMAIN u \ FailingIn(u) /\ u[i].path = x
        /\ \A k \in DOMAIN u \ FailingIn(u) : u[k].path = x => k <= i
        /\ WrittenOf(u)[x] = Fetched(SecretConfig(u[i]))
    BY <1>1, LastTyped
  <2>2. /\ j \in DOMAIN w \ FailingIn(w) /\ w[j].path = x
        /\ \A k \in DOMAIN w \ FailingIn(w) : w[k].path = x => k <= j
        /\ WrittenOf(w)[x] = Fetched(SecretConfig(w[j]))
    BY <1>1, <1>3, LastTyped
  <2> HIDE DEF i, j
  <2>3. LastOf(u, G, i)
    BY <1>1, <2>1 DEF FailingIn, LastOf
  <2>4. LastOf(w, G, j)
    BY <1>1, <2>2 DEF FailingIn, LastOf
  <2>5. \A r, s \in Unordered(a) : r \in G /\ s \in G => r = s
    BY <1>5 DEF PathDepends
  <2> HIDE DEF G
  <2>6. u[i] = w[j]
    BY <2>3, <2>4, <2>5, LastOnesAgree
  <2> QED BY <2>1, <2>2, <2>6
<1> QED BY <1>3, <1>4, <1>5

\* Entries for environment variables with a variable of the name key.
Naming(a, key) ==
  {s \in Refs : /\ ForVariables(a, s)
                /\ \E b \in EnvVars(a, s) : \E k \in 1 .. Len(b) : b[k].key = key}

\* It is one of the entry's keys, so that where no order of a map decides what
\* it is, at most one unordered entry has it.
LEMMA NamingOnce ==
  ASSUME NEW a \in Workloads, NEW entries, NEW key, ~ KeyDepends(a, entries, key),
         NEW r \in Unordered(a), NEW s \in Unordered(a), r \in Naming(a, key), s \in Naming(a, key)
  PROVE  r = s
<1>1. ASSUME NEW t \in Naming(a, key)
      PROVE  ForVariables(a, t) /\ key \in Keys(a, t)
  <2>1. t \in Refs /\ ForVariables(a, t)
    BY DEF Naming
  <2>2. PICK b \in EnvVars(a, t) : \E k \in 1 .. Len(b) : b[k].key = key
    BY DEF Naming
  <2>3. PICK f \in Sources(t) : key = ToEnvKey(Prefix(a, t) \o f)
    BY <2>1, <2>2, EnvVarsTyped
  <2> QED BY <2>1, <2>3 DEF Keys
<1>2. \A t \in {r, s} : ForVariables(a, t) /\ key \in Keys(a, t)
  BY <1>1
<1> QED BY <1>2 DEF KeyDepends

\* What a process sees of the variables e (see Effective).
EffectiveOf(e) == {e[i] : i \in {j \in DOMAIN e : IsLast(e, j)}}

\* The variables of one pod are among those of another one.
LEMMA FoundAmongOther ==
  ASSUME NEW a \in Workloads, NEW u \in Parsed(a), NEW w \in Parsed(a),
         NEW e \in Seq(Vars), NEW f \in Seq(Vars),
         Laid(a, u, EnvEntriesIn(a, u), e), Laid(a, w, EnvEntriesIn(a, w), f)
  PROVE  ToSet(e) \subseteq ToSet(f)
<1> DEFINE E == EnvEntriesIn(a, u)
           F == EnvEntriesIn(a, w)
<1>1. /\ u \in Seq(Refs) /\ DOMAIN u = 1 .. Len(u)
      /\ w \in Seq(Refs) /\ DOMAIN w = 1 .. Len(w)
      /\ DOMAIN e = 1 .. Len(e) /\ Len(e) \in Nat /\ DOMAIN f = 1 .. Len(f) /\ Len(f) \in Nat
  <2>1. u \in Seq(Refs) /\ w \in Seq(Refs)
    BY ParsedShape
  <2> QED BY <2>1
<1>2. PICK from \in [E -> 0 .. Len(e)], to \in [E -> 0 .. Len(e)] :
        /\ \A i \in E : \E b \in EnvVars(a, u[i]) :
             /\ to[i] = from[i] + Len(b)
             /\ \A k \in 1 .. Len(b) : e[from[i] + k] = b[k]
        /\ \A x \in 1 .. Len(e) : \E i \in E : from[i] < x /\ x <= to[i]
  BY DEF Laid
<1>3. PICK start \in [F -> 0 .. Len(f)], end \in [F -> 0 .. Len(f)] :
        \A i \in F : \E b \in EnvVars(a, w[i]) :
             /\ end[i] = start[i] + Len(b)
             /\ \A k \in 1 .. Len(b) : f[start[i] + k] = b[k]
  BY DEF Laid
<1> SUFFICES ASSUME NEW p \in 1 .. Len(e)
             PROVE  \E r \in 1 .. Len(f) : f[r] = e[p]
  BY <1>1 DEF ToSet
<1>4. PICK i \in E : from[i] < p /\ p <= to[i]
  BY <1>2
<1>5. PICK b \in EnvVars(a, u[i]) : /\ to[i] = from[i] + Len(b)
                                    /\ \A k \in 1 .. Len(b) : e[from[i] + k] = b[k]
  BY <1>2
<1>6. i \in 1 .. Len(u) /\ u[i] \in Refs
  BY <1>1 DEF EnvEntriesIn
<1>7. Len(b) \in Nat
  BY <1>6, EnvVarsTyped
<1> DEFINE m == p - from[i]
<1>8. m \in 1 .. Len(b) /\ b[m] = e[p]
  <2>1. from[i] \in Nat /\ from[i] + m = p /\ m \in 1 .. Len(b)
    BY <1>1, <1>4, <1>5, <1>7, SMTT(40)
  <2> QED BY <1>5, <2>1
<1>9. PICK j \in 1 .. Len(w) : w[j] = u[i]
  BY <1>6, FoundInOther
<1>10. j \in F
  BY <1>1, <1>9 DEF EnvEntriesIn
<1>11. PICK c \in EnvVars(a, u[i]) : /\ end[j] = start[j] + Len(c)
                                     /\ \A k \in 1 .. Len(c) : f[start[j] + k] = c[k]
  BY <1>3, <1>9, <1>10, ZenonT(60)
<1>12. Len(c) \in Nat
  BY <1>6, EnvVarsTyped
<1> HIDE DEF m, E, F
<1>13. PICK l \in 1 .. Len(c) : c[l] = b[m]
  BY <1>6, <1>8, LastInBlock
<1>14. start[j] + l \in 1 .. Len(f)
  <2>1. start[j] \in Nat /\ end[j] \in Nat /\ end[j] <= Len(f)
    BY <1>1, <1>3, <1>10
  <2> QED BY <1>1, <1>11, <1>12, <2>1, SMTT(40)
<1> QED BY <1>8, <1>11, <1>13, <1>14

\* What is last of its name in the variables of one pod is so in those of another
\* one, where no order of a map decides what it is.
LEMMA LastInOther ==
  ASSUME NEW a \in Workloads,
         NEW u \in Parsed(a), NEW w \in Parsed(a), NEW e \in Seq(Vars), NEW f \in Seq(Vars),
         Laid(a, u, EnvEntriesIn(a, u), e), Laid(a, w, EnvEntriesIn(a, w), f),
         NEW p \in DOMAIN e, IsLast(e, p), ~ KeyDepends(a, ToSet(u), e[p].key)
  PROVE  \E r \in DOMAIN f : f[r] = e[p] /\ IsLast(f, r)
<1> DEFINE E   == EnvEntriesIn(a, u)
           F   == EnvEntriesIn(a, w)
           key == e[p].key
           G   == Naming(a, key)
<1>1. /\ u \in Seq(Refs) /\ DOMAIN u = 1 .. Len(u) /\ Len(u) \in Nat
      /\ w \in Seq(Refs) /\ DOMAIN w = 1 .. Len(w) /\ Len(w) \in Nat
      /\ DOMAIN e = 1 .. Len(e) /\ Len(e) \in Nat /\ DOMAIN f = 1 .. Len(f) /\ Len(f) \in Nat
  <2>1. u \in Seq(Refs) /\ w \in Seq(Refs)
    BY ParsedShape
  <2> QED BY <2>1
<1>2. /\ E \subseteq DOMAIN u /\ \A i \in DOMAIN u : u[i] \in Refs
      /\ F \subseteq DOMAIN w /\ \A i \in DOMAIN w : w[i] \in Refs
  BY <1>1 DEF EnvEntriesIn
<1>3. PICK from \in [E -> 0 .. Len(e)], to \in [E -> 0 .. Len(e)] :
        /\ \A i \in E : \E b \in EnvVars(a, u[i]) :
             /\ to[i] = from[i] + Len(b)
             /\ \A k \in 1 .. Len(b) : e[from[i] + k] = b[k]
        /\ \A i, j \in E : i < j => to[i] <= from[j]
        /\ \A x \in 1 .. Len(e) : \E i \in E : from[i] < x /\ x <= to[i]
  BY DEF Laid
<1>4. PICK start \in [F -> 0 .. Len(f)], end \in [F -> 0 .. Len(f)] :
        /\ \A i \in F : \E b \in EnvVars(a, w[i]) :
             /\ end[i] = start[i] + Len(b)
             /\ \A k \in 1 .. Len(b) : f[start[i] + k] = b[k]
        /\ \A i, j \in F : i < j => end[i] <= start[j]
        /\ \A x \in 1 .. Len(f) : \E i \in F : start[i] < x /\ x <= end[i]
  BY DEF Laid
<1>5. /\ \A i \in E : from[i] \in Nat /\ to[i] \in Nat /\ to[i] <= Len(e)
      /\ \A i \in F : start[i] \in Nat /\ end[i] \in Nat /\ end[i] <= Len(f)
  BY <1>1
<1>6. PICK i \in E : from[i] < p /\ p <= to[i]
  BY <1>1, <1>3
<1>7. PICK b \in EnvVars(a, u[i]) : /\ to[i] = from[i] + Len(b)
                                    /\ \A k \in 1 .. Len(b) : e[from[i] + k] = b[k]
  BY <1>3
<1>8. b \in Seq(Vars) /\ Len(b) \in Nat /\ u[i] \in Refs
  <2>1. u[i] \in Refs
    BY <1>2
  <2> QED BY <2>1, EnvVarsTyped
<1> DEFINE m == p - from[i]
<1>9. m \in 1 .. Len(b) /\ from[i] + m = p /\ b[m] = e[p]
  <2>1. m \in 1 .. Len(b) /\ from[i] + m = p
    BY <1>1, <1>5, <1>6, <1>7, <1>8
  <2> QED BY <2>1, <1>7
\* A block in which the key is named, and what follows p in e.
<1>10. i \in 1 .. Len(u) /\ u[i] \in G
  BY <1>1, <1>2, <1>8, <1>9 DEF Naming, ForVariables, EnvEntriesIn
<1>11. ASSUME NEW j \in 1 .. Len(u), u[j] \in G
       PROVE  j <= i
  <2> SUFFICES ASSUME i < j
               PROVE  FALSE
    BY <1>1, <1>10
  <2>1. j \in E
    BY <1>1, <1>11 DEF Naming, ForVariables, EnvEntriesIn
  <2>2. PICK c \in EnvVars(a, u[j]) : /\ to[j] = from[j] + Len(c)
                                      /\ \A k \in 1 .. Len(c) : e[from[j] + k] = c[k]
    BY <1>3, <2>1
  <2>3. PICK d \in EnvVars(a, u[j]) : \E k \in 1 .. Len(d) : d[k].key = key
    BY <1>11 DEF Naming
  <2>4. PICK k \in 1 .. Len(d) : d[k].key = key
    BY <2>3
  <2>5. u[j] \in Refs
    BY <1>2, <2>1
  <2>6. PICK l \in 1 .. Len(c) : c[l] = d[k]
    BY <2>2, <2>3, <2>4, <2>5, LastInBlock
  <2>7. Len(c) \in Nat
    BY <2>2, <2>5, EnvVarsTyped
  <2>8. to[i] <= from[j]
    BY <1>3, <2>1
  <2>9. from[j] + l \in DOMAIN e /\ from[j] + l > p
    <3>1. /\ from[j] \in Nat /\ from[j] + Len(c) <= Len(e) /\ l \in 1 .. Len(c)
          /\ to[i] \in Nat /\ p <= from[j] /\ p \in Nat
      BY <1>1, <1>5, <1>6, <2>1, <2>2, <2>8, SMTT(40)
    <3> QED BY <1>1, <2>7, <3>1, SMTT(40)
  <2>10. e[from[j] + l].key = key
    BY <2>2, <2>4, <2>6
  <2> QED BY <2>9, <2>10 DEF IsLast
<1>12. IsLast(b, m)
  <2>1. DOMAIN b = 1 .. Len(b)
    BY <1>8
  <2>2. ASSUME NEW k \in 1 .. Len(b), k > m
        PROVE  b[k].key # b[m].key
    <3>1. from[i] + k \in DOMAIN e /\ from[i] + k > p
      BY <1>1, <1>5, <1>6, <1>7, <1>8, <1>9, <2>2, SMTT(40)
    <3>2. e[from[i] + k] = b[k]
      BY <1>7
    <3> QED BY <1>9, <3>1, <3>2 DEF IsLast
  <2> HIDE DEF m
  <2> QED BY <1>9, <2>1, <2>2 DEF IsLast
\* The other pod.
<1> DEFINE T == {x \in 1 .. Len(w) : w[x] \in G}
<1>13. PICK j \in T : \A x \in T : j >= x
  <2>1. PICK x \in 1 .. Len(w) : w[x] = u[i]
    BY <1>10, FoundInOther
  <2>2. T # {} /\ T \subseteq 0 .. Len(w)
    <3> HIDE DEF G
    <3>1. x \in T
      BY <1>10, <2>1
    <3>2. 1 .. Len(w) \subseteq 0 .. Len(w)
      BY <1>1
    <3> QED BY <3>1, <3>2
  <2> HIDE DEF T
  <2> QED BY <1>1, <2>2, GreatestNumber
<1>14. j \in 1 .. Len(w) /\ w[j] \in G /\ \A x \in 1 .. Len(w) : w[x] \in G => x <= j
  <2>1. \A x \in T : x <= j
    BY <1>1, <1>13
  <2> QED BY <2>1
<1>15. \A r, s \in Unordered(a) : r \in G /\ s \in G => r = s
  BY NamingOnce
<1> HIDE DEF G, T, m
<1>16. w[j] = u[i]
  <2>1. LastOf(u, G, i)
    BY <1>10, <1>11 DEF LastOf
  <2>2. LastOf(w, G, j)
    BY <1>14 DEF LastOf
  <2> QED BY <1>15, <2>1, <2>2, LastOnesAgree
<1>17. j \in F
  BY <1>1, <1>14 DEF Naming, ForVariables, EnvEntriesIn, G
<1>18. PICK c \in EnvVars(a, u[i]) : /\ end[j] = start[j] + Len(c)
                                     /\ \A k \in 1 .. Len(c) : f[start[j] + k] = c[k]
  BY <1>4, <1>16, <1>17
<1>19. c \in Seq(Vars) /\ Len(c) \in Nat
  BY <1>8, EnvVarsTyped
<1>20. ~ FieldsMeet(a, u[i], b[m].key)
  <2>1. u[i] \in ToSet(u) /\ ForVariables(a, u[i])
    BY <1>1, <1>10 DEF ToSet, Naming, G
  <2> QED BY <1>9, <2>1 DEF KeyDepends
<1>21. PICK l \in 1 .. Len(c) : c[l] = b[m] /\ IsLast(c, l)
  <2>1. u[i] \in Refs /\ m \in 1 .. Len(b)
    BY <1>8, <1>9
  <2> HIDE DEF E, F, key
  <2> QED BY <1>12, <1>20, <2>1, LastInBlock
<1> DEFINE r == start[j] + l
<1>22. r \in DOMAIN f /\ f[r] = e[p]
  <2>1. /\ start[j] \in Nat /\ start[j] + Len(c) <= Len(f) /\ l \in 1 .. Len(c)
        /\ f[start[j] + l] = c[l] /\ c[l] = e[p]
    BY <1>5, <1>9, <1>17, <1>18, <1>21
  <2> QED BY <1>1, <1>19, <2>1, SMTT(40)
<1>23. ASSUME NEW x \in DOMAIN f, x > r, f[x].key = key
       PROVE  FALSE
  <2>1. PICK h \in F : start[h] < x /\ x <= end[h]
    BY <1>1, <1>4
  <2>2. PICK d \in EnvVars(a, w[h]) : /\ end[h] = start[h] + Len(d)
                                      /\ \A k \in 1 .. Len(d) : f[start[h] + k] = d[k]
    BY <1>4
  <2>3. w[h] \in Refs /\ h \in 1 .. Len(w)
    BY <1>1, <1>2
  <2>4. Len(d) \in Nat
    BY <2>3, EnvVarsTyped
  <2>5. x - start[h] \in 1 .. Len(d) /\ start[h] + (x - start[h]) = x
    BY <1>1, <1>5, <2>1, <2>2, <2>4, SMTT(40)
  <2>6. d[x - start[h]].key = key
    BY <1>23, <2>2, <2>5
  <2>7. w[h] \in G
    BY <2>3, <2>5, <2>6 DEF G, Naming, ForVariables, EnvEntriesIn
  <2>8. h <= j
    BY <1>14, <2>3, <2>7
  <2>9. CASE h = j
    <3>1. x - start[j] \in 1 .. Len(c) /\ start[j] + (x - start[j]) = x /\ x - start[j] > l
      BY <1>1, <1>5, <1>17, <1>18, <1>19, <1>23, <2>1, <2>9
    <3>2. f[x] = c[x - start[j]]
      BY <1>18, <3>1
    <3>3. DOMAIN c = 1 .. Len(c)
      BY <1>19
    <3>4. c[x - start[j]].key # c[l].key
      BY <1>21, <3>1, <3>3 DEF IsLast
    <3> QED BY <1>9, <1>21, <1>23, <3>2, <3>4
  <2>10. CASE h # j
    <3>1. h < j
      BY <1>14, <2>3, <2>8, <2>10
    <3>2. end[h] <= start[j]
      BY <1>4, <1>17, <3>1
    <3>3. ~ (x > r)
      BY <1>1, <1>5, <1>17, <1>19, <2>1, <3>2
    <3> QED BY <1>23, <3>3
  <2> QED BY <2>9, <2>10
<1> HIDE DEF r
<1> QED BY <1>22, <1>23 DEF IsLast

\* What counts in a container depends on its list of variables only.
LEMMA EffectiveIsLast ==
  ASSUME NEW q, NEW c
  PROVE  Effective(q, c) = EffectiveOf(env[q][c])
BY DEF Effective, EffectiveOf, IsLast, ToSet

\* Pods of one workload have the same variables and the same files, although
\* Go's maps come in another order for each of them (ParseAnnotations,
\* convertFieldsToEnvVars), and those that count and the contents are the same
\* wherever a map does not decide between two.
THEOREM OrderOfMaps == Spec => []PodsAlike
<1>1. ASSUME IInv
      PROVE  PodsAlike
  <2> SUFFICES ASSUME NEW p \in Requests, NEW q \in Requests, app[p] = app[q],
                      pc[p] \in Admitted, pc[q] = pc[p], skipped[p] = {}, skipped[q] = {}
               PROVE  /\ \A c \in containers[p] :
                           /\ ToSet(env[p][c]) = ToSet(env[q][c])
                           /\ \A v \in Effective(p, c) :
                                ~ KeyDepends(app[p], ToSet(secrets[p]), v.key)
                                  => v \in Effective(q, c)
                      /\ DOMAIN files[p] = DOMAIN files[q]
                      /\ \A path \in DOMAIN files[p] :
                           ~ PathDepends(app[p], path) => files[p][path] = files[q][path]
    BY DEF PodsAlike
  <2> DEFINE a == app[p]
             u == secrets[p]
             w == secrets[q]
  <2>1. /\ a \in Workloads /\ u \in Parsed(a)
        /\ containers[p] = Apps \cup IF a.initOnly THEN {} ELSE {Sidecar}
        /\ \A c \in containers[p] :
             /\ env[p][c] \in Seq(Vars)
             /\ Laid(a, u, EnvEntriesIn(a, u) \ skipped[p], env[p][c])
        /\ files[p] = IF Ran(a, pc[p]) THEN WrittenOf(u) ELSE << >>
    BY <1>1, AdmittedPod
  <2>2. /\ w \in Parsed(a)
        /\ containers[q] = Apps \cup IF a.initOnly THEN {} ELSE {Sidecar}
        /\ \A c \in containers[q] :
             /\ env[q][c] \in Seq(Vars)
             /\ Laid(a, w, EnvEntriesIn(a, w) \ skipped[q], env[q][c])
        /\ files[q] = IF Ran(a, pc[p]) THEN WrittenOf(w) ELSE << >>
    BY <1>1, AdmittedPod
  <2>3. /\ EnvEntriesIn(a, u) \ skipped[p] = EnvEntriesIn(a, u)
        /\ EnvEntriesIn(a, w) \ skipped[q] = EnvEntriesIn(a, w)
    OBVIOUS
  <2>4. /\ DOMAIN files[p] = DOMAIN files[q]
        /\ \A path \in DOMAIN files[p] :
             ~ PathDepends(a, path) => files[p][path] = files[q][path]
    <3>1. CASE Ran(a, pc[p])
      <4>1. files[p] = WrittenOf(u) /\ files[q] = WrittenOf(w)
        BY <2>1, <2>2, <3>1
      <4> HIDE DEF a, u, w
      <4> QED BY <2>1, <2>2, <4>1, SameFiles
    <3>2. CASE ~ Ran(a, pc[p])
      BY <2>1, <2>2, <3>2
    <3> QED BY <3>1, <3>2
  <2>5. ASSUME NEW c \in containers[p]
        PROVE  /\ ToSet(env[p][c]) = ToSet(env[q][c])
               /\ \A v \in Effective(p, c) :
                    ~ KeyDepends(a, ToSet(u), v.key) => v \in Effective(q, c)
    <3> DEFINE e == env[p][c]
               f == env[q][c]
    <3>1. c \in containers[q]
      BY <2>1, <2>2
    <3>2. e \in Seq(Vars) /\ Laid(a, u, EnvEntriesIn(a, u), e)
      BY <2>1, <2>3
    <3>3. f \in Seq(Vars) /\ Laid(a, w, EnvEntriesIn(a, w), f)
      BY <2>2, <2>3, <3>1
    <3> HIDE DEF e, f, u, w, a
    <3>4. ToSet(e) \subseteq ToSet(f)
      BY <2>1, <2>2, <3>2, <3>3, FoundAmongOther
    <3>5. ToSet(f) \subseteq ToSet(e)
      BY <2>1, <2>2, <3>2, <3>3, FoundAmongOther
    <3>6. ASSUME NEW v \in EffectiveOf(e), ~ KeyDepends(a, ToSet(u), v.key)
          PROVE  v \in EffectiveOf(f)
      <4>1. PICK i \in DOMAIN e : IsLast(e, i) /\ v = e[i]
        BY DEF EffectiveOf
      <4>2. PICK r \in DOMAIN f : f[r] = e[i] /\ IsLast(f, r)
        BY <2>1, <2>2, <3>2, <3>3, <3>6, <4>1, LastInOther
      <4> QED BY <4>1, <4>2 DEF EffectiveOf
    <3>7. Effective(p, c) = EffectiveOf(e) /\ Effective(q, c) = EffectiveOf(f)
      BY EffectiveIsLast DEF e, f
    <3>8. ToSet(e) = ToSet(f)
      BY <3>4, <3>5
    <3> QED BY <3>6, <3>7, <3>8 DEF e, f
  <2> QED BY <2>4, <2>5
<1> QED BY <1>1, InvHolds, PTL
=============================================================================
