--------------------------- MODULE AnnotationText ---------------------------
(***************************************************************************)
(* How pkg/config/annotations.go reads the value of one annotation.  A     *)
(* text is a sequence of tokens: words, which are runs of letters and      *)
(* digits in either case, and the other characters, one by one; letters    *)
(* outside ASCII are left out.  The selector "custom_field" is taken for   *)
(* one word.                                                               *)
(***************************************************************************)
EXTENDS Naturals, Sequences, SequencesExt, FiniteSetsExt

CONSTANTS
  Tokens,  \* words and other characters
  Words,   \* the words
  Upper,   \* a word in upper case
  Lower    \* and in lower case

Space      == " "
Underscore == "_"

Separators == {"/", ":", "[", "]", Space, "-", Underscore, "."}

ASSUME TokenAssumption ==
  /\ Separators \subseteq Tokens
  /\ {"keeper", "secrets", "json", "file", "field"} \subseteq Words
  /\ Words \subseteq Tokens
  /\ Words \cap Separators = {}
  /\ Upper \in [Words -> Words]
  /\ Lower \in [Words -> Words]

Texts == Seq(Tokens)

NoText == << >>

Scheme == <<"keeper", ":", "/", "/">>

DefaultSecretsPath == <<"/", "keeper", "/", "secrets">>

\* The positions at which part occurs in text.
Positions(text, part) ==
  {i \in 1 .. Len(text) - Len(part) + 1 :
     SubSeq(text, i, i + Len(part) - 1) = part}

Holds(text, part) == Positions(text, part) # {}

Before(text, i) == SubSeq(text, 1, i - 1)

From(text, i) == SubSeq(text, i, Len(text))

\* The k-th of a set of positions.
Nth(positions, k) ==
  CHOOSE i \in positions : Cardinality({j \in positions : j <= i}) = k

\* sanitizeName
SanitizeName(name) ==
  [i \in 1 .. Len(name) |->
     IF name[i] \in {Space, "/"} THEN "-"
     ELSE IF name[i] \in Words THEN Lower[name[i]] ELSE name[i]]

DefaultPath(name) == DefaultSecretsPath \o <<"/">> \o SanitizeName(name)

JsonPath(name) == DefaultPath(name) \o <<".", "json">>

\* A SecretRef, as far as the annotations other than the full configuration
\* set it.
SecretRef(name) ==
  [name |-> name, path |-> NoText, fields |-> << >>, format |-> "json",
   template |-> FALSE, notation |-> NoText, fileName |-> NoText,
   isFile |-> FALSE, env |-> FALSE, prefix |-> NoText]

\* The output formats; "" is none, which parsing replaces.
Formats == {"", "json", "env", "raw", "properties", "yaml", "ini"}

Refs == [name : Texts, path : Texts, fields : Seq(Texts), format : Formats,
         template : BOOLEAN, notation : Texts, fileName : Texts,
         isFile : BOOLEAN, env : BOOLEAN, prefix : Texts]

\* extractRecordFromNotation
RecordOf(notation) ==
  LET rest    == IF IsPrefix(Scheme, notation) THEN From(notation, 5) ELSE notation
      slashes == Positions(rest, <<"/">>)
  IN  IF slashes # {} /\ Min(slashes) > 1 THEN Before(rest, Min(slashes)) ELSE rest

\* The name of the file in a notation, without an index.
FileOf(notation) ==
  LET file == From(notation, Min(Positions(notation, <<"/", "file", "/">>)) + 3)
      open == Positions(file, <<"[">>)
  IN  IF open # {} /\ Min(open) > 1 THEN Before(file, Min(open)) ELSE file

\* Mutant of NotationEnd: the first ":/" ends the notation.
FirstColonEnds(value) ==
  LET skip == IF IsPrefix(Scheme, value) THEN 4 ELSE 0
      cuts == Positions(From(value, skip + 1), <<":", "/">>)
  IN  IF cuts # {} THEN skip + Min(cuts) ELSE Len(value) + 1

\* The last ":/" after the scheme ends the notation, if something precedes it.
NotationEnd(value) ==
  LET skip == IF IsPrefix(Scheme, value) THEN 4 ELSE 0
      cuts == Positions(From(value, skip + 1), <<":", "/">>)
  IN  IF cuts # {} /\ Max(cuts) > 1 THEN skip + Max(cuts) ELSE Len(value) + 1

\* parseKeeperNotation
KeeperNotation(name, value) ==
  LET end      == NotationEnd(value)
      notation == Before(value, end)
      path     == From(value, end + 1)
      isFile   == Holds(notation, <<"/", "file", "/">>)
      record   == RecordOf(notation)
  IN  [SecretRef(IF record # NoText THEN record ELSE name) EXCEPT
         !.format = "raw",
         !.notation = notation,
         !.isFile = isFile,
         !.fileName = IF isFile THEN FileOf(notation) ELSE NoText,
         !.path = IF path # NoText THEN path ELSE DefaultPath(name)]

IsNotation(value) ==
  \/ IsPrefix(Scheme, value)
  \/ IsPrefix(<<"/">>, value) /\ Holds(value, <<"/", "field", "/">>)

\* record[field]:path, with the first "]:" and the first "[".
FieldExtraction(name, value) ==
  LET close == Min(Positions(value, <<"]", ":">>))
      head  == Before(value, close)
      opens == Positions(head, <<"[">>)
      ref   == [SecretRef(name) EXCEPT !.path = From(value, close + 2)]
  IN  IF opens # {} /\ Min(opens) > 1
      THEN [ref EXCEPT !.name = Before(head, Min(opens)),
                       !.fields = <<From(head, Min(opens) + 1)>>,
                       !.format = "raw"]
      ELSE ref

\* record:path, if the last ":" is followed by "/"; a path otherwise.
RecordAndPath(name, value) ==
  LET colon == Max({0} \cup Positions(value, <<":">>))
  IN  IF colon > 1 /\ IsPrefix(<<"/">>, From(value, colon + 1))
      THEN [SecretRef(Before(value, colon)) EXCEPT !.path = From(value, colon + 1)]
      ELSE [SecretRef(name) EXCEPT !.path = value]

WithDefault(ref, path) == IF ref.path = NoText THEN [ref EXCEPT !.path = path] ELSE ref

\* parseSecretAnnotation: the annotation keeper.security/secret-<name>.
SecretAnnotation(name, value) ==
  IF IsNotation(value) THEN KeeperNotation(name, value)
  ELSE WithDefault(
         IF Holds(value, <<"[">>) /\ Holds(value, <<"]", ":">>)
         THEN FieldExtraction(name, value)
         ELSE IF IsPrefix(<<"/">>, value)
              THEN [SecretRef(name) EXCEPT !.path = value]
              ELSE RecordAndPath(name, value),
         JsonPath(name))

\* strings.TrimSpace
TrimSpace(text) ==
  LET kept == {i \in DOMAIN text : text[i] # Space}
  IN  IF kept = {} THEN NoText ELSE SubSeq(text, Min(kept), Max(kept))

\* parseFileAnnotation: the annotation keeper.security/file-<name>.
FileAnnotation(name, value) ==
  LET colons == Positions(value, <<":">>)
      first  == Min(colons)
      second == Min({Len(value) + 1} \cup (colons \ {first}))
      ref    == [SecretRef(name) EXCEPT !.format = "raw", !.isFile = TRUE]
      read   == IF colons = {} THEN [ref EXCEPT !.fileName = value]
                ELSE [ref EXCEPT
                        !.name = TrimSpace(Before(value, first)),
                        !.fileName = TrimSpace(SubSeq(value, first + 1, second - 1)),
                        !.path = TrimSpace(From(value, second + 1))]
  IN  IF IsPrefix(Scheme, value) THEN KeeperNotation(name, value)
      ELSE WithDefault(read, IF read.fileName # NoText
                             THEN DefaultSecretsPath \o <<"/">> \o read.fileName
                             ELSE DefaultPath(name))

\* ParseAnnotations: the annotations folder and folder-path, as a reference
\* whose name is the path of the folder and whose path is a directory.
FolderAnnotation(value, path) ==
  WithDefault([SecretRef(TrimSpace(value)) EXCEPT !.path = path], DefaultSecretsPath)
=============================================================================
