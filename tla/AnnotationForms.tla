-------------------------- MODULE AnnotationForms --------------------------
(***************************************************************************)
(* The forms of an annotation that docs/configuration.md and the comments  *)
(* of annotations.go describe, written out as text the way a user would.   *)
(***************************************************************************)
EXTENDS AnnotationText

CONSTANTS
  Keys,     \* what follows "secret-" or "file-" in the annotation's key
  Titles,   \* titles and UIDs of records
  Places,   \* paths of folders, sequences of names
  Fields,   \* names of fields
  Files,    \* names of attachments
  Paths     \* output paths

\* Everything but a place has a name, and output paths are absolute.
ASSUME FormAssumption ==
  /\ Keys \subseteq Texts
  /\ Titles \cup Fields \cup Files \subseteq Texts \ {NoText}
  /\ Places \subseteq Seq(Texts \ {NoText})
  /\ Paths \subseteq {path \in Texts : IsPrefix(<<"/">>, path)}
  /\ "custom_field" \in Words

Notations == {"notation", "customNotation", "fileNotation"}

\* What a user can mean: a place is only given in notations and for a folder.
Forms ==
  LET Kind(k, places, titles, parts, paths) ==
        [kind : {k}, key : Keys, place : places, title : titles, part : parts,
         path : paths]
      Anywhere == {<< >>}
      None     == {NoText}
  IN  UNION {Kind("path", Anywhere, None, None, Paths),
             Kind("record", Anywhere, Titles, None, Paths),
             Kind("field", Anywhere, Titles, Fields, Paths),
             Kind("notation", Places, Titles, Fields, Paths \cup None),
             Kind("customNotation", Places, Titles, Fields, Paths),
             Kind("bareNotation", Places, Titles, Fields, Paths),
             Kind("fileNotation", Places, Titles, Files, Paths \cup None),
             Kind("file", Anywhere, Titles, Files, Paths \cup None),
             Kind("folder", Places \ Anywhere, None, None, Paths \cup None)}

ColonPath(path) == IF path = NoText THEN NoText ELSE <<":">> \o path

Slashed(names) ==
  LET join[n \in 0 .. Len(names)] ==
        IF n = 0 THEN NoText ELSE IF n = 1 THEN names[1] ELSE join[n - 1] \o <<"/">> \o names[n]
  IN  join[Len(names)]

\* The record as a notation has it, and what is taken from it.
Located(f) == Slashed(Append(f.place, f.title))

Selector(f) ==
  CASE f.kind = "customNotation" -> "custom_field"
    [] f.kind = "fileNotation"   -> "file"
    [] OTHER                      -> "field"

Selected(f) == Located(f) \o <<"/", Selector(f), "/">> \o f.part

\* How the documentation says to write it.
Text(f) ==
  CASE f.kind = "path"     -> f.path
    [] f.kind = "record"   -> f.title \o ColonPath(f.path)
    [] f.kind = "field"    -> f.title \o <<"[">> \o f.part \o <<"]">> \o ColonPath(f.path)
    [] f.kind = "file"     -> f.title \o <<":">> \o f.part \o ColonPath(f.path)
    [] f.kind = "folder"   -> Slashed(f.place)
    [] f.kind \in Notations       -> Scheme \o Selected(f) \o ColonPath(f.path)
    [] f.kind = "bareNotation"   -> Selected(f) \o ColonPath(f.path)

\* The path that is meant: the given one, or one made of the key or file name.
MeantPath(f) ==
  IF f.path # NoText THEN f.path
  ELSE CASE f.kind = "file"   -> DefaultSecretsPath \o <<"/">> \o f.part
         [] f.kind = "folder" -> DefaultSecretsPath
         [] OTHER             -> DefaultPath(f.key)

\* Forms that the reader takes for others: a notation without "keeper://",
\* which docs/configuration.md has and the code takes for record and path; what
\* looks like a notation or like a field in brackets and is none; separators at
\* places where the reader looks for its own, as a colon in the title of a
\* record with an attachment, which ends there; and blanks at an end of what is
\* trimmed, folders and what stands between the colons of an attachment.
Deceptive(f) ==
  \/ f.kind = "bareNotation"
  \/ f.kind \in {"path", "record", "field"} /\ IsNotation(Text(f))
  \/ f.kind \in {"path", "record"} /\ Holds(Text(f), <<"[">>) /\ Holds(Text(f), <<"]", ":">>)
  \/ f.kind = "record" /\ (IsPrefix(<<"/">>, f.title) \/ Holds(f.path, <<":">>))
  \/ f.kind = "field" /\ (Holds(f.title, <<"[">>) \/ Holds(f.title \o <<"[">> \o f.part, <<"]", ":">>))
  \/ /\ f.kind = "file"
     /\ \/ Holds(f.title, <<":">>) \/ Holds(f.part, <<":">>) \/ IsPrefix(Scheme, Text(f))
        \/ \E text \in {f.title, f.part, f.path} : TrimSpace(text) # text
  \/ f.kind = "folder" /\ TrimSpace(Text(f)) # Text(f)
  \/ f.kind \in Notations /\ Holds(IF f.path = NoText THEN From(Selected(f), 2) ELSE f.path, <<":", "/">>)
  \/ /\ f.kind \in {"notation", "customNotation"}
     /\ Holds(Scheme \o Selected(f), <<"/", "file", "/">>)
  \/ /\ f.kind = "fileNotation"
     /\ \/ Holds(Scheme \o Located(f) \o <<"/">>, <<"/", "file", "/">>)
        \/ Holds(f.part, <<"[">>) /\ f.part[1] # "["

\* What was read is what was meant.
Matches(ref, f) ==
  /\ ref.path = MeantPath(f)
  /\ f.kind = "path" => ref.name = f.key
  /\ f.kind \in {"record", "field", "file"} => ref.name = f.title
  /\ f.kind = "field" <=> ref.fields # << >>
  /\ f.kind = "field" => ref.fields = <<f.part>> /\ ref.format = "raw"
  /\ f.kind \in Notations <=> ref.notation # NoText
  /\ ref.notation # NoText => ref.notation \o ColonPath(f.path) = Text(f)
  /\ f.kind \in {"file", "fileNotation"} <=> ref.isFile
  /\ ref.isFile => ref.fileName = f.part
  /\ f.kind = "folder" => ref.name = Slashed(f.place)
=============================================================================
