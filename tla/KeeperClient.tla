---------------------------- MODULE KeeperClient ----------------------------
(***************************************************************************)
(* The Keeper client (pkg/ksm/client.go): how records are looked up by     *)
(* title, UID, folder path and notation, and what is taken from them.      *)
(*                                                                         *)
(* A vault has a list of folders [uid, parent, name] and one of records    *)
(* [uid, title, type, folders, fields, custom, files], in the order in     *)
(* which Keeper lists them; a field is [type, label, value], a file is     *)
(* [name, title, data].  All names and values are texts (AnnotationText).  *)
(* UIDs are unique.  What a lookup finds, a record or a folder, comes as a *)
(* sequence of none or one.                                                *)
(***************************************************************************)
EXTENDS AnnotationText

CONSTANT UIDs  \* the texts that look like a UID: 22 letters, digits, "-" and "_"

\* Folders, fields, attachments and records as Keeper has them.
FolderType == [uid : Texts \ {NoText}, parent : Texts, name : Texts]
FieldType  == [type : Texts, label : Texts, value : Texts]
AttachmentType == [name : Texts, title : Texts, data : Texts]
RecordType ==
  [uid : Texts, title : Texts, type : Texts, folders : SUBSET Texts,
   fields : Seq(FieldType), custom : Seq(FieldType), files : Seq(AttachmentType)]

\* An answer is a set of pairs of a key and a value; a raw value has no key.
Failed       == [ok |-> FALSE, data |-> {}]
Answer(data) == [ok |-> TRUE, data |-> data]
Raw(value)   == Answer({<<NoText, value>>})

\* The first and the last element of a list that is at one of some positions.
FirstOf(list, at) == IF at = {} THEN << >> ELSE <<list[Min(at)]>>
LastOf(list, at)  == IF at = {} THEN << >> ELSE <<list[Max(at)]>>

\* looksLikeUID
LooksLikeUID(text) == text \in UIDs
----------------------------------------------------------------------------
(* What is in a record. *)

Key(field) == IF field.label # NoText THEN field.label ELSE field.type

\* The value of the first standard field of a type, or no text.
FieldByType(record, type) ==
  LET at == {i \in DOMAIN record.fields : record.fields[i].type = type}
  IN  IF at = {} THEN NoText ELSE record.fields[Min(at)].value

\* recordToSecretData: fields without a value or a name are left out, a later
\* field replaces an earlier one of the same key, and the note is put last.
SecretFields(record) ==
  LET all    == record.fields \o record.custom
      named  == {i \in DOMAIN all : all[i].value # NoText /\ Key(all[i]) # NoText}
      latest == {i \in named : \A j \in named : j > i => Key(all[j]) # Key(all[i])}
      data   == {<<Key(all[i]), all[i].value>> : i \in latest}
      note   == FieldByType(record, <<"note">>)
  IN  IF note = NoText THEN data
      ELSE {pair \in data : pair[1] # <<"notes">>} \cup {<<<<"notes">>, note>>}

WithKeys(data, keys) == {pair \in data : pair[1] \in keys}

\* The value under a key, or a failure.
ValueUnder(record, key) ==
  LET found == WithKeys(SecretFields(record), {key})
  IN  IF found = {} THEN Failed ELSE Raw((CHOOSE pair \in found : TRUE)[2])

\* The first attachment with a name or title.
FileContent(record, fileName) ==
  LET files == record.files
      at    == {i \in DOMAIN files : fileName \in {files[i].name, files[i].title}}
  IN  IF at = {} THEN Failed ELSE Raw(files[Min(at)].data)
----------------------------------------------------------------------------
(* Lookups by title and UID; each asks Keeper once. *)

Titled(vault, title) == {i \in DOMAIN vault.records : vault.records[i].title = title}

ByUID(vault, uid) == {i \in DOMAIN vault.records : vault.records[i].uid = uid}

\* GetSecretByTitle
GetSecretByTitle(vault, strict, title) ==
  LET at == Titled(vault, title)
  IN  IF strict /\ Cardinality(at) > 1 THEN << >> ELSE FirstOf(vault.records, at)

\* GetSecret
GetSecret(vault, strict, nameOrUID) ==
  IF LooksLikeUID(nameOrUID) THEN FirstOf(vault.records, ByUID(vault, nameOrUID))
  ELSE GetSecretByTitle(vault, strict, nameOrUID)

\* GetSecretField
GetSecretField(vault, strict, nameOrUID, field) ==
  LET found == GetSecret(vault, strict, nameOrUID)
  IN  IF found = << >> THEN Failed ELSE ValueUnder(found[1], field)

\* GetFileContent: strict or not, the first record with the title.
GetFileContent(vault, nameOrUID, fileName) ==
  LET found == FirstOf(vault.records,
                       IF LooksLikeUID(nameOrUID) THEN ByUID(vault, nameOrUID)
                       ELSE Titled(vault, nameOrUID))
  IN  IF found = << >> THEN Failed ELSE FileContent(found[1], fileName)
----------------------------------------------------------------------------
(* Folder paths. *)

\* The components of a path, without the empty ones: the texts between slashes.
Components(text) ==
  LET starts == {i \in DOMAIN text : text[i] # "/" /\ (i = 1 \/ text[i - 1] = "/")}
      End(i) == Min({j \in i .. Len(text) : text[j] = "/"} \cup {Len(text) + 1})
  IN  [k \in 1 .. Cardinality(starts) |->
         LET start == Nth(starts, k) IN SubSeq(text, start, End(start) - 1)]

\* A root of the tree: a folder without a parent in the list.
IsRoot(folders, f) == \A i \in DOMAIN folders : folders[i].uid # f.parent

\* FolderTree.ResolvePath: at each level the first folder with the next name.
ResolvePath(folders, names) ==
  LET reached[n \in 0 .. Len(names)] ==
        IF n = 0 THEN << >>
        ELSE FirstOf(folders,
               {i \in DOMAIN folders :
                  /\ folders[i].name = names[n]
                  /\ IF n = 1 THEN IsRoot(folders, folders[i])
                     ELSE /\ reached[n - 1] # << >>
                          /\ folders[i].parent = reached[n - 1][1].uid})
  IN  reached[Len(names)]

\* Mutant of InFolder: the folder does not count.
InAnyFolder(vault, uid) == DOMAIN vault.records

\* GetSecretsInFolder: the records of a folder or of a shared folder.
InFolder(vault, uid) == {i \in DOMAIN vault.records : uid \in vault.records[i].folders}
----------------------------------------------------------------------------
(* Notations. *)

Selectors == {<<"field">>, <<"custom_field">>, <<"file">>, <<"type">>,
              <<"title">>, <<"notes">>}

NotationParts(notation) ==
  Components(IF IsPrefix(Scheme, notation) THEN From(notation, 5) ELSE notation)

\* parseNotationPath: the record precedes the first selector, or is the last
\* part; what precedes the record is a folder path.  No folder means that the
\* notation is one for the SDK.
ParseNotationPath(notation) ==
  LET parts   == NotationParts(notation)
      at      == {i \in DOMAIN parts : parts[i] \in Selectors}
      record  == IF at = {} THEN Len(parts) ELSE Min(at) - 1
      Part(i) == IF i <= Len(parts) THEN parts[i] ELSE NoText
  IN  IF record < 2 THEN [folder |-> << >>, record |-> NoText]
      ELSE [folder |-> SubSeq(parts, 1, record - 1),
            record |-> parts[record],
            selector |-> Part(record + 1),
            parameter |-> Part(record + 2)]

\* GetNotation, selector field: by the type of a standard field, then by key.
FieldOrKey(record, parameter) ==
  LET value == FieldByType(record, parameter)
  IN  IF value # NoText THEN Raw(value) ELSE ValueUnder(record, parameter)

\* The selectors that need one.
Parameterised == {<<"field">>, <<"custom_field">>, <<"file">>}

\* GetNotation, the part after GetFolders: the first record in the folder with
\* the title or UID, strict or not, and what the selector takes from it.
NotationInFolder(vault, uid, np) ==
  LET found  == FirstOf(vault.records,
                  {i \in InFolder(vault, uid) :
                     np.record \in {vault.records[i].title, vault.records[i].uid}})
      record == found[1]
  IN  IF found = << >> \/ (np.parameter = NoText /\ np.selector \in Parameterised) THEN Failed
      ELSE CASE np.selector = NoText -> Answer(SecretFields(record))
             [] np.selector = <<"type">> -> Raw(record.type)
             [] np.selector = <<"title">> -> Raw(record.title)
             [] np.selector = <<"notes">> -> Raw(FieldByType(record, <<"note">>))
             [] np.selector = <<"field">> -> FieldOrKey(record, np.parameter)
             [] np.selector = <<"custom_field">> -> ValueUnder(record, np.parameter)
             [] np.selector = <<"file">> -> FileContent(record, np.parameter)
             [] OTHER -> Failed

\* What is before the index of a parameter such as phone[1].
Unindexed(text) ==
  LET open == Positions(text, <<"[">>)
  IN  IF open = {} THEN text ELSE Before(text, Min(open))

\* The value of the first field of a section with a type or label.
InSection(section, name) ==
  LET at    == {i \in DOMAIN section : name \in {section[i].type, section[i].label}}
      value == section[Min(at)].value
  IN  IF at = {} \/ value = NoText THEN Failed ELSE Raw(value)

\* The SDK: record/selector/parameter, for the one record with that UID or, if
\* there is none, that title; a standard or a custom field has the parameter as
\* its type or label.
SDKNotation(vault, notation) ==
  LET parts  == NotationParts(notation)
      byUID  == ByUID(vault, parts[1])
      at     == IF byUID # {} THEN byUID ELSE Titled(vault, parts[1])
      record == vault.records[Min(at)]
  IN  IF \/ Len(parts) < 2 \/ Cardinality(at) # 1
         \/ Len(parts) < 3 /\ parts[2] \in Parameterised
      THEN Failed
      ELSE CASE parts[2] = <<"type">> -> Raw(record.type)
             [] parts[2] = <<"title">> -> Raw(record.title)
             [] parts[2] = <<"notes">> -> Raw(FieldByType(record, <<"note">>))
             [] parts[2] = <<"field">> -> InSection(record.fields, Unindexed(parts[3]))
             [] parts[2] = <<"custom_field">> -> InSection(record.custom, Unindexed(parts[3]))
             [] parts[2] = <<"file">> -> FileContent(record, parts[3])
             [] OTHER -> Failed
=============================================================================
