--------------------------- MODULE SecretDelivery ---------------------------
(***************************************************************************)
(* The way of one secret from an annotation to the application: the        *)
(* annotation is read, and the record is looked up in Keeper's vault over  *)
(* one of three channels: a file (sidecar/agent.go), environment variables *)
(* (webhook/envvar.go), or a Kubernetes Secret (webhook/k8s_secret.go).  A *)
(* lookup by a folder path asks Keeper twice, first for the folders and    *)
(* then for the records, and the vault may change in between.              *)
(*                                                                         *)
(* fail-on-error is taken to be set; without it a failure skips the entry. *)
(***************************************************************************)
EXTENDS AnnotationForms, KeeperClient, FiniteSets

CONSTANTS
  FolderLists,  \* the lists of folders that a vault may have
  RecordLists,  \* and the lists of records
  LongTitles,   \* titles with 22 characters that are no UIDs, without a blank
  MaxChanges,   \* bound: changes of the vault
  Unread        \* not read yet

\* Lists have a length and are made of what Keeper has.
ASSUME VaultAssumption ==
  /\ FolderLists \subseteq Seq(FolderType)
  /\ RecordLists \subseteq Seq(RecordType)

Channels == {"file", "env", "k8s"}

VARIABLES
  form,     \* what the user means
  channel,  \* how it shall reach the application
  strict,   \* the annotation strict-lookup
  vault,    \* what Keeper has: folders and records
  changes,  \* changes of the vault so far
  ref,      \* the entry, once the annotation is read
  folder,   \* the folder that the path was resolved to, none or one
  span,     \* the vaults since the first call
  answer,   \* what was delivered
  pc
vars == <<form, channel, strict, vault, changes, ref, folder, span, answer, pc>>

Vaults == [folders : FolderLists, records : RecordLists]

Init ==
  /\ form \in Forms
  /\ channel \in (IF form.kind = "folder" THEN {"file"} ELSE Channels)
  /\ strict \in BOOLEAN
  /\ vault \in Vaults
  /\ changes = 0
  /\ ref = Unread
  /\ folder = << >>
  /\ span = {}
  /\ answer = Failed
  /\ pc = "read"
----------------------------------------------------------------------------
(* The annotation. *)

Read(entry) ==
  /\ pc = "read"
  /\ ref' = entry
  /\ pc' = "look up"
  /\ UNCHANGED <<form, channel, strict, vault, changes, folder, span, answer>>

\* secret-<name>
ReadSecret ==
  /\ form.kind \notin {"file", "folder"}
  /\ Read(SecretAnnotation(form.key, Text(form)))

\* file-<name>
ReadFile ==
  /\ form.kind = "file"
  /\ Read(FileAnnotation(form.key, Text(form)))

\* folder and folder-path
ReadFolder ==
  /\ form.kind = "folder"
  /\ Read(FolderAnnotation(Text(form), form.path))

\* filterEnvVarSecrets: attachments are no environment variables.
EnvSkipsFile ==
  /\ pc = "look up"
  /\ channel = "env"
  /\ ref.isFile
  /\ pc' = "skipped"
  /\ UNCHANGED <<form, channel, strict, vault, changes, ref, folder, span, answer>>
----------------------------------------------------------------------------
(* The channels. *)

Keyed(key, result) ==
  [result EXCEPT !.data = {<<key, pair[2]>> : pair \in result.data}]

\* GetNotation, once the folder is known.
NotationAnswer ==
  LET np == ParseNotationPath(ref.notation)
  IN  IF np.folder = << >> THEN SDKNotation(vault, ref.notation)
      ELSE NotationInFolder(vault, folder[1].uid, np)

\* buildEnvVarsFromSecret
EnvAnswer ==
  LET found == GetSecret(vault, strict, ref.name)
      data  == SecretFields(found[1])
      asked == WithKeys(data, ToSet(ref.fields))
  IN  IF ref.notation # NoText THEN Keyed(ref.name, NotationAnswer)
      ELSE IF found = << >> \/ (ref.fields # << >> /\ asked = {}) THEN Failed
      ELSE Answer(IF ref.fields = << >> THEN data ELSE asked)

\* looksLikeUID of the webhook: 22 characters without a blank.
WebhookTakesForUID(text) == LooksLikeUID(text) \/ text \in LongTitles

\* Mutant of BatchedRecord: UIDs are not looked for.
BatchedTitle == LastOf(vault.records, Titled(vault, ref.name))

\* batchFetchSecrets: of records with one title the last one stays in the map.
BatchedRecord ==
  LastOf(vault.records, IF WebhookTakesForUID(ref.name) THEN ByUID(vault, ref.name)
                        ELSE Titled(vault, ref.name))

\* batchFetchSecrets and buildK8sSecret: a missing field is left out.
K8sAnswer ==
  LET data == SecretFields(BatchedRecord[1])
  IN  IF ref.notation # NoText THEN Keyed(<<"value">>, NotationAnswer)
      ELSE IF ref.isFile
           THEN Keyed(ref.fileName, GetFileContent(vault, ref.name, ref.fileName))
      ELSE IF BatchedRecord = << >> THEN Failed
      ELSE Answer(IF ref.fields = << >> THEN data ELSE WithKeys(data, ToSet(ref.fields)))

\* Agent.fetchSecret
FileAnswer ==
  LET found == GetSecret(vault, strict, ref.name)
  IN  IF ref.notation # NoText THEN NotationAnswer
      ELSE IF ref.isFile THEN GetFileContent(vault, ref.name, ref.fileName)
      ELSE IF Len(ref.fields) = 1
           THEN GetSecretField(vault, strict, ref.name, ref.fields[1])
      ELSE IF found = << >> THEN Failed ELSE Answer(SecretFields(found[1]))

\* sanitizeFilename: blanks become "-", other characters that are unsafe are
\* dropped; words that come to stand side by side are not taken for one.
SanitizeFilename(title) ==
  LET safe == Words \cup {"-", Underscore, ".", Space}
      kept == SelectSeq(title, LAMBDA token : token \in safe)
  IN  [i \in DOMAIN kept |-> IF kept[i] = Space THEN "-" ELSE kept[i]]

\* fetchSecretsFromFolder: one file for each record, told by its UID; the last
\* record of a file's name stays.
FolderAnswer ==
  LET at == InFolder(vault, folder[1].uid)
      FileName(i) == SanitizeFilename(vault.records[i].title)
      latest == {i \in at : \A j \in at : j > i => FileName(j) # FileName(i)}
  IN  Answer({<<FileName(i), vault.records[i].uid>> : i \in latest})

Delivered ==
  CASE form.kind = "folder" -> FolderAnswer
    [] form.kind # "folder" /\ channel = "file" -> FileAnswer
    [] form.kind # "folder" /\ channel = "env" -> EnvAnswer
    [] form.kind # "folder" /\ channel = "k8s" -> K8sAnswer
----------------------------------------------------------------------------
(* The calls to Keeper. *)

\* The folder path of the entry, if there is one.
FolderNames ==
  IF form.kind = "folder" THEN Components(ref.name)
  ELSE IF ref.notation # NoText THEN ParseNotationPath(ref.notation).folder
  ELSE << >>

ToLookUp == pc = "look up" /\ ~ (channel = "env" /\ ref.isFile)

\* GetFolders, and the path is resolved.
AskFolders ==
  /\ ToLookUp
  /\ FolderNames # << >>
  /\ LET found == ResolvePath(vault.folders, FolderNames) IN
       /\ folder' = found
       /\ pc' = IF found = << >> THEN "answered" ELSE "resolved"
  /\ span' = {vault}
  /\ UNCHANGED <<form, channel, strict, vault, changes, ref, answer>>

\* GetSecrets, and what is meant is taken from the records.
AskRecords ==
  /\ pc = "resolved" \/ (ToLookUp /\ FolderNames = << >>)
  /\ answer' = Delivered
  /\ span' = span \cup {vault}
  /\ pc' = "answered"
  /\ UNCHANGED <<form, channel, strict, vault, changes, ref, folder>>

\* Keeper cannot be reached, after all retries.
CallFails ==
  /\ ToLookUp \/ pc = "resolved"
  /\ pc' = "failed"
  /\ UNCHANGED <<form, channel, strict, vault, changes, ref, folder, span, answer>>

\* Somebody edits the vault while it is read.
Change(v) ==
  /\ pc = "resolved"
  /\ changes < MaxChanges
  /\ v # vault
  /\ v.folders = vault.folders \/ v.records = vault.records
  /\ vault' = v
  /\ changes' = changes + 1
  /\ span' = span \cup {v}
  /\ UNCHANGED <<form, channel, strict, ref, folder, answer, pc>>

Next ==
  \/ ReadSecret \/ ReadFile \/ ReadFolder \/ EnvSkipsFile
  \/ AskFolders \/ AskRecords \/ CallFails
  \/ \E v \in Vaults : Change(v)

Spec == Init /\ [][Next]_vars
----------------------------------------------------------------------------
(* What is meant by a form f, said without the client's lookups. *)

\* The folders at a place: ends of chains that bear its names, from a folder
\* without a parent in the list.
FoldersAt(folders, place) ==
  LET all == ToSet(folders)
      Chain(c) ==
        /\ \A g \in all : g.uid # c[1].parent
        /\ \A i \in DOMAIN place : c[i].name = place[i]
        /\ \A i \in 2 .. Len(place) : c[i].parent = c[i - 1].uid
  IN  {c[Len(place)].uid : c \in {d \in [DOMAIN place -> all] : Chain(d)}}

Title(f) == IF f.kind = "path" THEN f.key ELSE f.title

\* Where in the list the records are that are meant.
Meant(f, v) ==
  LET At(r)    == f.place # << >> => r.folders \cap FoldersAt(v.folders, f.place) # {}
      Named(r) == f.kind = "folder" \/ Title(f) \in {r.title, r.uid}
  IN  {i \in DOMAIN v.records : At(v.records[i]) /\ Named(v.records[i])}

IsWhole(f) == f.kind \in {"path", "record"}

AllFields(record) == ToSet(record.fields \o record.custom)

\* The values that the part of a record may mean; "notes" also means the note,
\* and in a notation an index may follow the name.
MeantValues(f, record) ==
  LET names == {f.part} \cup (IF f.kind \in Notations THEN {Unindexed(f.part)} ELSE {})
      Bears(g) == \/ names \cap {g.type, g.label} # {}
                  \/ f.part = <<"notes">> /\ g.type = <<"note">>
  IN  IF f.kind \in {"file", "fileNotation"}
      THEN {a.data : a \in {b \in ToSet(record.files) : f.part \in {b.name, b.title}}}
      ELSE {g.value : g \in {h \in AllFields(record) : h.value # NoText /\ Bears(h)}}

\* The data is what a record has: all its fields under their names, or the part.
IsMeant(f, data, record) ==
  IF IsWhole(f)
  THEN /\ {pair[1] : pair \in data} \ {<<"notes">>} =
            {Key(g) : g \in {h \in AllFields(record) : h.value # NoText}} \ {NoText, <<"notes">>}
       /\ \A pair \in data : \E g \in AllFields(record) :
            /\ pair[2] = g.value
            /\ \/ pair[1] = Key(g)
               \/ pair[1] = <<"notes">> /\ g.type = <<"note">>
  ELSE \A pair \in data : pair[2] \in MeantValues(f, record)

\* The files are those of the records in a folder, and every record whose file
\* has a name of its own has one; of records that share a name, one has it.
AreFilesOf(data, records) ==
  LET NameOf(r) == SanitizeFilename(r.title)
      IsAlone(r) == \A t \in records : NameOf(t) = NameOf(r) => t = r
  IN  /\ \A pair \in data : \E r \in records : pair = <<NameOf(r), r.uid>>
      /\ \A r \in records : IsAlone(r) => <<NameOf(r), r.uid>> \in data
      /\ \A r \in records : \E pair \in data : pair[1] = NameOf(r)

\* The data is what is meant, of a vault; of several folders at one place, one
\* is meant.
IsOf(f, data, v) ==
  IF f.kind = "folder"
  THEN \E u \in FoldersAt(v.folders, f.place) :
         AreFilesOf(data, {r \in ToSet(v.records) : u \in r.folders})
  ELSE \E i \in Meant(f, v) : IsMeant(f, data, v.records[i])

\* A name with a slash, in a folder path or in a notation, is taken for several;
\* a notation with folders or a title that are named like selectors is taken
\* apart at another place.
Misleading(f) ==
  \/ Deceptive(f)
  \/ \E i \in DOMAIN f.place : Holds(f.place[i], <<"/">>)
  \/ /\ f.kind \in Notations
     /\ \/ \E i \in DOMAIN f.place : f.place[i] \in Selectors
        \/ f.title \in Selectors
        \/ Holds(f.title, <<"/">>) \/ Holds(f.part, <<"/">>)

\* Both the folders and the records have changed between the calls.
BothChanged ==
  /\ \E v, w \in span : v.folders # w.folders
  /\ \E v, w \in span : v.records # w.records
----------------------------------------------------------------------------
(* Properties. *)

\* Every documented form that is not deceptive is read as it was meant: record,
\* field, attachment and path; other separators in a title, a folder path or a
\* field do not confuse the reader (parseSecretAnnotation,
\* parseKeeperNotation, parseFileAnnotation).
ReadsAsMeant == ref # Unread /\ ~ Deceptive(form) => Matches(ref, form)

\* What arrives, over whatever channel, is the part that was meant of a record
\* that was meant, as Keeper had them at one moment of the lookup, although the
\* folders and the records come from two calls; only if both have changed
\* between the calls it may be a mixture.  Of a folder, all records arrive whose
\* titles do not share a file name (fetchSecret, fetchSecretsFromFolder,
\* buildEnvVarsFromSecret, batchFetchSecrets).
DeliversAsMeant ==
  pc = "answered" /\ answer.ok /\ ~ Misleading(form) /\ ~ BothChanged =>
    \E v \in span : IsOf(form, answer.data, v)

IsSingle(set) == \E x \in set : set = {x}

\* At each step of the way there is one folder: a second one of the same name
\* may come first and be a dead end.
IsPlain(place, folders) ==
  \A n \in DOMAIN place : IsSingle(FoldersAt(folders, SubSeq(place, 1, n)))

\* The client, or for the fields in a Kubernetes Secret the webhook, takes the
\* title for what it is; a notation is tried as both.
TakenRight(f, c, record) ==
  \/ f.kind \in Notations
  \/ IF \/ LooksLikeUID(Title(f))
        \/ c = "k8s" /\ f.kind # "file" /\ Title(f) \in LongTitles
     THEN Title(f) = record.uid ELSE Title(f) = record.title

\* The notations that name a section of a record.
Sections == {"notation", "customNotation"}

\* Something is there: a field with a value and a name, the part under its key
\* or name; for the SDK, which takes the first field of a type or label, that one.
HasPart(f, record) ==
  LET fields == {g \in AllFields(record) : g.value # NoText}
      section == ToSet(IF f.kind = "notation" THEN record.fields ELSE record.custom)
      same == {g \in section : f.part \in {g.type, g.label}}
  IN  \/ IsWhole(f) /\ \E g \in fields : Key(g) # NoText
      \/ f.kind \in {"file", "fileNotation"} /\ MeantValues(f, record) # {}
      \/ /\ f.kind = "field" \/ (f.kind \in Sections /\ f.place # << >>)
         /\ \E g \in fields : Key(g) = f.part
      \/ /\ f.kind \in Sections /\ f.place = << >>
         /\ same # {} /\ \A g \in same : g.value # NoText
         /\ ~ Holds(f.part, <<"[">>)

\* What is meant is there and is the only thing that can be meant.
IsThere(f, c, v) ==
  /\ f.place # << >> => IsPlain(f.place, v.folders)
  /\ IF f.kind = "folder" THEN Meant(f, v) # {}
     ELSE \E i \in Meant(f, v) :
            /\ Meant(f, v) = {i}
            /\ HasPart(f, v.records[i])
            /\ TakenRight(f, c, v.records[i])

\* What is there, and is the only thing that can be meant, is found when Keeper
\* answers, whatever the channel, wherever its folder is, orphans included, and
\* with strict-lookup too (GetSecret, GetNotation, ResolvePath).
FindsWhatIsThere ==
  pc = "answered" /\ ~ Misleading(form) =>
    \A v \in span : span = {v} /\ IsThere(form, channel, v) =>
                      answer.ok /\ answer.data # {}
=============================================================================
