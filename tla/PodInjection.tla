---------------------------- MODULE PodInjection ----------------------------
(***************************************************************************)
(* The way of a pod through the injector: its annotations are parsed       *)
(* (pkg/config), the webhook adds volume, mounts, containers and           *)
(* environment variables (pkg/webhook/handler.go, envvar.go), the          *)
(* containers it added parse their arguments and their KEEPER_CONFIG       *)
(* (cmd/sidecar/main.go), and the agent writes files (pkg/sidecar).        *)
(*                                                                         *)
(* Two pods of one workload go this way at the same time; each of them has *)
(* its own outcome of Keeper's failures and its own order of Go's maps.    *)
(* Fetching for files is SidecarAgent's subject: here the first fetch of   *)
(* the agent is one step, and Keeper answers it.                           *)
(***************************************************************************)
EXTENDS AnnotationText

CONSTANTS
  Requests,   \* admission requests, one for each pod
  Workloads,  \* the annotations of workloads
  Apps,       \* names of the containers in the pod template
  FieldsOf    \* FieldsOf[r]: the fields of the record with title r

YamlEntries ==
  [record : Texts, notation : Texts, path : Texts, fields : Seq(Texts),
   format : Formats, template : BOOLEAN, file : Texts, env : BOOLEAN, prefix : Texts]

\* An entry under "secrets" of the annotation keeper.security/config.
YamlEntry(record) ==
  [record |-> record, notation |-> NoText, path |-> NoText, fields |-> << >>,
   format |-> "", template |-> FALSE, file |-> NoText, env |-> FALSE,
   prefix |-> NoText]

\* The annotations of a workload: "listed" are the titles in secret and
\* secrets, "named" and "filed" the pairs <<name, value>> of secret-<name> and
\* file-<name>, "yaml" the entries of config.  "ksmConfig" says that it names a
\* Secret with the configuration of the Keeper client, "ksmOk" that this
\* configuration, from wherever auth-method takes it, has a clientId.
Annotations ==
  [inject |-> TRUE, excluded |-> FALSE, ksmConfig |-> TRUE, ksmOk |-> TRUE, auth |-> "secret",
   listed |-> << >>, named |-> {}, filed |-> {}, yaml |-> << >>, yamlOk |-> TRUE,
   failOnError |-> TRUE, initOnly |-> FALSE, signal |-> FALSE,
   interval |-> "5m", envVars |-> FALSE, prefix |-> NoText, k8sSecret |-> FALSE]

\* What annotations can say; there are finitely many of them.
ASSUME WorkloadAssumption ==
  /\ Workloads \subseteq
       [inject : BOOLEAN, excluded : BOOLEAN, ksmConfig : BOOLEAN, ksmOk : BOOLEAN,
        auth : STRING, listed : Seq(Texts), named : SUBSET (Texts \X Texts),
        filed : SUBSET (Texts \X Texts), yaml : Seq(YamlEntries), yamlOk : BOOLEAN,
        failOnError : BOOLEAN, initOnly : BOOLEAN, signal : BOOLEAN,
        interval : STRING, envVars : BOOLEAN, prefix : Texts, k8sSecret : BOOLEAN]
  /\ \A a \in Workloads : IsFiniteSet(a.named) /\ IsFiniteSet(a.filed)

ASSUME AppsAssumption == Apps # {}

ASSUME FieldsAssumption ==
  \A r \in DOMAIN FieldsOf : FieldsOf[r] \subseteq Texts /\ IsFiniteSet(FieldsOf[r])

Sidecar == "keeper-secrets-sidecar"

VARIABLES
  app,         \* app[q]: the annotations of the pod of request q
  pc,          \* how far it is
  secrets,     \* InjectionConfig.Secrets
  todo,        \* the entries that environment variables are still made of
  skipped,     \* entries without environment variables, because of an error
  containers,  \* the containers of the pod
  mounts,      \* those that have the volume keeper-secrets
  env,         \* env[q][c]: the variables injected into container c
  files        \* files[q]: the entry whose value is written to a path

pod  == <<containers, mounts, env>>
vars == <<app, pc, secrets, todo, skipped, pod, files>>

Admitted == {"allowed", "started", "running", "stuck", "exits"}
Points   == {"sent", "mutate", "client", "env", "k8s", "plain", "denied"} \cup Admitted
----------------------------------------------------------------------------
(* Parsing. *)

\* A title in the annotations secret, as it stands there, and secrets, between
\* the commas and trimmed.
Listed(a, title) ==
  [SecretRef(TrimSpace(title)) EXCEPT !.path = JsonPath(title), !.env = a.envVars,
                           !.prefix = a.prefix]

Named(a) == {SecretAnnotation(n[1], n[2]) : n \in a.named}
Filed(a) == {FileAnnotation(n[1], n[2]) : n \in a.filed}

\* parseFullConfig
FullConfig(y) ==
  LET name   == IF y.notation # NoText THEN RecordOf(y.notation) ELSE y.record
      format == IF Len(y.fields) = 1 \/ y.file # NoText THEN "raw"
                ELSE IF y.format = "" THEN "json" ELSE y.format
  IN  [name |-> name,
       path |-> IF y.path # NoText THEN y.path
                ELSE IF name # NoText THEN JsonPath(name) ELSE NoText,
       fields |-> y.fields,
       format |-> format,
       template |-> y.template,
       notation |-> y.notation,
       fileName |-> y.file,
       isFile |-> y.file # NoText \/ Holds(y.notation, <<"/", "file", "/">>),
       env |-> y.env,
       prefix |-> y.prefix]

\* The entries that come in the order of a map.
Unordered(a) == Named(a) \cup Filed(a)

ListedRefs(a) == [i \in 1 .. Len(a.listed) |-> Listed(a, a.listed[i])]
YamlRefs(a)   == [i \in 1 .. Len(a.yaml) |-> FullConfig(a.yaml[i])]

\* Mutant of Parsed: the full configuration may be read from its end.
ParsedFromEitherEnd(a) ==
  {ListedRefs(a) \o n \o f \o y :
     n \in SetToSeqs(Named(a)), f \in SetToSeqs(Filed(a)),
     y \in {YamlRefs(a), Reverse(YamlRefs(a))}}

\* InjectionConfig.Secrets: secret-<name> and file-<name> come in the order of
\* a Go map, which is any.
Parsed(a) ==
  {ListedRefs(a) \o n \o f \o YamlRefs(a) :
     n \in SetToSeqs(Named(a)), f \in SetToSeqs(Filed(a))}

\* ParseAnnotations returns an error.
Invalid(a) ==
  \/ ~ a.yamlOk
  \/ a.listed = << >> /\ a.named = {} /\ a.filed = {} /\ a.yaml = << >>
  \/ ~ a.ksmConfig /\ a.auth = "secret"
----------------------------------------------------------------------------
(* Environment variables. *)

\* toEnvKey: upper case, and whatever is no letter or digit is an underscore.
ToEnvKey(name) ==
  [i \in 1 .. Len(name) |-> IF name[i] \in Words THEN Upper[name[i]] ELSE Underscore]

\* filterEnvVarSecrets
EnvEntries(q) ==
  {i \in DOMAIN secrets[q] :
     LET s == secrets[q][i] IN ~ s.isFile /\ (s.env \/ app[q].envVars)}

\* The elements of a list that are in a set, in the order of the list.
Among(list, set) ==
  LET at == {i \in DOMAIN list : list[i] \in set}
  IN  [k \in 1 .. Cardinality(at) |-> list[Nth(at, k)]]

RecordMissing(s) == s.notation = NoText /\ s.name \notin DOMAIN FieldsOf

\* The fields of an entry's record, and those of them that it names.
Fields(s)       == IF RecordMissing(s) THEN {} ELSE FieldsOf[s.name]
FieldMissing(s) ==
  s.notation = NoText /\ \E i \in DOMAIN s.fields : s.fields[i] \notin Fields(s)

Prefix(a, s) == IF s.prefix # NoText THEN s.prefix ELSE a.prefix

Var(a, s, key, field) ==
  [key |-> ToEnvKey(Prefix(a, s) \o key), record |-> s.name, field |-> field]

\* buildEnvVarsFromSecret: the variables of an entry, in an order.  All fields
\* of a record come in the order of a Go map.
EnvVars(a, s) ==
  IF s.notation # NoText THEN {<<Var(a, s, s.name, s.notation)>>}
  ELSE IF s.fields # << >>
  THEN LET there == Among(s.fields, Fields(s))
       IN  {[k \in DOMAIN there |-> Var(a, s, there[k], there[k])]}
  ELSE SetToSeqs({Var(a, s, f, f) : f \in Fields(s)})

\* buildEnvVarsFromSecret returns no error: a field may be missing without
\* fail-on-error, a record never.
Buildable(a, s) == ~ RecordMissing(s) /\ (a.failOnError => ~ FieldMissing(s))
----------------------------------------------------------------------------
(* The containers that are added. *)

\* Mutant of SidecarArgs: the flag is passed without a signal, too.
SidecarArgsAlways(a) == {"mode", "refresh-interval", "signal"}

\* buildSidecarContainer: the flags it passes.
SidecarArgs(a) == {"mode", "refresh-interval"} \cup IF a.signal THEN {"signal"} ELSE {}

\* main of cmd/sidecar: the flags it defines; refresh-interval is a duration.
Flags == {"mode", "refresh-interval", "log-level", "log-format"}

Intervals == {"5m", "1h"}

AuthMethods ==
  {"secret", "", "aws-secrets-manager", "gcp-secret-manager", "azure-key-vault"}

\* What main needs before it makes an agent: a way to the configuration of the
\* Keeper client, and a valid one (validateKSMConfig).
Configured(a) == a.auth \in AuthMethods /\ a.ksmOk

\* Mutant of SecretConfig: a file is not marked as one.
SecretConfigNoFile(s) == [s EXCEPT !.template = FALSE, !.isFile = FALSE]

\* buildSidecarConfig passes the entry on as JSON; main of cmd/sidecar takes
\* from it what its own type of an entry has, which leaves out the template.
SecretConfig(s) == [s EXCEPT !.template = FALSE]

\* fetchSecret and formatSecret: what the agent writes for an entry.
Fetched(c) ==
  CASE c.notation # NoText -> <<"notation", c.notation>>
    [] c.notation = NoText /\ c.isFile -> <<"file", c.name, c.fileName>>
    [] c.notation = NoText /\ ~ c.isFile /\ Len(c.fields) = 1 ->
         <<"field", c.name, c.fields[1]>>
    [] OTHER -> <<"record", c.name, c.fields,
                  IF c.template THEN "template" ELSE c.format>>

\* The volume is the only place that can be written: the root file system of
\* the added containers is read-only.
InVolume(path) == IsStrictPrefix(DefaultSecretsPath \o <<"/">>, path)

\* The agent gets an error for an entry: outside the volume, of a record that
\* Keeper does not have, or whose only field is missing (GetSecretField).
\* Notations and attachments exist.
Fails(s) ==
  \/ ~ InVolume(s.path)
  \/ RecordMissing(s)
  \/ ~ s.isFile /\ Len(s.fields) = 1 /\ FieldMissing(s)

Failing(q) == {i \in DOMAIN secrets[q] : Fails(secrets[q][i])}

\* The files after one fetch of every entry, in order: the last writer stays.
Written(q) ==
  LET done    == DOMAIN secrets[q] \ Failing(q)
      last(p) == Max({i \in done : secrets[q][i].path = p})
  IN  [p \in {secrets[q][i].path : i \in done} |->
         Fetched(SecretConfig(secrets[q][last(p)]))]
----------------------------------------------------------------------------
Init ==
  /\ app \in [Requests -> Workloads]
  /\ pc = [q \in Requests |-> "sent"]
  /\ secrets = [q \in Requests |-> << >>]
  /\ todo = [q \in Requests |-> {}]
  /\ skipped = [q \in Requests |-> {}]
  /\ containers = [q \in Requests |-> Apps]
  /\ mounts = [q \in Requests |-> {}]
  /\ env = [q \in Requests |-> [c \in Apps |-> << >>]]
  /\ files = [q \in Requests |-> << >>]

At(q, point)   == pc[q] = point
Goto(q, point) == pc' = [pc EXCEPT ![q] = point]

\* Handle: the namespace is excluded, or injection is not asked for.
Ignore(q) ==
  /\ At(q, "sent")
  /\ app[q].excluded \/ ~ app[q].inject
  /\ Goto(q, "plain")
  /\ UNCHANGED <<app, secrets, todo, skipped, pod, files>>

Asked(q) == At(q, "sent") /\ ~ app[q].excluded /\ app[q].inject

Refuse(q) ==
  /\ Asked(q)
  /\ Invalid(app[q])
  /\ Goto(q, "denied")
  /\ UNCHANGED <<app, secrets, todo, skipped, pod, files>>

Parse(q) ==
  /\ Asked(q)
  /\ ~ Invalid(app[q])
  /\ \E s \in Parsed(app[q]) : secrets' = [secrets EXCEPT ![q] = s]
  /\ Goto(q, "mutate")
  /\ UNCHANGED <<app, todo, skipped, pod, files>>

\* Mutant of Mutate: the sidecar is there when the mounts are added.
MutateMountsLate(q) ==
  /\ At(q, "mutate")
  /\ containers' = [containers EXCEPT ![q] =
                      @ \cup IF app[q].initOnly THEN {} ELSE {Sidecar}]
  /\ mounts' = [mounts EXCEPT ![q] = containers'[q]]
  /\ env' = [env EXCEPT ![q] = [c \in containers'[q] |-> << >>]]
  /\ todo' = [todo EXCEPT ![q] = EnvEntries(q)]
  /\ Goto(q, IF EnvEntries(q) = {} THEN "k8s" ELSE "client")
  /\ UNCHANGED <<app, secrets, skipped, files>>

\* mutatePod up to the environment variables: volume, mounts, init container
\* and, unless the pod is init-only, sidecar.
Mutate(q) ==
  /\ At(q, "mutate")
  /\ mounts' = [mounts EXCEPT ![q] = containers[q]]
  /\ containers' = [containers EXCEPT ![q] =
                      @ \cup IF app[q].initOnly THEN {} ELSE {Sidecar}]
  /\ env' = [env EXCEPT ![q] = [c \in containers'[q] |-> << >>]]
  /\ todo' = [todo EXCEPT ![q] = EnvEntries(q)]
  /\ Goto(q, IF EnvEntries(q) = {} THEN "k8s" ELSE "client")
  /\ UNCHANGED <<app, secrets, skipped, files>>

\* createKSMClient reads the Secret that ksm-config names, whatever auth-method
\* says, and ksm.NewClient knows no cloud provider.
Creatable(a) == a.ksmConfig /\ a.auth \in {"secret", ""}

ClientCreated(q) ==
  /\ At(q, "client")
  /\ Creatable(app[q])
  /\ Goto(q, "env")
  /\ UNCHANGED <<app, secrets, todo, skipped, pod, files>>

\* Without fail-on-error, there are no environment variables.
ClientFails(q) ==
  /\ At(q, "client")
  /\ Goto(q, IF app[q].failOnError THEN "denied" ELSE "k8s")
  /\ skipped' = [skipped EXCEPT ![q] = todo[q]]
  /\ todo' = [todo EXCEPT ![q] = {}]
  /\ UNCHANGED <<app, secrets, pod, files>>

Entry(q) == Min(todo[q])

NextEntry(q) ==
  /\ todo' = [todo EXCEPT ![q] = @ \ {Entry(q)}]
  /\ Goto(q, IF todo'[q] # {} THEN "env" ELSE "k8s")

\* Mutant of InjectEnv: the first container only.
InjectFirst(q) ==
  /\ At(q, "env")
  /\ LET s == secrets[q][Entry(q)] IN
     /\ Buildable(app[q], s)
     /\ \E v \in EnvVars(app[q], s) :
          env' = [env EXCEPT ![q][CHOOSE c \in Apps : TRUE] = @ \o v]
  /\ NextEntry(q)
  /\ UNCHANGED <<app, secrets, skipped, containers, mounts, files>>

\* The variables of one entry are added to all containers, also to the sidecar.
InjectEnv(q) ==
  /\ At(q, "env")
  /\ LET s == secrets[q][Entry(q)] IN
     /\ Buildable(app[q], s)
     /\ \E v \in EnvVars(app[q], s) :
          env' = [env EXCEPT ![q] = [c \in containers[q] |-> @[c] \o v]]
  /\ NextEntry(q)
  /\ UNCHANGED <<app, secrets, skipped, containers, mounts, files>>

\* Keeper fails, or the record or a field is missing.
EnvDenies(q) ==
  /\ At(q, "env")
  /\ app[q].failOnError
  /\ Goto(q, "denied")
  /\ UNCHANGED <<app, secrets, todo, skipped, pod, files>>

EnvSkips(q) ==
  /\ At(q, "env")
  /\ ~ app[q].failOnError
  /\ skipped' = [skipped EXCEPT ![q] = @ \cup {Entry(q)}]
  /\ NextEntry(q)
  /\ UNCHANGED <<app, secrets, pod, files>>

\* injectK8sSecrets is done, which without fail-on-error it also is when there
\* is no client: the patch is sent, and the pod is created.
Admit(q) ==
  /\ At(q, "k8s")
  /\ app[q].k8sSecret /\ app[q].failOnError => Creatable(app[q])
  /\ Goto(q, "allowed")
  /\ UNCHANGED <<app, secrets, todo, skipped, pod, files>>

\* injectK8sSecrets returns an error (see K8sSecretInjection).
K8sDenies(q) ==
  /\ At(q, "k8s")
  /\ app[q].k8sSecret
  /\ Goto(q, "denied")
  /\ UNCHANGED <<app, secrets, todo, skipped, pod, files>>
----------------------------------------------------------------------------
(* The pod runs. *)

\* KEEPER_AUTH_CONFIG refers to the Secret that ksm-config names and is not
\* optional: without a name, the kubelet never creates the container.
NeverCreated(q) ==
  /\ At(q, "allowed")
  /\ ~ app[q].ksmConfig
  /\ Goto(q, "stuck")
  /\ UNCHANGED <<app, secrets, todo, skipped, pod, files>>

\* The first fetch of the agent.
InitRuns(q) ==
  /\ At(q, "allowed")
  /\ app[q].ksmConfig /\ Configured(app[q])
  /\ files' = [files EXCEPT ![q] = Written(q)]
  /\ Goto(q, IF app[q].failOnError /\ Failing(q) # {} THEN "stuck" ELSE "started")
  /\ UNCHANGED <<app, secrets, todo, skipped, pod>>

\* main of cmd/sidecar stops; the container is restarted again and again.
InitRejects(q) ==
  /\ At(q, "allowed")
  /\ app[q].ksmConfig /\ ~ Configured(app[q])
  /\ Goto(q, "stuck")
  /\ UNCHANGED <<app, secrets, todo, skipped, pod, files>>

\* The same main, with the arguments of the sidecar.
SidecarStarts(q) ==
  /\ At(q, "started")
  /\ Sidecar \in containers[q]
  /\ Goto(q, IF SidecarArgs(app[q]) \subseteq Flags /\ app[q].interval \in Intervals
             THEN "running" ELSE "exits")
  /\ UNCHANGED <<app, secrets, todo, skipped, pod, files>>

Step(q) ==
  \/ Ignore(q) \/ Refuse(q) \/ Parse(q) \/ Mutate(q) \/ ClientCreated(q)
  \/ ClientFails(q) \/ InjectEnv(q) \/ EnvDenies(q) \/ EnvSkips(q) \/ Admit(q)
  \/ K8sDenies(q) \/ NeverCreated(q) \/ InitRuns(q) \/ InitRejects(q) \/ SidecarStarts(q)

Next == \E q \in Requests : Step(q)

Spec == Init /\ [][Next]_vars
----------------------------------------------------------------------------
(* Properties. *)

\* The type invariant of requests and pods.
TypeOK ==
  /\ app \in [Requests -> Workloads]
  /\ pc \in [Requests -> Points]
  /\ secrets \in [Requests -> Seq(Refs)]
  /\ todo \in [Requests -> SUBSET Nat]
  /\ skipped \in [Requests -> SUBSET Nat]
  /\ containers \in [Requests -> {Apps, Apps \cup {Sidecar}}]
  /\ mounts \in [Requests -> {{}, Apps}]
  /\ \A q \in Requests :
       /\ DOMAIN env[q] = containers[q]
       /\ \A p \in DOMAIN files[q] : InVolume(p)

\* With fail-on-error, an admitted pod has all variables of all entries, in
\* every container: no error on the way leaves a part of them out
\* (injectEnvironmentVariables, buildEnvVarsFromSecret).
EnvComplete ==
  \A q \in Requests :
    pc[q] \in Admitted /\ app[q].failOnError =>
      \A s \in ToSet(secrets[q]) :
        /\ s.env \/ app[q].envVars
        /\ ~ s.isFile
        => \E v \in EnvVars(app[q], s) : \A c \in containers[q] : 
             /\ ToSet(v) \subseteq ToSet(env[q][c])
             /\ s.notation = NoText /\ s.fields # << >> => Len(v) = Len(s.fields)

\* What a process sees of its variables: the last one of a name.
Effective(q, c) ==
  {v \in ToSet(env[q][c]) :
     \E i \in DOMAIN env[q][c] :
       /\ env[q][c][i] = v
       /\ \A j \in DOMAIN env[q][c] : j > i => env[q][c][j].key # v.key}

ForVariables(a, s) == ~ s.isFile /\ (s.env \/ a.envVars)

\* The names that an entry's variables are made of.
Sources(s) ==
  IF s.notation # NoText THEN {s.name}
  ELSE IF s.fields # << >> THEN ToSet(s.fields) ELSE Fields(s)

Keys(a, s) == {ToEnvKey(Prefix(a, s) \o f) : f \in Sources(s)}

\* Two fields of a record, taken in the order of a map, make the variable key.
FieldsMeet(a, s, key) ==
  /\ s.notation = NoText /\ s.fields = << >>
  /\ \E f, g \in Fields(s) :
       f # g /\ \A h \in {f, g} : ToEnvKey(Prefix(a, s) \o h) = key

\* The order of a map decides what the variable key is: two of the entries in
\* such an order make it, or two fields of a record that an entry takes whole.
KeyDepends(a, entries, key) ==
  \/ \E r, s \in Unordered(a) :
       r # s /\ \A t \in {r, s} : ForVariables(a, t) /\ key \in Keys(a, t)
  \/ \E s \in entries : ForVariables(a, s) /\ FieldsMeet(a, s, key)

\* The order of a map decides which of two entries is written to a path.
PathDepends(a, path) ==
  \E r, s \in Unordered(a) : r # s /\ \A t \in {r, s} : t.path = path /\ ~ Fails(t)

\* Pods of one workload are alike, although Go's maps come in another order for
\* each of them: the same variables are added and the same files are there, and
\* the variables that count and the contents are the same, except where two
\* claim one name or path and a map decides between them (ParseAnnotations,
\* convertFieldsToEnvVars).
PodsAlike ==
  \A p, q \in Requests :
    /\ app[p] = app[q]
    /\ pc[p] \in Admitted /\ pc[q] = pc[p]
    /\ skipped[p] = {} /\ skipped[q] = {}
    => /\ \A c \in containers[p] :
            /\ ToSet(env[p][c]) = ToSet(env[q][c])
            /\ \A v \in Effective(p, c) :
                 ~ KeyDepends(app[p], ToSet(secrets[p]), v.key) => v \in Effective(q, c)
       /\ DOMAIN files[p] = DOMAIN files[q]
       /\ \A path \in DOMAIN files[p] :
            ~ PathDepends(app[p], path) => files[p][path] = files[q][path]

\* An entry is to be a variable instead of a file (docs/configuration.md:208),
\* which an attachment never is.
InsteadOfFile(a, y) ==
  (y.env \/ a.envVars) /\ y.file = NoText /\ ~ Holds(y.notation, <<"/", "file", "/">>)

\* Where it is to be written: at its path, or under its record's name.
MeantPath(y) ==
  IF y.path # NoText THEN y.path
  ELSE JsonPath(IF y.notation # NoText THEN RecordOf(y.notation) ELSE y.record)

\* What an entry of the full configuration asks for, in the words of
\* docs/configuration.md: a notation, an attachment, one field as it is, or
\* fields in a format or a template.
Meaning(y) ==
  IF y.notation # NoText THEN <<"notation", y.notation>>
  ELSE IF y.file # NoText THEN <<"file", y.record, y.file>>
  ELSE IF Len(y.fields) = 1 THEN <<"field", y.record, y.fields[1]>>
  ELSE <<"record", y.record, y.fields,
         IF y.template THEN "template" ELSE IF y.format = "" THEN "json" ELSE y.format>>

\* What arrives on the volume is what the full configuration asked for, at its
\* path or the default one, after parseFullConfig, buildSidecarConfig, the
\* conversion in main and the switch in fetchSecret.  Excepted are entries that
\* are to be variables instead (they are written, too), those that fail (without
\* fail-on-error they are left out), those with a later entry at their path, and
\* those with a template: main has no field for it and loses it, against
\* docs/configuration.md:172.
WrittenAsMeant ==
  \A q \in Requests :
    pc[q] \in {"started", "running"} =>
      \A i \in DOMAIN app[q].yaml :
        LET y == app[q].yaml[i] IN
        /\ ~ Fails(FullConfig(y))
        /\ ~ InsteadOfFile(app[q], y)
        /\ ~ y.template
        /\ \A j \in DOMAIN app[q].yaml :
             j > i => FullConfig(app[q].yaml[j]).path # MeantPath(y)
        => files[q][MeantPath(y)] = Meaning(y)

\* A workload that keeps to paths in the volume, to fields that exist, to a known
\* way of authentication with a Secret for it, a duration as interval and no
\* signal, runs when admitted (buildInitContainer and buildSidecarContainer
\* against main and its flags).
AdmittedRuns ==
  \A q \in Requests :
    /\ pc[q] \in {"stuck", "exits"}
    /\ app[q].ksmConfig /\ Configured(app[q])
    /\ app[q].interval \in Intervals
    => app[q].signal \/ Failing(q) # {}
============================================================================
