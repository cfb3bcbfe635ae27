-------------------------- MODULE MCPodInjection --------------------------
(* Workloads for PodInjection. *)
EXTENDS PodInjection

MCTokens == STRING

\* Words, with the upper case of those that become variables.
InUpperCase ==
  [db |-> "DB", my |-> "MY", api |-> "API", password |-> "PASSWORD",
   user |-> "USER", key |-> "KEY", login |-> "LOGIN", Login |-> "LOGIN"]

MCWords ==
  {"db", "my", "api", "tls", "password", "user", "key", "login", "Login", "acct",
   "DB", "MY", "API", "PASSWORD", "USER", "KEY", "LOGIN", "keeper", "secrets",
   "json", "file", "field", "app", "cert", "pem", "lost", "gone", "a", "b", "c",
   "d", "e", "x", "y", "z"}
MCUpper == [word \in MCWords |-> IF word \in DOMAIN InUpperCase THEN InUpperCase[word] ELSE word]
MCLower == [word \in MCWords |-> IF word = "Login" THEN "login" ELSE word]

db   == <<"db">>
api  == <<"my", " ", "api">>
tls  == <<"tls">>
acct == <<"acct">>
pass == <<"password">>
user == <<"user">>

MCFieldsOf ==
  (db :> {pass, user}) @@ (api :> {pass, <<"key">>}) @@ (tls :> {<<"cert">>})
  @@ (acct :> {<<"login">>, <<"Login">>})

In(file)  == DefaultSecretsPath \o <<"/", file>>
Out(file) == <<"/", "app", "/", file>>

Custom == {<< <<"tls">>, In("x") >>, << <<"y">>, db \o <<"[">> \o user \o <<"]", ":">> \o In("y") >>}

Attached == {<< <<"cert">>, tls \o <<":", "pem", ":">> \o In("pem") >>,
             << <<"key">>, tls \o <<":", "key", ":">> \o In("pem") >>}

Yaml ==
  <<[YamlEntry(db)  EXCEPT !.path = In("a"), !.fields = <<pass, user>>, !.format = "env"],
    [YamlEntry(tls) EXCEPT !.path = In("b"), !.file = <<"pem">>],
    [YamlEntry(api) EXCEPT !.path = In("c"), !.fields = <<pass>>, !.env = TRUE, !.prefix = <<"api", "_">>],
    [YamlEntry(NoText) EXCEPT !.path = In("d"),
       !.notation = Scheme \o db \o <<"/", "field", "/", "user">>, !.env = TRUE],
    [YamlEntry(api) EXCEPT !.path = In("d"), !.file = <<"pem">>],
    [YamlEntry(acct) EXCEPT !.path = In("e"), !.env = TRUE]>>

Plain    == [Annotations EXCEPT !.listed = <<db, api>>]
EnvAll   == [Annotations EXCEPT !.listed = <<db, api>>, !.named = Custom,
               !.filed = Attached, !.envVars = TRUE]
EnvSoft  == [EnvAll EXCEPT !.failOnError = FALSE, !.initOnly = TRUE, !.filed = {},
               !.listed = <<db, <<"lost">> >>,
               !.named = {<< <<"z">>, db \o <<"[", "gone", "]", ":">> \o In("z") >>}]
Full     == [Annotations EXCEPT !.yaml = Yaml, !.k8sSecret = TRUE]
Refused  == [Plain EXCEPT !.ksmConfig = FALSE]
Excluded == [Plain EXCEPT !.excluded = TRUE]
Unknown  == [Plain EXCEPT !.auth = "oidc"]
BadTime  == [Plain EXCEPT !.interval = "often"]
Signal   == [Plain EXCEPT !.signal = TRUE]
FarPath  == [Annotations EXCEPT !.named = {<< db, Out("db") >>}]
Template == [Annotations EXCEPT !.yaml = <<[YamlEntry(db) EXCEPT !.path = In("a"), !.template = TRUE],
               [YamlEntry(api) EXCEPT !.format = "yaml"]>>]
Broken   == [Plain EXCEPT !.ksmOk = FALSE]
Cloud    == [EnvAll EXCEPT !.ksmConfig = FALSE, !.auth = "aws-secrets-manager"]
CloudSoft == [Plain EXCEPT !.auth = "gcp-secret-manager", !.envVars = TRUE,
                !.failOnError = FALSE, !.k8sSecret = TRUE]
CloudBare == [Plain EXCEPT !.ksmConfig = FALSE, !.auth = "azure-key-vault"]

All == {Plain, EnvAll, EnvSoft, Full, Refused, Excluded, Unknown, BadTime, Signal,
        FarPath, Template, Broken, Cloud, CloudSoft, CloudBare}
===========================================================================
