---------------------------- MODULE ClientSetup ----------------------------
(***************************************************************************)
(* How a client process comes to speak to a server: the server starts from *)
(* a connect file and may be restarted from another one, the secret and CA *)
(* files change under the client, and the client resolves host, port,      *)
(* transport, CA and secret file from flags, environment and connect file  *)
(* before it opens a transport and calls (client/cli.py, transport.py,     *)
(* credentials.py, grpc_transport.py and http_transport.py).  "" is a      *)
(* value that is missing or blank.                                         *)
(***************************************************************************)
EXTENDS Integers, FiniteSets

CONSTANTS Configs,       \* connect files a server may run from
          Environments,  \* environments a client process may have
          Flags,         \* host and port given on the command line
          SecretFiles,   \* paths of secret files
          CaFiles,       \* paths of CA files
          MaxEdits       \* changes of files during one client

ClientSetupAssumption ==
  /\ MaxEdits \in Nat
  /\ \A c \in Configs : c.secret \in SecretFiles \cup {""} /\ c.ca \in CaFiles \cup {""}
  /\ \A e \in Environments : e.secret \in SecretFiles \cup {""} /\ e.ca \in CaFiles \cup {""}

VARIABLES published, secretText, caText, edits, environment, client, sent

clientVars ==
  <<published, secretText, caText, edits, environment, client, sent>>

\* What a secret file holds: no file, bytes that are not UTF-8, nothing but
\* blank and comment lines, or a first secret.
SecretText == {"missing", "binary", "comments", "first", "second"}
CaText == {"missing", "empty", "garbage", "certificate"}

-----------------------------------------------------------------------------
(* Resolution *)

\* The first source that says something
FirstSet(sources) ==
  LET set == {k \in DOMAIN sources : sources[k] # ""}
  IN  IF set = {} THEN "" ELSE sources[CHOOSE k \in set : \A j \in set : k <= j]

\* resolve_transport: the file before the environment, and a name that is no
\* transport counts as nothing.
ResolveTransport(c, e) ==
  LET known(name) == IF name \in {"grpc", "http"} THEN name ELSE ""
  IN  FirstSet(<<known(c.transport), known(e.transport), "grpc">>)

\* credentials._resolve_path: the environment before the file
ResolvePath(e, c, field) == FirstSet(<<e[field], c[field]>>)

\* Mutant: the port of the address whatever the transport.
GetHostAndPortOfAddress(flags, c, e, transport) ==
  [host |-> FirstSet(<<flags.host, c.host, e.host, "localhost">>),
   port |-> FirstSet(<<flags.port, c.port, e.port, "33083">>)]

\* get_host_and_prot: flags, connect file, environment, defaults
GetHostAndPort(flags, c, e, transport) ==
  [host |-> FirstSet(<<flags.host, c.host, e.host, "localhost">>),
   port |-> FirstSet(<<flags.port, IF transport = "http" THEN c.http ELSE "",
                       c.port, e.port, "33083">>)]

\* No connect file: every field is missing.
NoConfig ==
  [host |-> "", port |-> "", http |-> "", transport |-> "", ca |-> "", secret |-> ""]

\* read_first_secret: only the first secret, and none when there is trouble
ReadFirstSecret(path) ==
  IF path # "" /\ secretText[path] \in {"first", "second"} THEN secretText[path] ELSE ""

\* Mutant: a job's report is sent with the operator's secret as well.
BuildCredentialPairsAll(kind, path) ==
  {p \in {<<"takler-pass", IF kind = "child" THEN environment.pass ELSE "">>,
          <<"takler-secret", ReadFirstSecret(path)>>,
          <<"takler-user", environment.user>>} : p[2] # ""}

\* build_credential_pairs: a job proves itself by its password, anyone else
\* by the secret and the user name; what is missing is left out.
BuildCredentialPairs(kind, path) ==
  {p \in IF kind = "child" THEN {<<"takler-pass", environment.pass>>}
         ELSE {<<"takler-secret", ReadFirstSecret(path)>>, <<"takler-user", environment.user>>}
     : p[2] # ""}

-----------------------------------------------------------------------------
(* The server and the files *)

NoClient ==
  [state |-> "none", config |-> NoConfig, flags |-> [host |-> "", port |-> ""],
   transport |-> "", host |-> "", port |-> "", ca |-> "", secret |-> "", tls |-> FALSE]
NotSent == [kind |-> "", pairs |-> {}, now |-> ""]

ClientSetupInit ==
  /\ published \in Configs
  /\ environment \in Environments
  /\ secretText \in [SecretFiles -> {"missing", "first"}]
  /\ caText \in [CaFiles -> {"missing", "certificate"}]
  /\ edits = 0 /\ client = NoClient /\ sent = NotSent

Edit == edits < MaxEdits /\ edits' = edits + 1

\* The server is started again, from a connect file that has changed.
Republish(c) ==
  /\ Edit
  /\ published' = c
  /\ UNCHANGED <<secretText, caText, environment, client, sent>>

RotateSecret(path, text) ==
  /\ Edit
  /\ secretText' = [secretText EXCEPT ![path] = text]
  /\ UNCHANGED <<published, caText, environment, client, sent>>

ReplaceCa(path, text) ==
  /\ Edit
  /\ caText' = [caText EXCEPT ![path] = text]
  /\ UNCHANGED <<published, secretText, environment, client, sent>>

-----------------------------------------------------------------------------
(* The client *)

Become(c) ==
  /\ client' = c
  /\ UNCHANGED <<published, secretText, caText, edits, environment>>

\* TaklerServiceClient.__init__: the transport is built with what was resolved.
MakeClient(flags, c) ==
  LET transport == ResolveTransport(c, environment)
      address == GetHostAndPort(flags, c, environment, transport)
  IN  [state |-> "made", config |-> c, flags |-> flags, transport |-> transport,
       host |-> address.host, port |-> address.port,
       ca |-> ResolvePath(environment, c, "ca"),
       secret |-> ResolvePath(environment, c, "secret"), tls |-> FALSE]

\* _create_client: one reading of the file gives transport and address.
CreateClient(flags) ==
  /\ client.state = "none"
  /\ Become(MakeClient(flags, IF environment.file THEN published ELSE NoConfig))
  /\ UNCHANGED sent

\* A CA that cannot be used is an error before anything is sent.
Opened(usable) ==
  IF client.ca = "" \/ usable THEN [client EXCEPT !.state = "open", !.tls = client.ca # ""]
  ELSE [client EXCEPT !.state = "failed"]

\* build_channel_credentials with _validate_ca_file, GrpcTransport.open
ChannelCredentials(ca) == ca # "" /\ caText[ca] = "certificate"
OpenGrpc ==
  /\ client.state = "made" /\ client.transport = "grpc"
  /\ Become(Opened(ChannelCredentials(client.ca)))
  /\ UNCHANGED sent

\* _build_ssl_context, HttpTransport.open
SslContext(ca) == ca # "" /\ caText[ca] = "certificate"
OpenHttp ==
  /\ client.state = "made" /\ client.transport = "http"
  /\ Become(Opened(SslContext(client.ca)))
  /\ UNCHANGED sent

\* The credentials are put together for each call anew.
Call(kind) ==
  /\ client.state = "open"
  /\ sent' = [kind |-> kind, pairs |-> BuildCredentialPairs(kind, client.secret),
              now |-> ReadFirstSecret(ResolvePath(environment, client.config, "secret"))]
  /\ Become(client)

\* TaklerServiceClient._guarded, the transport's close
Close ==
  /\ client.state \in {"open", "failed"}
  /\ Become(NoClient)
  /\ sent' = NotSent

ClientSetupNext ==
  \/ \E c \in Configs : Republish(c)
  \/ \E path \in SecretFiles, text \in SecretText : RotateSecret(path, text)
  \/ \E path \in CaFiles, text \in CaText : ReplaceCa(path, text)
  \/ \E flags \in Flags : CreateClient(flags)
  \/ OpenGrpc
  \/ OpenHttp
  \/ \E kind \in {"child", "control"} : Call(kind)
  \/ Close

ClientSetupSpec == ClientSetupInit /\ [][ClientSetupNext]_clientVars

-----------------------------------------------------------------------------
(* Properties *)

\* The listeners of a server that runs from file c
Listeners(c) ==
  {<<"grpc", c.port>>} \cup (IF c.http = "" THEN {} ELSE {<<"http", c.http>>})

\* A client made from a connect file speaks to a listener of the server that
\* file describes, with that listener's protocol, whatever the environment
\* says besides; only a flag, or HTTP to a server without HTTP, leads it
\* elsewhere.  It speaks in the clear only when no CA is configured at all.
DialsAListener ==
  client.state = "open" =>
    /\ /\ environment.file /\ client.flags.port = ""
       /\ client.transport = "http" => client.config.http # ""
       => <<client.transport, client.port>> \in Listeners(client.config)
    /\ ~client.tls => environment.ca = "" /\ client.config.ca = ""

\* A call carries the credentials of its own kind and no other: a job's
\* report never the operator's secret, an operator's command never the job
\* password, and the secret is the one the file holds at that moment, so
\* that a rotated secret is used from the next call on.
CredentialsFit ==
  \A p \in sent.pairs :
    IF sent.kind = "child" THEN p = <<"takler-pass", environment.pass>>
    ELSE p \in {<<"takler-secret", sent.now>>, <<"takler-user", environment.user>>}

\* deployment.rst:250-252: without an http section, or without a connect file,
\* "--port" or TAKLER_PORT gives the port of the HTTP listener.
\* It does not hold: README, "Also observed".
PortAsDocumented ==
  client.state = "open" /\ client.transport = "http" /\ client.config.http = ""
    /\ client.flags.port = "" /\ environment.port # ""
  => client.port = environment.port
=============================================================================
