-------------------------------- MODULE Auth --------------------------------
(***************************************************************************)
(* How a call is authorised: the client takes the first secret of its file *)
(* (client/credentials.py), the gate of the server decides from the        *)
(* privilege of the method, the metadata and two files that the operator   *)
(* may edit at any moment (server/auth.py), a request that passes is        *)
(* checked, queued and run (http_transport.py, handlers.py), and the        *)
(* decision is audited (server/audit.py).  The gate runs on the event loop *)
(* without suspending, so one call is decided at a time; the files change   *)
(* between its system calls.                                               *)
(***************************************************************************)
EXTENDS Naturals, FiniteSets, SequencesExt

CONSTANTS
  AuthCall,        \* the calls
  MethodLevel,     \* the privilege of each call's method
  ClientFile,      \* per call: the lines of the client's secret file, or Gone
  Named,           \* per call: the operating-system user, or Nothing
  Secret,          \* the lines that are secrets
  User,            \* the lines that are user names
  SecretTexts,     \* what the operator writes into the secret file
  UserTexts,       \* what the operator writes into the whitelist file
  Password,        \* the child commands that carry a job password
  Gone, Locked,    \* a file that is not there, a file that cannot be read
  NoFile,          \* no whitelist file is configured
  Nothing,         \* None
  MaxEdits

VARIABLES
  text,            \* per file: its lines, Gone or Locked
  stamp,           \* per file: its modification time
  cached,          \* per file: _fingerprint and _values of _CredentialFile
  gate,            \* the call being decided, and how far
  ever,            \* per file: the values it held at some moment of this decision
  always,          \* per file: the values it held at every moment of it
  callState,       \* per call: its life
  audited,         \* per call: its records in the audit trail
  auditFile        \* "fresh", "prepared" or "refused": _prepare_audit_file

authVars == <<text, stamp, cached, gate, ever, always, callState, audited, auditFile>>

File == {"secrets", "users"}
NoGate == [call |-> Nothing, stage |-> 0, mark |-> Nothing, trouble |-> FALSE]

---------------------------------------------------------------------------
(* Files *)

(* parse_credential_lines: the lines that are neither blank nor comments.   *)
ParseCredentialLines(lines) == ToSet(lines) \cap (Secret \cup User)

(* _first_secret_line: the order of the lines matters to the client only.   *)
FirstSecretLine(lines) ==
  LET given == SelectSeq(lines, LAMBDA l : l \in Secret \cup User)
  IN IF given = <<>> THEN Nothing ELSE given[1]

(* read_first_secret: a file that is missing or unreadable sends no secret. *)
ReadFirstSecret(lines) ==
  IF lines \in {Gone, Locked} THEN Nothing ELSE FirstSecretLine(lines)

Holds(t) == IF t \in {Gone, Locked, NoFile} THEN {} ELSE ParseCredentialLines(t)
Size(t) == IF t \in {Gone, Locked, NoFile} THEN 0 ELSE Len(t)

(* (st_mtime_ns, st_size)                                                   *)
Fingerprint(f) == <<stamp[f], Size(text[f])>>
NotCached == [mark |-> Nothing, values |-> {}]

Configured(f) == text[f] # NoFile
HasWhitelist == Configured("users")

---------------------------------------------------------------------------
(* The gate *)

(* from_metadata: what the call carries under the keys of the credentials.  *)
FromMetadata(c) == [secret |-> ReadFirstSecret(ClientFile[c]), user |-> Named[c]]

(* authorize_operator reads both files, then verify_secret and              *)
(* is_whitelisted read them again.                                          *)
Stages == <<"secrets", "users", "secrets", "users">>
StageFile == Stages[gate.stage]

AuthInit ==
  /\ text \in {t \in [File -> SecretTexts \cup UserTexts] :
                 /\ t["secrets"] \in SecretTexts /\ t["users"] \in UserTexts
                 /\ Holds(t["secrets"]) # {}}           \* validate_at_startup
  /\ stamp = [f \in File |-> 0]
  /\ cached = [f \in File |-> IF f = "secrets"
                              THEN [mark |-> <<0, Size(text[f])>>, values |-> Holds(text[f])]
                              ELSE NotCached]
  /\ gate = NoGate /\ ever = [f \in File |-> {}] /\ always = [f \in File |-> {}]
  /\ callState = [c \in AuthCall |-> "new"]
  /\ audited = [c \in AuthCall |-> 0] /\ auditFile = "fresh"

(* The operator, or a deployment tool, replaces a file.                     *)
EditFile(f, t) ==
  /\ stamp[f] < MaxEdits /\ Configured(f) /\ t \notin {text[f], NoFile}
  /\ text' = [text EXCEPT ![f] = t]
  /\ stamp' = [stamp EXCEPT ![f] = @ + 1]
  /\ ever' = [ever EXCEPT ![f] = @ \cup Holds(t)]
  /\ always' = [always EXCEPT ![f] = @ \cap Holds(t)]
  /\ UNCHANGED <<cached, gate, callState, audited, auditFile>>

(* AuditLogger.record: the first record prepares the file, and is lost when *)
(* that fails; later ones are written through the logging backend.          *)
Record(c) ==
  IF auditFile = "fresh"
  THEN \/ auditFile' = "prepared" /\ audited' = [audited EXCEPT ![c] = @ + 1]
       \/ auditFile' = "refused" /\ UNCHANGED audited
  ELSE audited' = [audited EXCEPT ![c] = @ + 1] /\ UNCHANGED auditFile

Refuses(c, reason) ==
  /\ callState' = [callState EXCEPT ![c] = reason]
  /\ Record(c)

(* AuthGate.authorize up to authorize_operator: a public method needs       *)
(* nothing, a child command some job password, an operator command a        *)
(* secret and a user.                                                       *)
Decide(c) ==
  /\ gate = NoGate /\ callState[c] = "new"
  /\ LET credentials == FromMetadata(c)
     IN IF MethodLevel[c] = "operator" /\ credentials.secret # Nothing
                                       /\ credentials.user # Nothing
        THEN /\ gate' = [call |-> c, stage |-> 1, mark |-> Nothing, trouble |-> FALSE]
             /\ ever' = [f \in File |-> Holds(text[f])]
             /\ always' = [f \in File |-> Holds(text[f])]
             /\ UNCHANGED <<callState, audited, auditFile>>
        ELSE /\ IF MethodLevel[c] = "operator" \/ (MethodLevel[c] = "child" /\ c \notin Password)
                THEN Refuses(c, "missing_credential")
                ELSE /\ callState' = [callState EXCEPT ![c] = "accepted"]
                     /\ UNCHANGED <<audited, auditFile>>
             /\ UNCHANGED <<gate, ever, always>>
  /\ UNCHANGED <<text, stamp, cached>>

(* What a stage concludes from the values it has read (error: none could    *)
(* be read).                                                                *)
Concludes(values, error, caches) ==
  LET c == gate.call
      s == gate.stage
      sent == FromMetadata(c)
      trouble == gate.trouble \/ (s <= 2 /\ error)
      verdict ==
        CASE s = 1 -> "go on"
          [] s = 2 -> IF trouble THEN "invalid_credential" ELSE "go on"
          [] s = 3 -> IF sent.secret \in values THEN "go on" ELSE "invalid_credential"
          [] s = 4 -> IF ~HasWhitelist \/ sent.user \in values THEN "accepted"
                      ELSE "not_in_whitelist"
  IN /\ cached' = caches
     /\ CASE verdict = "go on" ->
               /\ gate' = [gate EXCEPT !.stage = @ + 1, !.mark = Nothing, !.trouble = trouble]
               /\ UNCHANGED <<callState, audited, auditFile>>
          [] verdict = "accepted" ->
               /\ gate' = NoGate
               /\ callState' = [callState EXCEPT ![c] = verdict]
               /\ UNCHANGED <<audited, auditFile>>
          [] OTHER -> gate' = NoGate /\ Refuses(c, verdict)

Forget(f) == [cached EXCEPT ![f] = NotCached]

(* Mutant: a file of the same size is taken to be the same.                 *)
CacheStandsBySize(f) == cached[f].mark # Nothing /\ cached[f].mark[2] = Size(text[f])
(* The cached values stand for the file while its fingerprint is the same.  *)
CacheStands(f) == cached[f].mark = Fingerprint(f)

(* os.stat of _CredentialFile.read: the fingerprint is taken before the     *)
(* text, a failure forgets the cache.                                       *)
StatFile ==
  /\ gate # NoGate /\ gate.mark = Nothing
  /\ LET f == StageFile
     IN CASE ~Configured(f) -> Concludes({}, FALSE, cached)
          [] Configured(f) /\ text[f] = Gone -> Concludes({}, TRUE, Forget(f))
          [] Configured(f) /\ text[f] # Gone /\ CacheStands(f) ->
               Concludes(cached[f].values, FALSE, cached)
          [] OTHER ->
               /\ gate' = [gate EXCEPT !.mark = Fingerprint(f)]
               /\ UNCHANGED <<cached, callState, audited, auditFile>>
  /\ UNCHANGED <<text, stamp, ever, always>>

(* read_text, then the values are kept under the fingerprint taken before.  *)
ReadFile ==
  /\ gate # NoGate /\ gate.mark # Nothing
  /\ LET f == StageFile
     IN IF text[f] \in {Gone, Locked}
        THEN Concludes({}, TRUE, Forget(f))
        ELSE Concludes(Holds(text[f]), FALSE,
                       [cached EXCEPT ![f] = [mark |-> gate.mark, values |-> Holds(text[f])]])
  /\ UNCHANGED <<text, stamp, ever, always>>

---------------------------------------------------------------------------
(* After the gate *)

(* The envelope is checked after the gate and before the command: a bad one *)
(* is answered with a 4xx status and runs nothing.                          *)
Malformed(c) ==
  /\ callState[c] = "accepted"
  /\ callState' = [callState EXCEPT ![c] = "malformed"]
  /\ UNCHANGED <<text, stamp, cached, gate, ever, always, audited, auditFile>>

(* Mutant: a call that is run leaves no record.                             *)
RunsUnrecorded(c) ==
  /\ callState[c] = "accepted"
  /\ callState' = [callState EXCEPT ![c] = "run"]
  /\ UNCHANGED <<text, stamp, cached, gate, ever, always, audited, auditFile>>
(* The handler gets the state lock, runs the command and audits its outcome *)
(* when it is a control command; a query leaves no record.                  *)
Runs(c) ==
  /\ callState[c] = "accepted"
  /\ callState' = [callState EXCEPT ![c] = "run"]
  /\ IF MethodLevel[c] = "operator" THEN Record(c) ELSE UNCHANGED <<audited, auditFile>>
  /\ UNCHANGED <<text, stamp, cached, gate, ever, always>>
AuthNext ==
  \/ \E t \in SecretTexts : EditFile("secrets", t)
  \/ \E t \in UserTexts : EditFile("users", t)
  \/ \E c \in AuthCall : Decide(c) \/ Malformed(c) \/ Runs(c)
  \/ StatFile
  \/ ReadFile

AuthSpec == AuthInit /\ [][AuthNext]_authVars

---------------------------------------------------------------------------
(* Properties *)

(* An operator call is accepted only when its secret and its user stood in  *)
(* the files at some moment of its decision, and refused only when one of   *)
(* them was missing at some moment of it: an edit of either file "takes     *)
(* effect on the following RPC", whatever the cache holds, however the      *)
(* edits fall between the four reads, and after any failure to read.        *)
TrueVerdict ==
  gate # NoGate /\ gate' = NoGate =>
    LET c == gate.call
        sent == FromMetadata(c)
    IN /\ callState'[c] = "accepted" =>
            /\ sent.secret \in ever["secrets"]
            /\ HasWhitelist => sent.user \in ever["users"]
       /\ callState'[c] = "invalid_credential" =>
            \/ sent.secret \notin always["secrets"]
            \/ HasWhitelist /\ sent.user \notin always["users"]
       /\ callState'[c] = "not_in_whitelist" => sent.user \notin always["users"]
VerdictMatchesFiles == [][TrueVerdict]_authVars

(* Every operator call that was refused or run has one record in the audit  *)
(* trail and no call has two; only the record that met a failing            *)
(* preparation of the audit file is missing.                                *)
DecisionsAreAudited ==
  LET decided == {c \in AuthCall : MethodLevel[c] = "operator"
                                   /\ callState[c] \notin {"new", "accepted", "malformed"}}
      silent == {c \in decided : audited[c] = 0}
  IN /\ \A c \in AuthCall : audited[c] <= 1
     /\ Cardinality(silent) <= IF auditFile = "refused" THEN 1 ELSE 0
=============================================================================
