---------------------------- MODULE MCServerStop ----------------------------
(***************************************************************************)
(* A server with both listeners that stops at its first failure.           *)
(***************************************************************************)
EXTENDS ServerLifecycle

FailFast ==
  {[entry |-> "serve", confFrom |-> "argument", confLoads |-> TRUE, conf |-> [EmptyConf EXCEPT !.http = TRUE],
    policyArg |-> "FAIL_FAST", policyEnv |-> Blank, authEnv |-> Blank, portArg |-> Blank,
    certArg |-> Blank, keyArg |-> Blank, secrets |-> "none"]}
=============================================================================
