---------------------------- MODULE MCLoadTest ------------------------------
(* Model-checking instance of LoadTest: two processes, each either with   *)
(* two connections to one endpoint or with a config ValidateConfig        *)
(* refuses, and either a valid environment or a malformed sink address.   *)
(* The seeder funded one account, so the second connection's client has   *)
(* no account; sequences stay below 4.                                    *)
EXTENDS LoadTest

CONSTANTS p1, p2

MCProcs == {p1, p2}
MCConfigs ==
    { [connections |-> 2, endpoints |-> 1, time |-> 60, count |-> 0],
      [connections |-> 0, endpoints |-> 1, time |-> 60, count |-> 0] }
MCEnvs ==
    { [chainID |-> "valid", denom |-> "valid", sink |-> "valid"],
      [chainID |-> "valid", denom |-> "valid", sink |-> "malformed"] }
=============================================================================
