---------------------------- MODULE MCParamSlices ----------------------------
(***************************************************************************)
(* A path with two parameters of its own and three operations: one with a  *)
(* parameter, one with two, one with none.                                 *)
(***************************************************************************)
EXTENDS ParamSlices

CONSTANTS h1, h2

MCTwoHandlers   == {h1, h2}
MCMethods   == {"GET", "PATCH", "DELETE"}
MCPathLevel == <<"project", "zone">>
MCOpParams  == [m \in MCMethods |-> CASE m = "GET" -> <<"thing_id">>
                                      [] m = "PATCH" -> <<"thing_ref", "region">>
                                      [] OTHER -> <<>>]
MCCapacities == 2 .. 4
MCRoom       == {4}
=============================================================================
