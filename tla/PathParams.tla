----------------------------- MODULE PathParams -----------------------------
(***************************************************************************)
(* How the provider fills the path parameters of an endpoint               *)
(* (getPathParamsMap) and takes them out of a request body.                *)
(*                                                                         *)
(* A resource has a collection endpoint, whose parameters are ScopeParams  *)
(* (the parents of the resource), and an item endpoint, whose last segment *)
(* is ItemParam, a name that ends in "Id" or "_id".                        *)
(***************************************************************************)
EXTENDS PropertyMaps

CONSTANTS
    ScopeParams,       \* path parameters of the parents
    ItemParam,         \* last, id-like path parameter of the item endpoint
    PathParamNameMap   \* metadata: the SDK name of each path parameter

ASSUME ParamsAssumption ==
    /\ ItemParam \notin ScopeParams
    /\ PathParamNameMap \in [ScopeParams \cup {ItemParam} -> Names]
    /\ \A p \in ScopeParams : PathParamNameMap[p] \notin {Id, PathParamNameMap[ItemParam]}
    /\ \A p, q \in ScopeParams : PathParamNameMap[p] = PathParamNameMap[q] => p = q
    \* they are SDK names, which the API-to-SDK renaming leaves alone
    /\ \A p \in ScopeParams \cup {ItemParam} :
          APIToSDKNameMap[PathParamNameMap[p]] = PathParamNameMap[p]

ItemParams == ScopeParams \cup {ItemParam}

ScopeNames == {PathParamNameMap[p] : p \in ScopeParams}

\* The property a parameter is looked up by: "id" for the last parameter of
\* the path when neither map holds it under its own name.
LookupName(param, props, oldInputs) ==
    LET sdkName == PathParamNameMap[param]
    IN  IF param = ItemParam /\ props[sdkName] = Absent /\ oldInputs[sdkName] = Absent
        THEN Id ELSE sdkName

Else(value, otherwise) == IF value # Absent THEN value ELSE otherwise

\* The value of one parameter: from the properties, else from an object
\* nested in them, else from the provider's global parameters, else from the
\* old inputs, else Absent, which makes the request fail.
PathParam(param, props, nested, global, oldInputs) ==
    LET sdkName == LookupName(param, props, oldInputs)
    IN  Else(props[sdkName], Else(nested[sdkName], Else(global[sdkName], oldInputs[sdkName])))

PathParamsMap(params, props, nested, global, oldInputs) ==
    [p \in params |-> PathParam(p, props, nested, global, oldInputs)]

AllFound(target) == \A p \in DOMAIN target : target[p] # Absent

\* The request body without the virtual inputs that only fill the path.
RemovePathParams(body, params) ==
    Without(body, {PathParamNameMap[p] : p \in params})

\* The state an import starts from: mapImportIDToPathParams splits the import
\* id "scope/.../item" into the path parameters and adds "id" for the last.
\* The id has a segment for every parameter: the code panics on a shorter one.
ImportedPathParams(scope, item) ==
    [n \in Names |->
        IF n \in {Id, PathParamNameMap[ItemParam]} /\ (n = Id \/ ScopeParams # {}) THEN item
        ELSE IF n \in ScopeNames
             THEN scope[CHOOSE p \in ScopeParams : PathParamNameMap[p] = n]
        ELSE Absent]

=============================================================================
