----------------------------- MODULE MCProvider -----------------------------
(***************************************************************************)
(* Small instances of Provider: one type of resource at                    *)
(* /{project}/things/{thing_id}, with a property that is spelled           *)
(* differently on the two sides, one that is spelled the same, one that    *)
(* only the cloud sets and one that only the answer to the POST has.       *)
(***************************************************************************)
EXTENDS ProviderOwnership, TLC

CONSTANTS i1, i2

MCNames  == {"id", "project", "thing_id", "sizeGb", "size_gb", "label", "status", "token"}
MCSDKToAPI == [n \in MCNames |-> IF n = "sizeGb" THEN "size_gb" ELSE n]
MCAPIToSDK == [n \in MCNames |-> IF n = "size_gb" THEN "sizeGb" ELSE n]
MCItem     == "thing_id"
MCScope    == {"project"}
MCNameMap  == [p \in {"project", "thing_id"} |-> p]
MCValues   == {"x", "y"}
MCBody     == {"sizeGb", "label"}
MCIds2     == {i1, i2}
MCSymmetry2 == Permutations(MCIds2)

Props(ks) == [n \in MCNames |-> IF n \in DOMAIN ks THEN ks[n] ELSE Absent]

MCPrograms ==
    { Props([project |-> "x", sizeGb |-> "x"]),
      Props([project |-> "x", sizeGb |-> "y", label |-> "x"]),
      Props([project |-> "x", sizeGb |-> "x", label |-> "x"]),
      Props([project |-> "y", sizeGb |-> "x"]) }

\* An API that updates with PATCH and whose answers repeat the whole object.
\* Its POST schema declares the label's default, its PATCH schema does not.
Plain ==
    [update |-> "PATCH", deletable |-> TRUE, flat |-> TRUE,
     updateSchema |-> {"size_gb", "label"}, createSchema |-> {"size_gb", "label"},
     nullable |-> {"size_gb", "label"}, discriminator |-> Absent,
     onDiff |-> {"default"}, autoName |-> Absent,
     createDefaults |-> Props([label |-> "y"]), updateDefaults |-> Props(<<>>),
     global |-> Props(<<>>), defaults |-> Props([label |-> "y"]),
     echo |-> {"size_gb", "label"}, echoScope |-> TRUE,
     readOnly |-> {"status"}, createOnly |-> {"token"},
     noContent |-> FALSE, importable |-> TRUE]

\* Its answers do not repeat the scope; the path must come from old inputs.
Silent == [Plain EXCEPT !.echoScope = FALSE, !.importable = FALSE]

MCAPIs ==
    { [Plain EXCEPT !.onDiff = {"default", "update", "replace"}],
      [Plain EXCEPT !.discriminator = "label", !.updateSchema = {"size_gb"}],
      [Silent EXCEPT !.autoName = "label", !.deletable = FALSE, !.createDefaults = Props(<<>>)],
      [Silent EXCEPT !.update = "PUT", !.updateSchema = {"label"},
                     !.updateDefaults = Props([label |-> "y"])],
      [Plain EXCEPT !.update = "none", !.echo = {"label"}] }

\* The PATCH schema declares the label's default too.
Defaulted == [Plain EXCEPT !.updateDefaults = Props([label |-> "y"])]

\* An OnDiff callback that updates in place whatever changed, or keeps it.
MCUpgradeAPIs ==
    {a \in MCAPIs : ~a.echoScope \/ a.update = "none"}
    \cup {[Plain EXCEPT !.onDiff = {"none"}], [Defaulted EXCEPT !.onDiff = {"update"}]}

MCSchemaDefaults == {Defaulted}

\* The provider has a global project "y" that programs override with "x".
MCOverride == {[Silent EXCEPT !.global = Props([project |-> "y"])]}

\* The update schema is an allOf: no properties at its top level.
MCAllOf == {[Silent EXCEPT !.flat = FALSE]}

\* Updates are answered with 204.
MCNoContent == {[Plain EXCEPT !.noContent = TRUE]}

Modern == [sendsOldInputs |-> TRUE, sendsOldInputsToDelete |-> TRUE]
Legacy == [sendsOldInputs |-> FALSE, sendsOldInputsToDelete |-> FALSE]
MCModern  == {Modern}
MCEngines == {Modern, Legacy}

=============================================================================
