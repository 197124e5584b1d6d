------------------------------ MODULE MCCodec -------------------------------
(***************************************************************************)
(* Small instances of Codec: answers of an API whose size and network have *)
(* other names in the SDK, with two nested objects, which may both carry   *)
(* an id and may both claim the network's name, and a list.                *)
(***************************************************************************)
EXTENDS CodecInv

CONSTANTS root, net, other, disk, t7, t8, n7

MCNodes   == {root, net, other, disk}
MCNames   == {"id", "boxId", "sizeGb", "size_gb", "netCfg", "net_cfg", "owner", "items"}
MCSDKToAPI == [n \in MCNames |->
    CASE n = "sizeGb" -> "size_gb" [] n = "netCfg" -> "net_cfg" [] OTHER -> n]
MCAPIToSDK == [n \in MCNames |->
    CASE n = "size_gb" -> "sizeGb" [] n = "net_cfg" -> "netCfg" [] OTHER -> n]
MCNameMap  == [p \in {"boxId"} |-> p]
MCTexts    == {t7, t8}
MCNumbers  == {n7}
MCIdText   == [n \in MCNumbers |-> t7]

Props(ks) == [n \in MCNames |-> IF n \in DOMAIN ks THEN ks[n] ELSE Absent]

\* Every object is in one place: the second one under the SDK's name of the
\* first, beside it, in a list, or not there at all.
MCHeaps ==
    {[m \in MCNodes |->
        CASE m = root  -> [net_cfg |-> net,
                           netCfg  |-> IF place = "netCfg" THEN other ELSE Absent,
                           owner   |-> IF place = "owner" THEN other ELSE Absent,
                           items   |-> IF place = "items" THEN <<t7, other>> ELSE Absent] @@ top
          [] m = net   -> Props([id |-> netId, size_gb |-> t7, sizeGb |-> size])
          [] m = other -> Props([id |-> otherId, size_gb |-> t8, items |-> <<disk>>])
          [] m = disk  -> Props([size_gb |-> t8])] :
        top \in { Props([id |-> i, boxId |-> b, size_gb |-> t8, sizeGb |-> s]) :
                    i \in {t7, n7, Absent}, b \in {Absent, t7}, s \in {Absent, t7} },
        place \in {"none", "netCfg", "owner", "items"},
        netId \in {Absent, t7}, otherId \in {Absent, t8}, size \in {Absent, t8}}

\* An answer that names the box names it as its id does.
MCNamed == {h \in MCHeaps : h[root]["boxId"] # Absent => h[root]["id"] = h[root]["boxId"]}

\* Either the ways to walk vary or the ids do.
MCVaried ==
    {h \in MCNamed :
        \/ h[root]["boxId"] = Absent /\ h[net]["id"] = Absent /\ h[other]["id"] # Absent
        \/ /\ h[root]["sizeGb"] = Absent /\ h[net]["sizeGb"] = Absent
           /\ h[net]["id"] = Absent <=> h[other]["id"] = Absent}

MCInvoked == {h \in MCVaried : h[root]["id"] = t7 /\ h[root]["sizeGb"] = Absent}

MCAnswers ==
    {[op |-> op, value |-> root, heap |-> h, pinned |-> IF op = "import" THEN t7 ELSE Absent] :
        op \in {"create", "import"}, h \in MCVaried}
    \cup
    {[op |-> "invoke", value |-> v, heap |-> h, pinned |-> Absent] :
        v \in {root, <<net>>}, h \in MCInvoked}
    \cup
    {[op |-> "list", value |-> v, heap |-> h, pinned |-> Absent] :
        v \in {net, <<net, t7, other>>}, h \in MCInvoked}

\* The theorems about Codec are about these answers too.
ASSUME MCCircumstances == ScalarIds /\ NamedByItsId /\ MutualNames /\ PlainParams

=============================================================================
