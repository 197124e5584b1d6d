---------------------------- MODULE PropertyMaps ----------------------------
(***************************************************************************)
(* Property maps and the pure operations the provider applies to them.     *)
(*                                                                         *)
(* A Go map (resource.PropertyMap, map[string]interface{}) is a function   *)
(* on the finite set Names that yields Absent for a key the map does not   *)
(* hold.  Names holds the names of both sides: the SDK names the engine    *)
(* uses and the API names the cloud uses.                                  *)
(***************************************************************************)

CONSTANTS
    Names,            \* property names, SDK and API spelling
    Absent,           \* "the map has no such key"
    Id,               \* the property "id"
    SDKToAPINameMap,  \* metadata: [Names -> Names], the identity where no entry
    APIToSDKNameMap   \* metadata: [Names -> Names], the identity where no entry

ASSUME NamesAssumption ==
    /\ Id \in Names /\ Absent \notin Names
    /\ SDKToAPINameMap \in [Names -> Names]
    /\ APIToSDKNameMap \in [Names -> Names]

\* The metadata renames without chains, never touches "id", and no two names
\* are renamed to the same one.
ASSUME RenamingAssumption ==
    \A lookup \in {SDKToAPINameMap, APIToSDKNameMap} :
        /\ lookup[Id] = Id
        /\ \A n \in Names : lookup[n] = Id => n = Id
        /\ \A n \in Names : lookup[lookup[n]] = lookup[n]
        /\ \A m, n \in Names :
              lookup[m] # m /\ lookup[n] # n /\ lookup[m] = lookup[n] => m = n

Empty == [n \in Names |-> Absent]

Keys(m) == {n \in Names : m[n] # Absent}

\* resource.PropertyMap.Diff: the keys added, deleted and updated.
Adds(olds, news)    == Keys(news) \ Keys(olds)
Deletes(olds, news) == Keys(olds) \ Keys(news)
Updates(olds, news) == {n \in Keys(olds) \cap Keys(news) : olds[n] # news[n]}

ChangedKeys(olds, news) ==
    Adds(olds, news) \cup Deletes(olds, news) \cup Updates(olds, news)

\* Mutant: a merge that keeps nothing of the old properties.
ApplyDiffForgettingOld(newProps, oldProps) == [n \in Names |-> newProps[n]]

\* The old properties with every addition and update of the new ones laid
\* over them; what the new ones no longer have is kept.
ApplyDiffFromCloudProvider(newProps, oldProps) ==
    [n \in Names |->
        IF n \in Adds(oldProps, newProps) \cup Updates(oldProps, newProps)
        THEN newProps[n] ELSE oldProps[n]]

\* The keys that TransformBody moves to n.
MovedTo(m, lookup, n) == {k \in Keys(m) : k # n /\ lookup[k] = n}

\* Every key becomes its entry in the lookup map, whatever the order in which
\* Go ranges over the map: when a key and the key that is renamed to it are
\* both present, the renamed one's value is the one that stays.
TransformBody(m, lookup) ==
    [n \in Names |->
        IF MovedTo(m, lookup, n) # {} THEN m[CHOOSE k \in MovedTo(m, lookup, n) : TRUE]
        ELSE IF lookup[n] = n THEN m[n]
        ELSE Absent]

\* delete(m, k) for every k in ks.
Without(m, ks) == [n \in Names |-> IF n \in ks THEN Absent ELSE m[n]]

\* One turn of the loop in TransformBody: the key is deleted when its name
\* differs, and its value is stored under the new one.
RenameKey(m, key, lookup) == [Without(m, {key}) EXCEPT ![lookup[key]] = m[key]]

\* Drops "id" and every key that the (flat) schema does not declare writable.
FilterReadOnlyProperties(m, schema) ==
    [n \in Names |-> IF n # Id /\ n \in schema THEN m[n] ELSE Absent]

\* maps.Copy: every entry of src overwrites dst.
Overwrite(dst, src) == [n \in Names |-> IF src[n] # Absent THEN src[n] ELSE dst[n]]

=============================================================================
