---------------------------- MODULE SchemaDirectory ----------------------------
(***************************************************************************)
(* The versions of the data models that are kept under each name (Schemas  *)
(* and SchemaDirectory of lib/include/schema.hpp).  They are kept in the   *)
(* order they were added, whatever their versions.                         *)
(***************************************************************************)
EXTENDS Naturals, Sequences

CONSTANTS
  Keys,      \* the names of schemas
  Models,    \* the data models
  Versions,  \* the versions callers name
  MaxVersion       \* the greatest uint32_t: on add, the next version; on get, the last

ASSUME VersionsAssumption == Versions \subseteq Nat /\ MaxVersion \notin Nat

VARIABLE schemas  \* the schemas under each key

Schema == [version : Nat, model : Models]

DirectoryTypeOK == schemas \in [Keys -> Seq(Schema)]

DirectoryInit == schemas = [key \in Keys |-> <<>>]

NextVersion(key) == Len(schemas[key]) + 1

\* Mutant: schemas are kept with the newest version first.
AddSorted(key, version, model) ==
  LET v == IF version = MaxVersion THEN NextVersion(key) ELSE version
  IN  schemas' = [schemas EXCEPT ![key] =
                    <<[version |-> v, model |-> model]>> \o @]

Add(key, version, model) ==
  LET v == IF version = MaxVersion THEN NextVersion(key) ELSE version
  IN  schemas' = [schemas EXCEPT ![key] =
                    Append(@, [version |-> v, model |-> model])]

Back(s) == s[Len(s)]

\* Mutant: the version asked for is skipped.
FirstsAbove(s, version) ==
  {i \in DOMAIN s : /\ s[i].version > version
                    /\ \A j \in 1..(i - 1) : s[j].version <= version}

\* The index at which get stops: none or one.
Firsts(s, version) ==
  {i \in DOMAIN s : /\ s[i].version >= version
                    /\ \A j \in 1..(i - 1) : s[j].version < version}

\* Schemas::get, of schemas that are there.
Find(s, version) ==
  IF version = MaxVersion \/ Firsts(s, version) = {} THEN Back(s)
  ELSE s[CHOOSE i \in Firsts(s, version) : TRUE]

Get(key, version) == Find(schemas[key], version)

Has(key) == schemas[key] # <<>>

-------------------------------------------------------------------------------
Ascend(s) == \A i, j \in DOMAIN s : i < j => s[i].version < s[j].version

\* As long as versions are added in ascending order each is found under its own
\* number, and the last when none is named (schema.hpp:988-1002).
VersionIsFound ==
  \A key \in Keys : Ascend(schemas[key]) =>
    \A i \in DOMAIN schemas[key] :
      /\ Get(key, schemas[key][i].version) = schemas[key][i]
      /\ Get(key, MaxVersion).version >= schemas[key][i].version

\* What get answers for a version that is there, or for one that is followed by
\* a later one, it answers for ever: only a schema that is "the last" changes.
GetIsStable ==
  [][\A key \in Keys, version \in Versions :
       Firsts(schemas[key], version) # {}
         => Get(key, version)' = Get(key, version)]_schemas
===============================================================================
