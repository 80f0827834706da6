--------------------------- MODULE VariableSchemaGen ---------------------------
(***************************************************************************)
(* The runtime-extension variable generator                               *)
(* (hack/tools/runtime-extension-variable-gen/main.go).                    *)
(*                                                                         *)
(* `run` finds every type named `name`, resolves the flattened OpenAPI      *)
(* schema of its group over the parser's packages, converts each top-level  *)
(* property into a ClusterClassVariable with the recursive                 *)
(* `convertToJSONSchemaProps`, sorts the variables by name and writes      *)
(* them.  Every Go map iteration (parser.Types, parser.GroupVersions,      *)
(* Properties) is a nondeterministic choice of the next element, and the   *)
(* unstable slices.SortFunc is a choice among the sorted permutations.     *)
(*                                                                         *)
(* Data is abstracted: a variable name is its rank in cmp.Compare order,   *)
(* a bound (Maximum/Minimum, float64) is a number of tenths, and the       *)
(* fields copied verbatim (Description, Format, Enum, ...) are represented  *)
(* by `type`.                                                              *)
(***************************************************************************)
EXTENDS Integers, Sequences, FiniteSets, SequencesExt, Functions

CONSTANTS
    Packages,      \* loader packages of the roots
    Groups,        \* API groups of the packages that have a GroupVersion
    NoGroup,       \* model value: the package has no +groupName marker
    Names,         \* variable names, as ranks in name order (naturals)
    TopSchemas,    \* flattened schemas the `Variables` type may have
    MaxBound       \* largest |int64| a converted bound may take here

(* apiextensionsv1.JSONSchemaProps, as far as the conversion looks at it.  *)
(* A pointer (Maximum, Minimum, AdditionalProperties, Items) is a        *)
(* sequence of length at most one: <<>> is nil.  Properties is a          *)
(* function from names to schemas.                                        *)
(* RECURSIVE data is bounded by the sets the MC module lists.             *)

(* The variables written: clusterv1.ClusterClassVariable. *)
Variable(n, s, r) == [name |-> n, schema |-> s, required |-> r]

VARIABLES
    flagsValid,  \* --name and --paths set, --output-file ends in .json
    loaded,      \* packages LoadRoots returned (a load error is only printed)
    pkgGroup,    \* parser.GroupVersions[pkg].Group, or NoGroup
    hasType,     \* parser.Types has TypeIdent{pkg, name}
    schemaOf,    \* parser.FlattenedSchemata of that type
    pc,
    typesLeft,   \* parser.Types entries named `name` not yet visited
    gks,         \* variableGroupKinds (the groups; Kind is always `name`)
    gi,          \* index of the variableGroupKind being resolved
    pkgsLeft,    \* `packages` of that group not yet visited
    apiSchema,   \* apiExtensionsSchema, <<>> for nil
    propsLeft,   \* properties of apiExtensionsSchema not yet converted
    variables,
    output       \* the file written, <<>> before it is

vars == <<flagsValid, loaded, pkgGroup, hasType, schemaOf, pc, typesLeft, gks, gi,
          pkgsLeft, apiSchema, propsLeft, variables, output>>
input == <<flagsValid, loaded, pkgGroup, hasType, schemaOf>>

(* int64(f) for a float64 f of `tenths` tenths: truncation towards zero. *)
Int64Of(tenths) ==
    IF tenths >= 0 THEN tenths \div 10 ELSE -((-tenths) \div 10)

ConvertBound(b) == [i \in DOMAIN b |-> Int64Of(b[i])]

(* convertToJSONSchemaProps.  A child never reports an error (no leaf    *)
(* adds one), so the error list is always empty and is left out.         *)
RECURSIVE ConvertToJSONSchemaProps_NoItems(_)
ConvertToJSONSchemaProps_NoItems(s) ==
    [type  |-> s.type, max |-> ConvertBound(s.max), min |-> ConvertBound(s.min),
     req   |-> s.req,
     addl  |-> [i \in DOMAIN s.addl |-> ConvertToJSONSchemaProps_NoItems(s.addl[i])],
     props |-> [k \in DOMAIN s.props |-> ConvertToJSONSchemaProps_NoItems(s.props[k])],
     items |-> <<>>]
RECURSIVE ConvertToJSONSchemaProps(_)
ConvertToJSONSchemaProps(s) ==
    [type  |-> s.type, max |-> ConvertBound(s.max), min |-> ConvertBound(s.min),
     req   |-> s.req,
     addl  |-> [i \in DOMAIN s.addl |-> ConvertToJSONSchemaProps(s.addl[i])],
     props |-> [k \in DOMAIN s.props |-> ConvertToJSONSchemaProps(s.props[k])],
     items |-> [i \in DOMAIN s.items |-> ConvertToJSONSchemaProps(s.items[i])]]

(* The packages of a group: `for pkg, gv := range parser.GroupVersions`.  *)
(* A package without a GroupVersion is not a key of that map.            *)
GroupPackages(g) == {p \in loaded : pkgGroup[p] # NoGroup /\ pkgGroup[p] = g}

NameLeq(a, b) == a.name <= b.name

-----------------------------------------------------------------------------
(* The flags as given; the packages loaded, parsed and type-checked by    *)
(* run before its first loop.                                              *)
Init ==
    /\ flagsValid \in BOOLEAN
    /\ loaded \in SUBSET Packages
    /\ pkgGroup \in [Packages -> Groups \cup {NoGroup}]
    /\ hasType \in [Packages -> BOOLEAN]
    /\ schemaOf \in [Packages -> TopSchemas]
    /\ pc = "main"
    /\ typesLeft = {p \in loaded : hasType[p]}
    /\ gks = <<>> /\ gi = 1 /\ pkgsLeft = {} /\ apiSchema = <<>>
    /\ propsLeft = {} /\ variables = <<>> /\ output = <<>>

(* main: klog.Exit on a missing flag or a non-.json output file, else run. *)
CheckFlags ==
    /\ pc = "main"
    /\ pc' = IF flagsValid THEN "collect" ELSE "exit"
    /\ UNCHANGED <<input, typesLeft, gks, gi, pkgsLeft, apiSchema, propsLeft, variables, output>>

(* One entry of `for typeIdent := range parser.Types` named `name`. *)
CollectGroupKind ==
    /\ pc = "collect"
    /\ \E p \in typesLeft :
          /\ typesLeft' = typesLeft \ {p}
          /\ gks' = Append(gks, pkgGroup[p])
    /\ UNCHANGED <<input, pc, gi, pkgsLeft, apiSchema, propsLeft, variables, output>>

(* The loop over variableGroupKinds starts the next group kind, or ends. *)
NextGroupKind ==
    /\ pc = "collect" /\ typesLeft = {}
    /\ IF gi <= Len(gks)
         THEN /\ pc' = "resolve"
              /\ pkgsLeft' = GroupPackages(gks[gi])
              /\ apiSchema' = <<>>
         ELSE /\ pc' = "sort"
              /\ UNCHANGED <<pkgsLeft, apiSchema>>
    /\ UNCHANGED <<input, typesLeft, gks, gi, propsLeft, variables, output>>

(* One package of the group, in map order: the last one with the type wins. *)
ResolveSchema ==
    /\ pc = "resolve"
    /\ \E p \in pkgsLeft :
          /\ pkgsLeft' = pkgsLeft \ {p}
          /\ apiSchema' = IF hasType[p] THEN <<schemaOf[p]>> ELSE apiSchema
    /\ UNCHANGED <<input, pc, typesLeft, gks, gi, propsLeft, variables, output>>

(* After the package loop: no schema is an error, else convert its properties. *)
SchemaResolved ==
    /\ pc = "resolve" /\ pkgsLeft = {}
    /\ IF apiSchema = <<>>
         THEN pc' = "error" /\ UNCHANGED propsLeft
         ELSE pc' = "convert" /\ propsLeft' = DOMAIN apiSchema[1].props
    /\ UNCHANGED <<input, typesLeft, gks, gi, pkgsLeft, apiSchema, variables, output>>

(* One property, in map order: converted and marked Required if listed. *)
ConvertVariable ==
    /\ pc = "convert"
    /\ \E n \in propsLeft :
          /\ propsLeft' = propsLeft \ {n}
          /\ variables' = Append(variables,
                 Variable(n, ConvertToJSONSchemaProps(apiSchema[1].props[n]),
                          n \in apiSchema[1].req))
    /\ UNCHANGED <<input, pc, typesLeft, gks, gi, pkgsLeft, apiSchema, output>>

VariablesConverted ==
    /\ pc = "convert" /\ propsLeft = {}
    /\ pc' = "collect" /\ gi' = gi + 1
    /\ UNCHANGED <<input, typesLeft, gks, pkgsLeft, apiSchema, propsLeft, variables, output>>

(* slices.SortFunc by name (not stable), then MarshalIndent and WriteFile. *)
SortAndWrite ==
    /\ pc = "sort"
    /\ \E perm \in Bijection(1..Len(variables), 1..Len(variables)) :
          LET sorted == [i \in 1..Len(variables) |-> variables[perm[i]]]
          IN  /\ IsSorted(sorted, NameLeq)
              /\ variables' = sorted
              /\ output' = sorted
    /\ pc' = "done"
    /\ UNCHANGED <<input, typesLeft, gks, gi, pkgsLeft, apiSchema, propsLeft>>

(* The tool exits after "done" (exit 0), "error" (exit 1) or "exit". *)
Next ==
    \/ CheckFlags \/ CollectGroupKind \/ NextGroupKind \/ ResolveSchema \/ SchemaResolved
    \/ ConvertVariable \/ VariablesConverted \/ SortAndWrite

Spec == Init /\ [][Next]_vars

-----------------------------------------------------------------------------
(* Reference definitions. *)

(* int64 conversion of a float: the integer between 0 and f nearest to f. *)
TruncRef(tenths) ==
    CHOOSE n \in -MaxBound..MaxBound :
        IF tenths >= 0 THEN n * 10 <= tenths /\ tenths < n * 10 + 10
                       ELSE n * 10 >= tenths /\ tenths > n * 10 - 10

(* c is the conversion of a: same tree, every copied field equal, every    *)
(* bound truncated.                                                       *)
RECURSIVE ConvertedFrom(_, _)
ConvertedFrom(a, c) ==
    /\ c.type = a.type /\ c.req = a.req
    /\ \A f \in {"max", "min"} :
          DOMAIN c[f] = DOMAIN a[f] /\ \A i \in DOMAIN a[f] : c[f][i] = TruncRef(a[f][i])
    /\ \A f \in {"addl", "props", "items"} :
          /\ DOMAIN c[f] = DOMAIN a[f]
          /\ \A k \in DOMAIN a[f] : ConvertedFrom(a[f][k], c[f][k])

Defining == {p \in loaded : hasType[p]}
Finished == pc \in {"done", "error"}

-----------------------------------------------------------------------------
(* Properties. *)

(* run: when a single loaded package defines the type, the tool exits 1   *)
(* if that package has no group, and otherwise writes one variable per    *)
(* top-level property, sorted by name, with Required set exactly for the  *)
(* schema's required properties and the property's schema converted      *)
(* field by field.  With no such type it writes an empty list.            *)
GeneratedVariablesMatchSchema ==
    Finished /\ Cardinality(Defining) <= 1 =>
      IF Defining = {} THEN pc = "done" /\ output = <<>>
      ELSE LET p == CHOOSE q \in Defining : TRUE
               top == schemaOf[p]
           IN  IF pkgGroup[p] = NoGroup THEN pc = "error"
               ELSE /\ pc = "done"
                    /\ IsSorted(output, LAMBDA a, b : a.name < b.name)
                    /\ {output[i].name : i \in 1..Len(output)} = DOMAIN top.props
                    /\ \A i \in 1..Len(output) :
                          /\ output[i].required = (output[i].name \in top.req)
                          /\ ConvertedFrom(top.props[output[i].name], output[i].schema)

(* The comment on the Variables type (test/extension/api/variables.go):   *)
(* "Each top-level field will be exactly one variable."  The output never  *)
(* holds two variables of one name.                                       *)
EachFieldOneVariable ==
    pc = "done" =>
      \A i, j \in 1..Len(output) : i # j => output[i].name # output[j].name

=============================================================================
