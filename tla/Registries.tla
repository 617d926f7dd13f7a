----------------------------- MODULE Registries -----------------------------
(***************************************************************************)
(* The registries in registry/*.toml: what codegen reads out of them       *)
(* (parsers.ts) and what it generates from them (gen-ts.ts, gen-cpp.ts,    *)
(* gen-monaco.ts).                                                         *)
(*                                                                         *)
(* A TOML file is [version, entries]: a sequence of records.  "typed" says *)
(* that every field has the type the parser asserts.  Fields that are      *)
(* copied from the TOML to every output alike (doc, rfc, ...) are left out. *)
(* A generated file is what a program that reads it can tell: its tokens,  *)
(* its types, the digest it carries; that decides which edits codegen      *)
(* --check calls a difference.  A digest is the content it is made of:     *)
(* SHA-256 does not collide.                                               *)
(***************************************************************************)
EXTENDS Integers, Sequences, FiniteSets, Functions

CONSTANTS None, Refused

\* None is no type of a property.
ASSUME NoneAssumption == None \notin {"boolean", "string", "number", "array", "object"}

-----------------------------------------------------------------------------
(* Parsing.  The entries are sorted by their identifiers, hence a set.     *)

Distinct(entries, field) ==
  \A i, j \in DOMAIN entries : entries[i][field] = entries[j][field] => i = j

\* An array of tables, each entry with the right types.
WellFormed(toml) == \A i \in DOMAIN toml.entries : toml.entries[i].typed

\* The files that also say which version they are.
Versioned(toml) == toml.version = 1 /\ WellFormed(toml)

\* Only an active entry can be written unless it says so.
AllowWrite(e) == IF e.allow_write = None THEN e.status = "active" ELSE e.allow_write

WithDefaults(entries) == {[e EXCEPT !.allow_write = AllowWrite(e)] : e \in Range(entries)}

KeyRules(e) ==
  IF e.name = "id" THEN e.id = 1 /\ e.type = "int" /\ ~ e.nullable /\ ~ AllowWrite(e)
  ELSE e.nullable \/ e.default # None

ParseKeys(toml) ==
  IF /\ WellFormed(toml) /\ Distinct(toml.entries, "id") /\ Distinct(toml.entries, "name")
     /\ \A e \in Range(toml.entries) : KeyRules(e)
     /\ \E e \in Range(toml.entries) : e.name = "id"
  THEN WithDefaults(toml.entries) ELSE Refused

ParseParams(toml) ==
  IF WellFormed(toml) /\ Distinct(toml.entries, "id") /\ Distinct(toml.entries, "name")
  THEN WithDefaults(toml.entries) ELSE Refused

ParseFeatures(toml) ==
  IF WellFormed(toml) /\ Distinct(toml.entries, "id") THEN Range(toml.entries) ELSE Refused

\* One entry per pattern, limit or enum.
ParseValidation(toml) == IF Versioned(toml) THEN Range(toml.entries) ELSE Refused

\* schema is None, or type, additional (may there be others?), required and props: name -> type.
ParseCapabilities(toml) ==
  IF /\ Versioned(toml)
     /\ \A e \in Range(toml.entries) : e.schema = None \/ e.schema.type = "object"
     /\ Distinct(toml.entries, "id")
  THEN Range(toml.entries) ELSE Refused

\* effect is None, the text of a writes_effect, or Refused if it is not JSON.
ParseTasks(toml) ==
  IF /\ Versioned(toml)
     /\ \A e \in Range(toml.entries) :
          /\ e.effect # Refused
          /\ \A p \in e.params : p.endpoint_kind # None =>
               p.type = "endpoint_ref" /\ p.endpoint_kind \in {"redis", "http"}
  THEN Range(toml.entries) ELSE Refused

\* prefixed: the endpoint_id begins with ep_ and has 64 characters at most.
EndpointRules(e) ==
  e.prefixed /\ e.kind \in {"redis", "http"} /\ e.resolver = "static" /\ e.port \in 1..65535

ParseEndpointFile(toml) ==
  IF /\ Versioned(toml)
     /\ \A e \in Range(toml.entries) : EndpointRules(e)
     /\ Distinct(toml.entries, "id") /\ Distinct(toml.entries, "name")
  THEN Range(toml.entries) ELSE Refused

\* Mutant: the kinds of the environments are not compared.
SameEndpointsButKind(a, b) == {<<e.id, e.name>> : e \in a} = {<<e.id, e.name>> : e \in b}

\* The environments know the same endpoints by the same names and kinds.
SameEndpoints(a, b) == {<<e.id, e.name, e.kind>> : e \in a} = {<<e.id, e.name, e.kind>> : e \in b}

-----------------------------------------------------------------------------
(* Names.  A local name is a sequence of words, each with what comes       *)
(* before it: nothing, an underscore ("_"), an underscore before something  *)
(* that is no small letter ("_digit"), or a capital ("cap").               *)

OpToMethodName(op) == [i \in DOMAIN op.name |-> [op.name[i] EXCEPT !.glue = IF @ = "_" THEN "cap" ELSE @]]

\* Tasks without a namespace are core tasks.
OpToNamespace(op) == IF op.ns = None THEN "core" ELSE op.ns

FriendlyParamName(p) ==
  CASE p.type = "expr_id" -> "expr"
    [] p.type = "pred_id" -> "pred"
    [] OTHER -> p.name

-----------------------------------------------------------------------------
(* TypeScript.                                                             *)

\* name -> identifier
Tokens(entries) == [n \in {e.name : e \in entries} |-> (CHOOSE e \in entries : e.name = n).id]

GenerateKeysTs(keys) == [tokens |-> Tokens(keys), digest |-> keys]

GenerateParamsTs(params) == [tokens |-> Tokens(params), digest |-> params]

\* Of two features of a stage with one name, the one written last, with the larger identifier, is left.
GenerateFeaturesTs(features) ==
  LET ids(n) == {f.id : f \in {g \in features : <<g.stage, g.name>> = n}}
  IN [tokens |-> [n \in {<<f.stage, f.name>> : f \in features} |->
                    CHOOSE i \in ids(n) : \A j \in ids(n) : i >= j],
      count |-> Cardinality(features), digest |-> features]

GenerateValidationTs(rules) ==
  [rules |-> rules, helpers |-> {r.name : r \in {q \in rules : q.kind = "pattern"}}, digest |-> rules]

SupportedCapabilities(caps) == {c.id : c \in {d \in caps : d.status \in {"implemented", "deprecated"}}}

GenerateCapabilitiesTs(caps) ==
  [schemas |-> [i \in {c.id : c \in caps} |-> (CHOOSE c \in caps : c.id = i).schema],
   supported |-> SupportedCapabilities(caps), digest |-> caps]

ParamTypeToTsType(p) ==
  LET base == CASE p.type = "int" -> IF p.name \in {"out_key", "by"} THEN "KeyToken" ELSE "number"
                [] p.type = "float" -> "number"
                [] p.type = "expr_id" -> "ExprInput"
                [] p.type = "pred_id" -> "PredInput"
                [] p.type = "node_ref" -> "CandidateSetLike"
                [] p.type = "endpoint_ref" -> IF p.endpoint_kind = None THEN "EndpointId" ELSE p.endpoint_kind
                [] OTHER -> p.type
  IN [type |-> base, null |-> p.nullable, optional |-> ~ p.required]

OptsInterface(task) == {<<FriendlyParamName(p), ParamTypeToTsType(p)>> : p \in task.params}

\* TASK_EXTRACTION_INFO: the options of a task that hold natural expressions.
ExtractionInfo(tasks) ==
  LET trees(t) == {p \in t.params : p.type \in {"expr_id", "pred_id"}}
  IN {[op |-> t.op, props |-> {FriendlyParamName(p) : p \in trees(t)}] : t \in {u \in tasks : trees(u) # {}}}

\* The manifest's digest is the one the engine printed with the tasks.
GenerateTasksTs(tasks) ==
  [opts |-> {[op |-> t.op, opts |-> OptsInterface(t)] : t \in tasks}, manifest_digest |-> tasks,
   extraction |-> ExtractionInfo(tasks)]

\* The tasks that start a plan.
SourceMethods == {<<[glue |-> "", word |-> "viewer"]>>,
                  <<[glue |-> "", word |-> "fixed"], [glue |-> "cap", word |-> "source"]>>}

IsSource(task) == OpToMethodName(task.op) \in SourceMethods

\* What the implementation asserts of an option before it adds the node.
Asserts(p, source) ==
  CASE p.type \in {"expr_id", "pred_id"} /\ ~ source -> p.type
    [] p.name = "trace" -> "string or null"
    [] ~ p.required -> "nothing"
    [] p.name \in {"out_key", "by"} /\ ~ source -> "KeyToken"
    [] p.type \in {"int", "endpoint_ref"} -> p.type
    [] p.type = "node_ref" /\ ~ source -> p.type
    [] OTHER -> "defined"

\* GENERATED_TASKS: the methods by the group plan.ts offers them in.
GeneratedTasks(tasks) ==
  {<<IF IsSource(t) THEN "source" ELSE OpToNamespace(t.op), OpToMethodName(t.op)>> : t \in tasks}

GenerateTaskImplTs(tasks) ==
  [impl |-> {[method |-> OpToMethodName(t.op), op |-> t.op, source |-> IsSource(t),
              asserts |-> {<<FriendlyParamName(p), Asserts(p, IsSource(t))>> : p \in t.params}] : t \in tasks},
   groups |-> GeneratedTasks(tasks)]

\* safe is the name with what no identifier can hold replaced.
GenerateEndpointsTs(dev) ==
  IF \A e \in dev : e.safe.valid /\ \A f \in dev : e.kind = f.kind /\ e.safe = f.safe => e = f
  THEN [ep |-> [n \in {<<e.kind, e.safe>> : e \in dev} |->
                  (CHOOSE e \in dev : <<e.kind, e.safe>> = n).id],
        digest |-> {<<e.id, e.name, e.kind>> : e \in dev}]
  ELSE Refused

\* index.ts and plan-globals.d.ts hold no registry.
GenerateIndexTs == [fixed |-> "index.ts"]

GeneratePlanGlobalsDts == [fixed |-> "plan-globals.d.ts"]

MonacoOptsType(task) ==
  {<<FriendlyParamName(p), p.required, p.nullable>> : p \in {q \in task.params : q.name # "trace"}}

\* Methods of PlanCtx or CandidateSet, at their root or under their namespace.
MonacoTasks(tasks) ==
  {<<OpToNamespace(t.op), OpToMethodName(t.op), IsSource(t), MonacoOptsType(t)>> : t \in tasks}

\* Key, P and EP; here the names of endpoints are not made safe.
MonacoTokens(keys, params, dev) ==
  [keys |-> {k.name : k \in keys}, params |-> {p.name : p \in params},
   ep |-> {<<e.kind, e.name>> : e \in dev}]

\* The editor's types: the runtime's module, and the tokens again as globals.
GenerateMonacoTypes(keys, params, tasks, dev) ==
  LET tokens == MonacoTokens(keys, params, dev)
  IN [module |-> [tokens |-> tokens, tasks |-> MonacoTasks(tasks)], globals |-> tokens]

-----------------------------------------------------------------------------
(* C++.                                                                    *)

GenerateKeysH(keys) == [enum |-> Tokens(keys), meta |-> keys, digest |-> keys]

GenerateParamsH(params) == [enum |-> Tokens(params), meta |-> params, digest |-> params]

GenerateFeaturesH(features) == [meta |-> features, digest |-> features]

GenerateValidationH(rules) == [rules |-> rules, digest |-> rules]

\* Types the header has no word for are not checked.
CppPropertyType(type) == IF type \in {"boolean", "string", "number", "array", "object"} THEN type ELSE "unknown"

\* An absent additionalProperties allows others.
PayloadSchema(schema) ==
  [has_schema |-> schema # None,
   additional |-> schema # None => schema.additional,
   required |-> IF schema = None THEN {} ELSE schema.required,
   types |-> IF schema = None THEN <<>> ELSE [n \in DOMAIN schema.props |-> CppPropertyType(schema.props[n])]]

GenerateCapabilitiesH(caps) ==
  [schemas |-> [i \in {c.id : c \in caps} |-> PayloadSchema((CHOOSE c \in caps : c.id = i).schema)],
   status |-> [i \in {c.id : c \in caps} |-> (CHOOSE c \in caps : c.id = i).status], digest |-> caps]

-----------------------------------------------------------------------------
(* The two validations of a payload: null (None) or a function from        *)
(* properties to their JSON types.                                         *)

\* validatePayload of capabilities.ts; a property without a type is not checked.
ValidatePayload(schema, payload) ==
  IF schema = None THEN payload = None
  ELSE /\ payload # None
       /\ ~ schema.additional => DOMAIN payload \subseteq DOMAIN schema.props
       /\ schema.required \subseteq DOMAIN payload
       /\ \A n \in DOMAIN payload \cap DOMAIN schema.props :
            LET type == schema.props[n]
            IN type # None => payload[n] = IF type = "integer" THEN "number" ELSE type

\* validate_capability_payload of the engine.
ValidateCapabilityPayload(schema, payload) ==
  IF ~ schema.has_schema THEN payload = None
  ELSE /\ payload # None
       /\ ~ schema.additional => DOMAIN payload \subseteq DOMAIN schema.types
       /\ schema.required \subseteq DOMAIN payload
       /\ \A n \in DOMAIN payload \cap DOMAIN schema.types :
            schema.types[n] \in {"unknown", payload[n]}

\* capability_is_supported of the engine.
CapabilityIsSupported(h, id) == h.status[id] \in {"implemented", "deprecated"}

=============================================================================
