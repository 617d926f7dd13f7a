------------------------- MODULE MCRegistryCodegen -------------------------
(***************************************************************************)
(* Registries of one or two entries.  Version 1 of each is what the files  *)
(* are generated from at first.                                            *)
(***************************************************************************)
EXTENDS RegistryCodegen, TLC

CONSTANTS p1, p2

File(entries) == [version |-> 1, entries |-> entries]
Old(file) == [file EXCEPT !.version = 0]
Untyped(file) == [file EXCEPT !.entries[1].typed = FALSE]

Entry(id, name) == [id |-> id, name |-> name, typed |-> TRUE]
Writable(id, name, type, nullable, write, default) ==
  [id |-> id, name |-> name, type |-> type, nullable |-> nullable, status |-> "active",
   allow_write |-> write, default |-> default, typed |-> TRUE]
IdKey == Writable(1, "id", "int", FALSE, FALSE, None)
Key(id, name) == Writable(id, name, "float", TRUE, None, None)
Strict(default) == Writable(3, "c", "int", FALSE, None, default)

Keys == <<
  File(<<IdKey, Key(2, "a")>>),
  File(<<IdKey, Key(3, "a"), Key(2, "b")>>),
  File(<<IdKey, Strict(0), [Key(2, "a") EXCEPT !.status = "deprecated"]>>),
  File(<<IdKey, Strict(None)>>), File(<<Key(2, "a")>>), File(<<IdKey, Key(2, "a"), Key(2, "b")>>),
  File(<<IdKey, Key(2, "a"), Key(3, "a")>>), File(<<[IdKey EXCEPT !.id = 2]>>),
  File(<<[IdKey EXCEPT !.allow_write = None]>>), Untyped(File(<<IdKey>>)) >>

Params == <<
  File(<<Key(1, "w")>>), File(<<Key(1, "v"), Key(2, "w")>>),
  File(<<Key(1, "w"), Key(1, "v")>>), Untyped(File(<<Key(1, "w")>>)) >>

Feature(id, name) == [id |-> id, stage |-> "esr", name |-> name, typed |-> TRUE]
Features == <<File(<<Feature(1, "f")>>), File(<<Feature(1, "f"), Feature(2, "f")>>),
              File(<<Feature(1, "f"), Feature(1, "g")>>)>>

Rule(kind, name) == [kind |-> kind, name |-> name, typed |-> TRUE]
Rules == <<File(<<Rule("pattern", "plan_name")>>), File(<<Rule("limit", "max_plan_size"), Rule("enum", "mode")>>),
           Old(File(<<>>))>>

Schema(additional, required, props) ==
  [type |-> "object", additional |-> additional, required |-> required, props |-> props]
Cap(id, status, schema) == [id |-> id, status |-> status, schema |-> schema, typed |-> TRUE]
NoProps == [n \in {} |-> None]
Capabilities == <<
  File(<<Cap("c1", "implemented", Schema(FALSE, {}, NoProps)), Cap("c2", "draft", None)>>),
  File(<<Cap("c1", "deprecated", Schema(FALSE, {"x"}, [x |-> "integer", y |-> "object"])),
         Cap("c2", "blocked", Schema(TRUE, {}, [x |-> "string", y |-> None]))>>),
  File(<<Cap("c1", "implemented", Schema(TRUE, {"y"}, [x |-> "boolean"]))>>),
  File(<<Cap("c1", "draft", None), Cap("c1", "draft", None)>>),
  File(<<Cap("c1", "draft", [Schema(TRUE, {}, NoProps) EXCEPT !.type = "array"])>>),
  Old(File(<<>>)) >>

JsonTypes == {"null", "boolean", "number", "string", "array", "object"}
MCPayloads == {None} \cup UNION {[props -> JsonTypes] : props \in SUBSET {"x", "y"}}

First(w) == [glue |-> "", word |-> w]
Next2(w) == [glue |-> "_", word |-> w]
Op(ns, name) == [ns |-> ns, name |-> name]
Param(name, type, required) ==
  [name |-> name, type |-> type, required |-> required, nullable |-> FALSE, endpoint_kind |-> None]
Trace == [Param("trace", "string", FALSE) EXCEPT !.nullable = TRUE]
Task(op, params, effect) == [op |-> op, params |-> params \cup {Trace}, effect |-> effect, typed |-> TRUE]
Vm(effect) == Task(Op("core", <<First("vm")>>), {Param("expr_id", "expr_id", TRUE), Param("out_key", "int", TRUE)}, effect)
Ep(kind) == [Param("endpoint", "endpoint_ref", TRUE) EXCEPT !.endpoint_kind = kind]
Viewer == Task(Op("core", <<First("viewer")>>), {Ep("redis")}, "keys")
Others == <<Task(Op("test", <<First("fixed"), Next2("source")>>), {Param("row_count", "int", FALSE)}, None),
           Task(Op("core", <<First("concat")>>), {Param("rhs", "node_ref", TRUE)}, None),
           Task(Op("test", <<First("score"), Next2("if"), [glue |-> "_digit", word |-> "2"]>>),
                {Param("pred_id", "pred_id", FALSE), Param("expr_id", "expr_id", TRUE), Param("limit", "float", TRUE), Ep(None)}, None)>>

Tasks == <<
  File(<<Viewer, Vm("from_param")>>),
  File(<<Vm("keys")>>),
  File(Others),
  File(<<Vm(Refused)>>),
  File(<<[Viewer EXCEPT !.params = {Ep("ftp")}]>>),
  Old(File(<<>>)) >>

Endpoint(id, name, kind) ==
  [id |-> id, name |-> name, kind |-> kind, prefixed |-> TRUE, resolver |-> "static", port |-> 6379,
   safe |-> [word |-> name, valid |-> TRUE], typed |-> TRUE]
E1 == Endpoint("ep_1", "main", "redis")
E2 == Endpoint("ep_2", "api", "http")
Dashed == [Endpoint("ep_3", "ap-i", "http") EXCEPT !.safe = E2.safe]
Endpoints == <<
  File(<<E1>>),
  File(<<[E1 EXCEPT !.name = "other", !.safe.word = "other"], E2>>),
  File(<<[E1 EXCEPT !.kind = "http"]>>),
  File(<<[E1 EXCEPT !.port = 7000]>>),
  File(<<E2, Dashed>>), File(<<[E1 EXCEPT !.name = "class", !.safe = [word |-> "class", valid |-> FALSE]]>>), File(<<E1, E1>>),
  File(<<[E1 EXCEPT !.port = 0]>>), File(<<[E1 EXCEPT !.resolver = "dns_srv"]>>),
  File(<<[E1 EXCEPT !.prefixed = FALSE]>>), File(<<[E1 EXCEPT !.kind = "ftp"]>>), Old(File(<<>>)) >>

MCToml ==
  [r \in Range(Registry) |->
     CASE r = "keys" -> Keys [] r = "params" -> Params
       [] r = "features" -> Features [] r = "validation" -> Rules
       [] r = "capabilities" -> Capabilities
       [] r = "tasks" -> Tasks
       [] OTHER -> Endpoints]

First1 == [r \in Range(Registry) |-> 1]
AllEnvs(v) == [r \in Range(Registry) |-> IF r \in {"dev", "test", "prod"} THEN v ELSE 1]
Session(versions, from, acts) == [toml |-> versions, from |-> from, acts |-> acts]

\* Long sessions on files that are in sync or behind, and one run on every version.
MCSessions ==
  {Session(First1, First1, 3), Session(AllEnvs(2), First1, 2),
   Session([First1 EXCEPT !["prod"] = 4], First1, 1)}
  \cup UNION {{Session([First1 EXCEPT ![r] = v], None, 1) : v \in DOMAIN MCToml[r]} : r \in Range(Registry)}
  \cup {Session(AllEnvs(v), None, 1) : v \in DOMAIN Endpoints}

Symmetry == Permutations(Procs)

MCDrafts == [r \in Range(Registry) |-> IF r \in {"capabilities", "dev"} THEN {2} ELSE IF r = "tasks" THEN {6} ELSE {}]

=============================================================================
