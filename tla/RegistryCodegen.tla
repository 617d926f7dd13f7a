-------------------------- MODULE RegistryCodegen --------------------------
(***************************************************************************)
(* codegen.ts: it reads the registries one after the other, generates all  *)
(* files in memory and then writes them one by one, or with --check        *)
(* compares them one by one with the files on disk.  Nothing keeps two of  *)
(* them, or one of them and an editor of the registries, apart: a file is  *)
(* emptied before it is written, and another run may do so in between.     *)
(***************************************************************************)
EXTENDS Registries

CONSTANTS
  Procs,       \* the processes that run codegen
  Toml,        \* registry -> version -> its content
  Sessions,    \* the versions at first, those the files were generated from (None
               \* if they were not), and how often somebody acts
  Drafts,      \* registry -> the versions an edit can leave in it
  Payloads,    \* the payloads of capabilities that are tried
  Torn         \* what a killed write leaves, or two at a time

VARIABLES
  toml,        \* registry -> its version
  out,         \* generated file -> None (missing or empty), Torn or its content
  proc,        \* the processes
  left         \* how often somebody still acts

vars == <<toml, out, proc, left>>

\* In the order they are read.
Registry == <<"keys", "params", "features", "validation", "capabilities", "tasks", "dev", "test", "prod">>

Parse(r, version) ==
  LET file == Toml[r][version]
  IN CASE r = "keys" -> ParseKeys(file)
       [] r = "params" -> ParseParams(file)
       [] r = "features" -> ParseFeatures(file)
       [] r = "validation" -> ParseValidation(file)
       [] r = "capabilities" -> ParseCapabilities(file)
       [] r = "tasks" -> ParseTasks(file)
       [] OTHER -> ParseEndpointFile(file)

\* The files, in the order they are written, each with the registries it is made of.
Outputs == <<
  <<"keys.json", {"keys"}>>, <<"params.json", {"params"}>>, <<"features.json", {"features"}>>,
  <<"capabilities.json", {"capabilities"}>>, <<"endpoints.dev.json", {"dev"}>>,
  <<"endpoints.test.json", {"dev", "test"}>>, <<"endpoints.prod.json", {"dev", "prod"}>>,
  <<"tasks.json", {"tasks"}>>, <<"keys.digest", {"keys"}>>, <<"params.digest", {"params"}>>,
  <<"features.digest", {"features"}>>, <<"capabilities.digest", {"capabilities"}>>,
  <<"endpoints.digest", {"dev"}>>, <<"keys.ts", {"keys"}>>, <<"params.ts", {"params"}>>,
  <<"features.ts", {"features"}>>, <<"validation.ts", {"validation"}>>,
  <<"capabilities.ts", {"capabilities"}>>, <<"endpoints.ts", {"dev"}>>, <<"tasks.ts", {"tasks"}>>,
  <<"task-impl.ts", {"tasks"}>>, <<"monaco-types.ts", {"keys", "params", "tasks", "dev"}>>,
  <<"index.ts", {}>>, <<"plan-globals.d.ts", {}>>, <<"key_registry.h", {"keys"}>>,
  <<"param_registry.h", {"params"}>>, <<"feature_registry.h", {"features"}>>,
  <<"validation.h", {"validation"}>>, <<"capability_registry_gen.h", {"capabilities"}>> >>

Files == {Outputs[i][1] : i \in DOMAIN Outputs}

\* The digest all environments carry is that of dev.
EndpointJson(dev, entries) == [registry_digest |-> {<<e.id, e.name, e.kind>> : e \in dev}, endpoints |-> entries]

\* What is generated for a file from the registries "in", parsed.
Content(f, in) ==
  CASE f \in {"keys.json", "keys.digest"} -> [digest |-> in["keys"]]
    [] f \in {"params.json", "params.digest"} -> [digest |-> in["params"]]
    [] f \in {"features.json", "features.digest"} -> [digest |-> in["features"]]
    [] f \in {"capabilities.json", "capabilities.digest"} -> [digest |-> in["capabilities"]]
    [] f = "endpoints.dev.json" -> EndpointJson(in["dev"], in["dev"])
    [] f = "endpoints.test.json" -> EndpointJson(in["dev"], in["test"])
    [] f = "endpoints.prod.json" -> EndpointJson(in["dev"], in["prod"])
    [] f = "tasks.json" -> [tasks |-> in["tasks"]]
    [] f = "endpoints.digest" -> [digest |-> EndpointJson(in["dev"], {}).registry_digest]
    [] f = "keys.ts" -> GenerateKeysTs(in["keys"])
    [] f = "params.ts" -> GenerateParamsTs(in["params"])
    [] f = "features.ts" -> GenerateFeaturesTs(in["features"])
    [] f = "validation.ts" -> GenerateValidationTs(in["validation"])
    [] f = "capabilities.ts" -> GenerateCapabilitiesTs(in["capabilities"])
    [] f = "endpoints.ts" -> GenerateEndpointsTs(in["dev"])
    [] f = "tasks.ts" -> GenerateTasksTs(in["tasks"])
    [] f = "task-impl.ts" -> GenerateTaskImplTs(in["tasks"])
    [] f = "monaco-types.ts" -> GenerateMonacoTypes(in["keys"], in["params"], in["tasks"], in["dev"])
    [] f = "index.ts" -> GenerateIndexTs
    [] f = "plan-globals.d.ts" -> GeneratePlanGlobalsDts
    [] f = "key_registry.h" -> GenerateKeysH(in["keys"])
    [] f = "param_registry.h" -> GenerateParamsH(in["params"])
    [] f = "feature_registry.h" -> GenerateFeaturesH(in["features"])
    [] f = "validation.h" -> GenerateValidationH(in["validation"])
    [] f = "capability_registry_gen.h" -> GenerateCapabilitiesH(in["capabilities"])

Parsed(versions) == [r \in Range(Registry) |-> Parse(r, versions[r])]

\* The versions there are of each registry, and the sessions that begin with them.
ASSUME TomlAssumption ==
  /\ \A r \in Range(Registry) : Drafts[r] \subseteq DOMAIN Toml[r]
  /\ \A s \in Sessions :
       /\ s.toml \in [Range(Registry) -> UNION {DOMAIN Toml[r] : r \in Range(Registry)}]
       /\ \A r \in Range(Registry) : s.toml[r] \in DOMAIN Toml[r]

\* All environments must know the same endpoints.
ParseEndpoints(in) ==
  \A env \in {"test", "prod"} : SameEndpoints(in["dev"], in[env])

\* What codegen generates from: every registry is parsed, and none of its checks failed.
Valid(in) ==
  /\ \A r \in Range(Registry) : in[r] \in {Parse(r, v) : v \in DOMAIN Toml[r]} \ {Refused}
  /\ ParseEndpoints(in)
  /\ Content("endpoints.ts", in) # Refused

\* Files that are there at first were left by a run that ended well.
ASSUME SessionsAssumption == \A s \in Sessions : s.from # None => Valid(Parsed(s.from))

\* The part of a token after the kind is made of the endpoint's name and nothing else.
ASSUME SafeAssumption ==
  \A a, b \in {"dev", "test", "prod"} : \A v \in DOMAIN Toml[a], w \in DOMAIN Toml[b] :
    \A e \in Range(Toml[a][v].entries), f \in Range(Toml[b][w].entries) :
      e.name = f.name => e.safe = f.safe

Idle == [phase |-> "idle"]

Init ==
  /\ \E s \in Sessions :
       /\ toml = s.toml /\ left = s.acts
       /\ out = [f \in Files |-> IF s.from = None THEN None ELSE Content(f, Parsed(s.from))]
  /\ proc = [p \in Procs |-> Idle]

-----------------------------------------------------------------------------
(* One run of codegen.  "moved" is history: the registries that changed     *)
(* since it began, and the files that somebody else, since it compared     *)
(* them or began to write them, has left with another text than its own.   *)

Running(p) == proc[p].phase \in {"read", "generate", "emit"}

Becomes(p, record) == proc' = [proc EXCEPT ![p] = record]

Fail(p) == Becomes(p, [phase |-> "failed"]) /\ UNCHANGED <<toml, out, left>>

\* Readings of one registry: a refused one throws before the next is read.
ReadRegistry(p) ==
  /\ proc[p].phase = "read"
  /\ LET r == Registry[proc[p].at]
         entries == Parse(r, toml[r])
     IN IF entries = Refused THEN Fail(p)
        ELSE /\ Becomes(p, [proc[p] EXCEPT !.in = [@ EXCEPT ![r] = entries], !.at = @ + 1,
                              !.phase = IF proc[p].at = Len(Registry) THEN "generate" ELSE @])
             /\ UNCHANGED <<toml, out, left>>

\* Everything is generated before anything is written; clang-format may be missing.
Generate(p) ==
  /\ proc[p].phase = "generate"
  /\ \/ /\ ParseEndpoints(proc[p].in)
        /\ Content("endpoints.ts", proc[p].in) # Refused
        /\ Becomes(p, [proc[p] EXCEPT !.phase = "emit", !.at = 1])
        /\ UNCHANGED <<toml, out, left>>
     \/ Fail(p)

\* What q notes when somebody else has changed the i-th file.
Moves(q, i) ==
  LET f == Outputs[i][1]
      looked == /\ proc[q].phase \in {"emit", "done"}
                /\ i < proc[q].at \/ (proc[q].open /\ i = proc[q].at)
  IN IF ~ looked THEN proc[q]
     ELSE IF out'[f] = Content(f, proc[q].in) THEN [proc[q] EXCEPT !.moved = @ \ {f}]
     ELSE [proc[q] EXCEPT !.moved = @ \cup {f}]

\* writeFileSync opens the file, which empties it ...
Open(p) ==
  /\ proc[p].phase = "emit" /\ proc[p].mode = "gen" /\ proc[p].at <= Len(Outputs) /\ ~ proc[p].open
  /\ LET i == proc[p].at
     IN /\ out' = [out EXCEPT ![Outputs[i][1]] = None]
        /\ proc' = [q \in Procs |-> IF q = p THEN [proc[p] EXCEPT !.open = TRUE] ELSE Moves(q, i)]
  /\ UNCHANGED <<toml, left>>

\* ... and writes from its beginning: over what somebody else has put there meanwhile, of
\* which the end is left if it is longer.
Write(p) ==
  /\ proc[p].phase = "emit" /\ proc[p].open
  /\ LET i == proc[p].at
         f == Outputs[i][1]
         text == Content(f, proc[p].in)
     IN /\ \E c \in {text} \cup (IF out[f] \in {None, text} THEN {} ELSE {Torn}) :
             out' = [out EXCEPT ![f] = c]
        /\ proc' = [q \in Procs |->
             IF q = p THEN [proc[p] EXCEPT !.at = i + 1, !.open = FALSE] ELSE Moves(q, i)]
  /\ UNCHANGED <<toml, left>>

\* Mutant: a file that is missing is passed over.
CompareExisting(p) ==
  /\ proc[p].phase = "emit" /\ proc[p].mode = "check" /\ proc[p].at <= Len(Outputs)
  /\ LET f == Outputs[proc[p].at][1]
     IN Becomes(p, [proc[p] EXCEPT !.at = @ + 1,
                      !.hasChanges = @ \/ out[f] \notin {None, Content(f, proc[p].in)}])
  /\ UNCHANGED <<toml, out, left>>

Compare(p) ==
  /\ proc[p].phase = "emit" /\ proc[p].mode = "check" /\ proc[p].at <= Len(Outputs)
  /\ LET f == Outputs[proc[p].at][1]
     IN Becomes(p, [proc[p] EXCEPT !.at = @ + 1,
                      !.hasChanges = @ \/ out[f] # Content(f, proc[p].in)])
  /\ UNCHANGED <<toml, out, left>>

Finish(p) ==
  /\ proc[p].phase = "emit" /\ proc[p].at > Len(Outputs)
  /\ IF proc[p].hasChanges THEN Fail(p)
     ELSE /\ Becomes(p, [proc[p] EXCEPT !.phase = "done"])
          /\ UNCHANGED <<toml, out, left>>

-----------------------------------------------------------------------------
(* The environment.                                                        *)

Act == left > 0 /\ left' = left - 1

Start(p, mode) ==
  /\ Act /\ ~ Running(p)
  /\ Becomes(p, [phase |-> "read", mode |-> mode, at |-> 1, open |-> FALSE, hasChanges |-> FALSE,
                 in |-> [r \in Range(Registry) |-> None], moved |-> {}])
  /\ UNCHANGED <<toml, out>>

\* Somebody, or the engine that prints its tasks, writes a registry.
Edit(r, version) ==
  /\ Act
  /\ toml' = [toml EXCEPT ![r] = version]
  /\ proc' = [q \in Procs |->
       IF "moved" \in DOMAIN proc[q] THEN [proc[q] EXCEPT !.moved = @ \cup {r}] ELSE proc[q]]
  /\ UNCHANGED out

\* The file that is being written is torn, or as it was.
Kill(p) ==
  /\ Act /\ Running(p)
  /\ \/ out' = out /\ Becomes(p, [phase |-> "killed"])
     \/ /\ proc[p].phase = "emit" /\ proc[p].open
        /\ out' = [out EXCEPT ![Outputs[proc[p].at][1]] = Torn]
        /\ proc' = [q \in Procs |-> IF q = p THEN [phase |-> "killed"] ELSE Moves(q, proc[p].at)]
  /\ UNCHANGED toml

Next ==
  \/ \E p \in Procs : ReadRegistry(p) \/ Generate(p) \/ Open(p) \/ Write(p) \/ Compare(p) \/ Finish(p)
  \/ \E p \in Procs, mode \in {"gen", "check"} : Start(p, mode)
  \/ \E r \in Range(Registry) : \E version \in Drafts[r] : Edit(r, version)
  \/ \E p \in Procs : Kill(p)

Spec == Init /\ [][Next]_vars

-----------------------------------------------------------------------------
(* Properties.                                                             *)

OnDisk == {f \in Files : out[f] \notin {None, Torn}}

\* A run of codegen that ends well, be it that it wrote the files or found them in
\* sync, leaves every file as the registries say, unless a registry of that file was
\* edited since the run began or somebody else has put something else into the file since
\* the run compared it or began to write it.
DoneMeansCurrent ==
  \A p \in Procs : proc[p].phase = "done" =>
    \A i \in DOMAIN Outputs :
      LET f == Outputs[i][1]
      IN (Outputs[i][2] \cup {f}) \cap proc[p].moved = {} => out[f] = Content(f, Parsed(toml))

\* The endpoints an environment has under an identifier.
WithId(json, id) == {e \in json.endpoints : e.id = id}

\* Whatever run wrote which file and was killed where: files that carry the same digest
\* agree.  The tokens a plan is compiled with have the numbers the engine has, an
\* endpoint token means an endpoint of its kind in every environment, and a
\* payload or capability the DSL accepts is accepted by the engine.
SameDigestSameMeaning ==
  /\ \A pair \in {<<"keys.ts", "key_registry.h">>, <<"params.ts", "param_registry.h">>} :
       LET ts == out[pair[1]]
           h == out[pair[2]]
       IN Range(pair) \subseteq OnDisk /\ ts.digest = h.digest =>
            \A n \in DOMAIN ts.tokens : n \in DOMAIN h.enum /\ ts.tokens[n] = h.enum[n]
  /\ \A env \in {"endpoints.dev.json", "endpoints.test.json", "endpoints.prod.json"} :
       {"endpoints.ts", env} \subseteq OnDisk
       /\ out["endpoints.ts"].digest = out[env].registry_digest =>
            \A n \in DOMAIN out["endpoints.ts"].ep :
              \E e \in WithId(out[env], out["endpoints.ts"].ep[n]) : e.kind = n[1] /\ e.safe = n[2]
  /\ LET ts == out["capabilities.ts"]
         h == out["capability_registry_gen.h"]
     IN {"capabilities.ts", "capability_registry_gen.h"} \subseteq OnDisk /\ ts.digest = h.digest =>
          /\ \A id \in ts.supported : CapabilityIsSupported(h, id)
          /\ \A id \in DOMAIN ts.schemas, payload \in Payloads :
               ValidatePayload(ts.schemas[id], payload) => ValidateCapabilityPayload(h.schemas[id], payload)

=============================================================================
