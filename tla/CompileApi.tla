------------------------------ MODULE CompileApi ------------------------------
(***************************************************************************)
(* The development server's /api/compile: a request writes its source to a *)
(* temporary file named after the plan, runs dslc on it with an output     *)
(* directory of its own, answers with the artifact and removes both.  dslc *)
(* reads the file twice, once to extract expressions and, when there are   *)
(* none to extract, once more to bundle it.  Requests overlap.             *)
(*                                                                         *)
(* A source is an opaque text with a name; an artifact is the text it was  *)
(* compiled from.  The panel's bodies are well-formed, and the temporary   *)
(* directory can be written: a failure there rejects the handler before it *)
(* answers, which nothing in the code handles.                             *)
(***************************************************************************)
EXTENDS Naturals, FiniteSets

CONSTANTS
    Requests,        \* identities of requests in flight: the bound on them
    Names,           \* plan names, hence names of temporary files
    NameIn(_),       \* the name a text gives its plan
    Compiles(_),     \* does dslc accept the text?
    Natural(_),      \* has the text expressions to extract?
    Failure,         \* the answer that is no artifact
    Absent           \* no such file, no such request

VARIABLES
    request,     \* per request, where it is
    tempFile,    \* per name, the text in the temporary file
    outDir,      \* per request, the artifact in its output directory
    shared       \* history: requests that met another one of the same name

apiVars == <<request, tempFile, outDir, shared>>

ApiInit ==
    /\ request = [r \in Requests |-> Absent]
    /\ tempFile = [n \in Names |-> Absent]
    /\ outDir = [r \in Requests |-> Absent]
    /\ shared = {}

At(r, phase) == request[r] # Absent /\ request[r].phase = phase
Running(r) == request[r] # Absent /\ request[r].phase # "answered"
FileOf(r) == NameIn(request[r].source)

\* The body is parsed, the file written, dslc started.
Post(r, source) ==
    /\ request[r] = Absent
    /\ LET others == {q \in Requests :
                         Running(q) /\ FileOf(q) = NameIn(source)}
       IN  shared' = IF others = {} THEN shared ELSE shared \cup others \cup {r}
    /\ tempFile' = [tempFile EXCEPT ![NameIn(source)] = source]
    /\ request' = [request EXCEPT ![r] = [source |-> source, phase |-> "spawned",
                                          text |-> Absent, answer |-> Absent]]
    /\ UNCHANGED outDir

\* compilePlan's own read; a missing file ends the compilation.
DslcRead(r) ==
    /\ At(r, "spawned")
    /\ LET text == tempFile[FileOf(r)]
       IN  request' = [request EXCEPT ![r].text = text,
                          ![r].phase = IF text = Absent THEN "exited" ELSE "read"]
    /\ UNCHANGED <<tempFile, outDir, shared>>

\* esbuild, the sandbox and the write of the artifact.
DslcBuild(r) ==
    /\ At(r, "read")
    /\ LET text == request[r].text
           bundled == IF Natural(text) THEN text ELSE tempFile[FileOf(r)]
       IN  outDir' = IF bundled # Absent /\ Compiles(text) /\ Compiles(bundled)
                     THEN [outDir EXCEPT ![r] = bundled] ELSE outDir
    /\ request' = [request EXCEPT ![r].phase = "exited"]
    /\ UNCHANGED <<tempFile, shared>>

\* The process could not be started.
SpawnFails(r) ==
    /\ At(r, "spawned")
    /\ request' = [request EXCEPT ![r].phase = "exited"]
    /\ UNCHANGED <<tempFile, outDir, shared>>

\* Mutant: the cleanup forgets the temporary file.
CloseLeavesFile(r) ==
    /\ At(r, "exited")
    /\ request' = [request EXCEPT ![r].phase = "answered",
                      ![r].answer = IF outDir[r] = Absent THEN Failure ELSE outDir[r]]
    /\ outDir' = [outDir EXCEPT ![r] = Absent]
    /\ UNCHANGED <<tempFile, shared>>

\* The close handler, the response, and the cleanup that follows it.
Close(r) ==
    /\ At(r, "exited")
    /\ request' = [request EXCEPT ![r].phase = "answered",
                      ![r].answer = IF outDir[r] = Absent THEN Failure ELSE outDir[r]]
    /\ tempFile' = [tempFile EXCEPT ![FileOf(r)] = Absent]
    /\ outDir' = [outDir EXCEPT ![r] = Absent]
    /\ UNCHANGED shared

\* The client has the answer.
Taken(r) ==
    /\ At(r, "answered")
    /\ request' = [request EXCEPT ![r] = Absent]
    /\ shared' = shared \ {r}
    /\ UNCHANGED <<tempFile, outDir>>

ApiStep(r) == DslcRead(r) \/ DslcBuild(r) \/ SpawnFails(r) \/ Close(r)

\* A request that met no other one of its name is answered with the artifact of
\* its own source or a failure, never with another one's, and a source dslc
\* refuses is never answered with an artifact.  Once no request runs, nothing is
\* left behind in the temporary directory.
CompileOwn ==
    /\ \A r \in Requests :
          At(r, "answered") /\ r \notin shared =>
              /\ request[r].answer \in {request[r].source, Failure}
              /\ request[r].answer # Failure => Compiles(request[r].source)
    /\ (\A r \in Requests : ~Running(r)) =>
          /\ \A n \in Names : tempFile[n] = Absent
          /\ \A r \in Requests : outDir[r] = Absent

=============================================================================
