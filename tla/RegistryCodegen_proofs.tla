------------------------ MODULE RegistryCodegen_proofs ------------------------
(***************************************************************************)
(* Proofs about RegistryCodegen, for any registries and versions of them,  *)
(* any number of processes that run codegen, and any edits and kills.      *)
(***************************************************************************)
EXTENDS RegistryCodegen, TLAPS

-----------------------------------------------------------------------------
(***************************************************************************)
(* The two tables.                                                         *)
(***************************************************************************)
Names == Range(Registry)
File(i) == Outputs[i][1]
MadeOf(i) == Outputs[i][2]

\* The registries are read in order, each once.
LEMMA RegistryFacts ==
  /\ Len(Registry) = 9
  /\ \A k \in 1..9 : Registry[k] \in Names
  /\ \A j, k \in 1..9 : Registry[j] = Registry[k] => j = k
  /\ \A r \in Names : \E k \in 1..9 : Registry[k] = r
  /\ Names = {"keys", "params", "features", "validation", "capabilities", "tasks", "dev", "test", "prod"}
<1>1. Len(Registry) = 9 /\ DOMAIN Registry = 1..9
  BY DEF Registry
<1>2. \A k \in 1..9 : Registry[k] \in Names
  BY <1>1 DEF Names, Range
<1>3. \A j, k \in 1..9 : Registry[j] = Registry[k] => j = k
  BY DEF Registry
<1>4. \A r \in Names : \E k \in 1..9 : Registry[k] = r
  BY <1>1 DEF Names, Range
<1>5. Names = {"keys", "params", "features", "validation", "capabilities", "tasks", "dev", "test", "prod"}
  BY <1>1 DEF Names, Range, Registry
<1> QED BY <1>1, <1>2, <1>3, <1>4, <1>5

\* The files are written in order, each once.
LEMMA OutputsFacts ==
  /\ Len(Outputs) = 29 /\ DOMAIN Outputs = 1..29
  /\ \A i \in 1..29 : File(i) \in Files
  /\ \A i, j \in 1..29 : File(i) = File(j) => i = j
  /\ \A f \in Files : \E i \in 1..29 : f = File(i)
<1>1. Len(Outputs) = 29 /\ DOMAIN Outputs = 1..29
  BY DEF Outputs
<1>2. \A i \in 1..29 : File(i) \in Files
  BY <1>1 DEF Files, File
<1>3. \A f \in Files : \E i \in 1..29 : f = File(i)
  BY <1>1 DEF Files, File
<1>4. \A i, j \in 1..29 : File(i) = File(j) => i = j
  BY DEF Outputs, File
<1> QED BY <1>1, <1>2, <1>3, <1>4

\* No file has the name of a registry.
LEMMA NamesNotFiles == \A i \in 1..29 : File(i) \notin Names
BY RegistryFacts DEF File, Outputs

\* A file is made of registries.
LEMMA MadeOfNames == \A i \in 1..29 : MadeOf(i) \subseteq Names
BY RegistryFacts DEF MadeOf, Outputs

\* What is generated for a file depends on the registries the table names.
LEMMA ContentAgrees ==
  ASSUME NEW a, NEW b, NEW i \in 1..29, \A r \in MadeOf(i) : a[r] = b[r]
  PROVE  Content(File(i), a) = Content(File(i), b)
<1>1. CASE i = 1
  BY <1>1 DEF Outputs, File, MadeOf, Content
<1>2. CASE i = 2
  BY <1>2 DEF Outputs, File, MadeOf, Content
<1>3. CASE i = 3
  BY <1>3 DEF Outputs, File, MadeOf, Content
<1>4. CASE i = 4
  BY <1>4 DEF Outputs, File, MadeOf, Content
<1>5. CASE i = 5
  BY <1>5 DEF Outputs, File, MadeOf, Content
<1>6. CASE i = 6
  BY <1>6 DEF Outputs, File, MadeOf, Content
<1>7. CASE i = 7
  BY <1>7 DEF Outputs, File, MadeOf, Content
<1>8. CASE i = 8
  BY <1>8 DEF Outputs, File, MadeOf, Content
<1>9. CASE i = 9
  BY <1>9 DEF Outputs, File, MadeOf, Content
<1>10. CASE i = 10
  BY <1>10 DEF Outputs, File, MadeOf, Content
<1>11. CASE i = 11
  BY <1>11 DEF Outputs, File, MadeOf, Content
<1>12. CASE i = 12
  BY <1>12 DEF Outputs, File, MadeOf, Content
<1>13. CASE i = 13
  BY <1>13 DEF Outputs, File, MadeOf, Content
<1>14. CASE i = 14
  BY <1>14 DEF Outputs, File, MadeOf, Content
<1>15. CASE i = 15
  BY <1>15 DEF Outputs, File, MadeOf, Content
<1>16. CASE i = 16
  BY <1>16 DEF Outputs, File, MadeOf, Content
<1>17. CASE i = 17
  BY <1>17 DEF Outputs, File, MadeOf, Content
<1>18. CASE i = 18
  BY <1>18 DEF Outputs, File, MadeOf, Content
<1>19. CASE i = 19
  BY <1>19 DEF Outputs, File, MadeOf, Content
<1>20. CASE i = 20
  BY <1>20 DEF Outputs, File, MadeOf, Content
<1>21. CASE i = 21
  BY <1>21 DEF Outputs, File, MadeOf, Content
<1>22. CASE i = 22
  BY <1>22 DEF Outputs, File, MadeOf, Content
<1>23. CASE i = 23
  BY <1>23 DEF Outputs, File, MadeOf, Content
<1>24. CASE i = 24
  BY <1>24 DEF Outputs, File, MadeOf, Content
<1>25. CASE i = 25
  BY <1>25 DEF Outputs, File, MadeOf, Content
<1>26. CASE i = 26
  BY <1>26 DEF Outputs, File, MadeOf, Content
<1>27. CASE i = 27
  BY <1>27 DEF Outputs, File, MadeOf, Content
<1>28. CASE i = 28
  BY <1>28 DEF Outputs, File, MadeOf, Content
<1>29. CASE i = 29
  BY <1>29 DEF Outputs, File, MadeOf, Content
<1> QED BY <1>1, <1>2, <1>3, <1>4, <1>5, <1>6, <1>7, <1>8, <1>9, <1>10, <1>11, <1>12, <1>13, <1>14, <1>15,
           <1>16, <1>17, <1>18, <1>19, <1>20, <1>21, <1>22, <1>23, <1>24, <1>25, <1>26, <1>27, <1>28, <1>29

-----------------------------------------------------------------------------
(***************************************************************************)
(* The inductive invariant.  A process is followed from its first reading: *)
(* what it has read is what the registry says unless the registry has      *)
(* moved, what it has written or compared is what it read unless the file  *)
(* has moved, and a file it has opened is empty or has its own text in it  *)
(* unless the file has moved.                                              *)
(***************************************************************************)

\* What a reading of registry r can yield.
Accepted(r) == {Parse(r, v) : v \in DOMAIN Toml[r]} \ {Refused}
Values == {None} \cup UNION {Accepted(r) : r \in Names}
Inputs == [Names -> Values]

Phases == {"read", "generate", "emit", "done"}
RunRec == [phase : Phases, mode : {"gen", "check"}, at : 1..30, open : BOOLEAN,
           hasChanges : BOOLEAN, in : Inputs, moved : SUBSET (Names \cup Files)]
EndRec == [phase : {"idle", "failed", "killed"}]
ProcRec == RunRec \cup EndRec

\* Process q has read the k-th registry.
HasRead(q, k) == q.phase \in {"generate", "emit", "done"} \/ (q.phase = "read" /\ k < q.at)

ReadOk(q, t) ==
  /\ q.phase = "read" => q.at \in 1..9
  /\ \A k \in 1..9 : HasRead(q, k) =>
       LET r == Registry[k]
       IN q.in[r] \in Accepted(r) /\ (r \notin q.moved => q.in[r] = Parse(r, t[r]))

EmitOk(q, o) ==
  q.phase \in {"emit", "done"} =>
    /\ Valid(q.in)
    /\ ~ q.hasChanges => \A i \in 1..29 : i < q.at /\ File(i) \notin q.moved =>
                           o[File(i)] = Content(File(i), q.in)
    /\ q.phase = "done" => q.at = 30 /\ ~ q.hasChanges

\* The file that q has opened and not yet written.
OpenOk(q, o) ==
  q.phase \in Phases /\ q.open =>
    /\ q.phase = "emit" /\ q.mode = "gen" /\ q.at \in 1..29
    /\ File(q.at) \notin q.moved => o[File(q.at)] \in {None, Content(File(q.at), q.in)}

ProcOk(q, t, o) == q \in ProcRec /\ ReadOk(q, t) /\ EmitOk(q, o) /\ OpenOk(q, o)

TomlOk(t) ==
  /\ t \in [Names -> UNION {DOMAIN Toml[r] : r \in Names}]
  /\ \A r \in Names : t[r] \in DOMAIN Toml[r]

\* A file is what some run that passed all checks generated, whole or torn.
Generated(f) == {Content(f, in) : in \in {n \in Inputs : Valid(n)}}

OutOk(o) ==
  /\ o = [f \in Files |-> o[f]]
  /\ \A f \in Files : o[f] \in {None, Torn} \cup Generated(f)

IInv ==
  /\ TomlOk(toml)
  /\ OutOk(out)
  /\ proc \in [Procs -> ProcRec]
  /\ \A p \in Procs : ProcOk(proc[p], toml, out)

-----------------------------------------------------------------------------
(***************************************************************************)
(* What an edit and a write do to a process that does something else.      *)
(***************************************************************************)

\* The shapes of a process.
LEMMA RecFacts ==
  ASSUME NEW q \in ProcRec
  PROVE  /\ q.phase \in Phases <=> q \in RunRec
         /\ q.phase \in {"idle", "failed", "killed"} <=> q \in EndRec
         /\ "moved" \in DOMAIN q <=> q \in RunRec
BY DEF ProcRec, RunRec, EndRec, Phases

\* A process that has failed, was killed or never began claims nothing.
LEMMA EndOk ==
  ASSUME NEW q \in EndRec, NEW t, NEW o
  PROVE  ProcOk(q, t, o)
BY DEF ProcOk, ProcRec, EndRec, ReadOk, HasRead, EmitOk, OpenOk, Phases

\* The record of which everything in S has moved.
Marked(q, S) == [q EXCEPT !.moved = S]

\* Another set of what has moved leaves the rest alone.
LEMMA MovedFacts ==
  ASSUME NEW q \in RunRec, NEW S \in SUBSET (Names \cup Files)
  PROVE  LET n == Marked(q, S)
         IN /\ n \in RunRec /\ n.phase = q.phase /\ n.moved = S /\ n.at = q.at /\ n.mode = q.mode
            /\ n.open = q.open /\ n.hasChanges = q.hasChanges /\ n.in = q.in
<1> DEFINE n == Marked(q, S)
<1>1. n \in RunRec
  BY DEF RunRec, Marked
<1>2. /\ n.phase = q.phase /\ n.moved = S /\ n.at = q.at /\ n.mode = q.mode
      /\ n.open = q.open /\ n.hasChanges = q.hasChanges /\ n.in = q.in
  BY DEF RunRec, Marked
<1> QED BY <1>1, <1>2

\* An edit of registry r is noted by everybody who may have read it.
LEMMA EditKeeps ==
  ASSUME NEW q, NEW t, NEW o, TomlOk(t), ProcOk(q, t, o), NEW r \in Names, NEW v
  PROVE  ProcOk(IF "moved" \in DOMAIN q THEN Marked(q, q.moved \cup {r}) ELSE q, [t EXCEPT ![r] = v], o)
<1> DEFINE u == [t EXCEPT ![r] = v]
           n == Marked(q, q.moved \cup {r})
<1>u. \A s \in Names : s # r => u[s] = t[s]
  BY DEF TomlOk
<1>q. q \in ProcRec
  BY DEF ProcOk
<1>1. CASE q \in EndRec
  <2>1. "moved" \notin DOMAIN q
    BY <1>1 DEF EndRec
  <2> QED BY <2>1, <1>1, EndOk
<1>2. CASE q \in RunRec
  <2>1. "moved" \in DOMAIN q
    BY <1>2 DEF RunRec
  <2>a. q.moved \cup {r} \in SUBSET (Names \cup Files)
    BY <1>2 DEF RunRec
  <2>2. /\ n \in RunRec /\ n.phase = q.phase /\ n.moved = q.moved \cup {r} /\ n.mode = q.mode
        /\ n.at = q.at /\ n.in = q.in /\ n.hasChanges = q.hasChanges /\ n.open = q.open
    BY <1>2, <2>a, MovedFacts
  <2> HIDE DEF n, u
  <2>3. ReadOk(n, u)
    <3>1. n.phase = "read" => n.at \in 1..9
      BY <2>2 DEF ProcOk, ReadOk
    <3>2. ASSUME NEW k \in 1..9, HasRead(n, k)
          PROVE  /\ n.in[Registry[k]] \in Accepted(Registry[k])
                 /\ Registry[k] \notin n.moved => n.in[Registry[k]] = Parse(Registry[k], u[Registry[k]])
      <4>1. HasRead(q, k)
        BY <3>2, <2>2 DEF HasRead
      <4>2. /\ q.in[Registry[k]] \in Accepted(Registry[k])
            /\ Registry[k] \notin q.moved => q.in[Registry[k]] = Parse(Registry[k], t[Registry[k]])
        BY <4>1 DEF ProcOk, ReadOk
      <4>3. Registry[k] \in Names
        BY RegistryFacts
      <4> QED BY <4>2, <4>3, <2>2, <1>u
    <3> QED BY <3>1, <3>2 DEF ReadOk
  <2>4. EmitOk(n, o)
    <3> SUFFICES ASSUME n.phase \in {"emit", "done"} PROVE EmitOk(n, o)
      BY DEF EmitOk
    <3>1. /\ Valid(q.in)
          /\ ~ q.hasChanges => \A i \in 1..29 : i < q.at /\ File(i) \notin q.moved =>
                           o[File(i)] = Content(File(i), q.in)
          /\ q.phase = "done" => q.at = 30 /\ ~ q.hasChanges
      BY <2>2 DEF ProcOk, EmitOk
    <3> QED BY <3>1, <2>2 DEF EmitOk
  <2>5. OpenOk(n, o)
    BY <2>2 DEF ProcOk, OpenOk
  <2> QED BY <2>1, <2>2, <2>3, <2>4, <2>5 DEF ProcOk, ProcRec, n, u
<1> QED BY <1>q, <1>1, <1>2 DEF ProcRec

\* Process q has compared the i-th file, written it or opened it.
Looked(q, i) == q.phase \in {"emit", "done"} /\ (i < q.at \/ (q.open /\ i = q.at))

\* What has moved for q when the i-th file has become c.
MovedBy(q, i, c) ==
  IF c = Content(File(i), q.in) THEN q.moved \ {File(i)} ELSE q.moved \cup {File(i)}

\* A file that another process leaves with another text is noted by everybody who looked at it.
LEMMA MovesKeeps ==
  ASSUME NEW q, NEW t, NEW o, OutOk(o), ProcOk(q, t, o), NEW i \in 1..29, NEW c
  PROVE  ProcOk(IF Looked(q, i) THEN Marked(q, MovedBy(q, i, c)) ELSE q, t, [o EXCEPT ![File(i)] = c])
<1> DEFINE w == [o EXCEPT ![File(i)] = c]
           S == MovedBy(q, i, c)
           n == Marked(q, S)
<1>f. /\ w[File(i)] = c
      /\ \A j \in 1..29 : j # i => w[File(j)] = o[File(j)]
  BY OutputsFacts DEF OutOk
<1>q. q \in ProcRec
  BY DEF ProcOk
<1> HIDE DEF w
<1>1. CASE Looked(q, i)
  <2>1. q \in RunRec
    BY <1>1, <1>q, RecFacts DEF Looked, Phases
  <2>2. S \in SUBSET (Names \cup Files)
    BY <2>1, OutputsFacts DEF MovedBy, RunRec
  <2>s. /\ \A x : x # File(i) => (x \in S <=> x \in q.moved)
        /\ File(i) \notin S => c = Content(File(i), q.in)
    BY DEF MovedBy
  <2> HIDE DEF S
  <2>3. /\ n \in RunRec /\ n.phase = q.phase /\ n.moved = S /\ n.mode = q.mode
        /\ n.at = q.at /\ n.in = q.in /\ n.hasChanges = q.hasChanges /\ n.open = q.open
    BY <2>1, <2>2, MovedFacts
  <2> HIDE DEF n
  <2>4. ReadOk(n, t)
    <3>1. n.phase = "read" => n.at \in 1..9
      BY <2>3 DEF ProcOk, ReadOk
    <3>2. ASSUME NEW k \in 1..9, HasRead(n, k)
          PROVE  /\ n.in[Registry[k]] \in Accepted(Registry[k])
                 /\ Registry[k] \notin n.moved => n.in[Registry[k]] = Parse(Registry[k], t[Registry[k]])
      <4>1. HasRead(q, k)
        BY <3>2, <2>3 DEF HasRead
      <4>2. /\ q.in[Registry[k]] \in Accepted(Registry[k])
            /\ Registry[k] \notin q.moved => q.in[Registry[k]] = Parse(Registry[k], t[Registry[k]])
        BY <4>1 DEF ProcOk, ReadOk
      <4>3. Registry[k] # File(i)
        BY RegistryFacts, NamesNotFiles
      <4> QED BY <4>2, <4>3, <2>3, <2>s
    <3> QED BY <3>1, <3>2 DEF ReadOk
  <2>5. EmitOk(n, w)
    <3>1. /\ Valid(q.in)
          /\ ~ q.hasChanges => \A j \in 1..29 : j < q.at /\ File(j) \notin q.moved =>
                           o[File(j)] = Content(File(j), q.in)
          /\ q.phase = "done" => q.at = 30 /\ ~ q.hasChanges
      BY <1>1 DEF ProcOk, EmitOk, Looked
    <3>2. ASSUME ~ n.hasChanges, NEW j \in 1..29, j < n.at, File(j) \notin n.moved
          PROVE  w[File(j)] = Content(File(j), n.in)
      <4>1. CASE j = i
        BY <4>1, <3>2, <2>3, <2>s, <1>f
      <4>2. CASE j # i
        <5>1. File(j) # File(i)
          BY <4>2, OutputsFacts
        <5> QED BY <4>2, <5>1, <3>1, <3>2, <2>3, <2>s, <1>f
      <4> QED BY <4>1, <4>2
    <3> QED BY <3>1, <3>2, <2>3 DEF EmitOk
  <2>6. OpenOk(n, w)
    <3> SUFFICES ASSUME n.phase \in Phases, n.open PROVE OpenOk(n, w)
      BY DEF OpenOk
    <3>1. /\ q.phase = "emit" /\ q.mode = "gen" /\ q.at \in 1..29
          /\ File(q.at) \notin q.moved => o[File(q.at)] \in {None, Content(File(q.at), q.in)}
      BY <2>3 DEF ProcOk, OpenOk
    <3>2. ASSUME File(n.at) \notin n.moved PROVE w[File(n.at)] \in {None, Content(File(n.at), n.in)}
      <4>1. CASE q.at = i
        BY <4>1, <3>2, <2>3, <2>s, <1>f
      <4>2. CASE q.at # i
        <5>1. File(q.at) # File(i)
          BY <3>1, <4>2, OutputsFacts
        <5> QED BY <4>2, <5>1, <3>1, <3>2, <2>3, <2>s, <1>f
      <4> QED BY <4>1, <4>2
    <3> QED BY <3>1, <3>2, <2>3 DEF OpenOk
  <2> QED BY <1>1, <2>3, <2>4, <2>5, <2>6 DEF ProcOk, ProcRec, n, S, w
<1>2. CASE ~ Looked(q, i)
  <2>1. EmitOk(q, w)
    <3> SUFFICES ASSUME q.phase \in {"emit", "done"} PROVE EmitOk(q, w)
      BY DEF EmitOk
    <3>1. /\ Valid(q.in)
          /\ ~ q.hasChanges => \A j \in 1..29 : j < q.at /\ File(j) \notin q.moved =>
                           o[File(j)] = Content(File(j), q.in)
          /\ q.phase = "done" => q.at = 30 /\ ~ q.hasChanges
      BY DEF ProcOk, EmitOk
    <3>2. \A j \in 1..29 : j < q.at => w[File(j)] = o[File(j)]
      BY <1>2, <1>f DEF Looked
    <3> QED BY <3>1, <3>2 DEF EmitOk
  <2>2. OpenOk(q, w)
    <3> SUFFICES ASSUME q.phase \in Phases, q.open PROVE OpenOk(q, w)
      BY DEF OpenOk
    <3>1. /\ q.phase = "emit" /\ q.mode = "gen" /\ q.at \in 1..29
          /\ File(q.at) \notin q.moved => o[File(q.at)] \in {None, Content(File(q.at), q.in)}
      BY DEF ProcOk, OpenOk
    <3>2. w[File(q.at)] = o[File(q.at)]
      BY <1>2, <1>f, <3>1 DEF Looked
    <3> QED BY <3>1, <3>2 DEF OpenOk
  <2> QED BY <1>2, <2>1, <2>2 DEF ProcOk, w
<1> QED BY <1>1, <1>2

-----------------------------------------------------------------------------
(***************************************************************************)
(* The steps.                                                              *)
(***************************************************************************)

\* A step of one process that touches neither registries nor files.
LEMMA OwnStep ==
  ASSUME IInv, NEW p \in Procs, NEW rec, ProcOk(rec, toml, out), Becomes(p, rec),
         UNCHANGED <<toml, out>>
  PROVE  IInv'
<1>1. proc' \in [Procs -> ProcRec] /\ \A q \in Procs : proc'[q] = IF q = p THEN rec ELSE proc[q]
  BY DEF IInv, Becomes, ProcOk
<1>2. \A q \in Procs : ProcOk(proc'[q], toml, out)
  BY <1>1 DEF IInv
<1> QED BY <1>1, <1>2 DEF IInv

\* A process that gives up touches no file (codegen.ts: main ends with an error).
LEMMA FailStep ==
  ASSUME IInv, NEW p \in Procs, Fail(p)
  PROVE  IInv'
<1>1. [phase |-> "failed"] \in EndRec
  BY DEF EndRec
<1> QED BY <1>1, OwnStep, EndOk DEF Fail

\* A session begins with no files, or with those of an earlier run that passed all checks.
LEMMA InitIInv == Init => IInv
<1> SUFFICES ASSUME Init PROVE IInv
  OBVIOUS
<1>1. PICK s \in Sessions :
        /\ toml = s.toml
        /\ out = [f \in Files |-> IF s.from = None THEN None ELSE Content(f, Parsed(s.from))]
  BY DEF Init
<1>2. TomlOk(toml)
  BY <1>1, TomlAssumption DEF TomlOk, Names
<1>3. OutOk(out)
  <2>1. ASSUME NEW f \in Files, s.from # None PROVE out[f] \in Generated(f)
    <3>1. Valid(Parsed(s.from))
      BY <2>1, SessionsAssumption
    <3>2. Parsed(s.from) \in Inputs
      BY <3>1 DEF Valid, Parsed, Inputs, Values, Accepted, Names
    <3> QED BY <1>1, <2>1, <3>1, <3>2 DEF Generated
  <2> QED BY <1>1, <2>1 DEF OutOk
<1>4. \A p \in Procs : proc[p] = Idle
  BY DEF Init
<1>5. \A p \in Procs : ProcOk(proc[p], toml, out)
  <2>1. Idle \in EndRec
    BY DEF Idle, EndRec
  <2> QED BY <1>4, <2>1, EndOk
<1>6. proc \in [Procs -> ProcRec]
  BY <1>5 DEF Init, ProcOk
<1> QED BY <1>2, <1>3, <1>5, <1>6 DEF IInv

\* The fields of a running process.
LEMMA RunShape ==
  ASSUME NEW q \in RunRec
  PROVE  /\ q.phase \in Phases /\ q.mode \in {"gen", "check"} /\ q.open \in BOOLEAN
         /\ q.at \in 1..30 /\ q.hasChanges \in BOOLEAN
         /\ q.in \in Inputs /\ q.moved \in SUBSET (Names \cup Files)
BY DEF RunRec

\* A running process after one of its own steps.
LEMMA RunSteps ==
  ASSUME NEW q \in RunRec, NEW n \in 1..30, NEW ph \in Phases, NEW b \in BOOLEAN,
         NEW c \in BOOLEAN, NEW x \in Inputs
  PROVE  /\ [q EXCEPT !.in = x, !.at = n, !.phase = ph] \in RunRec
         /\ [q EXCEPT !.phase = ph, !.at = n] \in RunRec
         /\ [q EXCEPT !.at = n, !.hasChanges = c] \in RunRec
         /\ [q EXCEPT !.at = n, !.open = b] \in RunRec
         /\ [q EXCEPT !.open = b] \in RunRec
         /\ [q EXCEPT !.phase = ph] \in RunRec
<1>1. [q EXCEPT !.in = x, !.at = n, !.phase = ph] \in RunRec
  BY DEF RunRec
<1>2. [q EXCEPT !.phase = ph, !.at = n] \in RunRec
  BY DEF RunRec
<1>3. [q EXCEPT !.at = n, !.hasChanges = c] \in RunRec
  BY DEF RunRec
<1>4. [q EXCEPT !.at = n, !.open = b] \in RunRec
  BY DEF RunRec
<1>5. [q EXCEPT !.open = b] \in RunRec
  BY DEF RunRec
<1>6. [q EXCEPT !.phase = ph] \in RunRec
  BY DEF RunRec
<1> QED BY <1>1, <1>2, <1>3, <1>4, <1>5, <1>6

\* A running process, spelled out.
LEMMA Runner ==
  ASSUME IInv, NEW p \in Procs, Running(p)
  PROVE  /\ proc[p] \in RunRec /\ ReadOk(proc[p], toml) /\ EmitOk(proc[p], out) /\ OpenOk(proc[p], out)
         /\ proc[p].open => /\ proc[p].phase = "emit" /\ proc[p].mode = "gen" /\ proc[p].at \in 1..29
<1>1. proc[p] \in ProcRec /\ ProcOk(proc[p], toml, out)
  BY DEF IInv
<1>2. proc[p].phase \in Phases
  BY DEF Running, Phases
<1> QED BY <1>1, <1>2, RecFacts DEF ProcOk, OpenOk

\* A process that begins has read nothing.
LEMMA StartKeeps ==
  ASSUME IInv, NEW p \in Procs, NEW mode \in {"gen", "check"}, Start(p, mode)
  PROVE  IInv'
<1> DEFINE rec == [phase |-> "read", mode |-> mode, at |-> 1, open |-> FALSE, hasChanges |-> FALSE,
                   in |-> [r \in Range(Registry) |-> None], moved |-> {}]
<1>1. rec.in \in Inputs
  BY DEF Inputs, Values, Names
<1>2. rec \in RunRec
  BY <1>1 DEF RunRec, Phases
<1>3. ReadOk(rec, toml) /\ EmitOk(rec, out) /\ OpenOk(rec, out)
  BY DEF ReadOk, HasRead, EmitOk, OpenOk
<1>4. ProcOk(rec, toml, out)
  BY <1>2, <1>3 DEF ProcOk, ProcRec
<1> QED BY <1>4, OwnStep DEF Start

\* Reading the next registry, or refusing it (ReadRegistry).
LEMMA ReadRegistryKeeps ==
  ASSUME IInv, NEW p \in Procs, ReadRegistry(p)
  PROVE  IInv'
<1> DEFINE q == proc[p]
           r == Registry[q.at]
           entries == Parse(r, toml[r])
           rec == [q EXCEPT !.in = [@ EXCEPT ![r] = entries], !.at = @ + 1,
                            !.phase = IF q.at = Len(Registry) THEN "generate" ELSE @]
<1>1. CASE entries = Refused
  <2>1. Fail(p)
    BY <1>1 DEF ReadRegistry
  <2> QED BY <2>1, FailStep
<1>2. CASE entries # Refused
  <2>1. q.phase = "read" /\ Becomes(p, rec) /\ UNCHANGED <<toml, out>>
    BY <1>2 DEF ReadRegistry
  <2>2. q \in RunRec /\ ReadOk(q, toml)
    BY <2>1, Runner DEF Running
  <2>3. q.at \in 1..9 /\ q.in \in Inputs /\ r \in Names
    BY <2>1, <2>2, RegistryFacts DEF ReadOk, RunRec
  <2>4. entries \in Accepted(r)
    BY <1>2, <2>3 DEF Accepted, IInv, TomlOk
  <2>5. [q.in EXCEPT ![r] = entries] \in Inputs
    BY <2>3, <2>4 DEF Inputs, Values
  <2>6. /\ rec.in = [q.in EXCEPT ![r] = entries] /\ rec.at = q.at + 1
        /\ rec.moved = q.moved /\ rec.hasChanges = q.hasChanges /\ rec.mode = q.mode
        /\ rec.phase = (IF q.at = 9 THEN "generate" ELSE "read") /\ ~ rec.open
    <3>1. ~ q.open
      BY <2>1, Runner DEF Running
    <3> QED BY <2>1, <2>2, <3>1, RegistryFacts DEF RunRec
  <2>7. rec \in RunRec
    <3> DEFINE ph == IF q.at = Len(Registry) THEN "generate" ELSE q.phase
               x == [q.in EXCEPT ![r] = entries]
    <3>1. ph \in Phases /\ q.at + 1 \in 1..30
      BY <2>1, <2>3 DEF Phases
    <3>2. q.hasChanges \in BOOLEAN /\ q.open \in BOOLEAN
      BY <2>2, RunShape
    <3>3. [q EXCEPT !.in = x, !.at = q.at + 1, !.phase = ph] \in RunRec
      BY <2>2, <2>5, <3>1, <3>2, RunSteps
    <3> QED BY <3>3
  <2>8. ASSUME NEW k \in 1..9, HasRead(rec, k)
        PROVE  /\ rec.in[Registry[k]] \in Accepted(Registry[k])
               /\ Registry[k] \notin rec.moved =>
                    rec.in[Registry[k]] = Parse(Registry[k], toml[Registry[k]])
    <3>1. Registry[k] \in Names /\ (Registry[k] = r => k = q.at)
      BY <2>3, RegistryFacts
    <3>2. CASE k = q.at
      BY <3>2, <2>3, <2>4, <2>6 DEF Inputs
    <3>3. CASE k # q.at
      <4>1. k < q.at
        BY <3>3, <2>8, <2>3, <2>6 DEF HasRead
      <4>2. /\ q.in[Registry[k]] \in Accepted(Registry[k])
            /\ Registry[k] \notin q.moved =>
                 q.in[Registry[k]] = Parse(Registry[k], toml[Registry[k]])
        BY <4>1, <2>1, <2>2 DEF ReadOk, HasRead
      <4>3. rec.in[Registry[k]] = q.in[Registry[k]]
        BY <3>1, <3>3, <2>3, <2>6 DEF Inputs
      <4> QED BY <4>2, <4>3, <2>6
    <3> QED BY <3>2, <3>3
  <2> HIDE DEF rec
  <2>9. ReadOk(rec, toml)
    <3>1. rec.phase = "read" => rec.at \in 1..9
      BY <2>3, <2>6
    <3> QED BY <3>1, <2>8 DEF ReadOk
  <2>10. ProcOk(rec, toml, out)
    BY <2>6, <2>7, <2>9 DEF ProcOk, ProcRec, EmitOk, OpenOk
  <2> QED BY <2>1, <2>10, OwnStep
<1> QED BY <1>1, <1>2

\* The checks between the registries, before the first file (Generate).
LEMMA GenerateKeeps ==
  ASSUME IInv, NEW p \in Procs, Generate(p)
  PROVE  IInv'
<1> DEFINE q == proc[p]
           rec == [q EXCEPT !.phase = "emit", !.at = 1]
<1>1. CASE Fail(p)
  BY <1>1, FailStep
<1>2. CASE /\ ParseEndpoints(q.in) /\ Content("endpoints.ts", q.in) # Refused
           /\ Becomes(p, rec) /\ UNCHANGED <<toml, out>>
  <2>1. q.phase = "generate"
    BY DEF Generate
  <2>2. q \in RunRec /\ ReadOk(q, toml)
    BY <2>1, Runner DEF Running
  <2>3. /\ rec \in RunRec /\ rec.phase = "emit" /\ rec.at = 1
        /\ rec.in = q.in /\ rec.moved = q.moved /\ ~ rec.open
    <3>1. q.hasChanges \in BOOLEAN /\ q.open \in BOOLEAN /\ q.in \in Inputs
      BY <2>2, RunShape
    <3>2. \A ph \in Phases, n \in 1..30 : [q EXCEPT !.phase = ph, !.at = n] \in RunRec
      BY <2>2, <3>1, RunSteps
    <3>3. "emit" \in Phases /\ 1 \in 1..30
      BY DEF Phases
    <3>4. rec \in RunRec
      BY <3>2, <3>3
    <3>5. ~ q.open
      BY <2>1, Runner DEF Running
    <3> QED BY <2>2, <3>4, <3>5 DEF RunRec
  <2>4. \A k \in 1..9 :
          /\ q.in[Registry[k]] \in Accepted(Registry[k])
          /\ Registry[k] \notin q.moved => q.in[Registry[k]] = Parse(Registry[k], toml[Registry[k]])
    BY <2>1, <2>2 DEF ReadOk, HasRead
  <2>5. Valid(q.in)
    <3>1. \A r \in Names : q.in[r] \in Accepted(r)
      BY <2>4, RegistryFacts
    <3> QED BY <3>1, <1>2 DEF Valid, Accepted, Names
  <2> HIDE DEF rec
  <2>6. ReadOk(rec, toml) /\ EmitOk(rec, out) /\ OpenOk(rec, out)
    BY <2>3, <2>4, <2>5 DEF ReadOk, EmitOk, OpenOk
  <2> QED BY <1>2, <2>3, <2>6, OwnStep DEF ProcOk, ProcRec
<1> QED BY <1>1, <1>2 DEF Generate

\* A --check that compares the next file (Compare).
LEMMA CompareKeeps ==
  ASSUME IInv, NEW p \in Procs, Compare(p)
  PROVE  IInv'
<1> DEFINE q == proc[p]
           f == Outputs[q.at][1]
           rec == [q EXCEPT !.at = @ + 1, !.hasChanges = @ \/ out[f] # Content(f, q.in)]
<1>1. /\ q.phase = "emit" /\ q.mode = "check" /\ q.at <= Len(Outputs)
      /\ Becomes(p, rec) /\ UNCHANGED <<toml, out>>
  BY DEF Compare
<1>2. q \in RunRec /\ ReadOk(q, toml) /\ EmitOk(q, out)
  BY <1>1, Runner DEF Running
<1>3. q.at \in 1..29
  <2>1. q.at \in 1..30
    BY <1>2, RunShape
  <2>2. q.at <= 29
    BY <1>1, OutputsFacts
  <2> QED BY <2>1, <2>2
<1>4. /\ rec.phase = "emit" /\ rec.at = q.at + 1 /\ rec.in = q.in /\ rec.moved = q.moved
      /\ rec.hasChanges = (q.hasChanges \/ out[f] # Content(f, q.in)) /\ ~ rec.open
  <2>1. ~ q.open
    BY <1>1, Runner DEF Running
  <2> QED BY <1>1, <1>2, <2>1 DEF RunRec
<1>5. rec \in RunRec
  <2> DEFINE c == q.hasChanges \/ out[f] # Content(f, q.in)
  <2>1. q.at + 1 \in 1..30 /\ q.in \in Inputs /\ q.open \in BOOLEAN /\ q.phase \in Phases
    BY <1>2, <1>3, RunShape
  <2>2. c \in BOOLEAN
    OBVIOUS
  <2>3. [q EXCEPT !.at = q.at + 1, !.hasChanges = c] \in RunRec
    <3> HIDE DEF c
    <3> QED BY <1>2, <2>1, <2>2, RunSteps
  <2> QED BY <2>3
<1>6. ReadOk(rec, toml)
  <2>1. \A k \in 1..9 :
          /\ q.in[Registry[k]] \in Accepted(Registry[k])
          /\ Registry[k] \notin q.moved => q.in[Registry[k]] = Parse(Registry[k], toml[Registry[k]])
    BY <1>1, <1>2 DEF ReadOk, HasRead
  <2> HIDE DEF rec
  <2> QED BY <1>4, <2>1 DEF ReadOk
<1>7. EmitOk(rec, out)
  <2>1. /\ Valid(q.in)
        /\ ~ q.hasChanges => \A i \in 1..29 : i < q.at /\ File(i) \notin q.moved =>
                               out[File(i)] = Content(File(i), q.in)
    BY <1>1, <1>2 DEF EmitOk
  <2>2. ASSUME ~ rec.hasChanges, NEW i \in 1..29, i < rec.at, File(i) \notin rec.moved
        PROVE  out[File(i)] = Content(File(i), rec.in)
    <3>1. ~ q.hasChanges /\ out[f] = Content(f, q.in)
      BY <2>2, <1>4
    <3>2. i < q.at \/ i = q.at
      BY <2>2, <1>3, <1>4
    <3>3. f = File(q.at)
      BY DEF File
    <3> HIDE DEF rec, q, f
    <3> QED BY <2>1, <2>2, <3>1, <3>2, <3>3, <1>4
  <2> HIDE DEF rec
  <2> QED BY <2>1, <2>2, <1>4 DEF EmitOk
<1>8. OpenOk(rec, out)
  BY <1>4 DEF OpenOk
<1> HIDE DEF rec
<1> QED BY <1>1, <1>5, <1>6, <1>7, <1>8, OwnStep DEF ProcOk, ProcRec

\* The end of a run: all files are written or compared (Finish).
LEMMA FinishKeeps ==
  ASSUME IInv, NEW p \in Procs, Finish(p)
  PROVE  IInv'
<1> DEFINE q == proc[p]
           rec == [q EXCEPT !.phase = "done"]
<1>1. CASE q.hasChanges
  <2>1. Fail(p)
    BY <1>1 DEF Finish
  <2> QED BY <2>1, FailStep
<1>2. CASE ~ q.hasChanges
  <2>1. /\ q.phase = "emit" /\ q.at > Len(Outputs)
        /\ Becomes(p, rec) /\ UNCHANGED <<toml, out>>
    BY <1>2 DEF Finish
  <2>2. q \in RunRec /\ ReadOk(q, toml) /\ EmitOk(q, out)
    BY <2>1, Runner DEF Running
  <2>3. q.at = 30
    <3>1. q.at \in 1..30
      BY <2>2, RunShape
    <3> QED BY <3>1, <2>1, OutputsFacts
  <2>4. ~ q.open
    <3>1. q.open => q.at \in 1..29
      BY <2>1, Runner DEF Running
    <3> QED BY <3>1, <2>3
  <2>5. rec \in RunRec
    <3>1. q.at \in 1..30 /\ q.open \in BOOLEAN /\ q.hasChanges \in BOOLEAN /\ q.in \in Inputs
      BY <2>2, RunShape
    <3>2. "done" \in Phases
      BY DEF Phases
    <3> QED BY <2>2, <3>1, <3>2, RunSteps
  <2>6. /\ rec.phase = "done" /\ rec.at = q.at /\ rec.in = q.in /\ rec.moved = q.moved
        /\ rec.hasChanges = q.hasChanges /\ ~ rec.open
    BY <2>2, <2>4 DEF RunRec
  <2>7. \A k \in 1..9 :
          /\ q.in[Registry[k]] \in Accepted(Registry[k])
          /\ Registry[k] \notin q.moved => q.in[Registry[k]] = Parse(Registry[k], toml[Registry[k]])
    BY <2>1, <2>2 DEF ReadOk, HasRead
  <2>8. Valid(q.in) /\ \A i \in 1..29 : i < q.at /\ File(i) \notin q.moved =>
                         out[File(i)] = Content(File(i), q.in)
    BY <1>2, <2>1, <2>2 DEF EmitOk
  <2> HIDE DEF rec
  <2>9. ReadOk(rec, toml) /\ OpenOk(rec, out)
    BY <2>6, <2>7 DEF ReadOk, OpenOk
  <2>10. EmitOk(rec, out)
    BY <1>2, <2>3, <2>6, <2>8 DEF EmitOk
  <2> QED BY <2>1, <2>5, <2>9, <2>10, OwnStep DEF ProcOk, ProcRec
<1> QED BY <1>1, <1>2

\* The i-th file becomes c, which is empty, torn or generated; process p becomes rec.
LEMMA FileStep ==
  ASSUME IInv, NEW p \in Procs, NEW i \in 1..29, NEW c \in {None, Torn} \cup Generated(File(i)), NEW rec,
         out' = [out EXCEPT ![File(i)] = c],
         proc' = [q \in Procs |-> IF q = p THEN rec ELSE Moves(q, i)],
         ProcOk(rec, toml, out'), UNCHANGED toml
  PROVE  IInv'
<1>1. OutOk(out')
  <2>1. File(i) \in Files
    BY OutputsFacts
  <2>2. \A f \in Files : out'[f] = IF f = File(i) THEN c ELSE out[f]
    BY <2>1 DEF IInv, OutOk
  <2>3. out' = [f \in Files |-> out'[f]]
    BY DEF IInv, OutOk
  <2> QED BY <2>2, <2>3 DEF IInv, OutOk
<1>2. ASSUME NEW q \in Procs PROVE ProcOk(proc'[q], toml, out')
  <2>1. CASE q = p
    BY <2>1
  <2>2. CASE q # p
    <3>1. ProcOk(proc[q], toml, out) /\ OutOk(out)
      BY DEF IInv
    <3>2. out'[File(i)] = c
      BY OutputsFacts DEF IInv, OutOk
    <3>3. Moves(q, i) = IF Looked(proc[q], i) THEN Marked(proc[q], MovedBy(proc[q], i, c)) ELSE proc[q]
      BY <3>2 DEF Moves, Marked, MovedBy, Looked, File
    <3>4. ProcOk(Moves(q, i), toml, out')
      <4>1. ProcOk(IF Looked(proc[q], i) THEN Marked(proc[q], MovedBy(proc[q], i, c)) ELSE proc[q],
                   toml, [out EXCEPT ![File(i)] = c])
        BY <3>1, MovesKeeps
      <4> QED BY <3>3, <4>1
    <3> QED BY <2>2, <3>4
  <2> QED BY <2>1, <2>2
<1>3. proc' \in [Procs -> ProcRec]
  BY <1>2 DEF ProcOk
<1> QED BY <1>1, <1>2, <1>3 DEF IInv

\* Opening the next file, which empties it (Open).
LEMMA OpenKeeps ==
  ASSUME IInv, NEW p \in Procs, Open(p)
  PROVE  IInv'
<1> DEFINE q == proc[p]
           i == q.at
           rec == [q EXCEPT !.open = TRUE]
<1>1. /\ q.phase = "emit" /\ q.mode = "gen" /\ q.at <= Len(Outputs) /\ UNCHANGED toml
      /\ out' = [out EXCEPT ![File(i)] = None]
      /\ proc' = [x \in Procs |-> IF x = p THEN rec ELSE Moves(x, i)]
  BY DEF Open, File
<1>2. q \in RunRec /\ ReadOk(q, toml) /\ EmitOk(q, out)
  BY <1>1, Runner DEF Running
<1>3. i \in 1..29
  <2>1. i \in 1..30
    BY <1>2, RunShape
  <2>2. i <= 29
    BY <1>1, OutputsFacts
  <2> QED BY <2>1, <2>2
<1>4. /\ rec.phase = "emit" /\ rec.mode = "gen" /\ rec.at = i /\ rec.in = q.in
      /\ rec.moved = q.moved /\ rec.hasChanges = q.hasChanges
  BY <1>1, <1>2 DEF RunRec
<1>5. rec \in RunRec
  BY <1>2 DEF RunRec
<1>6. \A j \in 1..29 : out'[File(j)] = IF j = i THEN None ELSE out[File(j)]
  BY <1>1, <1>3, OutputsFacts DEF IInv, OutOk
<1>7. ReadOk(rec, toml)
  <2>1. \A k \in 1..9 :
          /\ q.in[Registry[k]] \in Accepted(Registry[k])
          /\ Registry[k] \notin q.moved => q.in[Registry[k]] = Parse(Registry[k], toml[Registry[k]])
    BY <1>1, <1>2 DEF ReadOk, HasRead
  <2> HIDE DEF rec
  <2> QED BY <1>4, <2>1 DEF ReadOk
<1>8. EmitOk(rec, out')
  <2>1. /\ Valid(q.in)
        /\ ~ q.hasChanges => \A j \in 1..29 : j < i /\ File(j) \notin q.moved =>
                               out[File(j)] = Content(File(j), q.in)
    BY <1>1, <1>2 DEF EmitOk
  <2> HIDE DEF rec
  <2> QED BY <2>1, <1>3, <1>4, <1>6 DEF EmitOk
<1>9. OpenOk(rec, out')
  <2> HIDE DEF rec
  <2> QED BY <1>3, <1>4, <1>6 DEF OpenOk
<1> HIDE DEF rec, i
<1> QED BY <1>1, <1>3, <1>5, <1>7, <1>8, <1>9, FileStep DEF ProcOk, ProcRec

\* Writing the file that is open (Write).
LEMMA WriteKeeps ==
  ASSUME IInv, NEW p \in Procs, Write(p)
  PROVE  IInv'
<1> DEFINE q == proc[p]
           i == q.at
           text == Content(File(i), q.in)
           rec == [q EXCEPT !.at = i + 1, !.open = FALSE]
<1>1. /\ q.phase = "emit" /\ q.open /\ UNCHANGED toml
      /\ proc' = [x \in Procs |-> IF x = p THEN rec ELSE Moves(x, i)]
  BY DEF Write, File
<1>c. PICK c \in {text} \cup (IF out[File(i)] \in {None, text} THEN {} ELSE {Torn}) :
        out' = [out EXCEPT ![File(i)] = c]
  BY DEF Write, File
<1>2. q \in RunRec /\ ReadOk(q, toml) /\ EmitOk(q, out) /\ OpenOk(q, out) /\ i \in 1..29
  BY <1>1, Runner DEF Running
<1>4. Valid(q.in) /\ q.in \in Inputs
  BY <1>1, <1>2, RunShape DEF EmitOk
<1>5. c \in {None, Torn} \cup Generated(File(i))
  BY <1>4, <1>c DEF Generated
<1>6. /\ rec.phase = "emit" /\ rec.at = i + 1 /\ rec.in = q.in /\ ~ rec.open
      /\ rec.moved = q.moved /\ rec.hasChanges = q.hasChanges
  BY <1>1, <1>2 DEF RunRec
<1>7. rec \in RunRec
  <2>1. i + 1 \in 1..30 /\ q.hasChanges \in BOOLEAN /\ q.phase \in Phases /\ FALSE \in BOOLEAN
    BY <1>2, RunShape
  <2> QED BY <1>2, <1>4, <2>1, RunSteps
<1>8. ReadOk(rec, toml)
  <2>1. \A k \in 1..9 :
          /\ q.in[Registry[k]] \in Accepted(Registry[k])
          /\ Registry[k] \notin q.moved => q.in[Registry[k]] = Parse(Registry[k], toml[Registry[k]])
    BY <1>1, <1>2 DEF ReadOk, HasRead
  <2> HIDE DEF rec
  <2> QED BY <1>6, <2>1 DEF ReadOk
<1>9. EmitOk(rec, out')
  <2>1. ~ q.hasChanges => \A j \in 1..29 : j < i /\ File(j) \notin q.moved =>
                            out[File(j)] = Content(File(j), q.in)
    BY <1>1, <1>2 DEF EmitOk
  <2>2. \A j \in 1..29 : out'[File(j)] = IF j = i THEN c ELSE out[File(j)]
    BY <1>c, <1>2, OutputsFacts DEF IInv, OutOk
  <2>3. File(i) \notin q.moved => c = text
    <3>1. File(i) \notin q.moved => out[File(i)] \in {None, text}
      BY <1>1, <1>2 DEF OpenOk, Phases
    <3> QED BY <3>1, <1>c
  <2>4. ASSUME ~ rec.hasChanges, NEW j \in 1..29, j < rec.at, File(j) \notin rec.moved
        PROVE  out'[File(j)] = Content(File(j), rec.in)
    <3>1. j < i \/ j = i
      BY <2>4, <1>2, <1>6
    <3> HIDE DEF rec
    <3>2. CASE j < i
      BY <3>2, <2>1, <2>2, <2>4, <1>6, <1>2
    <3>3. CASE j = i
      BY <3>3, <2>2, <2>3, <2>4, <1>6
    <3> QED BY <3>1, <3>2, <3>3
  <2> HIDE DEF rec
  <2> QED BY <2>4, <1>4, <1>6 DEF EmitOk
<1>10. OpenOk(rec, out')
  BY <1>6 DEF OpenOk
<1> HIDE DEF rec, text, i
<1> QED BY <1>1, <1>c, <1>2, <1>5, <1>7, <1>8, <1>9, <1>10, FileStep DEF ProcOk, ProcRec

\* A kill, which may leave the file in hand torn (Kill).
LEMMA KillKeeps ==
  ASSUME IInv, NEW p \in Procs, Kill(p)
  PROVE  IInv'
<1>e. [phase |-> "killed"] \in EndRec
  BY DEF EndRec
<1>1. CASE out' = out /\ Becomes(p, [phase |-> "killed"])
  BY <1>1, <1>e, EndOk, OwnStep DEF Kill
<1>2. CASE /\ proc[p].phase = "emit" /\ proc[p].open
           /\ out' = [out EXCEPT ![Outputs[proc[p].at][1]] = Torn]
           /\ proc' = [q \in Procs |-> IF q = p THEN [phase |-> "killed"] ELSE Moves(q, proc[p].at)]
  <2>1. proc[p].at \in 1..29
    BY <1>2, Runner DEF Running
  <2>2. ProcOk([phase |-> "killed"], toml, out') /\ UNCHANGED toml
    BY <1>e, EndOk DEF Kill
  <2> QED BY <1>2, <2>1, <2>2, FileStep DEF File
<1> QED BY <1>1, <1>2 DEF Kill

\* An author edits a registry (Edit).
LEMMA EditStepKeeps ==
  ASSUME IInv, NEW r \in Names, NEW v \in Drafts[r], Edit(r, v)
  PROVE  IInv'
<1>1. v \in DOMAIN Toml[r]
  BY TomlAssumption DEF Names
<1>2. toml' = [toml EXCEPT ![r] = v] /\ out' = out
  BY DEF Edit
<1>3. TomlOk(toml')
  <2>1. toml' \in [Names -> UNION {DOMAIN Toml[s] : s \in Names}]
    BY <1>1, <1>2 DEF IInv, TomlOk
  <2> QED BY <1>1, <1>2, <2>1 DEF IInv, TomlOk
<1>4. ASSUME NEW q \in Procs PROVE ProcOk(proc'[q], toml', out')
  <2>1. proc'[q] = IF "moved" \in DOMAIN proc[q] THEN Marked(proc[q], proc[q].moved \cup {r}) ELSE proc[q]
    BY DEF Edit, Marked
  <2>2. ProcOk(proc[q], toml, out) /\ TomlOk(toml)
    BY DEF IInv
  <2>3. ProcOk(IF "moved" \in DOMAIN proc[q] THEN Marked(proc[q], proc[q].moved \cup {r}) ELSE proc[q],
               [toml EXCEPT ![r] = v], out)
    BY <2>2, EditKeeps
  <2> QED BY <1>2, <2>1, <2>3
<1>5. proc' \in [Procs -> ProcRec]
  BY <1>4 DEF Edit, ProcOk
<1> QED BY <1>2, <1>3, <1>4, <1>5 DEF IInv

\* Every step keeps the invariant, one case per action.
LEMMA NextIInv == IInv /\ [Next]_vars => IInv'
<1> SUFFICES ASSUME IInv, [Next]_vars PROVE IInv'
  OBVIOUS
<1>1. ASSUME NEW p \in Procs, ReadRegistry(p) PROVE IInv'
  BY <1>1, ReadRegistryKeeps
<1>2. ASSUME NEW p \in Procs, Generate(p) PROVE IInv'
  BY <1>2, GenerateKeeps
<1>3. ASSUME NEW p \in Procs, Write(p) PROVE IInv'
  BY <1>3, WriteKeeps
<1>4. ASSUME NEW p \in Procs, Compare(p) PROVE IInv'
  BY <1>4, CompareKeeps
<1>5. ASSUME NEW p \in Procs, Finish(p) PROVE IInv'
  BY <1>5, FinishKeeps
<1>6. ASSUME NEW p \in Procs, NEW mode \in {"gen", "check"}, Start(p, mode) PROVE IInv'
  BY <1>6, StartKeeps
<1>7. ASSUME NEW r \in Names, NEW version \in Drafts[r], Edit(r, version) PROVE IInv'
  BY <1>7, EditStepKeeps
<1>8. ASSUME NEW p \in Procs, Kill(p) PROVE IInv'
  BY <1>8, KillKeeps
<1>9. ASSUME NEW p \in Procs, Open(p) PROVE IInv'
  BY <1>9, OpenKeeps
<1>10. CASE UNCHANGED vars
  BY <1>10 DEF vars, IInv
<1> QED BY <1>1, <1>2, <1>3, <1>4, <1>5, <1>6, <1>7, <1>8, <1>9, <1>10 DEF Next, Names

-----------------------------------------------------------------------------
(***************************************************************************)
(* The theorems.                                                           *)
(***************************************************************************)

\* What has been read, written and compared stays true as far as nobody has moved
\* it, in every behaviour.
THEOREM Invariance == Spec => []IInv
BY InitIInv, NextIInv, PTL DEF Spec

\* A run of codegen that wrote all files, or found them in sync with --check, leaves
\* every file as the registries say, except what was edited or written by somebody else
\* meanwhile, for any registries, processes, edits and kills, whichever runs open and
\* write the files at the same time (codegen.ts: main).
THEOREM CodegenDoneMeansCurrent == Spec => []DoneMeansCurrent
<1>1. IInv => DoneMeansCurrent
  <2> SUFFICES ASSUME IInv, NEW p \in Procs, proc[p].phase = "done", NEW i \in DOMAIN Outputs,
                      (Outputs[i][2] \cup {Outputs[i][1]}) \cap proc[p].moved = {}
               PROVE  out[Outputs[i][1]] = Content(Outputs[i][1], Parsed(toml))
    BY DEF DoneMeansCurrent
  <2> DEFINE q == proc[p]
  <2>1. i \in 1..29 /\ (MadeOf(i) \cup {File(i)}) \cap q.moved = {}
    BY OutputsFacts DEF MadeOf, File
  <2>2. ReadOk(q, toml) /\ EmitOk(q, out)
    BY DEF IInv, ProcOk
  <2>3. out[File(i)] = Content(File(i), q.in)
    BY <2>1, <2>2 DEF EmitOk
  <2>4. ASSUME NEW r \in MadeOf(i) PROVE q.in[r] = Parsed(toml)[r]
    <3>1. r \in Names /\ r \notin q.moved
      BY <2>1, MadeOfNames
    <3>2. PICK k \in 1..9 : Registry[k] = r
      BY <3>1, RegistryFacts
    <3>3. q.in[r] = Parse(r, toml[r])
      BY <2>2, <3>1, <3>2 DEF ReadOk, HasRead
    <3> QED BY <3>1, <3>3 DEF Parsed, Names
  <2>5. Content(File(i), q.in) = Content(File(i), Parsed(toml))
    BY <2>1, <2>4, ContentAgrees
  <2> QED BY <2>3, <2>5 DEF File
<1> QED BY <1>1, Invariance, PTL

-----------------------------------------------------------------------------
(***************************************************************************)
(* Files of different runs with the same digest.                           *)
(***************************************************************************)

\* What is in the files that carry digests.
LEMMA ContentFacts ==
  ASSUME NEW a
  PROVE  /\ Content("keys.ts", a) = [tokens |-> Tokens(a["keys"]), digest |-> a["keys"]]
         /\ Content("key_registry.h", a) = [enum |-> Tokens(a["keys"]), meta |-> a["keys"], digest |-> a["keys"]]
         /\ Content("params.ts", a) = [tokens |-> Tokens(a["params"]), digest |-> a["params"]]
         /\ Content("param_registry.h", a) = [enum |-> Tokens(a["params"]), meta |-> a["params"], digest |-> a["params"]]
         /\ Content("endpoints.ts", a) = GenerateEndpointsTs(a["dev"])
         /\ Content("endpoints.dev.json", a) = EndpointJson(a["dev"], a["dev"])
         /\ Content("endpoints.test.json", a) = EndpointJson(a["dev"], a["test"])
         /\ Content("endpoints.prod.json", a) = EndpointJson(a["dev"], a["prod"])
         /\ Content("capabilities.ts", a) = GenerateCapabilitiesTs(a["capabilities"])
         /\ Content("capability_registry_gen.h", a) = GenerateCapabilitiesH(a["capabilities"])
<1>1. Content("keys.ts", a) = [tokens |-> Tokens(a["keys"]), digest |-> a["keys"]]
  BY DEF Content, GenerateKeysTs
<1>2. Content("key_registry.h", a) = [enum |-> Tokens(a["keys"]), meta |-> a["keys"], digest |-> a["keys"]]
  BY DEF Content, GenerateKeysH
<1>3. Content("params.ts", a) = [tokens |-> Tokens(a["params"]), digest |-> a["params"]]
  BY DEF Content, GenerateParamsTs
<1>4. Content("param_registry.h", a) = [enum |-> Tokens(a["params"]), meta |-> a["params"], digest |-> a["params"]]
  BY DEF Content, GenerateParamsH
<1>5. Content("endpoints.ts", a) = GenerateEndpointsTs(a["dev"])
  BY DEF Content
<1>6. Content("endpoints.dev.json", a) = EndpointJson(a["dev"], a["dev"])
  BY DEF Content
<1>7. Content("endpoints.test.json", a) = EndpointJson(a["dev"], a["test"])
  BY DEF Content
<1>8. Content("endpoints.prod.json", a) = EndpointJson(a["dev"], a["prod"])
  BY DEF Content
<1>9. Content("capabilities.ts", a) = GenerateCapabilitiesTs(a["capabilities"])
  BY DEF Content
<1>10. Content("capability_registry_gen.h", a) = GenerateCapabilitiesH(a["capabilities"])
  BY DEF Content
<1> QED BY <1>1, <1>2, <1>3, <1>4, <1>5, <1>6, <1>7, <1>8, <1>9, <1>10

\* A file that is there and whole was generated from registries that passed all checks.
LEMMA OnDiskFacts ==
  ASSUME IInv, NEW f \in OnDisk
  PROVE  \E a \in Inputs : Valid(a) /\ out[f] = Content(f, a)
BY DEF IInv, OutOk, OnDisk, Generated

\* The entries of the registries that were parsed are those of some version.
LEMMA ParsedEntries ==
  ASSUME NEW a, Valid(a)
  PROVE  /\ \A env \in {"dev", "test", "prod"} : \E v \in DOMAIN Toml[env] :
              a[env] = Range(Toml[env][v].entries)
         /\ \A c, d \in a["capabilities"] : c.id = d.id => c = d
<1>1. ASSUME NEW env \in {"dev", "test", "prod"}
      PROVE  \E v \in DOMAIN Toml[env] : a[env] = Range(Toml[env][v].entries)
  <2>1. env \in Names /\ env \notin {"keys", "params", "features", "validation", "capabilities", "tasks"}
    BY RegistryFacts
  <2>2. PICK v \in DOMAIN Toml[env] : a[env] = Parse(env, v) /\ Parse(env, v) # Refused
    BY <2>1 DEF Valid, Names
  <2>3. Parse(env, v) = ParseEndpointFile(Toml[env][v])
    BY <2>1 DEF Parse
  <2>4. ParseEndpointFile(Toml[env][v]) \in {Range(Toml[env][v].entries), Refused}
    BY DEF ParseEndpointFile
  <2> QED BY <2>2, <2>3, <2>4
<1>2. ASSUME NEW c \in a["capabilities"], NEW d \in a["capabilities"], c.id = d.id
      PROVE  c = d
  <2>1. "capabilities" \in Names
    BY RegistryFacts
  <2>2. PICK v \in DOMAIN Toml["capabilities"] :
          a["capabilities"] = Parse("capabilities", v) /\ Parse("capabilities", v) # Refused
    BY <2>1 DEF Valid, Names
  <2> DEFINE entries == Toml["capabilities"][v].entries
  <2>3. Parse("capabilities", v) = ParseCapabilities(Toml["capabilities"][v])
    BY DEF Parse
  <2>4. a["capabilities"] = Range(entries) /\ Distinct(entries, "id")
    BY <2>2, <2>3 DEF ParseCapabilities
  <2>5. PICK i \in DOMAIN entries, j \in DOMAIN entries : c = entries[i] /\ d = entries[j]
    BY <2>4 DEF Range
  <2>6. entries[i]["id"] = entries[j]["id"]
    BY <1>2, <2>5
  <2> QED BY <2>4, <2>5, <2>6 DEF Distinct
<1> QED BY <1>1, <1>2

\* The tokens of the DSL have the numbers of the engine.
LEMMA TokensAgree ==
  ASSUME NEW a, NEW b, NEW ts, NEW h,
         \/ ts = Content("keys.ts", a) /\ h = Content("key_registry.h", b)
         \/ ts = Content("params.ts", a) /\ h = Content("param_registry.h", b),
         ts.digest = h.digest
  PROVE  \A n \in DOMAIN ts.tokens : n \in DOMAIN h.enum /\ ts.tokens[n] = h.enum[n]
<1>1. CASE ts = Content("keys.ts", a) /\ h = Content("key_registry.h", b)
  <2>1. ts = [tokens |-> Tokens(a["keys"]), digest |-> a["keys"]]
    BY <1>1, ContentFacts, Zenon
  <2>2. h = [enum |-> Tokens(b["keys"]), meta |-> b["keys"], digest |-> b["keys"]]
    BY <1>1, ContentFacts, Zenon
  <2>3. ts.digest = a["keys"] /\ ts.tokens = Tokens(a["keys"])
    BY <2>1
  <2>4. h.digest = b["keys"] /\ h.enum = Tokens(b["keys"])
    BY <2>2
  <2> QED BY <2>3, <2>4
<1>2. CASE ts = Content("params.ts", a) /\ h = Content("param_registry.h", b)
  <2>1. ts = [tokens |-> Tokens(a["params"]), digest |-> a["params"]]
    BY <1>2, ContentFacts, Zenon
  <2>2. h = [enum |-> Tokens(b["params"]), meta |-> b["params"], digest |-> b["params"]]
    BY <1>2, ContentFacts, Zenon
  <2>3. ts.digest = a["params"] /\ ts.tokens = Tokens(a["params"])
    BY <2>1
  <2>4. h.digest = b["params"] /\ h.enum = Tokens(b["params"])
    BY <2>2
  <2> QED BY <2>3, <2>4
<1> QED BY <1>1, <1>2

\* What a digest of endpoints is made of.
Ids(entries) == {<<e.id, e.name, e.kind>> : e \in entries}

\* An endpoint token of the DSL stands, in every environment with the same digest, for
\* an endpoint of its kind and name.
LEMMA EndpointsAgree ==
  ASSUME NEW a, Valid(a), NEW b, Valid(b), NEW env \in {"dev", "test", "prod"},
         NEW ts, ts = Content("endpoints.ts", a), NEW json, json = EndpointJson(b["dev"], b[env]),
         ts.digest = json.registry_digest, NEW n \in DOMAIN ts.ep
  PROVE  \E e \in WithId(json, ts.ep[n]) : e.kind = n[1] /\ e.safe = n[2]
<1> DEFINE dev == a["dev"]
           Of(e) == <<e.kind, e.safe>>
           ep == [m \in {Of(e) : e \in dev} |-> (CHOOSE e \in dev : Of(e) = m).id]
<1>1. ts # Refused /\ ts = GenerateEndpointsTs(dev)
  BY ContentFacts, Zenon DEF Valid
<1>2. ts = [ep |-> ep, digest |-> Ids(dev)]
  BY <1>1 DEF GenerateEndpointsTs, Ids
<1>3. ts.ep = ep /\ ts.digest = Ids(dev)
  <2> HIDE DEF ep
  <2> QED BY <1>2
<1>4. json.registry_digest = Ids(b["dev"]) /\ json.endpoints = b[env]
  BY DEF EndpointJson, Ids
<1>5. Ids(dev) = Ids(b[env])
  <2>1. env # "dev" => SameEndpoints(b["dev"], b[env])
    BY DEF Valid, ParseEndpoints
  <2>2. Ids(b["dev"]) = Ids(b[env])
    BY <2>1 DEF SameEndpoints, Ids
  <2> QED BY <1>3, <1>4, <2>2
<1>6. PICK d \in dev : Of(d) = n /\ ts.ep[n] = d.id
  <2>1. \E e \in dev : Of(e) = n
    BY <1>3
  <2>2. (CHOOSE e \in dev : Of(e) = n) \in dev /\ Of(CHOOSE e \in dev : Of(e) = n) = n
    BY <2>1
  <2>3. ts.ep[n] = (CHOOSE e \in dev : Of(e) = n).id
    BY <1>3
  <2> QED BY <2>2, <2>3
<1>7. <<d.id, d.name, d.kind>> \in Ids(b[env])
  BY <1>5 DEF Ids
<1>8. PICK e \in b[env] : e.id = d.id /\ e.name = d.name /\ e.kind = d.kind
  BY <1>7 DEF Ids
<1>9. e.safe = d.safe
  <2>1. PICK v \in DOMAIN Toml["dev"] : dev = Range(Toml["dev"][v].entries)
    BY ParsedEntries
  <2>2. PICK w \in DOMAIN Toml[env] : b[env] = Range(Toml[env][w].entries)
    BY ParsedEntries
  <2> QED BY <2>1, <2>2, <1>8, SafeAssumption
<1>10. n[1] = d.kind /\ n[2] = d.safe
  BY <1>6
<1>11. e \in WithId(json, ts.ep[n])
  BY <1>4, <1>6, <1>8 DEF WithId
<1> QED BY <1>8, <1>9, <1>10, <1>11

\* A payload that the check of the DSL lets pass, the check of the engine lets pass.
LEMMA PayloadAgrees ==
  ASSUME NEW schema, NEW payload, ValidatePayload(schema, payload)
  PROVE  ValidateCapabilityPayload(PayloadSchema(schema), payload)
<1> DEFINE cpp == PayloadSchema(schema)
<1>1. CASE schema = None
  <2>1. cpp.has_schema = FALSE
    BY <1>1 DEF PayloadSchema
  <2>2. payload = None
    BY <1>1 DEF ValidatePayload
  <2> QED BY <2>1, <2>2 DEF ValidateCapabilityPayload
<1>2. CASE schema # None
  <2>1. /\ payload # None
        /\ ~ schema.additional => DOMAIN payload \subseteq DOMAIN schema.props
        /\ schema.required \subseteq DOMAIN payload
        /\ \A n \in DOMAIN payload \cap DOMAIN schema.props : schema.props[n] # None =>
             payload[n] = IF schema.props[n] = "integer" THEN "number" ELSE schema.props[n]
    BY <1>2 DEF ValidatePayload
  <2>2. /\ cpp.has_schema = TRUE /\ cpp.required = schema.required
        /\ cpp.types = [n \in DOMAIN schema.props |-> CppPropertyType(schema.props[n])]
    BY <1>2 DEF PayloadSchema
  <2>3. cpp.additional <=> schema.additional
    BY <1>2 DEF PayloadSchema
  <2>4. ASSUME NEW n \in DOMAIN payload \cap DOMAIN cpp.types
        PROVE  cpp.types[n] \in {"unknown", payload[n]}
    <3>1. n \in DOMAIN schema.props /\ cpp.types[n] = CppPropertyType(schema.props[n])
      BY <2>2, <2>4
    <3>2. CASE schema.props[n] \in {"boolean", "string", "number", "array", "object"}
      <4>1. schema.props[n] # None /\ schema.props[n] # "integer"
        BY <3>2, NoneAssumption
      <4>2. payload[n] = schema.props[n]
        BY <4>1, <3>1, <2>4, <2>1
      <4> QED BY <3>1, <3>2, <4>2 DEF CppPropertyType
    <3>3. CASE schema.props[n] \notin {"boolean", "string", "number", "array", "object"}
      BY <3>1, <3>3 DEF CppPropertyType
    <3> QED BY <3>2, <3>3
  <2>5. DOMAIN cpp.types = DOMAIN schema.props
    BY <2>2
  <2> HIDE DEF cpp
  <2>6. ValidateCapabilityPayload(cpp, payload)
    BY <2>1, <2>2, <2>3, <2>4, <2>5 DEF ValidateCapabilityPayload
  <2> QED BY <2>6 DEF cpp
<1> QED BY <1>1, <1>2

\* The capabilities and the payloads that the DSL accepts.
LEMMA CapabilitiesAgree ==
  ASSUME NEW caps, \A c, d \in caps : c.id = d.id => c = d,
         NEW ts, ts = GenerateCapabilitiesTs(caps), NEW h, h = GenerateCapabilitiesH(caps)
  PROVE  /\ \A id \in ts.supported : CapabilityIsSupported(h, id)
         /\ \A id \in DOMAIN ts.schemas, payload \in Payloads :
              ValidatePayload(ts.schemas[id], payload) => ValidateCapabilityPayload(h.schemas[id], payload)
<1> DEFINE ids == {c.id : c \in caps}
           Cap(id) == CHOOSE c \in caps : c.id = id
<1>1. /\ ts.schemas = [id \in ids |-> Cap(id).schema]
      /\ ts.supported = SupportedCapabilities(caps)
  BY DEF GenerateCapabilitiesTs
<1>2. /\ h.schemas = [id \in ids |-> PayloadSchema(Cap(id).schema)]
      /\ h.status = [id \in ids |-> Cap(id).status]
  BY DEF GenerateCapabilitiesH
<1>3. ASSUME NEW id \in ts.supported PROVE CapabilityIsSupported(h, id)
  <2>1. PICK c \in caps : c.id = id /\ c.status \in {"implemented", "deprecated"}
    BY <1>1 DEF SupportedCapabilities
  <2>2. Cap(id) = c
    <3>1. Cap(id) \in caps /\ Cap(id).id = id
      BY <2>1
    <3> QED BY <2>1, <3>1
  <2>3. id \in ids
    BY <2>1
  <2> QED BY <1>2, <2>1, <2>2, <2>3 DEF CapabilityIsSupported
<1>4. ASSUME NEW id \in DOMAIN ts.schemas, NEW payload \in Payloads,
             ValidatePayload(ts.schemas[id], payload)
      PROVE  ValidateCapabilityPayload(h.schemas[id], payload)
  <2>1. id \in ids /\ ts.schemas[id] = Cap(id).schema /\ h.schemas[id] = PayloadSchema(Cap(id).schema)
    BY <1>1, <1>2
  <2> HIDE DEF Cap
  <2> QED BY <1>4, <2>1, PayloadAgrees
<1> QED BY <1>3, <1>4

\* Files that carry one digest agree, by the lemmas about each pair of files.
LEMMA FilesAgree == IInv => SameDigestSameMeaning
<1> SUFFICES ASSUME IInv PROVE SameDigestSameMeaning
  OBVIOUS
<1>1. ASSUME NEW pair \in {<<"keys.ts", "key_registry.h">>, <<"params.ts", "param_registry.h">>},
             Range(pair) \subseteq OnDisk, out[pair[1]].digest = out[pair[2]].digest
      PROVE  \A n \in DOMAIN out[pair[1]].tokens :
               n \in DOMAIN out[pair[2]].enum /\ out[pair[1]].tokens[n] = out[pair[2]].enum[n]
  <2>1. pair[1] \in OnDisk /\ pair[2] \in OnDisk
    BY <1>1 DEF Range
  <2>2. PICK a \in Inputs : out[pair[1]] = Content(pair[1], a)
    BY <2>1, OnDiskFacts
  <2>3. PICK b \in Inputs : out[pair[2]] = Content(pair[2], b)
    BY <2>1, OnDiskFacts
  <2>4. \/ out[pair[1]] = Content("keys.ts", a) /\ out[pair[2]] = Content("key_registry.h", b)
        \/ out[pair[1]] = Content("params.ts", a) /\ out[pair[2]] = Content("param_registry.h", b)
    BY <1>1, <2>2, <2>3
  <2> QED BY <1>1, <2>4, TokensAgree
<1>2. ASSUME NEW f \in {"endpoints.dev.json", "endpoints.test.json", "endpoints.prod.json"},
             {"endpoints.ts", f} \subseteq OnDisk,
             out["endpoints.ts"].digest = out[f].registry_digest,
             NEW n \in DOMAIN out["endpoints.ts"].ep
      PROVE  \E e \in WithId(out[f], out["endpoints.ts"].ep[n]) : e.kind = n[1] /\ e.safe = n[2]
  <2>1. PICK a \in Inputs : Valid(a) /\ out["endpoints.ts"] = Content("endpoints.ts", a)
    BY <1>2, OnDiskFacts
  <2>2. PICK b \in Inputs : Valid(b) /\ out[f] = Content(f, b)
    BY <1>2, OnDiskFacts
  <2>3. \E env \in {"dev", "test", "prod"} : out[f] = EndpointJson(b["dev"], b[env])
    <3>1. CASE f = "endpoints.dev.json"
      BY <2>2, <3>1, ContentFacts, Zenon
    <3>2. CASE f = "endpoints.test.json"
      BY <2>2, <3>2, ContentFacts, Zenon
    <3>3. CASE f = "endpoints.prod.json"
      BY <2>2, <3>3, ContentFacts, Zenon
    <3> QED BY <1>2, <3>1, <3>2, <3>3
  <2> QED BY <1>2, <2>1, <2>2, <2>3, EndpointsAgree
<1>3. ASSUME {"capabilities.ts", "capability_registry_gen.h"} \subseteq OnDisk,
             out["capabilities.ts"].digest = out["capability_registry_gen.h"].digest
      PROVE  LET ts == out["capabilities.ts"]
                 h == out["capability_registry_gen.h"]
             IN /\ \A id \in ts.supported : CapabilityIsSupported(h, id)
                /\ \A id \in DOMAIN ts.schemas, payload \in Payloads :
                     ValidatePayload(ts.schemas[id], payload) => ValidateCapabilityPayload(h.schemas[id], payload)
  <2>1. PICK a \in Inputs : Valid(a) /\ out["capabilities.ts"] = Content("capabilities.ts", a)
    BY <1>3, OnDiskFacts
  <2>2. PICK b \in Inputs : out["capability_registry_gen.h"] = Content("capability_registry_gen.h", b)
    BY <1>3, OnDiskFacts
  <2>3. /\ out["capabilities.ts"] = GenerateCapabilitiesTs(a["capabilities"])
        /\ out["capability_registry_gen.h"] = GenerateCapabilitiesH(b["capabilities"])
    BY <2>1, <2>2, ContentFacts, Zenon
  <2>4. a["capabilities"] = b["capabilities"]
    BY <1>3, <2>3 DEF GenerateCapabilitiesTs, GenerateCapabilitiesH
  <2>5. \A c, d \in a["capabilities"] : c.id = d.id => c = d
    BY <2>1, ParsedEntries
  <2> QED BY <2>3, <2>4, <2>5, CapabilitiesAgree
<1> QED BY <1>1, <1>2, <1>3, Zenon DEF SameDigestSameMeaning

\* Whichever runs wrote the files, and wherever they were killed: files with one digest
\* agree across the languages and the environments, for any registries, with every payload
\* (gen-ts.ts, gen-cpp.ts, parsers.ts: parseEndpoints).
THEOREM CodegenSameMeaning == Spec => []SameDigestSameMeaning
BY FilesAgree, Invariance, PTL

=============================================================================
