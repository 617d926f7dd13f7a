-------------------------------- MODULE Dslc --------------------------------
(***************************************************************************)
(* What a run of dslc promises.  It takes a list of plan files and works   *)
(* through it in order.  For each it either gives up, and then the output   *)
(* file of this plan and of every later one is what it was, or it replaces *)
(* the output file by the compilation of one text that the plan file held  *)
(* while it was being compiled.  A write takes time: until it ends the     *)
(* output file is torn, and it stays torn if the run is killed or the      *)
(* write fails.  The editor of the plan files is not synchronised with it. *)
(***************************************************************************)
EXTENDS Sequences

CONSTANTS
  Files,       \* the plan files
  OutputOf,    \* the output file of each: a function
  Batches,     \* the lists of files a run is started with
  None, Torn

VARIABLES
  file,        \* file -> its text
  out,         \* output file -> None, Torn or the text it is the compilation of
  status,      \* idle, running, ok, failed or killed
  todo,        \* the files still to compile, the current one first
  seen         \* the texts the current file held since its compilation began

vars == <<file, out, status, todo, seen>>

Init ==
  /\ DOMAIN file = Files
  /\ out = [o \in {OutputOf[f] : f \in Files} |-> None]
  /\ status = "idle" /\ todo = <<>> /\ seen = {}

Run(batch) ==
  /\ status # "running"
  /\ status' = "running" /\ todo' = batch /\ seen' = {file[Head(batch)]}
  /\ UNCHANGED <<file, out>>

\* Whatever an edit leaves in the file.
Edit(f) ==
  /\ DOMAIN file' = Files /\ \A g \in Files \ {f} : file'[g] = file[g]
  /\ seen' = IF status = "running" /\ f = Head(todo) THEN seen \cup {file'[f]} ELSE seen
  /\ UNCHANGED <<out, status, todo>>

Tear ==
  /\ status = "running"
  /\ out' = [out EXCEPT ![OutputOf[Head(todo)]] = Torn]
  /\ UNCHANGED <<file, status, todo, seen>>

Replace(text) ==
  /\ status = "running"
  /\ out[OutputOf[Head(todo)]] = Torn
  /\ out' = [out EXCEPT ![OutputOf[Head(todo)]] = text]
  /\ todo' = Tail(todo)
  /\ IF Tail(todo) = <<>> THEN status' = "ok" /\ seen' = {}
     ELSE status' = status /\ seen' = {file[Head(Tail(todo))]}
  /\ UNCHANGED file

\* exit(1), or the end of the process from outside.
Stop(how) ==
  /\ status = "running"
  /\ status' = how /\ todo' = <<>> /\ seen' = {}
  /\ UNCHANGED <<file, out>>

Next ==
  \/ \E batch \in Batches : Run(batch)
  \/ \E f \in Files : Edit(f)
  \/ Tear
  \/ \E text \in seen : Replace(text)
  \/ \E how \in {"failed", "killed"} : Stop(how)

Spec == Init /\ [][Next]_vars

=============================================================================
