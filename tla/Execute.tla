-------------------------------- MODULE Execute --------------------------------
(***************************************************************************)
(* nall::execute(): a program is run and what it writes to its standard    *)
(* output and error is collected.  Both are pipes of limited size: the     *)
(* child stops in a write to a full pipe and the parent in a read from an  *)
(* empty one that somebody may still write to.                             *)
(*                                                                         *)
(* On POSIX the parent reads one pipe to its end, then the other, then     *)
(* waits for the child; on Windows it waits for the child and then reads   *)
(* what the pipes hold.                                                    *)
(***************************************************************************)
EXTENDS Naturals, SequencesExt, FiniteSetsExt

CONSTANTS
  Platform,     \* "posix" or "windows"
  Programs,     \* what a child may do: writes to "out" and "err", in order
  PipeSize,     \* what a pipe holds
  BufferSize    \* what is read at once (256)

ExecuteAssumption ==
  /\ PipeSize \in Nat \ {0} /\ BufferSize \in Nat \ {0}
  /\ Programs \subseteq Seq({"out", "err"})

VARIABLES
  parent,       \* "start", "out", "err", "wait", "done"
  child,        \* "none", "running", "exited", "failed", "killed"
  todo,         \* the child's writes to come
  pipe,         \* [out, err -> Seq]: what is in the pipes
  wrote,        \* [out, err -> Seq]: what the child wrote
  output,       \* [out, err -> Seq]: output and error of the result
  result        \* "none", "success", "failure", "nothing" (return {})

vars == <<parent, child, todo, pipe, wrote, output, result>>

Streams == {"out", "err"}
Empty   == [s \in Streams |-> <<>>]

Init ==
  /\ parent = "start" /\ child = "none" /\ result = "none"
  /\ todo \in Programs
  /\ pipe = Empty /\ wrote = Empty /\ output = Empty

-------------------------------------------------------------------------------
(* The child.  Its bytes are told apart by the order of its writes.        *)
Write ==
  /\ child = "running" /\ todo # <<>>
  /\ LET s == Head(todo)
         b == Len(todo)
     IN  /\ Len(pipe[s]) < PipeSize
         /\ pipe'  = [pipe  EXCEPT ![s] = Append(@, b)]
         /\ wrote' = [wrote EXCEPT ![s] = Append(@, b)]
  /\ todo' = Tail(todo)
  /\ UNCHANGED <<parent, child, output, result>>

Exit ==                                       \* also _exit() if execvp() fails
  /\ child = "running" /\ todo = <<>>
  /\ child' \in {"exited", "failed"}         \* EXIT_SUCCESS or not
  /\ UNCHANGED <<parent, todo, pipe, wrote, output, result>>

Killed ==                                     \* by a signal
  /\ child = "running"
  /\ child' = "killed"
  /\ UNCHANGED <<parent, todo, pipe, wrote, output, result>>

-------------------------------------------------------------------------------
(* The parent.                                                             *)
First == IF Platform = "posix" THEN "out" ELSE "wait"
After(s) == CASE s = "out" -> "err"
              [] s = "err" -> IF Platform = "posix" THEN "wait" ELSE "done"

Fork ==
  /\ parent = "start"
  /\ parent' = First
  /\ child' = "running"
  /\ UNCHANGED <<todo, pipe, wrote, output, result>>

(* fork() returns -1, which is not 0: the parent goes on.  Without writers *)
(* both reads end at once, and waitpid(-1) has no child to wait for.       *)
ForkFails ==
  /\ parent = "start" /\ Platform = "posix"
  /\ parent' = First
  /\ UNCHANGED <<child, todo, pipe, wrote, output, result>>

CannotStart ==                                \* pipe() or CreateProcess() fails
  /\ parent = "start"
  /\ parent' = "done" /\ result' = "nothing"
  /\ UNCHANGED <<child, todo, pipe, wrote, output>>

Portion(s) == Min({BufferSize, Len(pipe[s])})

MutReadSome(s) ==                             \* mutant: one read is enough
  /\ parent = s /\ pipe[s] # <<>>
  /\ output' = [output EXCEPT ![s] = @ \o SubSeq(pipe[s], 1, Portion(s))]
  /\ pipe'   = [pipe EXCEPT ![s] = SubSeq(@, Portion(s) + 1, Len(@))]
  /\ parent' = After(s)
  /\ UNCHANGED <<child, todo, wrote, result>>
ReadSome(s) ==
  /\ parent = s /\ pipe[s] # <<>>
  /\ output' = [output EXCEPT ![s] = @ \o SubSeq(pipe[s], 1, Portion(s))]
  /\ pipe'   = [pipe EXCEPT ![s] = SubSeq(@, Portion(s) + 1, Len(@))]
  /\ UNCHANGED <<parent, child, todo, wrote, result>>

(* read() returns 0 once the child has its end of the pipe no more; on      *)
(* Windows it is not called when the pipe is empty.                        *)
MutReadEnd(s) ==                              \* mutant: the parent's copy of
  /\ parent = s /\ pipe[s] = <<>>             \* that end is not closed
  /\ Platform = "windows"
  /\ parent' = After(s)
  /\ UNCHANGED <<child, todo, pipe, wrote, output, result>>
MutNoPeek(s) ==                               \* mutant: on Windows ReadFile()
  /\ parent = s /\ pipe[s] = <<>>             \* without PeekNamedPipe()
  /\ Platform = "posix" /\ child # "running"
  /\ parent' = After(s)
  /\ UNCHANGED <<child, todo, pipe, wrote, output, result>>
ReadEnd(s) ==
  /\ parent = s /\ pipe[s] = <<>>
  /\ Platform = "posix" => child # "running"
  /\ parent' = After(s)
  /\ UNCHANGED <<child, todo, pipe, wrote, output, result>>

MutWaitFor ==                                 \* mutant: whatever the child does
  /\ parent = "wait"
  /\ result' = "success"
  /\ parent' = IF Platform = "posix" THEN "done" ELSE "out"
  /\ UNCHANGED <<child, todo, pipe, wrote, output>>
WaitFor ==
  /\ parent = "wait" /\ child # "running"
  /\ result' = CASE child = "failed" -> "failure"
                 [] child = "killed" -> IF Platform = "posix" THEN "nothing" ELSE "failure"
                 [] OTHER            -> "success"
  /\ parent' = IF Platform = "posix" THEN "done" ELSE "out"
  /\ UNCHANGED <<child, todo, pipe, wrote, output>>

Parent == Fork \/ ForkFails \/ CannotStart \/ WaitFor
            \/ \E s \in Streams : ReadSome(s) \/ ReadEnd(s)
Child  == Write \/ Exit

Next == Parent \/ Child \/ Killed

(* The system runs both processes; a child need not be killed.             *)
Spec == Init /\ [][Next]_vars /\ WF_vars(Parent) /\ WF_vars(Child)

-------------------------------------------------------------------------------
(* "waits for completion, and returns data written to stdout" (run.hpp:5): *)
(* a result has all that the child wrote, whatever the order of its writes *)
(* and of the reads, and there is one only after it has ended.             *)
OutputIsComplete ==
  parent = "done" /\ result \in {"success", "failure"} => child # "running" /\ output = wrote

(* A result says that the program ran and ended by itself only if it did.  *)
SuccessMeansRan == parent = "done" /\ result = "success" => child = "exited"

(* The call returns: parent and child never wait for each other.           *)
Returns == <>(parent = "done")
===============================================================================
