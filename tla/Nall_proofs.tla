------------------------------ MODULE Nall_proofs ------------------------------
(***************************************************************************)
(* Proofs about nall: execute() on both platforms.                         *)
(***************************************************************************)
EXTENDS Nall, SequenceTheorems, FiniteSetTheorems, TLAPS

-------------------------------------------------------------------------------
(* A step of the whole is, for each part, a step of the part or none.      *)
LEMMA RunPart ==
  ASSUME [Next]_vars
  PROVE  /\ scenario' = scenario
         /\ \/ UNCHANGED runVars
            \/ scenario # "windows" /\ OnPosix!Next
            \/ scenario = "windows" /\ OnWindows!Next
BY DEF Next, FileNext, RunNext, OnWhich, vars, runVars

-------------------------------------------------------------------------------
(* A portion of what is in a pipe.                                         *)
LEMMA Associative ==
  \A a, b, c \in Seq(Nat) : (a \o b) \o c = a \o (b \o c)
OBVIOUS

LEMMA Appended ==
  ASSUME NEW a \in Seq(Nat), NEW c \in Seq(Nat), NEW n \in Nat
  PROVE  Append(a \o c, n) = a \o Append(c, n)
<1>1. <<n>> \in Seq(Nat) /\ a \o c \in Seq(Nat)
  OBVIOUS
<1>2. Append(a \o c, n) = (a \o c) \o <<n>> /\ Append(c, n) = c \o <<n>>
  BY <1>1, AppendIsConcat
<1>3. (a \o c) \o <<n>> = a \o (c \o <<n>>)
  BY <1>1, Associative
<1> QED
  BY <1>2, <1>3

LEMMA Portioned ==
  ASSUME NEW q \in Seq(Nat), NEW o \in Seq(Nat), NEW p \in 1 .. Len(q)
  PROVE  /\ o \o SubSeq(q, 1, p) \in Seq(Nat)
         /\ SubSeq(q, p + 1, Len(q)) \in Seq(Nat)
         /\ (o \o SubSeq(q, 1, p)) \o SubSeq(q, p + 1, Len(q)) = o \o q
<1>1. SubSeq(q, 1, p) \in Seq(Nat) /\ SubSeq(q, p + 1, Len(q)) \in Seq(Nat)
  OBVIOUS
<1>2. SubSeq(q, 1, p) \o SubSeq(q, p + 1, Len(q)) = SubSeq(q, 1, Len(q))
  <2>1. Len(q) \in Nat /\ 1 \in 1 .. Len(q) + 1 /\ p \in 1 - 1 .. Len(q) /\ Len(q) \in p .. Len(q)
    OBVIOUS
  <2> QED BY <2>1, ConcatAdjacentSubSeq, Zenon
<1>3. SubSeq(q, 1, Len(q)) = q
  OBVIOUS
<1> DEFINE a == SubSeq(q, 1, p)
           b == SubSeq(q, p + 1, Len(q))
<1> SUFFICES o \o a \in Seq(Nat) /\ b \in Seq(Nat) /\ (o \o a) \o b = o \o q
  OBVIOUS
<1>4. a \in Seq(Nat) /\ b \in Seq(Nat) /\ a \o b = q
  BY <1>1, <1>2, <1>3
<1> HIDE DEF a, b
<1>5. (o \o a) \o b = o \o (a \o b)
  BY <1>4, Associative
<1>6. o \o a \in Seq(Nat)
  BY <1>4
<1> QED
  BY <1>4, <1>5, <1>6

LEMMA PosixPortion ==
  ASSUME NallAssumption, NEW s, pipe[s] \in Seq(Nat), pipe[s] # <<>>
  PROVE  OnPosix!Portion(s) \in 1 .. Len(pipe[s])
<1>1. Len(pipe[s]) \in Nat \ {0} /\ PosixBuffer \in Nat \ {0}
  BY DEF NallAssumption, OnPosix!ExecuteAssumption
<1>2. \E x \in {PosixBuffer, Len(pipe[s])} : \A y \in {PosixBuffer, Len(pipe[s])} : x <= y
  BY <1>1
<1> QED
  BY <1>1, <1>2 DEF OnPosix!Portion, OnPosix!Min

LEMMA WindowsPortion ==
  ASSUME NallAssumption, NEW s, pipe[s] \in Seq(Nat), pipe[s] # <<>>
  PROVE  OnWindows!Portion(s) \in 1 .. Len(pipe[s])
<1>1. Len(pipe[s]) \in Nat \ {0} /\ WindowsBuffer \in Nat \ {0}
  BY DEF NallAssumption, OnWindows!ExecuteAssumption
<1>2. \E x \in {WindowsBuffer, Len(pipe[s])} : \A y \in {WindowsBuffer, Len(pipe[s])} : x <= y
  BY <1>1
<1> QED
  BY <1>1, <1>2 DEF OnWindows!Portion, OnWindows!Min

-------------------------------------------------------------------------------
(* What a child wrote was collected or is in its pipe; and a pipe that was *)
(* read to its end stays empty, since the child has ended by then.         *)
Both == {"out", "err"}

RunTypeOK ==
  /\ parent \in {"start", "out", "err", "wait", "done"}
  /\ child \in {"none", "running", "exited", "failed", "killed"}
  /\ todo \in Seq(Both)
  /\ pipe \in [Both -> Seq(Nat)]
  /\ wrote \in [Both -> Seq(Nat)]
  /\ collected \in [Both -> Seq(Nat)]
  /\ result \in {"none", "success", "failure", "nothing"}

NothingIsLost == \A s \in Both : wrote[s] = collected[s] \o pipe[s]

AtTheStart ==
  parent = "start" =>
    child = "none" /\ pipe["out"] = <<>> /\ pipe["err"] = <<>> /\ result = "none"

ReadThenWaited ==
  scenario # "windows" =>
    /\ parent \in {"err", "wait", "done"} => child # "running" /\ pipe["out"] = <<>>
    /\ parent \in {"wait", "done"} => pipe["err"] = <<>>

WaitedThenRead ==
  scenario = "windows" =>
    /\ parent \in {"out", "err", "done"} => child # "running"
    /\ parent \in {"wait", "out", "err"} => child # "none"
    /\ parent \in {"err", "done"} => pipe["out"] = <<>>
    /\ parent = "done" => pipe["err"] = <<>>
    /\ result = "success" => child = "exited"

RunInv == RunTypeOK /\ NothingIsLost /\ AtTheStart /\ ReadThenWaited /\ WaitedThenRead

LEMMA RunInit ==
  ASSUME NallAssumption, Init
  PROVE  RunInv
<1>1. OnPosix!Init
  BY DEF Init
<1>2. /\ parent = "start" /\ child = "none" /\ result = "none"
      /\ pipe = [s \in Both |-> <<>>]
      /\ wrote = [s \in Both |-> <<>>] /\ collected = [s \in Both |-> <<>>]
  BY <1>1 DEF OnPosix!Init, OnPosix!Empty, OnPosix!Streams, Both
<1>3. todo \in Seq(Both)
  <2>1. todo \in AllPrograms
    BY <1>1 DEF OnPosix!Init
  <2>2. AllPrograms \subseteq Seq(Both)
    BY DEF NallAssumption, OnPosix!ExecuteAssumption, Both
  <2> QED BY <2>1, <2>2
<1>4. <<>> \in Seq(Nat) /\ <<>> \o <<>> = <<>>
  OBVIOUS
<1>5. /\ pipe \in [Both -> Seq(Nat)] /\ wrote \in [Both -> Seq(Nat)]
      /\ collected \in [Both -> Seq(Nat)]
  BY <1>2, <1>4
<1>6. RunTypeOK
  BY <1>2, <1>3, <1>5 DEF RunTypeOK
<1>7. NothingIsLost
  BY <1>2, <1>4 DEF NothingIsLost
<1> QED
  BY <1>2, <1>6, <1>7 DEF RunInv, AtTheStart, ReadThenWaited, WaitedThenRead, Both

(* The child's steps are the same on both platforms.                       *)
LEMMA ChildWrites ==
  ASSUME RunInv, scenario' = scenario, OnPosix!Write
  PROVE  RunInv'
<1> DEFINE s == Head(todo)
           b == Len(todo)
<1>1. s \in Both /\ Tail(todo) \in Seq(Both) /\ b \in Nat
  BY DEF RunInv, RunTypeOK, OnPosix!Write
<1> HIDE DEF s, b
<1>2. /\ child = "running" /\ todo' = Tail(todo)
      /\ pipe'  = [pipe  EXCEPT ![s] = Append(@, b)]
      /\ wrote' = [wrote EXCEPT ![s] = Append(@, b)]
      /\ UNCHANGED <<parent, child, collected, result>>
  BY DEF OnPosix!Write, s, b
<1>3. \A x \in Both : pipe[x] \in Seq(Nat) /\ wrote[x] \in Seq(Nat) /\ collected[x] \in Seq(Nat)
  BY DEF RunInv, RunTypeOK
<1>4. /\ pipe' \in [Both -> Seq(Nat)] /\ wrote' \in [Both -> Seq(Nat)]
      /\ \A x \in Both : pipe'[x] = (IF x = s THEN Append(pipe[x], b) ELSE pipe[x])
      /\ \A x \in Both : wrote'[x] = (IF x = s THEN Append(wrote[x], b) ELSE wrote[x])
  BY <1>1, <1>2, <1>3 DEF RunInv, RunTypeOK
<1>5. \A c, q \in Seq(Nat) : Append(c \o q, b) = c \o Append(q, b)
  BY <1>1, Appended
<1>6. NothingIsLost'
  <2> SUFFICES ASSUME NEW x \in Both PROVE wrote'[x] = collected[x] \o pipe'[x]
    BY <1>2 DEF NothingIsLost
  <2>1. wrote[x] = collected[x] \o pipe[x]
    BY DEF RunInv, NothingIsLost
  <2>2. CASE x = s
    BY <1>3, <1>4, <1>5, <2>1, <2>2
  <2>3. CASE x # s
    BY <1>4, <2>1, <2>3
  <2> QED BY <2>2, <2>3
<1>7. parent \notin {"start"} /\ (scenario # "windows" => parent = "out")
        /\ (scenario = "windows" => parent = "wait")
  BY <1>2 DEF RunInv, RunTypeOK, AtTheStart, ReadThenWaited, WaitedThenRead
<1> QED
  BY <1>1, <1>2, <1>4, <1>6, <1>7
     DEF RunInv, RunTypeOK, AtTheStart, ReadThenWaited, WaitedThenRead

LEMMA ChildEnds ==
  ASSUME RunInv, scenario' = scenario, OnPosix!Exit \/ OnPosix!Killed
  PROVE  RunInv'
<1>1. /\ child = "running" /\ child' \in {"exited", "failed", "killed"}
      /\ UNCHANGED <<parent, todo, pipe, wrote, collected, result>>
  BY DEF OnPosix!Exit, OnPosix!Killed
<1> QED
  BY <1>1 DEF RunInv, RunTypeOK, NothingIsLost, AtTheStart, ReadThenWaited, WaitedThenRead

(* What is read goes from the pipe to the output.                          *)
LEMMA ParentReads ==
  ASSUME RunInv, scenario' = scenario, NEW s \in Both, NEW p \in 1 .. Len(pipe[s]),
         parent = s, pipe[s] # <<>>,
         collected' = [collected EXCEPT ![s] = @ \o SubSeq(pipe[s], 1, p)],
         pipe' = [pipe EXCEPT ![s] = SubSeq(@, p + 1, Len(@))],
         UNCHANGED <<parent, child, todo, wrote, result>>
  PROVE  RunInv'
<1>1. \A x \in Both : pipe[x] \in Seq(Nat) /\ wrote[x] \in Seq(Nat) /\ collected[x] \in Seq(Nat)
  BY DEF RunInv, RunTypeOK
<1>2. /\ collected[s] \o SubSeq(pipe[s], 1, p) \in Seq(Nat)
      /\ SubSeq(pipe[s], p + 1, Len(pipe[s])) \in Seq(Nat)
      /\ (collected[s] \o SubSeq(pipe[s], 1, p)) \o SubSeq(pipe[s], p + 1, Len(pipe[s]))
           = collected[s] \o pipe[s]
  BY <1>1, Portioned
<1>3. pipe' \in [Both -> Seq(Nat)] /\ collected' \in [Both -> Seq(Nat)]
  BY <1>2 DEF RunInv, RunTypeOK
<1>4. RunTypeOK'
  BY <1>3 DEF RunInv, RunTypeOK
<1>5. \A x \in Both : collected'[x] \o pipe'[x] = collected[x] \o pipe[x]
  <2> TAKE x \in Both
  <2>1. CASE x = s
    BY <1>2, <2>1 DEF RunInv, RunTypeOK
  <2>2. CASE x # s
    BY <2>2 DEF RunInv, RunTypeOK
  <2> QED BY <2>1, <2>2
<1>6. NothingIsLost'
  BY <1>5 DEF NothingIsLost, RunInv
<1>7. \A x \in Both : x # s => pipe'[x] = pipe[x]
  BY DEF RunInv, RunTypeOK
<1> QED
  BY <1>4, <1>6, <1>7
     DEF RunInv, RunTypeOK, AtTheStart, ReadThenWaited, WaitedThenRead, Both

LEMMA PosixStep ==
  ASSUME NallAssumption, RunInv, scenario' = scenario, scenario # "windows", OnPosix!Next
  PROVE  RunInv'
<1>1. CASE OnPosix!Fork
  BY <1>1 DEF OnPosix!Fork, OnPosix!First, RunInv, RunTypeOK, NothingIsLost, AtTheStart,
              ReadThenWaited, WaitedThenRead
<1>2. CASE OnPosix!ForkFails
  BY <1>2 DEF OnPosix!ForkFails, OnPosix!First, RunInv, RunTypeOK, NothingIsLost, AtTheStart,
              ReadThenWaited, WaitedThenRead
<1>3. CASE OnPosix!CannotStart
  BY <1>3 DEF OnPosix!CannotStart, RunInv, RunTypeOK, NothingIsLost, AtTheStart,
              ReadThenWaited, WaitedThenRead
<1>4. CASE OnPosix!WaitFor
  BY <1>4 DEF OnPosix!WaitFor, RunInv, RunTypeOK, NothingIsLost, AtTheStart,
              ReadThenWaited, WaitedThenRead
<1>5. ASSUME NEW s \in Both, OnPosix!ReadSome(s) PROVE RunInv'
  <2>1. pipe[s] \in Seq(Nat)
    BY DEF RunInv, RunTypeOK
  <2>2. OnPosix!Portion(s) \in 1 .. Len(pipe[s])
    BY <1>5, <2>1, PosixPortion DEF OnPosix!ReadSome
  <2> QED
    BY <1>5, <2>2, ParentReads DEF OnPosix!ReadSome
<1>6. ASSUME NEW s \in Both, OnPosix!ReadEnd(s) PROVE RunInv'
  <2>1. /\ parent = s /\ pipe[s] = <<>> /\ child # "running"
        /\ parent' = OnPosix!After(s)
        /\ UNCHANGED <<child, todo, pipe, wrote, collected, result>>
    BY <1>6 DEF OnPosix!ReadEnd
  <2>2. OnPosix!After("out") = "err" /\ OnPosix!After("err") = "wait"
    BY DEF OnPosix!After
  <2> QED
    BY <2>1, <2>2 DEF RunInv, RunTypeOK, NothingIsLost, AtTheStart,
                      ReadThenWaited, WaitedThenRead, Both
<1> QED
  BY <1>1, <1>2, <1>3, <1>4, <1>5, <1>6, ChildWrites, ChildEnds
     DEF OnPosix!Next, OnPosix!Parent, OnPosix!Child, OnPosix!Streams, Both

LEMMA WindowsStep ==
  ASSUME NallAssumption, RunInv, scenario' = scenario, scenario = "windows", OnWindows!Next
  PROVE  RunInv'
<1>1. CASE OnWindows!Fork
  BY <1>1 DEF OnWindows!Fork, OnWindows!First, RunInv, RunTypeOK, NothingIsLost, AtTheStart,
              ReadThenWaited, WaitedThenRead
<1>2. ~OnWindows!ForkFails
  BY DEF OnWindows!ForkFails
<1>3. CASE OnWindows!CannotStart
  BY <1>3 DEF OnWindows!CannotStart, RunInv, RunTypeOK, NothingIsLost, AtTheStart,
              ReadThenWaited, WaitedThenRead
<1>4. CASE OnWindows!WaitFor
  BY <1>4 DEF OnWindows!WaitFor, RunInv, RunTypeOK, NothingIsLost, AtTheStart,
              ReadThenWaited, WaitedThenRead
<1>5. ASSUME NEW s \in Both, OnWindows!ReadSome(s) PROVE RunInv'
  <2>1. pipe[s] \in Seq(Nat)
    BY DEF RunInv, RunTypeOK
  <2>2. OnWindows!Portion(s) \in 1 .. Len(pipe[s])
    BY <1>5, <2>1, WindowsPortion DEF OnWindows!ReadSome
  <2> QED
    BY <1>5, <2>2, ParentReads DEF OnWindows!ReadSome
<1>6. ASSUME NEW s \in Both, OnWindows!ReadEnd(s) PROVE RunInv'
  <2>1. /\ parent = s /\ pipe[s] = <<>>
        /\ parent' = OnWindows!After(s)
        /\ UNCHANGED <<child, todo, pipe, wrote, collected, result>>
    BY <1>6 DEF OnWindows!ReadEnd
  <2>2. OnWindows!After("out") = "err" /\ OnWindows!After("err") = "done"
    BY DEF OnWindows!After
  <2> QED
    BY <2>1, <2>2 DEF RunInv, RunTypeOK, NothingIsLost, AtTheStart,
                      ReadThenWaited, WaitedThenRead, Both
<1>7. OnWindows!Write => OnPosix!Write
  BY DEF OnWindows!Write, OnPosix!Write
<1>8. OnWindows!Exit \/ OnWindows!Killed => OnPosix!Exit \/ OnPosix!Killed
  BY DEF OnWindows!Exit, OnPosix!Exit, OnWindows!Killed, OnPosix!Killed
<1> QED
  BY <1>1, <1>2, <1>3, <1>4, <1>5, <1>6, <1>7, <1>8, ChildWrites, ChildEnds
     DEF OnWindows!Next, OnWindows!Parent, OnWindows!Child, OnWindows!Streams, Both

LEMMA RunInvariant ==
  ASSUME NallAssumption
  PROVE  Spec => []RunInv
<1>1. Init => RunInv
  BY RunInit
<1>2. RunInv /\ [Next]_vars => RunInv'
  <2> SUFFICES ASSUME RunInv, [Next]_vars PROVE RunInv'
    OBVIOUS
  <2>1. UNCHANGED runVars /\ scenario' = scenario => RunInv'
    BY DEF RunInv, RunTypeOK, NothingIsLost, AtTheStart, ReadThenWaited, WaitedThenRead, runVars
  <2> QED
    BY <2>1, RunPart, PosixStep, WindowsStep
<1> QED
  BY <1>1, <1>2, PTL DEF Spec

(* execute() returns all that the program wrote, in whatever order the     *)
(* program's writes, its end and the reads come, and only after it ended;  *)
(* on Windows a success is that of a program that ran and ended by itself  *)
(* (nall/run.hpp, execute()).                                              *)
THEOREM OutputComesWhole == Spec => []OutputIsComplete
<1>1. RunInv => OutputIsComplete
  <2> SUFFICES ASSUME RunInv PROVE OutputIsComplete
    OBVIOUS
  <2>1. ASSUME parent = "done", result \in {"success", "failure"}
        PROVE  child # "running" /\ collected = wrote
    <3>1. child # "running" /\ pipe["out"] = <<>> /\ pipe["err"] = <<>>
      BY <2>1 DEF RunInv, ReadThenWaited, WaitedThenRead
    <3>2. \A s \in Both : wrote[s] = collected[s]
      <4> TAKE s \in Both
      <4>1. collected[s] \in Seq(Nat) /\ pipe[s] = <<>>
        BY <3>1 DEF RunInv, RunTypeOK, Both
      <4>2. collected[s] \o <<>> = collected[s]
        BY <4>1
      <4> QED BY <4>1, <4>2 DEF RunInv, NothingIsLost
    <3> QED BY <3>1, <3>2 DEF RunInv, RunTypeOK
  <2>2. scenario = "windows" => OnWindows!SuccessMeansRan
    BY DEF RunInv, WaitedThenRead, OnWindows!SuccessMeansRan
  <2> QED
    BY <2>1, <2>2 DEF OutputIsComplete, OnPosix!OutputIsComplete, OnWindows!OutputIsComplete
<1> QED
  BY <1>1, RunInvariant, NallAssumption, PTL

-------------------------------------------------------------------------------
(* Induction, of a set of numbers: a set with 0 that has the successor of  *)
(* each of its numbers has them all.  Otherwise adding 1 were an injection *)
(* of the finite set of those below one that is missing, and not onto it.  *)
LEMMA NatSet ==
  ASSUME NEW S, 0 \in S, \A n \in Nat : n \in S => n + 1 \in S
  PROVE  \A n \in Nat : n \in S
<1> SUFFICES ASSUME NEW n \in Nat, n \notin S PROVE FALSE
  OBVIOUS
<1> DEFINE A == (0 .. n) \cap S
           f == [k \in A |-> k + 1]
<1>1. \A k \in A : k \in Nat /\ k + 1 \in A
  <2> TAKE k \in A
  <2>1. k \in Nat /\ k <= n /\ k \in S /\ k # n OBVIOUS
  <2> QED BY <2>1
<1>2. f \in Injection(A, A)
  <2>1. f \in [A -> A] BY <1>1
  <2>2. \A a, b \in A : f[a] = f[b] => a = b BY <1>1
  <2> QED BY <2>1, <2>2 DEF Injection, IsInjective
<1>3. IsFiniteSet(A)
  <2>1. IsFiniteSet(0 .. n) BY FS_Interval
  <2> QED BY <2>1, FS_Intersection
<1>4. f \in Surjection(A, A)
  BY <1>2, <1>3, FS_Injection
<1>5. PICK k \in A : f[k] = 0
  <2>1. 0 \in A OBVIOUS
  <2> QED BY <1>4, <2>1 DEF Surjection
<1> QED
  BY <1>1, <1>5

(* Division with remainder.                                                *)
LEMMA Division ==
  ASSUME NEW P \in Nat \ {0}
  PROVE  \A o \in Nat : \E q \in Nat, r \in 0 .. P - 1 : o = q * P + r
<1> DEFINE S == {o \in Nat : \E q \in Nat, r \in 0 .. P - 1 : o = q * P + r}
<1>1. 0 \in S
  <2>1. 0 \in Nat /\ 0 \in 0 .. P - 1 /\ 0 = 0 * P + 0 OBVIOUS
  <2> QED BY <2>1
<1>2. \A n \in Nat : n \in S => n + 1 \in S
  <2> SUFFICES ASSUME NEW n \in Nat, n \in S PROVE n + 1 \in S
    OBVIOUS
  <2>1. PICK q \in Nat, r \in 0 .. P - 1 : n = q * P + r
    OBVIOUS
  <2>2. CASE r + 1 < P
    <3>1. r + 1 \in 0 .. P - 1 /\ n + 1 = q * P + (r + 1)
      BY <2>1, <2>2
    <3> QED BY <3>1
  <2>3. CASE r + 1 >= P
    <3>1. PICK a \in Nat : a = q + 1
      OBVIOUS
    <3>2. 0 \in 0 .. P - 1 /\ n + 1 = a * P + 0
      BY <2>1, <2>3, <3>1
    <3>3. \E y \in 0 .. P - 1 : n + 1 = a * P + y
      BY <3>2
    <3>4. \E x \in Nat, y \in 0 .. P - 1 : n + 1 = x * P + y
      BY <3>3, Zenon
    <3> QED BY <3>4
  <2> QED BY <2>2, <2>3
<1> HIDE DEF S
<1>3. \A n \in Nat : n \in S
  BY <1>1, <1>2, NatSet
<1> QED
  BY <1>3 DEF S

LEMMA Remainder ==
  ASSUME NEW P \in Nat, P > 0, NEW q \in Nat, NEW r \in Nat, r < P,
         NEW o \in Nat, o = q * P + r
  PROVE  o % P = r
OBVIOUS

IsPage(b) == \E k \in Nat : b = k * Page

LEMMA PageOfOffset ==
  ASSUME NallAssumption, NEW o \in Nat
  PROVE  /\ IsPage(File!PageOf(o)) /\ File!PageOf(o) \in Nat
         /\ o % Page \in 0 .. Page - 1
         /\ o = File!PageOf(o) + (o % Page)
<1>1. Page \in Nat \ {0}
  BY DEF NallAssumption, File!PageAssumption
<1>2. PICK q \in Nat, r \in 0 .. Page - 1 : o = q * Page + r
  BY <1>1, Division
<1>3. o % Page = r
  BY <1>1, <1>2
<1>4. q * Page \in Nat
  BY <1>1
<1>5. File!PageOf(o) = q * Page
  BY <1>2, <1>3, <1>4 DEF File!PageOf
<1> QED
  BY <1>2, <1>3, <1>4, <1>5 DEF IsPage

LEMMA RestOfPage ==
  ASSUME NallAssumption, NEW b \in Nat, IsPage(b), NEW n \in Nat, b <= n, n < b + Page
  PROVE  n % Page = n - b
<1>1. ASSUME NEW P \in Nat, P > 0, NEW k \in Nat, b = k * P, n < b + P
      PROVE  n % P = n - b
  <2>1. PICK r \in Nat : r = n - b
    OBVIOUS
  <2>2. r < P /\ n = k * P + r
    BY <1>1, <2>1
  <2>3. n % P = r
    BY <1>1, <2>2
  <2> QED BY <2>1, <2>3
<1>2. Page \in Nat /\ Page > 0
  BY DEF NallAssumption, File!PageAssumption
<1>3. PICK k \in Nat : b = k * Page
  BY DEF IsPage
<1> QED
  BY <1>1, <1>2, <1>3, Zenon

-------------------------------------------------------------------------------
(* An open file.  What it shows its user is the stream under a dirty page; *)
(* that page is contiguous to the stream's bytes, and the last of the file *)
(* if there are more bytes than on the stream.  A clean one is as on the   *)
(* stream.                                                                 *)
Values == Bytes \cup {Zero}

Files == [stream : Seq(Values), offset : Nat, size : Nat,
          buffer : [1 .. Page -> Values], base : Int, dirty : BOOLEAN]

(* The updates of a file, field by field.                                  *)
LEMMA WithPage ==
  ASSUME NEW f \in Files, NEW b \in Int
  PROVE  LET g == [f EXCEPT !.base = b]
         IN  /\ g \in Files /\ g.base = b /\ g.stream = f.stream /\ g.dirty = f.dirty
             /\ g.offset = f.offset /\ g.size = f.size /\ g.buffer = f.buffer
BY DEF Files

LEMMA WithBuffer ==
  ASSUME NEW f \in Files, NEW c \in [1 .. Page -> Values]
  PROVE  LET g == [f EXCEPT !.buffer = c]
         IN  /\ g \in Files /\ g.base = f.base /\ g.stream = f.stream /\ g.dirty = f.dirty
             /\ g.offset = f.offset /\ g.size = f.size /\ g.buffer = c
BY DEF Files

LEMMA WithOffset ==
  ASSUME NEW f \in Files, NEW o \in Nat
  PROVE  LET g == [f EXCEPT !.offset = o]
         IN  /\ g \in Files /\ g.base = f.base /\ g.stream = f.stream /\ g.dirty = f.dirty
             /\ g.offset = o /\ g.size = f.size /\ g.buffer = f.buffer
BY DEF Files

Shows(f) == IF f.dirty THEN File!Over(f.stream, f.base, f.buffer, File!Length(f)) ELSE f.stream

WellFormed(f) ==
  /\ f \in Files
  /\ f.offset <= f.size
  /\ \/ f.base = -1
     \/ f.base \in Nat /\ IsPage(f.base) /\ f.base <= f.size
  /\ ~f.dirty => f.size = Len(f.stream)
  /\ f.dirty => /\ mode # "read" /\ f.base # -1
                /\ f.base <= Len(f.stream) /\ Len(f.stream) <= f.size
                /\ f.size = Len(f.stream) \/ f.size <= f.base + Page
  /\ f.base # -1 /\ ~f.dirty =>
       \A i \in 1 .. Page : f.base + i <= Len(f.stream) => f.buffer[i] = f.stream[f.base + i]

LEMMA LengthOfPage ==
  ASSUME NallAssumption, NEW f \in Files, f.base \in Nat, IsPage(f.base), f.base <= f.size
  PROVE  File!Length(f) = (IF f.base + Page <= f.size THEN Page ELSE f.size - f.base)
<1>1. Page \in Nat \ {0} /\ f.size \in Nat
  BY DEF NallAssumption, File!PageAssumption, Files
<1>2. CASE f.base + Page <= f.size
  BY <1>2 DEF File!Length
<1>3. CASE ~(f.base + Page <= f.size)
  <2>1. f.size < f.base + Page
    BY <1>1, <1>3
  <2>2. f.size % Page = f.size - f.base
    BY <1>1, <2>1, RestOfPage
  <2> QED BY <1>3, <2>2 DEF File!Length
<1> QED BY <1>2, <1>3

(* All that a file with a page shows, by the page and the stream.          *)
LEMMA ShownAs ==
  ASSUME NallAssumption, NEW f, WellFormed(f), f.base # -1
  PROVE  Shows(f) = [i \in 1 .. f.size |-> IF i - f.base \in 1 .. Page
                                           THEN f.buffer[i - f.base] ELSE f.stream[i]]
<1>1. /\ f.base \in Nat /\ IsPage(f.base) /\ f.base <= f.size
      /\ f.size \in Nat /\ f.stream \in Seq(Values) /\ Len(f.stream) \in Nat
  BY DEF WellFormed, Files
<1>2. Page \in Nat \ {0}
  BY DEF NallAssumption, File!PageAssumption
<1>3. CASE f.dirty
  <2> DEFINE n == File!Length(f)
  <2>1. n = (IF f.base + Page <= f.size THEN Page ELSE f.size - f.base)
    BY <1>1, LengthOfPage DEF WellFormed
  <2>2. /\ f.base <= Len(f.stream) /\ Len(f.stream) <= f.size
        /\ f.size = Len(f.stream) \/ f.size <= f.base + Page
    BY <1>3 DEF WellFormed
  <2>3. (IF f.base + n > Len(f.stream) THEN f.base + n ELSE Len(f.stream)) = f.size
    BY <1>1, <1>2, <2>1, <2>2
  <2>4. \A i \in 1 .. f.size : (i - f.base \in 1 .. n) <=> (i - f.base \in 1 .. Page)
    BY <1>1, <1>2, <2>1
  <2>5. Shows(f) = [i \in 1 .. f.size |-> IF i - f.base \in 1 .. n
                                          THEN f.buffer[i - f.base] ELSE f.stream[i]]
    BY <1>3, <2>3 DEF Shows, File!Over
  <2> HIDE DEF n
  <2> QED BY <2>4, <2>5
<1>4. CASE ~f.dirty
  <2>1. f.size = Len(f.stream) /\ Shows(f) = f.stream
    BY <1>4 DEF WellFormed, Shows
  <2>2. \A i \in 1 .. Page : f.base + i <= Len(f.stream) => f.buffer[i] = f.stream[f.base + i]
    BY <1>4 DEF WellFormed
  <2>3. \A i \in 1 .. f.size : i - f.base \in 1 .. Page => f.buffer[i - f.base] = f.stream[i]
    <3> TAKE i \in 1 .. f.size
    <3> HAVE i - f.base \in 1 .. Page
    <3>1. f.base + (i - f.base) = i /\ i <= Len(f.stream)
      BY <1>1, <2>1
    <3> QED BY <2>2, <3>1
  <2>4. f.stream = [i \in 1 .. f.size |-> f.stream[i]]
    BY <1>1, <2>1
  <2> QED BY <2>1, <2>3, <2>4
<1> QED BY <1>3, <1>4

LEMMA ShownType ==
  ASSUME NallAssumption, NEW f, WellFormed(f)
  PROVE  Shows(f) \in Seq(Values) /\ Len(Shows(f)) = f.size
<1>1. CASE f.base = -1
  BY <1>1 DEF WellFormed, Shows, Files
<1>2. CASE f.base # -1
  <2>1. /\ f.base \in Nat /\ f.size \in Nat /\ f.stream \in Seq(Values)
        /\ f.buffer \in [1 .. Page -> Values] /\ Page \in Nat
    BY <1>2 DEF WellFormed, Files, NallAssumption, File!PageAssumption
  <2>2. \A i \in 1 .. f.size : i - f.base \notin 1 .. Page => i \in 1 .. Len(f.stream)
    BY <1>2, <2>1 DEF WellFormed
  <2>3. \A i \in 1 .. f.size :
          (IF i - f.base \in 1 .. Page THEN f.buffer[i - f.base] ELSE f.stream[i]) \in Values
    BY <2>1, <2>2
  <2>4. Shows(f) \in [1 .. f.size -> Values]
    BY <1>2, <2>3, ShownAs
  <2> QED BY <2>1, <2>4
<1> QED BY <1>1, <1>2

(* buffer_flush() leaves what is shown, and that on the stream.            *)
LEMMA Flushes ==
  ASSUME NallAssumption, NEW f, WellFormed(f)
  PROVE  LET g == File!buffer_flush(f)
         IN  /\ WellFormed(g) /\ ~g.dirty
             /\ g.stream = Shows(f) /\ Shows(g) = Shows(f)
             /\ g.size = f.size /\ g.offset = f.offset
<1> DEFINE g == File!buffer_flush(f)
<1>1. CASE f.dirty
  <2>1. mode # "read" /\ f.base \in Nat /\ f.base # -1
    BY <1>1 DEF WellFormed
  <2>2. g = [f EXCEPT !.stream = Shows(f), !.base = -1, !.dirty = FALSE]
    BY <1>1, <2>1 DEF File!buffer_flush, Shows, File!Invalid, WellFormed, Files
  <2>3. Shows(f) \in Seq(Values) /\ Len(Shows(f)) = f.size
    BY ShownType
  <2>4. /\ g \in Files /\ g.stream = Shows(f) /\ g.base = -1 /\ ~g.dirty
        /\ g.size = f.size /\ g.offset = f.offset
    <3>1. f \in Files /\ -1 \in Int /\ FALSE \in BOOLEAN
      BY DEF WellFormed
    <3>2. PICK d \in Seq(Values) : d = Shows(f)
      BY <2>3
    <3>3. PICK b \in Int : b = -1
      OBVIOUS
    <3>4. PICK x \in BOOLEAN : x = FALSE
      OBVIOUS
    <3> DEFINE e == [f EXCEPT !.stream = d, !.base = b, !.dirty = x]
    <3>5. /\ e \in Files /\ e.stream = d /\ e.base = b /\ e.dirty = x
          /\ e.size = f.size /\ e.offset = f.offset
      BY <3>1 DEF Files
    <3>6. g = e
      BY <2>2, <3>2, <3>3, <3>4
    <3> HIDE DEF e, g
    <3> QED BY <3>2, <3>3, <3>4, <3>5, <3>6
  <2>5. WellFormed(g)
    BY <2>3, <2>4 DEF WellFormed
  <2> QED BY <2>4, <2>5 DEF Shows
<1>2. CASE ~f.dirty
  <2>1. g = f
    BY <1>2 DEF File!buffer_flush
  <2> QED BY <1>2, <2>1 DEF Shows
<1> QED BY <1>1, <1>2

(* buffer_sync() leaves it too, and reads the page of the offset.          *)
LEMMA Synchronises ==
  ASSUME NallAssumption, NEW f, WellFormed(f)
  PROVE  LET g == File!buffer_sync(f)
         IN  /\ WellFormed(g) /\ Shows(g) = Shows(f)
             /\ g.base = File!PageOf(f.offset)
             /\ g.size = f.size /\ g.offset = f.offset
             /\ g.stream = f.stream \/ g.stream = Shows(f)
             /\ g.dirty => f.dirty
<1> DEFINE g == File!buffer_sync(f)
<1>1. CASE f.base = File!PageOf(f.offset)
  <2>1. g = f
    BY <1>1 DEF File!buffer_sync
  <2> QED BY <1>1, <2>1
<1>2. CASE f.base # File!PageOf(f.offset)
  <2> DEFINE h == File!buffer_flush(f)
             b == File!PageOf(f.offset)
             p == [h EXCEPT !.base = b]
  <2>1. /\ WellFormed(h) /\ ~h.dirty /\ h.stream = Shows(f) /\ h.size = f.size
        /\ h.offset = f.offset
    BY Flushes
  <2>2. b \in Nat /\ IsPage(b) /\ b <= f.offset /\ f.offset \in Nat /\ f.size \in Nat
        /\ b <= f.size /\ Page \in Nat \ {0}
    <3>1. f.offset \in Nat /\ f.size \in Nat /\ f.offset <= f.size
      BY DEF WellFormed, Files
    <3>2. b \in Nat /\ IsPage(b) /\ f.offset = b + (f.offset % Page) /\ f.offset % Page \in 0 .. Page - 1
      BY <3>1, PageOfOffset
    <3>3. Page \in Nat \ {0}
      BY DEF NallAssumption, File!PageAssumption
    <3> HIDE DEF b
    <3> QED BY <3>1, <3>2, <3>3
  <2> HIDE DEF h, b
  <2>3. p \in Files /\ p.base = b /\ p.size = f.size /\ p.stream = h.stream /\ p.offset = f.offset
          /\ ~p.dirty /\ p.buffer = h.buffer
    <3>1. h \in Files /\ b \in Int
      BY <2>1, <2>2 DEF WellFormed
    <3> QED BY <2>1, <3>1, WithPage DEF p
  <2>4. g = [p EXCEPT !.buffer = [i \in 1 .. Page |->
               IF i <= File!Length(p) /\ p.base + i <= Len(p.stream)
               THEN p.stream[p.base + i] ELSE p.buffer[i]]]
    <3>1. g = [p EXCEPT !.buffer = [i \in 1 .. Page |->
                IF i <= File!Length(p) /\ p.base + i <= Len(p.stream)
                THEN p.stream[p.base + i] ELSE @[i]]]
      BY <1>2 DEF File!buffer_sync, h, b
    <3> QED BY <3>1, <2>3 DEF Files
  <2>5. File!Length(p) = (IF b + Page <= f.size THEN Page ELSE f.size - b)
    BY <2>2, <2>3, LengthOfPage
  <2>6. Len(p.stream) = f.size /\ p.stream \in Seq(Values)
    BY <2>1, <2>3 DEF WellFormed, Files
  <2> HIDE DEF p
  <2> DEFINE c == [i \in 1 .. Page |-> IF b + i <= f.size THEN p.stream[b + i] ELSE p.buffer[i]]
  <2>7. g = [p EXCEPT !.buffer = c]
    <3>1. \A i \in 1 .. Page : (i <= File!Length(p) /\ p.base + i <= Len(p.stream)) <=> b + i <= f.size
      BY <2>2, <2>3, <2>5, <2>6
    <3>2. [i \in 1 .. Page |-> IF i <= File!Length(p) /\ p.base + i <= Len(p.stream)
                               THEN p.stream[p.base + i] ELSE p.buffer[i]] = c
      BY <2>3, <3>1
    <3> QED BY <2>4, <3>2
  <2>8. c \in [1 .. Page -> Values]
    <3>1. \A i \in 1 .. Page : b + i <= f.size => p.stream[b + i] \in Values
      BY <2>2, <2>6
    <3> QED BY <2>3, <3>1 DEF Files
  <2>9. \A i \in 1 .. Page : b + i <= f.size => c[i] = p.stream[b + i]
    OBVIOUS
  <2> HIDE DEF c, g
  <2>10. g \in Files /\ g.base = b /\ g.size = f.size /\ g.stream = p.stream /\ g.offset = f.offset
          /\ ~g.dirty /\ g.buffer = c
    BY <2>3, <2>7, <2>8 DEF Files
  <2>11. WellFormed(g)
    BY <2>2, <2>6, <2>9, <2>10 DEF WellFormed
  <2>12. Shows(g) = Shows(f) /\ g.stream = Shows(f)
    BY <2>1, <2>3, <2>10 DEF Shows
  <2> QED BY <2>10, <2>11, <2>12 DEF g, b
<1> QED BY <1>1, <1>2

(* A file whose offset moved is as it was.                                 *)
LEMMA Moved ==
  ASSUME NallAssumption, NEW f, WellFormed(f), NEW o \in Nat, o <= f.size
  PROVE  LET g == [f EXCEPT !.offset = o]
         IN  /\ WellFormed(g) /\ Shows(g) = Shows(f)
             /\ g.size = f.size /\ g.offset = o /\ g.stream = f.stream
<1> DEFINE g == [f EXCEPT !.offset = o]
<1>1. f \in Files
  BY DEF WellFormed
<1>2. /\ g \in Files /\ g.base = f.base /\ g.stream = f.stream /\ g.dirty = f.dirty
      /\ g.offset = o /\ g.size = f.size /\ g.buffer = f.buffer
  BY <1>1, WithOffset
<1> HIDE DEF g
<1>3. WellFormed(g)
  BY <1>2 DEF WellFormed
<1>4. Shows(g) = Shows(f)
  BY <1>2 DEF Shows, File!Length
<1> QED BY <1>2, <1>3, <1>4 DEF g

(* A byte that is written is shown at the offset, and nothing else is.     *)
LEMMA Puts ==
  ASSUME NallAssumption, NEW f, WellFormed(f), mode # "read", NEW b \in Values
  PROVE  LET g == File!Put(f, b)
         IN  /\ WellFormed(g)
             /\ g.offset = f.offset + 1
             /\ g.size = IF f.offset = f.size THEN f.size + 1 ELSE f.size
             /\ Shows(g) = [i \in 1 .. g.size |-> IF i = f.offset + 1 THEN b ELSE Shows(f)[i]]
             /\ g.stream = f.stream \/ g.stream = Shows(f)
<1> DEFINE h == File!buffer_sync(f)
           s == IF h.offset + 1 > h.size THEN h.offset + 1 ELSE h.size
           g == File!Put(f, b)
<1>1. /\ WellFormed(h) /\ Shows(h) = Shows(f) /\ h.base = File!PageOf(f.offset)
      /\ h.size = f.size /\ h.offset = f.offset
      /\ h.stream = f.stream \/ h.stream = Shows(f)
  BY Synchronises
<1>2. PICK o \in Nat, n \in Nat : o = f.offset /\ n = f.size /\ o <= n
  BY DEF WellFormed, Files
<1>3. PICK a \in Nat, r \in 0 .. Page - 1 :
        IsPage(a) /\ a = File!PageOf(o) /\ r = o % Page /\ o = a + r
  BY PageOfOffset
<1>4. g = [h EXCEPT !.buffer[(h.offset % Page) + 1] = b, !.dirty = TRUE,
                    !.offset = h.offset + 1, !.size = s]
  <2>1. g = [h EXCEPT !.buffer[(h.offset % Page) + 1] = b, !.dirty = TRUE,
                      !.offset = @ + 1, !.size = IF h.offset + 1 > @ THEN h.offset + 1 ELSE @]
    BY DEF File!Put
  <2> QED BY <2>1, <1>1 DEF WellFormed, Files
<1> HIDE DEF h
<1>5. /\ h \in Files /\ h.size = n /\ h.offset = o /\ h.base = a
      /\ h.stream \in Seq(Values) /\ Len(h.stream) \in Nat
  BY <1>1, <1>2, <1>3 DEF WellFormed, Files
<1>6. Page \in Nat \ {0} /\ r + 1 \in 1 .. Page /\ r \in Nat
  BY <1>3 DEF NallAssumption, File!PageAssumption
<1>7. PICK z \in Nat : z = s /\ z = (IF o = n THEN o + 1 ELSE n) /\ o + 1 <= z /\ n <= z
  BY <1>2, <1>5
<1>8. g = [h EXCEPT !.buffer[r + 1] = b, !.dirty = TRUE, !.offset = o + 1, !.size = z]
  BY <1>3, <1>4, <1>5, <1>7
<1> HIDE DEF s, g
<1>9. /\ g \in Files /\ g.base = a /\ g.stream = h.stream /\ g.dirty
      /\ g.offset = o + 1 /\ g.size = z /\ g.buffer = [h.buffer EXCEPT ![r + 1] = b]
  <2>1. PICK k \in 1 .. Page, p \in Nat : k = r + 1 /\ p = o + 1
    BY <1>2, <1>6
  <2> DEFINE e == [h EXCEPT !.buffer[k] = b, !.dirty = TRUE, !.offset = p, !.size = z]
  <2>2. /\ e \in Files /\ e.base = h.base /\ e.stream = h.stream /\ e.dirty
        /\ e.offset = p /\ e.size = z /\ e.buffer = [h.buffer EXCEPT ![k] = b]
    BY <1>5 DEF Files
  <2>3. g = e
    BY <1>8, <2>1
  <2> HIDE DEF e
  <2> QED BY <1>5, <2>1, <2>2, <2>3
<1>10. WellFormed(g)
  <2>1. PICK l \in Nat : l = Len(h.stream)
    BY <1>5
  <2>2. a <= l /\ l <= n /\ (n = l \/ n <= a + Page)
    <3>1. a <= n
      BY <1>2, <1>3
    <3> QED BY <1>1, <1>3, <1>5, <2>1, <3>1 DEF WellFormed
  <2>3. o + 1 <= a + Page
    BY <1>2, <1>3, <1>6
  <2>4. l <= z /\ (z = l \/ z <= a + Page)
    BY <1>2, <1>3, <1>6, <1>7, <2>2, <2>3
  <2>5. a # -1 /\ o + 1 <= z /\ a <= z
    BY <1>2, <1>3, <1>7
  <2> QED BY <1>3, <1>9, <2>1, <2>2, <2>4, <2>5 DEF WellFormed
<1>11. Shows(g) = [i \in 1 .. z |-> IF i = o + 1 THEN b ELSE Shows(f)[i]]
  <2>0. a # -1
    BY <1>3
  <2>1. Shows(g) = [i \in 1 .. z |-> IF i - a \in 1 .. Page THEN g.buffer[i - a] ELSE h.stream[i]]
    <3>1. Shows(g) = [i \in 1 .. g.size |-> IF i - g.base \in 1 .. Page
                                            THEN g.buffer[i - g.base] ELSE g.stream[i]]
      BY <1>9, <1>10, <2>0, ShownAs
    <3> QED BY <1>9, <3>1
  <2>2. Shows(f) = [i \in 1 .. n |-> IF i - a \in 1 .. Page THEN h.buffer[i - a] ELSE h.stream[i]]
    BY <1>1, <1>5, <2>0, ShownAs
  <2>3. ASSUME NEW i \in 1 .. z
        PROVE  (IF i - a \in 1 .. Page THEN g.buffer[i - a] ELSE h.stream[i])
               = (IF i = o + 1 THEN b ELSE Shows(f)[i])
    <3>1. h.buffer \in [1 .. Page -> Values]
      BY <1>5 DEF Files
    <3>2. CASE i = o + 1
      <4>1. i - a = r + 1
        BY <1>2, <1>3, <1>6, <3>2
      <4> QED BY <1>6, <1>9, <3>1, <3>2, <4>1
    <3>3. CASE i # o + 1
      <4>1. i \in 1 .. n
        BY <1>2, <1>7, <3>3
      <4>2. i - a # r + 1
        BY <1>2, <1>3, <1>6, <3>3
      <4> QED BY <1>9, <2>2, <3>1, <3>3, <4>1, <4>2
    <3> QED BY <3>2, <3>3
  <2> QED BY <2>1, <2>3
<1> QED BY <1>1, <1>2, <1>5, <1>7, <1>9, <1>10, <1>11 DEF g

(* Padding, a zero at a time.  The recursive function that does it exists. *)
LEMMA PaddingExists ==
  ASSUME NEW x, NEW N \in Nat
  PROVE  \E h : h = [n \in 0 .. N |-> IF n = 0 THEN x ELSE File!Put(h[n - 1], Zero)]
<1> DEFINE S == {m \in Nat : \E h : h = [n \in 0 .. m |-> IF n = 0 THEN x
                                                           ELSE File!Put(h[n - 1], Zero)]}
<1>1. 0 \in S
  <2> DEFINE h == [n \in 0 .. 0 |-> x]
  <2>1. h = [n \in 0 .. 0 |-> IF n = 0 THEN x ELSE File!Put(h[n - 1], Zero)]
    OBVIOUS
  <2> HIDE DEF h
  <2> QED BY <2>1
<1>2. \A m \in Nat : m \in S => m + 1 \in S
  <2> SUFFICES ASSUME NEW m \in Nat, m \in S PROVE m + 1 \in S
    OBVIOUS
  <2>1. PICK h : h = [n \in 0 .. m |-> IF n = 0 THEN x ELSE File!Put(h[n - 1], Zero)]
    OBVIOUS
  <2> DEFINE g == [n \in 0 .. m + 1 |-> IF n <= m THEN h[n] ELSE File!Put(h[m], Zero)]
  <2>2. ASSUME NEW n \in 0 .. m + 1
        PROVE  g[n] = (IF n = 0 THEN x ELSE File!Put(g[n - 1], Zero))
    <3>1. CASE n <= m
      <4>1. g[n] = h[n] /\ h[n] = (IF n = 0 THEN x ELSE File!Put(h[n - 1], Zero))
        BY <2>1, <3>1
      <4>2. n # 0 => g[n - 1] = h[n - 1]
        BY <3>1
      <4> QED BY <4>1, <4>2
    <3>2. CASE n = m + 1
      <4>1. g[n] = File!Put(h[m], Zero) /\ n - 1 = m /\ g[m] = h[m] /\ n # 0
        BY <3>2
      <4> QED BY <4>1
    <3> QED BY <3>1, <3>2
  <2>3. g = [n \in 0 .. m + 1 |-> IF n = 0 THEN x ELSE File!Put(g[n - 1], Zero)]
    BY <2>2
  <2> HIDE DEF g
  <2> QED BY <2>3
<1> HIDE DEF S
<1>3. N \in S
  BY <1>1, <1>2, NatSet
<1> QED BY <1>3 DEF S

Grown(s, k) == [i \in 1 .. Len(s) + k |-> IF i <= Len(s) THEN s[i] ELSE Zero]

PaddedBy(f, g, n) ==
  /\ WellFormed(g) /\ g.offset = f.size + n /\ g.size = f.size + n
  /\ Shows(g) = Grown(Shows(f), n)
  /\ g.stream = f.stream \/ \E k \in 0 .. n : g.stream = Grown(Shows(f), k)

LEMMA NothingGrown ==
  ASSUME NEW T, NEW s \in Seq(T)
  PROVE  Grown(s, 0) = s
BY DEF Grown

LEMMA PadsOne ==
  ASSUME NallAssumption, mode # "read", NEW f, WellFormed(f), NEW g, NEW n \in Nat,
         PaddedBy(f, g, n)
  PROVE  PaddedBy(f, File!Put(g, Zero), n + 1)
<1> DEFINE p == File!Put(g, Zero)
<1>1. PICK l \in Nat : l = f.size /\ l = Len(Shows(f))
  BY ShownType DEF WellFormed, Files
<1>2. /\ WellFormed(g) /\ g.offset = l + n /\ g.size = l + n /\ Shows(g) = Grown(Shows(f), n)
      /\ g.stream = f.stream \/ \E k \in 0 .. n : g.stream = Grown(Shows(f), k)
  BY <1>1 DEF PaddedBy
<1>3. /\ WellFormed(p) /\ p.offset = g.offset + 1
      /\ p.size = IF g.offset = g.size THEN g.size + 1 ELSE g.size
      /\ Shows(p) = [i \in 1 .. p.size |-> IF i = g.offset + 1 THEN Zero ELSE Shows(g)[i]]
      /\ p.stream = g.stream \/ p.stream = Shows(g)
  <2>1. Zero \in Values
    BY DEF Values
  <2> QED BY <1>2, <2>1, Puts
<1> HIDE DEF p
<1>4. p.offset = l + (n + 1) /\ p.size = l + (n + 1)
  BY <1>2, <1>3
<1>5. Shows(p) = [i \in 1 .. l + (n + 1) |-> IF i = l + n + 1 THEN Zero ELSE Grown(Shows(f), n)[i]]
  BY <1>2, <1>3, <1>4
<1>6. Shows(p) = Grown(Shows(f), n + 1)
  BY <1>1, <1>5 DEF Grown
<1>7. p.stream = f.stream \/ \E k \in 0 .. n + 1 : p.stream = Grown(Shows(f), k)
  <2>1. n \in 0 .. n + 1 /\ \A k \in 0 .. n : k \in 0 .. n + 1
    OBVIOUS
  <2> QED BY <1>2, <1>3, <2>1
<1> QED BY <1>1, <1>3, <1>4, <1>6, <1>7 DEF PaddedBy, p

LEMMA Pads ==
  ASSUME NallAssumption, mode # "read", NEW f, WellFormed(f), NEW to \in Nat, to > f.size
  PROVE  PaddedBy(f, File!Padded(f, to), to - f.size)
<1> DEFINE x == [f EXCEPT !.offset = f.size]
           N == to - f.size
           IsPadding(h) == h = [n \in 0 .. N |-> IF n = 0 THEN x ELSE File!Put(h[n - 1], Zero)]
           padding == CHOOSE h : IsPadding(h)
<1>1. f.size \in Nat /\ N \in Nat /\ ~(to <= f.size)
  BY DEF WellFormed, Files
<1>2. File!Padded(f, to) = padding[N]
  BY <1>1 DEF File!Padded
<1>3. IsPadding(padding)
  <2>1. \E h : IsPadding(h)
    <3>1. PICK M \in Nat : M = N
      BY <1>1
    <3>2. \A y : \E h : h = [n \in 0 .. M |-> IF n = 0 THEN y ELSE File!Put(h[n - 1], Zero)]
      BY PaddingExists
    <3> HIDE DEF x, N
    <3>3. \E h : h = [n \in 0 .. M |-> IF n = 0 THEN x ELSE File!Put(h[n - 1], Zero)]
      BY <3>2
    <3> QED BY <3>1, <3>3
  <2> QED BY <2>1
<1> HIDE DEF padding
<1> DEFINE S == {n \in Nat : n <= N => PaddedBy(f, padding[n], n)}
<1>4. 0 \in S
  <2>1. WellFormed(x) /\ Shows(x) = Shows(f) /\ x.size = f.size /\ x.offset = f.size /\ x.stream = f.stream
    BY <1>1, Moved
  <2>2. Grown(Shows(f), 0) = Shows(f)
    BY ShownType, NothingGrown
  <2>3. padding[0] = x
    BY <1>1, <1>3
  <2> HIDE DEF x
  <2>4. PaddedBy(f, x, 0)
    BY <1>1, <2>1, <2>2 DEF PaddedBy
  <2> QED BY <2>3, <2>4
<1>5. \A n \in Nat : n \in S => n + 1 \in S
  <2> SUFFICES ASSUME NEW n \in Nat, n \in S, n + 1 <= N PROVE PaddedBy(f, padding[n + 1], n + 1)
    OBVIOUS
  <2>1. PaddedBy(f, padding[n], n)
    BY <1>1
  <2>2. padding[n + 1] = File!Put(padding[n], Zero)
    <3>1. n + 1 \in 0 .. N /\ n + 1 # 0 /\ (n + 1) - 1 = n
      BY <1>1
    <3> QED BY <1>3, <3>1
  <2> QED BY <2>1, <2>2, PadsOne
<1> HIDE DEF S
<1>6. N \in S
  BY <1>1, <1>4, <1>5, NatSet
<1> QED BY <1>1, <1>2, <1>6 DEF S

-------------------------------------------------------------------------------
(* The states a file can be in: an open one is well-formed, and a closed   *)
(* one has no dirty page.                                                  *)
FileInv ==
  /\ mode \in File!Modes \cup {"closed"}
  /\ File!Here \in Files
  /\ mode = "closed" => ~buffer_dirty
  /\ mode # "closed" => WellFormed(File!Here)

LEMMA FileInit ==
  ASSUME NallAssumption, File!Init
  PROVE  FileInv
<1>1. Page \in Nat
  BY DEF NallAssumption, File!PageAssumption
<1>2. /\ stream \in Seq(Values) /\ file_offset \in Nat /\ file_size \in Nat
      /\ buffer \in [1 .. Page -> Values] /\ buffer_offset \in Int /\ buffer_dirty \in BOOLEAN
  <2>1. stream = <<>> /\ file_offset = 0 /\ file_size = 0 /\ buffer_offset = -1 /\ buffer_dirty = FALSE
    BY DEF File!Init, File!Invalid
  <2>2. buffer = [i \in 1 .. Page |-> Zero] /\ Zero \in Values
    BY DEF File!Init, Values
  <2>3. <<>> \in Seq(Values) /\ -1 \in Int
    OBVIOUS
  <2> QED BY <1>1, <2>1, <2>2, <2>3
<1>3. File!Here \in Files
  BY <1>2 DEF File!Here, Files
<1> QED BY <1>3 DEF File!Init, FileInv

(* What the properties of BufferedFile.tla call the content.               *)
LEMMA ContentShown ==
  ASSUME FileInv
  PROVE  File!Content = Shows(File!Here)
<1>1. /\ File!Here.dirty = buffer_dirty /\ File!Here.stream = stream
      /\ File!Here.base = buffer_offset /\ File!Here.buffer = buffer
  BY DEF File!Here
<1>2. buffer_dirty \in BOOLEAN
  BY <1>1 DEF FileInv, Files
<1> QED BY <1>1, <1>2 DEF FileInv, Shows, File!Content

LEMMA ContentShownNext ==
  ASSUME FileInv'
  PROVE  File!Content' = Shows(File!Here')
<1>1. /\ (File!Here').dirty = buffer_dirty' /\ (File!Here').stream = stream'
      /\ (File!Here').base = buffer_offset' /\ (File!Here').buffer = buffer'
  BY DEF File!Here
<1>2. buffer_dirty' \in BOOLEAN
  BY <1>1 DEF FileInv, Files
<1> QED BY <1>1, <1>2 DEF FileInv, Shows, File!Content

(* An operation on an open file that ends in g.                            *)
LEMMA Becomes ==
  ASSUME FileInv, mode # "closed", mode' = mode, NEW g, WellFormed(g), File!There(g)
  PROVE  /\ FileInv' /\ File!Content' = Shows(g)
         /\ stream' = g.stream /\ file_offset' = g.offset
<1>1. g \in Files
  BY DEF WellFormed
<1>2. File!Here' = g
  BY <1>1 DEF File!There, File!Here, Files
<1>3. WellFormed(File!Here)'
  BY <1>2 DEF WellFormed
<1>4. FileInv'
  BY <1>1, <1>2, <1>3 DEF FileInv
<1> QED BY <1>2, <1>4, ContentShownNext DEF File!There

LEMMA HereIs ==
  /\ File!Here.offset = file_offset /\ File!Here.size = file_size
  /\ File!Here.dirty = buffer_dirty /\ File!Here.stream = stream
  /\ File!Here.base = buffer_offset /\ File!Here.buffer = buffer
BY DEF File!Here

(* What every step keeps, of the plain file and of the stream.             *)
PlainStep == [File!Plain!Next]_(File!Plain!vars)
StreamStep  ==
  stream' # stream =>
    \/ stream' = File!Content'
    \/ File!IsPrefix(File!Content, stream') /\ File!IsPrefix(stream', File!Content')
    \/ stream' = File!Content
FileStep  == FileInv' /\ PlainStep /\ StreamStep

LEMMA FileOpens ==
  ASSUME NallAssumption, FileInv, NEW m \in File!Modes, File!Open(m)
  PROVE  FileStep
<1>1. m \in {"read", "write", "modify", "append"} /\ mode = "closed" /\ mode' = m /\ ~buffer_dirty
  BY DEF File!Open, FileInv, File!Modes
<1>2. File!Content = stream
  BY <1>1 DEF File!Content
<1>3. /\ stream' = (IF m \in {"write", "append"} THEN <<>> ELSE stream)
      /\ file_offset' = 0 /\ file_size' = Len(stream') /\ buffer_offset' = -1
      /\ buffer' = buffer /\ buffer_dirty' = buffer_dirty /\ value' = value
  BY DEF File!Open, File!Invalid
<1>4. /\ stream \in Seq(Values) /\ buffer \in [1 .. Page -> Values] /\ buffer_dirty \in BOOLEAN
  BY HereIs DEF FileInv, Files
<1>5. stream' \in Seq(Values) /\ Len(stream') \in Nat
  BY <1>3, <1>4
<1>6. File!Here' = [stream |-> stream', offset |-> 0, size |-> Len(stream'),
                    buffer |-> buffer, base |-> -1, dirty |-> buffer_dirty]
  BY <1>3 DEF File!Here
<1>7. File!Here' \in Files
  BY <1>4, <1>5, <1>6 DEF Files
<1>8. WellFormed(File!Here)'
  BY <1>1, <1>5, <1>6, <1>7 DEF WellFormed
<1>9. FileInv'
  BY <1>1, <1>7, <1>8 DEF FileInv, File!Modes
<1>10. File!Content' = stream'
  BY <1>1, <1>3 DEF File!Content
<1>11. File!Plain!Open(m)
  BY <1>1, <1>2, <1>3, <1>10 DEF File!Plain!Open
<1>12. File!Plain!Next
  BY <1>11 DEF File!Plain!Next, File!Plain!Modes, File!Modes
<1> QED BY <1>9, <1>10, <1>12 DEF FileStep, PlainStep, StreamStep

LEMMA FileReads ==
  ASSUME NallAssumption, FileInv, File!Read
  PROVE  FileStep
<1>1. mode # "closed" /\ mode' = mode /\ WellFormed(File!Here)
  BY DEF File!Read, FileInv
<1>2. /\ File!Content = Shows(File!Here) /\ Len(Shows(File!Here)) = file_size
      /\ Shows(File!Here) \in Seq(Values)
  BY <1>1, ContentShown, ShownType, HereIs
<1>3. file_offset \in Nat /\ file_size \in Nat /\ file_offset <= file_size
  BY <1>1, HereIs DEF WellFormed, Files
<1>4. CASE mode = "write" \/ file_offset >= file_size
  <2>1. value' = NoByte /\ File!There(File!Here)
    BY <1>4 DEF File!Read
  <2>2. FileInv' /\ File!Content' = File!Content /\ stream' = stream /\ file_offset' = file_offset
    BY <1>1, <1>2, <2>1, Becomes, HereIs
  <2>3. File!Plain!Read
    BY <1>1, <1>2, <1>3, <1>4, <2>1, <2>2 DEF File!Plain!Read
  <2> QED BY <2>2, <2>3 DEF FileStep, PlainStep, StreamStep, File!Plain!Next
<1>5. CASE ~(mode = "write" \/ file_offset >= file_size)
  <2> DEFINE g == File!buffer_sync(File!Here)
             o == g.offset + 1
             h == [g EXCEPT !.offset = o]
  <2>1. /\ WellFormed(g) /\ Shows(g) = Shows(File!Here)
        /\ g.base = File!PageOf(file_offset)
        /\ g.size = file_size /\ g.offset = file_offset
        /\ g.stream = stream \/ g.stream = Shows(File!Here)
    BY <1>1, Synchronises, HereIs
  <2>2. /\ value' = g.buffer[(g.offset % Page) + 1]
        /\ File!There([g EXCEPT !.offset = @ + 1])
    BY <1>5 DEF File!Read
  <2>3. File!There(h)
    BY <2>1, <2>2 DEF WellFormed, Files
  <2> HIDE DEF g
  <2>4. o \in Nat /\ o <= g.size /\ o = file_offset + 1
    BY <1>3, <1>5, <2>1
  <2>5. WellFormed(h) /\ Shows(h) = Shows(g) /\ h.offset = o /\ h.stream = g.stream
    BY <2>1, <2>4, Moved
  <2> HIDE DEF h
  <2>6. /\ FileInv' /\ File!Content' = File!Content
        /\ stream' = stream \/ stream' = File!Content
        /\ file_offset' = file_offset + 1
    BY <1>1, <1>2, <2>1, <2>3, <2>4, <2>5, Becomes
  <2>7. value' = File!Content[file_offset + 1]
    <3>1. PICK a \in Nat, r \in 0 .. Page - 1 :
            a = File!PageOf(file_offset) /\ r = file_offset % Page /\ file_offset = a + r
      BY <1>3, PageOfOffset
    <3>2. g.base = a /\ a # -1 /\ Page \in Nat
      BY <2>1, <3>1 DEF NallAssumption, File!PageAssumption
    <3>3. Shows(g) = [i \in 1 .. g.size |-> IF i - g.base \in 1 .. Page
                                            THEN g.buffer[i - g.base] ELSE g.stream[i]]
      BY <2>1, <3>2, ShownAs
    <3>4. value' = g.buffer[r + 1]
      BY <2>1, <2>2, <3>1
    <3>5. /\ file_offset + 1 \in 1 .. g.size /\ (file_offset + 1) - a = r + 1
          /\ r + 1 \in 1 .. Page
      BY <1>3, <2>1, <2>4, <3>1, <3>2
    <3>6. Shows(g)[file_offset + 1] = g.buffer[r + 1]
      BY <3>2, <3>3, <3>5
    <3> QED BY <1>2, <2>1, <3>4, <3>6
  <2>8. File!Plain!Read
    BY <1>1, <1>2, <1>3, <1>5, <2>6, <2>7 DEF File!Plain!Read
  <2> QED BY <2>6, <2>8 DEF FileStep, PlainStep, StreamStep, File!Plain!Next
<1> QED BY <1>4, <1>5

LEMMA FileWrites ==
  ASSUME NallAssumption, FileInv, NEW b \in Bytes, File!Write(b)
  PROVE  FileStep
<1>1. /\ mode \notin {"closed", "read"} /\ mode' = mode /\ value' = value
      /\ WellFormed(File!Here) /\ File!There(File!Put(File!Here, b)) /\ file_offset < MaxLength
  BY DEF File!Write, FileInv
<1>2. /\ File!Content = Shows(File!Here) /\ Len(Shows(File!Here)) = file_size
      /\ Shows(File!Here) \in Seq(Values)
  BY <1>1, ContentShown, ShownType, HereIs
<1>3. file_offset \in Nat /\ file_size \in Nat /\ file_offset <= file_size
  BY <1>1, HereIs DEF WellFormed, Files
<1> DEFINE g == File!Put(File!Here, b)
<1>4. /\ WellFormed(g)
      /\ g.offset = file_offset + 1
      /\ g.size = IF file_offset = file_size THEN file_size + 1 ELSE file_size
      /\ Shows(g) = [i \in 1 .. g.size |-> IF i = file_offset + 1 THEN b ELSE File!Content[i]]
      /\ g.stream = stream \/ g.stream = File!Content
  <2>1. b \in Values /\ mode # "read"
    BY <1>1 DEF Values
  <2>2. /\ WellFormed(g)
        /\ g.offset = File!Here.offset + 1
        /\ g.size = IF File!Here.offset = File!Here.size THEN File!Here.size + 1 ELSE File!Here.size
        /\ Shows(g) = [i \in 1 .. g.size |-> IF i = File!Here.offset + 1 THEN b
                                             ELSE Shows(File!Here)[i]]
        /\ g.stream = File!Here.stream \/ g.stream = Shows(File!Here)
    BY <1>1, <2>1, Puts
  <2> HIDE DEF g
  <2> QED BY <1>2, <2>2, HereIs
<1> HIDE DEF g
<1>5. FileInv' /\ File!Content' = Shows(g) /\ stream' = g.stream /\ file_offset' = g.offset
  BY <1>1, <1>4, Becomes DEF g
<1>6. File!Plain!Write(b)
  <2>1. Len(File!Content) = file_size
    BY <1>2
  <2>2. (IF file_offset = Len(File!Content) THEN file_offset + 1 ELSE Len(File!Content)) = g.size
    BY <1>3, <1>4, <2>1
  <2> QED BY <1>1, <1>3, <1>4, <1>5, <2>1, <2>2 DEF File!Plain!Write
<1> QED BY <1>4, <1>5, <1>6 DEF FileStep, PlainStep, StreamStep, File!Plain!Next

LEMMA FileFlushes ==
  ASSUME NallAssumption, FileInv, File!Flush \/ File!Close
  PROVE  FileStep
<1>1. /\ mode # "closed" /\ mode' \in {mode, "closed"} /\ value' = value
      /\ WellFormed(File!Here) /\ File!There(File!buffer_flush(File!Here))
      /\ mode \in File!Modes
  BY DEF File!Flush, File!Close, FileInv
<1> DEFINE g == File!buffer_flush(File!Here)
<1>2. /\ WellFormed(g) /\ ~g.dirty /\ g.stream = File!Content /\ Shows(g) = File!Content
      /\ g.offset = file_offset
  BY <1>1, Flushes, ContentShown, HereIs
<1>3. File!There(g)
  BY <1>1
<1> HIDE DEF g
<1>4. CASE mode' = mode
  <2>1. FileInv' /\ File!Content' = File!Content /\ stream' = File!Content /\ file_offset' = file_offset
    BY <1>1, <1>2, <1>3, <1>4, Becomes
  <2>2. UNCHANGED File!Plain!vars
    BY <1>1, <1>4, <2>1 DEF File!Plain!vars
  <2> QED BY <2>1, <2>2 DEF FileStep, PlainStep, StreamStep
<1>5. CASE mode' = "closed"
  <2>1. g \in Files
    BY <1>2 DEF WellFormed
  <2>2. File!Here' = g
    BY <1>3, <2>1 DEF File!There, File!Here, Files
  <2>3. ~buffer_dirty' /\ stream' = File!Content /\ file_offset' = file_offset
    BY <1>2, <1>3 DEF File!There
  <2>4. FileInv'
    BY <1>5, <2>1, <2>2, <2>3 DEF FileInv
  <2>5. File!Content' = File!Content
    BY <2>3 DEF File!Content
  <2>6. File!Plain!Close
    BY <1>1, <1>5, <2>3, <2>5 DEF File!Plain!Close
  <2> QED BY <2>3, <2>4, <2>5, <2>6 DEF FileStep, PlainStep, StreamStep, File!Plain!Next
<1> QED BY <1>1, <1>4, <1>5

(* What is padded has all that was there, and zeros.                       *)
LEMMA GrownIs ==
  ASSUME NEW T, NEW s \in Seq(T), NEW k \in Nat
  PROVE  Grown(s, k) = s \o File!Plain!Zeros(k)
BY DEF Grown, File!Plain!Zeros

LEMMA NoZeros ==
  ASSUME NEW T, NEW s \in Seq(T), NEW k \in Int, k <= 0
  PROVE  s \o File!Plain!Zeros(k) = s
<1>1. File!Plain!Zeros(k) = <<>>
  BY DEF File!Plain!Zeros
<1> QED BY <1>1

LEMMA GrownPrefix ==
  ASSUME NEW T, NEW s \in Seq(T), NEW k \in Nat, NEW n \in Nat, k <= n, Zero \in T
  PROVE  File!IsPrefix(Grown(s, k), Grown(s, n))
<1>1. /\ Grown(s, k) \in Seq(T) /\ Grown(s, n) \in Seq(T)
      /\ Len(Grown(s, k)) = Len(s) + k /\ Len(Grown(s, n)) = Len(s) + n /\ Len(s) \in Nat
      /\ \A i \in 1 .. Len(s) + k : Grown(s, k)[i] = Grown(s, n)[i]
  BY DEF Grown
<1> DEFINE a == Grown(s, k)
           b == Grown(s, n)
<1> HIDE DEF a, b
<1>2. /\ a \in Seq(T) /\ b \in Seq(T) /\ Len(a) \in Nat /\ Len(a) <= Len(b)
      /\ \A i \in 1 .. Len(a) : a[i] = b[i]
  BY <1>1 DEF a, b
<1>3. File!IsPrefix(a, b)
  BY <1>2 DEF File!IsPrefix
<1> QED BY <1>3 DEF a, b

LEMMA FileSeeks ==
  ASSUME NallAssumption, FileInv, NEW by \in Seeks, NEW relative \in BOOLEAN,
         File!Seek(by, relative)
  PROVE  FileStep
<1> DEFINE f  == File!buffer_flush(File!Here)
           to == File!Target(by, relative)
           C  == File!Content
<1>1. /\ mode # "closed" /\ mode' = mode /\ value' = value /\ WellFormed(File!Here)
      /\ to <= MaxLength
      /\ File!There(IF mode = "read"
                    THEN [f EXCEPT !.offset = IF to > f.size THEN f.size ELSE to]
                    ELSE [File!Padded(f, to) EXCEPT !.offset = to])
  BY DEF File!Seek, FileInv
<1>2. C = Shows(File!Here) /\ Len(C) = file_size /\ C \in Seq(Values)
  BY <1>1, ContentShown, ShownType, HereIs
<1>3. file_offset \in Nat /\ file_size \in Nat
  BY <1>1, HereIs DEF WellFormed, Files
<1>4. to \in Nat /\ to \in -1 .. MaxLength
  <2>1. by \in Int /\ MaxLength \in Nat
    BY DEF NallAssumption, File!PageAssumption
  <2> QED BY <1>1, <1>3, <2>1 DEF File!Target
<1>5. WellFormed(f) /\ f.stream = C /\ Shows(f) = C /\ f.size = file_size
  BY <1>1, <1>2, Flushes, HereIs
<1> HIDE DEF f, to, C
<1>6. ASSUME File!Plain!SeekTo(to) PROVE PlainStep
  BY <1>4, <1>6 DEF PlainStep, File!Plain!Next
<1>7. CASE mode = "read" \/ to <= file_size
  <2>1. PICK o \in Nat : o = IF to > file_size THEN file_size ELSE to
    BY <1>3, <1>4
  <2> DEFINE g == [f EXCEPT !.offset = o]
  <2>2. File!There(g)
    <3>1. CASE mode = "read"
      BY <1>1, <1>5, <2>1, <3>1
    <3>2. CASE mode # "read"
      <4>1. to <= file_size /\ o = to
        BY <1>3, <1>4, <1>7, <2>1, <3>2
      <4>2. File!Padded(f, to) = f
        BY <1>5, <4>1 DEF File!Padded
      <4> QED BY <1>1, <3>2, <4>1, <4>2
    <3> QED BY <3>1, <3>2
  <2>3. WellFormed(g) /\ Shows(g) = C /\ g.offset = o /\ g.stream = C
    <3>1. o <= f.size
      BY <1>3, <1>4, <1>5, <2>1
    <3> QED BY <1>5, <3>1, Moved
  <2> HIDE DEF g
  <2>4. FileInv' /\ File!Content' = C /\ stream' = C /\ file_offset' = o
    BY <1>1, <2>2, <2>3, Becomes
  <2>5. mode # "read" => C \o File!Plain!Zeros(to - Len(C)) = C
    <3> SUFFICES ASSUME mode # "read" PROVE C \o File!Plain!Zeros(to - Len(C)) = C
      OBVIOUS
    <3>1. to - Len(C) \in Int /\ to - Len(C) <= 0
      BY <1>2, <1>3, <1>4, <1>7
    <3> QED BY <1>2, <3>1, NoZeros
  <2>6. File!Plain!SeekTo(to)
    BY <1>1, <1>2, <1>3, <1>4, <1>7, <2>1, <2>4, <2>5 DEF File!Plain!SeekTo, C
  <2> QED BY <1>6, <2>4, <2>6 DEF FileStep, StreamStep, C
<1>8. CASE mode # "read" /\ to > file_size
  <2> DEFINE p == File!Padded(f, to)
             n == to - file_size
             g == [p EXCEPT !.offset = to]
  <2>1. n \in Nat /\ file_size + n = to
    BY <1>3, <1>4, <1>8
  <2>2. /\ WellFormed(p) /\ p.size = to /\ Shows(p) = Grown(C, n)
        /\ p.stream = C \/ \E k \in 0 .. n : p.stream = Grown(C, k)
    <3>1. PaddedBy(f, p, n)
      BY <1>4, <1>5, <1>8, Pads
    <3> QED BY <1>5, <2>1, <3>1 DEF PaddedBy
  <2>3. File!There(g)
    BY <1>1, <1>8
  <2> HIDE DEF p, n
  <2>4. WellFormed(g) /\ Shows(g) = Grown(C, n) /\ g.offset = to /\ g.stream = p.stream
    BY <1>4, <2>2, Moved
  <2> HIDE DEF g
  <2>5. FileInv' /\ File!Content' = Grown(C, n) /\ stream' = p.stream /\ file_offset' = to
    BY <1>1, <2>3, <2>4, Becomes
  <2>6. File!Plain!SeekTo(to)
    <3>1. n = to - Len(C) /\ ~(to < 0)
      BY <1>2, <1>4 DEF n
    <3>2. File!Content' = C \o File!Plain!Zeros(to - Len(C))
      BY <1>2, <2>1, <2>5, <3>1, GrownIs
    <3> QED BY <1>1, <1>8, <2>5, <3>1, <3>2 DEF File!Plain!SeekTo, C
  <2>7. StreamStep
    <3>1. CASE p.stream = C
      BY <2>5, <3>1 DEF StreamStep, C
    <3>2. CASE \E k \in 0 .. n : p.stream = Grown(C, k)
      <4>1. PICK k \in 0 .. n : p.stream = Grown(C, k)
        BY <3>2
      <4>2. k \in Nat /\ k <= n /\ Zero \in Values
        BY <2>1 DEF Values
      <4>3. File!IsPrefix(Grown(C, 0), Grown(C, k)) /\ File!IsPrefix(Grown(C, k), Grown(C, n))
        BY <1>2, <2>1, <4>2, GrownPrefix
      <4>4. Grown(C, 0) = C
        BY <1>2, NothingGrown
      <4> QED BY <2>5, <4>1, <4>3, <4>4 DEF StreamStep, C
    <3> QED BY <2>2, <3>1, <3>2
  <2> QED BY <1>6, <2>5, <2>6, <2>7 DEF FileStep
<1> QED BY <1>3, <1>4, <1>7, <1>8

LEMMA FileMoves ==
  ASSUME NallAssumption, FileInv, [Next]_vars
  PROVE  FileStep
<1>1. CASE FileNext
  BY <1>1, FileOpens, FileReads, FileWrites, FileSeeks, FileFlushes
     DEF FileNext, File!Next
<1>2. CASE UNCHANGED fileVars
  <2>1. FileInv'
    <3>1. File!Here' = File!Here /\ mode' = mode /\ buffer_dirty' = buffer_dirty
      BY <1>2 DEF fileVars, File!Here
    <3> QED BY <3>1 DEF FileInv, WellFormed
  <2>2. UNCHANGED File!Plain!vars
    BY <1>2 DEF fileVars, File!Plain!vars, File!Content, File!Over, File!Length, File!Here
  <2> QED BY <1>2, <2>1, <2>2 DEF fileVars, FileStep, PlainStep, StreamStep
<1> QED BY <1>1, <1>2 DEF Next, RunNext, OnWhich, vars

(* The buffered file is the plain one, and what the C library was given is *)
(* all that was written up to some moment: of every sequence of reads,     *)
(* writes, seeks and flushes of any page size (src/nall/file.hpp:8-368).   *)
THEOREM FileIsPlain == Spec => IsPlainFile
<1>1. Init => FileInv
  BY FileInit, NallAssumption DEF Init
<1>2. Init => File!Plain!Init
  BY DEF Init, File!Init, File!Plain!Init, File!Content
<1>3. FileInv /\ [Next]_vars => FileInv' /\ PlainStep
  BY FileMoves, NallAssumption DEF FileStep
<1>4. FileInv /\ [Next]_vars => [StreamStep]_(File!vars)
  BY FileMoves, NallAssumption DEF FileStep
<1>5. Spec => File!IsPlainFile
  BY <1>1, <1>2, <1>3, PTL DEF Spec, File!IsPlainFile, File!Plain!Spec, PlainStep
<1>6. Spec => File!WrittenInOrder
  BY <1>1, <1>3, <1>4, PTL DEF Spec, File!WrittenInOrder, StreamStep
<1> QED
  BY <1>5, <1>6 DEF IsPlainFile
===============================================================================
