---------------------------- MODULE LivePty_proofs ----------------------------
(***************************************************************************)
(* Theorems about LivePty, for every set of sizes, every capacity of the   *)
(* kernel's buffer and every amount of output.                             *)
(*                                                                         *)
(* What the owner has done to the child is known from where it is in       *)
(* terminate or Drop (Stages), and what the reader has taken from where it *)
(* is in its loop (Reading).  Stages gives NothingLeft, Reading gives      *)
(* OutputComplete; SizesAgree is inductive as it stands.                   *)
(***************************************************************************)
EXTENDS LivePty, TLAPS

Stages ==
    /\ owner = "unborn" => child = "none" /\ reader = "none" /\ ~joined
    /\ owner \notin {"unborn", "gone"} => child # "none"
    /\ owner = "waiting" => child = "exited"
    /\ owner = "joining" => child = "reaped"
    /\ joined => reader \in ReaderEnded

Reading ==
    /\ reader \in {"none", "reading"} => parsed = taken
    /\ reader = "finished" => parsed = printed /\ ~TerminalOpen

(* Every reachable state is well typed: the reader takes only what has been *)
(* printed and parses only what it has taken.                               *)
THEOREM PtyTypeCorrect == Spec => []TypeOK
<1> USE PtyAssumption DEF TypeOK, ReaderEnded
<1> DEFINE Counts == printed \in 0..MaxOutput /\ taken \in 0..printed /\ parsed \in 0..taken
           Flags == job \in BOOLEAN /\ poisoned \in BOOLEAN /\ dropping \in BOOLEAN /\ joined \in BOOLEAN
           Places == /\ child \in {"none", "running", "exited", "reaped"}
                     /\ reader \in ReaderEnded \cup {"reading", "parsing"}
                     /\ winsize \in PtySize /\ bufsize \in PtySize
                     /\ owner \in {"unborn", "idle", "resizing", "writing", "killing", "waiting",
                                   "joining", "gone"}
                     /\ result \in {"none", "ok", "err"}
<1>1. Init => TypeOK
  <2> SUFFICES ASSUME Init PROVE TypeOK
    OBVIOUS
  <2>1. Counts
    BY DEF Init
  <2>2. job \in BOOLEAN /\ poisoned \in BOOLEAN /\ dropping \in BOOLEAN /\ joined \in BOOLEAN
    BY Zenon DEF Init
  <2> QED
    BY <2>1, <2>2 DEF Init
<1>2. TypeOK /\ [Next]_vars => TypeOK'
  <2> SUFFICES ASSUME TypeOK, [Next]_vars PROVE TypeOK'
    OBVIOUS
  <2> USE DEF output, sizes, calls
  <2>1. CASE Spawn \/ SpawnFails
    BY <2>1 DEF Spawn, SpawnFails
  <2>2. CASE Emit \/ StartJob \/ JobEnds \/ ChildExits
    <3>1. Counts'
      BY <2>2 DEF Emit, StartJob, JobEnds, ChildExits
    <3>2. job' \in BOOLEAN
      BY <2>2, Zenon DEF Emit, StartJob, JobEnds, ChildExits
    <3> QED
      BY <2>2, <3>1, <3>2 DEF Emit, StartJob, JobEnds, ChildExits
  <2>3. CASE Read
    BY <2>3 DEF Read
  <2>4. CASE ReadEnd \/ Parse \/ ParsePanics \/ ReadFails
    <3>1. Counts'
      BY <2>4 DEF ReadEnd, Parse, ParsePanics, ReadFails
    <3>2. poisoned' \in BOOLEAN
      BY <2>4, Zenon DEF ReadEnd, Parse, ParsePanics, ReadFails
    <3> QED
      BY <2>4, <3>1, <3>2 DEF ReadEnd, Parse, ParsePanics, ReadFails
  <2>5. CASE \E size \in PtySize : Resize(size)
    BY <2>5 DEF Resize
  <2>6. CASE ResizeBuffer \/ ResizePanics
    <3>1. Counts'
      BY <2>6 DEF ResizeBuffer, ResizePanics
    <3>2. Flags'
      BY <2>6, Zenon DEF ResizeBuffer, ResizePanics
    <3>3. Places'
      BY <2>6 DEF ResizeBuffer, ResizePanics
    <3> QED
      BY <3>1, <3>2, <3>3
  <2>7. CASE Write \/ WriteEnds \/ TryWait
    BY <2>7 DEF Write, WriteEnds, TryWait, Reaped
  <2>8. CASE Terminate \/ TerminateFails \/ Drop
    <3>1. Counts'
      BY <2>8 DEF Terminate, TerminateFails, Drop, Finish, Reaped
    <3>2. Flags'
      BY <2>8, Zenon DEF Terminate, TerminateFails, Drop, Finish, Reaped
    <3>3. Places'
      BY <2>8 DEF Terminate, TerminateFails, Drop, Finish, Reaped
    <3> QED
      BY <3>1, <3>2, <3>3
  <2>9. CASE Kill \/ Wait \/ FinishReader
    <3>1. Counts'
      BY <2>9 DEF Kill, Wait, FinishReader
    <3>2. Flags'
      BY <2>9, Zenon DEF Kill, Wait, FinishReader
    <3>3. Places'
      BY <2>9 DEF Kill, Wait, FinishReader
    <3> QED
      BY <3>1, <3>2, <3>3
  <2>10. CASE UNCHANGED vars
    BY <2>10 DEF vars
  <2> QED
    BY <2>1, <2>2, <2>3, <2>4, <2>5, <2>6, <2>7, <2>8, <2>9, <2>10
       DEF Next, ReaderStep, FinishStep
<1> QED
  BY <1>1, <1>2, PTL DEF Spec

LEMMA StagesInvariant == Spec => []Stages
<1> USE DEF Stages, ReaderEnded
<1>1. Init => Stages
  BY DEF Init
<1>2. Stages /\ TypeOK /\ [Next]_vars => Stages'
  <2> SUFFICES ASSUME Stages, TypeOK, [Next]_vars PROVE Stages'
    OBVIOUS
  <2> USE DEF output, sizes, calls
  <2>1. CASE Spawn \/ SpawnFails
    BY <2>1 DEF Spawn, SpawnFails
  <2>2. CASE Emit \/ StartJob \/ JobEnds \/ ChildExits
    BY <2>2 DEF Emit, StartJob, JobEnds, ChildExits
  <2>3. CASE Read \/ ReadEnd \/ Parse \/ ParsePanics \/ ReadFails
    BY <2>3 DEF Read, ReadEnd, Parse, ParsePanics, ReadFails
  <2>4. CASE (\E size \in PtySize : Resize(size)) \/ ResizeBuffer \/ ResizePanics
    BY <2>4 DEF Resize, ResizeBuffer, ResizePanics
  <2>5. CASE Write \/ WriteEnds \/ TryWait
    BY <2>5 DEF Write, WriteEnds, TryWait, Reaped
  <2>6. CASE Terminate \/ TerminateFails \/ Drop
    BY <2>6 DEF Terminate, TerminateFails, Drop, Finish, Reaped, TypeOK
  <2>7. CASE Kill \/ Wait \/ FinishReader
    BY <2>7 DEF Kill, Wait, FinishReader
  <2>8. CASE UNCHANGED vars
    BY <2>8 DEF vars
  <2> QED
    BY <2>1, <2>2, <2>3, <2>4, <2>5, <2>6, <2>7, <2>8
       DEF Next, ReaderStep, FinishStep
<1> QED
  BY <1>1, <1>2, PtyTypeCorrect, PTL DEF Spec

(* A LivePty that is gone has left neither a shell nor a zombie nor a       *)
(* reader thread, whichever of its calls failed before.                     *)
THEOREM PtyCleanedUp == Spec => []NothingLeft
<1>1. Stages /\ NothingLeft /\ [Next]_vars => NothingLeft'
  <2> SUFFICES ASSUME Stages, NothingLeft, [Next]_vars, owner' = "gone"
               PROVE  child' \in {"none", "reaped"} /\ reader' \in ReaderEnded
    BY DEF NothingLeft, ReaderEnded
  <2> USE DEF output, sizes, calls
  <2>1. CASE owner = "gone"
    <3>1. child \in {"none", "reaped"} /\ reader \in ReaderEnded
      BY <2>1 DEF NothingLeft
    <3> QED
      BY <2>1, <3>1 DEF Next, ReaderStep, FinishStep, vars, ReaderEnded, Spawn, SpawnFails,
         Emit, StartJob, JobEnds, ChildExits, Read, ReadEnd, ReadFails, Parse, ParsePanics,
         Resize, ResizeBuffer, ResizePanics, Write, WriteEnds, TryWait, Terminate,
         TerminateFails, Drop, Kill, Wait, FinishReader
  <2>2. CASE owner # "gone" /\ SpawnFails
    BY <2>2 DEF SpawnFails, Stages, ReaderEnded
  <2>3. CASE owner # "gone" /\ FinishReader
    BY <2>3 DEF FinishReader, Stages, ReaderEnded
  <2> QED
    BY <2>1, <2>2, <2>3 DEF Next, ReaderStep, FinishStep, vars, Finish, Spawn,
       Emit, StartJob, JobEnds, ChildExits, Read, ReadEnd, ReadFails, Parse, ParsePanics,
       Resize, ResizeBuffer, ResizePanics, Write, WriteEnds, TryWait, Terminate,
       TerminateFails, Drop, Kill, Wait
<1>2. Init => NothingLeft
  BY DEF Init, NothingLeft
<1> QED
  BY <1>1, <1>2, StagesInvariant, PTL DEF Spec

LEMMA ReadingInvariant == Spec => []Reading
<1> USE DEF Reading, TerminalOpen
<1>1. Init => Reading
  BY DEF Init
<1>2. Reading /\ Stages /\ TypeOK /\ [Next]_vars => Reading'
  <2> SUFFICES ASSUME Reading, Stages, TypeOK, [Next]_vars PROVE Reading'
    OBVIOUS
  <2> USE DEF output, sizes, calls
  <2>1. CASE Spawn \/ SpawnFails
    BY <2>1 DEF Spawn, SpawnFails, Stages
  <2>2. CASE Emit \/ StartJob \/ JobEnds \/ ChildExits
    BY <2>2 DEF Emit, StartJob, JobEnds, ChildExits
  <2>3. CASE Read \/ ReadEnd \/ Parse \/ ParsePanics \/ ReadFails
    BY <2>3 DEF Read, ReadEnd, Parse, ParsePanics, ReadFails
  <2>4. CASE (\E size \in PtySize : Resize(size)) \/ ResizeBuffer \/ ResizePanics
    BY <2>4 DEF Resize, ResizeBuffer, ResizePanics
  <2>5. CASE Write \/ WriteEnds \/ TryWait
    BY <2>5 DEF Write, WriteEnds, TryWait, Reaped
  <2>6. CASE Terminate \/ TerminateFails \/ Drop
    BY <2>6 DEF Terminate, TerminateFails, Drop, Finish, Reaped
  <2>7. CASE Kill \/ Wait \/ FinishReader
    BY <2>7 DEF Kill, Wait, FinishReader
  <2>8. CASE UNCHANGED vars
    BY <2>8 DEF vars
  <2> QED
    BY <2>1, <2>2, <2>3, <2>4, <2>5, <2>6, <2>7, <2>8
       DEF Next, ReaderStep, FinishStep
<1> QED
  BY <1>1, <1>2, PtyTypeCorrect, StagesInvariant, PTL DEF Spec

(* The terminate that joins the reader returns Ok only when nothing the     *)
(* pane's programs printed is missing from the buffer.                      *)
THEOREM NoOutputLost == Spec => OutputComplete
<1>1. Reading /\ [Next]_vars =>
        [~dropping /\ ~joined /\ joined' /\ result' = "ok" =>
           parsed' = printed' /\ ~TerminalOpen']_vars
  <2> SUFFICES ASSUME Reading, [Next]_vars, ~dropping, ~joined, joined', result' = "ok"
               PROVE  parsed' = printed' /\ ~TerminalOpen'
    OBVIOUS
  <2>1. FinishReader
    BY DEF Next, ReaderStep, FinishStep, vars, output, sizes, calls, Spawn, SpawnFails,
       Emit, StartJob, JobEnds, ChildExits, Read, ReadEnd, ReadFails, Parse, ParsePanics,
       Resize, ResizeBuffer, ResizePanics, Write, WriteEnds, TryWait, Terminate,
       TerminateFails, Drop, Kill, Wait
  <2>2. reader = "finished"
    BY <2>1 DEF FinishReader
  <2> QED
    BY <2>1, <2>2 DEF FinishReader, Reading, TerminalOpen, output
<1> QED
  BY <1>1, ReadingInvariant, PTL DEF Spec, OutputComplete

(* Between two calls PTY and buffer agree on their size unless the buffer's *)
(* lock is poisoned.                                                        *)
THEOREM SizesInStep == Spec => []SizesAgree
<1> USE DEF SizesAgree
<1>1. Init => SizesAgree
  BY DEF Init
<1>2. SizesAgree /\ [Next]_vars => SizesAgree'
  BY DEF Next, ReaderStep, FinishStep, vars, output, sizes, calls, Spawn, SpawnFails,
     Emit, StartJob, JobEnds, ChildExits, Read, ReadEnd, ReadFails, Parse, ParsePanics,
     Resize, ResizeBuffer, ResizePanics, Write, WriteEnds, TryWait, Terminate, Finish,
     TerminateFails, Drop, Kill, Wait, FinishReader
<1> QED
  BY <1>1, <1>2, PTL DEF Spec

==============================================================================
