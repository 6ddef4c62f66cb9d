-------------------------------- MODULE LivePty --------------------------------
(***************************************************************************)
(* One pane's PTY, LivePty of crates/novamux/src/live_pty.rs: the shell,   *)
(* the reader thread that parses its output into the TerminalBuffer, and   *)
(* the owner that resizes, writes, terminates and drops.  Shell, reader    *)
(* and owner run concurrently; the owner's waits are steps of their own.   *)
(*                                                                         *)
(* Output is counted in pieces: of those printed to the terminal, the      *)
(* kernel holds the ones not yet taken, and the reader has parsed a prefix *)
(* of the ones taken.  A terminal is at its end for the reader only when   *)
(* no process has it open any more, and a job that the shell has left in   *)
(* the background still has.                                               *)
(***************************************************************************)
EXTENDS Naturals

CONSTANTS PtySize,   \* sizes of a pane
          MaxOutput, \* bound: pieces of output printed
          Capacity   \* pieces of output the kernel holds

ASSUME PtyAssumption ==
    /\ MaxOutput \in Nat
    /\ Capacity \in Nat \ {0}

VARIABLES child,   \* the shell; "exited" is not reaped yet
          job,     \* a background job has the terminal open
          printed, taken, parsed, \* output
          reader,  \* the reader thread
          poisoned,\* the lock of the TerminalBuffer is poisoned
          winsize, \* the size of the PTY
          bufsize, \* the size of the TerminalBuffer
          owner,   \* what the owner is in
          dropping,\* the owner is in Drop
          joined,  \* reader_thread has been taken and joined
          result   \* what the latest call of terminate returned

output == <<printed, taken, parsed>>
sizes == <<winsize, bufsize>>
calls == <<owner, dropping, joined, result>>
vars == <<child, job, printed, taken, parsed, reader, poisoned, winsize, bufsize,
          owner, dropping, joined, result>>

ReaderEnded == {"none", "finished", "failed", "panicked"}

TypeOK ==
    /\ child \in {"none", "running", "exited", "reaped"}
    /\ job \in BOOLEAN
    /\ printed \in 0..MaxOutput /\ taken \in 0..printed /\ parsed \in 0..taken
    /\ reader \in ReaderEnded \cup {"reading", "parsing"}
    /\ poisoned \in BOOLEAN
    /\ winsize \in PtySize /\ bufsize \in PtySize
    /\ owner \in {"unborn", "idle", "resizing", "writing", "killing", "waiting",
                  "joining", "gone"}
    /\ dropping \in BOOLEAN /\ joined \in BOOLEAN
    /\ result \in {"none", "ok", "err"}

TerminalOpen == child = "running" \/ job

Init ==
    /\ child = "none" /\ job = FALSE
    /\ printed = 0 /\ taken = 0 /\ parsed = 0
    /\ reader = "none" /\ poisoned = FALSE
    /\ winsize \in PtySize /\ bufsize = winsize
    /\ owner = "unborn" /\ dropping = FALSE /\ joined = FALSE
    /\ result = "none"

------------------------------------------------------------------------------
(* spawn_in. *)
Spawn ==
    /\ owner = "unborn"
    /\ child' = "running"
    /\ reader' = "reading"
    /\ owner' = "idle"
    /\ UNCHANGED <<job, output, poisoned, sizes, dropping, joined, result>>

(* No directory, PTY or shell; or no thread for the reader, which kills and *)
(* reaps the shell again.                                                   *)
SpawnFails ==
    /\ owner = "unborn"
    /\ child' \in {"none", "reaped"}
    /\ owner' = "gone"
    /\ UNCHANGED <<job, output, reader, poisoned, sizes, dropping, joined, result>>

------------------------------------------------------------------------------
(* The processes on the terminal. *)
Emit ==
    /\ TerminalOpen
    /\ printed < MaxOutput
    /\ printed - taken < Capacity
    /\ printed' = printed + 1
    /\ UNCHANGED <<child, job, taken, parsed, reader, poisoned, sizes, calls>>

StartJob ==
    /\ child = "running"
    /\ job' = TRUE
    /\ UNCHANGED <<child, output, reader, poisoned, sizes, calls>>

JobEnds ==
    /\ job
    /\ job' = FALSE
    /\ UNCHANGED <<child, output, reader, poisoned, sizes, calls>>

ChildExits ==
    /\ child = "running"
    /\ child' = "exited"
    /\ UNCHANGED <<job, output, reader, poisoned, sizes, calls>>

------------------------------------------------------------------------------
(* read_output, the body of the reader thread. *)
Read ==
    /\ reader = "reading"
    /\ taken < printed
    /\ taken' \in (taken + 1)..printed
    /\ reader' = "parsing"
    /\ UNCHANGED <<child, job, printed, parsed, poisoned, sizes, calls>>

(* read returns 0. *)
ReadEnd ==
    /\ reader = "reading"
    /\ taken = printed
    /\ ~TerminalOpen
    /\ reader' = "finished"
    /\ UNCHANGED <<child, job, output, poisoned, sizes, calls>>

ReadFails ==
    /\ reader = "reading"
    /\ reader' = "failed"
    /\ UNCHANGED <<child, job, output, poisoned, sizes, calls>>

(* Mutant of Parse: the whole array is processed, not the bytes read. *)
ParseWhole ==
    /\ reader = "parsing"
    /\ parsed' = taken + 1
    /\ reader' = "reading"
    /\ UNCHANGED <<child, job, printed, taken, poisoned, sizes, calls>>

(* TerminalBuffer::process under its lock; a poisoned one ends the thread. *)
Parse ==
    /\ reader = "parsing"
    /\ IF poisoned THEN reader' = "failed" /\ UNCHANGED parsed
                   ELSE reader' = "reading" /\ parsed' = taken
    /\ UNCHANGED <<child, job, printed, taken, poisoned, sizes, calls>>

(* It panics, which ends the thread and poisons the lock. *)
ParsePanics ==
    /\ reader = "parsing"
    /\ ~poisoned
    /\ reader' = "panicked"
    /\ poisoned' = TRUE
    /\ UNCHANGED <<child, job, output, sizes, calls>>

------------------------------------------------------------------------------
(* The owner. *)

(* Mutant of Resize: the buffer first, and then the PTY, which may fail. *)
ResizeBufferFirst(size) ==
    /\ owner = "idle"
    /\ ~poisoned
    /\ bufsize' = size
    /\ winsize' \in {winsize, size}
    /\ UNCHANGED <<child, job, output, reader, poisoned, calls>>

(* resize: MasterPty::resize, which may fail and then changes nothing; *)
Resize(size) ==
    /\ owner = "idle"
    /\ winsize' = size
    /\ owner' = "resizing"
    /\ UNCHANGED <<child, job, output, reader, poisoned, bufsize, dropping, joined, result>>

(* then the buffer, under its lock. *)
ResizeBuffer ==
    /\ owner = "resizing"
    /\ bufsize' = IF poisoned THEN bufsize ELSE winsize
    /\ owner' = "idle"
    /\ UNCHANGED <<child, job, output, reader, poisoned, winsize, dropping, joined, result>>

(* TerminalBuffer::resize panics; the session that owns the pane stays. *)
ResizePanics ==
    /\ owner = "resizing"
    /\ ~poisoned
    /\ bufsize' \in {bufsize, winsize}
    /\ poisoned' = TRUE
    /\ owner' = "idle"
    /\ UNCHANGED <<child, job, output, reader, winsize, dropping, joined, result>>

(* write: the shell takes the bytes, at a time of its own choice, or the    *)
(* write fails.                                                             *)
Write ==
    /\ owner = "idle"
    /\ owner' = "writing"
    /\ UNCHANGED <<child, job, output, reader, poisoned, sizes, dropping, joined, result>>

WriteEnds ==
    /\ owner = "writing"
    /\ owner' = "idle"
    /\ UNCHANGED <<child, job, output, reader, poisoned, sizes, dropping, joined, result>>

(* try_wait reaps a shell that has exited. *)
Reaped == IF child = "exited" THEN "reaped" ELSE child

TryWait ==
    /\ owner = "idle"
    /\ child' = Reaped
    /\ UNCHANGED <<job, output, reader, poisoned, sizes, calls>>

(* Mutant of Finish: the reader is waited for before the shell is killed. *)
FinishJoinsFirst ==
    /\ child' = Reaped
    /\ owner' = "joining"

(* terminate and drop begin alike, with try_wait. *)
Finish ==
    /\ child' = Reaped
    /\ owner' = IF child = "running" THEN "killing" ELSE "joining"

Terminate ==
    /\ owner = "idle"
    /\ Finish
    /\ UNCHANGED <<job, output, reader, poisoned, sizes, dropping, joined, result>>

(* terminate returns at once when the shell cannot be queried, killed or    *)
(* reaped; Drop goes on.                                                    *)
TerminateFails ==
    /\ owner \in {"idle", "killing", "waiting"}
    /\ ~dropping
    /\ owner' = "idle"
    /\ result' = "err"
    /\ UNCHANGED <<child, job, output, reader, poisoned, sizes, dropping, joined>>

Drop ==
    /\ owner = "idle"
    /\ Finish
    /\ dropping' = TRUE
    /\ UNCHANGED <<job, output, reader, poisoned, sizes, joined, result>>

(* A process may always kill its own child; one that has just exited is     *)
(* left as it is.                                                           *)
Kill ==
    /\ owner = "killing"
    /\ child' = "exited"
    /\ owner' = "waiting"
    /\ UNCHANGED <<job, output, reader, poisoned, sizes, dropping, joined, result>>

(* Mutant of Wait: Drop does not wait for the killed shell. *)
WaitSkipped ==
    /\ owner = "waiting"
    /\ owner' = "joining"
    /\ UNCHANGED <<child, job, output, reader, poisoned, sizes, dropping, joined, result>>

Wait ==
    /\ owner = "waiting"
    /\ child = "exited"
    /\ child' = "reaped"
    /\ owner' = "joining"
    /\ UNCHANGED <<job, output, reader, poisoned, sizes, dropping, joined, result>>

(* Mutant of FinishReader: what the joined thread returned is ignored. *)
FinishReaderIgnores ==
    /\ owner = "joining"
    /\ joined \/ reader \in ReaderEnded
    /\ joined' = TRUE
    /\ owner' = IF dropping THEN "gone" ELSE "idle"
    /\ result' = IF dropping THEN result ELSE "ok"
    /\ UNCHANGED <<child, job, output, reader, poisoned, sizes, dropping>>

(* finish_reader: the thread is joined once; a second call finds none.      *)
(* terminate returns the reader's error, Drop ignores it.                   *)
FinishReader ==
    /\ owner = "joining"
    /\ joined \/ reader \in ReaderEnded
    /\ joined' = TRUE
    /\ owner' = IF dropping THEN "gone" ELSE "idle"
    /\ result' = IF dropping THEN result
                 ELSE IF joined \/ reader = "finished" THEN "ok" ELSE "err"
    /\ UNCHANGED <<child, job, output, reader, poisoned, sizes, dropping>>

------------------------------------------------------------------------------
ReaderStep == Read \/ ReadEnd \/ Parse \/ ParsePanics
FinishStep == ResizeBuffer \/ Kill \/ Wait \/ FinishReader

Next ==
    \/ Spawn \/ SpawnFails
    \/ Emit \/ StartJob \/ JobEnds \/ ChildExits
    \/ ReaderStep \/ ReadFails
    \/ \E size \in PtySize : Resize(size)
    \/ ResizePanics \/ Write \/ WriteEnds \/ TryWait
    \/ Terminate \/ TerminateFails \/ Drop
    \/ FinishStep

Spec == Init /\ [][Next]_vars

(* The reader thread and the owner's calls run; nothing makes a program end *)
(* or take input.                                                           *)
FairSpec == Spec /\ WF_vars(ReaderStep) /\ WF_vars(FinishStep)

------------------------------------------------------------------------------
(* The terminate that joins the reader returns Ok only if everything the     *)
(* pane's programs ever printed is in the TerminalBuffer and no more can    *)
(* come: a look at a terminated pane misses nothing.                        *)
OutputComplete ==
    [][~dropping /\ ~joined /\ joined' /\ result' = "ok" =>
         parsed' = printed' /\ ~TerminalOpen']_vars

(* docs/ARCHITECTURE.md, Invariants: a LivePty "reaps its child during      *)
(* explicit or automatic cleanup"; nor is its reader left behind.           *)
NothingLeft ==
    owner = "gone" => child \in {"none", "reaped"} /\ reader \in ReaderEnded

(* Between two calls PTY and buffer have the same size, whatever failed,    *)
(* unless the buffer cannot be reached any more.                            *)
SizesAgree == owner # "resizing" /\ ~poisoned => winsize = bufsize

(* terminate and Drop come to an end once no background job has the         *)
(* terminal open.                                                           *)
Finishing == owner \in {"killing", "waiting", "joining"}
TerminateReturns == <>[](~job) => (Finishing ~> ~Finishing)

==============================================================================
