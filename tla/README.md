# NovaMux: formal models

NovaMux is a terminal multiplexer in Rust. `novamux start` runs panes inside the
terminal it is started in; `novamux new/list/attach` talk to one session daemon
per user over a private socket. These TLA+ modules model the parts whose
correctness depends on orders of events: who holds a session, which daemon owns
the endpoint, what happens to panes, shells and PTYs when a step fails, and what
a key does. TLC checks them on small instances; TLAPS proves the most important
properties for all values of the constants. `PROJECT.json` maps every
definition to the lines it translates and lists runs, mutants, hazards,
findings and theorems.

    tlc -config MCSessionService.cfg MCSessionService     # a run
    tlapm SessionService_proofs.tla                       # a proof

## Inventory

Paths are below `crates/`.

### Session daemon (`novamux/src/session_service.rs`)
State: one mutex around the table of sessions; for each a tree of panes, the
registry of their PTYs and the flag `attached`; a thread per connection.
Operations: accept (and refuse a peer of another user), read one request,
`dispatch` Ping/List/Create, reserve a session on Attach, `attached_loop` with
Snapshot, Input, Resize, Command and Detach, release.
Hard: the check and the set of `attached` against other threads; writes to
clients and calls into PTYs with the only mutex held; clients that vanish at any
byte; reads that time out; a daemon that ends with requests in flight.
Correct when: a session is held by one client at a time, a reservation ends with
its thread, nobody else disturbs a session, every waiting client gets its answer.

### Clients (`session_service.rs`, `novamux/src/tui.rs`)
State: a stream and the request in flight. One-shot commands send one request;
`run_attached` attaches, then alternates requests and answers until it detaches,
fails, or goes away. Correct when an answer is always that of the request just
sent, although neither carries a number.

### Private endpoint (`novamux/src/session_transport.rs`)
State: the runtime directory, what stands at `control.sock`, which process
listens on it, the identity each daemon recorded for its `Drop`.
Operations: prepare, bind, listen, chmod, recovery of a stale socket (probe,
inspect, unlink, bind again), drop; autostart and retry of a client.
Hard: other starters, other programs and crashes between any two of these system calls.
Correct when: one daemon serves where clients look, stale sockets do not stop a
start, what is no socket of the user is removed only between a daemon's check and
its removal, a request is never executed twice.

### Pane tree, layout, registry, hosted session (`novamux-core/src/lib.rs`, `session_service.rs`)
State: a binary tree of splits, the focused pane, the next identifier; PTYs by
pane. Operations: split, focus next, close, lay out, reconcile, resize, snapshot.
Hard: a spawn or resize that fails half way through, identifiers over long
histories, odd and empty rectangles and `u16` saturation.
Correct when: PTYs and panes correspond whatever failed, a screen tiles the
viewport, the documented invariants of a session hold.

### Live PTY (`novamux/src/live_pty.rs`)
State: the shell, the reader thread, the terminal buffer under a lock, sizes.
Operations: spawn, read and parse, resize, write, try_wait, terminate, drop.
Hard: joining a reader that ends only when nobody has the terminal open,
poisoned locks, early returns.
Correct when: no shell, zombie or thread is left, output is not lost, PTY and
buffer agree on their size, terminate ends.

### Local application (`tui.rs`, `novamux-core/src/input.rs`, `copy_mode.rs`, `screensaver.rs`)
State: session and PTYs as above; a pending prefix; copy mode and its offset;
the screensaver. One thread: draw, wait for an event, route the bytes of a key,
close a pane whose shell has exited.
Hard: shells exit while anything else happens; a close that works through the
focus; modes that swallow keys.
Correct when: keys act only where the user sees them act, no shell outlives its
pane or the application, exited panes are closed and no others.

### Protocol codec (`novamux-core/src/protocol.rs`)
No state. Operations: encode and decode of nine requests and seven responses
within limits of a frame, a field and a count.
Hard: a length, a count or a text that one side accepts and the other does not.
Correct when: what one side decodes is what the other encoded, and no part,
extension or small change of a frame passes for another message.

### Attached client's screen (`tui.rs::run_attached`, `session_service.rs`)
State: the latest response, screensaver, copy mode, pending prefix, and the
stream. Operations: load the configuration, probe, attach, draw, wait for an
event, route the bytes of a key, exchange, detach; on the daemon's side read,
dispatch, serve, answer.
Hard: frames in pieces, reads that time out, events that send nothing, screens
too large for a frame.
Correct when: the answer at hand is the one to the latest request, every screen
fits but for too many panes, an undisturbed attachment does not time out.

### Configuration (`novamux/src/config.rs`)
No state after the start. Operations: read a bounded file, parse its lines.
Hard: order of themes and colours, byte ranges of a colour, line numbers.
Correct when: the first bad line is named, and a loaded value is what its lines say.

### Other parts
Terminal buffer (`novamux-terminal/src/lib.rs`): vt100 parsing, clamped viewports,
search. Drawing (`tui.rs`, `screensaver.rs`): output without state. Command line
(`main.rs`): `new`, `list`, `attach` and `start` as above, and `shell`, which relays one PTY.

Interactions: clients and daemon by one message at a time over a stream; daemon
threads by the mutex; a hosted session and the local application call LivePty;
LivePty's reader shares the terminal buffer with its owner; starters meet only
in the file system.

## Modules

| Module | Models | Correspondence |
|---|---|---|
| `SessionService` | daemon threads, table, mutex, clients | a slot of `Conn` is a client, its socket and its thread; `pc` is where the thread blocks; a critical section is a step between blocking calls |
| `Attachment` | what the daemon promises of reservations | abstract; implemented by `SessionService` |
| `Endpoint` | binding, recovery, drop, autostart | one action per system call; a socket is named for the process that bound it; `Substitute` is another program that replaces or removes what stands at the path, and `surprised` remembers which daemons have not looked since |
| `PaneTree` | tree operations and layout | a tree is its leaves: the panes in visual order and the way to each from the root; the operators say at once what the source's recursion does leaf by leaf |
| `PaneNode` | the same tree as nodes | the recursive functions as in the source; TLC only, and `NodesFollow` ties them to `PaneTree` |
| `HostedSession` | sessions with PTYs in the daemon | one action per command, one for every failure inside it |
| `PaneOrder` | what a session promises of order, focus, identifiers | abstract; implemented by `HostedSession`, used by `LocalApp` |
| `LivePty` | one pane's shell, reader and owner | each blocking call of the owner is a step of its own |
| `Codec` | frames of requests and responses | text is its bytes; a reader returns its value and the bytes after it, or fails |
| `Configuration` | reading and parsing the file | a fold over lines; a line is what `parse` tells apart of it |
| `AttachedClient` | one client from start to end, its socket, and the daemon's thread for it | uses `Codec` and `Configuration`; `pc` is the client's place, `dpc` the thread's; a write is carried in pieces |
| `LocalApp` | the event loop of `novamux start` | `pc` is the part of the loop; a key's bytes are routed one by one; a close is two steps, the pane's leaving the tree and `Terminate` of its PTY, between which other shells may exit and at the second of which it may fail |
| `*_proofs` | theorems | see below |
| `MC*` | instances for TLC | |

Definitions under a comment "Mutant of X" are changes of X that a plausible bug
would make. No specification uses them; replacing X by one makes the property
it is paired with in `PROJECT.json` fail, which shows that the property depends
on that piece of the code.

## Runs

Passing runs:

* `daemon` (`MCSessionService.cfg`): two connections, two session names, room for
  one session, a snapshot limit of one pane with sessions of up to two, so that a
  screen fits or does not. Two connections are enough for each race between a holder
  and a rival; slots are used again, so a third client comes after either. No
  symmetry, as liveness is checked too. Checks exclusive attachment, that a
  reserving thread's session is there, matching of answers, the limit of Sessions,
  where reservations can leak, who may change panes, `Attachment`, and that every
  waiting client is answered and every abandoned thread ends.
* `endpoint`: two daemon processes and two clients that try again; every process may
  be killed at every system call, `set_permissions` may fail, and another program
  may touch the path at any moment. Two daemons are enough for one to find what the
  other has left or is about to leave; the theorems of safety hold for any number.
  `ForeignPreserved` says which removals of a foreign object
  remain: those of a daemon that has not looked since the object was put there.
  `SequentialStartersSafe` and `StaleSocketRecovered` grant the same of `surprised`
  daemons.
* `hosted_session`: up to four pane identifiers, so that a pane may be closed at
  every place of every tree of up to four leaves; `u16` is cut to a maximum of 7,
  and viewports are as wide as that, or empty. Any resize or spawn may fail.
  `NodesFollow` runs the recursive functions of `PaneNode` on every tree and every
  step beside the operators of `PaneTree`: they make the same leaves, the same
  rectangles and the same order.
* `local_app`: three pane identifiers, two lines of history (a page and its half,
  so that an offset can be partly or wholly stale), every class of key. `ViewFollowsKeys`
  says that copy mode's keys move the view. It grants that an offset goes stale
  when the pane loses history or the focus moves: the comment at `copy_mode.rs:50`
  ("clamping to available retained history") holds of steps to older output only.
* `attached_client`: one client of each kind against a daemon that has the session,
  has not, or is full. Limits are cut so that each is met: two panes fit a screen
  and the third does not, a text of pane or error is shorter or longer than what is kept of it and has two-byte characters at each
  cut. Frames travel in pieces of five bytes, so that header and payload are split;
  every prefix and every extension by a byte, and every change of a byte to one of five,
  is decoded. Configuration files have up to three lines of sixteen kinds, with
  room for two: too many lines is met as well. Three rounds of the loop stand for
  `IO_TIMEOUT`. `quiet` counts the rounds begun since the latest request, `held` the
  events read since: an attachment is given up after rounds that all but the latest
  read an event, where a request after any of them would have kept it.
  Several clients at once are `SessionService`'s: here the sessions of others do not change.
* `live_pty`: three pieces of output through a kernel buffer of two, two sizes.

Each of the other six runs shows that a statement of the repository's text does
not hold of the code (`findings` in `PROJECT.json` quotes them):

* `find_leaked_reservation`: a client that disconnects while `Attached` is being
  written leaves the session reserved as long as the daemon lives.
* `find_detach_race`: `Detached` is sent before the reservation is cleared, so an
  attach right after a successful detach may be refused.
* `find_unshowable`: after the 33rd split no answer can be encoded, and the session
  cannot be attached to any more.
* `find_split_brain`: a starter takes a socket that is bound but not listening yet
  for a stale one; two daemons serve, one of them unreachable.
* `find_drop_race`: `Drop` compares what stands at the path and removes it in two
  system calls; what another program puts there in between is removed.
* `find_fatal_color`: a colour of seven bytes with a character across two of its
  components ends the client in a panic, and no line number is named.

One more departure from the text is granted by a property: `docs/SECURITY.md:103`
admits an "exact `#RRGGBB`" only, and `ErrorNamesLine` says that a `+` in the place of
the first digit of a component passes as well (`GoodColor`), that a character across
two components is fatal (`Fatal`), and that nothing else goes wrong.

`CHECK_DEADLOCK FALSE` appears where the modelled program ends: daemons exit, the
application quits, a LivePty is dropped, a client leaves.

### Fairness
* Daemon: weak fairness on accepting, reading and writing, which `IO_TIMEOUT`
  bounds; strong fairness on taking the mutex, since each holder goes back to a
  blocking read and std's mutex wakes a waiter; none on calls into PTYs, and none
  on clients beyond reading the answer they wait for. The liveness properties
  therefore assume `PaneCallsReturn`, and say so.
* Endpoint: a started process makes its next system call.
* LocalApp: the loop goes on, as its poll has a time limit; keys are not fair, and
  neither is `Terminate`, which waits while a background job keeps the terminal open.
* LivePty: reader and owner's calls go on; no program is made to end or to print.
  `TerminateReturns` therefore assumes that background jobs end in time.

### Bounds
`MaxPanes`, `MaxPaneId`, `MaxHistory`, `MaxOutput`, `Capacity`, `Piece`, `File`,
`Text` and `Probe` bound what the environment does; `MaxSessions`, `MaxSnapshotPanes`, `U16Max`, `PageRows`,
`Patience`, `MaxLines` and the codec's limits (`MaxNameBytes` among them) stand for constants of the code, small enough for the
interesting side of each to be reached. Where a bound stops a user (no split
after `MaxPaneId`), nothing else is forbidden.

## Proofs

All theorems hold for every value of the constants allowed by the named
assumptions, which TLC evaluates in the runs.

* `SessionService_proofs`. Neither `OneAttachment` nor `HolderReserved` is
  inductive alone: that no thread reserves a session twice follows from its flag
  being set while any thread stands between setting and clearing it, and that a
  hosted session stays so needs types and the owner of the mutex. `IInv` joins
  `TypeOK`, `WritesResponse`, `MutexOwner`, `HolderReserved` and
  `OneAttachment`; `TypeCorrect`, `MutualExclusion`, `ReservationHeld` and
  `MutexHeld` follow. `LeakSource` and `PanesOfHolder` are action properties
  from `IInv`; `PaneMovers` says which steps move panes at all. `Refinement` maps each step to a step of `Attachment` or a
  stutter; the mapping's CHOOSE is determined by `OneAttachment`. For
  `ResponsesMatch`, `Conversation` says of every connection where its one
  message is, by the states of both ends; that the two ends never both wait for the other
  to write is the safety part of `ClientsAnswered`, proved without its fairness. `SessionLimit` adds that the table is
  finite.
* `Endpoint_proofs`. `SequentialStarters` needs `Alone`: what a daemon at each
  system call knows (`Knows`) of the path as long as starters do not overlap: that the
  socket is its own, or has been touched by somebody else, and that nobody serves
  unsurprised while it may remove something. `ExecutedOnce`
  (`AtMostOnce`) follows from where a request is by the client's state.
  `ForeignStays` (`ForeignPreserved`) follows from `Unaware`: with a foreign object at
  the path, whoever is past its last look before a removal has looked before the
  object came. That needs the checks of `Inspect` and `DropInspect`, and that a
  bind(2) succeeds only where nothing stands.
* `PaneOrder_proofs`. The documented invariants of a session, from lemmas on what
  `InsertAt` and `RemoveAt` do to elements; the invariant speaks of positions.
* `LivePty_proofs`. `Stages` says what is known of the child at each stage of
  terminate and drop and gives `NothingLeft`; `Reading` says how far the reader
  has got and gives `OutputComplete`; `SizesAgree` is inductive as it stands.

* `LocalApp_proofs`. The invariant joins types, `RoutedWhenShown`, `ShellsMatch` and
  what `PaneOrder` promises of the panes, whose lemmas it uses: outside the two parts of
  the loop that terminate a PTY no live shell is without a pane (`Stale`), and a close removes
  the focused pane and nothing else, so that the pane whose shell is reaped is the
  one that leaves, which gives `ClosedForCause`. `ViewMoves` is arithmetic on one step.
* `HostedSession_proofs`. `PaneTree` gives every pane a way from the root, so that a
  tree is a set of ways none of which begins another (`Apart`) and each of which
  has its sibling (`Siblings`, `Covers`). With the order of visits (`Listed`) they
  are `Good(root)`, which splits and closes preserve. A screen tiles the viewport
  because the two halves of a split tile their parent: the induction over the
  length of a way goes through the set of lengths that are right
  (`WFMin` of the library on its complement). `SessionTypeCorrect`,
  `ResourcesAlwaysMatch`, `ScreenAlwaysTiles` and `PtysAlwaysFit` are `TypeOK`,
  `ResourcesMatch`, `ScreenTiles` and `PtysFit`, whichever resize or spawn fails and
  for trees of any size; `ClosesNeverShrink` is about the sizes of the panes that
  stay, and `SessionImplementsPaneOrder` maps each command to a step of `PaneOrder`.
* `AttachedClient_proofs`. `IdleAttachmentKept`: `Clock` says that of the rounds
  begun since the latest request only the one under way may not have read an event,
  since a round that reads none asks for a snapshot, below a scene too. `BadLineNamed` and
  `SettingsOverrideTheme` (`ErrorNamesLine`, `SettingsInOrder`) hold for files of any
  length: the fold in `Parse` is unfolded into one step for each line
  (`ParseLineByLine`); by induction on the number of lines the verdict is "loaded" until the
  first bad line (`GoodSoFar`) and that line's ever after (`StaysRefused`), and what
  is loaded is settled by the lines read so far (`SettledBy`). `Loading` says at
  which places of the client the text and its verdict are at hand.
  For the messages the invariant is `Exchange`. `MessagesIntact` is not inductive: it
  says nothing while a request or an answer is under way. `Exchange` says that one
  message at a time is either on its way or being executed: a pipe that is not empty
  is `Carrying` the one frame of the request the client waits for (`Asked`) or of the
  reply (`Responded`), as a prefix that has arrived and the part that follows it, or what is left of
  that when a writer has given up; a client whose pipe is cut has failed and sends
  nothing more. `Travels` and `Arrives` say that pieces preserve this and that a
  frame which has arrived is read whole, by the length in its header alone
  (`SameLength`). With the round trips of `Codec_proofs`, `MessagesMatch`,
  `OtherwiseAllFits` and `FramesDelimited` (`MessagesIntact`, `OnlyPanesDoNotFit`,
  `FramesExact`) follow; that a response always fits, but for too many panes,
  takes the arithmetic of `ListingSure` and `SnapshotSure` on lists of any length, and that a
  text cut at a limit ends with a whole character (`TruncateCuts`). `Modes` adds
  the client's places and clocks for `ClientTypeCorrect`.
  `ContentAssumption` says that names have passed `SessionName::parse`, that texts
  are UTF-8 and that a table a client finds is within the limit of sessions.
* `Codec_proofs`. Taking the front of a concatenation gives its first part and
  leaves the second; words, fields, names and payloads of requests are read back by it
  (`RequestPayloads`), a frame is taken apart into kind and payload
  (`UnframeFrame`), and as the kinds of requests differ, `RequestRoundTrip`: every
  request that is encoded is decoded as itself, for inputs and names of any length
  within any limits below 2^16. `ResponseRoundTrip` says so of responses, whose
  lists of sessions and panes are written and read by folds: the fold is unfolded
  into one item at a time (`FoldItemByItem`), and the items are read back by
  induction on their number (`ListPayload`). In the other direction a reader that succeeds has split its
  input into a value's bytes and a rest (`ListSplits` for lists), so that nothing but the
  encoding of a message decodes to it: `RequestCanonical`, `ResponseCanonical`.
  `FrameAssumption`, that a frame has room for every field at its limit and for
  full lists, is a fact of the source's constants.

Only model-checked: liveness (`ClientsAnswered`, `ThreadsEnd`,
`StaleSocketRecovered`, `ExitedPanesClosed`, `TerminateReturns`), which is
outside what the prover handles, and `NodesFollow`, as `PaneNode` recurses over a tree.

## Not modelled, and limits

* Drawing and artwork: output that nothing reads back.
* `novamux shell` and `novamux demo`: a PTY relayed by two threads, and a printed example.
* Terminal buffer: escape sequences are parsed by the vt100 crate; `search`,
  `scroll_older` and `scroll_newer` have no caller outside their tests. Only the
  viewport of copy mode is modelled, in `LocalApp`.
* Bytes: in `SessionService` a frame is one message; `AttachedClient` has the bytes, for
  one client. Overlong and surrogate forms of UTF-8 are not told from valid ones,
  nor one `DecodeError` from another.
* Configuration: where the file is (`platform_path`), and the trimming of lines.
* Time: a deadline may pass at any moment that something waits for it; intervals
  have no length.
* A daemon thread that panics (and so poisons the mutex) is not modelled; the
  daemon's end at any moment is.
* Windows named pipes: `Endpoint` is the Unix implementation.
* The kernel (sockets, pseudoterminals, processes) is modelled from how the code
  uses it, and marked external in the map.

## Observations

Found while modelling, and shown by no run of their own:

* `docs/SECURITY.md:101` says that the parser "accepts only eight known keys"; `parse`
  accepts eleven, which `docs/CONFIGURATION.md:15-16` lists.
* A file that is not UTF-8 is always an error of line 1.
* `InputRouter::finish` is never called: a prefix pending when the application
  ends is dropped.
* Copy mode of an attached client only waits for its end: the keys that move the
  view do nothing there, and ten seconds of them end the attachment.
* At a width of 65535 the saturating addition in `split_rect` gives the odd column to
  the second child, against the comment at `lib.rs:320`.

## Plan

Done: `SessionService` and `Attachment`, `Endpoint`, `PaneTree`, `HostedSession`,
`PaneOrder`, `LivePty`, `LocalApp`, `Codec`, `Configuration`, `AttachedClient`, with the
theorems above.

Next:

1. A hosted session whose panes are `LivePty` instances: blocking writes under
   the mutex, and dead shells that a daemon never reaps.
2. `SessionService` over `Codec` messages, as a refinement of it by `AttachedClient`
   for one client.
