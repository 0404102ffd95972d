# Specifications of picoceci

picoceci is a small message-sending language with a bytecode compiler and VM, a
set of runtime services for tasks (queues, semaphores, timers), and shells around
them: a command-line REPL, an ESP32-S3 firmware with a TCP REPL, and a browser IDE
server.  This directory holds TLA+ specifications of its core, configurations that
model-check them with TLC, and proofs checked by TLAPS.

## The system

| Component | Source | State | Operations | Hard part |
|---|---|---|---|---|
| VM execution | `pkg/bytecode/vm.go`, block builtins of `pkg/eval/builtins.go` | operand stack and `sp`, frame array and `frameCount`, nested Go calls of `runFrame`, upvalues | `Run`, `CallBlock`, one `step` per opcode, builtins that call blocks | errors that pass through nested calls, blocks that outlive their scope, runs inside runs |
| Block tables and REPL sessions | `vm.go` (`SetBlocks`, `AddBlocksAndAdjustChunk`), `cmd/picoceci/main.go`, `target/esp32s3/main.go` | block table, closure indexes in chunks, session globals and types | one command, one file, one import | indexes that outlive the table they were made for |
| Bytecode compiler | `pkg/bytecode/compiler.go`, `scope.go`, `chunk.go`, `opcode.go` | scopes with locals, parameters, upvalues; constant pool | declare, resolve, emit | capture through several scopes, indexes cut to a byte |
| Objects, composition, super | `pkg/object`, `vm.go` `superSend`, `eval.go` `superSend` | slots and their types, method tables, composition lists | send, super send, store | `super` inside a composed method, declared types on every way a slot is written |
| Tree-walking interpreter | `pkg/eval/eval.go` | environments | evaluation of nodes, block calls | `^` as a signal through blocks |
| Queue | `pkg/freertos/queue*.go` | items, capacity, deleted | `Send`, `SendToFront`, `Receive`, `Peek`, `Delete` | concurrent callers, timeouts, deletion |
| Semaphore, mutex | `pkg/freertos/semaphore*.go` | tokens, deleted | `Take`, `Give`, `Delete` | deletion while tasks wait |
| Timer | `pkg/freertos/timer*.go` | running flag, ticker goroutine, one-shot callback | `Start`, `Stop`, `Reset`, `Delete` | a callback in flight, a lost stop signal |
| Tasks | `pkg/freertos/task*.go` | registry by name, suspend flag, done channel | spawn, suspend, resume, end | name reuse, stale resume tokens |
| Task, TaskSupervisor, Queue, Channel builtins | `pkg/eval/builtins.go` | the VM they were seeded with, a queue each | spawn, supervise, send, receive | goroutines sharing one VM without a lock |
| Module loader | `pkg/module` | import caches, the set being loaded | `Load`, `ClearCache` | cycles, errors half way |
| IDE server | `ide/server/server.go` | sessions, their mutexes and files | new, eval, history, delete, expiry | deletion and expiry during an evaluation |
| Network manager | `pkg/net` | connected, address, listeners, sessions | connect, listen, accept, disconnect | steps between two lock sections |
| Reference counts | `pkg/memory/allocator.go` | a count per object | `Retain`, `Release` | cycles, a release too many |
| SD card files | `pkg/sdcard` | buffered reader, file offset, position | read, write, seek | three positions of one file |
| Lexer, parser, syntax tree | `pkg/lexer`, `pkg/parser`, `pkg/ast` | position, current and next token | `NextToken`, `ParseProgram` | where one token ends and the next begins, errors that leave a tree half built |
| Command-line REPL | `cmd/picoceci/main.go` | globals, types and blocks from one command to the next | `execSourceVM` | what is kept of a command that fails |
| Console, LED, PSRAM, IDE pages | `pkg/tinygo`, `pkg/psram`, `ide/static` | - | - | device or browser I/O |

How they meet: the compiler hands a chunk and a table of blocks to a VM; `step`
sends messages, and a builtin that receives a block calls the VM again
(`CallBlock`), so Go calls and VM frames nest in each other.  `File runContents:`
compiles a file and runs it on the VM that is executing.  `Task` and
`TaskSupervisor` call blocks from goroutines on that same VM; `Queue` and `Channel`
wrap a `freertos.Queue`.  The REPLs and the IDE server make a VM or an interpreter
per command or per session and carry the globals along.

The properties that make each part correct are listed with the code they are about
under "hazards" in `PROJECT.json`.

## Modules

| Module | Models | Checked against |
|---|---|---|
| `VMExec` | execution in the bytecode VM and the builtins that call back into it | its own invariants |
| `VMExecProofs` | - | theorems about `VMExec` |
| `BlockLink` | the block tables of compiler, session and VMs from command to command | its own invariants |
| `BlockLinkProofs` | - | theorems about `BlockLink` and `SharedLoader` |
| `QueueCalls` | the calls of the `Queue` interface | - |
| `BoundedQueue` | what the interface promises: the abstract specification | - |
| `TinygoQueue` | `queue_tinygo.go`, one action per section of the mutex | `BoundedQueue`, and liveness |
| `ChannelQueue` | `queue_stub.go`, the queue on a Go channel | `BoundedQueue`, conservation of items, liveness |
| `QueueProofs` | - | theorems about `TinygoQueue` and `ChannelQueue` |
| `Semaphore` | what the `Semaphore` interface promises: the abstract specification | - |
| `ChannelSemaphore` | `semaphore_stub.go`, the semaphore and mutex on a Go channel | `Semaphore`, conservation of units, liveness |
| `ChannelSemaphoreProofs` | - | theorems about `ChannelSemaphore` |
| `Timer` | `timer_stub.go`: one-shot and periodic timers and their goroutines | invariants, liveness |
| `TimerProofs` | - | theorems about `Timer` |
| `Tasks` | `task_stub.go`, `task.go`: the registry, the goroutine of a task, suspend and resume | invariants, liveness |
| `TasksProofs` | - | theorems about `Tasks` |
| `Lexer`, `Parser` | from characters to tokens to the tree | inside `Language` |
| `Objects`, `Builtins` | values, the heap, types, and the primitive messages both interpreters share | inside `Language` |
| `Compiler` | `compiler.go`, `scope.go`: from the tree to code, block tables and what an error leaves | inside `Language` |
| `Machine` | every instruction of `vm.go`, with the values it handles | inside `Language` |
| `TreeWalker` | `eval.go`: evaluation of every node | inside `Language` |
| `ModuleLoader` | `pkg/module`: resolution, caches, cycles, failures | inside `Language` |
| `SharedLoader` | `loader.go` as the firmware's sessions share it, one step between two reads of a file | invariants, liveness |
| `MCSharedLoader` | - (the modules of the run) | - |
| `Language` | sessions of the REPL on both interpreters, command by command | `Agreement` |
| `Agreement` | what the two sessions have in common, and what keeps each in order | - |
| `MCLanguage` | the commands, modules and files of the run | - |
| `IDESessions` | `server.go`: concurrent requests on the sessions of the IDE server | invariants, an action property, liveness |
| `IDESessionsProofs` | - | theorems about `IDESessions` |
| `NetManager` | `pkg/net` on its three builds, and `acceptLoop` | invariants, liveness |
| `NetManagerProofs` | - | theorems about `NetManager` |

The modules meet at the boundaries of the code.  `TinygoQueue` and `ChannelQueue`
extend `QueueCalls` and instantiate `BoundedQueue`; `ChannelSemaphore` instantiates
`Semaphore`.  `VMExec` leaves out which
block an `OpClosure` makes (any block may be called), and that is the subject of
`BlockLink`; `BlockLink` in turn leaves out how a VM executes.

### VMExec

The program is not fixed: a frame executes any instruction its compiler could have
emitted.  `depth` of a frame is the number of operands the compiler counts on at
that point, and guards the instructions; `sp` is the VM's own stack pointer, which
no guard looks at.  The properties relate the two.

| TLA+ | Code |
|---|---|
| `stack`, `sp` | `vm.stack`, `vm.sp`; a slot holds the activation whose local lives there, or 0 for an operand |
| `frames` | `vm.frames[0..frameCount-1]`: `bp`, locals, upvalues; `uid` and `home` are history |
| `go` | the Go calls of `run` and `runFrame` in progress, each with its `savedFrameCount` and what its caller, a builtin, will do with the outcome |
| `ctl` | whether a loop has control, or what the call it served returned |
| `closures` | the blocks made by `OpClosure` |
| `failed` | history: activations in which an instruction failed |
| `program` | what the program being run makes use of, of the kinds `Programs` names; no step changes it |
| `PushOperand` .. `Combine` | the opcodes of `step` that stay in the frame, grouped by what they do to the stack |
| `CallMethod`, `Enter` | `send`, `applyMethod`, `callCompiledMethod` |
| `CallBlock`, `SendValue` .. `SendEnsure` | a send whose builtin calls a block |
| `RunContents` | `runContents:`, `EvalSource`, `Run` |
| `FailSend`, `FailStore` | the error paths of `step` |
| `Return`, `ReturnSelf`, `BlockReturn` | `OpReturn`, `OpReturnSelf`, `OpBlockReturn` |
| `LeaveLoop`, `Deliver`, `LoopAgain`, `RunCleanup`, `Handle`, `Reraise`, `Finish` | what happens in Go after a loop has ended |

Values, selectors and types are left out: an instruction may succeed or fail.
`program` says what the program makes use of, so that a property can say what holds of
programs that, say, never let a block escape (`Nesting`).

### BlockLink

Every command and every file is the same small program: a method with a block in it
and a block with a block in it, which gives an `OpClosure` to each place the
compiler can put one (the top chunk, a block's chunk, a method's chunk).  What
differs is when it is compiled, onto which table, and whether it succeeds.

| TLA+ | Code |
|---|---|
| `session` | `*blocks` in `execSourceVM`, `state.blocks` on the firmware |
| `compiled` | what `c.GetBlocks()` returns |
| `table["command"]`, `table["files"]` | `vm.blocks` of the command's VM, and of the seed VM, where a desktop session runs its files |
| `base`, `Index` | the operand of each `OpClosure`, as the compiler emits it and `adjustClosureIndices` moves it |
| `Command` | `execSourceVM`, `execSource` up to `vm.Run` |
| `Runner`, `RunFile` | `SetFileRunner`, `EvalSource` |
| `Succeed`, `Fail` | what is kept of a command after `vm.Run` |
| `relied` | the units whose code the globals of each VM may lead to and whose indices fit its table |

`Linked` leaves out, in `Sound` and in what `Succeed` and `Fail` take out of
`relied`, the code that the source does get wrong; see "Disagreements" below.

### TinygoQueue

A task in an operation is `locking` (before its first look at the queue), `asleep`
in `cond.Wait`, `woken` (on its way back to the mutex) or about to return.
What it does between two releases of the mutex is one action, because nothing else
can see the list meanwhile.  `late` says that the task's deadline has passed; time
only passes for a task that did not get through at once, as the deadline is
computed under the mutex.  `Count`, `SpacesAvailable` and `Capacity` read only and
are not actions.  The refinement `BQ` maps `items` and `deleted` to themselves and
a task inside an operation to a pending call; the operation takes effect at the
action that finishes it.

`BoundedQueue` answers one call a step, with two exceptions: in `Pass` a send and a
receive answer each other, and in `Refill` a receive makes room that a waiting send
takes at once.  A Go channel does both in one step, so an implementation on
channels could not map to the abstract queue without them.

### ChannelQueue and ChannelSemaphore

The desktop builds put the items, and the tokens of a semaphore, in a Go channel.
An operation tests the flag under the mutex, lets the mutex go, and only then uses
the channel, so `Delete` can run between the two.  The channel is modelled as the
Go specification describes it: a buffer, the senders and receivers parked on it,
direct hand-over, a receive from a closed channel that succeeds with nil at
once, a send on one that panics.  A `select` with a timer is a parked task that may
give up; a timer that has fired and a channel that is ready are a choice.
`crashed` says that a panic ended the program.

A semaphore is used in one of two ways, chosen in `Init`: each caller takes and
gives back (a lock), or any task gives and any takes (a signal).  `Semaphore` is the
same without a channel: a number of units, and calls that take effect at one instant.
The refinement `SM` maps the tokens in the channel to units, a task inside an operation
to its call, and one about to return to none; a `Give` that hands its token to a parked
`Take` is a `Pass`, which answers both.  On a deleted semaphore any answer is allowed,
which is what the code gives: every parked `Take` answers true.

### Timer and Tasks

A one-shot timer's function starts as a goroutine of `time.AfterFunc` and reaches
the mutex later; `inFlight` are those goroutines, each with the start it belongs
to.  `Stop` stops the runtime's timer but no function in flight.

A periodic timer's goroutine waits in a `select` on its ticker and the channel
`stopCh`, which has room for nothing: `Stop` sends on it without waiting, so the
signal is lost when no goroutine is in the `select`, and any goroutine of this
timer may be the one that gets it.  What a stopped ticker has left in its channel
may or may not still be read, which is a choice in the model, because it depends on
the Go version.

`Tasks` has a task go through its phases (made, in the registry, its goroutine
begun, at each of its checks of `suspended`, its function, `done` closed, removed
from the registry).  A task is named by a string, and any name may be given to any
task at any time, as `task_test.go:206` does.  The history `beside` has, for each task,
those of its name that had not ended when it was spawned.

| TLA+ | Code |
|---|---|
| `ChannelQueue!items`, parked tasks | the buffer of `queue.ch`, and the goroutines in a send or receive on it |
| `ChannelQueue!Check` ... | the mutex section at the top of `Send`, `Receive`, `Peek` |
| `ChannelSemaphore!TakeToken`, `GiveToken` | the receive in `Take`, the send in `Give` |
| `Timer!Fire` | the function given to `time.AfterFunc` |
| `Timer!Spawn`, `Wait`, `Ticks`, `Look`, `Call`, `CallReturns` | the goroutine that `Start` makes for a periodic timer: its `select`, its look at `active`, `t.fn` |
| `Tasks!Check`, `TakeToken`, `LookAgain` | `checkSuspend` |
| `Tasks!CloseDone`, `Unregister` | the end of the task's goroutine |

### Language and the modules it is made of

`Lexer`, `Parser`, `Compiler`, `Machine` and `TreeWalker` are sequential: each is a
set of operators from what the code is given to what it makes of it, with the whole
of its state passed along (a parser's position and tokens, a compiler's scopes, a
machine's stack, frames, heap and counters, an interpreter's environments).
`Language` is the state machine: a step is one command of a REPL session, from the
text it was typed as to its answer, on the virtual machine and on the tree-walking
interpreter side by side, or the card with the module files being put in or taken out.

| TLA+ | Code |
|---|---|
| `vm` | what `execSourceVM` keeps: `globals`, `gtypes`, `blocks`, the loader, and the heap the objects live on |
| `tree` | the `Interpreter`: environments, heap, loader |
| `history` | the commands and what both answered; `sp` and `raised` say what was left on the stack and whether an error was raised, caught or not |
| `Lexer!NextToken` | `Lexer.Next`; a character is one of a class, `#`, `:` and the rest themselves |
| `Parser!ParseProgram` ... | one operator per `parse` function; `errors` are those the Go parser collects |
| `Compiler!Compile...` | one operator per form of statement and expression; the compiler record holds scopes, code, constants, blocks |
| `Machine!Step` and its instructions | `vm.step`; `CallBlock`, `ApplyMethod`, `SuperSend` as in the code |
| `TreeWalker!Eval...` | the cases of `evalNode` |
| `Builtins` | integers (a float is an integer of another unit), booleans, strings, arrays, blocks |
| `ModuleLoader!Load` | `Loader.Load`, with `loading`, the cache, and the `Abandon` of an import that failed |
| `Language!Kept`, `ExecSourceVM` | what a session takes over from a command that succeeded, and from one that failed |

A program that does not end is cut off by `Fuel` and answers so on both machines.
The machine of `Machine` and the one of `VMExec` are the same code seen twice:
`VMExec` runs every program there could be on a stack without values and is proved
about, `Machine` runs given programs with their values.

`Agreement!Portable` says of a command's syntax that it stays clear of what the two
interpreters treat differently; its comment lists what that is.  `SameAnswers` and
`SameBindings` speak of sessions of such commands, the other properties of any.

### SharedLoader

`ModuleLoader` runs a `Load` to its end; `SharedLoader` lets the serial and the network
session of the firmware take turns in it.  A session switches where it reads a file (the
only place a `Load` waits), and the model is freer: it may switch before every import.
The files do not change while the sessions go on.

| TLA+ | Code |
|---|---|
| `cached`, `globals` | `l.cache` and the `Globals` of the modules in it, told apart by whose declarations they have |
| `importCache`, `loading` | `l.importCache`, `l.loading` |
| `stack`, `call` | the recursive calls of `Load` of each session, and where the innermost is |
| `Hit`, `Read`, `InCache`, `Refuse`, `Mark` | `Load` up to line 70 |
| `Nested`, `Answers` | the loop over the module's declarations |
| `Broken`, `NotFound`, `Unwind` | the errors, and the deferred removal of the mark |
| `Loaded` | lines 118-138 |
| `Found`, `text` | what `Resolve` finds, and what is in the file |

### IDESessions

Each request is a goroutine; the numbered points of `req[r].pc` lie where it gives
up a mutex, waits for one, or touches the file system.  The clock may tick at any of
them.  A section of a mutex that waits for nothing inside is one step; the two that
wait are kept open: the sweep, which holds `s.mu` while it takes each session's mutex
in turn (`mu`), and an evaluation, which holds its session's (`smu`) while the program
runs and prints and the file is written.

| TLA+ | Code |
|---|---|
| `session`, `listed` | the `REPLSession`s, reachable by a request that found one even after it has left `s.sessions` |
| `SweepStart`, `SweepLook`, `SweepDrop`, `SweepEnd`, `Unlink` | `cleanupExpiredSessions` |
| `Make`, `Register` | `newSession` |
| `Find`, `Check` | `lookupSession` |
| `Remove`, `Erase` | `deleteSession`, called by a request and by a lookup that finds its session expired |
| `UnlinkFails`, `EraseFails` | `os.Remove` failing: in a sweep and in a lookup nobody is told, a client that deletes is |
| `Lock`, `Prints`, `Evaluated` | `evalSession` |
| `TaskPrints` | the goroutine of `Task spawn:name:`, which prints into `session.console` when it likes |
| `Persist`, `PersistFails` | `persistSession` |
| `before`, `torn`, `kept` | history: what had been answered when a request was sent; sessions removed while in use; sessions whose file was not removed, nobody told |
| `tasks` | history: the evaluations whose program left a task running |

What an evaluation computes is the subject of `Language`; here it prints and ends, and
may leave a task running, which prints into the console while this or a later evaluation
of the session is going on, without a lock.  The console is a `bytes.Buffer`, so what a
racing write makes of it is anything (`Mixed`).

### NetManager

One module for the three builds, told apart by `platform`.  A call of the manager is
split where it has let `t.mu` go.  Sockets are numbers handed out lowest first and
handed out again: on the bridge `Accept` and `Close` pass a number on, so what they
reach depends on who has it; Go's own package refuses a listener it has closed.

| TLA+ | Code |
|---|---|
| `state`, `ip`, `listeners` | the fields of `tinygoManagerImpl`; `connected` of the stub |
| `ConnectBegins`, `Join`, `ConnectEnds` | `connect`; `Join` is the driver's answer |
| `ListenTests`, `ListenOpens`, `ListenFails`, `Register`, `TakesAddress` | `listen`; the last is the section of TinyGo's that sets the address |
| `HandOut` | `listen` returns, and the caller starts `acceptLoop` |
| `TakeAll`, `CloseNext`, `DisconnectEnds` | `disconnect` |
| `Mark`, `Release`, `Close` | `Close` of a listener |
| `Accept`, `Wait`, `WaitFails`, `Connected`, `SessionEnds` | `Accept` and `acceptLoop` |
| `owner` | the sockets of the operating system, as the bridge and Go's network package hand them out |

`ip` is whether the address is set, to whatever text; on TinyGo a connect without one
sets "0.0.0.0" (`net_tinygo.go:51`).  Whether the station is associated is not part of
the model: the code keeps nothing of it.

## Runs

| Run | Specification | Question | Result |
|---|---|---|---|
| `programs` | `VMExec`: loops, faults, `on:do:`, `ensure:`, `^` in blocks; the same with blocks that escape; with `runContents:` as well | `StackSafe`, `StackExact`, `VariablesIntact`, `CallersStay` | hold |
| `runcontents` | `VMExec`: `runContents:` | `CallersLive` | violated: the frames of the caller are gone |
| `blocks` | `BlockLink`, both REPLs | `Linked` | hold |
| `queue` | `TinygoQueue`, fair | `SleepersBlocked`, `ImplementsBoundedQueue`, `CallsReturn` | hold |
| `desktop` | `ChannelQueue`, fair: tasks that only send and receive, or capacity 0 and 1, peeks, timeouts, deletion | `ImplementsBoundedQueue`, `NothingLost`, `BoundedCallsReturn` | hold |
| `semaphore` | `ChannelSemaphore`, fair: locks and signals, deletion | `UnitsConserved`, `NoIdleToken`, `ImplementsSemaphore`, `TakersServed` | hold |
| `timer` | `Timer`, fair, both kinds | `OncePerStart`, `ActiveWillFire`, `KeepsFiring`, `DeleteEndsLoops` | hold |
| `tasks` | `Tasks`, fair | `RegistryFaithful`, `DeletedEnds`, `ResumedStarts` | hold |
| `imports` | `SharedLoader`, fair: two sessions | `MarksOwned`, `CacheSound`, `CyclesReal`, `ImportsEnd` | hold |
| `language` | `Language`, some 60 commands | `SameAnswers`, `SameBindings`, `TypesHold`, `OperandsBalanced`, `NothingLeftOver` | hold |
| `sessions` | `IDESessions`, fair: three requests, one of them a deletion, one that may leave a task running | `FilesMatch`, `NothingLost`, `OnlyIdleSwept`, `EveryRequestAnswered` | hold |
| `net` | `NetManager`, fair, three builds | `NoStrayListener`, `OwnerCloses`, `DisconnectReleases`, `StatusSettles`, `LoopsEnd` | hold |

A type invariant is the first conjunct of a property (`StackSafe`, `Linked`,
`SleepersBlocked`, `UnitsConserved`, `OncePerStart`, `RegistryFaithful`, `NothingLost`,
`NoStrayListener`, `MarksOwned`).  Some properties are made of two that have names of
their own: `StackSafe` of `TypeOK` and `OperandsAboveLocals`, `VariablesIntact` of
`LocalsIntact` and `UpvaluesLive`, `CacheSound` of `OneModule` and `ModuleWhole`,
`NothingLeftOver` of `BlocksLinked` and `LoadersSettled`.

Some properties carry their condition with them.  `StackExact` speaks of the time before
anything has failed (`failed = {}`): afterwards a failed block is run on, its frame not
having been removed.  It and `CallersStay` speak of programs that do not run a file on
their own VM, `VariablesIntact` of those of them that let no block outlive its scope
(`Nesting`), `StackSafe` of any.  `CallersLive` is `CallersStay` without the condition.
`UnitsConserved` speaks of a lock that has not been deleted, `NothingLost` allows the one
loss the code makes (a peek that finds the queue full again), `CyclesReal` speaks of
imports refused while no other session loads.  `RegistryFaithful` is asked of any use of
names and says when exactly a living task is not found: when one of its name that lived
beside it has ended first.  `DeletedEnds` speaks of tasks deleted before their function
began; one that is running goes on for as long as its function does.
`ImplementsBoundedQueue` of `ChannelQueue` is asked of tasks that are `plain`.
`SameAnswers` and `SameBindings` end
with the first error of a session, which undoes the bindings of one interpreter and not of
the other.  `FilesMatch` names the ways in which a file outlives its session (`torn`: a
request was at work in it, which then wrote the file again; `kept`, `ToldOfFile`: it could
not be removed), `OnlyIdleSwept` the one in which an idle session in use is lost.
`NothingLost` asks an entry for its own output alone when no program in its session's
history up to it left a task running; that it is there once and in its place, always.
`EveryRequestAnswered` holds while no program has left a task running.  `StatusSettles`
holds in any order of calls.

Deadlock is checked in `TinygoQueue` and `Tasks`.  In `VMExec` it is not: programs end,
and the bounds on activations and depth stop them.  In `ChannelQueue` and
`ChannelSemaphore` all tasks may wait forever for one another, or the program may
end in a panic; in `Timer` a deleted timer, and in `BlockLink` a session at its
bound, has nothing left to do.  In `Language`, `IDESessions` and `NetManager` the
commands, requests and calls of the bound come to an end.

Bounds.  `MaxStack` (6, in `runcontents` 8), `MaxFrames` (3) and `MaxDepth` (3) are the
VM's 1024, 256 and the compiler's need, small enough that overflow of both arrays happens.
`MaxActivations` 4 gives a main program, a block or method under it, one under that, and a
fourth after a failure or a return has left its trace: the shapes the properties tell
apart need a caller, a callee, and a later activation that reuses what the callee left.
One local, one argument and one captured variable per block are enough to have a slot of
each sort next to another's; one closure (two in `runcontents`) is called as often as the
activations allow, by itself as well.

`MaxUnits` 5 gives `BlockLink` a command, one after it, and two files in either, or
the same with a failure between; `Indices` 12 is reached by the fifth unit, so that
sessions run into the limit.

For the device queue, two tasks with capacity 2 have a queue that is neither full nor
empty and, after two operations, one that is; that no third task changes the result is
what the theorems say.  For the queue on a channel, three tasks have two parked when a
third acts; capacity 0 hands every item over, and two items are enough to tell their
order and a duplicate.  A semaphore of one and of two units meets three tasks.
`MaxStarts` 4 gives a timer a start after a stop after a start, twice, with a function
or a loop left over from each; `MaxInFlight` 2 functions of one timer at once.
`MaxSpawns` 2 and `MaxResumes` 1 give two tasks one name, at once or one after the other,
or different names, and leave a resume token for a later suspend to meet.

A `plain` task gives no finite timeout: in a Go `select` a timer that has fired may be
chosen although the channel is ready, so a call may answer false while it could
have gone through, which `BoundedQueue` does not allow.  The others have them.

`Language` gives every session the same beginning (a typed variable, an array, a counter,
a composition, a cell for blocks) and then two commands of some sixty, in every order:
enough for one to leave behind what the other trips over.  `ByteLimit` 4 stands for the
256 names and indices of a byte, reached by the command `full` and passed by `overfull`;
`Fuel` 12 calls lets every loop of a command end.  Two requests and a deletion on two
sessions have one at work in a session, one sweeping it and one removing it; `TTL` 1 and
`MaxNow` 2 have a session in use, at the limit and expired; one write or removal may fail,
and one request (`Spawners`) may leave a task running, while the other evaluates or not.
Two sessions import two modules, one of them under two names, which import nothing,
themselves, each other or both, so that cycles of one and of two, a module met twice and
one loaded by the other session in the meantime all occur; more modules and sessions are
the theorems' part.  Four calls of two tasks are a connect, a listen and two calls that
race each other, or a second listen that gets the number of the first; `MaxFd` 3 lets two
listeners have a session between them.

Fairness (`FairSpec`).  A task that holds or waits for the mutex gets it and goes on
(`WF` of `Proceed`): the Go and TinyGo schedulers run every runnable goroutine and
the mutex's sections are short.  Weak fairness is enough since a task waiting for
the mutex stays able to proceed.  Deadlines pass (`WF` of `TimePasses`).  Nothing
makes a task start an operation, return a second time, or delete the queue.
On channels, likewise: goroutines that can run do, and timers fire.  A task with a unit
of a lock gives it back, or no lock would ever serve a second task.  A periodic
timer's function returns and its ticker ticks while it runs; without the first no
second call would come, and it is the program's own code.  In `Tasks`, a `Delete` or
`Resume` that has begun goes on, and a task's goroutine runs up to its function and
from its end on (`Proceeds`); that the function returns is not assumed, and nothing makes
anyone resume or delete a task.  In `IDESessions` each request goes on, a mutex is handed on
to one that waits, and evaluations end: nothing in the server ends one that does not,
and it then holds its session's mutex, the next sweep waits for it with `s.mu`, and
no request of any session is answered any more.  Nothing is promised once a program
has left a task running: it and the session's next evaluation use the interpreter's maps
and the console without a lock, which can end the server.  In `NetManager` calls and loops go on
and clients that came leave; no client has to come.  In `SharedLoader` a session that is
importing goes on, and a read of the card comes back.

## Disagreements between the code and its documents

One has a run that shows it (see "findings" in `PROJECT.json`):

* `runcontents`: a file run with `runContents:` overwrites the frames of its caller.

The models follow the code in these as well, each in the action named:

* `VMExec!BlockReturn`: a `^` in a block removes the block's frame only, and the method
  goes on (`vm.go:597`); `LANGUAGE_SPEC.md:580` says it "exits the *method*, not just the
  block".
* `SharedLoader!Refuse`: `loading` does not say who is loading (`loader.go:65`), so a
  session that imports a module while the other one is in the middle of loading it is
  told of a circular import; `loader.go:40` says "detects circular imports".  It can
  happen where a read of the card lets the other goroutine run.
* `TinygoQueue!TimePasses`: a deadline is looked at only after somebody else's
  broadcast (`queue_tinygo.go:64`), so a call with a finite timeout may sleep for ever;
  `queue.go:8` says "false on timeout".
* `Parser!ParseCascade`: the receiver of a cascade is the whole message before the `;`
  (`parser.go:358`), so `c inc; inc` sends the second `inc` to the answer of the first;
  `LANGUAGE_SPEC.md:305` says "the *same receiver* as the previous message".
* `ModuleLoader`: an imported object is a prototype without methods, so `import 'M'.
  M new` is not understood; compare `LANGUAGE_SPEC.md` 12.2 and 12.3.
* `Machine!PushUpvalue`: a block kept after its scope reads whatever its slot holds
  now, also an empty one, which a builtin then panics on (commands `escape`, `stale`).
* `Language!Kept`: a block that a failed command stored in an object stays, its inner
  blocks do not (`compiler.go:62-64`; command `holdfail`).
* `Machine`, `TreeWalker`: `super` in a method that is inherited twice finds the same
  method again, without end, in both interpreters.
* `TreeWalker`: an import overwrites a typed variable unchecked.  The two interpreters
  differ in all that `Portable` lists; `README.md:84` promises one behaviour.
* `Parser!ParseInterfaceDecl`: a token in the body of an interface that starts no
  signature is never passed, and the parser does not come back.
* `IDESessions!Persist`: a session deleted while it is in use is evaluated in
  nevertheless, answered 200, and leaves its file behind for good.  Files are never read
  again: a restart of the server forgets every session and keeps its file.
* `IDESessions!TaskPrints`: a task spawned by one evaluation prints into the entries of
  later ones (`builtins.go:433`, `server.go:555-560`), and races with them for the
  console and the interpreter, which `session.mu` is there to guard.
* `IDESessions!EraseFails`, `UnlinkFails`: a deletion whose file cannot be removed is
  answered 500 although the session is gone (`server.go:597-599`), and a second try is
  answered 404; an expiry that fails to remove it says nothing (`server.go:616`, `639`).
* `IDESessions!SweepDrop`: a session judged expired is removed even if it was used
  between the judgement and the removal.
* `NetManager!Register`: a `Listen` that tested the state before a `Disconnect`
  registers after it, and its socket stays open on an idle manager; `net.go:101` says
  "releases all listener sockets".
* `NetManager!ListenFails`, `ConnectBegins`: a listen that fails, or an empty ssid, sets
  the state of a manager that is connected to error and leaves its address set
  (`net.go:87`: "an empty string when not connected"); no listen succeeds after that.
* `NetManager!TakesAddress`: a `Listen` on TinyGo sets the address in a section of its own
  (`net_tinygo.go:96-100`), so a manager disconnected meanwhile is idle with an address.
* `NetManager!ConnectEnds`: the last call to write the state wins, so a connect that
  overlaps a disconnect may say "connected" after the bridge was told to leave.
* `NetManager!Join`: "connected" says nothing of an association.  TinyGo's
  `joinWiFiNetwork` is a placeholder that does nothing (`net_tinygo.go:132`), and the
  bridge takes any address but 0 for a success, an earlier network's too
  (`esp32s3_idf_bridge.c:239`); `net.go:11` says it "means the station is associated
  with an AP".
* `NetManager!Wait`: on the bridge, `Accept` may wait on a number that a close has given
  to another listener, and take its client.
* `VMExec!Handle`: after `on:do:` has handled an error the failed block's frame is
  still there, and the loop around it executes the block on from the instruction after
  the failing one (`vm.go:284-287`).
* `VMExec!StoreUpvalue`: no upvalue is ever closed, so a block that outlives its scope
  reads and writes a slot that is another frame's by then (`vm.go:406-410`; compare
  the comment on `Closed`, `vm.go:49`).
* `BlockLink!Index`: the methods of a file keep the indices they were compiled with
  (`vm.go:124`), and a command's indices are cut to 16 bits (`compiler.go:415`).
* `BlockLink!Succeed`: on the firmware a file's global code outlives its blocks
  (`esp32s3/main.go:387`).  On the desktop a file's definitions reach the seed VM and
  not the session (`builtins.go:1022` says "global namespace").
* `ChannelQueue!SendBuffers`: `SendToFront` puts its item at the back
  (`queue_stub.go:57-62`).
* `ChannelQueue!Restore`: a peek moves the front item to the back, or drops it.
* `ChannelQueue!SendPanics`, `ReceiveClosed`: on a queue being deleted a send panics,
  and a receive answers true without an item; `ChannelSemaphore!GivePanics` and
  `Delete` do the same for units, so that every waiting task enters the lock.
* `Timer!Fire`: a function in flight during `Stop` and `Start` fires for the new
  start, before its time.  `Timer!Call`: a periodic timer stopped and started during a
  call makes a second one beside it.
* `Tasks!Unregister`: a task that ends takes its name out of the registry whoever bears
  it by then (`task.go:86-90`), so a living task of the same name is not found any more;
  `task.go:70` says the registry "tracks all tasks".  Waiting for the first is no help,
  as `Wait` returns before the name is taken out (`task_stub.go:39-40`).
* `Tasks!Delete`: `task.go:21` says "terminates the task"; a function that has begun goes
  on, and `Wait`, which "blocks until the task completes or is deleted" (`task.go:39`),
  waits for it.  Nor does `Suspend` pause one that has begun (`task.go:15`).
* `Tasks!TakeToken`: a token left by an earlier resume lets a suspended task through.

## Proofs

The theorems hold for every value of the constants that satisfies the named
assumptions.  Each rests on an inductive invariant: `Init...` lemmas show that it holds
at first, one lemma per action or group of actions that a step keeps it.

`VMExecProofs`, of any program, any sizes of stack, frames and locals:

* `StackIsSafe` (`StackSafe`), whatever the program uses.  The invariant is
  `TypeOK /\ MainFirst(go) /\ OperandsAboveLocals`.  `OperandsAboveLocals` bounds `sp`
  from below by what the top frame counts on, and each frame's base by what the frame
  under it counts on; the second part is what makes the first survive a return.
  `MainFirst` (the bottom Go call is the program's own `Run`) is needed because a loop
  that ends pops a result only if it serves a block or a method.
* `CallersThere` (`CallersStay`), of programs without `runContents:`.  `Nested` says that
  each Go call found more frames than the one around it (`Rising`) and that those frames,
  its caller's among them, are still there (`Rooted`).  A file run on the running VM is
  what breaks it, and the run `runcontents` shows how.
* `CountIsExact` (`StackExact`), of the same programs.  `Exact` adds to `Nested` that
  before any failure, `^` in blocks or not, every Go call runs one frame over those of the
  calls around it (`Stacked`) and every frame begins where the one below awaits its result
  (`Abutting`).
* `VariablesKept` (`VariablesIntact`), of programs that also let no block outlive its
  scope (`Nesting`), failures included.  `Scoped` says that frames own disjoint parts of
  the stack (`Disjoint`) which hold their locals (`Intact`), that what a frame captured
  belongs to frames below it (`Placed`), that a closure's captured variables are where it
  says as long as their activation lives (`Resolved`), and that the stack reaches above
  all locals (`Above`).

`BlockLinkProofs`, of sessions of any length:

* `BlocksLinked` (`Linked`).  The invariant says where the blocks of every unit that
  is relied on lie: those of commands that succeeded in the session's table, those of
  the command in progress in what its compiler ended with, all of them and those of the
  files it ran in its VM's table.  The session's part is what `Linked` needs for the next
  command; the compiler's part is needed because `Succeed` keeps that and not the VM's
  table.  A table only grows at its end (`HoldsLonger`), so what is held stays held.
* `MarksAreOwned` (`MarksOwned`), `CacheIsSound` (`CacheSound`) and `CyclesAreReal`
  (`CyclesReal`) of `SharedLoader`, for any sessions, names, paths and files.  `LoaderInv`
  says that no path is both cached and marked, that what a `Load` has collected so far is
  whole (`Collected`), and that each `Load` on a session's stack is an import of the one
  around it (`Leads`).  From the last follows that an import refused while the others rest
  leads back to itself: a set closed under imports that has what the module imports has
  everything above it on the stack, by the last position (`LastPosition`, the naturals
  being well-founded) at which it would not.

`QueueProofs`, of any tasks, items and capacity:

* `NoLostWakeup` (`SleepersBlocked`) of the device queue.  The invariant is
  `TypeOK /\ SleepersBlocked /\ OnlyTimedAreLate(task)`; `SleepersBlocked` is inductive
  because every action that changes the list broadcasts.
* `Implements`: from that invariant, every step of the device queue's list under its
  mutex is a step of `BoundedQueue` or leaves it unchanged.
* `DesktopImplements`: the same of the queue on a channel (`CQ`, an instance of
  `ChannelQueue`), whose steps may answer two calls at once (`Pass`, `Refill`).
  `DesktopInv` says that `plain` queues are never deleted, that receivers are parked
  only on an empty channel, and that only a `Peek` puts an item back.
* `DesktopLosesNothing` (`NothingLost`), with deletion, timeouts and panics, for finitely
  many tasks.  For one item, each action is shown to be one of a few shapes: what enters
  or leaves the channel (`Places`, the positions of the item) and a task's hands
  (`Hands`) is what its answers say was sent (`Enters`) or received (`Leaves`).  Whether
  those sums agree is arithmetic of cardinalities, done once in `OneSum`, `TwoSum` and
  `NoSum` (an action that moves one task, two, or none) and used for every action.

`ChannelSemaphoreProofs`, of any finite number of tasks and any sizes:

* `UnitsKept` (`UnitsConserved`), `NobodyWaitsInVain` (`NoIdleToken`).  To the two is added
  that the queue of parked tasks has each of them once (`InOrder`: otherwise a token
  handed over could go to a task twice) and that a task takes only a lock it does not
  have and gives only one it has (`LockDiscipline`, which is how `Take` and `Give` are
  used, and without which the set of holders counts nothing).
* `MutualExclusion`: a mutex that is not deleted has at most one holder.
* `Implements` (`ImplementsSemaphore`): every step is one of `Semaphore`, or leaves it
  unchanged.  It needs that nobody is parked while there is a token (a `Take` that blocks
  or times out is then a call that found none) and that every parked task is in the
  channel's queue (`Attended`), so that a `Delete` reaches it.

`TimerProofs`, of any number of starts and of functions in flight:

* `FiresOncePerStart` (`OncePerStart`), `ActiveIsServed` (`ActiveWillFire`).  They are
  inductive together, with the fact that a deleted timer is not active.  `Serves` names
  the places from which a loop still looks at the last start's ticker.

`TasksProofs`, of any names and any number of tasks and resumes:

* `TypeCorrect`.
* `NamesLead` (`RegistryFaithful`), whatever the names.  A task spawned overwrites the
  entry of its name and one that ends empties it; `beside` only has earlier tasks of the
  same name, so an entry was emptied since the last spawn only by that task or by one of
  those.

`NetManagerProofs`, of any number of tasks, listeners, sockets and calls, on each build:

* `OwnersClose` (`OwnerCloses`), `NoneIsStray` (`NoStrayListener`), `DisconnectIsThorough`
  (`DisconnectReleases`), `StatusSettlesDown` (`StatusSettles`).  `SocketsOwned` says that the one
  call that found a listener not closed is the one that gives its number back, and that
  until then nobody else is given it; `HandedOutOnce` that a listener is opened by one
  call; `Releasing` that what a disconnect took from the map has somebody on the way to
  it.  `StatusSettles` is inductive by itself: only a connect on its way writes
  "connecting" or goes on to write "connected" with an address, and only a listen of
  TinyGo sets one without looking at the state.  That a lowest free number exists
  (`LowestFree`) is the well-foundedness of the naturals.

`IDESessionsProofs`, of any number of requests, sessions, ticks and faults:

* `FilesKeep` (`FilesMatch`), `NothingIsLost` (`NothingLost`), `OnlyIdleGo` (`OnlyIdleSwept`,
  an action property).  The invariant has what a request can be doing by what it asks
  for (`InOrder`), that an evaluation and nobody else holds its session's mutex
  (`MutexHeld`), that a session is known to its maker alone until that one is answered
  (`IdsUnique`), that who is at work in a session out of the map has it in `torn`
  (`OutOfMap`), which entries a history has (`Recording`), and that what is about to be
  removed as expired has been idle (`ClockRead`).  On top of it `OwnOutput` says what the
  console and the entries hold in a session whose evaluations have left no task running.

Assumptions: `SizesAssumption` and `ProgramsAssumption` (the sizes are naturals, one
frame at least, a program's locals fit the stack), `LinkAssumption` (the bound and the
number of indices are naturals), `QueueAssumption` and `ChannelAssumption` (the capacity
is a natural number, nil is not an item), `SemaphoreAssumption` (finitely many tasks,
sizes above 0), `LoaderAssumption` (`WellFormed`: files contain lists of
names, which are found at paths), `TimerAssumption`, `TasksAssumption`, `NetAssumption` and
`SessionsAssumption` (bounds are naturals, nobody is not somebody, finitely many
listeners and ids).

Only model-checked:

* The liveness properties (`CallsReturn`, `BoundedCallsReturn`, `TakersServed`,
  `KeepsFiring`, `DeleteEndsLoops`, `DeletedEnds`, `ResumedStarts`, `ImportsEnd`,
  `EveryRequestAnswered`, `LoopsEnd`): liveness under fairness and `ENABLED` are out of the
  prover's reach.
* The properties of `Agreement`: `Language` and what it is made of are `RECURSIVE`
  operators over programs, which the prover cannot reason about, and induction over
  data, which it has no rule for.

Programs that `VariablesKept` excludes are not proved about because the property does
not hold of them: a block kept after its scope does reach other frames'
slots, and a file run on the running VM does overwrite frames.  The same is true of
deleted locks in `UnitsConserved`.

## Not modelled

* Two goroutines on one VM (`Task spawn:name:`, `builtins.go:433`): every order of their
  unsynchronised reads and writes.
* `TaskSupervisor`; the builtins of queues, files, the network and devices, except what
  they call in the modules above.
* Reference counts (`pkg/memory`): no program of the repository uses them.
* SD card files: a module's file is read whole; positions within a file are not followed.
* The project's files and pages of the IDE server: each request is a call or two of the
  file system.  (A POST tests that a file does not exist before it writes it, and two at
  once both may.)
* What a task left running in a session of the IDE server does to the interpreter's
  data: only what it prints is followed.
* A close of the bridge's socket that fails (`net_tinygo_esp32s3_idf.go:221-223`: the
  listener is then marked closed and out of the map, its socket open), and whether the
  radio is associated.
* The console, LED, PSRAM and browser pages: device or browser I/O without shared state
  of their own.
* Positions in messages of errors, the printing of values, and the disassembler.

## Plan

1. `VMExec`, `BlockLink`, `TinygoQueue` and their proofs (done).
2. `ChannelQueue`, `ChannelSemaphore`, `Timer`, `Tasks` (done).
3. `Language` and its parts, `IDESessions`, `NetManager` (done).
4. Theorems about `VMExec`, the queues, `ChannelSemaphore`, `Timer`, `Tasks`,
   `IDESessions` and `NetManager` (done).  The queue and the semaphore on a channel shown
   to implement their abstract specifications; `SharedLoader`, with its theorems (done).
5. `VMTasks` (two goroutines on one VM), `TaskSupervisor`, `SDFile`, and their theorems.
