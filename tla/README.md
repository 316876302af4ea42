# A TLA+ model of eja

eja is a Lua 5.2 interpreter (`src/lua/`) with a small C binding to POSIX calls
(`src/eja.c`) and a library in Lua (`src/lib/`): a web server that forks for
each connection, helpers for it (authorisation, an upload area, a proxy), a
store of records in files, a database client, an export to bytecode, and
command line options for all of that.  This directory holds TLA+ modules of
its processes, files and streams and of the core of its interpreter, the
configurations with which TLC checks them, and proofs that TLAPS checks.

Contents: [the system](#the-system) · [modules](#modules) ·
[the interpreter](#the-interpreter) · [runs](#runs) · [fairness](#fairness) ·
[divergences](#where-code-and-documents-disagree) ·
[observations](#observations) · [proofs](#proofs) ·
[not modelled](#not-modelled) · [plan](#plan) · [usage](#running)

## The system

| component | source | state | operations |
|---|---|---|---|
| accept loop | `lib/web.lua` 40-67, `eja.c` fork, wait, accept, close | listening socket, accepted socket, children | accept, fork, close, reap |
| start and stop | `lib/web.lua` 70-83, `lib/pid.lua` 4-20, `lib/file.lua` 32-42 | pid file, daemon process, port | `--web-start`, `--web-stop` |
| requests | `lib/web.lua` 86-338 | `web` table: request, body, answer | read header, read body, route, measure, send |
| socket proxy | `lib/web.lua` 437-487 | one remote socket, one client at a time | accept, read, ask, answer, close |
| upload area | `lib/webTaz.lua` | files of one directory | list, evict, store, find |
| record store | `lib/db.lua` | files numbered in a directory | new, put, get, delete, last |
| database client | `lib/maria.lua` | a descriptor, the state of a connection, `packet_no` | connect, query, fetch, close |
| system commands | `lib/sys.lua`, `lib/load.lua` | `ejaRun` queue, installed libraries | run, update, install, remove |
| bytecode | `lib/vm.lua` | none but files | export, import, translate |
| pid trees | `lib/pid.lua`, `lib/proc.lua` | `/proc`, pid files | read the tree, kill it, clean up |
| web authorisation | `lib/webAuth.lua`, `lib/webUser.lua` | file of users, time | hash windows, power of a user |
| scanner, tar reader | `lib/scan.lua`, `lib/tar.lua` | position in a stream | split into records; list, extract |
| ordered tables | `lib/table.lua` | keys in a metatable | put, pairs, sort |
| HTTP client | `lib/web.lua` 341-435 | none | one request |
| files | `lib/file.lua`, `eja.c` | the file system | read, write, move, remove, list |
| Lua: collector | `lua/src/lgc.c`, `lfunc.c`, `lstring.c` | lists and colours of all objects | steps, barriers, finalizers |
| Lua: compiler | `lparser.c`, `lcode.c` | the function being compiled | statements, expressions, code |
| Lua: interpreter | `lvm.c`, `lfunc.c` | frames, stack, upvalues | instructions |
| Lua: calls | `ldo.c`, `ldebug.c`, `lapi.c`, `lbaselib.c`, `lcorolib.c` | C stack, frames and counters of each thread | call, pcall, error, resume, yield |
| Lua: tables | `ltable.c` | array and hash part | get, set, resize, next, length |
| Lua: table.sort | `ltablib.c` | the array, the parts left to sort | compare, partition |
| Lua: chunks | `ldump.c`, `lundump.c`, `lzio.c` | reader and buffer | dump, load |
| Lua: patterns | `lstrlib.c` | position, captures | find, match, gmatch, gsub |
| Lua: io | `liolib.c` | handles, default files, iterators | open, close, read, lines |
| Lua: the rest | `llex.c`, `loadlib.c`, `lua.c`, ... | | |

How they interact:

* The web **master** owns the listening socket and forks a **worker** for each
  connection.  Nothing is shared after the fork but the kernel's objects:
  descriptors are copied, so that a socket lives until its last copy is closed.
* The **commands** that start and stop a daemon are other processes still.
  They and the daemon share a pid file for each port, the process table and
  the port.
* A worker runs its **requests** one after the other on one stream.  Handlers
  (the upload area, authorisation, scripts) are called inside a request and
  share directories and files with the handlers in all other workers.
* The **proxy** does not fork: its clients share the single connection to the
  remote server, one after the other.
* The record store, the library updates and the exported files are directories
  that any number of eja processes read and write with no lock.
* All of these are Lua programs.  The **interpreter** compiles each (or loads
  it as a chunk), executes it, and runs its collector between any two
  allocations; errors of scripts and handlers are long jumps of its core, and
  file handles are closed by its finalizers.

What is hard to get right here, and hard to test:

* *interleaving*: any process may act between two system calls of another, and
  the collector between two steps of a program;
* *failure*: fork, bind, listen, stat and reads can fail, and the code mostly
  goes on (or, where a nil meets an operator, ends the process);
* *streams*: headers, bodies, answers and chunks arrive in pieces or joined;
* *timeouts*: a read gives up after its timeout, and the bytes it waited for
  still come;
* *stale state*: pid files, directory listings and file sizes are read first
  and used later;
* *non-local control*: an error or a yield leaves any number of C and Lua
  calls at once, and the counters of each must be put back;
* *invariants between distant parts*: what the compiler emits the interpreter
  does not check; what a barrier forgets the collector frees.

What makes each component correct:

* accept loop: no connection shared by two workers, left open or left waiting;
  unreaped children bounded; the port free after a stop;
* start and stop: the pid file names the daemon that runs, a stop stops it, no
  other process is hit, a start serves;
* requests: worker and client agree where each request and each answer ends;
  reading ends;
* proxy: each client gets its own answer, none waits for ever;
* upload area: acknowledged means stored, the oldest go first, the size bounded;
* record store: what was written alone stays until its number is given up;
* database client: a query goes to its own connection and only when the last
  result was read to its end, and its result is its own;
* system commands: libraries are whole when nobody writes them, a command
  starts whatever the others before it did, an update that was acknowledged is
  there;
* pid trees: no process outside the tree is killed, none inside it is left;
* authorisation: a hash is good at the time it is made for and not for ever, and
  powers do not depend on the order of the entries;
* collector: nothing reachable is freed, a full collection frees the rest,
  finalizers are called once;
* compiler and interpreter: a compiled program does what its text means;
* calls: an error is caught by the innermost protected call, counters agree with
  the C stack;
* tables: a map with a length and a traversal, through every resize;
* sort: sorted, with nothing lost, and it ends even if the comparison is no order;
* chunks: what is dumped is what is loaded, in pieces of any size;
* patterns: the match that the manual's order of preference says;
* io: every open stream is closed once, by the function of its kind.

## Modules

| module | role |
|---|---|
| `WebServer` | the accept loop with its processes and sockets |
| `ConnService` | what the accept loop promises, with no processes: the abstract specification that `WebServer` implements |
| `WebControl` | start and stop commands, the pid file, the daemons' bind and listen |
| `WebRequest` | one connection: turns of `ejaWebThread` against a client |
| `Proxy` | `ejaWebSocketProxy` with its clients and its remote |
| `WebTaz` | the upload area under several workers |
| `Db` | the record store under several processes |
| `Maria` | the database client: opening, queries and their results, closing |
| `Library` | libraries and exported files under several commands |
| `LuaGC` | the garbage collector and a program that changes objects meanwhile |
| `LuaCode`, `LuaParser` | the compiler: code generator and parser |
| `LuaVM` | the interpreter, executing what the compiler made |
| `LuaMeaning` | what a program means, without code: the specification of both |
| `LuaCall` | calls, errors and coroutines with the C stack and its long jumps |
| `LuaThreads` | what programs are promised of them: the abstract specification that `LuaCall` implements |
| `LuaTable` | tables: array part, hash part, resizing, traversal |
| `LuaMap` | what a table is to a program: the abstract specification that `LuaTable` implements |
| `LuaSort`, `LuaDump`, `LuaPattern`, `LuaFiles` | `table.sort`, precompiled chunks, pattern matching, file handles |
| `...Proofs` | proofs, see [below](#proofs) |
| `MC...` | instances for TLC, with values that a cfg cannot write |

Four MC modules compose several components into one specification of which each
behaviour runs one `part`, while the variables of the others stay as they are:
`MCWebFiles` (`WebControl` serially and with overlapping commands, `WebTaz` with
one and with two workers, `Db`), `MCWebConnections` (`WebRequest` reading bodies
and answering, `Proxy`), `MCLuaRun` (`LuaVM`, `LuaCall`) and `MCLuaLib` (`LuaTable`,
`LuaSort`, `LuaDump`, `LuaPattern`, `LuaFiles`).  This adds no interleaving; it lets
components that work with the same resource share an instance.

Operators that begin a comment with "Mutant" are variants of the definition
that follows them, each with a plausible bug (a close forgotten, an off-by-one,
a check dropped).  Nothing in the specifications uses them; `PROJECT.json`
names the property each of them breaks.  Variables marked "history" exist in no
process; they record what has happened so that a property can name it.

### WebServer

`holds[p]` is the set of sockets process `p` has open.  It is the state the
properties are about: `fork` copies the master's set, `close` takes one element
away, the end of a process empties it, and a socket of which no copy is left is
gone.  `queue` is the kernel's accept queue, bounded by the backlog.

| action | code |
|---|---|
| `Accept` | `ejaSocketAccept`, web.lua:47 |
| `Fork`, `ForkFail` | `ejaFork`, web.lua:49; -1 takes the parent's branch |
| `CloseListen`, `CloseConn` | the child's closes, web.lua:51 and 56 |
| `Finish`, `Abort` | `ejaWebThread` returned 0; a Lua error or SIGPIPE ended the worker in it |
| `Exit` | the child leaves the loop, web.lua:57 |
| `CloseClient`, `Reap` | the parent's branch, web.lua:61-62, eja.c:39-44 |
| `Kill` | SIGKILL of a stop command |
| `Connect` | a client; the kernel completes the connection whoever accepts |

`Kill` also hands the children to init, which reaps them.  A killed master's
children that have not closed the listening socket yet keep it: the port stays
taken and clients can still connect, until the worker runs its first line.
`PortReleased` says that this ends, and `ServesInOrder` that whoever had
connected by then is refused and not forgotten.

### WebControl

A command is a sequence of system calls, each one an action: read the pid file,
kill, remove the file, fork, open the file for writing (which empties it), write
it.  A file is an object of its own (`content`), to which the path (`name`) may
lead; so a command that has the file open keeps writing to it after another one
has removed the path.  `Overwrite` gives what two writers leave: a longer number
keeps the digits that the shorter one did not cover.  Numbers of one and two
digits are enough for that.

`Read` has the three outcomes of `ejaPidKill` (pid.lua:12-20): no file or -1,
an empty file (`tonumber("")` is nil, and the comparison ends the program), a
number.  `SendKill` returns at once; `Die` happens later, and only then is the
port free.  `Bind` and `Listen` have outcomes that the code does not look at:
an unbound socket listens on a port the kernel picks ("stray"), and a socket
that was bound while another one was too does not listen and makes `accept`
fail for ever ("spin").  `Stranger` lets identifiers be reused by other programs.

`MaxActive` is how many commands overlap: 1 is an administrator who waits for
each command to return.  `mixed` has the commands that ran at the same time as
another; `LoneRecovers` is about the others, whatever those before them left.

### WebRequest

The stream is counted in units, each marked with its request and its part.  A
header is two units, so that it can arrive in two pieces; a body as many as it
is long; one recv takes at most `BufferSize` of them, which are cut wherever the
client and the network like (`Deliver`).  `ReadHeader` is the single recv of
web.lua:114 with all that is decided from it (parsing, 413, the loops to
enter); `ReadBody` is one turn of the loops at 152 and 172; `Route` finds the
answer; `Measure` computes length, range, status and keep-alive (283-303);
`Send` writes it and gives the value on which the worker goes round again.
`CutShort` has what may be understood of a header of which only a part came: its
first line may be cut, and the type, the length, the range and the wish to keep
the connection may be missing, or cut as well.

`strained` records that the client or the network did what the reader does not
provide for: a header in two segments, a second request before the end of the
first answer, a body with a method other than POST, a close or a timeout in
the middle of a request, a 413 that became a 2xx (by a range or by a page for
4xx).  `InStep` and `BodyWhole` are stated for streams without that;
with it they do not hold, which is listed under [observations](#observations).
The variable is set only by what the client, the network and the site's pages
do, and the reader never reads it.

Scripts are an outcome: a page of any length, or an error that ends the worker.

### Proxy

`todo` is what the remote still has to say, `wire` what has arrived and was not
read.  One recv takes whatever is there, up to the size of the buffer, so an
answer may be cut, joined to the next, or come after its timeout and be read for
the next client.  A client may be silent, hang up, ask with a bad request or
with none; the remote may close.  `strained` says that some answer did not come
whole and in time.

### WebTaz

Each request lists the directory, stats the files, sorts them, removes those
beyond the limit, then answers: list, store or find.  Removing, emptying and
writing are actions of their own, since each is a call of its own and other
workers run between them.  `linked` tells whether a file open for writing
still has its name.  The files are looked at one by one (`Stat`, with what was
found in `sizes` and `times`), and may be written or removed in between; `Plan`
sorts what was found.  One simplification: an upload of a file has been received
before (by `WebRequest`), so it dates from before the listing.  With several
workers a list may thus mix moments; the size stays bounded all the same, and
the order of eviction is stated for requests that do not overlap.

### Db

A record is a file named by a number, and what it says is the number of the call
that wrote it (`Absent`, `Empty` after it was opened for writing, `Mixed` when two
writers overlapped).  A call is a process at a place: `List` is `ejaDbLast` with
its error (the second file of a listing is compared with a string, which ends
the program), `Open` and `Write` the two moments of `ejaFileWrite`, `Remove` that
of `ejaFileRemove`, `OpenFails` and `Kill` end a call anywhere.  `linked` has the
writers whose file still has its name.  `quiet` has the processes whose call no
conflicting call overlapped: two calls conflict unless both are given numbers
and these differ.

### Maria

Two globals hold what the client knows: `fd` (`eja.maria.fd`) is set by every
attempt to open a connection, `db` (`eja.maria.db`) only by one that succeeds.
An attempt has a number, which stands for the descriptor it got; `fd # db` means
that queries would go somewhere else.  `state` is the state of the connection:
"sent" is left only at the end of a result.

A packet is three units on the stream: its header, the beginning of its content
and the rest.  `Arrive` delivers any number of units at once, so that a packet
may be there in part: with its header only (`Silence`, the read gives up, and
the content comes later) or with part of its content (`LosesStep`, where `recv`
returns less than it was asked for, and what follows is taken for a header).
`Intact` is the case in which the packet is whole.  `pc` says which read of
`connect` or `read_result` is next; `Rejected`, `Answered`, `StatementFails` are
the ends they have.

| action | code |
|---|---|
| `Open` | `ejaMariaOpen` to the greeting: an unknown character set, no address, a refused connection, a connection |
| `ReadGreeting`, `ReadAuth` | maria.lua:713-860, the packet sent in between included |
| `Query`, `QueryRefused` | `send_query`, maria.lua:911-937 |
| `ReadResult`, `ReadField`, `ReadEof`, `ReadRow` | the four places of `read_result` that read a packet |
| `Silence`, `TooLong`, `Ends`, `LosesStep` | the outcomes of `_recv_packet` other than a packet |
| `Close` | `ejaMariaClose`; the descriptor is closed and not forgotten |

The server is the environment: it greets or rejects, answers a query with one
result, several, an error, or an error among the fields or the rows
(`Plan`), and may end at any time (`Hangs`).  `strained` says that a packet
came in part, `astray` that a query went to another descriptor than its own.

### Library

Every command of eja first loads the libraries it finds in the directory, in the
order of their names, and then does what its options say; `todo` is what it has
still to load.  A library may be whole, empty, a part of one, or a page (any
text that is neither marked as Lua nor bytecode, such as the page of a server
about an error).  There are two whole texts of different length, since libraries
come from an address that is given, from eja.it or from GitHub; where two
updates write different ones to one file at the same time, what stays may be
either of them or a mix (`Overwrite`), and `crossed` remembers the file.  `Unreadable` has those on which the program ends: `ejaVmToLua`
is given text it cannot translate, also when the file is gone and its name is
taken for the text.  A library that is broken off is bytecode still, and is
passed over with a line in the log; so may a mix be, or it is run as far as it
makes sense, or ends the program.

| action | code |
|---|---|
| `Begin`, `Load` | `ejaLoad`, load.lua:45-58, and `ejaVmFileLoad` |
| `Fetch` | the requests of `ejaLibraryUpdate`, sys.lua:59-76: no answer, a library, a part of it (a read that timed out), a page |
| `Open`, `Write` | `ejaFileWrite`: emptied first, written at close |
| `Remove` | `ejaLibraryRemove`, one call |
| `CheckOutput` | `ejaVmFileExport` to its stat, vm.lua:202-217 |
| `Kill` | a signal or a crash at any point; what was to be written may be there in part |

As in `WebControl`, a name leads to a file, and a command goes on writing to a
file whose name is gone.  One command has one option here.  `overlapped` marks
the commands that ran at the same time as another, `troubled` that one was
killed while it wrote or that a server sent a part or a page.

## The interpreter

The modules `Lua...` model the core of the Lua that eja is built on.  They follow
the C code function by function; what is data there is small here.

### LuaGC

Objects are numbers, with the fields that the collector looks at: type, colour,
the old bit, the mode of a weak table, entries, the closure cached by a
prototype, the thread whose stack has the value of an open upvalue.  The lists
of all objects, of objects with finalizers and of those to be finalized are
sequences, since sweeping and finalizing depend on their order; the five lists
of gray objects are sets, since any order of traversal must do.

The program (`Main`'s stack is what it reaches) creates objects, stores into
them with the barriers of the C code, closes upvalues, sets finalizers, changes
the mode of a table, asks for full collections and changes between incremental
and generational mode.  The collector's step is `singlestep` with its states;
`goal` says for which function it runs alone (`luaC_fullgc`, a minor collection, a
change of mode, `lua_close`).  The pace at which it runs is left out: it may do a
step at any time.  An emergency collection is a full one (`StartFull`).
A finalizer's call is an event in `finalized`; a finalizer is not given to a
weak table here.  A *profile* has the kinds of objects a program uses, what it
begins with and what it may do.

Marking userdata and closed upvalues goes on to their values at once, so that the
marking of an object is the least set closed under that (`Through`).  `atomic` is one
step, and what it marks is again a least set (`Spread`): the one that
`propagateall` and the loop of `convergeephemerons` come to.

### LuaCode, LuaParser, LuaVM and LuaMeaning

`LuaParser` translates syntax trees, not tokens: its operators are the functions of
lparser.c, with `FuncState` as a record `f` and an expression descriptor `e`.
`LuaCode` has those of lcode.c.  A list of jumps is the set of its instructions, and
a jump holds its target instead of the distance.  `f.ok` says that every
`lua_assert` held.  Small limits (`MaxIndexRK`, `MaxArgBx`, `MaxArgC`,
`FieldsPerFlush`) make constants not fit in operands, `LOADKX`, `EXTRAARG` and
several flushes of a constructor occur in programs of a few lines.

`LuaVM` executes one instruction a step with frames, one stack, open and closed
upvalues.  Operations on values from outside the program (functions,
metamethods) are events, with any of a few answers, and are recorded in
`trace`.  `LuaMeaning` evaluates the syntax tree with the same answers, each
variable a cell of its own; `SameMeaning` compares events, results and errors.
Numbers are integers, without division and powers; limits of nesting, line
numbers, the closure cache and the sizes of new tables are left out.  Without the
cache (`getcached`, lvm.c:374) each evaluation of a function makes a new closure;
programs that compare functions for identity, which the manual leaves open, are
not among those that are run.

### LuaCall and LuaThreads

`cs` is the C stack, one for all threads: activations of `luaD_call`, `luaV_execute`,
`lua_pcallk`, `lua_resume` and so on, each with what its return or a long jump to
it puts back.  `th[t]` is the state of a thread: frames, status, `nny`, `nCcalls`,
`errfunc`, the chain of `errorJmp`.  A step runs from one point at which C returns,
jumps or hands over to Lua code to the next.  Values are not modelled: a frame
remembers the outcome of its last call (`got`).  Hooks, tail calls and the calls
of finalizers are left out, handlers are functions, and the main program does
not end.  The limits of a profile stand for `LUAI_MAXSTACK`, `ERRORSTACKSIZE`,
`LUAI_MAXCCALLS` and its eighth.

`LuaThreads` knows of no C stack: frames of each thread, which threads resumed
which, an error on its way.  Whether a yield is a long jump, a return or a
continuation, whether an error is caught by a jump or recovered by `lua_resume`,
makes no difference there.

### LuaTable and LuaMap

Integers stand for keys; from `Strings` on they are strings.  The value under a
key is the key itself: what could go wrong is where it is, not what it is.
Hashes are given (three universes: an array that grows past its first sizes,
all keys in one chain, integers far apart).  `Die` is the collector's clearing
of a dead key; a traversal that no longer finds its key ends with an error
(`Invalid`), and `AsMap` says that this does not happen.  `LuaMap` is a map with a length, a border, and a traversal with
the set of keys still to be met.

### LuaSort, LuaDump, LuaPattern, LuaFiles

`LuaSort` asks for one comparison a step; answers follow the keys or are any.

`LuaDump` writes a prototype as cells, one for each byte and two for a number, and
reads them back through `luaZ_fill` from pieces of any size; a chunk may be cut
short, or have another header.

`LuaPattern` has items as data, and classes as sets of characters; the matcher is
a recursive operator with the record of captures that each alternative changes
and must put back.  The reference is not recursive over the pattern's text: it
is the set of all ways to lay out the items over the subject, and the order of
preference among them.  A pattern without special characters, which a closing
bracket is not, is searched as it is by `find` (`FindPlain`), and matched by the
others.  The limit of `gsub` is read as a size, so a negative one
is none.

`LuaFiles` has the handles with the C stream and the closing function of each;
the C library gives the address of a closed stream to the next file.  Calls that
fail with an error leave all as it was and are no step.  A handle that nothing
reaches is finalized (`Gc`) and later freed (`Swept`).

## Runs

| run | instance | checks | shows |
|---|---|---|---|
| `web_server` | 4 connections, 3 process identifiers, backlog 2 | `ZombieBound` `SoleServer` `HandledMeansClosed` `QueueAnswered` `PortReleased` `ServesInOrder` | no connection is shared or left open, children stay bounded, under every interleaving with failing forks, aborting workers and a kill; the loop implements `ConnService`, never stops accepting for a child, frees the port |
| `web_files` | 4 commands serially and 3 at once, 2 identifiers; upload area with 1 worker and with 2; store with 2 processes, 3 numbers, 3 calls | `NamedDaemon` `KillsOnlyDaemons` `LoneRecovers` `StopStops` `ReadableWhenOver` `AreaKept` `EvictsOldest` `RecordsKept` | commands given one by one leave a pid file that names the daemon, overlapping ones a file that the next one reads and puts right; the upload area keeps to its limit and evicts the oldest; no record is lost that was written alone |
| `web_connections` | 2 requests with bodies, or one answer of every kind; proxy with 3 clients | `TurnsInStep` `HonestLength` `StreamInOrder` `BodyReadEnds` `EveryoneServed` | worker and client agree on where requests and answers end, in any segmentation; the proxy passes answers on in order and serves everyone |
| `maria` | 2 attempts, 2 queries, 7 kinds of results | `RightSocket` `AnswersInTurn` | a query finds its own connection and an empty stream, its result is its own |
| `library` | 3 commands, 2 libraries, 1 exported file | `AtRest` `Undisturbed` | overlapping updates leave whole libraries, and a mix only where they wrote different texts at the same time, undisturbed commands find them so, an update that was acknowledged is there |
| `lua_gc` | 6 programs with up to 4 objects | `NoDangling` `TriColor` `Finalized` `FullCollects` | whatever a program stores between two steps of the collector, nothing reachable is freed |
| `lua_run` | 20 programs; 5 profiles of calls with up to 2 coroutines | `SameMeaning` `WellFormed` `Balanced` `HandlerOfInnermost` `Promised` | compiled programs do what they mean; calls, errors and coroutines do what `LuaThreads` promises |
| `lua_lib` | tables of 8 keys, arrays up to 7, two prototypes, a few hundred patterns, 3 handles | `AsMap` `Sorts` `Returns` `RoundTrip` `MatchesAsSaid` `PutTogether` `Owned` `NoneLeaks` | tables are maps, arrays get sorted, chunks are loaded as dumped, matches are the preferred ones, files are closed once |
| `control_restart` | 3 commands serially | `StartServes`: violated | a restarted daemon may not get its port |
| `control_two_starts` | 3 commands, 2 at a time | `StopStops`: violated | a daemon the pid file does not name survives a stop |
| `lua_label` | one program | `SameMeaning`: violated | a variable after a label is not nil again |
| `lua_call_count` | 2 coroutines | `CountsReturned`: violated | a refused resume changes the count of C calls |

Properties that stand for several components' type invariants name them:
`TurnsInStep`, `AnswersInTurn`, `Undisturbed`, `ReadableWhenOver`, `AreaKept`,
`RecordsKept`, `StreamInOrder`, `NoDangling` and `Balanced` begin with the type
invariant of their module.

Why the bounds are enough:

* `web_server`: three identifiers give a worker in each of three stages, and
  the fourth connection needs one of them again; the queue (2) fills up and
  drains.  With two workers only, a zombie, a live worker and a fork cannot
  coexist.  The proofs cover every size.
* `web_files`, commands: a state is reached by a start, a crash or a stop, a
  second start and a stop after it: four commands.  9 and 10 differ in width; in
  `control_two_starts` 90 is there to be what two overlapping writes of 9 and 10
  leave.
* `web_files`, upload area: three names and sizes below, at and above the limit;
  for two workers, with files of size 1 and forms of 2 against a limit of 1, the
  three names could hold more than the bound, and the bound is reached.
  `MaxTime = 0` there makes all files equally old, so that they are listed in any
  order.
* `web_files`, store: the numbering of `ejaDbNew` fails on a second file, so that
  a record, a new one after it and a deletion or an overwriting in between are all
  there is: three calls by two processes.  The proofs cover every size.
* `web_connections`: two requests, since what can go wrong is that the end of one
  is taken for the beginning of the next; a body of 3 does not fit in a buffer of
  3 together with its header, one of 2 neither but is not refused as a form, one
  of 0 is none; a length that was cut is another of these.  Of the requests that
  are read only forms may ask for the connection to be closed; of those that are
  answered every kind may.  For answers, a range inside a file, at its first
  byte, beyond its end, without a number and absent.  Three clients of the proxy,
  of which at most one makes no query: a late answer shifts two later ones; an
  answer of 2 units against a recv of 3 gives a whole one, a cut one and one and a
  half.  The proofs cover every size.
* `maria`: a second attempt is what separates `fd` from `db`; a second query is
  what can read what the first one left.  One field and one row give each read
  of `read_result` an error, a late packet and a partial one.
* `library`: an update, a removal that takes the name from the file being
  written, and an update that makes a new one: three commands.  Two libraries
  let a command be between loading one and the other.  Two texts of different
  length are what two writers can mix.
* `lua_gc`: a missing barrier needs a black object, a white one and a third from
  which it is reached until the store: three objects; an ephemeron chain needs a
  key that is the value of another; an upvalue a thread, two closures and itself.
* `lua_run`: each program is written for constructs that meet (a break out of a
  block with captured variables, a test inside an `and` inside an assignment).
  A program that goes on for ever is stopped after `MaxTrace` events.
  For calls, limits small enough that each overflow is reached inside each kind of
  call, and large enough for every kind of call under every other of its profile.
* `lua_lib`: see the universes of `MCLuaLib`; arrays up to four elements over three
  values have every order with repetitions, longer ones go through a partition of
  a partition; pieces of 1, 2 and 3 cells end inside every kind of cell group;
  patterns of up to two items, and nested captures with a repetition inside, over
  subjects of up to four characters; one stream address is what makes a closed
  handle and an open one share it.

`CHECK_DEADLOCK FALSE` is set where the environment is finite (each connection,
command or client is used once) or the system may end: the daemon is killed, the
proxy aborts, a connection is closed, a program has come to its end.

## Fairness

* `WebServer`: weak fairness of the master's step and of each worker's
  `CloseListen`, `CloseConn` and `Exit`: the scheduler runs a process that can
  run.  Clients need not connect, and a request need not end (`Finish`, `Abort`
  have none): a script may run for ever, and the loop must still accept.
  `Kill` has none.
* `WebRequest`: weak fairness of `Worker`, whose steps include the timeout of a
  read (the socket option of web.lua:54).  The client has none.
* `Proxy`: weak fairness of `Loop`, timeouts included (web.lua:447-448,
  457-458); clients and remote have none.
* `LuaSort`: weak fairness of its step: the sort goes on until it returns, and
  each comparison answers.
* `LuaFiles`: weak fairness of `Gc` for each handle: a cycle of the collector comes
  as long as the program allocates, and calls the finalizers of what it found.

`BodyEnds` has an exception that the code makes necessary: after the client has
closed, `recv` returns the empty string, which is neither nil nor progress, and
the loop goes round for ever.

## Where code and documents disagree

1. **A restart may not serve** (`control_restart`).  `ejaPidKill` returns as soon
   as SIGKILL was sent, and `ejaWeb` looks at the result of neither `bind` nor
   `listen`.  When `--web-start` replaces a daemon that has not released the port
   yet, the new one listens on a port that the kernel picks.  `doc/eja.1:66` says
   of `--web-port`: "run the web server port on specified value, default
   35248."  The same happens with the program itself, in about one restart in a
   hundred.
2. **A stop may not stop** (`control_two_starts`).  `--web-start` forks first and
   writes the pid file afterwards.  Two that overlap leave a daemon that the file
   does not name, and a later `--web-stop`, given alone, leaves it running.
   `doc/eja.1:58` says: "stop the web server running on specified port";
   `README.md:200` of the repository says the same of the default port.
3. **A local variable may not be nil** (`lua_label`).  `labelstat` (lparser.c:1225)
   enters a label at the current instruction without `luaK_getlabel`, so that
   `luaK_nil` joins the nils of the declarations before and after a label into
   one instruction before it.  A `goto` back to the label then leaves the variable
   behind it with its last value.  `lua/doc/manual.html:1822`: "Otherwise, all
   variables are initialized with nil."; the comment at lcode.c:90 says what
   `luaK_getlabel` is there for.  The program itself does the same.
4. **A refused resume is counted** (`lua_call_count`).  `lua_resume` (ldo.c:540)
   sets `nCcalls` of the coroutine before it looks whether that is suspended.  A
   coroutine that waits for another one and is resumed by it keeps the higher
   count, and after enough attempts gets a "C stack overflow" that there is not.
   The assertions at ldo.c:531 and 561 say that the count is given back.  The
   program itself does the same.

## Observations

Things the models show, or reading the code showed, that no document contradicts:

* Once a client has closed in the middle of a body, the loops at web.lua:152 and
  172 never end: the worker spins (`BodyEnds` excepts this).
* A header is read by one recv; the rest of a longer one, or of one that came in
  two segments, is taken for the next request.
* The body of a method other than POST is never read, so on a kept connection it
  is taken for the next request.  The same goes for a form refused with 413
  if the request also has a Range, which turns the status into 206.
* A range of a generated page is announced and the whole page is sent.
* A Range header without a number, and a file uploaded to the upload area
  without a query, end the worker.
* A query stored by the upload area may be larger than the limit; the next
  listing then removes every file.
* The 413 of the upload area is overwritten by 500 if no file of that name exists.
* The file that receives an upload is named by the client's port alone, because
  `gsub` with "." as a pattern removes every character of the address.
* A proxy answer that comes after its timeout is given to the next client, and
  every later answer is shifted (`OwnAnswer` says when this cannot happen).
* After a timeout, an error among the fields or the first of several results,
  the database connection stays in the state "sent", and every later query is
  refused until another connection is opened.  `InTurn`, a part of `AnswersInTurn`, is the good side of that.
* An attempt to open a second connection replaces the descriptor even if it
  fails; queries of the first connection then go to a socket that is not
  connected, which ends the program, or to another server.
* An error in the middle of the rows is read as a row, and the call then waits
  for the timeout.  The end of the stream ends the program.
* After a close the descriptor is kept, and a second close writes to it.
* An error page (or an empty file) stored as a library ends every later command,
  `--remove` and `--update` included (`StartsAlone`, a part of `Undisturbed`, excepts this).  So does a
  library that another command has emptied for writing, or removed after the
  directory was listed.
* Two updates of one library that received different texts and overlap leave some
  of both (`AtRest` excepts this).
* `eja --export p.lua --export-name pp` writes the source of `p.lua` to `pp.eja`,
  which does not load, although `README.md:105-107` of the repository calls it
  the export of bytecode: only a name with the suffix `.lua` is compiled.
* Exported numbers lose digits (0.1 becomes 0.099999999999994), and the
  `index.eja` that `--setup` writes is plain Lua, which the loader of scripts does
  not take without its mark.
* Two options with the same number take one place in the queue of `ejaRun`, and
  one of them is not run.
* A pid file that a command left empty because it was itself killed between
  open and close makes every later command abort.
* `ejaDbLast` keeps a number as the string it was read as and compares the next
  one with it, which is an error: `ejaDbNew` works on a directory with one record
  or none, and ends the program in any other.
* The comparison of `table.sort` may be no order at all: the sort ends, touches
  nothing outside of the array and loses no element, and may raise an error.

## Proofs

What is proved holds for every value of the constants that satisfies the
module's assumption (finitely many process identifiers, a positive backlog,
model values distinct; for `WebControl`, identifiers of at most two digits; for
`Library`, that no library has the name of an exported file; for `WebTaz`, that
queries and forms have finitely many sizes, since they have room in the buffer of
the web server; for `LuaSort`, that arrays are sequences of integers; for
`LuaFiles`, that the standard handles and files are among them).  Each proof has the form `Init => IInv`,
`IInv /\ [Next]_vars => IInv'`, `IInv => Inv`; what `IInv` adds to the property is
the argument.  The inductive invariants were checked by TLC before.

**WebServerProofs.**  `SoleServer` and `HandledMeansClosed` are not inductive:
they forbid shared descriptors and say nothing of why there are none.  The
invariant that is inductive says which sockets each process has open, as a
function of where it is:

* `MasterInv`: the master has the listening socket until it is killed, and one
  client's exactly between accept and close;
* `WorkerInv`: a worker has its own connection until it closes it, and the
  listening socket until its first line;
* `OwnerInv`: two workers that still own a connection own different ones, and
  none owns the one about to be forked for;
* `QueueInv`: what is queued is queued once and was taken by nobody;
* `CountInv`: `ZombieBound` with the fact that `peak` bounds the live workers.

`OwnershipNext` goes through the actions one by one; a worker's copy at `Fork` is
exactly the listening socket and the client because of `MasterInv`, and the
queue's head is new to everyone because of `QueueInv`.  `CountNext` shows that
reaping one child for each fork suffices: a fork adds one process, and if the
total already exceeds the peak then there is a zombie for `Reap` to take.

| theorem | statement |
|---|---|
| `TypeCorrect` | `Spec => []TypeOK` |
| `SoleServerCorrect` | `Spec => []SoleServer` |
| `HandledMeansClosedCorrect` | `Spec => []HandledMeansClosed` |
| `ZombieBoundCorrect` | `Spec => []ZombieBound` |
| `ServesInOrderCorrect` | `Spec => ServesInOrder`: the loop implements `ConnService` |

For the last one each action is mapped to a step of the service or to a stutter:
`Connect` to `Arrive`, `Accept` to `Take`, the close that takes the last copy of
a connection to `Leave`, and the close (or kill) that takes the last copy of the
listening socket to `Shutdown`, which at most one connection ends with: the one
the master holds.

**WebTazProofs.**  `Bounded` is the hardest to see: workers remove by lists that may
be out of date, and two of them may have made room in the belief that they are
alone.  Take a clock of the uploads, and for each worker when it read the
directory last, for each file when it was stored and by whom.  `CountInv` says
that such times exist for which there is a time, `base`, such that what was stored
until then fits in the limit (`BaseFits`), and each worker stored at most one of
the files stored since (`OneEach`).  When a worker stores another file, it has read
the directory since it stored the last one (`ReadAgain`); what it read and did not
remove fits in the limit (`KeptFits`), so that the time it read is the new `base`.
These times are no variables of the model: the invariant says that there are some,
and each step says which (`ReadDirCounted` to `StoreCounted`).

With one worker, `SoloInv` follows the request: what was seen is what is stored,
and what a look at a file found is what it has;
what is kept and what is to go are two parts of it (`Parted`); when nothing is left
to go, the list is what is stored.  `EvictsNext` looks at the one step that gives
files up.

All three add up sizes over sets.  `SumFunctionOnSet` chooses a recursive function
on subsets; `AddsExists` and `AddsAgree` show that there is exactly one,
by induction on finite sets (`SetInduction`, from the least number for which
something fails: no operator is passed).  From it come the facts that the proofs
use: a sum without one element, the sums of two parts, of a subset, of bounded
sizes.

| theorem | statement |
|---|---|
| `BoundedCorrect` | `WebTazAssumption`: `Spec => [](Typed /\ Bounded)` |
| `SoloCorrect` | and requests do not overlap: `Spec => [](Trimmed /\ Acknowledged)` |
| `EvictsOldestCorrect` | and requests do not overlap: `Spec => EvictsOldest` |

**WebFilesProofs.**  Of the commands, what is proved first is for the composition's own
`WebControl`.  `ControlTyped` holds for any number of overlapping ones.  The theorems
named `...Serial` assume `MaxActive = 1` and follow from `SerialInv`: at most one
command is active, between commands the pid file is `Settled` (every daemon is the
one it names; it can be read; it names a live daemon unless one ended by itself),
and `CmdInv` says what is true at each step of the active command: nobody is alive
from the kill to the fork, and only the new daemon until the file is written.

`ReadableWhenOver` is about the instance in which commands overlap.  It needs
`WriterInv`: a file is empty only while a command that has it open is still to
write it, whichever name leads there by then, and what is written over a number is
never nothing (`OverwriteReadable`).  For `LoneRecovers`, `LoneInv` adds that who
runs alone has nobody beside it and writes to the file it has just emptied, which
the path leads to; so what it reads can be read, and what it leaves is its own.

Of the store, `RecordsKept` says nothing of calls under way.  `QuietInv` does: who is
quiet overlaps no conflicting call, so what it opened is empty, still has its
name, and was numbered from a directory that has not changed in a way that
matters; `KeptInv` adds that nobody works on a record that is kept.  Both need
`CallInv`, what the place of a process says of its call.  `LastOfOne` is why
numbering is sound at all: `List` goes on only with one file or none.
What is proved of the upload area is carried over to the composition that TLC
checks: its steps are those of the part or leave it alone, and the instances for
the proofs are those for the checks (`SameUpload`, `SameUploads`).

| theorem | statement |
|---|---|
| `ControlTyped` | `Spec => []TypeOK` |
| `NamedDaemonSerial` | `MaxActive = 1`: `Spec => []NamedDaemon` |
| `KillsOnlyDaemonsSerial` | `MaxActive = 1`: `Spec => []KillsOnlyDaemons` |
| `StopStopsSerial` | `MaxActive = 1`: `Spec => StopStops` |
| `RecordsKeptCorrect` | `AllSpec => []RecordsKept`, any number of processes, calls and records |
| `ReadableCorrect` | `AllSpec => []ReadableWhenOver`, any number of commands at once |
| `LoneRecoversCorrect` | `AllSpec => LoneRecovers`, any number of commands at once before it |
| `AreaKeptCorrect` | `AllSpec => []AreaKept`, one worker and any number of them |
| `EvictsOldestCorrect` | `AllSpec => EvictsOldest` |

**LibraryProofs.**  `AtRest` says nothing of the time in which somebody writes.
`WholeInv` does: a library is whole, or it is empty and somebody is writing it,
or it is a mix and its file is crossed.  For that to be kept, whoever writes a
library must have a whole one to write (`DataInv`); in a file that is not crossed
everybody writes the same text, and finds nothing else there (`TextInv`); and a file must keep to the name it was made for (`NameInv`,
`OpenInv`), or an export could end up in a library whose name was removed and
made anew.  `WholeKept` deals with all steps that touch no content.

`Undisturbed` is about commands that nobody overlapped.  `AloneInv` says that such
a command found nobody at work and meets nobody while it works; `UntouchedInv`
that therefore what it has still to load is there, and what it has open is the
file the name leads to; `AckInv` that what was updated stays until a command that
has begun is given it; `ExportInv` that of two commands that found no exported
file each was there when the other one was.

| theorem | statement |
|---|---|
| `TypeCorrect` | `Spec => []TypeOK` |
| `AtRestCorrect` | `Spec => []AtRest` |
| `UndisturbedCorrect` | `Spec => []Undisturbed` |

**MariaProofs.**  `TypeOK` needs one fact more to be inductive, that fields are
awaited only while some are left (`Counting`), or the count would fall below
zero.  `RightSocket` speaks of the time between calls; `SocketInv` adds that a
result is read only in the state "sent" and that the two descriptors agree
during a query as well.  Only an attempt to open separates them: from its first
step it is outside the invariant, and its end brings them together (success),
or is recorded (failure while a connection was in use).

`AnswersInTurn` needs to know in a call what of the result was read and what is
still to come.  `CallInv` says so: what was read are the first packets of the plan
of the query sent last, and what is in the stream, sent or not, are the units
of the packets after them (`Follows`), so that a read takes the next packet of
that plan; `Reached` says how many were read at each place of `read_result`, for
each kind of result.  `GreetInv` is needed to know that a connection just opened
has an empty stream.  The lemmas on `Follows` do the counting of units, three
for a packet, in sequences of any length.

| theorem | statement |
|---|---|
| `TypeCorrect` | `Spec => []TypeOK` |
| `RightSocketCorrect` | `Spec => []RightSocket` |
| `AnswersInTurnCorrect` | `Spec => []AnswersInTurn` |

**WebConnectionsProofs.**  For `WebRequest`, three invariants.  `Typed` adds to `TypeOK`
that units belong to requests that were made.  `HonestInv` relates what was
announced to what `Send` will find in the file, unless it is edited.  `StepInv` has
two parts: `Followed`, whatever the client does, behind the front of each header
in the stream there are its back and a body of the length it says, as long as
the client has not closed, which is why the loop for a body finds all of one that
was sent; and `Clean`, while nothing puts strain on the reader the stream is one
whole request, or the rest of its body, or empty, or the body of a form that was
refused, after whose answer the connection closes.

For `Proxy`, `ProxyInv` has the order in which clients are asked and served
(`Lined`), what each place of the loop says of the client in hand (`Turned`), the
equation of the stream (`InOrder`), and, while no answer is late, that each client
served has its own answer (`InTime`).  The equation is one of flattened
sequences of any number of answers.  `FlattenSeq` is a recursive function, so what
it gives for a sequence that grows by one is proved by an induction: on the set
of numbers for which it fails, by `WFMin` and `NatLessThanWellFounded` (`Least`,
`Induction`), which needs no operator as a parameter.

| theorem | statement |
|---|---|
| `ConnectionCorrect` | `WebRequestAssumption`: `Spec` implies all invariants of `WebRequest` |
| `TurnsInStepCorrect` | `AllSpec => []TurnsInStep` |
| `HonestLengthCorrect` | `AllSpec => []HonestLength` |
| `StreamInOrderCorrect` | `AllSpec => []StreamInOrder` |

**LuaLibProofs.**  For `LuaSort`, `PartsInv`: the parts left to do lie in the array and apart from
each other.  `PlaceInv`: the partition stays between its ends whatever the
comparisons answer, since a search that leaves it raises the error first.
`KeyInv`: with answers that follow the keys, what the partition has passed is on
the right side of the pivot.  `OrderInv`: two elements are in order, or both in
one of the parts left to do; when none is left the array is sorted.  A step
changes elements within its part only (`Inner`), so what is outside keeps its
order to what is inside (`InnerOrder`).

For `LuaFiles`, three facts make `Owned` inductive.  `ReachInv`: a handle that can be
reached has a stream and was not finalized, so that what the program calls never
meets a handle without one.  `MarkInv`: a handle marked open has a stream of its
kind, and no second handle marked so has the same, since the C library gives an
address again only when the stream there was closed, and the mark is cleared
before the stream is closed.  `CloserInv`: every open stream has a handle that
will close it; for this `FinalInv` has to say that the finalizer left nothing to
close in a handle the collector frees.

| theorem | statement |
|---|---|
| `SortsCorrect` | `Spec => []Sorts`, for arrays of any length |
| `OwnedCorrect` | `FilesSpec => []Owned`, for any number of handles and streams |

**LuaGCProofs.**  `NoDangling` says only that what is not dead leads to nothing dead
or freed (`Sound`); whether a step keeps that depends on nearly everything the
collector knows.  `IInv` is the conjunction of what is needed:

* `GrayInv`: while marking, black refers to nothing white, and what is gray is in
  exactly one list of the traversal, which holds what it is for.  So when the
  traversal has emptied the lists and the two whites are exchanged, what stays white
  is what nothing marked refers to.  The barriers are what keeps it between.
* `SweptInv`: what is dead has still to be visited by the sweep (`Unswept`), so that
  it is gone, or white anew, before the whites are exchanged again.  What has still
  to be visited depends on the order in the lists and on how far the sweep has come:
  `ListInv` (each object is in one list) and `PointInv` (where the sweep stands).
* `OldInv`: a sweep of the generational mode stops at the first old object, so
  behind an old object there must be only old ones, `U` apart, which it has still to
  visit.  Open upvalues of old threads are not visited (`Stale`); they are what is
  allowed to stay dead, or to have the current white in a minor collection (`Young`).
* `FinInv`, `PendingInv`: an object is in `finobj` or `tobefnz` exactly from the
  setting of its finalizer to the call.  `KindInv`, `GoalInv`: what each type of object can
  refer to; which goals occur in which mode and state.

Each action has a lemma.  Those of the program share `WritesKeep` (what is written
refers to nothing dead, and a barrier keeps the colors in order: `BarrierKeeps`), those
that only begin something else `GoalSet`, and those that sweep `SweepKeeps`.  That the recursive function `Without` keeps
the order of what is left is proved by induction on the length of the list, with
sets of numbers (`Least`, `Induction`) in place of predicates.

| theorem | statement |
|---|---|
| `Invariant` | `Spec => []IInv` |
| `NoDanglingCorrect` | `Spec => []NoDangling`, every set of programs, any number of objects |
| `TriColorCorrect` | `Spec => []TriColor` |
| `FinalizedCorrect` | `Spec => []Finalized` |

**Only model-checked.**

* Liveness (`QueueAnswered`, `PortReleased`, `BodyReadEnds`, `EveryoneServed`,
  `Returns`, `NoneLeaks`): out of the prover's reach.
* `SameMeaning`, `WellFormed`, `MatchesAsSaid`, `PutTogether`, `RoundTrip`, `AsMap`: the
  compiler, the evaluation of programs, the matcher and the format of chunks are
  recursive operators, which the provers cannot unfold, and `AsMap` needs
  facts about chains of any length.
* The calls: `Balanced`, `HandlerOfInnermost`, `Promised`; and `FullCollects`, that a full
  collection leaves nothing that could be freed.

## Not modelled

* What scripts and handlers compute; the options and parameters of a query;
  the page that lists a directory; wording of headers and of the log.
* The rest of `eja.c`: main, stat, directories, datagrams and addresses.
* Reading of records (`ejaDbGet`, `ejaDbList`): it changes nothing.
* Trees of processes (`lib/pid.lua` 40 on, `lib/proc.lua`), authorisation
  (`lib/webAuth.lua`: computations on the time and on powers of users), `ejaRun`'s
  queue, `--setup` and `--init`: [planned](#plan).
* The scanner, the tar reader and ordered tables: sequential functions on text
  and tables.
* The HTTP client: one request and one answer, with no state kept.
* Forms, log, shell, figures about processes: input, output and formatting.
* json, AES, SHA and base64: adapted libraries, pure computations on data of any
  length, with no control to check.
* `lib/rock.lua`: the calls of `eja.c` again over luaposix.
* Of Lua: the lexer, `require`, the programs `lua` and `luac`, the debug library,
  mathematics, bit operations, `string.format`, and the API functions that only
  move values on the stack.

## Plan

In this order:

1. **Proofs about the core of Lua**: `Balanced` and `HandlerOfInnermost` of
   `LuaCall`, from an invariant that relates each activation on the C stack to the
   frame it runs; then `Promised`.
2. **`WebAuth`**: the windows in which a hash is good, as functions of time
   checked against a reference over a range that crosses every change of digit;
   the scan for the power of a user, with numbers and strings.
3. **`PidTree`**: snapshot of the process tree, kill of it, forks meanwhile.
4. **Uploads under requests**: the receiving of a file (web.lua:162-183) by several
   workers, whose files are named by port, with the handlers that move them.
5. **`Run`**: the queue of functions and its numbers, `--setup` and `--init`.

## Running

    tlc -workers 2 -config MCWebServer.cfg MCWebServer
    tlapm WebServerProofs.tla

Every run ends within four minutes on two cores, and every proof
within five, but that of `LuaGC`, which takes about ten.
`PROJECT.json` lists the runs with what is expected of them, the source lines
each definition stands for, the hazards with the properties that cover them, and
the theorems.
