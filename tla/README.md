# TLA+ models of sockdoc

This directory holds TLA+ specifications of the programs in `src/` (paths below
are relative to the repository's root, so `src/tcp-srv-poll.c`), the TLC
configurations that check them and TLAPS proofs about them.

The repository documents the Sockets API through small complete programs. Each is
short, but the interesting ones are concurrent: with the kernel and the peers
(`tcp-srv-poll.c`), between processes and a signal handler (`tcp-srv-fork.c`),
between a pool of processes sharing two pipes (`util-workers.c`,
`dns-resolvfile.c`), or with a peer that blocks in turn (`mycat.c`, the
one-connection servers and their clients). Beside them are libraries with state
that outlives a call and input that arrives in arbitrary pieces: a search
automaton, parsers, hashes, ciphers, memory for secrets.

## Inventory

| part | state | operations | interacts through | what makes it correct | here |
|---|---|---|---|---|---|
| `tcp-srv-poll.c` | parallel arrays `list[]`/`connections[]`, `count`, `max`, loop index, `fd` | `poller_create/add/remove_at/destroy`, the dispatch loop | poll/accept/recv/send/close on blocking sockets | arrays and descriptors agree; bytes come back in order, once, complete; no call blocks; everybody is served | `Poller` |
| `tcp-srv-fork.c` | `fd`, `fd2`, children, signal state | accept, fork, close, `child_exit()`, the child's recv/send loop | descriptors copied by fork, SIGCHLD, waitpid | a peer sees its connection end; zombies are reaped; the parent goes on accepting | `ForkServer` |
| `util-workers.c` | `children[]`, `children_count`, two pipes | init, spawn, read, reap, count | fork/exec, pipes, waitpid | the count is the number of processes; the limit holds; output is neither lost nor reordered | `Workers` |
| `dns-resolvfile.c` | input file, phase of the loop | read a line, spawn, read/reap until below the limit, drain | callbacks of the pool; one process per host | ends, leaves no child, loses no result | `ResolvFile` |
| `tcp-client-poll.c` | dispatcher of non-blocking sockets | options, connect, send, recv, remove | poll, EINPROGRESS | the packet goes round unchanged on every connection; it ends only for a reason | `ClientPoll` |
| `mycat.c` | two directions, open/closed ends | options, connect, select loop, copy, half-close | select, read/write, recv/send | bytes in order, half-close passed on after them, the whole answer read, no deadlock with the peer | `Mycat` |
| `tcp-srv-echo.c`, `tcp-srv-sigpipe.c`, `simple-tcp-srv-echo.c` | one connection and a buffer | accept/recv/send loop | blocking sockets, SIGPIPE | implement the echo service; nobody waits for ever | `OneServer` |
| `tcp-client*.c` (blocking), `trivial-tcp-client.c`, `tcp-send-fail.c` | address tried, bytes received | connect over the address list, send, recv, timeouts | the servers above | end, and let the server go on | `OneServer` |
| `dns-resolvfile.c`, options | the command line | parse, strip, hand down | the arguments of its children | each child resolves its host and nothing else | `Arguments` |
| `util-smack.c` | patterns, trie, fail links, table, caller's state | add pattern, compile, search in fragments | called by `parse-http.c` | finds exactly the patterns that occur | `Smack`, `SmackCaller` |
| `parse-http.c`, `util-ctype.c` | state and fields per request | compile, start, a byte | `util-smack.c` | the result does not depend on how input is fragmented | `HttpParse`, `Ctype` |
| `parse-http-fields.c` | state, buffer, port | a byte of a Host field | grows the header's buffer | text and port are what the field says; the buffer holds them | `HostField` |
| `util-sha512.c`, `util-sha512hmac.c` | left-over, length, key | init, update, final | - | the blocks are the padded message | `Sha512` |
| `util-chacha20.c` | counter, place in a block | encrypt, decrypt, any offset | - | decrypting gives the message; no key stream twice | `ChaCha20` |
| `util-rand.c` | counter, block, place | seed, stir, bytes, uniform | cipher and hash | unbiased, never the same output twice | `Rand` |
| `util-secmem.c`, `util-malloc.c` | pages, guard pages, sizes | alloc, free; checked multiply | mmap, mprotect, the heap | guarded, wiped, never too small | `SecMem` |
| `util-mktime64.c` | - | date to seconds | - | each day is one more than the last | `Calendar` |
| `httpd.c`, `tcp-srv-select.c`, `util-arc4rand.c`, resolvers, UDP, `test-*.c`, `bench-*.c` | - | - | - | - | not modelled |

`PROJECT.json` lists every part with the reason where it is left out, and the
hazards, each at its line with the properties aimed at it.

## Modules

```
TcpPeers ----+--> Poller ------> MCPoller, PollerProofs    EchoService
 (kernel and |      +-- Service == INSTANCE -----------------+
  peers)     |--> ForkServer --> MCForkServer, ForkServerProofs
             |      +-- Service == INSTANCE -----------------+
             |--> OneServer ---> MCOneServer, OneServerProofs
             |      +-- Service == INSTANCE -----------------+
             +--> TcpPeersProofs (lemmas of the three)
Workers ----> ResolvFile ------> MCResolvFile, LibraryProofs
ClientPoll -> MCClientPoll, ClientPollProofs       Mycat -> MCMycat, MycatProofs

Smack -> SmackCaller -----------+        SmackCaller --> SmackProofs
Ctype, Smack -> HttpParse ------+
Ctype -> HostField -------------+
Arguments ----------------------+--> Library -> MCLibrary
Sha512, ChaCha20, Rand ---------+        Sha512 -> MCSha512
SecMem, Calendar ---------------+
  \-- SmackProofs, HttpParse, HostField, the last three rows --> LibraryProofs
```

* **TcpPeers** is not code of the repository: it is what the servers see of their
  peers and of the kernel through accept(), recv(), send(), poll() and close().
  A connection is named by its peer; byte *k* of peer *c* is `<<c, k>>`, so a byte
  that is lost, repeated, out of order or delivered to the wrong peer is visible.
  Peers connect, send, shut down and reset at any moment between two system calls.
* **EchoService** is the abstract specification of an echo server: a peer gets its
  own bytes, in order and once, never before it has sent them; the server hangs up
  only on a peer that was reset, or has shut down and has everything back.
* **Poller** is `tcp-srv-poll.c`. `list` and `connections` are functions over the
  indices in use, `file` is the kernel's descriptor table (accept() gives the
  lowest free descriptor, so numbers are reused). There is an action for every
  call that can return and every branch it leads to, in the order of the source:
  poll, accept and `poller_add()`, then for each slot idle, POLLHUP/POLLERR,
  recv > 0, recv <= 0, send whole or partial, send failing, and the clean-up. The
  index moves as the code moves it: `remove_at(i--)` followed by `i++` leaves it
  where it is, `remove_at(i)` at line 341 does not.
* **ForkServer** is `tcp-srv-fork.c`: set-up, then parent, handler and children as
  processes that interleave. `held` and `inherited` say who has which connection
  open. A connection ends when its last holder closes it; the listening socket,
  too, may live on in a child of a parent that has exited.
* **Workers** has the pool's state and one operator per function of
  `util-workers.c`; **ResolvFile** is the program around it and the children. What
  a child prints is cut into chunks, the unit in which the kernel takes it. `chunks`
  is what a child has to print: a result of its own or, where execve() has failed,
  its copy of what stdio still held of the parent's stdout (`unflushed`), which its
  exit(1) writes out.
* **ClientPoll** is `tcp-client-poll.c`: the command line, the dispatcher's arrays as
  functions over the connections, one action per branch of the dispatch loop, and
  the servers and the network as they change what poll() reports. Removals are
  only ever followed by exit(1), so they are part of `Exit`.
* **Mycat** is `mycat.c`, its `main_loop()` together with the recv/send loop of the
  forking server's child, joined by a connection. Each way, `SendBuf` bytes are held
  by the sender's kernel and `RecvBuf` by the receiver's, and actions of the network
  bring them from the one to the other, and the end of the stream behind them. All
  calls block: a program in send() moves on only when there is room in its kernel.
* **OneServer** is the loop the three one-connection servers share, with their
  differences in `variant`, and the blocking clients as processes, one program per
  connection. What a client does to its connection are the operators of
  `TcpPeers`, so the same abstract service is the specification.
* **Smack** is `util-smack.c`: patterns as records, the intermediate table as
  functions over states and symbols, one operator per stage of `smack_compile()` and
  per search call, and one for what a turn of each loop does. A loop is a function
  over the number of its turns, so that its turns can be proved about; the queue
  that stages 1 and 2 walk is `Order`, everything that is ever put into it. **SmackCaller** has the actions: a caller that registers any
  patterns of a pool, compiles, delivers a text in fragments and mixes the calls.
  The conversions to `unsigned char`, to `transition_t` and to the upper 8 bits of
  `current_state` are remainders; `NothingCut` says when they change nothing.
* **Ctype**, **HttpParse** and **HostField** are the table of character classes, the
  request line a byte at a time (the method names are patterns of a search, compiled
  into `methods`) and the Host field. A byte of a request line is a character of
  `Smack`'s alphabet; `Code` gives its ASCII code.
* **Arguments** reads a command line as `_parse_commandline()` does and strips it as
  `_strip_parameter()` does; its only action appends an argument.
* **Sha512**, **ChaCha20** and **Rand** keep the contexts as the code does. The
  rounds are abstract: what is compressed is recorded, a byte of key stream is
  named by the counter and place it comes from. So equality of digests means
  equality of the blocks compressed, and a reused byte of key stream shows. `given` is
  the key a caller of the HMAC gave, `key` what the code made of it.
* **SecMem** has memory as a row of pages with the protection the kernel keeps, and
  the size tests of `util-malloc.c` in words of `SizeValues` values.
* **Calendar** turns a calendar a day at a time beside `util_mktime64()`.
* **Library** composes the libraries as independent programs: a behaviour is a run
  of one of them, chosen at the start.
* **PollerProofs**, **ForkServerProofs**, **OneServerProofs**, **MycatProofs**,
  **ClientPollProofs** and **SmackProofs** (with `SmackCaller`) hold the theorems
  about the module each is named after; **TcpPeersProofs** has the lemmas the three servers share,
  about streams of bytes cut in pieces and about what peers and system calls do to
  the accept queue. **LibraryProofs** has those about `ResolvFile` with its pool and
  its `Arguments`, and about `HttpParse`, `HostField`, `Sha512`, `SecMem`, `Calendar`,
  `Rand` and `ChaCha20`, each for its own specification (`Sha512Spec` and so on):
  `Library` runs one of them at a time.
* **MC...** modules and the `.cfg` files instantiate the models. Operators under a
  comment `Mutation:` in the models are plausible mistakes in the operation that
  follows them; nothing uses them but the test that each property notices one.

### Choices in the models

* Sockets are blocking, as in the code. recv() and accept() can only be called in
  a state where the kernel has something to return, because of what poll() said;
  that this is enough is a property (`NeverBlocks`), not an assumption.
* send() in `Poller` takes any non-empty part of the buffer (line 342 expects it);
  a peer that does not read is one whose socket poll() does not report writable.
  In `ForkServer` a blocking send() takes all: its result is not looked at.
* Whether poll() reports POLLHUP for a half-close, and whether a reset connection
  leaves the accept queue, differ between kernels: constants `HupOnFin` and
  `DropAborted`. A reset may show as POLLERR with or without POLLHUP.
* In `ForkServer`, accept() failing and waitpid() returning 0 only go round a loop
  and are stuttering steps. fork() and getnameinfo() may fail at any time. Signals
  have the BSD semantics of `signal()` in glibc: the handler stays installed,
  SIGCHLD is blocked while it runs, system calls restart.
* In `Mycat`, the network takes any time, keeps the order, and loses nothing for
  good: TCP sends again until the connection is reset. Stdout takes everything at once. FD_ISSET(-1, ...) after the end of
  stdin is undefined; what it does depends on the build, constant `Fortified`.
* In `ClientPoll`, poll() may or may not report POLLHUP with a reset or a close.
  A connection on the loopback may be up as soon as connect() returns. Sources
  (`-s`) are looked up and never used, so they are no state. An option may come in
  any order and number; `AskFor` allocates anew, as the code does.
* In `Mycat`, a connect() that was interrupted and failed later is taken for a
  connection (select() does not report it in `errset` on Linux): one that is reset
  at once. So set-up adds only ways to end.
* In `OneServer`, a program that leaves with unread bytes resets its connection,
  as Linux does, and bytes that arrive for a closed socket are answered with a
  reset. Only `tcp-srv-echo.c` ignores SIGPIPE.
* `SmackCaller` keeps to what `util-smack.h` describes: wildcards only in patterns
  anchored at the beginning that do not overlap, the byte 0x80 skipped by all
  patterns or none, and no text registered twice. Two calls whose outcome is memory
  outside of an array are left out: smack_search_done() and smack_search_end() with
  matches pending, where `current_state` is used as a row unmasked, and
  smack_search_next() with an offset beyond the fragment. All others are made at any
  moment; after two of them `strayed` is set and `ReportsExact` says nothing of that
  text: smack_search() with matches pending, which forgets them, and
  smack_search_next() at the end of a fragment whose last match was taken, which
  reports it again and moves the offset past the fragment. The table's rows and
  columns are numbers as in the code, since `m_match_limit` and the shared columns
  are what can go wrong there.
* `HttpParse` has the method names of `MethodTexts` only; the URI's decoded bytes go
  nowhere in the code and are not kept. Its assumption says that no two characters
  have one code, that tolower() in the search and `TOLOWER` of the character table
  agree on them, and that the methods are different words of letters, as those in
  the source are. The two disagree on no byte but 127, whose class is what happens
  to lie behind the table: where that counts as an upper-case letter, the theorem
  about `HttpParse` does not cover lines that have this byte. A build without `-DDEBUG` crashes in
  `httpparser_compile()`, so what follows is checked for one with it.
* In `Rand`, the seed's hash is taken to give unrelated keys; nonces are small
  numbers, so that carries of the counter meet them. `Rand` and `ChaCha20` take the
  loop over a call's bytes a block at a time, and a call begins when the one before
  has returned. In `SecMem`, sizes whose sum with the header and guard pages wraps
  are not requested.
* In `ResolvFile`, a failing child prints one line on stderr and exits; if it is one
  whose execve() failed, it is the parent's program and prints its copy of the
  parent's buffer, too. fwrite() may pass on any number of the bytes it has: that
  depends on what stdout is. That the same exit() sets back the offset of a seekable
  input file, which parent and child share, is left out: lines would come again. Errors of
  pipe(), select() and read() in the parent are exit(1), like `ForkFails`.

## Runs

| run | bounds | checks |
|---|---|---|
| `poller` | 2 peers, 2 bytes each, buffer of 2, 3 descriptors | `SlotsMatch NoLeak NeverBlocks EchoInOrder EchoComplete`, that `Poller` implements `EchoService`, `EventuallyAccepted EventuallyEchoed EventuallyClosed` |
| `fork` | 2 peers, 2 bytes, buffer of 2, 3 descriptors, aborted connections leave the queue | `PeerSeesTheEnd`, `ForkServer` implements `EchoService`, `EventuallyReaped EventuallyEchoed AcceptedWhenIdle` |
| `fork_spin` | 3 peers, 1 byte, 3 descriptors | finds `EventuallyAccepted` violated |
| `workers` | 3 hosts, at most 2 processes, 2 chunks each, pipes of 2, reads of 1 | `CountMatches WithinLimit OutputInOrder Terminates` |
| `workers_lost` | pipes of 4, reads of 2 | finds `NothingLost` violated |
| `client` | 1 or 2 connections asked for, 1 or 2 targets, 4 sockets, a packet of 2 bytes, 2 bytes echoed on each | `Circulates ExitsForAReason` |
| `client_first` | up to 3 connections, a packet of 1 byte | finds `HandlesAll` violated |
| `mycat` | 10 bytes, 1 in a send buffer, 3 in a receive buffer, buffers of 2 | `CopiesInOrder LittleUnderWay AllBack Ends` |
| `oneserver` | the three servers, each with every two of the six clients, a request of 3 bytes, one more than a direction of the connection holds, 2 addresses | `OneServer` implements `EchoService`, `EveryoneEnds` |
| `library` | see below | `ReportsExact TablesFit LineParsed HostFieldRead ChildrenResolveTheirHost DigestOfMessage Streamed RoundTrip NeverRepeats Unbiased Guarded FreedIsClean NoWrap DaysFollow` |
| `http_compile` | without `-DDEBUG` | finds `CompileReturns` violated |
| `hmac_block` | blocks of 6, digests of 3, keys of 1 and 4 | finds `HmacOfBlockKey` violated |

A model's `TypeOK` is its type invariant; those of `Poller` and `Mycat` are proved.

Why the bounds are enough. Two connections are the fewest for which a removal
moves another slot and descriptors are reused; two bytes against a buffer of two
give a full buffer, a partial send of it, a second recv() on the same slot, and a
byte that arrives while another waits to be sent. (The safety properties of `poller`
are proved for every number of bytes, and three of them without the liveness
properties are 20 seconds more of TLC's time.) In `fork`, two children are needed for one signal to stand for two exits. In
`workers`, 14 files give `14 / 2 - 5 = 2` processes, so three hosts make the
parent wait at the limit; a pipe of 2 with reads of 1 makes children wait for the
parent. In `client`, three connections besides the first, which the program never
handles, interleave refusals, resets and packets split in two. In
`workers`, one execve() failing after another child's output was read and before it
was flushed prints a chunk twice. In `mycat`, both programs are stuck in send() only
with four full buffers and a byte in each program, `2 * (SendBuf + RecvBuf) + 2`,
which is 10: all of the input, so the deadlock would be found, and it is if stdin is
read before the connection (the mutation `SelectStdinFirst`). It does not happen
because a round of `main_loop()` receives what has arrived before it reads. So
mycat's receive buffer never adds to what is under way, which stays within the
other three kernel buffers and the two `buf[]` (`LittleUnderWay`): 9 here. What is
still in the server's send buffer is not seen by select() and counts in full. That
9 is less than 10 is `2 * BufSize <= RecvBuf + 1`, which 512 bytes of `buf[]` and the
kernels' receive buffers satisfy by far. In `oneserver` one client is served while the other waits behind it.
The violations are shown by the smallest instances that have them.

`library` bounds each program by itself. The search: every set of at most three of
eight patterns, among them one inside another, one that ends another, anchors at
either end, wildcards and the skipped byte; every text of four characters in
fragments of one or two: long enough that a fail link is followed twice and that
a match is pending at a fragment's end. The widths (6 symbols, 10 states, 2 pending)
are such that each of them is exceeded by some of these sets and kept by most. The
alphabet of 16 characters is that of the
request lines, and the searched patterns use 'h' in both cases, 'p', '*' and the
byte 0x80 of it. Request lines: up to six pieces that break methods, escapes and "HTTP/" in the middle. Host fields: up to six bytes, each of
seven, over two fields. Command lines: up to four arguments. Hashing: blocks of 6 bytes with pieces
up to 7, so every left-over meets every piece, messages that end on each side
of the padding's limit, and keys shorter than a digest, as long, and longer. Cipher: blocks of 3 and words of 2 values: the whole range
of the two-word counter with its carry. Random numbers: words of 2 values, so the
96-bit counter comes round through the nonce; two stirs, which can restore a key.
Memory: pages of 4 in a space of 9, two or more allocations side by side; sizes of
6 bits, all pairs around the square root. Dates: six years from 1899, 1968, 1999
and 2099: both kinds of century years, and 1970.

Deadlock is not checked (`CHECK_DEADLOCK FALSE`): a server whose peers are all
finished waits in poll() or accept() for ever, and the resolver ends. That no one
waits for ever who should not is what the liveness properties say.

### Fairness

The process runs on whenever a system call can return: weak fairness on each step
of `main()` (in `Mycat`, on set-up and on each call of both programs; in
`OneServer`, on the server and on each client, whose timeouts expire), on each
child, and strong fairness on the delivery of a pending signal. Three assumptions
are about the outside: what was sent arrives (weak fairness of the network in
`Mycat`), a peer that stays connected reads what it is sent, so poll() reports its
socket writable again and again (strong fairness, one peer at a time), and an
accept() failure other than lack of descriptors passes (strong fairness of
`Accept`). Nothing makes a peer send, shut down or reset, and nothing makes a
failing call fail or succeed otherwise.

### What the violations show

1. `fork_spin`: `child_exit()` loops until waitpid() fails, and with a living
   child it returns 0 for ever; the parent does not come back to accept().
   `AcceptedWhenIdle` is what does hold.
2. `workers_lost`: one last read of 16384 bytes does not empty a pipe of 65536.
3. `client_first`: line 485 starts at index 1, so the first connection is never
   served although poll() reports it in every pass.
4. `http_compile`: `httpparser_compile()` compiles the methods twice (lines 65 and
   77) and the URI prefixes never. Unless `DEBUG` is defined, the first time
   releases the list of patterns, and the second reads through the null pointer
   left in its place.
5. `hmac_block`: the comment in `util-sha512hmac.c` (21-23) fills a key up to "our
   blocksize". The code fills it up to 64 bytes, the length of a digest, and hashes
   the keys from 65 bytes on; SHA-512's block has 128 (`util-sha512.c:96`). What the
   code computes is checked, and proved, as it is (`DigestOfMessage`); it is not the
   HMAC that another implementation has for the same key.

Other constants show more of what the code does at its limits, without a document
that says otherwise: `poller` with `MaxFd = 2` (accept() fails, line 283 goes
back to poll(), which returns at once, and the connection whose closing would free
a descriptor is never looked at), `workers` with `ForkLimit = 1` (workers_spawn()
waits for processes that only workers_reap() makes go) and `mycat` with `Fortified
= TRUE` (`FD_ISSET(-1)` aborts the program before the answer has been read).

Line 341 of `tcp-srv-poll.c`, where the `i--` of the other removals is missing, is
in the model too (`SendFails`): the entry moved there waits for the next pass.
`EventuallyEchoed` shows that it is a delay and no more.

## Proofs

All theorems hold for every value of the constants that satisfies the module's
assumption (`PeersAssumption`, `PollerAssumption`, `MycatAssumption`,
`ClientAssumption`, `Sha512Assumption`, `SecMemAssumption`, `CalendarAssumption`,
`RandAssumption`, `ChaChaAssumption`, ...), which TLC evaluates in the runs. Where
a theorem needs more it says so in its own hypotheses, and each of these is named
below with the reason.

### The echo service

Three programs are proved to implement `EchoService`: the poll() server, the forking
server and the one-connection servers. The refinement mapping is in the models
(`Service`); the proof shows of every action that what it does to a peer is one
step of the service or none.

`PollerProofs`. From `SlotInv`: `TypeOK`, `SlotsMatch`, `NoLeak` and `RoomForOne`.
It adds to them that the accept queue holds each waiting connection once, and that
the peers of the slots are open and distinct: without these accept() might bring in
a peer that already has a slot. From `SlotInv` and `DataInv`: `EchoInOrder`,
`NeverBlocks`, `OnlyPeerEndsIt` and `EchoComplete`. `DataInv` adds that what is left
of poll()'s snapshot from the loop's index on is still true. It is inductive
because the peers can only add to what makes a socket readable, and because a
removal brings to the index an entry that had not been handled. The refinement
(`SpecImplementsService`) needs both, and `EchoComplete`, for the step in which the
server hangs up: it must be on a peer that has everything back. `SpecNeverBlocks`
assumes `~DropAborted`; `SpecEchoComplete` and the refinement assume `~HupOnFin`,
for a server that takes POLLHUP for an end closes on unread bytes. Under the
opposites the properties are false.

`ForkServerProofs`. `ForkInv` says who holds which connection: the parent has at
most the one it has just accepted open (`Fd2InUse`), a connection is open exactly as
long as someone holds it (`OpenWhileHeld`), a process holds besides its own
connection only ones whose fork() failed (`Leftovers`), and what a child has taken
and not sent back is in its buffer (`ChildEchoes`). `PeerSeesTheEnd` alone
is not inductive: that a child's exit ends the connection depends on every other
child not having a copy, which is a fact about the parent at the moment of each
fork. The refinement then needs that a child only ends when its peer was reset or
has everything back, the last part of `ChildEchoes`.

`OneServerProofs`. `OneInv`: at most one connection is served (`OneAtATime`), and what
was taken from it is what went back and what is in the buffer (`ServedInOrder`).
The clients are programs that do anything the peers of `TcpPeers` may do.

### The programs

`MycatProofs`, from the inductive invariant `FlowInv`: `TypeOK`, `LittleUnderWay` and
`CopiesInOrder`; and, if a receive buffer holds two of `buf[]` less a byte,
`SpecNeverBothStuck`: the two programs do not block each other. `FlowInv` adds to
`LittleUnderWay` that when main_loop() is about to read stdin, `BufSize` less is
under way, because it has just received that much or found its own receive buffer
empty; without it the step that reads would exceed the bound. It also says that the
buffers are empty outside send(), which `CopiesInOrder` needs.

The pool of `ResolvFile` (in `LibraryProofs`): `CountMatches` is proved from
`PoolInv`: the types and that a host is in the file, being forked, or has its
process, and never two of these (`HostsOnce`), so that fork() always adds a process
and waitpid() always takes one away. `WithinLimit` needs more, because the loop tests the count for equality with
the limit and only after the spawn: `BelowLimit` says that the count is below the
limit whenever the loop goes on to read another host. It assumes `MaxChildren > 0`;
with the limit 0, which a hard limit of 11 files gives, the equality is jumped over
and the property is false. `OutputInOrder` is inductive once the types of the pipe
and of what was read are added, and that what a child has to print is either a
result of its own or, if its execve() has failed, chunks that have been printed
(`OutputInv`). The property speaks of what was printed and what is still in the
pipe as one sequence, so a read moves chunks within it and a flush changes nothing.

Its command line: `ChildrenResolveTheirHost` of `Arguments`. The property compares two
readings of whole command lines, the parent's and a child's; the invariant
(`SameButHost`) says of every command line so far that the child that would get it
knows what its parent knows, but for host and file, and that the copy is about to
drop an argument exactly when the parent is about to take one for a file's name.
`OneMoreArgument` is the step: an argument is read by both, or is dropped by the
one and names the file of the other.

`ClientPollProofs` proves `Circulates`. What the invariant says of an entry
(`EntryInv`) adds to it that the event asked for is POLLIN only while the buffer is
empty, and that POLLIN is only seen where it was asked for: without these recv()
could overwrite what still waits to be sent. The lemma `RoundRest` is the arithmetic
of the packet repeated for ever: a byte received at the front is the byte due at
the back. `ExitsForAReason`, an action property, needs `ReasonInv` beside it: an
error or an end that poll() has reported is still one when the entry's turn comes,
and POLLIN and POLLOUT are reported of nothing that would fail without a reason.

### The libraries

Loops. The models write a loop as a recursive function over its turns. Where a
proof is about all of them, a lemma `...Steps` first says that the function's values
are the loop's, turn by turn; then `Smallest` and `Induction`, which come from the
library's theorem that the order of the naturals is well-founded, do the induction:
the set of turns at which a claim fails has no smallest element.

`Streamed` and `DigestOfMessage` of `Sha512`. The invariant says of the context that
what is compressed followed by what is left over is the message, and adds that
`length` is a multiple of the block's size and that all bytes are bytes of messages
(`Sound`): without the first, completing a left-over would not end on a block, and
without the second lengths of concatenations are unknown. `KeyIsBrought` compares the
key as the code makes it with the key as it is meant, which says nothing of a
context; for a long key that is the property for one message once more. `UpdateSound` is the
lemma about update(), from any sound context and any input; it is used for a piece
of the message and for the padded keys and the inner hash of an HMAC. `FinalPads`
is the lemma about final(): with the left-over on either side of the limit, the
zeroes it writes are as many as the standard asks for of the whole length
(`ZeroesWanted`, arithmetic on remainders).

`Guarded` and `FreedIsClean` of `SecMem`, from `SecInv`. It adds that every page in
use belongs to a mapping, so that a new one meets no other, and that a byte of a
secret is on an accessible page of a mapping, of which util_secmem_free() wipes
every byte. Both assume `Fits`: the size asked for, the header and three pages fit in
a size_t. The code adds them without a test (util-secmem.c:77-102), so this is a
condition on its callers. `NoWrap` needs no more than what the loop of
`util-malloc.c` tests; its lemma `ProductFits` is that two factors below the square
root of the word's range, or one division, decide whether a product fits.

`DaysFollow` of `Calendar`: from any date on, each day is 86400 seconds after the
last. The invariant is that a date exists; the proof goes by month (`MktimeByMonth`)
because the days before a month are a table in the code, and then over leap years.

`NeverRepeats` and `Unbiased` of `Rand`, from `RandInv`. The property compares any two
bytes handed out; the invariant says of each which counter its block has: the
number of the block, its lower two words as they are, and the third added to the
nonce as long as nothing was stirred in. It also keeps apart the block in use and
the state the next is made from, which stirring makes differ. That equal counters
mean equal blocks is then arithmetic (`SameCount`, `SameOffset`), and the bounds of
the property are where that arithmetic ends; `RandAssumption` keeps the bytes
between two seedings within 96 bits of counter, as the comment at util-rand.c:142
has it. For `Unbiased`, the numbers accepted are put in a bijection with the pairs
of a round and a result (`EachRestAsOften`).

`RoundTrip` of `ChaCha20`, from `ChaChaInv`: a context is always the one that
util_chacha20_crypt() would make for the place its user has come to, and what was
read and written at each place is the byte of that place with or without the byte
of keystream of that place. So seeking and going on agree, and three users at
different places, with calls that end anywhere in a block, read the same message.
`Onward` is the lemma about once round the loop; `StreamDiffers` says that the
two-word counter does not come round within `MaxPlain` bytes.

`HostFieldRead` of `HostField`: the property looks at a whole field, finds its text,
colon and port and compares. The invariant says in addition where in the field the
parser's state is (`Placed`): in TEXT no byte has ended the text, in PORT a colon has
come and no byte that ends the port, and so on. One lemma for each state (`FeedText`,
`FeedPort`, ...) says what one more byte does to both sides; how text, port and
number change when the field grows by a byte (`NextParts`, `DecimalAppended`,
`NoDigitsAppended`) is shared by them. That the number does not wrap before it is
compared rests on `HostAssumption`: an unsigned holds `10 * (MaxPort + 1)`.

### The search

`SmackProofs` proves `TablesFit` and `ReportsExact`, from the code of all stages of
`smack_compile()` to the reports of any mixture of calls, for any alphabet, any
pool of patterns, texts and fragments of any length, and any widths of the numbers
that are stored. `TablesFit` holds whatever was cut to its width. `ReportsExact`
says nothing once something was cut, for then it is false: its condition
`NothingCut` is, with the code's widths, fewer than 256 symbols (the anchors' among
them), at most 65536 states and at most 256 patterns that end at one byte. Nor does
it of texts on which a call has strayed (see above).

What makes it work is a label for every state of the intermediate table: the prefix
of a pattern it stands for, with the pseudo-characters of the anchors (`PatternWord`
is a whole pattern so spelled). Each stage is shown to build on what the labels say:

1. The symbols and the list (`Collected`): every character of a pattern is a symbol,
   in lower case if case is ignored, ids are places in the list, and no pattern is
   there twice.
2. Stage 0 (`Built`, then `Planted`): the table is the tree of the patterns'
   prefixes: a label with a character more is the label of the state that
   character leads to, if any pattern has it as a prefix; the state of a whole word
   lists its pattern. `BudgetNext` counts the states: with the state for `^`, which
   patterns share, there are never more than `StateMax`.
3. The order (`Ordered`): a queue visits every state once, shorter labels first.
4. Stage 1 (`Failing`, then `Failed`): a state's failure link is the longest label
   that its own properly ends in, found by following the links of shorter states
   (`FailStep`), and it lists every pattern its label ends in (`Hits`): its own, then
   those of its link, which is complete because it came earlier in the order.
5. Stage 2 (`Linking`, then `Finished`): from every state every character leads to the
   longest label that the text so far ends in (`IsBest`, `BestStep`).
6. Exchanging the first two rows and sorting (`Relabelled`) move labels with the rows;
   that each turn of the sort brings one more row with matches behind the limit
   bounds the turns (`SortedIs`).
7. Stage 4 (`Follows`): a column serves several characters, and the row has the right
   entry because characters that share one are a letter's two cases or are in no
   pattern (`SharedColumn`); a search that never sees the pseudo-character of `^`
   starts in the row where that has been read. `FitsTables` is what `TablesFit` says,
   and `smack_fixup_wildcards()` keeps that, whatever it redirects.
8. The widths (`CutNumber`, `Widths`): a remainder is a number of the width, and the
   number itself if that was small enough; `Ready` is 7 for a table nothing of which
   was cut.
9. The calls (`SoundSearch`): the row is that of the longest label the text read ends in,
   what was reported and what is pending in `current_state` are the hits of every
   byte read, once, in order. smack_search() and smack_search_next() both keep it
   from a fragment's byte to the next (`SoundStep`, `SoundPop`).

`CompiledInv` (the patterns are as in 1, the table is the compiled one) is the
invariant for `TablesFit`, which is proved for wildcards and skipped bytes, too. For
`ReportsExact` the theorem has a condition, `Plainly`: no pattern with `*` or the
skipped byte is registered. With a skipped byte the tree has loops and states are no
prefixes; and what `smack_fixup_wildcards()` does to a row is right only for the
patterns of `Supported`. These stay with the run `library`, whose pool has both.

### The request line

`SpecLineParsed` of `LibraryProofs` proves `LineParsed`: for any methods whose table
fits the widths (`MethodsAssumption`), any characters and any line, in pieces of any
length. The property speaks of a whole
line and the code of one byte, so the invariant (`HttpInv`) says that the header is
what a run over all bytes of the line ends with (`RunOf`); a piece makes the run
longer (`RunLonger`), whatever it holds. The rest is about runs.

1. The table of the methods is one that `SmackProofs` speaks of: patterns added one
   after the other (`MethodsKnown`) that are anchored at both ends and have neither
   wildcards nor skipped bytes. So a search in it is sound (`SoundSearch`), a byte
   of the first word keeps it so (`MethodByte`), and the search that ends behind the
   word gives the method that is this word, or none (`MethodFound`).
2. `ByteRead` says of one byte in every state what it may change: the line ends with
   a '\n' and nothing else once it has begun, the method is set only by the state
   that reads it, the version only by the two that read it. With it, `Before`,
   `Within` and `Behind` follow the run up to the first word, to the '\n' and past
   it, and `MethodStays` from the space behind the first word on.
3. A well-formed line is followed from its first word to its URI (`ToUri`), through
   the URI with its escapes (`UriRead`; its claim, `InUri`, says of the states
   for escapes how far back the '%' is), through "HTTP/" (`HttpRead`) and
   both numbers (`NumberRead`, `VersionRead`). A number of one digit or two stays
   below 100, so the wrapping of an unsigned char does not touch it.

### Only model-checked

* Liveness, which is out of the prover's reach: `EventuallyAccepted`,
  `EventuallyEchoed`, `EventuallyClosed`, `EventuallyReaped`, `AcceptedWhenIdle`,
  `Terminates`, `AllBack`, `Ends`, `EveryoneEnds`.
* `ReportsExact` while a pattern with `*` or the skipped byte is registered.

## Not modelled

Code that does not compile, and so has no behaviour to be faithful to:
`tcp-srv-select.c` (112, 135), `util-arc4rand.c` (413, 435), `max-accept.c`
(`sa_max`), `time-wait.c` (207), `util-entropy.c` on Linux, `httpd.c` (a missing
header). Code whose core is elsewhere: the DNS decoder is a submodule that is not
in the repository, which leaves of `dnslookup.c`, `dns-resolv.c` and
`decode_result()` the printing. Programs that ask the system something and print
the answer: `test-*.c`, `bench-*.c`, `max-connect.c`, `probe-rdp.c`,
`list-addr.c`, the UDP examples. The Windows half of `util-workers.c`. Parts of
modelled programs: the listening set-up of `tcp-srv-poll.c`, printing in all of
them, the rounds of hash and cipher, which are arithmetic with published vectors.

## Order of work

1. Done: the concurrent programs: `Poller`, `ForkServer`, `Workers` and `ResolvFile`,
   `ClientPoll`, `Mycat`, `OneServer`, with their proofs.
2. Done: the libraries: `Smack`, `HttpParse`, `HostField`, `Arguments`, `Sha512`,
   `ChaCha20`, `Rand`, `SecMem`, `Calendar`, with `LibraryProofs`.
3. Done: the refinement of `EchoService` by the three servers, the search
   (`SmackProofs`), the request line on top of it, and every other safety property of
   the runs.
4. Left: wildcards and the skipped byte in `ReportsExact`, with labels for states
   that have a loop.
