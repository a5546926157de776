------------------------------ MODULE Workers -------------------------------
(***************************************************************************)
(* util-workers.c (POSIX): a pool of child processes that all write to the *)
(* same two pipes.  This module has the pool's state and one operator per  *)
(* function; the program that calls them is ResolvFile.                    *)
(*                                                                         *)
(* A child is named by the host it resolves.  What it prints is cut into   *)
(* the chunks the kernel takes at a time: <<h, k>> is the k-th of the      *)
(* result of host h, so what is lost, repeated or out of order is seen.    *)
(***************************************************************************)
EXTENDS Integers, Sequences, FiniteSets

CONSTANTS
  Host,       \* the lines of the input file
  NoHost,     \* an entry of children[] never used
  Want,       \* the max_children asked for (-w)
  HardProcs,  \* rlim_max of RLIMIT_NPROC
  HardFiles,  \* rlim_max of RLIMIT_NOFILE
  ForkLimit,  \* how many children fork() gives, zombies included, before EAGAIN
  MaxChunks,  \* bound: chunks of a result
  PipeSize,   \* chunks a pipe holds (64K of Linux)
  ReadSize    \* chunks one read() takes (buf[16384])

ASSUME WorkersAssumption ==
  /\ IsFiniteSet(Host) /\ NoHost \notin Host
  /\ Want \in Nat \ {0}
  /\ HardProcs \in Nat /\ HardFiles \in Nat
  /\ ForkLimit \in Nat
  /\ MaxChunks \in Nat \ {0}
  /\ PipeSize \in Nat \ {0}
  /\ ReadSize \in Nat \ {0}

VARIABLES
  children,        \* struct worker_t[]: 0 .. Want -> the host of the process
  children_count,  \* how many entries are in use
  proc,            \* proc[h]: the process, as the kernel has it
  executed,        \* executed[h]: has its execve() succeeded, or not been called yet?
  chunks,          \* chunks[h]: the chunks it has to write to stdout
  written,         \* written[h]: how many of them it has written
  pipe,            \* the two pipes
  output,          \* what the callbacks of workers_read() have printed
  unflushed        \* how many chunks, the last of output["stdout"], stdio still holds

poolVars == <<children, children_count, proc, executed, chunks, written, pipe, output, unflushed>>

Std == {"stdout", "stderr"}
Chunk == Host \X (1..MaxChunks)

\* workers_init(): the room asked for, and the limits it reduces max_children
\* to.  (A limit of 10 or less is not applied.)
Lowered(max, room, hard) == IF hard > 10 /\ max > room THEN room ELSE max
MaxChildren ==
  Lowered(Lowered(Want, HardProcs - 10, HardProcs), HardFiles \div 2 - 5, HardFiles)

PoolInit ==
  /\ children = [k \in 0..Want |-> NoHost]
  /\ children_count = 0
  /\ proc = [h \in Host |-> "none"]
  /\ executed = [h \in Host |-> TRUE]
  /\ chunks = [h \in Host |-> <<>>]
  /\ written = [h \in Host |-> 0]
  /\ pipe = [s \in Std |-> <<>>]
  /\ output = [s \in Std |-> <<>>]
  /\ unflushed = 0

Unreaped == {h \in Host : proc[h] \in {"run", "exit", "zombie"}}

\* The parent's stdout as stdio buffers it, which a child of fork() has a copy of.
Buffered == SubSeq(output["stdout"], Len(output["stdout"]) - unflushed + 1, Len(output["stdout"]))

\* The chunks of a result; none when it is to fail.
Result(h, n) == [k \in 1..n |-> <<h, k>>]

-----------------------------------------------------------------------------
(* The parent's calls.                                                     *)

\* workers_spawn() takes the next entry before it forks.
SpawnEntry ==
  /\ children_count' = children_count + 1
  /\ UNCHANGED <<children, proc, executed, chunks, written, pipe, output, unflushed>>

\* fork() succeeds; with EAGAIN the caller sleeps and comes back here.  The child
\* becomes another program, or execve() fails and it is left with the copy.
SpawnFork(h) ==
  /\ Cardinality(Unreaped) < ForkLimit
  /\ children' = [children EXCEPT ![children_count - 1] = h]
  /\ proc' = [proc EXCEPT ![h] = "run"]
  /\ \/ \E n \in 0..MaxChunks : chunks' = [chunks EXCEPT ![h] = Result(h, n)] /\ UNCHANGED executed
     \/ chunks' = [chunks EXCEPT ![h] = Buffered] /\ executed' = [executed EXCEPT ![h] = FALSE]
  /\ UNCHANGED <<children_count, written, pipe, output, unflushed>>

\* fwrite() of n chunks: stdio passes on what it has no room for, or whole lines.
Fwrite(n) == IF n = 0 THEN UNCHANGED unflushed ELSE unflushed' \in 0..(unflushed + n)

\* Mutation: the end of what was read is overwritten with a terminator.
ReadTerminated ==
  LET n(s) == IF Len(pipe[s]) < ReadSize THEN Len(pipe[s]) ELSE ReadSize
  IN  /\ output' = [s \in Std |-> output[s] \o SubSeq(pipe[s], 1, n(s) - 1)]
      /\ pipe' = [s \in Std |-> SubSeq(pipe[s], n(s) + 1, Len(pipe[s]))]
      /\ Fwrite(IF n("stdout") = 0 THEN 0 ELSE n("stdout") - 1)
      /\ UNCHANGED <<children, children_count, proc, executed, chunks, written>>

\* Mutation: only stdout is read.
ReadStdout ==
  LET n == IF Len(pipe["stdout"]) < ReadSize THEN Len(pipe["stdout"]) ELSE ReadSize
  IN  /\ output' = [output EXCEPT !["stdout"] = @ \o SubSeq(pipe["stdout"], 1, n)]
      /\ pipe' = [pipe EXCEPT !["stdout"] = SubSeq(@, n + 1, Len(@))]
      /\ Fwrite(n)
      /\ UNCHANGED <<children, children_count, proc, executed, chunks, written>>

\* workers_read(): one read() of each pipe that has something; a timeout of
\* select() when neither has.
Read ==
  LET n(s) == IF Len(pipe[s]) < ReadSize THEN Len(pipe[s]) ELSE ReadSize
  IN  /\ output' = [s \in Std |-> output[s] \o SubSeq(pipe[s], 1, n(s))]
      /\ pipe' = [s \in Std |-> SubSeq(pipe[s], n(s) + 1, Len(pipe[s]))]
      /\ Fwrite(n("stdout"))
      /\ UNCHANGED <<children, children_count, proc, executed, chunks, written>>

\* Mutation: the count is not taken down.
ReapUncounted(h) ==
  /\ proc[h] = "zombie"
  /\ proc' = [proc EXCEPT ![h] = "gone"]
  /\ UNCHANGED <<children, children_count, executed, chunks, written, pipe, output, unflushed>>

\* workers_reap(): waitpid() gives a child that has ended.  Its entry of
\* children[] stays as it is.
ReapChild(h) ==
  /\ proc[h] = "zombie"
  /\ proc' = [proc EXCEPT ![h] = "gone"]
  /\ children_count' = children_count - 1
  /\ UNCHANGED <<children, executed, chunks, written, pipe, output, unflushed>>

\* waitpid() gives 0 or ECHILD.
NoneToReap == \A h \in Host : proc[h] # "zombie"
=============================================================================
