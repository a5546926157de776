----------------------------- MODULE ResolvFile -----------------------------
(***************************************************************************)
(* dns-resolvfile.c: reads host names from a file and spawns a process of  *)
(* the same program for each, at most max_children at a time, which        *)
(* resolves the name and prints the result.  spawn_workers() is the        *)
(* parent, main_resolve_host() the child.                                  *)
(*                                                                         *)
(* Parent and children meet in the pipes and in waitpid(): a child that    *)
(* finds its pipe full waits for the parent to read, a parent at its limit *)
(* waits for a child to exit.                                              *)
(***************************************************************************)
EXTENDS Workers

VARIABLES
  todo,      \* the lines not yet read from the file
  hostname,  \* the line just read
  draining,  \* the file has ended: the loop at line 140
  pc         \* where spawn_workers() is

vars == <<poolVars, todo, hostname, draining, pc>>

Init ==
  /\ PoolInit
  /\ todo = Host
  /\ hostname = NoHost
  /\ draining = FALSE
  /\ pc = "next"

-----------------------------------------------------------------------------
(* spawn_workers().                                                        *)

\* fgets() gives a line that names a host: workers_spawn() begins.
NextLine ==
  /\ pc = "next"
  /\ \E h \in todo : hostname' = h /\ todo' = todo \ {h}
  /\ SpawnEntry
  /\ pc' = "fork"
  /\ UNCHANGED draining

Fork ==
  /\ pc = "fork"
  /\ SpawnFork(hostname)
  /\ pc' = "read"
  /\ UNCHANGED <<todo, hostname, draining>>

\* An error other than EAGAIN: exit(1).
ForkFails ==
  /\ pc = "fork"
  /\ pc' = "failed"
  /\ UNCHANGED <<poolVars, todo, hostname, draining>>

EndOfFile ==
  /\ pc = "next"
  /\ todo = {}
  /\ draining' = TRUE
  /\ pc' = IF children_count = 0 THEN "last" ELSE "read"
  /\ UNCHANGED <<poolVars, todo, hostname>>

ReadOutput ==
  /\ pc = "read"
  /\ Read
  /\ pc' = "reap"
  /\ UNCHANGED <<todo, hostname, draining>>

Reap ==
  /\ pc = "reap"
  /\ \E h \in Host : ReapChild(h)
  /\ UNCHANGED <<todo, hostname, draining, pc>>

\* Mutation: the loop is left whatever the count is.
ReapEndsAtLimit ==
  /\ pc = "reap"
  /\ NoneToReap
  /\ pc' = CASE ~draining -> "next"
             [] draining /\ children_count # 0 -> "read"
             [] draining /\ children_count = 0 -> "last"
  /\ UNCHANGED <<poolVars, todo, hostname, draining>>

\* Both loops test the count after workers_reap().
ReapEnds ==
  /\ pc = "reap"
  /\ NoneToReap
  /\ pc' = CASE ~draining /\ children_count = MaxChildren -> "read"
             [] ~draining /\ children_count # MaxChildren -> "next"
             [] draining /\ children_count # 0 -> "read"
             [] draining /\ children_count = 0 -> "last"
  /\ UNCHANGED <<poolVars, todo, hostname, draining>>

\* One more workers_read(), and return.
LastRead ==
  /\ pc = "last"
  /\ Read
  /\ pc' = "done"
  /\ UNCHANGED <<todo, hostname, draining>>

-----------------------------------------------------------------------------
(* The child: main_resolve_host(), whose fwrite() of a result the kernel   *)
(* does not take at once is several writes; or, when execve() has failed,  *)
(* a line on stderr and exit(1), which writes out its copy of what the     *)
(* parent had not flushed.                                                 *)

ChildPrints(h) ==
  /\ proc[h] = IF executed[h] THEN "run" ELSE "exit"
  /\ written[h] < Len(chunks[h])
  /\ Len(pipe["stdout"]) < PipeSize
  /\ written' = [written EXCEPT ![h] = @ + 1]
  /\ pipe' = [pipe EXCEPT !["stdout"] = Append(@, chunks[h][written[h] + 1])]
  /\ UNCHANGED <<children, children_count, proc, executed, chunks, output, unflushed>>

\* execve(), res_query() or decode_result() has failed: a line on stderr.
ChildComplains(h) ==
  /\ proc[h] = "run"
  /\ executed[h] => chunks[h] = <<>>
  /\ Len(pipe["stderr"]) < PipeSize
  /\ pipe' = [pipe EXCEPT !["stderr"] = Append(@, <<h, 1>>)]
  /\ proc' = [proc EXCEPT ![h] = "exit"]
  /\ UNCHANGED <<children, children_count, executed, chunks, written, output, unflushed>>

ChildExits(h) ==
  /\ \/ proc[h] = "run" /\ executed[h] /\ chunks[h] # <<>>
     \/ proc[h] = "exit"
  /\ written[h] = Len(chunks[h])
  /\ proc' = [proc EXCEPT ![h] = "zombie"]
  /\ UNCHANGED <<children, children_count, executed, chunks, written, pipe, output, unflushed>>

Child(h) == ChildPrints(h) \/ ChildComplains(h) \/ ChildExits(h)

-----------------------------------------------------------------------------
Parent ==
  \/ NextLine \/ Fork \/ ForkFails \/ EndOfFile \/ ReadOutput \/ Reap \/ ReapEnds \/ LastRead

Children ==
  /\ pc # "failed"
  /\ \E h \in Host : Child(h)
  /\ UNCHANGED <<todo, hostname, draining, pc>>

Next == Parent \/ Children

Spec == Init /\ [][Next]_vars

\* The parent runs on while a call returns, and so does every child that the
\* pipes let run; a query ends (res_query() has its own timeouts).
Fairness ==
  /\ WF_vars(NextLine) /\ WF_vars(Fork) /\ WF_vars(EndOfFile)
  /\ WF_vars(ReadOutput) /\ WF_vars(Reap) /\ WF_vars(ReapEnds) /\ WF_vars(LastRead)
  /\ \A h \in Host : WF_vars(Child(h) /\ pc # "failed" /\ UNCHANGED <<todo, hostname, draining, pc>>)

FairSpec == Spec /\ Fairness

-----------------------------------------------------------------------------
(* Properties.                                                             *)

\* The pool's count is the number of processes not yet waited for (and the
\* entry being forked), whenever they end: the loops at 131 and 140 rely on it.
CountMatches ==
  children_count = Cardinality(Unreaped) + (IF pc \in {"fork", "failed"} THEN 1 ELSE 0)

\* No more than max_children processes, and children[] is not overrun (487).
WithinLimit ==
  /\ Cardinality(Unreaped) <= MaxChildren
  /\ pc = "fork" => children_count - 1 \in DOMAIN children

\* What has been written to stdout: printed, then waiting in the pipe.
Printed == output["stdout"] \o pipe["stdout"]

\* What comes out is what the hosts' processes have written, all of it and no more,
\* each chunk after the one before it in its result, however the writes of the
\* children and the reads of the parent interleave; and each once, unless an
\* execve() has failed: its child prints again what its copy of the buffer held.
OutputInOrder ==
  /\ \A j \in 1..Len(Printed) : Printed[j] \in Chunk
  /\ \A h \in Host, k \in 1..MaxChunks :
       executed[h] /\ k <= written[h] <=> \E j \in 1..Len(Printed) : Printed[j] = <<h, k>>
  /\ \A m \in 1..Len(Printed) :
       Printed[m][2] > 1 => \E j \in 1..(m - 1) : Printed[j] = <<Printed[m][1], Printed[m][2] - 1>>
  /\ (\A h \in Host : executed[h]) =>
       \A j, m \in 1..Len(Printed) : j # m => Printed[j] # Printed[m]

\* The program comes to an end: no child waits for ever for room in a pipe, and
\* the parent does not wait for ever for a child.
Terminates == <>(pc \in {"done", "failed"})

-----------------------------------------------------------------------------
(* What comments of the source say and the program does not do.            *)

\* Line 147, "Clean up any remaining pipe stuff": at the end no result is left in the pipe.
NothingLost == pc = "done" => pipe["stdout"] = <<>>

=============================================================================
