----------------------------- MODULE Arguments -----------------------------
(* dns-resolvfile.c reads its command line; with a file it runs itself once for
   each host of the file, handing down its own arguments without the -f.  An
   argument is [flag, rest]: "-flist" is [flag |-> "f", rest |-> "list"], a word
   has the flag "", and a flag alone has the rest "". *)
EXTENDS Naturals, Sequences

CONSTANTS
  Args,       \* what an argument can be
  MaxArgs,    \* bound: arguments after the program's name
  Types,      \* the words dns_rrtype_from_name() knows
  Numbers,    \* the words that strtoul() gives a number other than 0
  Hosts       \* hosts of the file; _trim() and line 115 leave no leading '-'

Empty == ""

ASSUME ArgumentsAssumption ==
  /\ Args \subseteq [flag : STRING, rest : STRING] /\ Hosts \subseteq STRING
  /\ \A a \in Args : a.flag = Empty => a.rest # Empty
  /\ \A h \in Hosts : h # Empty

VARIABLE command   \* the arguments so far

Bare(text) == [flag |-> Empty, rest |-> text]

Unread ==
  [type |-> "A", hostname |-> Empty, filename |-> Bare(Empty), workers |-> Bare("10"), verbose |-> 0, debug |-> 0,
   quiet |-> FALSE, expects |-> Empty, outcome |-> "ok"]

Ends(p, outcome) == [p EXCEPT !.outcome = outcome]

\* The value of an option is any argument, one with a flag too.
SetFilename(p, arg) ==
  IF arg = Bare(Empty) THEN Ends(p, "refused") ELSE [p EXCEPT !.filename = arg, !.expects = Empty]
SetWorkers(p, arg) ==
  IF arg.flag # Empty \/ arg.rest \notin Numbers THEN Ends(p, "refused") ELSE [p EXCEPT !.workers = arg, !.expects = Empty]

ReadWord(p, word) == IF word \in Types THEN [p EXCEPT !.type = word] ELSE [p EXCEPT !.hostname = word]

\* An argument that is nobody's value; -q makes a null pointer of what -v counts with.
ReadOption(p, arg) ==
  CASE arg.flag = "f"   -> IF arg.rest = Empty THEN [p EXCEPT !.expects = "f"] ELSE SetFilename(p, Bare(arg.rest))
    [] arg.flag = "w"   -> IF arg.rest = Empty THEN [p EXCEPT !.expects = "w"] ELSE SetWorkers(p, Bare(arg.rest))
    [] arg.flag = "v"   -> IF p.quiet THEN Ends(p, "crashed") ELSE [p EXCEPT !.verbose = @ + 1]
    [] arg.flag = "d"   -> [p EXCEPT !.debug = @ + 1]
    [] arg.flag = "q"   -> [p EXCEPT !.quiet = TRUE]
    [] arg.flag = Empty -> ReadWord(p, arg.rest)
    [] OTHER            -> Ends(p, "refused")

\* One argument.
ReadArgument(p, arg) ==
  IF p.outcome # "ok" THEN p
  ELSE CASE p.expects = "f" -> SetFilename(p, arg)
         [] p.expects = "w" -> SetWorkers(p, arg)
         [] OTHER           -> ReadOption(p, arg)

\* What is known after all of the arguments, which are read in their order.
ReadAll(args) ==
  LET known[n \in 0 .. Len(args)] == IF n = 0 THEN Unread ELSE ReadArgument(known[n - 1], args[n])
  IN known[Len(args)]

\* Arguments that lack a value, or name neither a host nor a file.
Lacking(p) == p.expects = "f" \/ (p.hostname = Empty /\ p.filename = Bare(Empty))

\* _parse_commandline(): strtoul() of the NULL that follows a last -w.
ParseCommandLine(args) ==
  LET p == ReadAll(args)
  IN IF p.outcome # "ok" THEN p
     ELSE IF p.expects = "w" THEN Ends(p, "crashed")
     ELSE IF args = <<>> \/ Lacking(p) THEN Ends(p, "refused")
     ELSE p

\* What _strip_parameter() leaves of a copy: [kept, drops the next].
StripOne(s, arg) ==
  IF s.drop THEN [s EXCEPT !.drop = FALSE]
  ELSE IF arg.flag = "f" THEN [s EXCEPT !.drop = arg.rest = Empty]
  ELSE [s EXCEPT !.kept = Append(@, arg)]

StripFlagOnly(args) == SelectSeq(args, LAMBDA a : a.flag # "f")   \* Mutation: the value of a lone -f stays.

Uncut == [kept |-> <<>>, drop |-> FALSE]
StripAll(args) ==
  LET left[n \in 0 .. Len(args)] == IF n = 0 THEN Uncut ELSE StripOne(left[n - 1], args[n])
  IN left[Len(args)]

StripParameter(args) == StripAll(args).kept

\* spawn_workers() and workers_spawn(): the host, then what was kept.
ChildArguments(host, args) == <<Bare(host)>> \o StripParameter(args)

\* main(): a hostname makes the program a child, whatever else was given.
IsParent(p) == p.outcome = "ok" /\ p.hostname = Empty

ArgumentsInit == command = <<>>

ArgumentsNext == Len(command) < MaxArgs /\ \E a \in Args : command' = Append(command, a)
ArgumentsSpec == ArgumentsInit /\ [][ArgumentsNext]_command

-----------------------------------------------------------------------------
\* With every command line that makes the program read a file, each child
\* resolves the host it was started for, with the type and the options of the
\* parent, and does not read the file again: the children are not parents,
\* however -f and its value were written and wherever they stood
\* (_parse_commandline(), _strip_parameter(), spawn_workers()).  A host whose
\* name is that of a type is left out: its child takes it for one.
ChildrenResolveTheirHost ==
  LET p == ParseCommandLine(command) IN
  IsParent(p) =>
    \A h \in Hosts \ Types :
      ParseCommandLine(ChildArguments(h, command)) = [p EXCEPT !.hostname = h, !.filename = Bare(Empty)]
=============================================================================
