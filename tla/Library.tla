------------------------------ MODULE Library ------------------------------
(* The libraries that keep state between calls but share none: each has its own
   program here as it has its own test program in src/Makefile, and a behaviour
   is a run of one of them. *)
EXTENDS SmackCaller, HttpParse, HostField, Arguments, Sha512, ChaCha20, Rand, SecMem, Calendar

VARIABLE program
vars == <<program, smackVars, httpVars, hostVars, command, sha512Vars, chachaVars, randVars, secmemVars, calendarVars>>

Programs == {"smack", "http", "host", "arguments", "sha512", "chacha20", "rand", "secmem", "mktime64"}

\* What does not matter to a program is the same in all its initial states.
Init ==
  /\ program \in Programs
  /\ SmackInit /\ HttpInit /\ HostInit /\ ArgumentsInit /\ Sha512Init /\ ChaChaInit /\ RandInit /\ SecMemInit /\ CalendarInit
  /\ program # "smack" => smack = Create(FALSE)
  /\ program # "chacha20" => keyed
  /\ program # "rand" => generator = Seeded(CHOOSE s \in Seeds : TRUE)
  /\ program # "mktime64" => year = CHOOSE y \in FirstYears : TRUE

Searching   == program = "smack" /\ SmackNext
               /\ UNCHANGED <<program, httpVars, hostVars, command, sha512Vars, chachaVars, randVars, secmemVars, calendarVars>>
Parsing     == program = "http" /\ HttpNext
               /\ UNCHANGED <<program, smackVars, hostVars, command, sha512Vars, chachaVars, randVars, secmemVars, calendarVars>>
ReadingHost == program = "host" /\ HostNext
               /\ UNCHANGED <<program, smackVars, httpVars, command, sha512Vars, chachaVars, randVars, secmemVars, calendarVars>>
Arguing     == program = "arguments" /\ ArgumentsNext
               /\ UNCHANGED <<program, smackVars, httpVars, hostVars, sha512Vars, chachaVars, randVars, secmemVars, calendarVars>>
Hashing     == program = "sha512" /\ Sha512Next
               /\ UNCHANGED <<program, smackVars, httpVars, hostVars, command, chachaVars, randVars, secmemVars, calendarVars>>
Enciphering == program = "chacha20" /\ ChaChaNext
               /\ UNCHANGED <<program, smackVars, httpVars, hostVars, command, sha512Vars, randVars, secmemVars, calendarVars>>
Drawing     == program = "rand" /\ RandNext
               /\ UNCHANGED <<program, smackVars, httpVars, hostVars, command, sha512Vars, chachaVars, secmemVars, calendarVars>>
Allocating  == program = "secmem" /\ SecMemNext
               /\ UNCHANGED <<program, smackVars, httpVars, hostVars, command, sha512Vars, chachaVars, randVars, calendarVars>>
Turning     == program = "mktime64" /\ NextDay
               /\ UNCHANGED <<program, smackVars, httpVars, hostVars, command, sha512Vars, chachaVars, randVars, secmemVars>>

Next == Searching \/ Parsing \/ ReadingHost \/ Arguing \/ Hashing \/ Enciphering \/ Drawing \/ Allocating \/ Turning
Spec == Init /\ [][Next]_vars
=============================================================================
