------------------------------- MODULE Ctype -------------------------------
(* util-ctype.c: the classes of the ASCII characters, from a table of 127
   entries that is indexed with 0 .. 127.  A bit of an entry is a name. *)
EXTENDS Integers

CONSTANT Past   \* the bits of the byte that lies behind the table

ASSUME PastAssumption == Past \subseteq {"digit", "xdigit", "lower", "upper", "punct", "space", "cntrl", "print"}

CtypeData(x) ==
  CASE x \in 9 .. 13                      -> {"cntrl", "space"}
    [] x \in 0 .. 8 \cup 14 .. 31         -> {"cntrl"}
    [] x = 32                             -> {"print", "space"}
    [] x \in 48 .. 57                     -> {"print", "xdigit", "digit"}
    [] x \in 65 .. 70                     -> {"print", "upper", "xdigit"}
    [] x \in 71 .. 90                     -> {"print", "upper"}
    [] x \in 97 .. 102                    -> {"print", "lower", "xdigit"}
    [] x \in 103 .. 122                   -> {"print", "lower"}
    [] x = 127                            -> Past
    [] OTHER                              -> {"print", "punct"}

HasAny(x, bits) == x \in 0 .. 127 /\ CtypeData(x) \cap bits # {}

ISDIGIT(x)  == HasAny(x, {"digit"})
ISXDIGIT(x) == HasAny(x, {"xdigit"})
ISLOWER(x)  == HasAny(x, {"lower"})
ISUPPER(x)  == HasAny(x, {"upper"})
ISALPHA(x)  == HasAny(x, {"lower", "upper"})
ISALNUM(x)  == HasAny(x, {"lower", "upper", "digit"})
ISPUNCT(x)  == HasAny(x, {"punct"})
ISSPACE(x)  == HasAny(x, {"space"})
ISCNTRL(x)  == HasAny(x, {"cntrl"})
ISPRINT(x)  == HasAny(x, {"print"})
TOUPPER(x)  == IF ISLOWER(x) THEN x - 32 ELSE x
TOLOWER(x)  == IF ISUPPER(x) THEN x + 32 ELSE x
=============================================================================
