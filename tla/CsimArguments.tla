--------------------------- MODULE CsimArguments ----------------------------
(***************************************************************************)
(* parse_arguments of src/cachelab/csim.c.  It looks at every word of the  *)
(* command line in turn, also at those that are the value of a flag, and   *)
(* counts the flags it meets.  The parameters are locals of main without   *)
(* an initial value.                                                       *)
(***************************************************************************)
EXTENDS Integers, Sequences, FiniteSets

CONSTANTS Commands,     \* command lines: sequences of words
          Numbers,      \* words that atoi reads as a number above 0
          Files         \* words that name a file that can be read

Unset == "unset"        \* whatever the stack holds

NULL == "NULL"          \* argv[argc]

\* They are no words.
ASSUME ArgumentsAssumption ==
  Commands \subseteq Seq(STRING) /\ {Unset, NULL} \cap (Numbers \cup Files) = {}

VARIABLES argv,
          place, flags, \* locals of parse_arguments: the i of its loop
          par,          \* -s, -E and -b, as they are left in main
          trace, verb,
          outcome       \* "parse", then "replay" or how csim exits

argumentVars == <<argv, place, flags, par, trace, verb, outcome>>

argc == Len(argv)

Word(n) == IF n < argc THEN argv[n + 1] ELSE NULL

ArgumentsInit ==
  /\ argv \in Commands
  /\ place = 0 /\ flags = 0 /\ verb = FALSE
  /\ par = [f \in {"-s", "-E", "-b"} |-> Unset] /\ trace = Unset
  /\ outcome = "parse"

Exits(why) == outcome' = why /\ UNCHANGED <<argv, place, flags, par, trace, verb>>

\* print_usage(), or the help text when -h is there too: only here.
WrongCount ==
  /\ outcome = "parse" /\ argc \notin 9 .. 11
  /\ Exits(IF \E n \in 0 .. argc - 1 : Word(n) = "-h" THEN "help" ELSE "usage")

Parsing == outcome = "parse" /\ argc \in 9 .. 11

\* What atoi returns; atoi(NULL) crashes.
atoi(w) == IF w \in Numbers THEN w ELSE "0"

(* One iteration of the loop.                                              *)
Parameter ==
  /\ Parsing /\ Word(place) \in DOMAIN par /\ Word(place + 1) # NULL
  /\ par' = [par EXCEPT ![Word(place)] = atoi(Word(place + 1))]
  /\ flags' = flags + 1 /\ place' = place + 1
  /\ UNCHANGED <<argv, trace, verb, outcome>>

NoValue ==
  Parsing /\ Word(place) \in DOMAIN par /\ Word(place + 1) = NULL /\ Exits("SIGSEGV")

OpenTrace ==
  /\ Parsing /\ Word(place) = "-t" /\ Word(place + 1) \in Files
  /\ trace' = Word(place + 1)
  /\ flags' = flags + 1 /\ place' = place + 1
  /\ UNCHANGED <<argv, par, verb, outcome>>

OpenFails ==
  Parsing /\ Word(place) = "-t" /\ Word(place + 1) \notin Files /\ Exits("Failed to open")

OtherWord ==
  /\ Parsing /\ place < argc /\ Word(place) \notin DOMAIN par \cup {"-t"}
  /\ verb' = (verb \/ Word(place) = "-v")
  /\ place' = place + 1
  /\ UNCHANGED <<argv, flags, par, trace, outcome>>

\* Mutant: a missing flag is not noticed.
ParsedThree ==
  Parsing /\ place = argc /\ Exits(IF flags \in {3, 4} THEN "replay" ELSE "usage")

Parsed ==
  Parsing /\ place = argc /\ Exits(IF flags = 4 THEN "replay" ELSE "usage")

ArgumentsNext ==
  \/ WrongCount \/ Parameter \/ NoValue \/ OpenTrace \/ OpenFails \/ OtherWord
  \/ Parsed
  \/ outcome # "parse" /\ UNCHANGED argumentVars

ArgumentsSpec == ArgumentsInit /\ [][ArgumentsNext]_argumentVars

----------------------------------------------------------------------------

Repeated(f) == Cardinality({n \in 0 .. argc - 1 : Word(n) = f}) > 1

(* "Check if all required flags were set" (line 223) counts flags, not     *)
(* different ones: a replay with a parameter that was never set does       *)
(* happen, but only when another flag was given twice.                     *)
SetUnlessRepeated ==
  outcome = "replay" =>
    \/ trace # Unset /\ \A f \in DOMAIN par : par[f] # Unset
    \/ \E f \in DOMAIN par \cup {"-t"} : Repeated(f)
=============================================================================
