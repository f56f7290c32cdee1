---------------------------- MODULE CommandLine ----------------------------
(***************************************************************************)
(* The command line, optparse.c and parseCmdLine of simbatch_config.c.  A  *)
(* line argv is a sequence of tokens; argv[1] is the program.              *)
(***************************************************************************)
EXTENDS Naturals, Sequences, FiniteSetsExt

CONSTANT Numbers   \* Numbers[s], what strtoul reads in the token s

ASSUME NumbersAssumption == \A s \in DOMAIN Numbers : Numbers[s] \in Nat

(* allowed, and all of them withParams.                                    *)
Options == {"-f", "-o", "-tw", "-tp"}

IsPresent(argv, arg) == \E i \in DOMAIN argv : argv[i] = arg

(* The search does not stop at the first.                                  *)
IndexOf(argv, arg) == Max({i \in DOMAIN argv : argv[i] = arg})

HasParam(argv, i) == i < Len(argv) /\ argv[i + 1] \notin Options

GetParam(argv, arg) == argv[IndexOf(argv, arg) + 1]

ControlParams(argv, needed) ==
  /\ \A s \in needed : IsPresent(argv, s)
  /\ \A s \in Options : IsPresent(argv, s) => HasParam(argv, IndexOf(argv, s))

SecureStr2ul(s) == IF s \in DOMAIN Numbers THEN Numbers[s] ELSE 0

(* Mutant: one of the two parameters has to be positive.                   *)
X_ParseCmdLine(argv) ==
  /\ ControlParams(argv, {"-f"})
  /\ IsPresent(argv, "-o") =>
       /\ ControlParams(argv, {"-o", "-tw", "-tp"})
       /\ SecureStr2ul(GetParam(argv, "-tw")) # 0 \/ SecureStr2ul(GetParam(argv, "-tp")) # 0

(* parseCmdLine accepts argv.                                              *)
ParseCmdLine(argv) ==
  /\ ControlParams(argv, {"-f"})
  /\ IsPresent(argv, "-o") =>
       /\ ControlParams(argv, {"-o", "-tw", "-tp"})
       /\ SecureStr2ul(GetParam(argv, "-tw")) # 0
       /\ SecureStr2ul(GetParam(argv, "-tp")) # 0
=============================================================================
