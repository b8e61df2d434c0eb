------------------------------ MODULE MCPrograms -------------------------------
(* What runs by itself, on small instances: one command of the command line, *)
(* the analysis of the desktop, or one of the decisions taken from data.     *)
(* The lease of the data directory keeps the two front ends apart and a      *)
(* decision has no other actor, so a behaviour is of one of the three and    *)
(* the others stay as they began.                                            *)
EXTENDS MCDecisions, CommandLine, AnalysisSession

VARIABLES
    program  \* the one that is running

MCVideoIds == {"first", "second"}

MCAddresses ==
    LET watch == <<"watch">>
    IN  {Canonical("first"),
         Address("youtu.be", <<"", "first", "">>, <<>>),
         Address("www.youtube.com", watch, << <<"v", "first">>, <<"list", "mix">> >>),
         Address("www.youtube.com", watch, << <<"v", "first">>, <<"v", "second">> >>),
         Address("music.youtube.com", watch, << <<"list", "mix">> >>),
         Address("m.youtube.com", <<"live", "first">>, <<>>),
         Address("youtube.com", <<"shorts", "first">>, <<>>),
         Address("youtube.com", <<"shorts">>, <<>>),
         Address("youtu.be", <<"first", "second">>, <<>>),
         Address("elsewhere.com", watch, << <<"v", "first">> >>),
         Address("youtube.com", watch, << <<"v", "first">>, <<"cookies", "all">> >>),
         [Canonical("second") EXCEPT !.credentials = TRUE],
         [Canonical("second") EXCEPT !.scheme = "ftp"]}

Init ==
    /\ program \in {"command line", "desktop", "decision"}
    /\ CliInit /\ SessionInit /\ ProbeInit
    /\ program # "command line" => verb = "list"

Next ==
    /\ UNCHANGED program
    /\ \/ program = "command line" /\ CliNext     /\ UNCHANGED <<sessionVars, probe>>
       \/ program = "desktop"      /\ SessionNext /\ UNCHANGED <<cliVars, probe>>
       \/ program = "decision"     /\ ProbeNext   /\ UNCHANGED <<cliVars, sessionVars>>

Spec == Init /\ [][Next]_<<program, cliVars, sessionVars, probe>> /\ CliFairness

(* A command of the command line program ends, whatever the user, the queue  *)
(* and the reader of its output do (lib.rs:922), except as CommandEnds says. *)
EveryCommandEnds == program = "command line" => CommandEnds
=============================================================================
