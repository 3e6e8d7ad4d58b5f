----------------------------- MODULE CommandLine -----------------------------
(***************************************************************************)
(* The command line of ssmcli, which starts a session without the AWS CLI: *)
(* ParseCliCommand, ValidateInput, and the start-session command up to the *)
(* session it executes.                                                    *)
(*                                                                         *)
(* An argument is a flag or a word; of the values of a parameter only the  *)
(* number matters.  Position 1 of the arguments is the program.            *)
(***************************************************************************)
EXTENDS Naturals, Sequences, FiniteSets

CONSTANT CommandLines     \* the sequences of arguments that users give

ParameterKeys == {"instance-id", "region", "profile", "endpoint", "document-name",
                  "parameters"}

Flag(name) == [isFlag |-> TRUE, text |-> name]
Word(text) == [isFlag |-> FALSE, text |-> text]

\* The name of the flag --, and of the parameter of words that follow no flag.
NoName == ""

ASSUME CommandLineAssumption == \A args \in CommandLines : args \in Seq([isFlag : BOOLEAN,
                                                                         text : STRING])

-----------------------------------------------------------------------------
(* ParseCliCommand. *)

\* Options are the flags before the command.
CommandAt(args) ==
    CHOOSE i \in 2 .. Len(args) + 1 :
        /\ \A j \in 2 .. i - 1 : args[j].isFlag
        /\ i <= Len(args) => ~args[i].isFlag

HasCommand(args)    == CommandAt(args) <= Len(args)
Command(args)       == args[CommandAt(args)].text
HasSubcommand(args) == CommandAt(args) < Len(args)

\* There are parameters only behind a subcommand, yet they are read from the third
\* argument on, whatever the options were.
Read(args) == IF CommandAt(args) + 1 < Len(args) THEN 3 .. Len(args) ELSE {}

\* The parameter a word belongs to: the flag before it, or the empty name.
Owner(args, i) ==
    LET flags == {j \in Read(args) : j < i /\ args[j].isFlag}
    IN  IF flags = {} THEN NoName ELSE args[CHOOSE j \in flags : \A k \in flags : k <= j].text

Values(args, name) == {i \in Read(args) : ~args[i].isFlag /\ Owner(args, i) = name}

Parameters(args) ==
    {args[i].text : i \in {j \in Read(args) : args[j].isFlag}}
        \cup {Owner(args, i) : i \in {j \in Read(args) : ~args[j].isFlag}}

\* A parameter has no name, or the name of an earlier one.
Misnamed(args) ==
    \E i \in Read(args) :
        /\ args[i].isFlag
        /\ args[i].text = NoName \/ \E j \in Read(args) : j < i /\ args[j] = args[i]

ParseFails(args) == ~HasCommand(args) \/ Misnamed(args)

-----------------------------------------------------------------------------
(* ValidateInput, and the start-session command. *)

IsHelp(args) ==
    \/ HasSubcommand(args) /\ args[CommandAt(args) + 1].text = "help"
    \/ "help" \in Parameters(args)

\* Is there nothing to execute: only usage, help, or an error to print?
NothingToDo(args) ==
    \/ Len(args) < 2
    \/ ParseFails(args)
    \/ Command(args) # "start-session"
    \/ IsHelp(args)

\* Mutant of ValidateStartSessionInput: the instance is not asked for.
ValidateFlagsOnly(args) == Parameters(args) \subseteq ParameterKeys

ValidateStartSessionInput(args) ==
    /\ "instance-id" \in Parameters(args)
    /\ Parameters(args) \subseteq ParameterKeys

\* The first value of a parameter is taken without asking whether there is one;
\* that of the instance even without asking for the parameter.
IsEmpty(args, name) == name \in Parameters(args) /\ Values(args, name) = {}

\* getStartSessionParams: values that are no JSON, the service, or an answer that
\* lacks a field refuse the command.
GetStartSessionParams(args) ==
    {"refused", IF Values(args, "instance-id") = {} \/ IsEmpty(args, "document-name")
                THEN "panicked" ELSE "session"}

\* How the command may end: the session is executed, the command is refused, or an
\* index out of range ends the program.  The SDK may refuse it, too.
Outcomes(args) ==
    IF NothingToDo(args) \/ ~ValidateStartSessionInput(args) THEN {"refused"}
    ELSE IF \E name \in {"region", "profile", "endpoint", "instance-id"} : IsEmpty(args, name)
         THEN {"panicked"}
    ELSE GetStartSessionParams(args)
=============================================================================
