------------------------------- MODULE CommandLine -------------------------------
(***************************************************************************)
(* From the command line to the parameters of a command                    *)
(* (pkg/common/array_arg.go and params.go): array parameters are expanded  *)
(* to what pflag understands, pflag parses the result, and ParseParameters *)
(* completes it from the environment and the defaults, visiting the        *)
(* parameters in the order of a Go map, that is, in any order.             *)
(***************************************************************************)
EXTENDS Naturals, Sequences

CONSTANTS Parameters,  \* the parameters of the command "build"
          Fields,      \* strings.Fields of the texts an environment variable may hold
          Parses       \* by kind of parameter that is converted, the texts that convert to it

(* A token of the command line: a word, a flag, a flag with "=" and a      *)
(* value, or the "--" after which nothing is a flag.                       *)
Token == [kind: {"word", "flag", "flag=", "--"}, flag: STRING, text: STRING]

Word(w) == [kind |-> "word", flag |-> "", text |-> w]
Flag(f) == [kind |-> "flag", flag |-> f, text |-> "a flag"]
FlagEq(f, v) == [kind |-> "flag=", flag |-> f, text |-> v]
Dashes == [kind |-> "--", flag |-> "", text |-> "a flag"]

Names == DOMAIN Parameters

(* The kinds are those of reflect; a slice parameter is an array of texts. *)
ASSUME CommandLineAssumption ==
    /\ Names \subseteq STRING \ {""}
    /\ \A p \in Names : /\ Parameters[p].kind \in {"string", "bool", "int", "slice"}
                        /\ Parameters[p].required \in BOOLEAN
                        /\ Parameters[p].default \in Seq(STRING)
    /\ DOMAIN Parses = {"bool", "int"}

--------------------------------------------------------------------------------
(* recordArrayParamForCommand and buildArrayParamsData: the array flags of *)
(* a command, by its path.                                                 *)
ArrayFlags(path) == IF path = <<"build">> THEN {p \in Names : Parameters[p].kind = "slice"} ELSE {}

(* The words before the first token that is none. *)
CommandPath(argv) ==
    LET n == CHOOSE n \in 0..Len(argv) : /\ \A i \in 1..n : argv[i].kind = "word"
                                         /\ n < Len(argv) => argv[n + 1].kind # "word"
    IN  [i \in 1..n |-> argv[i].text]

(* Mutant of Repeat: the flag is not repeated before its values. *)
RepeatNothing(flag, word) == <<word>>

(* The flag is repeated before every value. *)
Repeat(flag, word) == IF flag = "" THEN <<word>> ELSE <<Flag(flag), word>>

(* One token.  flag is the array flag whose values are being read, if any; *)
(* an array flag itself vanishes.                                          *)
NothingExpanded == [out |-> <<>>, flag |-> "", stopped |-> FALSE]

ExpandToken(s, arg, arrays) ==
    IF s.stopped \/ arg.kind = "--" THEN [out |-> Append(s.out, arg), flag |-> "", stopped |-> TRUE]
    ELSE IF arg.kind = "word" THEN [s EXCEPT !.out = @ \o Repeat(s.flag, arg)]
    ELSE IF arg.flag \notin arrays THEN [s EXCEPT !.out = Append(@, arg), !.flag = ""]
    ELSE IF arg.kind = "flag" THEN [s EXCEPT !.flag = arg.flag]
    ELSE [s EXCEPT !.out = @ \o Repeat(arg.flag, Word(arg.text)), !.flag = arg.flag]

Expand(argv, arrays) ==
    LET expanded[n \in 0..Len(argv)] ==
          IF n = 0 THEN NothingExpanded ELSE ExpandToken(expanded[n - 1], argv[n], arrays)
    IN  expanded[Len(argv)].out

ExpandArrayParameters(argv) == Expand(argv, ArrayFlags(CommandPath(argv)))

--------------------------------------------------------------------------------
(* pflag and cobra, external: a flag takes the next token for its value,   *)
(* whatever it is, unless it is boolean or has "="; the other words are    *)
(* the command and its arguments.  pending is the flag that waits for its  *)
(* value, if any.                                                          *)
NothingParsed == [error |-> FALSE, flags |-> [p \in Names |-> <<>>], args |-> <<>>,
                  pending |-> "", stopped |-> FALSE]
ParseError == [NothingParsed EXCEPT !.error = TRUE]

Set(result, flag, text) ==
    IF flag \notin Names THEN ParseError
    ELSE IF Parameters[flag].kind \in DOMAIN Parses /\ text \notin Parses[Parameters[flag].kind] THEN ParseError
    ELSE [result EXCEPT !.flags[flag] = Append(@, text), !.pending = ""]

ParseToken(result, arg) ==
    IF result.error THEN result
    ELSE IF result.pending # "" THEN Set(result, result.pending, arg.text)
    ELSE IF result.stopped \/ arg.kind = "word" THEN [result EXCEPT !.args = Append(@, arg.text)]
    ELSE IF arg.kind = "--" THEN [result EXCEPT !.stopped = TRUE]
    ELSE IF arg.kind = "flag=" THEN Set(result, arg.flag, arg.text)
    ELSE IF arg.flag \in Names /\ Parameters[arg.flag].kind = "bool" THEN Set(result, arg.flag, "true")
    ELSE [result EXCEPT !.pending = arg.flag]

Parsing(tokens) ==
    LET result[n \in 0..Len(tokens)] ==
          IF n = 0 THEN NothingParsed ELSE ParseToken(result[n - 1], tokens[n])
    IN  result[Len(tokens)]

ParseFlags(tokens) == IF Parsing(tokens).pending = "" THEN Parsing(tokens) ELSE ParseError

--------------------------------------------------------------------------------
(* ParseParameters for one parameter: the command line, else a variable of *)
(* the environment that is not empty, else the default unless it is        *)
(* required.                                                               *)
Missing == [error |-> TRUE, value |-> <<>>]
Value(v) == [error |-> FALSE, value |-> v]

FromEnv(p, text) ==
    CASE Parameters[p].kind = "slice"  -> Value(Fields[text])
      [] Parameters[p].kind = "string" -> Value(<<text>>)
      [] OTHER -> IF text \in Parses[Parameters[p].kind] THEN Value(<<text>>) ELSE Missing

ParseParameter(p, given, env) ==
    IF given # <<>> THEN Value(IF Parameters[p].kind = "slice" THEN given ELSE <<given[Len(given)]>>)
    ELSE IF env[p] # "" THEN FromEnv(p, env[p])
    ELSE IF Parameters[p].required THEN Missing
    ELSE Value(Parameters[p].default)

--------------------------------------------------------------------------------
(* What a command line says, position by position.                         *)

(* Is position j one where flags are recognized? *)
BeforeDashes(argv, j) == \A i \in 1..j : argv[i].kind # "--"

(* Is position i the last one before j that holds no word? *)
Precedes(argv, i, j) == argv[i].kind # "word" /\ \A k \in (i + 1)..(j - 1) : argv[k].kind = "word"

(* Does the word at j belong to the flag at i? *)
Owns(argv, i, j) ==
    /\ Precedes(argv, i, j)
    /\ \/ Parameters[argv[i].flag].kind = "slice"
       \/ Parameters[argv[i].flag].kind \in {"string", "int"} /\ argv[i].kind = "flag" /\ j = i + 1

(* Does position j give parameter p a value? *)
Gives(argv, j, p) ==
    /\ BeforeDashes(argv, j)
    /\ \/ argv[j].kind = "word" /\ \E i \in 1..(j - 1) : Owns(argv, i, j) /\ argv[i].flag = p
       \/ argv[j].kind = "flag=" /\ argv[j].flag = p
       \/ argv[j].kind = "flag" /\ argv[j].flag = p /\ Parameters[p].kind = "bool"

(* The arguments: the words that belong to no flag, and all after "--". *)
IsArgument(argv, j) ==
    IF BeforeDashes(argv, j) THEN argv[j].kind = "word" /\ ~\E i \in 1..(j - 1) : Owns(argv, i, j)
    ELSE ~BeforeDashes(argv, j - 1)

(* The texts at the positions of S, in order; a flag is a text when it is  *)
(* boolean.                                                                *)
TextAt(argv, j) == IF argv[j].kind = "flag" /\ BeforeDashes(argv, j) THEN "true" ELSE argv[j].text
TextsAt(argv, S) ==
    LET texts[n \in 0..Len(argv)] ==
          IF n = 0 THEN <<>> ELSE IF n \in S THEN Append(texts[n - 1], TextAt(argv, n)) ELSE texts[n - 1]
    IN  texts[Len(argv)]

Given(argv, p) == TextsAt(argv, {j \in DOMAIN argv : Gives(argv, j, p)})

Arguments(argv) == TextsAt(argv, {j \in DOMAIN argv : IsArgument(argv, j)})

(* The command comes first and alone, and flags that need a value have it. *)
WellFormed(argv) ==
    /\ argv # <<>> /\ argv[1] = Word("build")
    /\ Len(argv) > 1 => argv[2].kind # "word"
    /\ \A i \in DOMAIN argv :
          argv[i].kind # "word" /\ BeforeDashes(argv, i) =>
              /\ argv[i].flag \in Names
              /\ argv[i].kind = "flag" /\ Parameters[argv[i].flag].kind \in {"string", "int"} =>
                    i < Len(argv) /\ argv[i + 1].kind = "word"
================================================================================
