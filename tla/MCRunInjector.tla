----------------------------- MODULE MCRunInjector -----------------------------
(***************************************************************************)
(* Two instructions, the first with up to two options, broken into lines   *)
(* at up to two places (in the middle of a word too), with a comment or a  *)
(* blank line after a break.  Each file comes with its meaning; a place    *)
(* where a break would change what the parser reads is left out.           *)
(***************************************************************************)
EXTENDS RunInjector

MCToInject == << <<"e", " ", "\\">>, <<" ">> >>

Options(escape) == {<<"--", "x">>, <<"--", "'", " ", escape, "x", "'">>, <<"--", escape, " ">>,
                    <<"--", "\"", escape, "\"", " ", "\"">>}

Heads(escape) ==
    {<<"RUN", " ">>} \union {<<"RUN", " ">> \o a \o <<" ">> : a \in Options(escape)}
                     \union {<<"RUN", " ", "--", "x", " ", " ">> \o a \o <<" ">> : a \in Options(escape)}

(* The kind of an instruction is what comes first in its command. *)
Commands == {[kind |-> "shell", command |-> <<"x">>], [kind |-> "shell", command |-> <<"x", " ", "#">>],
             [kind |-> "shell", command |-> <<"x", " ", "<<", "x">>],
             [kind |-> "heredoc", command |-> <<"<<", "x">>],
             [kind |-> "no-op", command |-> <<"#", "x">>],
             [kind |-> "exec-form", command |-> <<JsonArray>>]}

Text(i) == i.head \o i.command

(* The breaks of an instruction: before which characters, and what follows *)
Extras == {<<>>, << <<" ", "#", "x">> >>, << <<" ">> >>}

Broken(i, escape, breaks) ==
    LET places == SetToSortSeq(DOMAIN breaks, <)
        n == Len(places)
        Part(k) == SubSeq(Text(i), IF k = 1 THEN 1 ELSE places[k - 1],
                          IF k = n + 1 THEN Len(Text(i)) ELSE places[k] - 1)
    IN  FlattenSeq([k \in 1 .. n |-> <<Part(k) \o <<escape, " ">>>> \o breaks[places[k]]]) \o <<Part(n + 1)>>

(* Two breaks are tried on the shorter instructions only. *)
Breaks(i) == LET places == 2 .. Len(Text(i))
                 most == IF Len(Text(i)) <= 7 THEN 2 ELSE 1
             IN  UNION {[P -> Extras] : P \in {Q \in SUBSET places : Cardinality(Q) <= most}}

(* A blank line up to the first word of the command. *)
BlankLine(i, breaks) ==
    LET space == SelectInSeq(i.command, LAMBDA c : c = Space)
        end == Len(i.head) + (IF space = 0 THEN Len(i.command) ELSE space - 1)
    IN  \E p \in DOMAIN breaks : p <= end /\ breaks[p] = << <<" ">> >>

Body(i) == IF "<<" \in {i.command[k] : k \in DOMAIN i.command} THEN << <<"RUN", " ", "y">>, <<"x">> >> ELSE <<>>

Variants(i, escape) ==
    LET Reads(lines) == LET p == Parse(lines, escape) IN Len(p) = 1 /\ p[1].text = Text(i)
    IN  {v \in {[lines |-> Broken(i, escape, b) \o Body(i), blank |-> BlankLine(i, b)] : b \in Breaks(i)} :
            Reads(v.lines)}

Second(escape) == {[lines |-> << <<"RUN", " ", escape>>, <<"x">> >>,
                    instr |-> [head |-> <<"RUN", " ">>, command |-> <<"x">>, kind |-> "shell",
                               blankLine |-> FALSE]],
                   [lines |-> << <<"COPY", " ", "x">> >>,
                    instr |-> [head |-> <<"COPY", " ">>, command |-> <<"x">>, kind |-> "other",
                               blankLine |-> FALSE]]}

Instrs(escape) == {[head |-> h, command |-> c.command, kind |-> c.kind] : h \in Heads(escape), c \in Commands}

MCFiles ==
    UNION {UNION {{[escape |-> escape,
                    lines |-> v.lines \o s.lines,
                    instrs |-> <<[head |-> i.head, command |-> i.command, kind |-> i.kind,
                                  blankLine |-> v.blank], s.instr>>] :
                      v \in Variants(i, escape), s \in Second(escape)} :
              i \in Instrs(escape)} : escape \in {Backslash, "backtick"}}
================================================================================
