------------------------------ MODULE RunInjector ------------------------------
(***************************************************************************)
(* RunInjector.Inject (pkg/common/containerfile_editor): put a command in  *)
(* front of the command of every RUN instruction of a containerfile.       *)
(*                                                                         *)
(* A line is a sequence of characters, of which only those the code tells  *)
(* apart are kept: a space, the quotes, the escape, "#", "\n", a word of   *)
(* one letter, and as one character each "RUN", "--", "<<" and a whole     *)
(* JSON array.                                                             *)
(***************************************************************************)
EXTENDS Naturals, Sequences, FiniteSets, SequencesExt

CONSTANTS Files,      \* the containerfiles: their lines, escape character and instructions
          ToInject    \* the lines of toInject, continued with a backslash

Space     == " "
Newline   == "\n"
Backslash == "\\"
Quotes    == {"'", "\""}
JsonArray == "[...]"

VARIABLES file, pc,
          physicalLines,   \* an edited one may hold line breaks
          nodes,           \* of parsed.AST.Children, those still to be looked at
          unsupported      \* the calls of OnUnsupported: line number and reason

vars == <<file, pc, physicalLines, nodes, unsupported>>

Comment(line) == \E i \in DOMAIN line : line[i] = "#" /\ \A j \in 1 .. i - 1 : line[j] = Space
Blank(line)   == \A i \in DOMAIN line : line[i] = Space

Indices(i, j) == [k \in 1 .. j - i + 1 |-> i + k - 1]

--------------------------------------------------------------------------------
(* The parser (buildkit): an instruction goes on as long as its lines end  *)
(* in an escape; comments and blank lines in between do not count, and the *)
(* bodies of its heredocs follow it.                                       *)
Continued(line, escape) ==
    \E i \in DOMAIN line : /\ line[i] = escape
                           /\ i > 1 => line[i - 1] # escape
                           /\ Blank(SubSeq(line, i + 1, Len(line)))

Stripped(line, escape) ==
    IF Continued(line, escape)
    THEN SubSeq(line, 1, CHOOSE i \in 0 .. Len(line) - 1 : /\ line[i + 1] = escape
                                                           /\ Blank(SubSeq(line, i + 2, Len(line))))
    ELSE line

ParseNode(lines, start, escape) ==
    LET Skipped(i) == i > start /\ (Comment(lines[i]) \/ Blank(lines[i]))
        last == Min({i \in start .. Len(lines) : ~Skipped(i) /\ ~Continued(lines[i], escape)}
                    \union {Len(lines)})
        own == SelectSeq(Indices(start, last), LAMBDA i : ~Skipped(i))
        text == FlattenSeq([k \in DOMAIN own |-> Stripped(lines[own[k]], escape)])
        heredoc == \E i \in 2 .. Len(text) - 1 : text[i] = "<<" /\ text[i - 1] = Space
        ends == {i \in last + 1 .. Len(lines) : lines[i] = <<"x">>}
        end == IF heredoc /\ ends # {} THEN Min(ends) ELSE last
    IN  [startLine |-> start, text |-> text, body |-> SubSeq(lines, last + 1, end), next |-> end + 1,
         json |-> text[Len(text)] = JsonArray]

Parse(lines, escape) ==
    LET from[i \in 1 .. Len(lines) + 1] ==
          IF i > Len(lines) THEN <<>>
          ELSE IF Comment(lines[i]) \/ Blank(lines[i]) THEN from[i + 1]
          ELSE LET node == ParseNode(lines, i, escape) IN <<node>> \o from[node.next]
    IN  from[1]

--------------------------------------------------------------------------------
(* The escape that ends a line, spaces after it aside, is no continuation  *)
(* when another comes before it.                                           *)
trimContinuation(line, escapeToken) ==
    LET length == Max({0} \union {i \in DOMAIN line : line[i] # Space})
    IN  IF /\ length > 0
           /\ line[length] = escapeToken
           /\ length = 1 \/ line[length - 1] # escapeToken
        THEN SubSeq(line, 1, length - 1) ELSE line

hasContinuation(line, escapeToken) == Len(trimContinuation(line, escapeToken)) # Len(line)

(* The lines of the injection are continued with the file's own escape. *)
fixInjection(lines, escapeToken) ==
    LET trimmed == [i \in DOMAIN lines |-> trimContinuation(lines[i], Backslash)]
    IN  FoldLeft(LAMBDA text, line : text \o <<escapeToken, Newline>> \o line,
                 Head(trimmed), Tail(trimmed))

(* A mutant of getPhysicalLines: a comment that is not continued ends the  *)
(* instruction.                                                            *)
UpToComment(start) ==
    LET last == Min({i \in start .. Len(physicalLines) : ~hasContinuation(physicalLines[i], file.escape)}
                    \union {Len(physicalLines)})
    IN  SelectSeq(Indices(start, last), LAMBDA i : ~Comment(physicalLines[i]))

(* The lines of an instruction: comments in between are passed over. *)
getPhysicalLines(start) ==
    LET last == Min({i \in start .. Len(physicalLines) :
                        /\ ~Comment(physicalLines[i])
                        /\ ~hasContinuation(physicalLines[i], file.escape)}
                    \union {Len(physicalLines)})
    IN  SelectSeq(Indices(start, last), LAMBDA i : ~Comment(physicalLines[i]))

joinToLogicalLine(indices) ==
    FlattenSeq([k \in DOMAIN indices |-> trimContinuation(physicalLines[indices[k]], file.escape)])

(* isAnEscape: whether the escape at i takes the next character with it. *)
isAnEscape(line, i, openingQuote, escapeToken) ==
    \/ openingQuote = ""
    \/ openingQuote = "\"" /\ i < Len(line) /\ line[i + 1] \in {"\"", "$", escapeToken}

(* tokenize: a token ends at a space that is neither quoted nor escaped;   *)
(* start is 0 between tokens.                                              *)
tokenize(line, escapeToken) ==
    LET Take(s, i) ==
          LET c == line[i]
              in == [s EXCEPT !.start = IF @ = 0 THEN i ELSE @]
          IN  CASE s.skip -> [s EXCEPT !.skip = FALSE]
                [] ~s.skip /\ c = Space ->
                     IF s.openingQuote = "" /\ s.start > 0
                     THEN [s EXCEPT !.start = 0,
                                    !.tokens = Append(@, [start |-> s.start, raw |-> SubSeq(line, s.start, i - 1)])]
                     ELSE s
                [] ~s.skip /\ c = escapeToken ->
                     [in EXCEPT !.skip = isAnEscape(line, i, s.openingQuote, escapeToken)]
                [] ~s.skip /\ c \in Quotes ->
                     [in EXCEPT !.openingQuote = CASE @ = "" -> c [] @ = c -> "" [] @ \notin {"", c} -> @]
                [] ~s.skip /\ c \notin {Space, escapeToken} \union Quotes -> in
        end == FoldLeftDomain(Take, [start |-> 0, openingQuote |-> "", skip |-> FALSE, tokens |-> <<>>], line)
    IN  IF end.start = 0 THEN end.tokens
        ELSE Append(end.tokens, [start |-> end.start, raw |-> SubSeq(line, end.start, Len(line))])

(* The first token after RUN and its options decides: where to inject, or  *)
(* why not.                                                                *)
findInjectionIndex(line) ==
    LET tokens == tokenize(line, file.escape)
        first == SelectInSubSeq(tokens, 2, Len(tokens), LAMBDA t : t.raw[1] # "--")
    IN  IF first = 0 \/ tokens[first].raw[1] = "#" THEN [at |-> 0, why |-> "no-op"]
        ELSE IF tokens[first].raw[1] = "<<" /\ Len(tokens[first].raw) > 1 THEN [at |-> 0, why |-> "heredoc"]
        ELSE [at |-> tokens[first].start, why |-> "none"]

(* The line that holds the index of the logical line, with the index in it. *)
injectIntoPhysicalLine(indices, injectionIndex, toInject) ==
    LET Contribution(k) == Len(trimContinuation(physicalLines[indices[k]], file.escape))
        Before(k) == FoldLeft(LAMBDA sum, j : sum + Contribution(j), 0, Indices(1, k - 1))
        k == CHOOSE k \in DOMAIN indices : Before(k) < injectionIndex /\ injectionIndex <= Before(k) + Contribution(k)
        at == injectionIndex - Before(k)
        line == physicalLines[indices[k]]
    IN  [physicalLines EXCEPT ![indices[k]] = SubSeq(@, 1, at - 1) \o toInject \o SubSeq(@, at, Len(@))]

--------------------------------------------------------------------------------
Init == /\ file \in Files
        /\ pc = "inject"
        /\ physicalLines = file.lines
        /\ nodes = Parse(file.lines, file.escape)
        /\ unsupported = {}

(* One round of the loop of inject. *)
InjectNode ==
    LET node == Head(nodes)
        indices == getPhysicalLines(node.startLine)
        found == findInjectionIndex(joinToLogicalLine(indices))
        Report(why) == unsupported' = unsupported \union {[line |-> node.startLine, why |-> why]}
    IN  /\ pc = "inject"
        /\ nodes # <<>>
        /\ nodes' = Tail(nodes)
        /\ IF node.text[1] # "RUN" THEN UNCHANGED <<physicalLines, unsupported>>
           ELSE IF node.json THEN Report("exec-form") /\ UNCHANGED physicalLines
           ELSE IF found.at = 0 THEN Report(found.why) /\ UNCHANGED physicalLines
           ELSE /\ physicalLines' = injectIntoPhysicalLine(indices, found.at, fixInjection(ToInject, file.escape))
                /\ UNCHANGED unsupported
        /\ UNCHANGED <<file, pc>>

Return == /\ pc = "inject"
          /\ nodes = <<>>
          /\ pc' = "done"
          /\ UNCHANGED <<file, physicalLines, nodes, unsupported>>

Terminated == pc = "done" /\ UNCHANGED vars

Next == InjectNode \/ Return \/ Terminated

Spec == Init /\ [][Next]_vars

--------------------------------------------------------------------------------
(* The lines of the edited file. *)
Edited ==
    LET Split(line) ==   \* at the one line break it may have
          LET at == SelectInSeq(line, LAMBDA c : c = Newline)
          IN  IF at = 0 THEN <<line>>
              ELSE <<SubSeq(line, 1, at - 1), SubSeq(line, at + 1, Len(line))>>
    IN  FlattenSeq([i \in DOMAIN physicalLines |-> Split(physicalLines[i])])

(* The injection as the parser sees it, its lines joined. *)
InjectedText == FlattenSeq([i \in DOMAIN ToInject |-> Stripped(ToInject[i], Backslash)])

(* What an instruction is meant to be: its head (RUN and its options), and *)
(* its command.  Only a command in shell form is to be prefixed.           *)
Meant(instr) == IF instr.kind = "shell" THEN instr.head \o InjectedText \o instr.command
                ELSE instr.head \o instr.command

(* When Inject returns, the parser reads the same instructions from the    *)
(* edited file as from the original, with the injection in front of the    *)
(* command of every RUN in shell form, after its options, wherever lines   *)
(* are continued and whatever is quoted; heredoc bodies and all other      *)
(* instructions are untouched, and exactly the RUN instructions left alone *)
(* are reported.  The exception: a blank line between continued lines, up  *)
(* to the first word of the command, which the code takes for the last     *)
(* line of the instruction.                                                *)
InjectedBeforeCommand ==
    LET before == Parse(file.lines, file.escape)
        after == Parse(Edited, file.escape)
        Reported(k) == \E u \in unsupported : u.line = before[k].startLine
        AsMeant(k) == /\ after[k].text = Meant(file.instrs[k])
                      /\ Reported(k) <=> file.instrs[k].kind \in {"exec-form", "heredoc", "no-op"}
    IN  pc = "done" => /\ Len(after) = Len(file.instrs)
                       /\ \A k \in DOMAIN after :
                             /\ after[k].body = before[k].body
                             /\ AsMeant(k) \/ file.instrs[k].blankLine
================================================================================
