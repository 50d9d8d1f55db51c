-------------------------------- MODULE Config ---------------------------------
(***************************************************************************)
(* core/args.c over helpers/ini.c: how a node reads its configuration.     *)
(*                                                                         *)
(* A line is a sequence of lexemes: punctuation and white space count as   *)
(* in the file, a digit is a lexeme, and so is any other run of characters *)
(* that the code does not look into.  Lengths count lexemes.  Every line   *)
(* ends with a newline, which is left out.  Names and sections fit their   *)
(* buffers of 50 characters.  White space is what strtok divides words at  *)
(* (blank, tab, carriage return): files with a vertical tab or a form      *)
(* feed, which isspace counts and strtok does not know, are left out.      *)
(***************************************************************************)
EXTENDS Integers, Sequences, FiniteSets

CONSTANTS
    INI_MAX_LINE,       \* the size of the line buffer, its NUL included
    HOST_LEN            \* the size of node_addr_t.host, its NUL included

VARIABLE file           \* the lines of the configuration file

(* The least and the greatest element of a set of numbers.                 *)
Lowest(S) == CHOOSE i \in S : \A j \in S : i <= j
Highest(S) == CHOOSE i \in S : \A j \in S : i >= j

Blank == " "
Semicolon == ";"

Digits == <<"0", "1", "2", "3", "4", "5", "6", "7", "8", "9">>

(* Where one of the chars stands.                                          *)
Places(s, chars) == {i \in 1..Len(s) : s[i] \in chars}

Digit(c) == \E d \in 1..10 : Digits[d] = c

ASSUME ConfigAssumption == INI_MAX_LINE \in Nat /\ HOST_LEN \in Nat \ {0}

------------------------------------------------------------------------------
(* helpers/ini.c *)

Filled(s) == {i \in 1..Len(s) : s[i] # Blank}

ini_lskip(s) == IF Filled(s) = {} THEN <<>> ELSE SubSeq(s, Lowest(Filled(s)), Len(s))

ini_rstrip(s) == SubSeq(s, 1, Highest(Filled(s) \cup {0}))

(* The first of the chars or, if it comes earlier, the inline comment: a   *)
(* semicolon after white space.  Past the end if there is neither.         *)
ini_find_chars_or_comment(s, chars) ==
    Lowest({i \in 1..Len(s) : s[i] \in chars \/ (i > 1 /\ s[i - 1] = Blank /\ s[i] = Semicolon)}
        \cup {Len(s) + 1})

Before(s, i) == SubSeq(s, 1, i - 1)
After(s, i) == SubSeq(s, i + 1, Len(s))

Uncommented(s) == Before(s, ini_find_chars_or_comment(s, {}))

(* The two sides of name[=:]value; the name of a line without either sign  *)
(* is not used.                                                            *)
SignAt(s) == ini_find_chars_or_comment(s, {"=", ":"})
HasSign(s) == SignAt(s) <= Len(s) /\ s[SignAt(s)] \in {"=", ":"}
NameOf(s) == ini_rstrip(Before(s, SignAt(s)))
ValueOf(s) == ini_rstrip(ini_lskip(Uncommented(After(s, SignAt(s)))))

(* Seeded fault: of a line that is too long only the end is kept.          *)
BufferLast(line) == SubSeq(line, Highest({1, Len(line) - INI_MAX_LINE + 2}), Len(line))

(* What fgets leaves in the line buffer, and whether the newline is not    *)
(* part of it: the rest of the line is then thrown away.                   *)
Buffer(line) == SubSeq(line, 1, Lowest({Len(line), INI_MAX_LINE - 1}))

TooLong(line) == Len(line) >= INI_MAX_LINE - 1

------------------------------------------------------------------------------
(* core/args.c: the handler *)

(* A sign, if there is one, and the digits up to the first lexeme that is  *)
(* none, from left to right.  Numbers fit an int.                          *)
atoi(s) ==
    LET signed == s # <<>> /\ s[1] \in {"+", "-"}
        t == IF signed THEN Tail(s) ELSE s
        n == Lowest({i \in 1..Len(t) : ~Digit(t[i])} \cup {Len(t) + 1}) - 1
        number[i \in 0..n] ==
            IF i = 0 THEN 0 ELSE 10 * number[i - 1] + (CHOOSE d \in 1..10 : Digits[d] = t[i]) - 1
    IN  IF signed /\ s[1] = "-" THEN -number[n] ELSE number[n]

(* strtok: where the words of a value start, and the word that starts at i. *)
Starts(s) == {i \in Filled(s) : i = 1 \/ s[i - 1] = Blank}

WordAt(s, i) == SubSeq(s, i, Lowest({j \in i..Len(s) : s[j] = Blank} \cup {Len(s) + 1}) - 1)

(* A seed is what stands before the colon, as far as it fits, and the      *)
(* number after it.                                                        *)
Seed(word) ==
    LET colon == Lowest(Places(word, {":"}))
        host == Before(word, colon)
    IN  [host |-> SubSeq(host, 1, Lowest({Len(host), HOST_LEN - 1})),
         port |-> atoi(After(word, colon))]

IsSeed(word) == Places(word, {":"}) # {}

SeedsAt(value) == {i \in Starts(value) : IsSeed(WordAt(value, i))}

(* The n-th word that is a seed, from left to right.                       *)
Rank(S, i) == Cardinality({j \in S : j <= i})

NthSeed(value, n) ==
    Seed(WordAt(value, CHOOSE i \in SeedsAt(value) : Rank(SeedsAt(value), i) = n))

(* How many seeds the block that replaces cfg->seed_nodes has room for.    *)
Allocated(value) == 1 + Cardinality(Places(value, {Blank}))

seed_nodes(value) ==
    [n \in 1..Lowest({Cardinality(SeedsAt(value)), Allocated(value)}) |-> NthSeed(value, n)]

Known(section, name) == section = <<"SERVER">> /\ name \in {<<"PORT">>, <<"SEEDS">>}

(* Seeded fault: cfg->seed_nodes_count is not reset.                       *)
CountKept(cfg, name, value) ==
    IF name = <<"PORT">> THEN [cfg EXCEPT !.port = atoi(value)]
                         ELSE [cfg EXCEPT !.seed_nodes = @ \o seed_nodes(value)]

handler(cfg, name, value) ==
    IF name = <<"PORT">> THEN [cfg EXCEPT !.port = atoi(value)]
                         ELSE [cfg EXCEPT !.seed_nodes = seed_nodes(value)]

------------------------------------------------------------------------------
(* ini_parse_stream: p is the state of the parser before a line, with      *)
(* error the number of the first line in error, 0 if there was none.       *)

Fail(p) == [p EXCEPT !.error = IF @ = 0 THEN p.lineno ELSE @]

CallHandler(p, name, value) ==
    IF Known(p.section, name) THEN [p EXCEPT !.cfg = handler(@, name, value)]
                              ELSE Fail(p)

(* Seeded fault: a section that is not closed ends the one before it.      *)
SectionAnyway(p, text) ==
    LET end == ini_find_chars_or_comment(Tail(text), {"]"})
    IN  [p EXCEPT !.section = Before(Tail(text), end), !.prev_name = <<>>]

Section(p, text) ==
    LET end == ini_find_chars_or_comment(Tail(text), {"]"})
    IN  IF end <= Len(Tail(text)) /\ Tail(text)[end] = "]"
        THEN [p EXCEPT !.section = Before(Tail(text), end), !.prev_name = <<>>]
        ELSE Fail(p)

Pair(p, text) ==
    IF HasSign(text)
    THEN CallHandler([p EXCEPT !.prev_name = NameOf(text)], NameOf(text), ValueOf(text))
    ELSE Fail(p)

(* Seeded fault: the line continues whatever section it stands in, under   *)
(* the name that starts it.                                                *)
ContinueAsPair(p, text) == Pair(p, text)

Continue(p, text) == CallHandler(p, p.prev_name, ini_rstrip(Uncommented(text)))

(* What is parsed of line n: a byte order mark is not part of the first.   *)
Text(n, buffer) ==
    ini_rstrip(ini_lskip(IF n = 1 /\ buffer # <<>> /\ buffer[1] = "BOM" THEN Tail(buffer)
                                                                       ELSE buffer))

Indented(line) == line # <<>> /\ line[1] = Blank

ParseText(p, indented, text) ==
    IF text = <<>> \/ text[1] \in {Semicolon, "#"} THEN p
    ELSE IF p.prev_name # <<>> /\ indented THEN Continue(p, text)
    ELSE IF text[1] = "[" THEN Section(p, text)
    ELSE Pair(p, text)

ParseLine(previous, line) ==
    LET numbered == [previous EXCEPT !.lineno = @ + 1]
        p == IF TooLong(line) THEN Fail(numbered) ELSE numbered
    IN  ParseText(p, Indented(Buffer(line)), Text(p.lineno, Buffer(line)))

Defaults == [port |-> 1998, seed_nodes |-> <<>>]

(* The state of the parser after each line.                                *)
Parser(lines) ==
    LET after[n \in 0..Len(lines)] ==
            IF n = 0
            THEN [section |-> <<>>, prev_name |-> <<>>, lineno |-> 0, error |-> 0,
                  cfg |-> Defaults]
            ELSE ParseLine(after[n - 1], lines[n])
    IN  after

ini_parse_stream(lines) == Parser(lines)[Len(lines)]

(* global_config once process_args returns: what the handler made of it,   *)
(* whatever ini_parse_file returned.                                       *)
process_args(lines) == ini_parse_stream(lines).cfg

------------------------------------------------------------------------------
(* Properties *)

Lines == 1..Len(file)
Stripped(line) == ini_rstrip(ini_lskip(line))
Comment(line) == Stripped(line) = <<>> \/ Stripped(line)[1] \in {Semicolon, "#"}

(* A bracket that is closed before an inline comment.                      *)
SectionText(text) ==
    /\ text # <<>> /\ text[1] = "["
    /\ \E k \in 2..Len(text) : /\ text[k] = "]"
                               /\ \A j \in 3..k : ~(text[j - 1] = Blank /\ text[j] = Semicolon)

ServerText(text) == Len(text) >= 3 /\ SubSeq(text, 1, 3) = <<"[", "SERVER", "]">>

(* Line n stands in the section that the code reads.                       *)
InServer(n) ==
    \E m \in 1..(n - 1) : /\ ServerText(Text(m, file[m]))
                          /\ \A k \in (m + 1)..(n - 1) : ~SectionText(Text(k, file[k]))

Sets(n, name) ==
    InServer(n) /\ HasSign(Text(n, file[n])) /\ NameOf(Text(n, file[n])) = name

(* In a file without continuations and overlong lines the last PORT and    *)
(* the last SEEDS of [SERVER] count, with every address that stands there  *)
(* (the count by which the handler allocates never cuts the list), and     *)
(* lines in error change nothing.                                          *)
LastSettingWins ==
    LET ports == {n \in Lines : Sets(n, <<"PORT">>)}
        seeds == {n \in Lines : Sets(n, <<"SEEDS">>)}
        value(n) == ValueOf(Text(n, file[n]))
        addresses(v) == [k \in 1..Cardinality(SeedsAt(v)) |-> NthSeed(v, k)]
    IN  (\A n \in Lines : ~Indented(file[n]) /\ ~TooLong(file[n])) =>
            /\ process_args(file).port =
                  IF ports = {} THEN 1998 ELSE atoi(value(Highest(ports)))
            /\ process_args(file).seed_nodes =
                  IF seeds = {} THEN <<>> ELSE addresses(value(Highest(seeds)))

(* ini.h: for a multi-line value the handler is called "with the same name *)
(* for each subsequent line parsed".  So an indented line replaces what    *)
(* the line before it has set: only the last line of such a list of seeds  *)
(* is left.                                                                *)
ContinuationRepeats ==
    \A n \in Lines :
        LET name == ini_parse_stream(Before(file, n)).prev_name
            repeated == name \o <<"=">> \o Stripped(file[n])
        IN  /\ name # <<>> /\ Indented(file[n]) /\ ~Comment(file[n])
            /\ ~TooLong(file[n]) /\ ~TooLong(repeated)
            => process_args(file) = process_args([file EXCEPT ![n] = repeated])

(* A comment, a section that is not closed or a line without a sign is     *)
(* skipped, wherever it stands: the rest of the file means what it means   *)
(* without that line.                                                      *)
SkippedLines ==
    \A n \in Lines \ {1} :
        LET line == file[n] IN
        /\ ~TooLong(line)
        /\ \/ Comment(line)
           \/ line[1] = "[" /\ ~SectionText(Stripped(line))
           \/ line[1] \notin {Blank, "["} /\ Places(line, {"=", ":"}) = {}
        => process_args(file) = process_args(Before(file, n) \o After(file, n))

(* A list of seeds that is longer than the line buffer loses its end, and  *)
(* the error is not reported: all seeds but the last are the ones of the   *)
(* file.  The last one may have a part of its port only.                   *)
OverlongKeepsFirst ==
    \A n \in Lines :
        LET line == file[n]
            whole == seed_nodes(ValueOf(line))
            seeds == process_args(SubSeq(file, 1, n)).seed_nodes
        IN  /\ ini_parse_stream(Before(file, n)).section = <<"SERVER">>
            /\ TooLong(line) /\ ~Indented(line)
            /\ HasSign(line) /\ SignAt(line) < INI_MAX_LINE /\ NameOf(line) = <<"SEEDS">>
            => /\ Len(seeds) <= Len(whole)
               /\ \A k \in 1..(Len(seeds) - 1) : seeds[k] = whole[k]

==============================================================================
