------------------------------- MODULE Tools -------------------------------
(***************************************************************************)
(* What the command line tools do with their arguments                     *)
(* (tools/th-test/main.go, tools/th-keygen/main.go): docopt reads the      *)
(* command line, then main lists the tests, runs one, or makes keys.       *)
(*                                                                         *)
(* The parser (docopt-go, vendored) makes a tree of patterns of the usage  *)
(* section and a list of leaves of the command line, and matches the tree  *)
(* with the list.  A token is a record with the kind of text it is; a long *)
(* name is a sequence of syllables, so that one can be a prefix of         *)
(* another.  The usages of the tools name their options: [options] is left *)
(* out.                                                                    *)
(***************************************************************************)
EXTENDS Naturals, Sequences, SequencesExt

CONSTANTS
  None,
  Tokens,   \* what command lines are made of
  MaxArgs,  \* bound: tokens on a command line
  tests     \* th-test: the registered tests, with the roles they have

-----------------------------------------------------------------------------
(* docopt                                                                  *)

\* Tokens of a usage and of a command line.
Sym(s) == [sym |-> s]
Long(name, val) == [long |-> name, val |-> val]      \* --name or --name=val
Shorts(letters) == [shorts |-> letters]              \* -abc
Arg(name) == [arg |-> name]                          \* <name>
Word(w) == [word |-> w]

Is(tok, kind) == kind \in DOMAIN tok

\* Values: nil, a boolean, the text of a token; of an element that repeats, the number
\* of times or the list of texts.
Bool(b) == [bool |-> b]
Text(tok) == [text |-> tok]
Count(n) == [count |-> n]
Texts(toks) == [texts |-> toks]

Branch(kind, children) == [is |-> kind, children |-> children]
newArgument(name, value) == [is |-> "argument", name |-> [arg |-> name], value |-> value]
newCommand(name, value) == [is |-> "command", name |-> [word |-> name], value |-> value]

newOption(short, long, argcount, value) ==
  [is |-> "option", short |-> short, long |-> long, argcount |-> argcount,
   name |-> IF long # <<>> THEN [long |-> long] ELSE [short |-> short],
   value |-> IF value = Bool(FALSE) /\ argcount > 0 THEN None ELSE value]

-----------------------------------------------------------------------------
(* Reading: s has the tokens that are left and the options known so far; a *)
(* result adds the patterns read, and whether there was an error.          *)

At(s, sym) == s.toks # <<>> /\ Head(s.toks) = Sym(sym)
Move(s) == [s EXCEPT !.toks = Tail(@)]
Result(s, pl) == [toks |-> s.toks, options |-> s.options, pl |-> pl, err |-> FALSE]
Error(s) == [Result(s, <<>>) EXCEPT !.err = TRUE]

\* An error ends the reading, else it goes on with the result.
Then(r, Rest(_)) == IF r.err THEN r ELSE Rest(r)

\* A description in the options section: its short and long name, whether it takes an
\* argument, and the default of that.
parseOption(d) ==
  newOption(d.short, d.long, IF d.takes THEN 1 ELSE 0,
            IF ~d.takes THEN Bool(FALSE) ELSE d.default)

\* An option's argument is the next token, unless there is none or it is "--".
MissesArgument(s) == (s.toks = <<>>) \/ At(s, "--")

parseLong(s0, user) ==
  LET tok == Head(s0.toks)
      s == Move(s0)
      exact == SelectSeq(s.options, LAMBDA o : o.long = tok.long)
      similar == IF user /\ exact = <<>>
                 THEN SelectSeq(s.options, LAMBDA o : IsPrefix(tok.long, o.long)) ELSE exact
      opt == similar[1]
      argcount == IF tok.val = None THEN 0 ELSE 1
      new == newOption("", tok.long, argcount, Bool(FALSE))
      moves == opt.argcount > 0 /\ tok.val = None
      value == IF tok.val # None THEN Text(tok.val)
               ELSE IF moves THEN Text(Head(s.toks)) ELSE Bool(TRUE)
  IN IF Len(similar) > 1 THEN Error(s)
     ELSE IF similar = <<>>
       THEN Result([s EXCEPT !.options = Append(@, new)],
              <<IF ~user THEN new
                ELSE [new EXCEPT !.value =
                        IF argcount > 0 THEN Text(tok.val) ELSE Bool(TRUE)]>>)
     ELSE IF (opt.argcount = 0 /\ tok.val # None) \/ (moves /\ MissesArgument(s)) THEN Error(s)
     ELSE Result(IF moves THEN Move(s) ELSE s,
                 <<IF user THEN [opt EXCEPT !.value = value] ELSE opt>>)

\* The letters of one token: one that takes an argument takes the rest of the token.
RECURSIVE Letters(_, _, _, _)
Letters(left, s, parsed, user) ==
  IF left = <<>> THEN Result(s, parsed)
  ELSE LET short == Head(left)
           rest == Tail(left)
           similar == SelectSeq(s.options, LAMBDA o : o.short = short)
           new == newOption(short, <<>>, 0, Bool(FALSE))
           opt == newOption(short, similar[1].long, similar[1].argcount, similar[1].value)
           takes == opt.argcount > 0
           value == IF ~takes THEN Bool(TRUE)
                    ELSE IF rest = <<>> THEN Text(Head(s.toks)) ELSE Text(Shorts(rest))
       IN IF Len(similar) > 1 THEN Error(s)
          ELSE IF similar = <<>>
            THEN Letters(rest, [s EXCEPT !.options = Append(@, new)],
                   Append(parsed, IF user THEN [new EXCEPT !.value = Bool(TRUE)] ELSE new), user)
          ELSE IF takes /\ rest = <<>> /\ MissesArgument(s) THEN Error(s)
          ELSE Letters(IF takes THEN <<>> ELSE rest,
                       IF takes /\ rest = <<>> THEN Move(s) ELSE s,
                       Append(parsed, IF user THEN [opt EXCEPT !.value = value] ELSE opt), user)

parseShorts(s, user) == Letters(Head(s.toks).shorts, Move(s), <<>>, user)

RECURSIVE parseExpr(_), Alternatives(_, _), parseSeq(_, _), parseAtom(_)

\* atom ::= '(' expr ')' | '[' expr ']' | 'options' | long | shorts | argument | command
parseAtom(s) ==
  LET tok == Head(s.toks)
      Group(kind, closing) ==
        Then(parseExpr(Move(s)), LAMBDA inner :
          IF At(inner, closing) THEN Result(Move(inner), <<Branch(kind, inner.pl)>>)
          ELSE Error(s))
  IN IF tok = Sym("(") THEN Group("required", ")")
     ELSE IF tok = Sym("[") THEN Group("optional", "]")
     ELSE IF Is(tok, "long") THEN parseLong(s, FALSE)
     ELSE IF Is(tok, "shorts") THEN parseShorts(s, FALSE)
     ELSE IF Is(tok, "arg") THEN Result(Move(s), <<newArgument(tok.arg, None)>>)
     ELSE Result(Move(s), <<newCommand(tok.word, Bool(FALSE))>>)

\* seq ::= ( atom [ '...' ] )*
parseSeq(s, pl) ==
  IF s.toks = <<>> \/ (\E c \in {"]", ")", "|"} : At(s, c)) THEN Result(s, pl)
  ELSE Then(parseAtom(s), LAMBDA atom :
         IF At(atom, "...") THEN parseSeq(Move(atom), Append(pl, Branch("oneOrMore", atom.pl)))
         ELSE parseSeq(atom, pl \o atom.pl))

\* One of several alternatives that is not a single pattern is wrapped.
Wrapped(pl) == IF Len(pl) > 1 THEN <<Branch("required", pl)>> ELSE pl

Alternatives(s, pl) ==
  IF ~At(s, "|") THEN Result(s, IF Len(pl) > 1 THEN <<Branch("either", pl)>> ELSE pl)
  ELSE Then(parseSeq(Move(s), <<>>), LAMBDA seq : Alternatives(seq, pl \o Wrapped(seq.pl)))

\* expr ::= seq ( '|' seq )*
parseExpr(s) ==
  Then(parseSeq(s, <<>>), LAMBDA seq :
    IF At(seq, "|") THEN Alternatives(seq, Wrapped(seq.pl)) ELSE seq)

\* The program's name separates the alternatives of a usage.
formalUsage(fields) ==
  <<Sym("(")>>
    \o FlattenSeq([i \in 1..Len(fields) - 1 |->
         IF fields[i + 1] = fields[1] THEN <<Sym(")"), Sym("|"), Sym("(")>>
         ELSE <<fields[i + 1]>>])
    \o <<Sym(")")>>

parsePattern(fields, options) ==
  Then(parseExpr([toks |-> formalUsage(fields), options |-> options]), LAMBDA r :
    IF r.toks # <<>> THEN Error(r) ELSE [r EXCEPT !.pl = <<Branch("required", @)>>])

\* argv ::= [ long | shorts | argument ]* [ '--' [ argument ]* ], "--" being an argument.
RECURSIVE parseArgv(_, _)
parseArgv(s, parsed) ==
  IF s.toks = <<>> THEN Result(s, parsed)
  ELSE IF At(s, "--")
    THEN Result(s, parsed \o [i \in DOMAIN s.toks |-> newArgument("", Text(s.toks[i]))])
  ELSE LET tok == Head(s.toks)
       IN IF Is(tok, "long") \/ Is(tok, "shorts")
          THEN Then(IF Is(tok, "long") THEN parseLong(s, TRUE) ELSE parseShorts(s, TRUE),
                    LAMBDA opt : parseArgv(opt, parsed \o opt.pl))
          ELSE parseArgv(Move(s), Append(parsed, newArgument("", Text(tok))))

-----------------------------------------------------------------------------
(* Elements that repeat.                                                   *)

IsLeaf(p) == p.is \in {"argument", "command", "option"}

\* The lists of leaves that a list of patterns stands for, one for each choice of the
\* alternatives; what may be there more than once is there twice.
RECURSIVE transform(_)
transform(group) ==
  LET branches == {i \in DOMAIN group : ~IsLeaf(group[i])}
      first == CHOOSE i \in branches : \A j \in branches : i <= j
      children == group[first].children
      others == RemoveAt(group, first)
  IN IF branches = {} THEN {group}
     ELSE CASE group[first].is = "either" ->
                 UNION {transform(<<children[i]>> \o others) : i \in DOMAIN children}
            [] group[first].is = "oneOrMore" -> transform(children \o children \o others)
            [] OTHER -> transform(children \o others)

Repeated(p) ==
  UNION {{leaves[i] : i \in {k \in DOMAIN leaves : \E j \in DOMAIN leaves \ {k} :
            leaves[j] = leaves[k]}} : leaves \in transform(<<p>>)}

\* Equal leaves are one (fixIdentities): what becomes of one becomes of all.
RECURSIVE fixLeaves(_, _)
fixLeaves(p, repeated) ==
  LET takes == p.is = "argument" \/ (p.is = "option" /\ p.argcount > 0)
      value == IF ~takes THEN Count(0)
               ELSE IF p.value # None THEN Texts(<<p.value.text>>) ELSE Texts(<<>>)
  IN IF IsLeaf(p) THEN (IF p \in repeated THEN [p EXCEPT !.value = value] ELSE p)
     ELSE [p EXCEPT !.children = [i \in DOMAIN @ |-> fixLeaves(@[i], repeated)]]

fix(p) == fixLeaves(p, Repeated(p))

-----------------------------------------------------------------------------
(* Matching.                                                               *)

RECURSIVE flat(_)
flat(p) == IF IsLeaf(p) THEN <<p>>
           ELSE FlattenSeq([i \in DOMAIN p.children |-> flat(p.children[i])])

\* An argument matches the first positional one; a command too, if that is its word.
Candidates(p, left) ==
  IF p.is = "option" THEN {n \in DOMAIN left : left[n].name = p.name}
  ELSE {n \in DOMAIN left : left[n].is = "argument"}

singleMatch(p, left) ==
  LET ns == Candidates(p, left)
      n == CHOOSE m \in ns : \A k \in ns : m <= k
  IN IF ns = {} \/ (p.is = "command" /\ left[n].value # Text(Word(p.name.word))) THEN None ELSE n

Matched(p, pat) == CASE p.is = "argument" -> [p EXCEPT !.value = pat.value]
                     [] p.is = "command" -> [p EXCEPT !.value = Bool(TRUE)]
                     [] p.is = "option" -> pat

\* A leaf that repeats adds to what it has collected before (in place: alternatives that
\* collect one leaf would share it, which no usage of the tools has them do).
Collect(p, pat, collected) ==
  LET Of(v, kind) == v # None /\ kind \in DOMAIN v
      counts == Of(p.value, "count")
      new == IF counts THEN Count(1) ELSE Texts(<<pat.value.text>>)
      Sum(v) == IF counts THEN Count(v.count + 1) ELSE Texts(Append(v.texts, pat.value.text))
      same == {i \in DOMAIN collected : collected[i].name = p.name}
      first == CHOOSE i \in same : \A j \in same : i <= j
  IN IF ~counts /\ ~Of(p.value, "texts") THEN Append(collected, Matched(p, pat))
     ELSE IF same = {} THEN Append(collected, [Matched(p, pat) EXCEPT !.value = new])
     ELSE [collected EXCEPT ![first].value = Sum(@)]

RECURSIVE match(_, _, _), matchAll(_, _, _, _), matchMore(_, _)

\* As often as it matches and leaves less.
matchMore(child, r) ==
  LET next == match(child, r.left, r.collected)
  IN IF next.matched /\ next.left # r.left THEN matchMore(child, next) ELSE r

\* Every child in turn; with must, the first that does not match undoes them all.
matchAll(ps, left, collected, must) ==
  IF ps = <<>> THEN [matched |-> TRUE, left |-> left, collected |-> collected]
  ELSE LET r == match(Head(ps), left, collected)
       IN IF must /\ ~r.matched THEN r ELSE matchAll(Tail(ps), r.left, r.collected, must)

\* Mutant of Best: the first outcome.
BestIsFirst(outcomes) == outcomes[1]

\* The last of the outcomes that leave less than the first one, else the first.
Best(outcomes) ==
  LET less == {i \in DOMAIN outcomes : Len(outcomes[i].left) < Len(outcomes[1].left)}
  IN outcomes[IF less = {} THEN 1 ELSE CHOOSE i \in less : \A j \in less : j <= i]

match(p, left, collected) ==
  LET no == [matched |-> FALSE, left |-> left, collected |-> collected]
      all == matchAll(p.children, left, collected, TRUE)
      outcomes == SelectSeq([i \in DOMAIN p.children |-> match(p.children[i], left, collected)],
                            LAMBDA r : r.matched)
      n == singleMatch(p, left)
  IN CASE p.is = "required" -> IF all.matched THEN all ELSE no
       [] p.is = "optional" -> matchAll(p.children, left, collected, FALSE)
       [] p.is = "oneOrMore" ->
            LET once == match(p.children[1], left, collected)
            IN IF once.matched THEN matchMore(p.children[1], once) ELSE no
       [] p.is = "either" -> IF outcomes = <<>> THEN no ELSE Best(outcomes)
       [] OTHER -> IF n = None THEN no
                   ELSE [matched |-> TRUE, left |-> RemoveAt(left, n),
                         collected |-> Collect(p, left[n], collected)]

\* Help is looked for before the version, and both before anything is matched.
extras(options) ==
  LET On(long) == \E i \in DOMAIN options : /\ options[i].is = "option"
                                            /\ options[i].name = [long |-> long]
                                            /\ options[i].value = Bool(TRUE)
  IN IF On(<<"help">>) THEN "help" ELSE IF On(<<"ver", "sion">>) THEN "version" ELSE None

\* The outcome: args is the list of which a later element of a name replaces an earlier.
Outcome(pat, pl) ==
  LET tree == fix(pat.pl[1])
      r == match(tree, pl.pl, <<>>)
  IN CASE pat.err -> [ends |-> "language error"]
       [] ~pat.err /\ pl.err -> [ends |-> "user error"]
       [] ~pat.err /\ ~pl.err /\ extras(pl.pl) # None -> [ends |-> extras(pl.pl)]
       [] OTHER -> IF r.matched /\ r.left = <<>> THEN [args |-> flat(tree) \o r.collected]
                   ELSE [ends |-> "user error"]

parse(fields, descriptions, argv) ==
  LET options == [i \in DOMAIN descriptions |-> parseOption(descriptions[i])]
      Against(pat) == Outcome(pat, parseArgv([toks |-> argv, options |-> pat.options], <<>>))
  IN Against(parsePattern(fields, options))

dictionary(args, name) ==
  LET is == {i \in DOMAIN args : args[i].name = name}
  IN args[CHOOSE i \in is : \A j \in is : j <= i].value

-----------------------------------------------------------------------------
(* The tools                                                               *)

VARIABLES tool, argv, parsed, does

vars == <<tool, argv, parsed, does>>

\* The usage and options sections, of th-test and of th-keygen.
Help == [short |-> "h", long |-> <<"help">>, takes |-> FALSE, default |-> None]
Version == [short |-> "", long |-> <<"ver", "sion">>, takes |-> FALSE, default |-> None]
Output == [short |-> "o", long |-> <<"out", "put">>, takes |-> TRUE, default |-> Text(Word("-"))]

usage ==
  [test |->
     LET prog == Word("th-test")
     IN <<prog, Word("list"), prog, Arg("<test>"), Arg("<role>"),
          prog, Shorts(<<"h">>), Sym("|"), Long(<<"help">>, None),
          prog, Long(<<"ver", "sion">>, None)>>,
   keygen |->
     LET prog == Word("th-keygen")
     IN <<prog, Sym("["), Long(<<"out", "put">>, Arg("<file>")), Sym("]"),
          prog, Shorts(<<"h">>), Sym("|"), Long(<<"help">>, None),
          prog, Long(<<"ver", "sion">>, None)>>]

parseDefaults == [test |-> <<Help, Version>>, keygen |-> <<Output, Help, Version>>]

\* Parse ends the program after help, the version (exit 0) and errors of the user (1).
Parse ==
  /\ parsed = None
  /\ parsed' = parse(usage[tool], parseDefaults[tool], argv)
  /\ UNCHANGED <<tool, argv, does>>

Exit(code, says) == [exit |-> code, says |-> says]

\* A name that is no test's, or a role the test does not have, ends the program.
runTest(test, role) ==
  LET named == {t \in tests : Word(t.name) = test}
  IN IF named = {} THEN Exit(1, "unknown test")
     ELSE IF \E t \in named : role \in {Word(r) : r \in t.roles}
     THEN [runs |-> test, role |-> role] ELSE Exit(1, "unable to assume role")

main ==
  /\ parsed # None /\ does = None
  /\ does' =
       IF "ends" \in DOMAIN parsed THEN Exit(IF parsed.ends \in {"help", "version"} THEN 0 ELSE 1, parsed.ends)
       ELSE LET Get(name) == dictionary(parsed.args, name)
            IN CASE tool = "keygen" -> [output |-> Get([long |-> <<"out", "put">>])]
                 [] tool = "test" /\ Get([word |-> "list"]) = Bool(TRUE) -> [lists |-> "tests"]
                 [] OTHER -> runTest(Get([arg |-> "<test>"]).text, Get([arg |-> "<role>"]).text)
  /\ UNCHANGED <<tool, argv, parsed>>

Argvs == UNION {[1..k -> Tokens] : k \in 0..MaxArgs}

Init == tool \in {"test", "keygen"} /\ argv \in Argvs /\ parsed = None /\ does = None

Next == Parse \/ main

Spec == Init /\ [][Next]_vars

-----------------------------------------------------------------------------
(* The command lines a user means, written down from the usage sections.   *)

Options(names) == {<<Long(n, None)>> : n \in names}
Helps == Options({<<"help">>}) \cup {<<Shorts(<<"h">>)>>}
Versions == Options({<<"ver">>, <<"ver", "sion">>})
Words == {<<Word(w)>> : w \in {"list", "sanity", "worker"}}
Outputs ==
  LET values == Tokens \ {Sym("--")}
  IN {<<Long(n, v)>> : n \in {<<"out">>, <<"out", "put">>}, v \in {Word("list")}}
     \cup {<<Long(n, None), v>> : n \in {<<"out">>, <<"out", "put">>}, v \in values}
     \cup {<<Shorts(<<"o">>), v>> : v \in values} \cup {<<Shorts(<<"o", "h">>)>>}

\* The ways to cut the command line into items of the set, of one or two tokens each.
Items(all) ==
  LET End(ls, i) == FoldSeq(LAMBDA l, sum : l + sum, 0, SubSeq(ls, 1, i))
      Cut(ls) == [i \in DOMAIN ls |-> SubSeq(argv, End(ls, i - 1) + 1, End(ls, i))]
      lengths == {ls \in UNION {[1..k -> {1, 2}] : k \in 0..Len(argv)} :
                    End(ls, Len(ls)) = Len(argv)}
  IN {is \in {Cut(ls) : ls \in lengths} : ToSet(is) \subseteq all}

\* What the usage says.  Options are no words: th-test takes "list" or two words.
Documented ==
  LET is == CHOOSE s \in Items(Helps \cup Versions \cup Words
                                \cup (IF tool = "keygen" THEN Outputs ELSE {})) : TRUE
      Has(set) == \E i \in DOMAIN is : is[i] \in set
      outs == SelectSeq(is, LAMBDA i : i \in Outputs)
      value == IF Len(outs[1]) = 2 THEN outs[1][2]
               ELSE IF Is(outs[1][1], "long") THEN outs[1][1].val ELSE Shorts(<<"h">>)
  IN IF Has(Helps) THEN Exit(0, "help")
     ELSE IF Has(Versions) THEN Exit(0, "version")
     ELSE IF tool = "keygen"
     THEN IF Has(Words) \/ Len(outs) > 1 THEN Exit(1, "user error")
          ELSE [output |-> IF outs = <<>> THEN Text(Word("-")) ELSE Text(value)]
     ELSE IF argv = <<Word("list")>> THEN [lists |-> "tests"]
     ELSE IF Len(argv) = 2 THEN runTest(argv[1], argv[2]) ELSE Exit(1, "user error")

\* Every command line that is made of the usage's options and words is taken as the usage
\* sections of the tools say, with abbreviated names, values in their own or the next
\* token and a command that is also a word (docopt.go, parseArgv, match; main.go).
UsageIsFollowed ==
  does # None /\ Items(Helps \cup Versions \cup Words
                        \cup (IF tool = "keygen" THEN Outputs ELSE {})) # {}
    => does = Documented
=============================================================================
