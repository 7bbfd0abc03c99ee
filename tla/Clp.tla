-------------------------------- MODULE Clp --------------------------------
(***************************************************************************)
(* The command line parser of every program of the repository (clp.c): one *)
(* call of Clp_Next per step.  Text is a sequence of characters.  The      *)
(* options are fixed; messages are left out, an error is the answer "bad". *)
(* Writer is the user: it says what it means and spells it.                *)
(***************************************************************************)
EXTENDS Integers, SequencesExt

CONSTANTS
  Opt,        \* Clp_Option: a sequence of records
              \*   [id, long, short, val, optional, negate]
  Word,       \* the texts the user gives as values and arguments
  Class,      \* Clp_OptionChar('-'): {"short"} or {"short", "long"}
  MaxArgs,    \* bound on the arguments
  MaxWords    \* bound on the options and arguments the user gives

VARIABLES
  args,       \* the command line as the user has spelled it so far
  meant,      \* what the user meant: the answers Clp_Next should give
  open,       \* may the user append another short option to the last argument?
  lmm,        \* Clp_InternOption's lmmpos and lmmneg, with and without short names
  clp,        \* the parser: Clp_Parser and Clp_Internal
  save,       \* Clp_Next's copy of it
  got,        \* the answers of Clp_Next
  phase       \* "spell", then where Clp_Next is: "next", "find", "short",
              \* "decide", "value", or "done"

vars == <<args, meant, open, lmm, clp, save, got, phase>>

-----------------------------------------------------------------------------
\* Clp_SetOptions: an option called no-x is x, negated only.
No == <<"n", "o", "-">>
Options == DOMAIN Opt
ilong(i) == Opt[i].long # <<>>
ishort(i) == Opt[i].short # ""
ipos(i) == ~IsPrefix(No, Opt[i].long)
ineg(i) == Opt[i].negate \/ ~ipos(i)
Name(i) == IF ipos(i) THEN Opt[i].long ELSE SubSeq(Opt[i].long, 4, Len(Opt[i].long))
takes(i) == Opt[i].val # "none"
imandatory(i) == takes(i) /\ ~Opt[i].optional
Allows(i, negated) == IF negated THEN ineg(i) ELSE ipos(i)

Take(s, k) == SubSeq(s, 1, IF k < Len(s) THEN k ELSE Len(s))
Drop(s, k) == SubSeq(s, k + 1, Len(s))

min_different_chars(s, t) ==
  LET n == Len(LongestCommonPrefix({s, t})) IN IF n = Len(s) THEN n ELSE n + 1

\* compare_options for i and every other option, in order: how many characters
\* of i's name are needed.
calculate_lmm(i, negated) ==
  LET Compare(need, j) ==
        IF /\ ilong(j) /\ Opt[i].id # Opt[j].id
           /\ Allows(i, negated) /\ Allows(j, negated)
           /\ Take(Name(i), need) = Take(Name(j), need)
        THEN min_different_chars(Name(i), Name(j)) ELSE need
  IN FoldLeft(Compare, 1, [j \in Options |-> j])

\* Is the first character of i's name another option's short name?
lmm_short(i, negated) ==
  \E j \in Options : /\ ishort(j) /\ Opt[i].id # Opt[j].id
                     /\ Allows(i, negated) /\ Allows(j, negated)
                     /\ Name(i)[1] = Opt[j].short

Lmm == [i \in {j \in Options : ilong(j)}, negated \in BOOLEAN, short \in BOOLEAN |->
          LET need == calculate_lmm(i, negated)
          IN IF short /\ lmm_short(i, negated) /\ 1 >= need THEN 2 ELSE need]

\* How much of ref and of arg matches, with a dash of ref left out where arg
\* has none if fewer_dashes.
RECURSIVE Match(_, _, _, _)
Match(ref, arg, fewer_dashes, m) ==
  LET r == Drop(ref, m[1])
      a == Drop(arg, m[2])
  IN IF r # <<>> /\ a # <<>> /\ a[1] # "=" /\ r[1] = a[1]
     THEN Match(ref, arg, fewer_dashes, <<m[1] + 1, m[2] + 1>>)
     ELSE IF fewer_dashes /\ Len(r) > 1 /\ a # <<>> /\ r[1] = "-" /\ r[2] = a[1]
     THEN Match(ref, arg, fewer_dashes, <<m[1] + 1, m[2]>>)
     ELSE m

argcmp(ref, arg, min_match, fewer_dashes) ==
  LET m == Match(ref, arg, fewer_dashes, <<0, 0>>)
  IN IF m[2] < Len(arg) /\ arg[m[2] + 1] # "=" THEN 0
     ELSE IF m[1] < min_match THEN -1
     ELSE m[2]

First(S) == CHOOSE i \in S : \A j \in S : i <= j

\* The option that arg names, or 0; a second try with fewer dashes if no name
\* so much as begins with arg.
find_prefix_opt(arg, negated, could_be_short) ==
  LET Candidates == {i \in Options : ilong(i) /\ Allows(i, negated)}
      Cmp(fewer) == [i \in Candidates |-> argcmp(Name(i), arg, lmm[i, negated, could_be_short], fewer)]
      Found(cmp) == {i \in Candidates : cmp[i] > 0}
      exact == Cmp(FALSE)
      found == IF Found(exact) = {} /\ \A i \in Candidates : exact[i] = 0 THEN Found(Cmp(TRUE)) ELSE Found(exact)
  IN IF found = {} THEN 0 ELSE First(found)

-----------------------------------------------------------------------------
\* p is the parser.  next_argument moves it on; want says that an argument is
\* looked for: 1 if it may not look like an option, 2 if any will do.
NotOption(p, text) == [p EXCEPT !.is_short = FALSE, !.have_val = TRUE, !.vstr = text,
                                !.found = FALSE]

Shifted(p, want) ==
  LET text == Head(p.argv)
      q == [p EXCEPT !.argv = Tail(p.argv), !.argv0 = text, !.whole_negated = FALSE, !.xtext = <<>>]
      doubled == Take(text, 2) = <<"-", "-">>
      class == IF text # <<>> /\ text[1] = "-" THEN Class ELSE {}
  IN IF want > 1 THEN NotOption(q, text)
     ELSE IF doubled THEN [q EXCEPT !.xtext = Drop(text, 2), !.found = TRUE]
     ELSE IF class = {} \/ Len(text) = 1
     THEN NotOption([q EXCEPT !.could_be_short = FALSE], text)
     ELSE [q EXCEPT !.xtext = Drop(text, 1), !.found = TRUE,
                    !.is_short = ("long" \notin class),
                    !.could_be_short = ("long" \in class)]

next_argument(p, want) ==
  LET cleared == [p EXCEPT !.have_val = FALSE, !.vstr = <<>>, !.could_be_short = FALSE]
      rest == Drop(p.xtext, 1)
      done == [cleared EXCEPT !.is_short = FALSE]
  IN IF p.is_short /\ rest # <<>>
     THEN IF want > 0
          THEN [cleared EXCEPT !.is_short = FALSE, !.have_val = TRUE, !.xtext = rest, !.found = FALSE,
                               !.vstr = IF rest[1] = "=" THEN Tail(rest) ELSE rest]
          ELSE [cleared EXCEPT !.xtext = rest, !.found = TRUE]
     ELSE IF p.argv = <<>>
     THEN [done EXCEPT !.whole_negated = FALSE, !.xtext = <<>>, !.found = FALSE]
     ELSE Shifted(done, want)

switch_to_short_argument(p) ==
  [p EXCEPT !.is_short = TRUE, !.whole_negated = FALSE, !.xtext = Drop(p.argv0, 1)]

\* find_long: arg, or what is left of it after one or several "no-".
RECURSIVE NoPrefixes(_)
NoPrefixes(arg) == IF IsPrefix(No, arg) THEN 1 + NoPrefixes(Drop(arg, 3)) ELSE 0

find_long(p, arg) ==
  LET n == NoPrefixes(arg)
      Text(k) == Drop(arg, 3 * k)
      Neg(k) == IF k % 2 = 0 THEN p.negated ELSE ~p.negated
      opt == [k \in 0..n |-> find_prefix_opt(Text(k), Neg(k), p.could_be_short)]
      hits == {k \in 0..n : opt[k] # 0}
      k == First(hits)
      len == argcmp(Name(opt[k]), Text(k), lmm[opt[k], Neg(k), p.could_be_short], TRUE)
      val == Drop(Text(k), len)
  IN IF hits = {} THEN [p EXCEPT !.option = 0, !.negated = Neg(n)]
     ELSE IF val # <<>>
     THEN [p EXCEPT !.option = opt[k], !.negated = Neg(k), !.have_val = TRUE, !.vstr = Tail(val)]
     ELSE [p EXCEPT !.option = opt[k], !.negated = Neg(k)]

find_short(p, c) ==
  LET hits == {i \in Options : Opt[i].short = c /\ (p.negated => ineg(i))}
  IN IF hits = {} THEN [p EXCEPT !.option = 0]
     ELSE [p EXCEPT !.option = First(hits), !.negated = (p.negated \/ ~ipos(First(hits)))]

\* parse_string takes anything, parse_int digits with a sign or without.
Digit == {"0", "1"}
parse_int(s) ==
  LET d == IF s # <<>> /\ s[1] = "-" THEN Tail(s) ELSE s
  IN d # <<>> /\ \A i \in DOMAIN d : d[i] \in Digit
Parses(i, s) == Opt[i].val = "int" => parse_int(s)

\* Clp_SaveParser and Clp_RestoreParser keep the place but not have_val, vstr,
\* negated and could_be_short.
Restore(p, s) ==
  [p EXCEPT !.argv = s.argv, !.argv0 = s.argv0, !.xtext = s.xtext,
            !.is_short = s.is_short, !.whole_negated = s.whole_negated,
            !.processing = s.processing]

Clp_NewParser(argv) ==
  [argv |-> argv, argv0 |-> <<>>, xtext |-> <<>>, is_short |-> FALSE, whole_negated |-> FALSE,
   could_be_short |-> FALSE, have_val |-> FALSE, vstr |-> <<>>, negated |-> FALSE,
   processing |-> TRUE, found |-> FALSE, option |-> 0, complain |-> FALSE]

Init == /\ args = <<>> /\ meant = <<>> /\ got = <<>> /\ open = FALSE
        /\ lmm = Lmm /\ clp = Clp_NewParser(<<>>) /\ save = clp /\ phase = "spell"

-----------------------------------------------------------------------------
\* Clp_Next, in steps.
Go(at, next, p) == phase = at /\ phase' = next /\ clp' = p /\ UNCHANGED <<args, meant, open, lmm, got>>
Answer(at, p, ret) ==
  phase = at /\ phase' = "next" /\ clp' = p /\ got' = Append(got, ret) /\ UNCHANGED <<args, meant, open, lmm>>
Means(i, neg, val) == [id |-> Opt[i].id, neg |-> neg, val |-> val]
Bad == [id |-> "bad", neg |-> FALSE, val |-> <<>>]
Argument(val) == [id |-> "arg", neg |-> FALSE, val |-> <<val>>]

NextArgument == Go("next", "find", next_argument(clp, IF clp.processing THEN 0 ELSE 2))

NotAnOption ==
  /\ ~clp.found
  /\ \/ clp.have_val /\ Answer("find", clp, Argument(clp.vstr))
     \/ ~clp.have_val /\ Go("find", "done", clp)

FindOption ==
  LET p == [clp EXCEPT !.negated = clp.whole_negated]
  IN /\ clp.found
     /\ \/ clp.is_short /\ Go("find", "decide", find_short(p, p.xtext[1]))
        \/ ~clp.is_short /\ Go("find", "short", find_long(p, p.xtext))

\* No long name, but with one dash it can be a short one.
FindShort ==
  LET p == switch_to_short_argument(clp)
  IN Go("short", "decide", IF clp.option = 0 /\ clp.could_be_short THEN find_short(p, p.xtext[1]) ELSE clp)

Unknown == clp.option = 0 \/ IF clp.option = 0 THEN TRUE ELSE clp.negated /\ ~ineg(clp.option)

\* "--" is no option: from there on all arguments are taken as they are.
EndOfOptions ==
  Unknown /\ clp.argv0 = <<"-", "-">> /\ Go("decide", "next", [clp EXCEPT !.processing = FALSE])

Unrecognized == Unknown /\ clp.argv0 # <<"-", "-">> /\ Answer("decide", clp, Bad)

NoArgument ==
  /\ phase = "decide" /\ ~Unknown
  /\ clp.negated \/ ~takes(clp.option)
  /\ Answer("decide", clp, IF clp.have_val THEN Bad ELSE Means(clp.option, clp.negated, <<>>))

\* The value is there, must be the next argument, or can be the rest of this one.
TakeArgument ==
  LET i == clp.option
      p == [clp EXCEPT !.complain = (clp.have_val \/ imandatory(i))]
      want == IF Opt[i].val = "notoption" THEN 1 ELSE 2
  IN /\ phase = "decide" /\ ~Unknown /\ ~clp.negated /\ takes(i)
     /\ save' = clp
     /\ Go("decide", "value", IF imandatory(i) /\ ~clp.have_val THEN next_argument(p, want)
                              ELSE IF clp.is_short /\ ~clp.have_val /\ Len(clp.xtext) > 1
                              THEN next_argument(p, 1)
                              ELSE p)

\* A bug to catch: an optional value that is not one is given up, but not its place.
GiveUp_NoRestore(p) == [p EXCEPT !.have_val = FALSE]

\* Restore keeps have_val, vstr and negated as they are.
GiveUp(p) == Restore([p EXCEPT !.have_val = FALSE], save)

ParseValue ==
  LET i == clp.option
  IN /\ phase = "value" /\ UNCHANGED save
     /\ \/ imandatory(i) /\ ~clp.have_val /\ Answer("value", Restore(clp, save), Bad)
        \/ ~imandatory(i) /\ ~clp.have_val /\ Answer("value", clp, Means(i, FALSE, <<>>))
        \/ clp.have_val /\ Parses(i, clp.vstr) /\ Answer("value", clp, Means(i, FALSE, <<clp.vstr>>))
        \/ clp.have_val /\ ~Parses(i, clp.vstr) /\ clp.complain
           /\ Answer("value", [clp EXCEPT !.have_val = FALSE], Bad)
        \/ clp.have_val /\ ~Parses(i, clp.vstr) /\ ~clp.complain
           /\ Answer("value", GiveUp(clp), Means(i, FALSE, <<>>))

Clp_Next ==
  \/ TakeArgument \/ ParseValue
  \/ UNCHANGED save /\ (NextArgument \/ NotAnOption \/ FindOption \/ FindShort
                        \/ EndOfOptions \/ Unrecognized \/ NoArgument)

-----------------------------------------------------------------------------
\* The user.  What follows "--" is no option.
Ended == <<"-", "-">> \in Range(args)
Add(more, word, o) ==
  /\ phase = "spell" /\ Len(meant) < MaxWords /\ Len(args) + Len(more) <= MaxArgs
  /\ args' = args \o more /\ meant' = Append(meant, word) /\ open' = o
  /\ UNCHANGED <<lmm, clp, got, phase>>
\* The beginnings of i's name that begin no other option's name, and the name.
Beginnings(i, neg) ==
  {q \in {Take(Name(i), k) : k \in 1..Len(Name(i))} :
     \/ q = Name(i)
     \/ \A j \in Options : ilong(j) /\ Opt[j].id # Opt[i].id /\ Allows(j, neg) => ~IsPrefix(q, Name(j))}

GoodFor(i) == {v \in Word : Parses(i, v) /\ (Opt[i].val = "notoption" => v[1] # "-")}

GiveLong(i, neg) == phase = "spell" /\ \E q \in Beginnings(i, neg), dash \in {<<"-", "-">>, <<"-">>} :
  LET text == dash \o (IF neg THEN No ELSE <<>>) \o q
  IN /\ ilong(i) /\ Allows(i, neg) /\ ~Ended
     /\ dash = <<"-">> => "long" \in Class /\ Len(q) > 1
     /\ \/ (neg \/ ~imandatory(i)) /\ Add(<<text>>, Means(i, neg, <<>>), FALSE)
        \/ ~neg /\ takes(i) /\ \E v \in GoodFor(i) :
             \/ Add(<<text \o <<"=">> \o v>>, Means(i, neg, <<v>>), FALSE)
             \/ imandatory(i) /\ Add(<<text, v>>, Means(i, neg, <<v>>), FALSE)
        \/ (neg \/ ~takes(i)) /\ \E v \in Word : Add(<<text \o <<"=">> \o v>>, Bad, FALSE)

\* A short option, in an argument of its own or behind others.  Where one dash
\* can begin a long name too, the argument must not look like one.
GiveShort(i) == phase = "spell" /\
  \E tail \in {<<>>} \cup {t \o v : t \in {<<>>, <<"=">>}, v \in GoodFor(i)}, alone \in BOOLEAN :
  LET text == (IF alone THEN <<"-">> ELSE Last(args)) \o <<Opt[i].short>> \o tail
      val == IF tail = <<>> THEN <<>> ELSE <<IF tail[1] = "=" THEN Tail(tail) ELSE tail>>
      Put(word, o) ==
        IF alone THEN Add(<<text>>, word, o)
        ELSE /\ open /\ phase = "spell" /\ Len(meant) < MaxWords
             /\ args' = Front(args) \o <<text>> /\ meant' = Append(meant, word) /\ open' = o
             /\ UNCHANGED <<lmm, clp, got, phase>>
  IN /\ ishort(i) /\ ~Ended /\ (~alone => open)
     /\ "long" \in Class => \A j \in Options : ilong(j) => Name(j)[1] # text[2]
     /\ \/ tail = <<>> /\ ~imandatory(i) /\ Put(Means(i, ~ipos(i), <<>>), TRUE)
        \/ tail # <<>> /\ takes(i) /\ Put(Means(i, ~ipos(i), val), FALSE)
        \/ tail = <<>> /\ imandatory(i) /\ alone /\ \E v \in GoodFor(i) :
             Add(<<text, v>>, Means(i, ~ipos(i), <<v>>), FALSE)

GiveArgument == phase = "spell" /\ \E v \in Word :
  (Ended \/ v[1] # "-") /\ Add(<<v>>, [id |-> "arg", neg |-> FALSE, val |-> <<v>>], FALSE)

GiveEnd == /\ phase = "spell" /\ ~Ended /\ Len(args) < MaxArgs
           /\ args' = Append(args, <<"-", "-">>) /\ open' = FALSE /\ UNCHANGED <<meant, lmm, clp, got, phase>>

\* A name cut short so that two options begin with it.
GiveAmbiguous == phase = "spell" /\ \E i, j \in Options :
  LET q == LongestCommonPrefix({Name(i), Name(j)})
  IN /\ ilong(i) /\ ilong(j) /\ ipos(i) /\ ipos(j) /\ Opt[i].id # Opt[j].id /\ q # <<>> /\ ~Ended
     /\ \A k \in Options : ilong(k) => Name(k) # q
     /\ Add(<<<<"-", "-">> \o q>>, Bad, FALSE)

\* A value of the wrong kind, and none where one is needed at the end.
GiveWrong(i) ==
  /\ phase = "spell" /\ takes(i) /\ ilong(i) /\ ~Ended
  /\ \/ \E v \in Word : ~Parses(i, v) /\ Add(<<<<"-", "-">> \o Name(i) \o <<"=">> \o v>>, Bad, FALSE)
     \/ /\ imandatory(i) /\ Len(meant) < MaxWords /\ Len(args) < MaxArgs
        /\ args' = Append(args, <<"-", "-">> \o Name(i)) /\ meant' = Append(meant, Bad)
        /\ clp' = Clp_NewParser(args') /\ phase' = "next" /\ UNCHANGED <<open, lmm, got>>

Parse == phase = "spell" /\ clp' = Clp_NewParser(args) /\ phase' = "next"
         /\ UNCHANGED <<args, meant, open, lmm, got>>

Spell ==
  \/ \E i \in Options : (\E neg \in BOOLEAN : GiveLong(i, neg)) \/ GiveShort(i) \/ GiveWrong(i)
  \/ GiveArgument \/ GiveEnd \/ GiveAmbiguous \/ Parse

Next == Clp_Next \/ (Spell /\ UNCHANGED save)

Spec == Init /\ [][Next]_vars

\* Clp_Next answers what the user meant, in order and nothing else, however it
\* was spelled: names cut short, values joined, after "=" or in the next
\* argument, short options in one argument, an optional value that is not one.
AnswersAreMeant == IsPrefix(got, meant) /\ (phase = "done" => got = meant)
=============================================================================
