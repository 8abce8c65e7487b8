---------------------------- MODULE CommandLine -----------------------------
(***************************************************************************)
(* The command line of dalua (opt_parser.hpp, with the handlers of         *)
(* dalua.cpp): words are read from the left, and an option that names a    *)
(* job runs it at once, with the options set so far.                       *)
(*                                                                         *)
(* A word is a sequence of characters; argv[i] of the code is argv[i + 1]. *)
(* The fails-th job fails (0: none does).  LOG_MASK is the set of what the *)
(* device is to show: the welcome of the REPL (bit 0) and logs (the rest). *)
(***************************************************************************)
EXTENDS Integers, Sequences, SequencesExt

LUA_OK == "OK"
LUA_ERROPT == "ERROPT"
LUA_ERRFATAL == "ERRFATAL"
LUA_ERRRUN == "ERRRUN"

option == [NO_RECONNECT |-> FALSE, LOG_MASK |-> {"welcome"}, interactive |-> TRUE, DEVICE_PATH |-> <<>>]
\* The parser: the word it is at, the options, the jobs that were run, and how it ended.
Parser == [optind |-> 0, option |-> option, jobs |-> <<>>, status |-> LUA_OK]
Failed(o, status) == [o EXCEPT !.status = status]

-----------------------------------------------------------------------------
(* The handlers *)

opt_f(o, flag) ==
  CASE flag = "-" -> [o EXCEPT !.option.interactive = TRUE]          \* key 0
    [] flag = "d" -> [o EXCEPT !.option.LOG_MASK = {"welcome", "logs"}]
    [] flag = "n" -> [o EXCEPT !.option.NO_RECONNECT = TRUE]
    [] flag = "h" -> Failed([o EXCEPT !.option.interactive = FALSE], LUA_ERRFATAL)

bareWord(o, arg) == IF o.optind = 1 THEN [o EXCEPT !.option.DEVICE_PATH = arg] ELSE Failed(o, LUA_ERROPT)

optarg_f(o, flag, arg, fails) ==
  LET set == [o.option EXCEPT !.interactive = FALSE, !.LOG_MASK = @ \ {"welcome"}]
      r == [o EXCEPT !.option = set, !.jobs = Append(@, [run |-> flag, arg |-> arg, option |-> set])]
  IN IF Len(r.jobs) = fails THEN Failed(r, LUA_ERRRUN) ELSE r

-----------------------------------------------------------------------------
(* The parser *)

\* The argument of an option was the word behind it.  (Mutant: it is read again as a word.)
atFlag(o) == o
pastArgument(o) == [o EXCEPT !.optind = @ + 1]

RECURSIVE parse_flags(_, _, _, _), parse_next(_, _, _)
parse_flags(o, argv, arg, fails) ==
  LET flag == Head(arg)
      attached == Tail(arg)
  IN CASE arg = <<>> \/ o.status # LUA_OK -> o
       [] arg # <<>> /\ o.status = LUA_OK /\ flag \in {"d", "n", "h"} -> parse_flags(opt_f(o, flag), argv, attached, fails)
       [] arg # <<>> /\ o.status = LUA_OK /\ flag \in {"e", "f"} ->
            IF attached # <<>> THEN optarg_f(o, flag, attached, fails)
            ELSE IF o.optind + 2 > Len(argv) THEN Failed(o, LUA_ERROPT)
            ELSE optarg_f(pastArgument(o), flag, argv[o.optind + 2], fails)
       [] OTHER -> Failed(o, LUA_ERROPT)

parse_next(p, argv, fails) ==
  LET o == [p EXCEPT !.optind = @ + 1]
      word == argv[o.optind + 1]
      r == IF word = <<>> \/ word[1] # "-" THEN bareWord(o, word)
           ELSE IF Len(word) > 1 THEN parse_flags(o, argv, Tail(word), fails)
           ELSE IF o.optind + 1 = Len(argv) THEN opt_f(o, "-") ELSE Failed(o, LUA_ERROPT)
  IN IF o.optind + 1 > Len(argv) THEN o ELSE IF r.status = LUA_OK THEN parse_next(r, argv, fails) ELSE r

parse(argv, fails) == parse_next(Parser, argv, fails)

\* main: what the program does once the words are read.
RunsRepl(o) == o.status = LUA_OK /\ o.option.interactive

-----------------------------------------------------------------------------
(* A command line as a user thinks of it: a sequence of items.  glued puts *)
(* an item into the word of the one before it, attached its argument into  *)
(* its own word; none is an argument that was forgotten.                   *)

Flag(c) == {[opt |-> c, arg |-> <<>>, glued |-> g, attached |-> FALSE] : g \in BOOLEAN}
Job(c, arg) == {[opt |-> c, arg |-> arg, glued |-> g, attached |-> a] : g \in BOOLEAN, a \in IF arg = <<>> THEN {FALSE} ELSE BOOLEAN}
Item == UNION {Flag("d"), Flag("n"), Flag("h"), Flag("x"), Job("e", <<"s">>), Job("e", <<"-", "d">>), Job("f", <<"-">>), Job("f", <<>>)}
        \cup {[opt |-> c, arg |-> IF c = "bare" THEN <<"s">> ELSE <<>>, glued |-> FALSE, attached |-> FALSE] : c \in {"-", "bare", "none"}}
ItemsFrom(a) ==
  {s \in UNION {[1 .. n -> Item] : n \in 1 .. 3} :
     /\ s[1] = a /\ ~a.glued
     /\ \A k \in DOMAIN s : /\ s[k].glued => s[k - 1].opt \in {"d", "n", "h", "x"}
                            /\ s[k].opt = "none" => k = Len(s)}

IsJob(i) == i.opt \in {"e", "f", "none"}
\* The words of an item: whether the first one is a new word, and the words.
Spelled(i) ==
  LET dash == IF i.glued THEN <<>> ELSE <<"-">> IN
  CASE i.opt = "bare" -> <<i.arg>>
    [] i.opt = "-"    -> <<<<"-">>>>
    [] i.opt = "none" -> <<<<"-", "e">>>>
    [] i.opt \in {"e", "f"} -> IF i.attached THEN <<dash \o <<i.opt>> \o i.arg>> ELSE <<dash \o <<i.opt>>, i.arg>>
    [] OTHER -> <<dash \o <<i.opt>>>>
Add(words, i) ==
  LET w == Spelled(i) IN
  IF i.glued THEN Front(words) \o <<Last(words) \o w[1]>> \o Tail(w) ELSE words \o w
Argv(items) == FoldLeft(Add, <<<<"dalua">>>>, items)

\* The items are followed up to the first that is wrong or asks to stop; the jobs before it run in
\* their order, each with what the items to its left have set; the message about a wrong item names
\* its word; the REPL runs if all is well and there was no job, or a "-" at the end.
ParsedRight(items, fails) ==
  LET o == parse(Argv(items), fails)
      n == Len(items)
      jobs(k) == SelectSeq(SubSeq(items, 1, k), IsJob)
      wrong(k) == \/ items[k].opt \in {"x", "none"}
                  \/ items[k].opt = "bare" /\ k > 1
                  \/ items[k].opt = "-" /\ k < n
      fail(k) == IsJob(items[k]) /\ Len(jobs(k)) = fails
      stops(k) == wrong(k) \/ fail(k) \/ items[k].opt = "h"
      end == CHOOSE k \in 1 .. n + 1 : (k = n + 1 \/ stops(k)) /\ \A j \in 1 .. k - 1 : ~stops(j)
      ran == {k \in 1 .. n : IsJob(items[k]) /\ (k < end \/ (k = end /\ ~wrong(k)))}
      before(k, c) == \E j \in 1 .. k - 1 : items[j].opt = c
      ends == CASE end = n + 1 -> LUA_OK
                [] end <= n /\ wrong(end) -> LUA_ERROPT
                [] end <= n /\ ~wrong(end) /\ fail(end) -> LUA_ERRRUN
                [] OTHER -> LUA_ERRFATAL
  IN /\ o.status = ends
     /\ Len(o.jobs) = Len(SetToSeq(ran))
     /\ \A k \in ran :
          LET job == o.jobs[Len(jobs(k))] IN
          /\ job.run = items[k].opt /\ job.arg = items[k].arg
          /\ job.option.NO_RECONNECT = before(k, "n")
          /\ job.option.LOG_MASK = IF before(k, "d") THEN {"logs"} ELSE {}
          /\ job.option.DEVICE_PATH = IF items[1].opt = "bare" THEN items[1].arg ELSE <<>>
     /\ ends = LUA_ERROPT => o.optind + 1 = Len(Argv(SubSeq(items, 1, end)))
     /\ RunsRepl(o) = (ends = LUA_OK /\ (ran = {} \/ items[n].opt = "-"))
=============================================================================
