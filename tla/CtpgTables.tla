----------------------------- MODULE CtpgTables -----------------------------
(***************************************************************************)
(* How ctpg turns a grammar into the table of a parser: analyze_rules and  *)
(* analyze_states.  A state is a set of situations <<rule, after, term>>:  *)
(* `after' symbols of the rule are read, and `term' may follow the whole.  *)
(* A queue holds the situations whose consequences are still to be drawn,  *)
(* FIRST sets are computed on demand and kept, and a state that already    *)
(* has a situation is used again for it, so that the states are neither    *)
(* those of an LR(1) nor those of an LALR(1) parser.                       *)
(*                                                                         *)
(* A grammar is a record of the terms and nonterminals in the order of     *)
(* their declaration (the root first), the rules, the precedence of terms  *)
(* that have one, and the terms that associate to the left.  States and    *)
(* rules are numbered from one.                                            *)
(***************************************************************************)
EXTENDS Naturals, SequencesExt

EofTerm == "<eof>"
ErrorTerm == "<error_recovery_token>"
FakeRoot == "##"

Terms(g) == g.terms \o <<EofTerm, ErrorTerm>>
NTerms(g) == Append(g.nterms, FakeRoot)
IsTerm(g, x) == x \in Range(Terms(g))

\* The index of a symbol, among the terms or among the nonterminals.
IndexOf(g, x) ==
  LET all == IF IsTerm(g, x) THEN Terms(g) ELSE NTerms(g)
  IN SelectInSeq(all, LAMBDA y : y = x)

RootRule(g) == Len(g.rules) + 1
MaxElements(g) == Max({1} \cup {Len(g.rules[i].r) : i \in DOMAIN g.rules})

\* analyze_rule: the rule with its number; the rule of the fake root is the last.
RuleInfo(g, i) ==
  IF i = RootRule(g) THEN [l |-> FakeRoot, r |-> <<g.nterms[1]>>, f |-> "root", idx |-> i]
  ELSE g.rules[i] @@ [idx |-> i]

\* sort, by the index of the left side; rules of one nonterminal keep their order.
SortRules(g, infos) ==
  FlattenSeq([n \in DOMAIN NTerms(g) |-> SelectSeq(infos, LAMBDA ri : ri.l = NTerms(g)[n])])

\* analyze_rules
RuleInfos(g) == SortRules(g, [i \in 1..RootRule(g) |-> RuleInfo(g, i)])

\* nterm_rule_slices: where the rules of a nonterminal are.
RulesOf(p, nt) == SelectSeq([i \in DOMAIN p.infos |-> i], LAMBDA i : p.infos[i].l = nt)

\* deduce_max_states
MaxStates(g) ==
  Len(Terms(g)) * (FoldLeft(LAMBDA n, rule : n + Len(rule.r) + 1, 0, g.rules) + 2)

-----------------------------------------------------------------------------

(***************************************************************************)
(* FIRST sets.  memo holds what has been computed: whether a nonterminal   *)
(* is empty, its FIRST set, and that of a right side from some symbol on.  *)
(* An entry is there from the moment its computation begins, so recursion  *)
(* reads what is known by then.                                            *)
(***************************************************************************)

NoMemo == [empty |-> << >>, first |-> << >>, slice |-> << >>]

RECURSIVE NtermEmpty(_, _, _)
RECURSIVE RightEmpty(_, _, _)
RECURSIVE NtermFirst(_, _, _)
RECURSIVE RightFirst(_, _, _, _)

\* is_right_side_slice_empty: every symbol of r derives the empty word.
RightEmpty(p, memo, r) ==
  IF r = << >> \/ IsTerm(p.grammar, Head(r))
    THEN [memo |-> memo, is |-> r = << >>]
    ELSE LET e == NtermEmpty(p, memo, Head(r))
         IN IF e.is THEN RightEmpty(p, e.memo, Tail(r)) ELSE e

\* make_nterm_empty
NtermEmpty(p, memo, nt) ==
  LET Try(e, i) == IF e.is THEN e ELSE RightEmpty(p, e.memo, p.infos[i].r)
      begun == [memo EXCEPT !.empty = (nt :> FALSE) @@ @]
      tried == FoldLeft(Try, [memo |-> begun, is |-> FALSE], RulesOf(p, nt))
  IN IF nt \in DOMAIN memo.empty
       THEN [memo |-> memo, is |-> memo.empty[nt]]
       ELSE [tried EXCEPT !.memo.empty[nt] = tried.is]

\* The loop of make_right_side_slice_first over the symbols r.
RightFirst(p, memo, slice, r) ==
  IF r = << >> THEN memo
  ELSE IF IsTerm(p.grammar, Head(r)) THEN [memo EXCEPT !.slice[slice] = @ \cup {Head(r)}]
  ELSE LET f == NtermFirst(p, memo, Head(r))
           e == NtermEmpty(p, [f EXCEPT !.slice[slice] = @ \cup f.first[Head(r)]], Head(r))
       IN IF e.is THEN RightFirst(p, e.memo, slice, Tail(r)) ELSE e.memo

\* The key of a slice.  The slice behind the longest rule has the key of the
\* whole rule after it.
SliceIdx(p, i, start) == MaxElements(p.grammar) * p.infos[i].idx + start

\* make_right_side_slice_first
SliceFirst(p, memo, i, start) ==
  LET slice == SliceIdx(p, i, start)
      r == p.infos[i].r
  IN IF slice \in DOMAIN memo.slice THEN memo
     ELSE RightFirst(p, [memo EXCEPT !.slice = (slice :> {}) @@ @], slice,
                     SubSeq(r, start + 1, Len(r)))

\* The slip of leaving the loop over the rules once there is a first term.
NtermFirstOfOne(p, memo, nt) ==
  LET AddRule(m, i) ==
        LET s == SliceFirst(p, m, i, 0)
        IN IF m.first[nt] # {} THEN m ELSE [s EXCEPT !.first[nt] = @ \cup s.slice[SliceIdx(p, i, 0)]]
  IN IF nt \in DOMAIN memo.first THEN memo
     ELSE FoldLeft(AddRule, [memo EXCEPT !.first = (nt :> {}) @@ @], RulesOf(p, nt))

\* make_nterm_first
NtermFirst(p, memo, nt) ==
  LET AddRule(m, i) ==
        LET s == SliceFirst(p, m, i, 0)
        IN [s EXCEPT !.first[nt] = @ \cup s.slice[SliceIdx(p, i, 0)]]
  IN IF nt \in DOMAIN memo.first THEN memo
     ELSE FoldLeft(AddRule, [memo EXCEPT !.first = (nt :> {}) @@ @], RulesOf(p, nt))

\* The slip of a term behind the whole rule that always counts.
FirstAfterAlways(p, sit) ==
  LET f == SliceFirst(p, p.memo, sit[1], sit[2] + 1)
  IN [memo |-> f, terms |-> f.slice[SliceIdx(p, sit[1], sit[2] + 1)] \cup {sit[3]}]

\* make_situation_first_after: what may follow the nonterminal of a situation.
FirstAfter(p, sit) ==
  LET r == p.infos[sit[1]].r
      f == SliceFirst(p, p.memo, sit[1], sit[2] + 1)
      e == RightEmpty(p, f, SubSeq(r, sit[2] + 2, Len(r)))
  IN [memo |-> e.memo,
      terms |-> f.slice[SliceIdx(p, sit[1], sit[2] + 1)] \cup (IF e.is THEN {sit[3]} ELSE {})]

-----------------------------------------------------------------------------

(***************************************************************************)
(* States and table                                                        *)
(***************************************************************************)

\* add_situation_to_state, for one situation after the other.
AddSituations(p, s, new) ==
  LET fresh == SelectSeq(new, LAMBDA sit : sit \notin p.states[s])
  IN [p EXCEPT !.states[s] = @ \cup Range(new),
               !.queue = @ \o [i \in DOMAIN fresh |-> <<s, fresh[i]>>]]

\* Every rule with every term, no two alike.
Beginnings(rules, terms) ==
  FlattenSeq([n \in DOMAIN rules |-> [m \in DOMAIN terms |-> <<rules[n], 0, terms[m]>>]])

\* The closure of a situation is kept and added to its state.
Keep(p, s, sit, new) == AddSituations([p EXCEPT !.closures = (sit :> new) @@ @], s, new)

\* The rules of nonterminal nt may begin, before each term that may follow it.
Open(p, s, sit, nt, after) ==
  Keep([p EXCEPT !.memo = after.memo], s, sit,
       Beginnings(RulesOf(p, nt), SelectSeq(Terms(p.grammar), LAMBDA t : t \in after.terms)))

\* situation_closure
Closure(p, s, sit) ==
  LET r == p.infos[sit[1]].r
  IN IF sit \in DOMAIN p.closures THEN AddSituations(p, s, p.closures[sit])
     ELSE IF sit[2] >= Len(r) \/ IsTerm(p.grammar, r[sit[2] + 1]) THEN Keep(p, s, sit, << >>)
     ELSE Open(p, s, sit, r[sit[2] + 1], FirstAfter(p, sit))

NoEntry == [kind |-> "error", shift |-> 0, reduce |-> 0]

\* The entry of the table for state s and symbol x.
Entry(p, s, x) == IF <<s, x>> \in DOMAIN p.table THEN p.table[<<s, x>>] ELSE NoEntry

\* term_precedences: a term has none unless it is given one.
Precedence(g, t) == IF t \in DOMAIN g.precedence THEN g.precedence[t] ELSE 0

\* calculate_rule_last_term
LastTerm(g, r) ==
  LET terms == SelectSeq(r, LAMBDA x : IsTerm(g, x)) IN IF terms = << >> THEN "none" ELSE Last(terms)

\* calculate_rule_precedence: that of the last term, since no rule states one.
RulePrecedence(g, r) == Precedence(g, LastTerm(g, r))

\* calculate_rule_associativity
LeftToRight(g, r) == LastTerm(g, r) \in g.ltor

\* solve_conflict of a reduction by rule i with a shift of term t.
SolveConflict(p, i, t) ==
  LET r == p.infos[i].r
      rule == RulePrecedence(p.grammar, r)
      term == Precedence(p.grammar, t)
  IN IF rule > term \/ (rule = term /\ LeftToRight(p.grammar, r)) THEN "reduce" ELSE "shift"

\* situation_transition of a situation at the end of its rule.
Reduction(p, s, sit) ==
  LET e == Entry(p, s, sit[3])
      kind == CASE p.infos[sit[1]].idx = RootRule(p.grammar) -> "success"
                [] e.shift # 0 -> SolveConflict(p, sit[1], sit[3])
                [] e.reduce # 0 -> "rr_conflict"
                [] OTHER -> "reduce"
  IN [p EXCEPT !.table = (<<s, sit[3]>> :> [e EXCEPT !.kind = kind, !.reduce = sit[1]]) @@ @]

\* The state that a symbol leads to: the first one that has the situation, or a
\* new one.
Target(p, sit) ==
  LET n == SelectInSeq(p.states, LAMBDA state : sit \in state)
  IN IF n = 0 THEN Len(p.states) + 1 ELSE n

\* situation_transition of any other situation: symbol x is read.
Reading(p, s, sit) ==
  LET x == p.infos[sit[1]].r[sit[2] + 1]
      read == <<sit[1], sit[2] + 1, sit[3]>>
      e == Entry(p, s, x)
      to == Target(p, read)
      solved == IF e.reduce # 0 THEN SolveConflict(p, e.reduce, x) ELSE "shift"
      kind == IF solved = "shift" /\ IndexOf(p.grammar, x) = IndexOf(p.grammar, ErrorTerm)
                THEN "shift_error_recovery_token" ELSE solved
      grown == IF to > Len(p.states) THEN [p EXCEPT !.states = Append(@, {})] ELSE p
  IN IF e.shift # 0 THEN AddSituations(p, e.shift, <<read>>)
     ELSE AddSituations(
            [grown EXCEPT !.table = (<<s, x>> :> [e EXCEPT !.kind = kind, !.shift = to]) @@ @],
            to, <<read>>)

\* The members of a parser before analyze_states.
NewParser(g) ==
  LET root == <<RootRule(g), 0, EofTerm>>
  IN [grammar |-> g, infos |-> RuleInfos(g), memo |-> NoMemo, states |-> <<{root}>>,
      table |-> << >>, closures |-> << >>, queue |-> <<<<1, root>>>>]

\* situation_transition
Transition(p, s, sit) ==
  IF sit[2] >= Len(p.infos[sit[1]].r) THEN Reduction(p, s, sit) ELSE Reading(p, s, sit)

\* One round of analyze_states.
Analyze(p) ==
  LET s == Head(p.queue)[1]
      sit == Head(p.queue)[2]
  IN Transition(Closure([p EXCEPT !.queue = Tail(@)], s, sit), s, sit)

=============================================================================
