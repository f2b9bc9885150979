----------------------------- MODULE TableFilter -----------------------------
(***************************************************************************)
(* How the two programs read `source.tables`: TableInclude of              *)
(* flink-cdc-init (config.rs), which makes regular expressions of the      *)
(* list, and can_exclude of the incremental pipeline (source/mysql.rs),    *)
(* which compares names.  Names and lists are sequences of characters;     *)
(* the digit class of the README's example is one symbol.                  *)
(***************************************************************************)
EXTENDS Naturals, Sequences, SequencesExt

-----------------------------------------------------------------------------
(* Regular expressions (external: the regex crate), as far as table lists  *)
(* use them: characters, `.`, a digit class, `*`, `+` and `|`.             *)

Digits == {"0", "1", "2"}

\* The pieces of a text between the separators; nothing depends on their order.
Split(text, separator) ==
    LET cuts == {i \in DOMAIN text : text[i] = separator} \cup {0, Len(text) + 1}
        End(i) == Min({j \in cuts : j > i})
    IN {SubSeq(text, i + 1, End(i) - 1) : i \in cuts \ {Len(text) + 1}}

\* Where an atom that starts at position j of the name may end.
After(atom, name, j) ==
    CASE atom = "^" -> {k \in {j} : j = 1}
      [] atom = "$" -> {k \in {j} : j = Len(name) + 1}
      [] OTHER -> {k \in {j + 1} : /\ j <= Len(name)
                                   /\ \/ atom \in {".", name[j]}
                                      \/ atom = "[0-9]" /\ name[j] \in Digits}

Quantifier(branch, i) ==
    IF i < Len(branch) /\ branch[i + 1] \in {"*", "+"} THEN branch[i + 1] ELSE "1"

\* Whether the branch from its i-th symbol on matches a part of the name that
\* starts at j, given what later symbols and positions match.
MatchesAt(branch, name, i, j, matches) ==
    LET after == After(branch[i], name, j) IN
    CASE i > Len(branch) -> TRUE
      [] i <= Len(branch) /\ Quantifier(branch, i) = "1" ->
           \E k \in after : matches[<<i + 1, k>>]
      [] i <= Len(branch) /\ Quantifier(branch, i) = "*" ->
           matches[<<i + 2, j>>] \/ \E k \in after \ {j} : matches[<<i, k>>]
      [] i <= Len(branch) /\ Quantifier(branch, i) = "+" ->
           \E k \in after : matches[<<i + 2, k>>] \/ (k # j /\ matches[<<i, k>>])

MatchesFrom(branch, name) ==
    LET matches[at \in (1 .. Len(branch) + 1) \X (1 .. Len(name) + 1)] ==
            MatchesAt(branch, name, at[1], at[2], matches)
    IN matches

IsMatch(regex, name) ==
    \E branch \in Split(regex, "|") :
        \E j \in 1 .. Len(name) + 1 : MatchesFrom(branch, name)[<<1, j>>]

-----------------------------------------------------------------------------
(* flink-cdc-init.                                                         *)

Trimmed(text) ==
    LET shown == {i \in DOMAIN text : text[i] # " "}
    IN IF shown = {} THEN <<>> ELSE SubSeq(text, Min(shown), Max(shown))

MutRuleTexts(tables) == Split(tables, ",") \ {<<>>}
RuleTexts(tables) == {Trimmed(piece) : piece \in Split(tables, ",")} \ {<<>>}

HasDot(text) == "." \in Range(text)

\* rsplit_once: the pattern is what follows the last dot; it has to match the
\* whole name.
Rule(text) ==
    LET dot == Max({i \in DOMAIN text : text[i] = "."})
    IN [database |-> SubSeq(text, 1, dot - 1),
        regex    |-> <<"^">> \o SubSeq(text, dot + 1, Len(text)) \o <<"$">>]

\* TableInclude::create returns an error.
IncludeFails(tables) ==
    RuleTexts(tables) = {} \/ \E text \in RuleTexts(tables) : ~HasDot(text)

Rules(tables) == {Rule(text) : text \in RuleTexts(tables)}

DatabaseNames(tables) == {rule.database : rule \in Rules(tables)}

CanInclude(tables, database, table) ==
    \E rule \in Rules(tables) : rule.database = database /\ IsMatch(rule.regex, table)

-----------------------------------------------------------------------------
(* The incremental pipeline.                                               *)

Star == <<"*">>

\* split_once: the table is what follows the first dot.
RuleTakes(text, database, table) ==
    IF HasDot(text)
    THEN LET dot == Min({i \in DOMAIN text : text[i] = "."})
         IN /\ SubSeq(text, 1, dot - 1) \in {Star, database}
            /\ SubSeq(text, dot + 1, Len(text)) \in {Star, table}
    ELSE text = table

CanExclude(tables, database, table) ==
    /\ tables \notin {Star, <<"*", ".", "*">>}
    /\ \A piece \in Split(tables, ",") : ~RuleTakes(Trimmed(piece), database, table)

=============================================================================
