--------------------------- MODULE MCRuleFilters ---------------------------
(***************************************************************************)
(* An instance of RuleFilters for TLC.                                     *)
(***************************************************************************)
EXTENDS RuleFilters, TLC

CONSTANTS p, q, n, m, k, tag, other

Plain(path, name) == [path |-> path, name |-> name, suffix |-> FALSE]
Full(path, name) == [path |-> path, name |-> name, suffix |-> TRUE]

\* Two modules of one rule name, one of them with and without its suffix.
SomeHits ==
  {[module |-> module, key |-> k] :
     module \in {Full(p, n), Plain(p, n), Full(q, n), Full(p, m)}}

UpToTwoHits == {<<hit>> : hit \in SomeHits}
                 \union {<<h1, h2>> : h1 \in SomeHits, h2 \in SomeHits}

SomeRules ==
  {[likelihood |-> 1, impact |-> 2, tags |-> {tag}],
   [likelihood |-> 2, impact |-> 3, tags |-> {}],
   [likelihood |-> 4, impact |-> 4, tags |-> {tag, other}]}

\* The rule n is unknown, or one of these; so is m.
SomeContents ==
  UNION {[names \X {k} -> SomeRules] : names \in SUBSET {n, m}}

NoneOrOne(rows) == {{}} \union {{row} : row \in rows}

SomeRows == {[rule_id |-> id, key |-> k] : id \in {Plain(p, n), Full(p, n), Full(q, n)}}
SomeToggles == NoneOrOne(SomeRows)
SomeAcks == NoneOrOne(SomeRows)
SomeBaselines == NoneOrOne({[module |-> Full(p, n), key |-> k]})

SomeConfigurations ==
  {[threshold |-> 2, valid |-> TRUE, filterByTag |-> FALSE, tags |-> {}],
   [threshold |-> 0, valid |-> TRUE, filterByTag |-> TRUE, tags |-> {tag, other}],
   [threshold |-> 0, valid |-> TRUE, filterByTag |-> TRUE, tags |-> {}],
   [threshold |-> 0, valid |-> FALSE, filterByTag |-> FALSE, tags |-> {}]}

\* With a limit of 4 bytes: shorter, exactly as long, a character cut through.
SomeTexts == {<<1, 3>>, <<2, 4>>, <<1, 5>>, <<1, 2, 5>>, <<4, 5>>}
OneCharacter == <<1>>
=============================================================================
