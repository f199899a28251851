------------------------- MODULE RuleFiltersProofs -------------------------
(***************************************************************************)
(* RuleFilters for any rules, reports, tables, filters, texts and limits:  *)
(* the loops choose what they should, and the entries are of their issues  *)
(* and fit.                                                                *)
(***************************************************************************)
EXTENDS RuleFilters, SequenceTheorems, FiniteSetTheorems, TLAPS

-----------------------------------------------------------------------------
(***************************************************************************)
(* Least elements.                                                         *)
(***************************************************************************)

\* A non-empty set of natural numbers has a least element.  It is what the
\* first match of findRenderedReport and the cut of createServiceLogEntry
\* rest on.
LEMMA LeastElement ==
  ASSUME NEW S \in SUBSET Nat, S # {}
  PROVE  \E least \in S : \A n \in S : least =< n
<1>1. IsWellFoundedOn(OpToRel(<, Nat), Nat)
  BY NatLessThanWellFounded
<1>2. PICK least \in S : \A n \in S : <<n, least>> \notin OpToRel(<, Nat)
  BY <1>1, WFMin
<1>3. ASSUME NEW n \in S PROVE least =< n
  <2>1. n \in Nat /\ least \in Nat
    BY <1>2
  <2>2. ~ (n < least)
    BY <1>2, <2>1 DEF OpToRel
  <2> QED
    BY <2>1, <2>2
<1> QED
  BY <1>3

-----------------------------------------------------------------------------
(***************************************************************************)
(* Texts.                                                                  *)
(***************************************************************************)

\* A text is a sequence of numbers, each 1 to 4 more than the one before it.
LEMMA TextEnds ==
  ASSUME NEW text, IsText(text)
  PROVE  /\ text \in Seq(Nat)
         /\ Len(text) \in Nat
         /\ DOMAIN text = 1 .. Len(text)
         /\ \A i \in 1 .. Len(text) : text[i] \in Nat /\ End(text, i) = text[i]
         /\ End(text, 0) = 0
         /\ \A i \in 0 .. Len(text) : End(text, i) \in Nat
         /\ \A i \in 1 .. Len(text) : text[i] - End(text, i - 1) \in 1 .. 4
<1>1. /\ text \in Seq(Nat)
      /\ Len(text) \in Nat
      /\ DOMAIN text = 1 .. Len(text)
      /\ \A i \in 1 .. Len(text) : text[i] \in Nat
  BY DEF IsText
<1>2. \A i \in 1 .. Len(text) : End(text, i) = text[i]
  BY <1>1 DEF End
<1>3. End(text, 0) = 0
  BY DEF End
<1>4. \A i \in 0 .. Len(text) : End(text, i) \in Nat
  BY <1>1 DEF End
<1>5. \A i \in 1 .. Len(text) : text[i] - End(text, i - 1) \in 1 .. 4
  BY <1>1 DEF IsText
<1> QED
  BY <1>1, <1>2, <1>3, <1>4, <1>5

\* The ends of the characters of a text grow from character to character, so
\* that no text has more characters than bytes.
LEMMA TextGrows ==
  ASSUME NEW text, IsText(text)
  PROVE  /\ \A i \in 0 .. Len(text) : End(text, i) \in Nat /\ i =< End(text, i)
         /\ \A i, j \in 0 .. Len(text) : i =< j => End(text, i) =< End(text, j)
<1>0. Len(text) \in Nat
  BY TextEnds
<1>1. \A i \in 0 .. Len(text) : End(text, i) \in Nat
  BY TextEnds
<1>2. \A i \in 1 .. Len(text) : End(text, i) > End(text, i - 1)
  <2> SUFFICES ASSUME NEW i \in 1 .. Len(text)
               PROVE  End(text, i) > End(text, i - 1)
    OBVIOUS
  <2>1. i - 1 \in 0 .. Len(text) /\ i \in 0 .. Len(text)
    BY <1>0
  <2>2. End(text, i) - End(text, i - 1) \in 1 .. 4
    BY TextEnds
  <2> QED
    BY <2>1, <2>2, <1>1
<1>3. \A i \in 0 .. Len(text) : i =< End(text, i)
  <2> DEFINE Short == {i \in 0 .. Len(text) : End(text, i) < i}
  <2>1. SUFFICES ASSUME Short # {} PROVE FALSE
    BY <1>0, <1>1
  <2>2. PICK i \in Short : \A j \in Short : i =< j
    <3>1. Short \in SUBSET Nat
      BY <1>0
    <3> HIDE DEF Short
    <3> QED
      BY <2>1, <3>1, LeastElement
  <2>3. i # 0
    BY <2>2 DEF End
  <2>4. i - 1 \in 0 .. Len(text) /\ i - 1 \notin Short
    BY <2>2, <2>3, <1>0
  <2> QED
    BY <2>2, <2>3, <2>4, <1>0, <1>1, <1>2
<1>4. ASSUME NEW i \in 0 .. Len(text), NEW k \in 0 .. Len(text), i =< k
      PROVE  End(text, i) =< End(text, k)
  <2> DEFINE Smaller == {j \in i .. Len(text) : End(text, j) < End(text, i)}
  <2>1. SUFFICES ASSUME Smaller # {} PROVE FALSE
    BY <1>0, <1>1, <1>4
  <2>2. PICK j \in Smaller : \A l \in Smaller : j =< l
    <3>1. Smaller \in SUBSET Nat
      BY <1>0
    <3> HIDE DEF Smaller
    <3> QED
      BY <2>1, <3>1, LeastElement
  <2>3. j # i
    BY <2>2, <1>1
  <2>4. j - 1 \in i .. Len(text) /\ j - 1 \notin Smaller
    BY <2>2, <2>3, <1>0
  <2>5. /\ j \in 1 .. Len(text) /\ j - 1 \in 0 .. Len(text)
        /\ End(text, j) < End(text, i)
        /\ End(text, j - 1) >= End(text, i)
    BY <2>2, <2>3, <2>4, <1>0, <1>1
  <2>6. End(text, j) > End(text, j - 1)
    BY <2>5, <1>2
  <2> QED
    BY <2>5, <2>6, <1>0, <1>1
<1> QED
  BY <1>1, <1>3, <1>4

\* What is shifted keeps its distances.
LEMMA Shift ==
  ASSUME NEW a \in Int, NEW b \in Int, NEW c \in Int
  PROVE  (a + b) - (a + c) = b - c
OBVIOUS

\* Two texts joined are a text.
LEMMA JoinedIsText ==
  ASSUME NEW text, NEW more, IsText(text), IsText(more)
  PROVE  IsText(Joined(text, more))
<1> DEFINE shifted == [i \in DOMAIN more |-> Bytes(text) + more[i]]
<1>0. /\ text \in Seq(Nat) /\ more \in Seq(Nat)
      /\ Len(text) \in Nat /\ Len(more) \in Nat
      /\ DOMAIN text = 1 .. Len(text) /\ DOMAIN more = 1 .. Len(more)
      /\ \A i \in 1 .. Len(more) : more[i] \in Nat
  BY DEF IsText
<1>1. Bytes(text) \in Nat
  BY <1>0, TextGrows DEF Bytes
<1>2. shifted \in Seq(Nat) /\ Len(shifted) = Len(more)
  BY <1>0, <1>1
<1>3. /\ Joined(text, more) \in Seq(Nat)
      /\ Len(Joined(text, more)) = Len(text) + Len(more)
      /\ DOMAIN Joined(text, more) = 1 .. Len(text) + Len(more)
      /\ \A i \in 1 .. Len(text) : Joined(text, more)[i] = text[i]
      /\ \A i \in 1 .. Len(more) : Joined(text, more)[Len(text) + i] = Bytes(text) + more[i]
  <2>1. Joined(text, more) = text \o shifted
    BY DEF Joined
  <2>2. \A i \in 1 .. Len(more) : shifted[i] = Bytes(text) + more[i]
    BY <1>0
  <2>0. text \in Seq(Nat) /\ shifted \in Seq(Nat) /\ Len(shifted) = Len(more)
    BY <1>0, <1>2
  <2> HIDE DEF shifted
  <2>3. /\ text \o shifted \in Seq(Nat)
        /\ Len(text \o shifted) = Len(text) + Len(shifted)
        /\ \A i \in 1 .. Len(text) + Len(shifted) : (text \o shifted)[i] =
             IF i =< Len(text) THEN text[i] ELSE shifted[i - Len(text)]
    BY <2>0, ConcatProperties
  <2>4. DOMAIN (text \o shifted) = 1 .. Len(text) + Len(more)
    BY <2>0, <2>3
  <2>5. \A i \in 1 .. Len(more) : (text \o shifted)[Len(text) + i] = shifted[i]
    BY <2>0, <2>3, <1>0
  <2>6. \A i \in 1 .. Len(text) : (text \o shifted)[i] = text[i]
    BY <2>0, <2>3, <1>0
  <2> QED
    BY <2>1, <2>2, <2>3, <2>4, <2>5, <2>6, <2>0
<1> HIDE DEF shifted
<1>4. ASSUME NEW i \in 1 .. Len(text) + Len(more)
      PROVE  Joined(text, more)[i] - End(Joined(text, more), i - 1) \in 1 .. 4
  <2>1. CASE i =< Len(text)
    <3>1. i \in 1 .. Len(text) /\ (i = 1 \/ i - 1 \in 1 .. Len(text))
      BY <2>1, <1>0
    <3>2. Joined(text, more)[i] = text[i]
      BY <3>1, <1>3
    <3>3. End(Joined(text, more), i - 1) = End(text, i - 1)
      <4>1. CASE i = 1
        BY <4>1 DEF End
      <4>2. CASE i - 1 \in 1 .. Len(text)
        BY <4>2, <1>3 DEF End
      <4> QED
        BY <3>1, <4>1, <4>2
    <3>4. text[i] - End(text, i - 1) \in 1 .. 4
      BY <3>1, TextEnds
    <3> QED
      BY <3>2, <3>3, <3>4
  <2>2. CASE i > Len(text)
    <3>1. PICK k \in 1 .. Len(more) : i = Len(text) + k
      <4>1. i - Len(text) \in 1 .. Len(more) /\ i = Len(text) + (i - Len(text))
        BY <2>2, <1>0
      <4> QED
        BY <4>1
    <3>2. Joined(text, more)[i] = Bytes(text) + more[k]
      BY <3>1, <1>3
    <3>3. End(Joined(text, more), i - 1) = Bytes(text) + End(more, k - 1)
      <4>1. CASE k = 1
        <5>1. End(more, k - 1) = 0 /\ i - 1 = Len(text)
          BY <4>1, <3>1, <1>0 DEF End
        <5>2. End(Joined(text, more), Len(text)) = End(text, Len(text))
          <6>1. CASE Len(text) = 0
            BY <6>1 DEF End
          <6>2. CASE Len(text) # 0
            <7>1. Len(text) \in 1 .. Len(text)
              BY <6>2, <1>0
            <7>2. Joined(text, more)[Len(text)] = text[Len(text)]
              BY <7>1, <1>3
            <7> QED
              BY <6>2, <7>2 DEF End
          <6> QED
            BY <6>1, <6>2
        <5> QED
          BY <5>1, <5>2, <1>1 DEF Bytes
      <4>2. CASE k # 1
        <5>1. k - 1 \in 1 .. Len(more) /\ i - 1 = Len(text) + (k - 1) /\ i - 1 # 0
          BY <4>2, <3>1, <1>0
        <5>2. Joined(text, more)[Len(text) + (k - 1)] = Bytes(text) + more[k - 1]
          BY <5>1, <1>3
        <5>3. k - 1 # 0
          BY <4>2, <3>1, <1>0
        <5> QED
          BY <5>1, <5>2, <5>3 DEF End
      <4> QED
        BY <4>1, <4>2
    <3>4. more[k] - End(more, k - 1) \in 1 .. 4
      BY TextEnds
    <3>5. End(more, k - 1) \in Nat
      <4>1. k - 1 \in 0 .. Len(more)
        BY <1>0
      <4> QED
        BY <4>1, TextEnds
    <3>6. (Bytes(text) + more[k]) - (Bytes(text) + End(more, k - 1))
            = more[k] - End(more, k - 1)
      <4>1. Bytes(text) \in Int /\ more[k] \in Int /\ End(more, k - 1) \in Int
        BY <1>0, <1>1, <3>5
      <4> QED
        BY <4>1, Shift
    <3> QED
      BY <3>2, <3>3, <3>4, <3>6
  <2> QED
    BY <2>1, <2>2, <1>0
<1> QED
  BY <1>3, <1>4 DEF IsText

\* Where a text is cut: after its last whole character, and less than a
\* character before the limit.
LEMMA CutExists ==
  ASSUME NEW text, IsText(text), NEW max \in Nat
  PROVE  \E n \in 0 .. Len(text) :
           /\ End(text, n) =< max
           /\ n < Len(text) => text[n + 1] > max
<1> DEFINE Beyond == {i \in 1 .. Len(text) : text[i] > max}
<1>0. /\ Len(text) \in Nat
      /\ \A i \in 1 .. Len(text) : text[i] \in Nat
  BY DEF IsText
<1>1. CASE Beyond = {}
  <2>1. End(text, Len(text)) =< max
    BY <1>0, <1>1 DEF End
  <2> QED
    BY <2>1, <1>0
<1>2. CASE Beyond # {}
  <2>1. PICK i \in Beyond : \A j \in Beyond : i =< j
    <3>1. Beyond \in SUBSET Nat
      BY <1>0
    <3> HIDE DEF Beyond
    <3> QED
      BY <1>2, <3>1, LeastElement
  <2>2. i - 1 \in 0 .. Len(text) /\ i - 1 \notin Beyond
    BY <2>1, <1>0
  <2>3. End(text, i - 1) =< max
    BY <2>1, <2>2, <1>0 DEF End
  <2>4. text[(i - 1) + 1] > max
    BY <2>1, <1>0
  <2> QED
    BY <2>2, <2>3, <2>4
<1> QED
  BY <1>1, <1>2

\* What createServiceLogEntry makes of a text is that text, abridged to the limit.
LEMMA TruncatedIsAbridged ==
  ASSUME NEW text, IsText(text), NEW max \in Nat
  PROVE  /\ Truncated(text, max) \in Seq(Nat)
         /\ IsAbridged(Truncated(text, max), text, max)
<1>0. /\ text \in Seq(Nat)
      /\ Len(text) \in Nat
      /\ DOMAIN text = 1 .. Len(text)
      /\ \A i \in 1 .. Len(text) : text[i] \in Nat
  BY DEF IsText
<1>1. CASE Bytes(text) =< max
  <2>1. Truncated(text, max) = text
    BY <1>1 DEF Truncated
  <2>2. Len(text) =< Bytes(text) /\ Bytes(text) \in Nat
    BY <1>0, TextGrows DEF Bytes
  <2> QED
    BY <1>0, <1>1, <2>1, <2>2 DEF IsAbridged
<1>2. CASE ~ (Bytes(text) =< max)
  <2> DEFINE whole == CHOOSE n \in 0 .. Len(text) :
                        /\ End(text, n) =< max
                        /\ n < Len(text) => text[n + 1] > max
             rest == max - End(text, whole)
             marks == [i \in 1 .. rest |-> Replacement]
             cut == SubSeq(text, 1, whole)
  <2>1. Truncated(text, max) = cut \o marks
    BY <1>2 DEF Truncated
  <2>2. /\ whole \in 0 .. Len(text)
        /\ End(text, whole) =< max
        /\ whole < Len(text) => text[whole + 1] > max
    BY CutExists
  <2> HIDE DEF whole
  <2>3. Bytes(text) \in Nat /\ End(text, whole) \in Nat /\ whole =< End(text, whole)
    BY <2>2, <1>0, TextGrows DEF Bytes
  <2>4. whole < Len(text)
    BY <1>2, <2>2, <2>3, <1>0 DEF Bytes
  <2>5. rest \in 0 .. 3
    <3>1. whole + 1 \in 1 .. Len(text) /\ (whole + 1) - 1 = whole
      BY <2>2, <2>4, <1>0
    <3>2. text[whole + 1] - End(text, whole) \in 1 .. 4
      BY <3>1, TextEnds
    <3>3. text[whole + 1] \in Nat /\ text[whole + 1] > max /\ End(text, whole) =< max
      BY <1>0, <2>2, <2>4, <3>1
    <3> HIDE DEF cut, marks
    <3> QED
      BY <2>3, <3>2, <3>3
  <2>6. marks \in Seq(Nat) /\ Len(marks) = rest /\ \A i \in 1 .. rest : marks[i] = Replacement
    BY <2>5 DEF Replacement
  <2>7. /\ cut \in Seq(Nat) /\ Len(cut) = whole
        /\ \A i \in 1 .. whole : cut[i] = text[i]
    <3>1. \A i \in 1 .. whole : text[i] \in Nat
      BY <1>0, <2>2
    <3>2. /\ cut \in Seq(Nat)
          /\ Len(cut) = IF 1 =< whole THEN whole - 1 + 1 ELSE 0
          /\ \A i \in 1 .. whole - 1 + 1 : cut[i] = text[1 + i - 1]
      BY <3>1, <2>2, SubSeqProperties
    <3> HIDE DEF cut
    <3> QED
      BY <3>2, <2>2
  <2> HIDE DEF cut, marks
  <2> DEFINE received == cut \o marks
  <2>8. /\ received \in Seq(Nat)
        /\ Len(received) = whole + rest
        /\ \A i \in 1 .. whole + rest : received[i] = IF i =< whole THEN text[i] ELSE Replacement
    <3>1. /\ received \in Seq(Nat)
          /\ Len(received) = Len(cut) + Len(marks)
          /\ \A i \in 1 .. Len(cut) + Len(marks) : received[i] =
               IF i =< Len(cut) THEN cut[i] ELSE marks[i - Len(cut)]
      BY <2>6, <2>7, ConcatProperties
    <3> HIDE DEF rest, received
    <3> QED
      BY <3>1, <2>2, <2>5, <2>6, <2>7
  <2>9. DOMAIN received = 1 .. whole + rest
    BY <2>8
  <2> HIDE DEF received
  <2>10. {i \in DOMAIN received : received[i] # Replacement} = 1 .. whole
    <3>1. \A i \in 1 .. whole : text[i] # Replacement
      <4> SUFFICES ASSUME NEW i \in 1 .. whole PROVE text[i] # Replacement
        OBVIOUS
      <4>1. i \in 0 .. Len(text) /\ i # 0
        BY <2>2, <1>0
      <4>2. i =< End(text, i) /\ End(text, i) = text[i]
        BY <4>1, TextGrows DEF End
      <4> QED
        BY <4>1, <4>2, <1>0 DEF Replacement
    <3> HIDE DEF rest
    <3> QED
      BY <3>1, <2>8, <2>9, <2>5, <2>2
  <2>11. Cardinality(1 .. whole) = whole
    <3>1. Cardinality(1 .. whole) = IF 1 > whole THEN 0 ELSE whole - 1 + 1
      BY <2>2, FS_Interval
    <3> QED
      BY <3>1, <2>2
  <2>12. Len(received) =< max
    BY <2>8, <2>3, <2>2
  <2>13. \A i \in 1 .. whole : received[i] = text[i] /\ (1 .. i) \subseteq 1 .. whole
    <3> HIDE DEF rest
    <3> QED
      BY <2>8, <2>5, <2>2
  <2>14. Len(received) - whole =< 3
    <3> HIDE DEF rest
    <3> QED
      BY <2>8, <2>5, <2>2
  <2>15. IsAbridged(received, text, max)
    BY <1>2, <2>2, <2>4, <2>10, <2>11, <2>12, <2>13, <2>14 DEF IsAbridged
  <2> QED
    BY <2>1, <2>8, <2>15 DEF received
<1> QED
  BY <1>1, <1>2

-----------------------------------------------------------------------------
(***************************************************************************)
(* The inductive invariant.                                                *)
(***************************************************************************)

Input ==
  [reports : Reports, content : Contents, toggles : ToggleRows, acks : AckRows,
   baseline : Baselines, config : Configurations]

\* An issue to notify, a text the renderer has answered with (it knows rules by
\* their modules without the suffix), and what Service Log gets.
IssueItem == [hit : RuleHit, risk : Nat]
Rendered ==
  [rule_id : {module \in Module : ~module.suffix}, error_key : ErrorKey, text : Texts]
Severity == {"Low", "Moderate", "Important", "Critical"}
ServiceLogEntry == [summary : Seq(Nat), description : Seq(Nat), severity : Severity]

TypeOK ==
  /\ input \in Input
  /\ pc \in {"kafka", "serviceLog", "render", "send", "done"}
  /\ next \in Nat \ {0}
  /\ events \in Seq(IssueItem)
  /\ reportsToRender \in Seq(IssueItem)
  /\ renderedReports \in Seq(Rendered)
  /\ entries \in Seq([issue : IssueItem, from : Rendered, entry : ServiceLogEntry])
  /\ totalMessages = Len(entries)

\* What both loops ask of a rule hit.
Chosen(hit) == ~isRuleDisabled(hit) /\ PassesFilters(hit) /\ ShouldNotify(hit)

ChosenAmong(hits) == {hit \in hits : Chosen(hit)}

HitsUpTo(n) == {input.reports[i] : i \in 1 .. n}

ChosenSoFar == ChosenAmong(HitsUpTo(next - 1))

ChosenHits == ChosenAmong(Hits)

HitsOf(issues) == {issue.hit : issue \in ToSet(issues)}

\* A loop has chosen what it should among the rule hits it has been through.
LoopsInv ==
  /\ pc \in {"kafka", "serviceLog"} => next =< Len(input.reports) + 1
  /\ HitsOf(events) = IF pc = "kafka" THEN ChosenSoFar ELSE ChosenHits
  /\ pc = "kafka" => reportsToRender = <<>>
  /\ pc # "kafka" =>
       HitsOf(reportsToRender) = IF pc = "serviceLog" THEN ChosenSoFar ELSE ChosenHits

\* An entry was made of a text for its issue, with the risk of the issue's rule.
MadeOf(sent) ==
  /\ sent.issue.risk = TotalRisk(sent.issue.hit)
  /\ IsRenderingOf(sent.from, sent.issue.hit)
  /\ sent.entry = createServiceLogEntry(sent.from, sent.issue.risk)

EntriesInv ==
  /\ \A i \in DOMAIN reportsToRender :
       reportsToRender[i].risk = TotalRisk(reportsToRender[i].hit)
  /\ \A i \in DOMAIN entries : MadeOf(entries[i])

IInv == TypeOK /\ LoopsInv /\ EntriesInv

-----------------------------------------------------------------------------
(***************************************************************************)
(* Risks and severities.                                                   *)
(***************************************************************************)

\* Every rule has a total risk that has a name, or 0 if it is not known.
LEMMA RiskIsNamed ==
  ASSUME input \in Input, NEW name, NEW key
  PROVE  LET rule == findRuleByNameAndErrorKey(name, key)
         IN  /\ rule \in Rule
             /\ calculateTotalRisk(rule.likelihood, rule.impact) \in 0 .. TotalRiskMax
<1> DEFINE rule == findRuleByNameAndErrorKey(name, key)
<1>1. CASE <<name, key>> \in DOMAIN input.content
  <2>1. rule = input.content[<<name, key>>]
    BY <1>1 DEF findRuleByNameAndErrorKey
  <2>2. input.content \in Contents
    BY DEF Input
  <2>3. /\ rule \in Rule
        /\ (rule.impact + rule.likelihood) \div 2 =< TotalRiskMax
    BY <1>1, <2>1, <2>2, ContentsAssumption
  <2> HIDE DEF rule
  <2>4. rule.likelihood \in Nat /\ rule.impact \in Nat
    BY <2>3 DEF Rule
  <2>5. (rule.likelihood + rule.impact) \div 2 \in 0 .. TotalRiskMax
    <3>1. \A a, b \in Nat : (a + b) \div 2 =< 4 => (b + a) \div 2 \in 0 .. 4
      OBVIOUS
    <3> QED
      BY <3>1, <2>3, <2>4 DEF TotalRiskMax
  <2>6. calculateTotalRisk(rule.likelihood, rule.impact) \in 0 .. TotalRiskMax
    BY <2>5 DEF calculateTotalRisk
  <2> QED
    BY <2>3, <2>6 DEF rule
<1>2. CASE <<name, key>> \notin DOMAIN input.content
  <2>1. rule = [likelihood |-> 0, impact |-> 0, tags |-> {}]
    BY <1>2 DEF findRuleByNameAndErrorKey
  <2>2. rule \in Rule /\ rule.likelihood = 0 /\ rule.impact = 0
    BY <2>1 DEF Rule
  <2> HIDE DEF rule
  <2> QED
    BY <2>2 DEF calculateTotalRisk, TotalRiskMax, rule
<1> QED
  BY <1>1, <1>2

\* Whatever format a module's name is in, the rule name is the plain one.
LEMMA PlainName ==
  ASSUME NEW module \in Module
  PROVE  /\ TrimSuffix(module) \in Module
         /\ moduleToRuleName(module) = module.name
         /\ TrimSuffix(module).name = module.name
         /\ TrimSuffix(module).path = module.path
         /\ ~ TrimSuffix(module).suffix
BY DEF Module, TrimSuffix, moduleToRuleName, ruleIDToRuleName

\* The total risk of a rule hit is that of the rule of its module's plain name.
LEMMA TotalRiskOfRule ==
  ASSUME NEW hit \in RuleHit
  PROVE  TotalRisk(hit) =
           LET rule == findRuleByNameAndErrorKey(hit.module.name, hit.key)
           IN  calculateTotalRisk(rule.likelihood, rule.impact)
BY PlainName DEF TotalRisk, RuleHit

\* Every total risk has a severity.
LEMMA SeverityIsNamed ==
  ASSUME NEW risk
  PROVE  getServiceLogSeverity(risk) \in Severity
<1>1. CASE risk \in 1 .. 4
  <2>1. risk = 1 \/ risk = 2 \/ risk = 3 \/ risk = 4
    BY <1>1
  <2> QED
    BY <2>1 DEF getServiceLogSeverity, Severity, TotalRiskMax
<1>2. CASE risk \notin 1 .. 4
  BY <1>2 DEF getServiceLogSeverity, Severity, TotalRiskMax
<1> QED
  BY <1>1, <1>2

\* The severities are in the order of the total risks.
LEMMA SeverityOfRisk ==
  ASSUME NEW risk \in 0 .. TotalRiskMax, NEW entry, entry.severity = getServiceLogSeverity(risk)
  PROVE  SeverityRank(entry) = IF risk = 0 THEN 1 ELSE risk
<1> DEFINE names == <<"Low", "Moderate", "Important", "Critical">>
           rank == IF risk = 0 THEN 1 ELSE risk
<1>1. rank \in 1 .. 4 /\ getServiceLogSeverity(risk) = names[rank]
  BY DEF getServiceLogSeverity, TotalRiskMax
<1>2. /\ names[1] = "Low" /\ names[2] = "Moderate"
      /\ names[3] = "Important" /\ names[4] = "Critical"
  OBVIOUS
<1>3. \A i, j \in 1 .. 4 : names[i] = names[j] => i = j
  BY <1>2
<1>4. SeverityRank(entry) = CHOOSE i \in 1 .. 4 : names[i] = entry.severity
  BY DEF SeverityRank, TotalRiskMax
<1> HIDE DEF names, rank
<1>5. \A i \in 1 .. 4 : names[i] = entry.severity => i = rank
  BY <1>1, <1>3
<1> QED
  BY <1>1, <1>4, <1>5 DEF rank

-----------------------------------------------------------------------------
(***************************************************************************)
(* Renderings and entries.                                                 *)
(***************************************************************************)

\* findRenderedReport finds nothing, or the rendering of a rule of the same plain
\* name and error key.
LEMMA FoundIsRendering ==
  ASSUME renderedReports \in Seq(Rendered), NEW hit, findRenderedReport(hit) # <<>>
  PROVE  /\ findRenderedReport(hit)[1] \in Rendered
         /\ IsRenderingOf(findRenderedReport(hit)[1], hit)
<1> DEFINE matching == {i \in DOMAIN renderedReports :
                          IsRenderingOf(renderedReports[i], hit)}
           first == CHOOSE i \in matching : \A j \in matching : i =< j
<1>1. matching # {} /\ findRenderedReport(hit) = <<renderedReports[first]>>
  BY DEF findRenderedReport
<1>2. \E i \in matching : \A j \in matching : i =< j
  <2>1. matching \in SUBSET Nat
    OBVIOUS
  <2> HIDE DEF matching
  <2> QED
    BY <1>1, <2>1, LeastElement
<1>3. first \in matching
  <2> HIDE DEF matching
  <2> QED
    BY <1>2
<1> HIDE DEF first
<1> QED
  BY <1>1, <1>3

\* An entry has a summary, a description and a severity, and they fit.
LEMMA EntryFits ==
  ASSUME NEW from \in Rendered, NEW risk \in 0 .. TotalRiskMax
  PROVE  LET entry == createServiceLogEntry(from, risk)
         IN  /\ entry \in ServiceLogEntry
             /\ entry.severity = getServiceLogSeverity(risk)
             /\ IsAbridged(entry.summary, from.text, SummaryMaxLength)
             /\ IsAbridged(entry.description, Joined(from.text, Link), DescriptionMaxLength)
<1> DEFINE summary == Truncated(from.text, SummaryMaxLength)
           description == Truncated(Joined(from.text, Link), DescriptionMaxLength)
<1>1. IsText(from.text) /\ IsText(Link)
  BY TextsAssumption DEF Rendered
<1>2. IsText(Joined(from.text, Link))
  BY <1>1, JoinedIsText
<1>3. summary \in Seq(Nat) /\ IsAbridged(summary, from.text, SummaryMaxLength)
  BY <1>1, TruncatedIsAbridged, TextsAssumption
<1>4. /\ description \in Seq(Nat)
      /\ IsAbridged(description, Joined(from.text, Link), DescriptionMaxLength)
  BY <1>2, TruncatedIsAbridged, TextsAssumption
<1>5. getServiceLogSeverity(risk) \in Severity
  BY SeverityIsNamed
<1>6. createServiceLogEntry(from, risk) =
        [summary |-> summary, description |-> description,
         severity |-> getServiceLogSeverity(risk)]
  BY DEF createServiceLogEntry
<1> HIDE DEF summary, description
<1> QED
  BY <1>3, <1>4, <1>5, <1>6 DEF ServiceLogEntry

\* The elements of a sequence are finitely many.
LEMMA ElementsAreFinite ==
  ASSUME NEW S, NEW seq \in Seq(S)
  PROVE  IsFiniteSet(ToSet(seq)) /\ ToSet(seq) \subseteq S
<1>1. Len(seq) \in Nat /\ DOMAIN seq = 1 .. Len(seq) /\ seq \in [1 .. Len(seq) -> S]
  BY LenProperties
<1>2. ToSet(seq) \subseteq S
  BY <1>1 DEF ToSet
<1>3. seq \in [1 .. Len(seq) -> ToSet(seq)]
  BY <1>1 DEF ToSet
<1>4. \A element \in ToSet(seq) : \E i \in 1 .. Len(seq) : seq[i] = element
  BY <1>1 DEF ToSet
<1>5. seq \in Surjection(1 .. Len(seq), ToSet(seq))
  BY <1>3, <1>4 DEF Surjection
<1>6. IsFiniteSet(1 .. Len(seq))
  BY <1>1, FS_Interval
<1> QED
  BY <1>2, <1>5, <1>6, FS_Surjection

\* The answer of the renderer is a list of renderings, each with one of its texts.
LEMMA AnswerIsOfRenderings ==
  ASSUME NEW issues \in Seq(IssueItem), NEW some \in SUBSET ToSet(issues),
         NEW order \in SetToSeqs(some), NEW text \in Texts
  PROVE  [i \in DOMAIN order |->
            [rule_id |-> TrimSuffix(order[i].hit.module),
             error_key |-> order[i].hit.key, text |-> text]] \in Seq(Rendered)
<1>1. IsFiniteSet(some) /\ some \subseteq IssueItem
  BY ElementsAreFinite, FS_Subset
<1>2. Cardinality(some) \in Nat
  BY <1>1, FS_CardinalityType
<1>3. DOMAIN order = 1 .. Cardinality(some) /\ \A i \in DOMAIN order : order[i] \in IssueItem
  BY <1>1 DEF SetToSeqs
<1>4. ASSUME NEW i \in DOMAIN order
      PROVE  [rule_id |-> TrimSuffix(order[i].hit.module),
              error_key |-> order[i].hit.key, text |-> text] \in Rendered
  <2>1. order[i].hit.module \in Module /\ order[i].hit.key \in ErrorKey
    BY <1>3 DEF IssueItem, RuleHit
  <2> QED
    BY <2>1, PlainName DEF Rendered
<1> DEFINE rendering(i) == [rule_id |-> TrimSuffix(order[i].hit.module),
                            error_key |-> order[i].hit.key, text |-> text]
<1>5. \A i \in 1 .. Cardinality(some) : rendering(i) \in Rendered
  BY <1>3, <1>4
<1> HIDE DEF rendering
<1>6. [i \in 1 .. Cardinality(some) |-> rendering(i)] \in Seq(Rendered)
  BY <1>2, <1>5
<1>7. [i \in DOMAIN order |-> rendering(i)] \in Seq(Rendered)
  BY <1>3, <1>6
<1> QED
  BY <1>7 DEF rendering

-----------------------------------------------------------------------------
(***************************************************************************)
(* The loops.                                                              *)
(***************************************************************************)

\* The rule hits that were read: the n-th one, and those before it.
LEMMA ReportItems ==
  ASSUME input \in Input
  PROVE  /\ Len(input.reports) \in Nat
         /\ \A n \in 1 .. Len(input.reports) :
              /\ input.reports[n] \in RuleHit
              /\ HitsUpTo(n) = HitsUpTo(n - 1) \union {input.reports[n]}
         /\ HitsUpTo(0) = {}
         /\ HitsUpTo(Len(input.reports)) = Hits
<1>1. input.reports \in Seq(RuleHit)
  BY ReportsAssumption DEF Input
<1>2. /\ Len(input.reports) \in Nat
      /\ DOMAIN input.reports = 1 .. Len(input.reports)
      /\ \A n \in 1 .. Len(input.reports) : input.reports[n] \in RuleHit
  BY <1>1
<1>3. ASSUME NEW n \in 1 .. Len(input.reports)
      PROVE  HitsUpTo(n) = HitsUpTo(n - 1) \union {input.reports[n]}
  <2>1. 1 .. n = (1 .. n - 1) \union {n}
    BY <1>2
  <2> QED
    BY <2>1 DEF HitsUpTo
<1>4. HitsUpTo(0) = {}
  BY DEF HitsUpTo
<1>5. HitsUpTo(Len(input.reports)) = Hits
  BY <1>2 DEF HitsUpTo, Hits, ToSet
<1> QED
  BY <1>2, <1>3, <1>4, <1>5

\* The rule hits of a list of issues, when it grows by one.
LEMMA HitsOfAppend ==
  ASSUME NEW issues \in Seq(IssueItem), NEW item \in IssueItem
  PROVE  /\ Append(issues, item) \in Seq(IssueItem)
         /\ HitsOf(Append(issues, item)) = HitsOf(issues) \union {item.hit}
         /\ \A i \in DOMAIN Append(issues, item) :
              \/ i \in DOMAIN issues /\ Append(issues, item)[i] = issues[i]
              \/ Append(issues, item)[i] = item
<1> DEFINE longer == Append(issues, item)
<1>1. /\ longer \in Seq(IssueItem)
      /\ Len(issues) \in Nat
      /\ DOMAIN issues = 1 .. Len(issues)
      /\ DOMAIN longer = 1 .. Len(issues) + 1
      /\ \A i \in 1 .. Len(issues) : longer[i] = issues[i]
      /\ longer[Len(issues) + 1] = item
  OBVIOUS
<1> HIDE DEF longer
<1>2. \A i \in DOMAIN longer : i \in DOMAIN issues \/ i = Len(issues) + 1
  BY <1>1
<1>3. ToSet(longer) = ToSet(issues) \union {item}
  <2>1. ToSet(longer) \subseteq ToSet(issues) \union {item}
    BY <1>1, <1>2 DEF ToSet
  <2>2. ToSet(issues) \subseteq ToSet(longer)
    BY <1>1 DEF ToSet
  <2>3. Len(issues) + 1 \in DOMAIN longer
    BY <1>1
  <2>4. item \in ToSet(longer)
    BY <1>1, <2>3 DEF ToSet
  <2> QED
    BY <2>1, <2>2, <2>4
<1>4. HitsOf(longer) = HitsOf(issues) \union {item.hit}
  BY <1>3 DEF HitsOf
<1> QED
  BY <1>1, <1>2, <1>4 DEF longer

\* One iteration of either loop.  Both loops have this body, with a list of
\* their own.
LEMMA Iteration ==
  ASSUME input \in Input, NEW n \in 1 .. Len(input.reports),
         NEW issues \in Seq(IssueItem), NEW more,
         LET hit == input.reports[n] IN
           more = IF /\ ~isRuleDisabled(hit)
                     /\ PassesFilters(hit)
                     /\ ShouldNotify(hit)
                  THEN Append(issues, [hit |-> hit, risk |-> TotalRisk(hit)])
                  ELSE issues
  PROVE  /\ more \in Seq(IssueItem)
         /\ HitsOf(issues) = ChosenAmong(HitsUpTo(n - 1))
              => HitsOf(more) = ChosenAmong(HitsUpTo(n))
         /\ (\A i \in DOMAIN issues : issues[i].risk = TotalRisk(issues[i].hit))
              => \A i \in DOMAIN more : more[i].risk = TotalRisk(more[i].hit)
<1> DEFINE hit == input.reports[n]
           item == [hit |-> hit, risk |-> TotalRisk(hit)]
<1>1. hit \in RuleHit /\ HitsUpTo(n) = HitsUpTo(n - 1) \union {hit}
  BY ReportItems
<1>2. more = IF Chosen(hit) THEN Append(issues, item) ELSE issues
  BY DEF Chosen
<1>3. item \in IssueItem
  <2>1. TotalRisk(hit) \in 0 .. TotalRiskMax
    <3> HIDE DEF hit
    <3> QED
      BY <1>1, TotalRiskOfRule, RiskIsNamed
  <2>2. TotalRisk(hit) \in Nat
    BY <2>1 DEF TotalRiskMax
  <2> QED
    BY <1>1, <2>2 DEF IssueItem
<1>4. item.hit = hit /\ item.risk = TotalRisk(item.hit)
  OBVIOUS
<1> HIDE DEF item, hit
<1>5. CASE Chosen(hit)
  <2>1. more = Append(issues, item)
    BY <1>2, <1>5
  <2>2. ChosenAmong(HitsUpTo(n)) = ChosenAmong(HitsUpTo(n - 1)) \union {hit}
    BY <1>1, <1>5 DEF ChosenAmong
  <2> QED
    BY <2>1, <2>2, <1>3, <1>4, HitsOfAppend
<1>6. CASE ~Chosen(hit)
  <2>1. more = issues
    BY <1>2, <1>6
  <2>2. ChosenAmong(HitsUpTo(n)) = ChosenAmong(HitsUpTo(n - 1))
    BY <1>1, <1>6 DEF ChosenAmong
  <2> QED
    BY <2>1, <2>2
<1> QED
  BY <1>5, <1>6

\* As the input does not change, neither do the decisions taken on it.
LEMMA SameInput ==
  ASSUME input' = input
  PROVE  /\ ChosenSoFar' = ChosenAmong(HitsUpTo(next' - 1))
         /\ ChosenHits' = ChosenHits
         /\ \A hit : TotalRisk(hit)' = TotalRisk(hit)
<1>1. \A hit : Chosen(hit)' = Chosen(hit)
  BY DEF Chosen, isRuleDisabled, PassesFilters, evaluateFilterExpression,
         evaluateTagFilter, findRuleByNameAndErrorKey, ShouldNotify
<1>2. ChosenSoFar' = ChosenAmong(HitsUpTo(next' - 1)) /\ ChosenHits' = ChosenHits
  BY <1>1 DEF ChosenSoFar, ChosenHits, ChosenAmong, HitsUpTo, Hits
<1>3. \A hit : TotalRisk(hit)' = TotalRisk(hit)
  BY DEF TotalRisk, findRuleByNameAndErrorKey
<1> QED
  BY <1>2, <1>3

-----------------------------------------------------------------------------
(***************************************************************************)
(* The invariant holds at first, and every action keeps it.                *)
(***************************************************************************)

\* A job begins without a decision taken.
LEMMA InitInv == Init => IInv
<1> SUFFICES ASSUME Init PROVE IInv
  OBVIOUS
<1>1. input \in Input
  BY DEF Init, Input
<1>2. TypeOK
  BY <1>1 DEF Init, TypeOK
<1>3. next - 1 = 0 /\ pc = "kafka" /\ HitsOf(events) = {}
  BY DEF Init, HitsOf, ToSet
<1>4. next =< Len(input.reports) + 1
  BY <1>1, ReportItems DEF Init
<1>5. ChosenSoFar = {}
  BY <1>1, <1>3, ReportItems DEF ChosenSoFar, ChosenAmong
<1>6. LoopsInv
  BY <1>3, <1>4, <1>5 DEF LoopsInv, Init
<1>7. EntriesInv
  BY DEF EntriesInv, Init
<1> QED
  BY <1>2, <1>6, <1>7 DEF IInv

\* The loop for Kafka keeps the invariant.
LEMMA KafkaStep == IInv /\ AppendEvents => IInv'
<1> SUFFICES ASSUME IInv, AppendEvents PROVE IInv'
  OBVIOUS
<1> USE DEF IInv
<1>0. /\ input' = input /\ pc = "kafka" /\ input \in Input
      /\ UNCHANGED <<reportsToRender, renderedReports, entries, totalMessages>>
  BY DEF AppendEvents, TypeOK
<1>1. EntriesInv'
  <2>1. \A hit : TotalRisk(hit)' = TotalRisk(hit)
    BY <1>0, SameInput
  <2>2. \A i \in DOMAIN entries : MadeOf(entries[i])'
    BY <1>0, <2>1 DEF EntriesInv, MadeOf, IsRenderingOf, createServiceLogEntry
  <2> QED
    BY <1>0, <2>1, <2>2 DEF EntriesInv
<1>2. CASE next =< Len(input.reports)
  <2>1. next \in 1 .. Len(input.reports) /\ next' = next + 1 /\ pc' = pc
    BY <1>0, <1>2, ReportItems DEF AppendEvents, TypeOK
  <2>2. /\ events' \in Seq(IssueItem)
        /\ HitsOf(events) = ChosenAmong(HitsUpTo(next - 1))
             => HitsOf(events') = ChosenAmong(HitsUpTo(next))
    BY <1>0, <1>2, <2>1, Iteration DEF AppendEvents, TypeOK
  <2>3. TypeOK'
    BY <1>0, <2>1, <2>2 DEF TypeOK
  <2>4. HitsOf(events)' = ChosenSoFar'
    <3>1. HitsOf(events)' = ChosenAmong(HitsUpTo(next))
      BY <1>0, <2>2 DEF LoopsInv, ChosenSoFar, HitsOf
    <3>2. next' - 1 = next
      BY <2>1, <1>0, ReportItems
    <3> QED
      BY <3>1, <3>2, <1>0, SameInput
  <2>5. next' =< Len(input'.reports) + 1
    BY <2>1, <1>0, ReportItems
  <2>6. LoopsInv'
    BY <1>0, <2>1, <2>4, <2>5 DEF LoopsInv
  <2> QED
    BY <1>1, <2>3, <2>6
<1>3. CASE ~ (next =< Len(input.reports))
  <2>1. next' = 1 /\ pc' = "serviceLog" /\ events' = events
    BY <1>0, <1>3 DEF AppendEvents
  <2>2. TypeOK'
    BY <1>0, <2>1 DEF TypeOK
  <2>3. next - 1 = Len(input.reports)
    BY <1>0, <1>3, ReportItems DEF LoopsInv, TypeOK
  <2>4. HitsOf(events) = ChosenHits
    BY <1>0, <2>3, ReportItems DEF LoopsInv, ChosenSoFar, ChosenHits
  <2>5. HitsOf(events)' = ChosenHits'
    BY <1>0, <2>1, <2>4, SameInput DEF HitsOf
  <2>6. HitsOf(reportsToRender)' = {}
    BY <1>0 DEF LoopsInv, HitsOf, ToSet
  <2>7. ChosenSoFar' = {}
    <3>1. next' - 1 = 0
      BY <2>1
    <3>2. ChosenAmong(HitsUpTo(0)) = {}
      BY <1>0, ReportItems DEF ChosenAmong
    <3> QED
      BY <3>1, <3>2, <1>0, SameInput
  <2>8. next' =< Len(input'.reports) + 1
    BY <2>1, <1>0, ReportItems
  <2>9. LoopsInv'
    BY <1>0, <2>1, <2>5, <2>6, <2>7, <2>8 DEF LoopsInv
  <2> QED
    BY <1>1, <2>2, <2>9
<1> QED
  BY <1>2, <1>3

\* So does the loop for Service Log.
LEMMA ServiceLogStep == IInv /\ getReportsWithIssuesToNotify => IInv'
<1> SUFFICES ASSUME IInv, getReportsWithIssuesToNotify PROVE IInv'
  OBVIOUS
<1> USE DEF IInv
<1>0. /\ input' = input /\ pc = "serviceLog" /\ input \in Input
      /\ UNCHANGED <<events, renderedReports, entries, totalMessages>>
      /\ reportsToRender \in Seq(IssueItem)
  BY DEF getReportsWithIssuesToNotify, TypeOK
<1>1. \A i \in DOMAIN entries : MadeOf(entries[i])'
  <2>1. \A hit : TotalRisk(hit)' = TotalRisk(hit)
    BY <1>0, SameInput
  <2> QED
    BY <1>0, <2>1 DEF EntriesInv, MadeOf, IsRenderingOf, createServiceLogEntry
<1>2. HitsOf(events)' = ChosenHits'
  <2>1. HitsOf(events) = ChosenHits
    BY <1>0 DEF LoopsInv
  <2> QED
    BY <1>0, <2>1, SameInput DEF HitsOf
<1>3. CASE next =< Len(input.reports)
  <2>1. next \in 1 .. Len(input.reports) /\ next' = next + 1 /\ pc' = pc
    BY <1>0, <1>3, ReportItems DEF getReportsWithIssuesToNotify, TypeOK
  <2>2. /\ reportsToRender' \in Seq(IssueItem)
        /\ HitsOf(reportsToRender) = ChosenAmong(HitsUpTo(next - 1))
             => HitsOf(reportsToRender') = ChosenAmong(HitsUpTo(next))
        /\ \A i \in DOMAIN reportsToRender' :
             reportsToRender'[i].risk = TotalRisk(reportsToRender'[i].hit)
    BY <1>0, <1>3, <2>1, Iteration DEF getReportsWithIssuesToNotify, EntriesInv
  <2>3. TypeOK'
    BY <1>0, <2>1, <2>2 DEF TypeOK
  <2>4. HitsOf(reportsToRender)' = ChosenSoFar'
    <3>1. HitsOf(reportsToRender)' = ChosenAmong(HitsUpTo(next))
      BY <1>0, <2>2 DEF LoopsInv, ChosenSoFar, HitsOf
    <3>2. next' - 1 = next
      BY <2>1, <1>0, ReportItems
    <3> QED
      BY <3>1, <3>2, <1>0, SameInput
  <2>5. next' =< Len(input'.reports) + 1
    BY <2>1, <1>0, ReportItems
  <2>6. LoopsInv'
    BY <1>0, <1>2, <2>1, <2>4, <2>5 DEF LoopsInv
  <2>7. EntriesInv'
    BY <1>0, <1>1, <2>2, SameInput DEF EntriesInv
  <2> QED
    BY <2>3, <2>6, <2>7
<1>4. CASE ~ (next =< Len(input.reports))
  <2>1. /\ next' = 1 /\ reportsToRender' = reportsToRender
        /\ pc' \in {"render", "done"}
    BY <1>0, <1>4 DEF getReportsWithIssuesToNotify
  <2>2. TypeOK'
    BY <1>0, <2>1 DEF TypeOK
  <2>3. next - 1 = Len(input.reports)
    BY <1>0, <1>4, ReportItems DEF LoopsInv, TypeOK
  <2>4. HitsOf(reportsToRender)' = ChosenHits'
    <3>1. HitsOf(reportsToRender) = ChosenHits
      BY <1>0, <2>3, ReportItems DEF LoopsInv, ChosenSoFar, ChosenHits
    <3> QED
      BY <1>0, <2>1, <3>1, SameInput DEF HitsOf
  <2>5. LoopsInv'
    BY <1>2, <2>1, <2>4 DEF LoopsInv
  <2>6. EntriesInv'
    BY <1>0, <1>1, <2>1, SameInput DEF EntriesInv
  <2> QED
    BY <2>2, <2>5, <2>6
<1> QED
  BY <1>3, <1>4

\* The answer of the renderer changes no decision.
LEMMA RenderStep == IInv /\ renderReportsForCluster => IInv'
<1> SUFFICES ASSUME IInv, renderReportsForCluster PROVE IInv'
  OBVIOUS
<1> USE DEF IInv
<1>0. /\ input' = input /\ pc = "render" /\ pc' \in {"send", "done"}
      /\ UNCHANGED <<next, events, reportsToRender, entries, totalMessages>>
  BY DEF renderReportsForCluster
<1>1. renderedReports' \in Seq(Rendered)
  BY AnswerIsOfRenderings DEF renderReportsForCluster, TypeOK
<1>2. TypeOK'
  BY <1>0, <1>1 DEF TypeOK
<1>3. LoopsInv'
  BY <1>0, SameInput DEF LoopsInv, HitsOf
<1>4. EntriesInv'
  BY <1>0, SameInput DEF EntriesInv, MadeOf, IsRenderingOf, createServiceLogEntry
<1> QED
  BY <1>2, <1>3, <1>4

\* An entry is made of the text found for its issue and of the issue's risk.
LEMMA SendStep == IInv /\ createAndSendServiceLogEntry => IInv'
<1> SUFFICES ASSUME IInv, createAndSendServiceLogEntry PROVE IInv'
  OBVIOUS
<1> USE DEF IInv
<1>0. /\ input' = input /\ pc = "send" /\ pc' \in {"send", "done"} /\ input \in Input
      /\ UNCHANGED <<events, reportsToRender, renderedReports>>
      /\ next' \in {next, next + 1}
      /\ reportsToRender \in Seq(IssueItem)
      /\ DOMAIN entries = 1 .. Len(entries) /\ Len(entries) \in Nat
  BY DEF createAndSendServiceLogEntry, TypeOK
<1>1. LoopsInv'
  BY <1>0, SameInput DEF LoopsInv, HitsOf
<1>2. \A sent : MadeOf(sent)' = MadeOf(sent)
  BY <1>0, SameInput DEF MadeOf, IsRenderingOf, createServiceLogEntry
<1>3. CASE UNCHANGED <<entries, totalMessages>>
  <2>1. TypeOK'
    BY <1>0, <1>3 DEF TypeOK
  <2>2. EntriesInv'
    BY <1>0, <1>2, <1>3, SameInput DEF EntriesInv
  <2> QED
    BY <1>1, <2>1, <2>2
<1>4. CASE ~ UNCHANGED <<entries, totalMessages>>
  <2> DEFINE issue == reportsToRender[next]
             from == findRenderedReport(issue.hit)[1]
             sent == [issue |-> issue, from |-> from,
                      entry |-> createServiceLogEntry(from, issue.risk)]
  <2>1. /\ next =< Len(reportsToRender)
        /\ findRenderedReport(issue.hit) # <<>>
        /\ entries' = Append(entries, sent)
        /\ totalMessages' = totalMessages + 1
    BY <1>0, <1>4 DEF createAndSendServiceLogEntry
  <2>2. next \in DOMAIN reportsToRender
    BY <1>0, <2>1 DEF TypeOK
  <2>3. issue \in IssueItem /\ issue.hit \in RuleHit /\ issue.risk = TotalRisk(issue.hit)
    <3>1. issue \in IssueItem /\ issue.risk = TotalRisk(issue.hit)
      BY <1>0, <2>2 DEF EntriesInv
    <3> HIDE DEF issue
    <3> QED
      BY <3>1 DEF IssueItem
  <2>4. from \in Rendered /\ IsRenderingOf(from, issue.hit)
    BY <2>1, FoundIsRendering DEF TypeOK
  <2> HIDE DEF issue, from
  <2>5. issue.risk \in 0 .. TotalRiskMax
    BY <1>0, <2>3, TotalRiskOfRule, RiskIsNamed
  <2>6. createServiceLogEntry(from, issue.risk) \in ServiceLogEntry
    BY <2>4, <2>5, EntryFits
  <2>7. MadeOf(sent)
    BY <2>3, <2>4 DEF MadeOf
  <2>8. sent \in [issue : IssueItem, from : Rendered, entry : ServiceLogEntry]
    BY <2>3, <2>4, <2>6
  <2> HIDE DEF sent
  <2>9. /\ entries' \in Seq([issue : IssueItem, from : Rendered, entry : ServiceLogEntry])
        /\ Len(entries') = Len(entries) + 1
        /\ \A i \in DOMAIN entries' :
             \/ i \in DOMAIN entries /\ entries'[i] = entries[i]
             \/ entries'[i] = sent
    BY <1>0, <2>1, <2>8 DEF TypeOK
  <2>10. TypeOK'
    BY <1>0, <2>1, <2>9 DEF TypeOK
  <2>11. \A i \in DOMAIN entries' : MadeOf(entries'[i])
    BY <2>7, <2>9 DEF EntriesInv
  <2>12. EntriesInv'
    BY <1>0, <1>2, <2>11, SameInput DEF EntriesInv
  <2> QED
    BY <1>1, <2>10, <2>12
<1> QED
  BY <1>3, <1>4

-----------------------------------------------------------------------------
(***************************************************************************)
(* The loops' decision is that of NotificationDB.                          *)
(***************************************************************************)

\* A rule hit is disabled by the rows just when Differ's sets disable it: a toggle
\* names its module exactly, an ack without the suffix.
LEMMA DisabledAsDiffer ==
  ASSUME input \in Input, NEW hit \in Hits, hit \in RuleHit
  PROVE  isRuleDisabled(hit) <=> Decision!isRuleDisabled(DisabledHits, Entry, hit)
<1> DEFINE toggled(h) == [rule_id |-> h.module, key |-> h.key] \in input.toggles
           acked(h) == \E row \in input.acks :
                         /\ row.key = h.key
                         /\ ~row.rule_id.suffix
                         /\ row.rule_id.path = h.module.path
                         /\ row.rule_id.name = h.module.name
           row == [rule_id |-> TrimSuffix(hit.module), key |-> hit.key]
<1>1. [entry |-> Entry, issue |-> hit] \in DisabledHits.toggles <=> toggled(hit)
  BY DEF DisabledHits
<1>2. [org |-> Entry.org, issue |-> hit] \in DisabledHits.acks <=> acked(hit)
  <2>1. DisabledHits.acks = {[org |-> Entry.org, issue |-> h] : h \in {x \in Hits : acked(x)}}
    BY DEF DisabledHits
  <2> HIDE DEF acked
  <2> QED
    BY <2>1
<1>3. hit.module \in Module
  BY DEF RuleHit
<1>4. ASSUME row \in input.acks PROVE acked(hit)
  <2>1. /\ row.key = hit.key /\ ~row.rule_id.suffix
        /\ row.rule_id.path = hit.module.path /\ row.rule_id.name = hit.module.name
    BY <1>3, PlainName
  <2> HIDE DEF row
  <2> QED
    BY <1>4, <2>1
<1>5. ASSUME acked(hit) PROVE row \in input.acks
  <2>1. PICK r \in input.acks :
          /\ r.key = hit.key
          /\ ~r.rule_id.suffix
          /\ r.rule_id.path = hit.module.path
          /\ r.rule_id.name = hit.module.name
    BY <1>5
  <2>2. r \in [rule_id : Module, key : ErrorKey]
    BY ReportsAssumption DEF Input
  <2>3. TrimSuffix(hit.module) \in Module
    BY <1>3, PlainName
  <2>4. r.rule_id = TrimSuffix(hit.module)
    BY <1>3, <2>1, <2>2, <2>3, PlainName DEF Module
  <2> QED
    BY <2>1, <2>2, <2>4
<1> HIDE DEF toggled, acked, row
<1>6. isRuleDisabled(hit) <=> toggled(hit) \/ row \in input.acks
  BY DEF isRuleDisabled, toggled, row
<1> QED
  BY <1>1, <1>2, <1>4, <1>5, <1>6 DEF Decision!isRuleDisabled

\* Halving and rounding down does not change which risks reach a threshold.
LEMMA Halving ==
  ASSUME NEW risk \in Nat, NEW threshold \in Int
  PROVE  risk \div 2 >= threshold <=> risk >= 2 * threshold
OBVIOUS

\* A rule hit passes the filters of the code just when it is important.
LEMMA PassesAsImportant ==
  ASSUME input \in Input, NEW hit \in Hits, hit \in RuleHit
  PROVE  PassesFilters(hit) <=> hit \in ImportantHits
<1> DEFINE key == <<hit.module.name, hit.key>>
           rule == findRuleByNameAndErrorKey(hit.module.name, hit.key)
           known == key \in DOMAIN input.content
           threshold == input.config.threshold
<1>0. /\ threshold \in Int /\ input.config.valid \in BOOLEAN
      /\ input.config.filterByTag \in BOOLEAN
  BY ConfigurationsAssumption DEF Input
<1>1. PassesFilters(hit) <=>
        /\ input.config.valid
        /\ calculateTotalRisk(rule.likelihood, rule.impact) >= threshold
        /\ input.config.filterByTag => input.config.tags \subseteq rule.tags
  BY PlainName DEF PassesFilters, evaluateFilterExpression, evaluateTagFilter, RuleHit
<1>2. hit \in ImportantHits <=>
        /\ input.config.valid
        /\ \/ threshold =< 0
           \/ /\ known
              /\ input.content[key].impact + input.content[key].likelihood >= 2 * threshold
        /\ \/ ~input.config.filterByTag
           \/ input.config.tags = {}
           \/ known /\ input.config.tags \subseteq input.content[key].tags
  BY DEF ImportantHits
<1>3. rule \in Rule
  BY RiskIsNamed
<1>4. rule.likelihood \in Nat /\ rule.impact \in Nat
  BY <1>3 DEF Rule
<1>5. calculateTotalRisk(rule.likelihood, rule.impact) >= threshold
        <=> rule.likelihood + rule.impact >= 2 * threshold
  <2> HIDE DEF rule, threshold
  <2>1. rule.likelihood + rule.impact \in Nat
    BY <1>4
  <2> QED
    BY <1>0, <2>1, Halving DEF calculateTotalRisk
<1>6. CASE known
  <2>1. rule = input.content[key]
    BY <1>6 DEF findRuleByNameAndErrorKey
  <2> HIDE DEF rule, key, threshold, known
  <2>2. /\ rule.likelihood + rule.impact >= 2 * threshold
            <=> rule.impact + rule.likelihood >= 2 * threshold
        /\ threshold =< 0 => rule.impact + rule.likelihood >= 2 * threshold
    BY <1>0, <1>4
  <2>3. input.config.tags = {} => input.config.tags \subseteq rule.tags
    OBVIOUS
  <2> QED
    BY <1>1, <1>2, <1>5, <1>6, <2>1, <2>2, <2>3
<1>7. CASE ~known
  <2>1. rule.likelihood = 0 /\ rule.impact = 0 /\ rule.tags = {}
    BY <1>7 DEF findRuleByNameAndErrorKey
  <2> HIDE DEF rule, key, threshold, known
  <2>2. rule.likelihood + rule.impact >= 2 * threshold <=> threshold =< 0
    BY <1>0, <2>1
  <2>3. input.config.tags \subseteq rule.tags <=> input.config.tags = {}
    BY <2>1
  <2> QED
    BY <1>1, <1>2, <1>5, <1>7, <2>2, <2>3
<1> QED
  BY <1>6, <1>7

\* What the loops choose is what getReportsWithIssuesToNotify of NotificationDB,
\* on which Differ is built, chooses.
LEMMA ChosenAsDiffer ==
  ASSUME input \in Input
  PROVE  ChosenHits = Decision!getReportsWithIssuesToNotify(
                        Hits, Entry, DisabledHits, ImportantHits, {BaselineRecord})
<1>1. Hits \subseteq RuleHit
  <2>1. input.reports \in Seq(RuleHit)
    BY ReportsAssumption DEF Input
  <2> QED
    BY <2>1, ElementsAreFinite DEF Hits
<1>2. \A hit : ShouldNotify(hit) <=> Decision!ShouldNotify({BaselineRecord}, Entry, hit)
  BY DEF ShouldNotify, Decision!ShouldNotify, Decision!IssueNotInReport, BaselineRecord
<1>3. \A hit \in Hits : Chosen(hit) <=>
        /\ ~Decision!isRuleDisabled(DisabledHits, Entry, hit)
        /\ hit \in ImportantHits
        /\ Decision!ShouldNotify({BaselineRecord}, Entry, hit)
  BY <1>1, <1>2, DisabledAsDiffer, PassesAsImportant DEF Chosen
<1> QED
  BY <1>3 DEF ChosenHits, ChosenAmong, Decision!getReportsWithIssuesToNotify

-----------------------------------------------------------------------------
(***************************************************************************)
(* The theorems.                                                           *)
(***************************************************************************)

\* The inductive invariant.
THEOREM Invariance == Spec => []IInv
<1>1. Init => IInv
  BY InitInv
<1>2. IInv /\ [Next]_vars => IInv'
  <2> SUFFICES ASSUME IInv, [Next]_vars PROVE IInv'
    OBVIOUS
  <2>1. CASE Next
    BY <2>1, KafkaStep, ServiceLogStep, RenderStep, SendStep DEF Next
  <2>2. CASE UNCHANGED vars
    <3> USE DEF IInv
    <3>1. TypeOK'
      BY <2>2 DEF TypeOK, vars
    <3>2. next' - 1 = next - 1 /\ ChosenSoFar' = ChosenSoFar
      BY <2>2, SameInput DEF vars, ChosenSoFar
    <3>3. LoopsInv'
      BY <2>2, <3>2, SameInput DEF LoopsInv, HitsOf, vars
    <3>4. EntriesInv'
      BY <2>2, SameInput
      DEF EntriesInv, MadeOf, IsRenderingOf, createServiceLogEntry, vars
    <3> QED
      BY <3>1, <3>3, <3>4
  <2> QED
    BY <2>1, <2>2
<1> QED
  BY <1>1, <1>2, PTL DEF Spec

\* The variables have their types; in particular an entry always has a severity of
\* Service Log, and the messages that are counted are the entries that were sent.
THEOREM TypeCorrect == Spec => []TypeOK
<1>1. IInv => TypeOK
  BY DEF IInv
<1> QED
  BY <1>1, Invariance, PTL

\* Both loops of differ.go choose what getReportsWithIssuesToNotify of
\* NotificationDB does, for any rules, reports, toggles, acks, baselines and
\* filters: the copies agree, and Differ's constant Important and its sets of
\* disabled issues stand for what the code computes.
THEOREM LoopsCorrect == Spec => []LoopsImplementDecision
<1>1. IInv => LoopsImplementDecision
  <2> SUFFICES ASSUME IInv PROVE LoopsImplementDecision
    OBVIOUS
  <2>1. ChosenHits = Decision!getReportsWithIssuesToNotify(
                       Hits, Entry, DisabledHits, ImportantHits, {BaselineRecord})
    BY ChosenAsDiffer DEF IInv, TypeOK
  <2>2. pc # "kafka" => HitsOf(events) = ChosenHits
    BY DEF IInv, LoopsInv
  <2>3. pc \notin {"kafka", "serviceLog"} => HitsOf(reportsToRender) = ChosenHits
    BY DEF IInv, LoopsInv
  <2> QED
    BY <2>1, <2>2, <2>3 DEF LoopsImplementDecision, HitsOf
<1> QED
  BY <1>1, Invariance, PTL

\* What is known of one entry.
LEMMA OneEntry ==
  ASSUME IInv, NEW i \in DOMAIN entries
  PROVE  /\ entries[i].issue.hit \in RuleHit
         /\ entries[i].from \in Rendered
         /\ entries[i].issue.risk \in 0 .. TotalRiskMax
         /\ MadeOf(entries[i])
<1> DEFINE sent == entries[i]
           Sent == [issue : IssueItem, from : Rendered, entry : ServiceLogEntry]
<1>1. sent \in Sent
  <2>1. entries \in Seq(Sent)
    BY DEF IInv, TypeOK
  <2> HIDE DEF Sent
  <2> QED
    BY <2>1
<1>2. MadeOf(sent)
  BY DEF IInv, EntriesInv
<1> HIDE DEF sent
<1>3. sent.issue.hit \in RuleHit /\ sent.from \in Rendered
  BY <1>1 DEF IssueItem
<1>4. sent.issue.risk \in 0 .. TotalRiskMax
  BY <1>2, <1>3, TotalRiskOfRule, RiskIsNamed DEF MadeOf, IInv, TypeOK
<1> QED
  BY <1>2, <1>3, <1>4 DEF sent

\* Every entry of Service Log was made of a text rendered for its issue's rule,
\* whatever the renderer answered, and its severity is in the order of the risks.
THEOREM EntriesCorrect == Spec => []EntriesAreOfTheirIssues
<1>1. IInv => EntriesAreOfTheirIssues
  <2> SUFFICES ASSUME IInv PROVE EntriesAreOfTheirIssues
    OBVIOUS
  <2> DEFINE rule(n) == findRuleByNameAndErrorKey(
                          entries[n].issue.hit.module.name, entries[n].issue.hit.key)
             risk(n) == rule(n).impact + rule(n).likelihood
             rank(n) == SeverityRank(entries[n].entry)
  <2>1. ASSUME NEW n \in DOMAIN entries
        PROVE  /\ entries[n].from.rule_id.name = entries[n].issue.hit.module.name
               /\ entries[n].from.error_key = entries[n].issue.hit.key
    <3>1. /\ entries[n].from.rule_id \in Module /\ ~entries[n].from.rule_id.suffix
          /\ entries[n].issue.hit.module \in Module
      BY OneEntry DEF Rendered, RuleHit
    <3>2. IsRenderingOf(entries[n].from, entries[n].issue.hit)
      BY OneEntry DEF MadeOf
    <3> QED
      BY <3>1, <3>2, PlainName DEF IsRenderingOf, ruleIDToRuleName
  <2>2. ASSUME NEW n \in DOMAIN entries
        PROVE  /\ risk(n) \in Nat
               /\ rank(n) = IF risk(n) \div 2 = 0 THEN 1 ELSE risk(n) \div 2
    <3>1. rule(n) \in Rule
      BY RiskIsNamed DEF IInv, TypeOK
    <3>2. entries[n].issue.risk = calculateTotalRisk(rule(n).likelihood, rule(n).impact)
      BY OneEntry, TotalRiskOfRule DEF MadeOf
    <3>3. entries[n].entry.severity = getServiceLogSeverity(entries[n].issue.risk)
      BY OneEntry, EntryFits DEF MadeOf
    <3>4. rank(n) = IF entries[n].issue.risk = 0 THEN 1 ELSE entries[n].issue.risk
      BY <3>3, OneEntry, SeverityOfRisk
    <3>5. rule(n).likelihood \in Nat /\ rule(n).impact \in Nat
      BY <3>1 DEF Rule
    <3> HIDE DEF rule, rank
    <3>6. rule(n).likelihood + rule(n).impact = rule(n).impact + rule(n).likelihood
      BY <3>5
    <3> QED
      BY <3>2, <3>4, <3>5, <3>6 DEF calculateTotalRisk
  <2> HIDE DEF risk, rank
  <2>3. ASSUME NEW i \in DOMAIN entries, NEW j \in DOMAIN entries, risk(i) + 2 =< risk(j)
        PROVE  rank(i) < rank(j) \/ risk(i) < 2
    <3>1. \A a, b \in Nat : a + 2 =< b /\ ~ (a < 2) =>
            /\ a \div 2 # 0 /\ b \div 2 # 0
            /\ a \div 2 < b \div 2
      OBVIOUS
    <3> QED
      BY <2>2, <2>3, <3>1
  <2> QED
    BY <2>1, <2>3 DEF EntriesAreOfTheirIssues, risk, rank
<1> QED
  BY <1>1, Invariance, PTL

\* Every entry is within the limits of Service Log and says as much of the texts as
\* they allow, for any texts and any limits.
THEOREM EntriesWithinLimits == Spec => []EntriesFit
<1>1. IInv => EntriesFit
  <2> SUFFICES ASSUME IInv, NEW i \in DOMAIN entries
               PROVE  /\ IsAbridged(entries[i].entry.summary, entries[i].from.text,
                                    SummaryMaxLength)
                      /\ IsAbridged(entries[i].entry.description,
                                    Joined(entries[i].from.text, Link),
                                    DescriptionMaxLength)
    BY DEF EntriesFit
  <2> QED
    BY OneEntry, EntryFits DEF MadeOf
<1> QED
  BY <1>1, Invariance, PTL
=============================================================================
