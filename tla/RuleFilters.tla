----------------------------- MODULE RuleFilters -----------------------------
(***************************************************************************)
(* What a job does with the rule hits of one report: the loop that decides *)
(* which of them are worth a notification (written twice in differ.go,     *)
(* once per target) and the Service Log entries made from them.  Differ    *)
(* takes the outcome of the filters as its constant Important and an issue *)
(* as one value; here a rule hit has the module it was found by, whose     *)
(* name is written in three formats, and the risk the content service      *)
(* gives its rule.                                                         *)
(*                                                                         *)
(* The inputs are chosen by Init and never change; both loops are run over *)
(* them, one rule hit per step.                                            *)
(***************************************************************************)
EXTENDS Integers, SequencesExt

CONSTANTS
  Path, RuleName, ErrorKey, Tag,
  Reports,         \* lists of rule hits a report may have
  Contents,        \* what the content service may know of the rules: for some pairs of
                   \* a plain name and an error key [likelihood, impact, tags]
  ToggleRows, AckRows,    \* what the aggregator database may have for the cluster
  Baselines,       \* what the last sent record may hold
  Configurations,  \* the filters of the target: [threshold, valid, filterByTag, tags];
                   \* `valid` says that the event filter can be evaluated
  Texts,           \* texts the template renderer may produce
  Link,            \* what is appended to the description of an entry
  SummaryMaxLength, DescriptionMaxLength

\* A module name: a path, the plain rule name and the suffix ".report".
Module == [path : Path, name : RuleName, suffix : BOOLEAN]

\* A rule hit.  `module` is the "component" of the report, `key` its "key".
RuleHit == [module : Module, key : ErrorKey]

\* A text is the sequence of the numbers of bytes (in UTF-8) up to the end of each of
\* its characters, so it says at which bytes it can be cut without harm.
End(text, i) == IF i = 0 THEN 0 ELSE text[i]

IsText(text) ==
  /\ text \in Seq(Nat)
  /\ \A i \in DOMAIN text : text[i] - End(text, i - 1) \in 1 .. 4

Bytes(text) == End(text, Len(text))

\* Two texts, one after the other.
Joined(text, more) == text \o [i \in DOMAIN more |-> Bytes(text) + more[i]]

\* A byte that belongs to no character becomes U+FFFD when the entry is encoded as
\* JSON; it is marked by an end no character has.
Replacement == 0

\* TotalRiskLow ... TotalRiskCritical.
TotalRiskMax == 4

Rule == [likelihood : Nat, impact : Nat, tags : SUBSET Tag]

ASSUME ReportsAssumption ==
  /\ Reports \subseteq Seq(RuleHit)
  /\ Baselines \subseteq SUBSET RuleHit
  /\ ToggleRows \union AckRows \subseteq SUBSET [rule_id : Module, key : ErrorKey]

\* The content service rates rules so that their total risk has a name.
ASSUME ContentsAssumption ==
  \A content \in Contents : \A rule \in DOMAIN content :
    /\ rule \in RuleName \X ErrorKey
    /\ content[rule] \in Rule
    /\ (content[rule].impact + content[rule].likelihood) \div 2 =< TotalRiskMax

ASSUME ConfigurationsAssumption ==
  Configurations \subseteq
    [threshold : Int, valid : BOOLEAN, filterByTag : BOOLEAN, tags : SUBSET Tag]

ASSUME TextsAssumption ==
  /\ \A text \in Texts \union {Link} : IsText(text)
  /\ SummaryMaxLength \in Nat
  /\ DescriptionMaxLength \in Nat

VARIABLES
  input,            \* what the loops are given
  pc,
  next,             \* the rule hit the loop has come to
  events,           \* Kafka: the events of the message
  reportsToRender,  \* Service Log: the issues with their total risk
  renderedReports,  \* the answer of the template renderer
  entries,          \* what Service Log gets
  totalMessages

vars == <<input, pc, next, events, reportsToRender, renderedReports, entries,
          totalMessages>>

Init ==
  /\ input \in [reports : Reports, content : Contents, toggles : ToggleRows,
                acks : AckRows, baseline : Baselines, config : Configurations]
  /\ pc = "kafka"
  /\ next = 1
  /\ events = <<>>
  /\ reportsToRender = <<>>
  /\ renderedReports = <<>>
  /\ entries = <<>>
  /\ totalMessages = 0

-----------------------------------------------------------------------------
(***************************************************************************)
(* Names, risks and filters.                                               *)
(***************************************************************************)

TrimSuffix(module) == [module EXCEPT !.suffix = FALSE]

\* A name in which the suffix is left would end in "report".
ruleIDToRuleName(ruleID) == IF ruleID.suffix THEN "report" ELSE ruleID.name

moduleToRuleName(module) == ruleIDToRuleName(TrimSuffix(module))

\* The toggles have the module as it is, the acks have it without the suffix.
isRuleDisabled(hit) ==
  \/ [rule_id |-> hit.module, key |-> hit.key] \in input.toggles
  \/ [rule_id |-> TrimSuffix(hit.module), key |-> hit.key] \in input.acks

\* Faulty variant: the quotient is rounded up.
calculateTotalRisk_RoundedUp(impact, likelihood) == (impact + likelihood + 1) \div 2

calculateTotalRisk(impact, likelihood) == (impact + likelihood) \div 2

\* A rule the content service does not know has no risk and no tags.
findRuleByNameAndErrorKey(ruleName, key) ==
  IF <<ruleName, key>> \in DOMAIN input.content
  THEN input.content[<<ruleName, key>>]
  ELSE [likelihood |-> 0, impact |-> 0, tags |-> {}]

TotalRisk(hit) ==
  LET rule == findRuleByNameAndErrorKey(moduleToRuleName(hit.module), hit.key)
  IN  calculateTotalRisk(rule.likelihood, rule.impact)

\* "totalRisk >= totalRiskThreshold", or an expression that cannot be evaluated:
\* then the rule hit is passed over.
evaluateFilterExpression(totalRisk) ==
  input.config.valid /\ totalRisk >= input.config.threshold

evaluateTagFilter(tags) == input.config.filterByTag => input.config.tags \subseteq tags

ShouldNotify(hit) == hit \notin input.baseline

PassesFilters(hit) ==
  LET rule == findRuleByNameAndErrorKey(moduleToRuleName(hit.module), hit.key)
  IN  /\ evaluateFilterExpression(calculateTotalRisk(rule.likelihood, rule.impact))
      /\ evaluateTagFilter(rule.tags)

-----------------------------------------------------------------------------
(***************************************************************************)
(* The two loops.                                                          *)
(***************************************************************************)

\* produceEntriesToKafka: an event for every rule hit that passes.
AppendEvents ==
  /\ pc = "kafka"
  /\ IF next =< Len(input.reports)
     THEN LET hit == input.reports[next] IN
          /\ events' = IF /\ ~isRuleDisabled(hit)
                          /\ PassesFilters(hit)
                          /\ ShouldNotify(hit)
                       THEN Append(events, [hit |-> hit, risk |-> TotalRisk(hit)])
                       ELSE events
          /\ next' = next + 1
          /\ UNCHANGED pc
     ELSE /\ pc' = "serviceLog"
          /\ next' = 1
          /\ UNCHANGED events
  /\ UNCHANGED <<input, reportsToRender, renderedReports, entries, totalMessages>>

\* The same for Service Log; TotalRisk is kept in the report item.
getReportsWithIssuesToNotify ==
  /\ pc = "serviceLog"
  /\ IF next =< Len(input.reports)
     THEN LET hit == input.reports[next] IN
          /\ reportsToRender' =
               IF /\ ~isRuleDisabled(hit)
                  /\ PassesFilters(hit)
                  /\ ShouldNotify(hit)
               THEN Append(reportsToRender, [hit |-> hit, risk |-> TotalRisk(hit)])
               ELSE reportsToRender
          /\ next' = next + 1
          /\ UNCHANGED pc
     ELSE /\ pc' = IF reportsToRender = <<>> THEN "done" ELSE "render"
          /\ next' = 1
          /\ UNCHANGED reportsToRender
  /\ UNCHANGED <<input, events, renderedReports, entries, totalMessages>>

-----------------------------------------------------------------------------
(***************************************************************************)
(* The Service Log entries.                                                *)
(***************************************************************************)

\* The template renderer (another service) answers with an error, or with texts
\* for some of the rule hits, in any order.
renderReportsForCluster ==
  /\ pc = "render"
  /\ \/ /\ pc' = "done"
        /\ UNCHANGED renderedReports
     \/ /\ pc' = "send"
        /\ \E some \in SUBSET ToSet(reportsToRender), text \in Texts :
             \E order \in SetToSeqs(some) :
               renderedReports' =
                 [i \in DOMAIN order |->
                    [rule_id |-> TrimSuffix(order[i].hit.module),
                     error_key |-> order[i].hit.key, text |-> text]]
  /\ UNCHANGED <<input, next, events, reportsToRender, entries, totalMessages>>

IsRenderingOf(rendered, hit) ==
  /\ ruleIDToRuleName(rendered.rule_id) = moduleToRuleName(hit.module)
  /\ rendered.error_key = hit.key

\* Faulty variant: the texts are taken in the order in which they were asked for.
findRenderedReport_ByPosition(hit) ==
  IF next =< Len(renderedReports) THEN <<renderedReports[next]>> ELSE <<>>

\* The first one that matches, or none.
findRenderedReport(hit) ==
  LET matching == {i \in DOMAIN renderedReports :
                     IsRenderingOf(renderedReports[i], hit)}
  IN  IF matching = {} THEN <<>>
      ELSE <<renderedReports[CHOOSE i \in matching : \A j \in matching : i =< j]>>

\* Faulty variant: one byte too many.
Truncated_OffByOne(text, max) ==
  LET whole == CHOOSE n \in 0 .. Len(text) :
                 /\ End(text, n) =< max + 1
                 /\ n < Len(text) => text[n + 1] > max + 1
      rest == max + 1 - End(text, whole)
  IN  IF Bytes(text) =< max THEN text
      ELSE SubSeq(text, 1, whole) \o [i \in 1 .. rest |-> Replacement]

\* The text is cut after so many bytes, then encoded as JSON: what is left of a
\* character that was cut through becomes one replacement character per byte.
Truncated(text, max) ==
  LET whole == CHOOSE n \in 0 .. Len(text) :
                 /\ End(text, n) =< max
                 /\ n < Len(text) => text[n + 1] > max
      rest == max - End(text, whole)
  IN  IF Bytes(text) =< max THEN text
      ELSE SubSeq(text, 1, whole) \o [i \in 1 .. rest |-> Replacement]

getServiceLogSeverity(totalRisk) ==
  IF totalRisk \in 1 .. TotalRiskMax
  THEN <<"Low", "Moderate", "Important", "Critical">>[totalRisk]
  ELSE "Low"

createServiceLogEntry(rendered, totalRisk) ==
  [summary |-> Truncated(rendered.text, SummaryMaxLength),
   description |-> Truncated(Joined(rendered.text, Link), DescriptionMaxLength),
   severity |-> getServiceLogSeverity(totalRisk)]

\* One issue of the loop of ProduceEntriesToServiceLog.  An issue without a text
\* is passed over; an entry may fail to be sent, and is not counted then.
createAndSendServiceLogEntry ==
  /\ pc = "send"
  /\ IF next =< Len(reportsToRender)
     THEN LET issue == reportsToRender[next]
              found == findRenderedReport(issue.hit)
          IN
          /\ \/ UNCHANGED <<entries, totalMessages>>
             \/ /\ found # <<>>
                /\ entries' = Append(entries,
                     [issue |-> issue, from |-> found[1],
                      entry |-> createServiceLogEntry(found[1], issue.risk)])
                /\ totalMessages' = totalMessages + 1
          /\ next' = next + 1
          /\ UNCHANGED pc
     ELSE /\ pc' = "done"
          /\ UNCHANGED <<next, entries, totalMessages>>
  /\ UNCHANGED <<input, events, reportsToRender, renderedReports>>

Next ==
  \/ AppendEvents
  \/ getReportsWithIssuesToNotify
  \/ renderReportsForCluster
  \/ createAndSendServiceLogEntry

Spec == Init /\ [][Next]_vars

-----------------------------------------------------------------------------
(***************************************************************************)
(* Properties.                                                             *)
(***************************************************************************)

Entry == [org |-> "org", cluster |-> "cluster"]

\* The decision as Differ takes it.
Decision == INSTANCE NotificationDB
  WITH Org <- {Entry.org}, Cluster <- {Entry.cluster}, Issue <- RuleHit,
       Malformed <- "malformed", Cooldown <- 0, MaxAge <- 0,
       Allowed <- {}, Blocked <- {},
       FilterAllowedClusters <- FALSE, FilterBlockedClusters <- FALSE

Hits == ToSet(input.reports)

\* What Differ holds of the rows: the rule hits each of them is about.  Toggles
\* name them exactly, acks without their suffix.
DisabledHits ==
  [toggles |-> {[entry |-> Entry, issue |-> hit] :
                  hit \in {h \in Hits : [rule_id |-> h.module, key |-> h.key]
                                          \in input.toggles}},
   acks |-> {[org |-> Entry.org, issue |-> hit] :
               hit \in {h \in Hits : \E row \in input.acks :
                          /\ row.key = h.key
                          /\ ~row.rule_id.suffix
                          /\ row.rule_id.path = h.module.path
                          /\ row.rule_id.name = h.module.name}}]

\* The rule hits the filters are meant to let through: those with at least the
\* average of impact and likelihood the threshold asks for, and all the tags.
ImportantHits ==
  {hit \in Hits :
     LET rule == <<hit.module.name, hit.key>>
         known == rule \in DOMAIN input.content
     IN
     /\ input.config.valid
     /\ \/ input.config.threshold =< 0
        \/ /\ known
           /\ input.content[rule].impact + input.content[rule].likelihood
                >= 2 * input.config.threshold
     /\ \/ ~input.config.filterByTag
        \/ input.config.tags = {}
        \/ known /\ input.config.tags \subseteq input.content[rule].tags}

BaselineRecord == [entry |-> Entry, report |-> input.baseline]

\* Both loops, whatever the formats of the names are, the order of the rule hits
\* and the rounding of the total risk, choose the issues that
\* getReportsWithIssuesToNotify of NotificationDB chooses: they agree with each
\* other (their bodies are copies, differ.go:500, :666) and with what Differ
\* assumes of them.
LoopsImplementDecision ==
  LET chosen == Decision!getReportsWithIssuesToNotify(
                  Hits, Entry, DisabledHits, ImportantHits, {BaselineRecord})
  IN  /\ pc # "kafka" => {event.hit : event \in ToSet(events)} = chosen
      /\ pc \notin {"kafka", "serviceLog"} =>
           {issue.hit : issue \in ToSet(reportsToRender)} = chosen

SeverityRank(entry) ==
  CHOOSE rank \in 1 .. TotalRiskMax :
    <<"Low", "Moderate", "Important", "Critical">>[rank] = entry.severity

\* Every entry has the text that was rendered for a rule of its issue's name and
\* error key, however the answer of the renderer is ordered and whatever it
\* leaves out, and no issue is shown as less severe than one whose impact and
\* likelihood are together smaller by two or more.
EntriesAreOfTheirIssues ==
  /\ \A i \in DOMAIN entries :
       LET sent == entries[i] IN
       /\ sent.from.rule_id.name = sent.issue.hit.module.name
       /\ sent.from.error_key = sent.issue.hit.key
  /\ \A i, j \in DOMAIN entries :
       LET rule(n) == findRuleByNameAndErrorKey(
                        entries[n].issue.hit.module.name, entries[n].issue.hit.key)
           risk(n) == rule(n).impact + rule(n).likelihood
       IN  risk(i) + 2 =< risk(j)
             => \/ SeverityRank(entries[i].entry) < SeverityRank(entries[j].entry)
                \/ risk(i) < 2

\* What Service Log receives of a text: the text if it fits; otherwise its first
\* characters, at most one of them destroyed, and no more characters than the
\* limit (in bytes the replacement characters may take up more than it).
IsAbridged(received, text, max) ==
  /\ Len(received) =< max
  /\ Bytes(text) =< max => received = text
  /\ Bytes(text) > max =>
       LET kept == {i \in DOMAIN received : received[i] # Replacement} IN
       /\ \A i \in kept : received[i] = text[i] /\ (1 .. i) \subseteq kept
       /\ Len(received) - Cardinality(kept) =< 3
       /\ Cardinality(kept) < Len(text)
       /\ text[Cardinality(kept) + 1] > max

\* Entries are within the limits of Service Log (which refuses longer ones) and
\* say as much of the texts as these allow.
EntriesFit ==
  \A i \in DOMAIN entries :
    LET sent == entries[i] IN
    /\ IsAbridged(sent.entry.summary, sent.from.text, SummaryMaxLength)
    /\ IsAbridged(sent.entry.description, Joined(sent.from.text, Link),
                  DescriptionMaxLength)
=============================================================================
