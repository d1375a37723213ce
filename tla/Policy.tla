------------------------------ MODULE Policy -------------------------------
(***************************************************************************)
(* What a policy document says about one request (guardrails/policy), and  *)
(* how two documents are layered (guardrails/manifest): matching, the      *)
(* precedence between rules, argument constraints, the mode, validation,   *)
(* Compose and MaxVerdict.  There is no state here: what the signals read  *)
(* and whether a rate limit is exceeded are parameters.                    *)
(*                                                                         *)
(* Selectors are sets of names, "*" among them; spelling (case) is left    *)
(* out.  An argument is one value with a kind, and whether it is within    *)
(* the bounds that a constraint on that kind sets.                         *)
(***************************************************************************)
EXTENDS Naturals, Sequences, SequencesExt, FiniteSetsExt

SeverityAllow == 0
SeverityWarn  == 1
SeverityHold  == 2
SeverityDeny  == 3
SeverityKill  == 4
Severity == SeverityAllow .. SeverityKill

Status == {"pass", "fail", "error", "skip"}

\* PolicyMode.clamp: audit mode caps, it does not skip.
clamp(mode, s) == IF mode = "enforce" \/ s < SeverityWarn THEN s ELSE SeverityWarn

-----------------------------------------------------------------------------
(* Matching.                                                                *)

SetContains(set, v) == "*" \in set \/ v \in set

\* The selectors of one match are ANDed, the values of one selector ORed; a match
\* without a selector selects nothing.
matchesLimit(m, subj) ==
  /\ m.tool # {} => SetContains(m.tool, subj.name)
  /\ m.toolset # {} => SetContains(m.toolset, subj.toolset)
  /\ m.annotation # {} => \E have \in subj.annotations : SetContains(m.annotation, have)
  /\ m.tool # {} \/ m.toolset # {} \/ m.annotation # {}

matches(r, subj) ==
  /\ r.scope = subj.scope
  /\ subj.scope = "startup" \/ matchesLimit(r.match, subj)

\* Rule.specificity: a wildcard is the broadest selector, not the narrowest.
specificity(r) ==
  CASE r.match.tool # {} /\ "*" \notin r.match.tool -> 3
    [] (r.match.tool = {} \/ "*" \in r.match.tool) /\ r.match.annotation # {} -> 2
    [] (r.match.tool = {} \/ "*" \in r.match.tool) /\ r.match.annotation = {}
       /\ r.match.toolset # {} /\ "*" \notin r.match.toolset -> 1
    [] OTHER -> 0

-----------------------------------------------------------------------------
(* Evaluation.                                                              *)

\* The attribution loop of evaluateSignals: every matching rule adds what it requires,
\* and takes a signal over unless the rule that has it is more specific.
Take(acc, r, subj) ==
  IF ~matches(r, subj) THEN acc
  ELSE [id \in DOMAIN acc \cup r.require |->
         IF id \notin r.require
            \/ (id \in DOMAIN acc /\ acc[id].specificity > specificity(r))
         THEN acc[id]
         ELSE [severity |-> r.onFail, specificity |-> specificity(r)]]

attributed(doc, subj) ==
  LET after[i \in 0 .. Len(doc.rules)] ==
        IF i = 0 THEN <<>> ELSE Take(after[i - 1], doc.rules[i], subj)
  IN after[Len(doc.rules)]

\* constraintFailures: absent is not compliant, nor is a value of the wrong type.  A
\* subject without argument context (nil) skips the constraints.
constraintFails(r, arg) ==
  /\ arg.kind # "nil" /\ r.constraint # {}
  /\ \/ arg.kind = "absent"
     \/ \E bound \in r.constraint : arg.kind # bound \/ ~arg.within

\* What one reading adds to the verdict of a document that attributes it to a.
readingSeverity(status, a) ==
  CASE status = "skip" -> SeverityWarn
    [] status \in {"fail", "error"} -> a.severity
    [] OTHER -> SeverityAllow

\* Verdict.Intended: the worst failure among the constraints, the signals as they were
\* read, and the rate limits.
Intended(doc, subj, reading, exceeded) ==
  LET a == attributed(doc, subj)
      constraints == {r.onFail : r \in {q \in Range(doc.rules) :
                                          matches(q, subj) /\ constraintFails(q, subj.arg)}}
      signals == {readingSeverity(reading[id], a[id]) : id \in DOMAIN a}
  IN Max({SeverityAllow, exceeded} \cup constraints \cup signals)

\* RequiresPlan: the planning tools themselves are never gated.
RequiresPlan(doc, subj) ==
  /\ subj.scope = "call" /\ subj.toolset # "planning"
  /\ \E m \in doc.requirePlan : matchesLimit(m, subj)

\* What Policy.Validate asks of a rule: it selects something and can fail, its signals are
\* declared, and a startup rule neither holds nor looks at arguments.
ValidRule(doc, r) ==
  /\ r.scope \in {"call", "startup"}
  /\ r.scope = "call" /\ specificity(r) = 0 => "*" \in r.match.toolset
  /\ r.require # {} \/ r.constraint # {}
  /\ r.scope = "startup" => r.onFail # SeverityHold /\ r.constraint = {}
  /\ r.require \subseteq DOMAIN doc.ttl

\* A limit has a window and a number of calls, and no single call to hold.
ValidRateLimit(l) == l.window > 0 /\ l.max > 0 /\ l.onExceed # SeverityHold

ValidRequirePlan(m) == m.tool # {} \/ m.toolset # {} \/ m.annotation # {}

usesHold(doc) == \E r \in Range(doc.rules) : r.onFail = SeverityHold /\ r.scope = "call"

\* validateApprovals: a document that holds calls names somebody to ask.
validateApprovals(doc) == usesHold(doc) => doc.webhook

\* A document as it is decoded, before it is validated.
Decoded(d) ==
  /\ DOMAIN d = {"mode", "rules", "ttl", "limits", "requirePlan", "webhook"}
  /\ d.rules \in Seq(Range(d.rules)) /\ d.limits \in Seq(Range(d.limits))
  /\ \A r \in Range(d.rules) : r.require \subseteq Nat /\ r.onFail \in Severity
  /\ DOMAIN d.ttl \subseteq Nat /\ \A id \in DOMAIN d.ttl : d.ttl[id] \in Nat
  /\ \A l \in Range(d.limits) : {l.window, l.max} \subseteq Nat /\ l.onExceed \in Severity

Validate(doc) ==
  /\ doc.mode \in {"audit", "enforce"}
  /\ \A r \in Range(doc.rules) : ValidRule(doc, r)
  /\ \A l \in Range(doc.limits) : ValidRateLimit(l)
  /\ \A m \in doc.requirePlan : ValidRequirePlan(m)
  /\ validateApprovals(doc)

-----------------------------------------------------------------------------
(* Layering.                                                                *)

\* Enforcement can be added by a layer, never removed.
ComposedMode(docs) ==
  IF \E i \in 1 .. Len(docs) : docs[i].mode = "enforce" THEN "enforce" ELSE "audit"

ComposeMerged(docs) ==
  <<[docs[1] EXCEPT !.mode = ComposedMode(docs),
                    !.rules = FlattenSeq([i \in 1 .. Len(docs) |-> docs[i].rules])]>>

\* The rule layers of Compose: they stay separate documents, each promoted to the stricter
\* mode.  docs is the managed document and the user's, those there are.
Compose(docs) == [i \in 1 .. Len(docs) |-> [docs[i] EXCEPT !.mode = ComposedMode(docs)]]
=============================================================================
