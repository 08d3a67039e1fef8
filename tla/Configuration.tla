--------------------------- MODULE Configuration ---------------------------
(***************************************************************************)
(* Versioned configuration: pricing rule sets, knowledge entries and agent *)
(* settings (business-rule.service.ts, knowledge.service.ts and            *)
(* agent-settings.service.ts of apps/api/src/configuration), and the price *)
(* decisions taken from the published rules.                               *)
(*                                                                         *)
(* A subject is a rule set, an entry, or the settings of the tenant.  It   *)
(* has numbered versions, whose content never changes.  A manager works    *)
(* from a screen.  Rule sets and entries have a counter of changes, which  *)
(* the screen reads before the versions and the command compares under the *)
(* row's lock; the settings compare the number of the latest version under *)
(* an advisory lock.                                                       *)
(***************************************************************************)
EXTENDS Integers, Sequences

CONSTANTS
  Counted,      \* rule sets and knowledge entries
  Settings,     \* agent settings
  Managers,     \* members with configuration:manage
  Quotes,       \* requests for a price
  MaxVersions,  \* bound on the versions of a subject
  HistoryLimit  \* versions a screen lists, 100 in the code

Subjects == Counted \cup Settings

ASSUME ConfigurationAssumption ==
  /\ MaxVersions \in Nat
  /\ HistoryLimit \in Nat \ {0}
  /\ Counted \cap Settings = {}

VersionStatus == {"draft", "published", "superseded"}

VARIABLES
  status,    \* the statuses of a subject's versions, in order
  published, \* versions that have a published_at
  counter,   \* business_rule_sets.version, knowledge_entries.version
  screen,    \* what each manager has loaded of each subject
  pricing,   \* the version a price is being evaluated with, 0 for none
  decisions  \* pricing_decisions: [subject, version]

configVars == <<status, published, counter, screen, pricing, decisions>>

\* expected: the counter, or the latest version; 0 where there is none.
NoScreen == [step |-> "closed", expected |-> 0, draft |-> 0, live |-> 0]

ConfigInit ==
  /\ status = [s \in Subjects |-> << >>]
  /\ published = [s \in Subjects |-> {}]
  /\ counter = [s \in Subjects |-> 0]
  /\ screen = [m \in Managers |-> [s \in Subjects |-> NoScreen]]
  /\ pricing = [q \in Quotes |-> [s \in Counted |-> 0]]
  /\ decisions = {}

Latest(s) == Len(status[s])

With(s, what) == {v \in 1..Latest(s) : status[s][v] = what}

Listed(s) == {v \in 1..Latest(s) : v > Latest(s) - HistoryLimit}

\* The newest listed version with a status, as Array.find over the history.
Shown(s, what) ==
  LET V == {v \in Listed(s) : status[s][v] = what}
  IN IF V = {} THEN 0 ELSE CHOOSE v \in V : \A w \in V : w <= v

Exists(s) == s \in Settings \/ Latest(s) > 0

\* create of a rule set or an entry: version 1 is a draft.
CreateSubject(s) ==
  /\ s \in Counted
  /\ ~Exists(s)
  /\ MaxVersions > 0
  /\ status' = [status EXCEPT ![s] = <<"draft">>]
  /\ counter' = [counter EXCEPT ![s] = 1]
  /\ UNCHANGED <<published, screen, pricing, decisions>>

Opens(m, s, view) ==
  /\ screen' = [screen EXCEPT ![m][s] = view]
  /\ UNCHANGED <<status, published, counter, pricing, decisions>>

\* The first statement of loadRuleSet and loadEntry.
OpenCounted(m, s) ==
  /\ s \in Counted
  /\ Exists(s)
  /\ screen[m][s].step # "loading"
  /\ Opens(m, s, [NoScreen EXCEPT !.step = "loading", !.expected = counter[s]])

\* The second statement: the history.
LoadVersions(m, s) ==
  /\ screen[m][s].step = "loading"
  /\ Opens(m, s, [step |-> "open", expected |-> screen[m][s].expected,
                  draft |-> Shown(s, "draft"), live |-> Shown(s, "published")])

\* loadHistory of the settings is one statement.
OpenSettings(m, s) ==
  /\ s \in Settings
  /\ Opens(m, s, [step |-> "open", expected |-> Latest(s),
                  draft |-> Shown(s, "draft"), live |-> Shown(s, "published")])

\* The expectation of a screen is met.
Current_Any(m, s) == screen[m][s].step = "open"

Current(m, s) ==
  /\ screen[m][s].step = "open"
  /\ screen[m][s].expected = IF s \in Counted THEN counter[s] ELSE Latest(s)

Supersede(s, what) ==
  [v \in 1..Latest(s) |-> IF status[s][v] = what THEN "superseded" ELSE status[s][v]]

Counts(s) == counter' = IF s \in Counted THEN [counter EXCEPT ![s] = @ + 1] ELSE counter

SaveDraft_SupersedesAll(m, s) ==
  /\ Current(m, s)
  /\ Latest(s) < MaxVersions
  /\ status' = [status EXCEPT ![s] = Append([v \in 1..Latest(s) |-> "superseded"], "draft")]
  /\ Counts(s)
  /\ screen' = [screen EXCEPT ![m][s] = NoScreen]
  /\ UNCHANGED <<published, pricing, decisions>>

SaveDraft(m, s) ==
  /\ Current(m, s)
  /\ Latest(s) < MaxVersions
  /\ status' = [status EXCEPT ![s] = Append(Supersede(s, "draft"), "draft")]
  /\ Counts(s)
  /\ screen' = [screen EXCEPT ![m][s] = NoScreen]
  /\ UNCHANGED <<published, pricing, decisions>>

\* The settings publish their latest version only.
Publishable(s, v) ==
  /\ v \in 1..Latest(s)
  /\ status[s][v] = "draft"
  /\ s \in Settings => v = Latest(s)

PublishVersion(m, s) ==
  LET v == screen[m][s].draft
  IN /\ Current(m, s)
     /\ Publishable(s, v)
     /\ status' = [status EXCEPT ![s] = [Supersede(s, "published") EXCEPT ![v] = "published"]]
     /\ published' = [published EXCEPT ![s] = @ \cup {v}]
     /\ Counts(s)
     /\ screen' = [screen EXCEPT ![m][s] = NoScreen]
     /\ UNCHANGED <<pricing, decisions>>

\* evaluate takes no lock: the version may be superseded before the decision is
\* stored, and a trigger of the table refuses it then.
ReadPolicy(q, s) ==
  \E v \in 1..Latest(s) :
    /\ status[s][v] = "published"
    /\ pricing[q][s] = 0
    /\ pricing' = [pricing EXCEPT ![q][s] = v]
    /\ UNCHANGED <<status, published, counter, screen, decisions>>

Decide(q, s) ==
  /\ pricing[q][s] # 0
  /\ decisions' = decisions \cup {[subject |-> s, version |-> v] :
                                  v \in {pricing[q][s]} \cap With(s, "published")}
  /\ pricing' = [pricing EXCEPT ![q][s] = 0]
  /\ UNCHANGED <<status, published, counter, screen>>

ConfigNext ==
  \/ \E s \in Counted :
       \/ CreateSubject(s)
       \/ \E q \in Quotes : ReadPolicy(q, s) \/ Decide(q, s)
  \/ \E m \in Managers, s \in Subjects :
       \/ OpenCounted(m, s) \/ LoadVersions(m, s) \/ OpenSettings(m, s)
       \/ SaveDraft(m, s) \/ PublishVersion(m, s)

ConfigSpec == ConfigInit /\ [][ConfigNext]_configVars

-----------------------------------------------------------------------------

ConfigTypeOK ==
  /\ \A s \in Subjects :
       /\ status[s] \in Seq(VersionStatus)
       /\ Latest(s) <= MaxVersions
       /\ published[s] \subseteq 1..Latest(s)
  /\ counter \in [Subjects -> 0..(2 * MaxVersions)]
  /\ screen \in [Managers -> [Subjects ->
       [step : {"closed", "loading", "open"}, expected : 0..(2 * MaxVersions),
        draft : 0..MaxVersions, live : 0..MaxVersions]]]
  /\ pricing \in [Quotes -> [Counted -> 0..MaxVersions]]
  /\ decisions \subseteq [subject : Counted, version : 1..MaxVersions]

\* A subject has at most one draft, its newest version, and exactly one
\* published version from the first publication on; and a price is decided by a
\* version that has been published, never by one that only was a draft.
OneVersionGoverns ==
  /\ \A s \in Subjects :
       /\ With(s, "draft") \subseteq {Latest(s)}
       /\ \A v, w \in With(s, "published") : v = w
       /\ published[s] # {} => With(s, "published") # {}
       /\ With(s, "published") \subseteq published[s]
  /\ \A d \in decisions : d.version \in published[d.subject]

\* No version is superseded by a manager who had not seen it: the version that gives
\* way is on the screen of the command.  The one exception is a published version
\* that so many drafts have followed that the history no longer lists it: the screen
\* shows none as published, and publishing from it replaces that one.
NothingReplacedUnseen ==
  [][\A s \in Subjects : \A v \in 1..Latest(s) :
       (status[s][v] # "superseded" /\ status'[s][v] = "superseded") =>
         \/ \E m \in Managers : /\ screen[m][s] # screen'[m][s]
                               /\ v \in {screen[m][s].draft, screen[m][s].live}
         \/ status[s][v] = "published" /\ v \notin Listed(s)]_configVars
=============================================================================
