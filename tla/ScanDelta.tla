------------------------------ MODULE ScanDelta ------------------------------
(* compute_delta: which findings of two scan sets are the same, and what the  *)
(* absence of one means.  A scan set is a sequence of findings; the code's    *)
(* lists and indexes are sets of its positions here, "first wins" the least   *)
(* position.                                                                  *)
EXTENDS Integers, FiniteSets

DELTA_STATUSES == {"New", "Resolved", "Persisting", "Not re-scanned", "Newly scanned"}

---------------------------------------------------------------------------
(* Keys                                                                      *)
HostKey(server) == server.host

\* a placeholder of a parser carries no benchmark's name, like an empty title;
\* a title of nothing but neutral words keeps them
PLACEHOLDER_TITLES == {"unknown stig", "nessus compliance"}

StigKey(title) ==
    IF title.words # "" THEN title.words
    ELSE IF title.neutral \in PLACEHOLDER_TITLES THEN "" ELSE title.neutral

RuleStem(rule_id) == rule_id.stem

PairKey(pair) == <<HostKey(pair[1]), StigKey(pair[2])>>
PairOf(f) == PairKey(<<f.server, f.stig_title>>)

NoKey == <<"", "">>
VulnKey(f) == IF f.vuln_id = "" THEN NoKey ELSE <<HostKey(f.server), f.vuln_id>>
RuleKey(f) ==
    IF RuleStem(f.rule_id) = "" THEN NoKey ELSE <<HostKey(f.server), RuleStem(f.rule_id)>>

\* identity within one run only: (host, vuln id or else the whole rule id)
FindingKey(f) ==
    <<HostKey(f.server), f.vuln_id,
      IF f.vuln_id = "" THEN f.rule_id ELSE [stem |-> "", revision |-> 0]>>

---------------------------------------------------------------------------
(* Matching                                                                  *)
\* _build_index: the later findings of a key that is already taken
Dropped(s, at, Key(_)) ==
    {i \in at : Key(s[i]) # NoKey /\ \E j \in at : j < i /\ Key(s[j]) = Key(s[i])}

\* what _build_index maps to: the first finding of each key
Indexed(s, at, Key(_)) == {i \in at : Key(s[i]) # NoKey} \ Dropped(s, at, Key)

\* _dedupe
Dedupe(s, at) == at \ Dropped(s, at, FindingKey)

\* one pass: the pairs of equal key, and what is left for the next pass
Pairs(base, atB, curr, atC, Key(_)) ==
    {p \in Indexed(base, atB, Key) \X Indexed(curr, atC, Key) :
        Key(base[p[1]]) = Key(curr[p[2]])}

LeftOver(s, at, matched, Key(_)) == (at \ matched) \ Dropped(s, at, Key)

\* what a pass leaves, and the duplicates it reports, of either list
Pass(base, atB, curr, atC, pairs, Key(_)) ==
    [pairs |-> pairs,
     base |-> LeftOver(base, atB, {p[1] : p \in pairs}, Key),
     curr |-> LeftOver(curr, atC, {p[2] : p \in pairs}, Key),
     dropped |-> [base |-> Dropped(base, atB, Key), curr |-> Dropped(curr, atC, Key)]]

\* mutants: a single key; a second pass over the whole list again
MatchTwoPass_OnePass(base, atB, curr, atC) ==
    Pass(base, atB, curr, atC, Pairs(base, atB, curr, atC, VulnKey), VulnKey)

MatchTwoPass_StartsOver(base, atB, curr, atC) ==
    LET first == Pass(base, atB, curr, atC, Pairs(base, atB, curr, atC, VulnKey), VulnKey)
        second == Pass(base, atB, curr, atC, Pairs(base, atB, curr, atC, RuleKey), RuleKey)
    IN  [second EXCEPT !.pairs = first.pairs \cup @]

\* _match_two_pass: on vuln ids first, the leftovers on rule stems
MatchTwoPass(base, atB, curr, atC) ==
    LET first == Pass(base, atB, curr, atC, Pairs(base, atB, curr, atC, VulnKey), VulnKey)
        second == Pass(base, first.base, curr, first.curr,
                       Pairs(base, first.base, curr, first.curr, RuleKey), RuleKey)
    IN  [second EXCEPT !.pairs = first.pairs \cup @,
                       !.dropped.base = first.dropped.base \cup @,
                       !.dropped.curr = first.dropped.curr \cup @]

---------------------------------------------------------------------------
(* Classification                                                            *)
\* a tag names its finding by the positions it has in the two scan sets
Tag(status, b, c) == [delta_status |-> status, base |-> b, curr |-> c]
None == 0

\* _index_coverage: a pair of each key, under one of its spellings
Spelling(coverage, key) == CHOOSE p \in coverage : PairKey(p) = key
PairKeys(coverage) == {PairKey(p) : p \in coverage}
Hosts(coverage) == {key[1] : key \in PairKeys(coverage)}

\* mutant: a pair without a title counts as covered by any other without one
Gaps_Untitled(coverage, other) ==
    {Spelling(coverage, key) : key \in PairKeys(coverage) \ PairKeys(other)}

\* the pairs of one coverage that the other cannot speak about
Gaps(coverage, other) ==
    {Spelling(coverage, key) :
        key \in {k \in PairKeys(coverage) : k \notin PairKeys(other) \/ k[2] = ""}}

\* a leftover finding's absence from the other set means something
Rescanned(f, other) == StigKey(f.stig_title) # "" /\ PairOf(f) \in PairKeys(other)

On(s, hosts) == {i \in DOMAIN s : HostKey(s[i].server) \in hosts}

\* mutant: what is only in the current set is New, whether or not the baseline looked
Tags_AlwaysNew(base, curr, baseCoverage, currCoverage) ==
    LET common == Hosts(baseCoverage) \cap Hosts(currCoverage)
        match == MatchTwoPass(base, On(base, common), curr, On(curr, common))
    IN  {Tag("Not re-scanned", i, None) : i \in Dedupe(base, DOMAIN base \ On(base, common))}
          \cup {Tag("Newly scanned", None, i) : i \in Dedupe(curr, DOMAIN curr \ On(curr, common))}
          \cup {Tag("Persisting", p[1], p[2]) : p \in match.pairs}
          \cup {Tag(IF Rescanned(base[i], currCoverage) THEN "Resolved" ELSE "Not re-scanned",
                    i, None) : i \in match.base}
          \cup {Tag("New", None, i) : i \in match.curr}

\* the tags of compute_delta
Tags(base, curr, baseCoverage, currCoverage) ==
    LET common == Hosts(baseCoverage) \cap Hosts(currCoverage)
        match == MatchTwoPass(base, On(base, common), curr, On(curr, common))
    IN  {Tag("Not re-scanned", i, None) : i \in Dedupe(base, DOMAIN base \ On(base, common))}
          \cup {Tag("Newly scanned", None, i) : i \in Dedupe(curr, DOMAIN curr \ On(curr, common))}
          \cup {Tag("Persisting", p[1], p[2]) : p \in match.pairs}
          \cup {Tag(IF Rescanned(base[i], currCoverage) THEN "Resolved" ELSE "Not re-scanned",
                    i, None) : i \in match.base}
          \cup {Tag(IF Rescanned(curr[i], baseCoverage) THEN "New" ELSE "Newly scanned",
                    None, i) : i \in match.curr}

\* hosts whose findings cannot be verified for want of a title
BlankHosts(base, curr, baseCoverage, currCoverage) ==
    LET pairs == baseCoverage \cup currCoverage
                   \cup {<<base[i].server, base[i].stig_title>> : i \in DOMAIN base}
                   \cup {<<curr[i].server, curr[i].stig_title>> : i \in DOMAIN curr}
    IN  {HostKey(p[1]) : p \in {q \in pairs : StigKey(q[2]) = ""}}

Blanks(s, at) == Cardinality({i \in at : s[i].vuln_id = ""})

\* different shares of findings without a vuln id make a residue suspicious
UnevenVulnIds(base, atB, curr, atC, tags) ==
    /\ \E t \in tags : t.delta_status \in {"Resolved", "New"}
    /\ atB # {} /\ atC # {}
    /\ Blanks(base, atB) * Cardinality(atC) # Blanks(curr, atC) * Cardinality(atB)

\* the findings that are reported as duplicates
Duplicates(s, at, dropped) == dropped \cup Dropped(s, DOMAIN s \ at, FindingKey)

\* compute_delta; a warning is by what it names, and empty when it is not given
Delta(base, curr, baseCoverage, currCoverage) ==
    LET common == Hosts(baseCoverage) \cap Hosts(currCoverage)
        atB == On(base, common)
        atC == On(curr, common)
        dropped == MatchTwoPass(base, atB, curr, atC).dropped
        tags == Tags(base, curr, baseCoverage, currCoverage)
        notRescanned == Gaps(baseCoverage, currCoverage)
        newlyScanned == Gaps(currCoverage, baseCoverage)
    IN  [tags |-> tags,
         common_hosts |-> common,
         only_baseline_hosts |-> Hosts(baseCoverage) \ common,
         only_current_hosts |-> Hosts(currCoverage) \ common,
         not_rescanned_pairs |-> notRescanned,
         newly_scanned_pairs |-> newlyScanned,
         warnings |->
            [duplicate |-> [baseline |-> Duplicates(base, atB, dropped.base),
                            current |-> Duplicates(curr, atC, dropped.curr)],
             uneven_vuln_ids |-> UnevenVulnIds(base, atB, curr, atC, tags),
             no_common_host |-> common = {},
             not_rescanned |-> notRescanned,
             newly_scanned |-> newlyScanned,
             no_title |-> BlankHosts(base, curr, baseCoverage, currCoverage)]]
=============================================================================
