----------------------------- MODULE StigCommand -----------------------------
(* The command line: one report of a scan set, or the delta of two.  A run    *)
(* resolves its paths, parses, compares, writes a workbook and exits.         *)
EXTENDS ScanParse, ScanDelta

CONSTANTS
    ScanSets,        \* the sequences of results files a run may be given
    BenchmarkSets    \* the sequences of benchmark files

\* what the parsers find in a file comes in lists
ASSUME FilesHoldLists ==
    \A s \in ScanSets :
        /\ IsList(s)
        /\ \A f \in ToSet(s) :
            /\ IsList(f.runs) /\ \A run \in ToSet(f.runs) : IsList(run)
            /\ IsList(f.blocks) /\ \A block \in ToSet(f.blocks) : IsList(block.rows)

VARIABLES
    cmd,      \* [command, baseline, current, benchmarks]; a report has a baseline only
    pc,       \* where the run is
    parsed,   \* the ParseResult of either side
    delta,    \* the DeltaResult
    book,     \* what the workbook says, NoBook before it is written
    exit      \* the exit code, Running before there is one

vars == <<cmd, pc, parsed, delta, book, exit>>

Sides == {"baseline", "current"}
Nothing == [ok |-> FALSE, findings |-> <<>>, warnings |-> {}, coverage |-> {}]
NoDelta == Delta(<<>>, <<>>, {}, {})
NoBook == <<>>
Running == -1

TypeOK ==
    /\ cmd \in [command : {"report", "delta"}, baseline : ScanSets, current : ScanSets,
                benchmarks : BenchmarkSets]
    /\ pc \in {"resolve", "parse_baseline", "parse_current", "compare", "export", "done"}
    /\ DOMAIN parsed = Sides
    /\ exit \in {Running, 0, 1}
    /\ exit = Running <=> pc # "done"

Init ==
    /\ cmd \in [command : {"report", "delta"}, baseline : ScanSets, current : ScanSets,
                benchmarks : BenchmarkSets]
    /\ cmd.command = "report" => cmd.current = <<>>
    /\ pc = "resolve"
    /\ parsed = [side \in Sides |-> Nothing]
    /\ delta = NoDelta
    /\ book = NoBook
    /\ exit = Running

Goto(label) == pc' = label /\ UNCHANGED exit
Exit(code) == pc' = "done" /\ exit' = code

---------------------------------------------------------------------------
\* the paths a run was given name files, or the run ends; a path that is no
\* file ends a delta here and a report in the parser
Resolve ==
    /\ pc = "resolve"
    /\ IF cmd.baseline = <<>> \/ (cmd.command = "delta" /\ cmd.current = <<>>)
       THEN Exit(1)
       ELSE Goto("parse_baseline") \/ Exit(1)
    /\ UNCHANGED <<cmd, parsed, delta, book>>

\* parse_stage of a scan set; a delta accepts one with nothing left open
ParseSide(side, next) ==
    LET result == ParseStage(cmd[side], cmd.benchmarks, cmd.command = "delta")
    IN  /\ parsed' = [parsed EXCEPT ![side] = result]
        /\ IF result.ok THEN Goto(next) ELSE Exit(1)
        /\ UNCHANGED <<cmd, delta, book>>

ParseBaseline ==
    /\ pc = "parse_baseline"
    /\ ParseSide("baseline", IF cmd.command = "delta" THEN "parse_current" ELSE "export")

ParseCurrent ==
    /\ pc = "parse_current"
    /\ ParseSide("current", "compare")

\* a message of both sides is said once; the others keep their side
ParseWarnings ==
    LET shared == parsed["baseline"].warnings \cap parsed["current"].warnings
        Of(side) == {[side |-> side, about |-> w] : w \in parsed[side].warnings \ shared}
    IN  {[side |-> "both", about |-> w] : w \in shared} \cup Of("baseline") \cup Of("current")

Compare ==
    /\ pc = "compare"
    /\ delta' = Delta(parsed["baseline"].findings, parsed["current"].findings,
                      parsed["baseline"].coverage, parsed["current"].coverage)
    /\ Goto("export")
    /\ UNCHANGED <<cmd, parsed, book>>

---------------------------------------------------------------------------
(* The workbooks.  A Summary cell is a count over the Findings sheet.         *)
SEVERITIES == {"CAT I", "CAT II", "CAT III"}

\* the finding a tag shows: the current one of a persisting pair
Shown(t) == IF t.curr = None THEN parsed["baseline"].findings[t.base]
            ELSE parsed["current"].findings[t.curr]

\* COUNTIFS, which ignores case, over the rows of either Findings sheet
CountFindings(Criteria(_)) ==
    Len(SelectSeq(parsed["baseline"].findings, Criteria))
CountTags(Criteria(_)) == Cardinality({t \in delta.tags : Criteria(t)})

\* _write_summary
Summary ==
    LET findings == ToSet(parsed["baseline"].findings)
    IN  [by_severity |-> [sev \in SEVERITIES, status \in KEEP_STATUSES |->
             CountFindings(LAMBDA f : f.severity = sev /\ f.status = status)],
         by_server |-> [row \in {<<f.server, f.ip_address>> : f \in findings}, sev \in SEVERITIES |->
             CountFindings(LAMBDA f : HostKey(f.server) = HostKey(row[1]) /\ f.severity = sev)],
         by_stig |-> [title \in {f.stig_title : f \in findings} \ {NoTitle}, sev \in SEVERITIES |->
             CountFindings(LAMBDA f : f.stig_title = title /\ f.severity = sev)]]

\* _write_delta_summary: a total counts the status alone, whatever the severity
DeltaSummary ==
    [rows |-> delta.tags,
     by_severity |-> [status \in DELTA_STATUSES, sev \in SEVERITIES |->
         CountTags(LAMBDA t : t.delta_status = status /\ Shown(t).severity = sev)],
     totals |-> [status \in DELTA_STATUSES |->
         CountTags(LAMBDA t : t.delta_status = status)],
     hosts_compared |-> delta.common_hosts,
     not_rescanned |-> delta.not_rescanned_pairs,
     newly_scanned |-> delta.newly_scanned_pairs,
     warnings |-> [parse |-> ParseWarnings, delta |-> delta.warnings]]

\* export and export_delta refuse to write an empty workbook
Exportable ==
    IF cmd.command = "report" THEN parsed["baseline"].findings # <<>>
    ELSE delta.tags # {} \/ delta.common_hosts \cup delta.only_baseline_hosts
                              \cup delta.only_current_hosts # {}

Export ==
    /\ pc = "export"
    /\ Exportable
    /\ book' = IF cmd.command = "report" THEN Summary ELSE DeltaSummary
    /\ Exit(0)
    /\ UNCHANGED <<cmd, parsed, delta>>

\* the workbook cannot be written
ExportFails ==
    /\ pc = "export"
    /\ Exit(1)
    /\ UNCHANGED <<cmd, parsed, delta, book>>

Next ==
    \/ Resolve
    \/ ParseBaseline
    \/ ParseCurrent
    \/ Compare
    \/ Export
    \/ ExportFails

Spec == Init /\ [][Next]_vars

---------------------------------------------------------------------------
(* Properties of a delta once its workbook is written                        *)
Compared == cmd.command = "delta" /\ exit = 0
Base == parsed["baseline"].findings
Curr == parsed["current"].findings

\* two findings are of one rule on one host
SameRule(f, g) ==
    \/ VulnKey(f) # NoKey /\ VulnKey(f) = VulnKey(g)
    \/ RuleKey(f) # NoKey /\ RuleKey(f) = RuleKey(g)

\* a scan set tells one rule twice, as far as the ids of both sets can show it,
\* or has two findings that not even its own ids tell apart
Overlaps(s, other) ==
    \E i, j \in DOMAIN s :
        /\ i # j
        /\ \/ SameRule(s[i], s[j]) \/ FindingKey(s[i]) = FindingKey(s[j])
           \/ \E k \in DOMAIN other : SameRule(s[i], other[k]) /\ SameRule(s[j], other[k])

\* A baseline finding is Resolved only if a file of the current set that
\* recorded results is of the same host and product: an empty results file, or
\* a scan of another STIG, remediates nothing (R2-1, R2-9).
ResolvedWasRescanned ==
    Compared =>
        \A t \in delta.tags : t.delta_status = "Resolved" =>
            \/ \E row \in ToSet(Rows(cmd.current)) : PairOf(row) = PairOf(Base[t.base])
            \/ \E s \in ToSet(Scans(cmd.current)) :
                /\ s.rule_results # <<>>
                /\ PairOf(Base[t.base]) = PairKey(<<s.hostname,
                       FindBenchmark(s, Benchmarks(cmd.current, cmd.benchmarks)).title>>)

\* Reference definition of the classification: where no scan set lists a rule
\* twice, a baseline finding persists exactly when the current set has the same
\* rule open on the same host, under a vuln id or under any revision of its rule
\* id, whichever benchmarks either side was matched with; otherwise it is
\* resolved exactly when its pair was scanned again.
ClassifiedByIdentity ==
    (Compared /\ ~Overlaps(Base, Curr) /\ ~Overlaps(Curr, Base)) =>
        \A i \in DOMAIN Base :
            \E t \in delta.tags :
                /\ t.base = i
                /\ t.delta_status = IF \E j \in DOMAIN Curr : SameRule(Base[i], Curr[j])
                                    THEN "Persisting"
                                    ELSE IF Rescanned(Base[i], parsed["current"].coverage)
                                    THEN "Resolved" ELSE "Not re-scanned"

\* No finding is lost or told twice: each has one tag, or is a duplicate of an
\* earlier finding of its set and the workbook's warnings say so.
EveryFindingTagged ==
    LET Accounted(s, duplicates, position(_)) ==
            \A i \in DOMAIN s :
                /\ Cardinality({t \in delta.tags : position(t) = i})
                       = IF i \in duplicates THEN 0 ELSE 1
                /\ i \in duplicates => \E j \in 1..(i - 1) :
                       SameRule(s[j], s[i]) \/ FindingKey(s[j]) = FindingKey(s[i])
    IN  Compared => /\ Accounted(Base, book.warnings.delta.duplicate.baseline, LAMBDA t : t.base)
                    /\ Accounted(Curr, book.warnings.delta.duplicate.current, LAMBDA t : t.curr)

\* Time reversed: comparing the current set with the baseline tells the same
\* story backwards.
MirrorImage ==
    LET Mirrored(status) == CASE status = "New" -> "Resolved" [] status = "Resolved" -> "New"
                              [] status = "Not re-scanned" -> "Newly scanned"
                              [] status = "Newly scanned" -> "Not re-scanned"
                              [] OTHER -> status
    IN  Compared =>
            Tags(Curr, Base, parsed["current"].coverage, parsed["baseline"].coverage)
                = {Tag(Mirrored(t.delta_status), t.curr, t.base) : t \in delta.tags}

\* The Summary sheet agrees with the Findings sheet: its totals add up to the
\* rows, the pair of every finding that was not compared is listed as a gap and
\* that of a Resolved or New one is not, and a host whose findings could not be
\* verified for want of a title is warned about.
WorkbookAgreesWithTags ==
    LET Listed(f, pairs) == \E p \in pairs : PairKey(p) = PairOf(f)
        Warned(f) == HostKey(f.server) \in book.warnings.delta.no_title
    IN  Compared =>
            /\ Cardinality(book.rows) =
                   book.totals["New"] + book.totals["Resolved"] + book.totals["Persisting"]
                       + book.totals["Not re-scanned"] + book.totals["Newly scanned"]
            /\ \A t \in book.rows :
                LET f == Shown(t)
                    vague == StigKey(f.stig_title) = ""
                IN  /\ t.delta_status = "Not re-scanned" => Listed(f, book.not_rescanned)
                    /\ t.delta_status = "Resolved" => ~Listed(f, book.not_rescanned)
                    /\ t.delta_status = "Newly scanned" => Listed(f, book.newly_scanned)
                    /\ t.delta_status = "New" => ~Listed(f, book.newly_scanned)
                    /\ (t.delta_status # "Persisting" /\ vague) => Warned(f)

\* Every results file either adds a covered pair or is named, with its side, in
\* the workbook's warnings: a benchmark handed in as results, an unreadable file
\* or an empty export is never silently ignored.
EveryFileAccounted ==
    Compared =>
        \A side \in Sides : \A f \in ToSet(cmd[side]) :
            \/ IF SelfContained(f) THEN ParseSelfContained(f) # <<>>
               ELSE f.ext # "ckl" /\ ParseResults(f).rule_results # <<>>
            \/ \E w \in book.warnings.parse : w.side \in {side, "both"} /\ w.about.name = f.name

---------------------------------------------------------------------------
\* The report's Summary speaks for every finding: each table's counts add up to
\* the rows of the Findings sheet (the sheet's own footer says that they do).
SummaryReflectsAllData ==
    LET Sum(table) == MapThenSumSet(LAMBDA cell : table[cell], DOMAIN table)
    IN  (cmd.command = "report" /\ exit = 0) =>
            /\ Sum(book.by_severity) = Len(Base)
            /\ Sum(book.by_server) = Len(Base)
=============================================================================
