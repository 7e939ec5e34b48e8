------------------------------ MODULE ScanParse ------------------------------
(* From files to findings: the parsers' rules for what a file says, the       *)
(* matcher that attaches benchmark rules to XCCDF results, and parse_stage,   *)
(* which puts them together.  A file is a record of what its text holds; a    *)
(* name that scanners spell in several ways keeps its identity and spelling:  *)
(*   server    [host, form]        rule id   [stem, revision]                 *)
(*   title     [words, neutral]: the product's words and the edition's        *)
(*   benchmark id, href            the set of its parts                       *)
EXTENDS Lists

NoServer == [host |-> "", form |-> ""]
NoRule == [stem |-> "", revision |-> 0]
NoTitle == [words |-> "", neutral |-> ""]

\* the title a parser fills in when the file names no STIG
UnknownStig == [words |-> "", neutral |-> "unknown stig"]
NessusCompliance == [words |-> "", neutral |-> "nessus compliance"]

\* "a or b or c" over candidate fields in order of preference
FirstOf(candidates, blank, default) ==
    LET said == SelectSeq(candidates, LAMBDA c : c # blank)
    IN  IF said = <<>> THEN default ELSE Head(said)

\* a dict's get with a default
Lookup(map, key, default) == IF key \in DOMAIN map THEN map[key] ELSE default

---------------------------------------------------------------------------
(* ZIP archives                                                              *)
\* decompressed sizes are measured in multiples of this cap
MAX_EXTRACTED_BYTES == 1
MAX_ZIP_DEPTH == 2

\* one level of extract_xccdf_from_zip: a file itself, or what an archive holds,
\* oversized members left out
Opened(file) ==
    IF file.ext # "zip" THEN <<file>>
    ELSE IF file.wellformed
    THEN Select(file.members, LAMBDA m : m.size <= MAX_EXTRACTED_BYTES)
    ELSE <<>>

\* extract_xccdf_from_zip: the benchmark files of an archive and of the
\* archives in it, opened in place until they are too deep
ExtractXccdf(zip) ==
    LET reached[depth \in 0..MAX_ZIP_DEPTH + 1] ==
            IF depth = 0 THEN <<zip>>
            ELSE LET files == reached[depth - 1]
                 IN  FlattenSeq([i \in DOMAIN files |-> Opened(files[i])])
    IN  Select(reached[MAX_ZIP_DEPTH + 1], LAMBDA m : m.ext = "xccdf.xml")

\* expand_benchmark_paths
ExpandBenchmarkPaths(files) ==
    [files |-> FlattenSeq([i \in DOMAIN files |->
                  IF files[i].ext = "zip" THEN ExtractXccdf(files[i])
                                          ELSE <<files[i]>>]),
     warnings |-> {[kind |-> "no benchmark in zip", name |-> f.name] :
                      f \in {g \in ToSet(files) :
                                g.ext = "zip" /\ ExtractXccdf(g) = <<>>}}]

---------------------------------------------------------------------------
(* XCCDF                                                                     *)
SEVERITY_MAP == [high |-> "CAT I", medium |-> "CAT II", low |-> "CAT III"]

\* BenchmarkParser.parse: any well-formed XML is a benchmark, perhaps of no rules
ParseBenchmark(file) ==
    [benchmark_id |-> file.root_id, title |-> file.title,
     rules |-> [r \in DOMAIN file.defines \ {NoRule} |->
                   [vuln_id |-> file.defines[r].group,
                    severity |-> Lookup(SEVERITY_MAP, file.defines[r].severity, "Unknown")]]]

\* XCCDFResultsParser.parse: the last <TestResult>, and of it the results that
\* name a rule and an outcome
ParseResults(file) ==
    [source_file |-> file.name,
     hostname |-> FirstOf(file.hosts, NoServer, [host |-> file.name, form |-> "stem"]),
     ip_address |-> file.ip,
     benchmark_href |-> file.href, benchmark_id |-> file.benchmark,
     rule_results |-> IF file.runs = <<>> THEN <<>>
                      ELSE Select(Last(file.runs),
                               LAMBDA r : r.rule_id # NoRule /\ r.status # "")]

\* _find_benchmark: the exact id, then the href, then the id as a substring; an
\* id is contained in another when its parts are
EitherContains(a, b) == a \subseteq b \/ b \subseteq a

NoBenchmark == [benchmark_id |-> {}, title |-> NoTitle, rules |-> <<>>]

FindBenchmark(scan, benchmarks) ==
    LET Matching(Test(_)) == {i \in DOMAIN benchmarks : Test(benchmarks[i].benchmark_id)}
        exact == Matching(LAMBDA id : scan.benchmark_id # {} /\ id = scan.benchmark_id)
        href == Matching(LAMBDA id : scan.benchmark_href # {} /\ EitherContains(id, scan.benchmark_href))
        part == Matching(LAMBDA id : scan.benchmark_id # {} /\ EitherContains(id, scan.benchmark_id))
        best == IF exact # {} THEN exact ELSE IF href # {} THEN href ELSE part
    IN  IF best = {} THEN NoBenchmark ELSE benchmarks[Min(best)]

MATCHER_STATUS_MAP ==
    [fail |-> "Open", notchecked |-> "Not Reviewed", notselected |-> "Not Reviewed",
     error |-> "Error", unknown |-> "Unknown"]

\* match_results_to_benchmarks for one scan: an actionable result becomes a
\* finding, with its rule's text if the benchmark has that very rule id
MatchScan(scan, benchmarks) ==
    LET benchmark == FindBenchmark(scan, benchmarks)
        kept == Select(scan.rule_results,
                          LAMBDA r : r.status \in DOMAIN MATCHER_STATUS_MAP)
    IN  [i \in DOMAIN kept |->
            LET def == Lookup(benchmark.rules, kept[i].rule_id, [vuln_id |-> "", severity |-> ""])
            IN  [stig_title |-> benchmark.title, vuln_id |-> def.vuln_id,
                 rule_id |-> kept[i].rule_id, severity |-> def.severity,
                 status |-> MATCHER_STATUS_MAP[kept[i].status],
                 server |-> scan.hostname, ip_address |-> scan.ip_address]]

MatchResultsToBenchmarks(scans, benchmarks) ==
    FlattenSeq([i \in DOMAIN scans |-> MatchScan(scans[i], benchmarks)])

\* mutant: a scan without results covers its pair as well
ScanCoverage_Empty(scans, benchmarks) ==
    {<<s.hostname, FindBenchmark(s, benchmarks).title>> : s \in ToSet(scans)}

\* scan_coverage: one pair per scan that has results, whatever they are
ScanCoverage(scans, benchmarks) ==
    {<<s.hostname, FindBenchmark(s, benchmarks).title>> :
        s \in {t \in ToSet(scans) : t.rule_results # <<>>}}

---------------------------------------------------------------------------
(* Self-contained formats: a file is a sequence of blocks of rows, a block    *)
(* per STIG of a checklist or per host and audit of a .nessus export          *)
CKLB_STATUS_MAP ==
    [open |-> "Open", not_reviewed |-> "Not Reviewed", not_a_finding |-> "Not A Finding",
     not_applicable |-> "Not Applicable", error |-> "Error"]
NESSUS_RESULT_MAP ==
    [FAILED |-> "Open", PASSED |-> "Not A Finding", WARNING |-> "Not Reviewed",
     ERROR |-> "Error"]
CAT_MAP == [I |-> "CAT I", II |-> "CAT II", III |-> "CAT III"]

\* a checklist row without ids or without a status is skipped; a .nessus item never
CklbRows(block) ==
    Select(block.rows, LAMBDA r : (r.vuln # "" \/ r.rule # NoRule) /\ r.status # "")

\* CKLBParser.parse and NessusComplianceParser.parse: an unrecognised status is
\* kept as Unknown
ParseBlock(file, block) ==
    LET cklb == file.ext = "cklb"
        rows == IF cklb THEN CklbRows(block) ELSE block.rows
    IN  [i \in DOMAIN rows |->
            [stig_title |-> FirstOf(block.titles, NoTitle,
                                    IF cklb THEN UnknownStig ELSE NessusCompliance),
             vuln_id |-> rows[i].vuln,
             rule_id |-> IF cklb THEN rows[i].rule
                         ELSE FirstOf(<<rows[i].rule>>, NoRule, rows[i].check),
             severity |-> Lookup(IF cklb THEN SEVERITY_MAP ELSE CAT_MAP,
                                 FirstOf(rows[i].severities, "", ""), "Unknown"),
             status |-> Lookup(IF cklb THEN CKLB_STATUS_MAP ELSE NESSUS_RESULT_MAP,
                               rows[i].status, "Unknown"),
             server |-> FirstOf(block.hosts, NoServer, [host |-> file.name, form |-> "stem"]),
             ip_address |-> file.ip]]

ParseSelfContained(file) ==
    FlattenSeq([i \in DOMAIN file.blocks |-> ParseBlock(file, file.blocks[i])])

---------------------------------------------------------------------------
(* parse_stage                                                               *)
KEEP_STATUSES == {"Open", "Not Reviewed", "Error", "Unknown"}

FilterFindings(findings) == Select(findings, LAMBDA f : f.status \in KEEP_STATUSES)

SelfContained(f) == f.ext \in {"cklb", "nessus"}
Readable(f) == f.wellformed

\* the files of a set that each parser can read; a legacy .ckl is XML, not XCCDF
Xccdf(results) == Select(results, LAMBDA f : ~SelfContained(f))
ReadXccdf(results) == Select(Xccdf(results), LAMBDA f : Readable(f) /\ f.ext # "ckl")
ReadSelf(results) == Select(results, LAMBDA f : SelfContained(f) /\ Readable(f))

\* without benchmark files the results are read as their own benchmarks
BenchmarkPaths(results, files) ==
    ExpandBenchmarkPaths(IF files = <<>> THEN Xccdf(results) ELSE files)

Benchmarks(results, files) ==
    LET read == Select(BenchmarkPaths(results, files).files, Readable)
    IN  [i \in DOMAIN read |-> ParseBenchmark(read[i])]

Scans(results) ==
    [i \in DOMAIN ReadXccdf(results) |-> ParseResults(ReadXccdf(results)[i])]

\* every row of the self-contained files, of whatever status
Rows(results) ==
    FlattenSeq([i \in DOMAIN ReadSelf(results) |-> ParseSelfContained(ReadSelf(results)[i])])

\* the pairs a set covers, whether or not anything is left open
Coverage(results, files) ==
    {<<f.server, f.stig_title>> : f \in ToSet(Rows(results))}
        \cup ScanCoverage(Scans(results), Benchmarks(results, files))

Warn(kind, files) == {[kind |-> kind, name |-> f.name] : f \in files}

\* the warnings parse_stage collects while it reads
ReadWarnings(results, files) ==
    LET paths == BenchmarkPaths(results, files)
        read == ToSet(ReadXccdf(results)) \cup ToSet(ReadSelf(results))
    IN  paths.warnings
          \cup Warn("unreadable benchmark", {f \in ToSet(paths.files) : ~Readable(f)})
          \cup Warn("unreadable results", ToSet(results) \ read)
          \cup Warn("no rows", {f \in ToSet(ReadSelf(results)) : ParseSelfContained(f) = <<>>})

\* mutant: only a set of nothing but empty scans is warned about
EmptyScanWarnings_WhenAll(results) ==
    IF \E f \in ToSet(ReadXccdf(results)) : ParseResults(f).rule_results # <<>> THEN {}
    ELSE Warn("no rows", ToSet(ReadXccdf(results)))

\* and those of the scans that hold no result
EmptyScanWarnings(results) ==
    Warn("no rows", {f \in ToSet(ReadXccdf(results)) : ParseResults(f).rule_results = <<>>})

\* ok is FALSE where the code raises PipelineError, with the warnings so far
ParseStage(results, files, allow_empty) ==
    LET scans == Scans(results)
        rows == Rows(results)
        findings == FilterFindings(
                        MatchResultsToBenchmarks(scans, Benchmarks(results, files)) \o rows)
        parsed == scans # <<>> \/ ReadSelf(results) # <<>>
        rules == rows # <<>> \/ \E i \in DOMAIN scans : scans[i].rule_results # <<>>
    IN  [ok |-> parsed /\ rules /\ (allow_empty \/ findings # <<>>),
         findings |-> findings,
         warnings |-> ReadWarnings(results, files)
                          \cup (IF parsed THEN EmptyScanWarnings(results) ELSE {}),
         coverage |-> Coverage(results, files)]
=============================================================================
