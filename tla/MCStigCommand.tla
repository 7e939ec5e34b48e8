---------------------------- MODULE MCStigCommand ----------------------------
(* StigCommand for TLC: one product, two rules, two hosts of which one is     *)
(* spelled in two ways, and every file format.                                *)
EXTENDS StigCommand

Server(h, form) == [host |-> h, form |-> form]
Rule(stem, revision) == [stem |-> stem, revision |-> revision]
Title(words, neutral) == [words |-> words, neutral |-> neutral]

r1 == Rule("SV-1", 1)
r1next == Rule("SV-1", 2)
r2 == Rule("SV-2", 1)

Def(group, severity) == [group |-> group, severity |-> severity]
Manual == (r1 :> Def("V-1", "high")) @@ (r2 :> Def("V-2", "odd"))
Scap == r1next :> Def("V-1", "low")

File == [name |-> "f", ext |-> "xml", wellformed |-> TRUE, hosts |-> <<>>, ip |-> "N/A",
         href |-> {}, benchmark |-> {}, root_id |-> {}, title |-> NoTitle,
         defines |-> <<>>, runs |-> <<>>, blocks |-> <<>>, size |-> 1, members |-> <<>>]

Benchmark(name, id, title, defines) ==
    [File EXCEPT !.name = name, !.ext = "xccdf.xml", !.root_id = id, !.title = title,
                 !.defines = defines]
ManualXml == Benchmark("manual", {"win"}, Title("windows", "stig"), Manual)
ScapXml == Benchmark("scap", {"win", "scap"}, Title("windows", "scap"), Scap)

Archive(name, members) == [File EXCEPT !.name = name, !.ext = "zip", !.members = members]
Library == Archive("library", <<Archive("inner", <<ManualXml>>), [ScapXml EXCEPT !.size = 2]>>)
Nested == Archive("nested", <<Archive("z1", <<Archive("z2", <<Archive("z3", <<ManualXml>>)>>)>>)>>)

MCBenchmarkSets == {<<>>, <<ManualXml>>, <<ScapXml, ManualXml>>, <<Library>>, <<Nested>>}

Outcome(rule, status) == [rule_id |-> rule, status |-> status]
Outcomes ==
    { <<>>, <<Outcome(r1, "fail")>>, <<Outcome(r1, "pass")>>, <<Outcome(r1next, "fail")>>,
      <<Outcome(r1, "fail"), Outcome(r2, "notchecked")>> }

\* XCCDF results, some with the benchmark embedded
Results(host, outcomes, defines) ==
    [File EXCEPT !.name = "scan", !.hosts = <<host>>, !.benchmark = {"mil", "win"},
                 !.root_id = IF defines = <<>> THEN {"result"} ELSE {"mil", "win"},
                 !.title = IF defines = <<>> THEN NoTitle ELSE Title("windows", "scap"),
                 !.defines = defines, !.runs = <<outcomes>>]
ResultFiles ==
    { Results(h, o, d) : h \in {Server("a", "A"), Server("a", "a"), Server("b", "b")},
                         o \in Outcomes, d \in {<<>>, Manual} }

\* checklists and .nessus exports
Held(ext, title, row) ==
    [File EXCEPT !.name = "held", !.ext = ext,
                 !.blocks = <<[hosts |-> <<Server("a", "A")>>, titles |-> <<title>>,
                               rows |-> <<row>>]>>]
Row(vuln, rule, status) ==
    [vuln |-> vuln, rule |-> rule, status |-> status, check |-> Rule("check", 0),
     severities |-> <<"">>]
HeldFiles ==
    { Held("cklb", Title("windows", "stig"), Row("V-1", r1, "open")),
      Held("cklb", NoTitle, Row("V-1", r1, "open")),
      Held("cklb", Title("windows", "stig"), Row("V-1", r1, "")),
      Held("cklb", Title("windows", "stig"), Row("", r2, "not_a_finding")),
      Held("nessus", Title("windows", "audit"), Row("", NoRule, "odd")),
      Held("nessus", NoTitle, Row("V-1", NoRule, "FAILED")) }

\* an audit of its own, whose items name no check
Nameless == [Row("", NoRule, "FAILED") EXCEPT !.check = NoRule]
Custom ==
    [Held("nessus", Title("windows", "stig"), Nameless) EXCEPT
        !.blocks = <<[hosts |-> <<Server("a", "A")>>, titles |-> <<Title("windows", "stig")>>,
                      rows |-> <<Nameless, Nameless>>]>>]

Broken == [File EXCEPT !.name = "broken", !.wellformed = FALSE]
Legacy == [File EXCEPT !.name = "legacy", !.ext = "ckl"]
a == Server("a", "A")
Remediated == [Results(a, <<>>, <<>>) EXCEPT !.runs = <<<<Outcome(r1, "fail")>>, <<Outcome(r1, "pass")>>>>]
Linux == [Results(a, <<Outcome(r2, "fail")>>, <<>>) EXCEPT
             !.benchmark = {"linux"}, !.title = Title("linux", "stig"), !.root_id = {"linux"}]
TwoFiles ==
    { <<Results(a, <<Outcome(r1, "fail")>>, <<>>), f>> :
        f \in HeldFiles \cup {Broken, Legacy, Linux, Results(a, <<>>, <<>>),
                              Results(a, <<Outcome(r1, "fail")>>, Manual)} }

MCScanSets ==
    {<<>>} \cup {<<f>> : f \in ResultFiles \cup HeldFiles \cup {Broken, Remediated, Linux, Custom}}
           \cup TwoFiles \cup {<<Linux, Results(a, o, <<>>)>> : o \in Outcomes}
=============================================================================
