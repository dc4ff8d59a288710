----------------------------- MODULE Validation -----------------------------
(***************************************************************************)
(* validate_project (env_manager/validator.py, env_manager/validation/):   *)
(* the checks of one project.  There is no state: a project p is a record  *)
(* of what the checks look at, and every check is an operator that gives   *)
(* the kinds of violation it reports.  A file is a record too: where it    *)
(* lies, what type it has, whether it can be read and parsed, and its      *)
(* flaws.  p.tools says how the process of each external tool comes out.   *)
(***************************************************************************)
EXTENDS SsotText

Scannable == {"py", "ps1", "json", "yaml", "md", "ts", "html", "index"}
TextTypes == Scannable \cup {"js", "rs"}
HtmlTypes == {"html", "index"}

\* iter_project_files: source files up to MAX_SCAN_BYTES; a place that is
\* "hidden", "images" or "dist" is left out, and a "vendored" one by everybody.
Walked(p) == {f \in p.files : f.place = "source" /\ ~f.big}

\* What a gate that has its own list of directories to skip reads.
In(p, places, types) == {f \in p.files : f.place \in places /\ f.type \in types}

-----------------------------------------------------------------------------
(* Gates that read the files themselves.                                    *)

CompileErrors(p) ==
  Flag(\E f \in Walked(p) : f.type = "py" /\ ~(f.readable /\ f.parses), "syntax_error")

EmojiViolations(p) ==
  Flag(\E f \in Walked(p) : f.type \in Scannable /\ (~f.readable \/ "emoji" \in f.flaws), "emoji")

\* A file that does not parse is left to the compile gate.
Suppressions(p) ==
  LET read == {f \in Walked(p) : f.type \in {"py", "ts", "js", "rs"}} IN
    Flag(\E f \in read : ~f.readable, "read_error")
      \cup Flag(\E f \in read : "suppression" \in f.flaws /\ (f.type = "py" => f.parses),
                "suppression")

AbsolutePaths(p) ==
  Flag(\E f \in Walked(p) : f.type \in TextTypes /\ (~f.readable \/ "path" \in f.flaws), "path")

Jsonlint(p) ==
  Flag(\E f \in In(p, {"source", "images"}, {"json"}) : ~(f.readable /\ f.parses), "json")

-----------------------------------------------------------------------------
(* Gates that run a tool.                                                   *)

Tools == {"yamllint", "markdownlint", "eslint", "tsc", "html-validate", "pa11y", "pssa", "pylint"}

\* The ends a tool's process can come to: it did its work; the tool is not
\* installed; its arguments or configuration are wrong; it broke off after
\* printing what it had; it was killed; it could not be run, or timed out.
Endings == {"well", "missing", "usage", "partial", "killed", "raises"}

FindingExit == [t \in Tools |-> CASE t = "pssa" -> 0 [] t = "pylint" -> 16
                                  [] t \in {"tsc", "pa11y"} -> 2 [] OTHER -> 1]

\* The process of a tool, which has something to report iff found.
Process(p, tool, found) ==
  LET how == p.tools[tool] IN
    [raised |-> how = "raises",
     exit   |-> CASE how = "well"    -> IF found THEN FindingExit[tool] ELSE 0
                  [] how = "missing" -> 1
                  [] how = "usage"   -> IF tool = "pylint" THEN 32 ELSE 2
                  [] how = "partial" -> IF tool = "pylint" THEN 1 ELSE 2
                  [] how = "killed"  -> -9
                  [] OTHER           -> 0,
     parsed |-> found /\ how \in {"well", "partial"},
     report |-> how \in {"well", "partial"},
     absent |-> how = "missing"]

\* What a linter finds in files of its own format.
Faulty(files) == \E f \in files : "style" \in f.flaws \/ ~f.parses

\* Mutant: a tool that failed without a finding reports nothing.
UnexplainedExit_Silent(proc) == {}

\* unexplained_exit: a linter that exits non-zero without a finding has failed.
UnexplainedExit(proc) == Flag(proc.exit # 0 /\ ~proc.parsed, "tool_error")

Lint(p, tool, found) ==
  LET proc == Process(p, tool, found) IN
    IF proc.raised THEN {"tool_error"} ELSE Flag(proc.parsed, tool) \cup UnexplainedExit(proc)

\* Only exit 0 and 1 are outcomes of a complete run.
Yamllint(p) ==
  LET files == In(p, {"source", "hidden", "images"}, {"yaml"})
      proc  == Process(p, "yamllint", Faulty(files)) IN
    IF files = {} THEN {}
    ELSE Lint(p, "yamllint", Faulty(files))
           \cup Flag(~proc.raised /\ proc.exit \notin {0, 1}, "tool_error")

Markdownlint(p) ==
  LET files == In(p, {"source", "hidden", "images"}, {"md"}) IN
    IF files = {} THEN {} ELSE Lint(p, "markdownlint", Faulty(files))

\* Without a JSON report nothing was checked, whatever the exit status says.
Eslint(p) ==
  LET proc == Process(p, "eslint", Faulty(In(p, {"source"}, {"ts", "js"}))) IN
    IF "eslint config" \notin p.has THEN {}
    ELSE IF proc.raised \/ ~proc.report THEN {"tool_error"}
    ELSE Flag(proc.parsed, "eslint") \cup Flag(proc.exit \notin {0, 1}, "tool_error")

Tsc(p) ==
  IF "tsconfig" \notin p.has THEN {} ELSE Lint(p, "tsc", Faulty(In(p, {"source"}, {"ts"})))

HtmlValidate(p) ==
  LET files == In(p, {"source", "hidden", "images", "dist"}, HtmlTypes) IN
    IF files = {} THEN {} ELSE Lint(p, "html-validate", Faulty(files))

\* Only the index pages are audited, or else the first page.
Audited(p) ==
  LET pages   == {f \in In(p, {"source", "hidden", "images"}, HtmlTypes) : ~f.big}
      indexes == {f \in pages : f.type = "index"} IN
    IF indexes # {} \/ pages = {} THEN indexes ELSE {CHOOSE f \in pages : TRUE}

Pa11y(p) == UNION {Lint(p, "pa11y", "wcag" \in f.flaws) : f \in Audited(p)}

PSScriptAnalyzer(p) ==
  LET files == In(p, {"source", "hidden", "images", "dist"}, {"ps1"}) IN
    IF ~p.windows \/ files = {} THEN {}
    ELSE IF p.tools["pssa"] = "missing" THEN {"tool_error"}
    ELSE Lint(p, "pssa", Faulty(files))

\* PYLINT_FATAL | PYLINT_USAGE_ERROR in Python's arithmetic on exit statuses.
FatalOrUsage(exit) == exit % 2 = 1 \/ (exit \div 32) % 2 = 1

Pylint(p) ==
  LET proc == Process(p, "pylint", Faulty(In(p, {"source", "hidden"}, {"py"}))) IN
    IF ~\E f \in Walked(p) : f.type = "py" THEN {}
    ELSE IF proc.raised \/ (FatalOrUsage(proc.exit) /\ ~proc.parsed) THEN {"tool_error"}
    ELSE Flag(proc.parsed, "pylint")

-----------------------------------------------------------------------------
(* Gates on the repository as a whole.                                      *)

\* How `git status` ends, and the `git diff` against the parent of the last commit,
\* if there is one: git may fail, and it may be missing or time out ("raises").
Statuses == {"well", "fails", "raises"}
Diffs    == {"well", "first", "fails", "raises"}

\* What the lines of `git status` name; its exit status is not looked at.
Uncommitted(g) == IF g.status = "well" THEN g.dirty ELSE {}

\* Uncommitted changes, or else what the diff names.
Modified(g) ==
  IF Uncommitted(g) # {} THEN Uncommitted(g)
  ELSE IF g.status # "raises" /\ g.diff = "well" THEN g.last ELSE {}

\* A README that cannot be read ends the audit without a finding.
ReadmeChangelog(p) ==
  LET changed == Modified(p.git) IN
    IF changed \subseteq {"readme"} \/ p.readme = "unreadable" THEN {}
    ELSE Flag(p.readme # "changelog", "readme_changelog_missing")
           \cup Flag(p.readme = "changelog" /\ "readme" \notin changed /\ Uncommitted(p.git) # {},
                     "readme_changelog_unupdated")

\* h.cites: what the lines of a hook call, a retired script or a missing file.
GitHooks(p) ==
  LET hooks == {h \in p.hooks : ~h.sample} IN
    Flag(\E h \in hooks : ~h.readable, "git_hook_read_error")
      \cup UNION {h.cites : h \in {k \in hooks : k.readable /\ ~k.inComment}}

\* scan_project_literals
SsotLiterals(p) ==
  UNION {ScanFile(f, FileMode(p.kind, f)) :
           f \in {g \in Walked(p) : g.type \in TextTypes /\ FileMode(p.kind, g) # "skip"}}

\* The parity checks of the Tauri GUI: what is absent is skipped, what is there
\* and cannot be parsed, or differs, is found.
GuiParity(p) ==
  LET g == p.gui
      steps == IF g.ownSteps THEN "absent" ELSE g.snapshot
      health == IF g.interface THEN g.openapi ELSE "absent" IN
    IF "tauri config" \notin p.has THEN {}
    ELSE Flag(g.snapshot \in {"garbled", "differs"}, "ssot_snapshot")
           \cup Flag(g.csp \in {"garbled", "differs"}, "ssot_csp")
           \cup Flag(steps = "garbled" \/ (steps = "differs" /\ g.stepsDiffer), "ssot_steps")
           \cup Flag(health \in {"garbled", "differs"}, "ssot_project_health")
           \cup Flag(g.npm \in {"garbled", "differs"}, "ssot_npm_manifest")

EcosystemSsot(p) == SsotLiterals(p) \cup GuiParity(p)

-----------------------------------------------------------------------------
(* Gates of single projects; d is what they look at there.                  *)

\* One paper: both versions exist and agree, in headings, tables and length.
PaperViolations(q) ==
  IF ~q.html THEN {"doc_html_missing"}
  ELSE IF ~q.md THEN {"doc_md_missing"}
  ELSE Flag(q.headings # 0, "doc_heading_mismatch")
         \cup Flag(q.tables \notin -1..1, "doc_table_mismatch")
         \cup Flag(q.htmlLength = 0 \/ ~(/\ 20 * q.htmlLength <= 100 * q.mdLength
                                         /\ 100 * q.mdLength <= 300 * q.htmlLength),
                   "doc_ratio_anomaly")

DocsSync(d) ==
  IF "documents" \notin d.present THEN {}
  ELSE IF d.garbled THEN {"doc_parity_audit_error"}
  ELSE UNION {PaperViolations(q) : q \in d.papers}

DocsManifests(d) ==
  IF ~({"documents", "json", "yaml"} \subseteq d.present) THEN {"manifest_missing"}
  ELSE IF d.garbled THEN {"manifest_parse_error"}
  ELSE Flag(~d.sameBaseline, "manifest_baseline_mismatch")
         \cup Flag(d.total # d.listed, "manifest_count_mismatch")
         \cup Flag(~d.sameContent, "manifest_content_drift")

DocsSuite(d) == Flag(d.tests \notin {"absent", "pass"}, "doc_integrity_failure")

\* _yaml_mapping_violations, of a file that may be absent.
MappingViolations(doc, required) ==
  IF doc.form = "absent" THEN {}
  ELSE IF doc.form = "garbled" THEN {"parse_error"}
  ELSE Flag(doc.form # "mapping" \/ ~(required \subseteq doc.keys), "schema_error")

ManifoldFiles == {"README.md", "dataset_info.yaml", "category.txt", "classes.txt"}

ManifoldViolations(m) ==
  Flag(~(ManifoldFiles \subseteq m.files), "manifold_missing_file")
    \cup Flag(m.forex /\ "dataset-metadata.json" \notin m.files, "manifold_missing_file")
    \cup Flag(m.forex /\ m.parquets # 8, "manifold_parquet_count")

Residue(d) == Flag(d.top \cap {"staging entry", "temporary file"} # {}, "residue")

DatasetManifests(d) ==
  MappingViolations(d.unified, {"_registry_metadata"})
    \cup MappingViolations(d.models, {"task_metadata"})
    \cup (UNION {MappingViolations(i, {"count", "task"}) : i \in d.infos})
    \cup (UNION {ManifoldViolations(m) : m \in d.manifolds})
    \cup Residue(d)

TrainingSuite(d) == MappingViolations(d.registry, {"_registry_metadata"})

ModelsHub(d) ==
  Flag(~d.readme, "missing_readme") \cup Flag(\E m \in d.models : ~m.readme, "missing_model_readme")
    \cup Flag(\E m \in d.models : 0 \in m.checkpoints, "corrupt_checkpoint")
    \cup Residue(d)

-----------------------------------------------------------------------------
(* The registry and the report.                                             *)

IsNode(p)        == p.node \/ "package.json" \in p.has
HasStaticHtml(p) == p.has \cap {"index.html", "papers"} # {} /\ "src-tauri" \notin p.has

\* Every registered gate has error severity.
Found(p) ==
  UNION {Yamllint(p), Jsonlint(p), Markdownlint(p), PSScriptAnalyzer(p), Pylint(p),
         Suppressions(p), AbsolutePaths(p), GitHooks(p), EcosystemSsot(p),
         IF IsNode(p) THEN Eslint(p) \cup Tsc(p) ELSE {},
         IF HasStaticHtml(p) THEN HtmlValidate(p) \cup Pa11y(p) ELSE {},
         IF p.kind # "asset" THEN ReadmeChangelog(p) ELSE {},
         CASE p.kind = "docs"     -> DocsSync(p.domain) \cup DocsManifests(p.domain)
                                       \cup DocsSuite(p.domain)
           [] p.kind = "datasets" -> DatasetManifests(p.domain)
           [] p.kind = "training" -> TrainingSuite(p.domain)
           [] p.kind = "models"   -> ModelsHub(p.domain)
           [] OTHER               -> {}}

Passed(p) == CompileErrors(p) = {} /\ EmojiViolations(p) = {} /\ Found(p) = {}
=============================================================================
