---------------------------- MODULE SoundProject ----------------------------
(***************************************************************************)
(* What validation is there to establish (README.md, env_manager/validation*)
(* /gates, /domain), said of the project and not of the checks: Sound(p).  *)
(* Module Validation says how the gates come to their verdict, one by one, *)
(* from files, exit statuses and reports; the two are to agree.            *)
(***************************************************************************)
EXTENDS Validation

-----------------------------------------------------------------------------
(* The text of a file.                                                      *)

\* Line n of a README is history: an earlier heading names the changelog, and no
\* heading of its level or a higher one has come since.
InHistory(f, n) ==
  /\ f.role = "readme"
  /\ \E o \in 1..n : LET level == f.text[o].heading IN
       /\ level # 0 /\ f.text[o].changelog
       /\ \A k \in (o + 1)..n : f.text[k].heading \notin 1..level

\* The mentions that count, as pairs of a line and a place in it.
Counts(f) ==
  UNION {{<<n, i>> : i \in DOMAIN f.text[n].says} : n \in {k \in DOMAIN f.text : ~InHistory(f, k)}}
Mention(f, c) == f.text[c[1]].says[c[2]]
Folders(f)    == {c \in Counts(f) : Mention(f, c).kind = "folder"}

\* Three different folders, such that from the first of them to the last no two
\* neighbouring lines go by without naming one.
ListsProjects(f) ==
  \E a, b, c \in Folders(f) :
    /\ Cardinality({Mention(f, a).of, Mention(f, b).of, Mention(f, c).of}) = 3
    /\ a[1] <= b[1] /\ b[1] <= c[1]
    /\ \A n \in a[1]..(c[1] - 1) : \E m \in Folders(f) : m[1] \in {n, n + 1}

\* Code takes the facts from ecosystem.json: it spells none of them out.
SpellsNothingOut(f) ==
  /\ \A c \in Counts(f) : LET m == Mention(f, c) IN
       /\ m.kind \in {"port", "address"} => m.of = "none"
       /\ m.kind \in {"owner", "reference"} => m.of # "ours"
       /\ m.kind = "url" => m.of \notin {"base", "below", "beside"}
       /\ m.kind # "legacy"
  /\ ~ListsProjects(f)

\* A service that is named in the line of a mention, the last one before it.
NamedLast(f, c) ==
  {s \in Counts(f) :
     /\ s[1] = c[1] /\ s[2] < c[2] /\ Mention(f, s).kind = "service"
     /\ \A t \in Counts(f) : t[1] = c[1] /\ s[2] < t[2] /\ t[2] < c[2]
                               => Mention(f, t).kind # "service"}

\* A document spells them out as they are; a port written as an address is that
\* of the service named last.
SpellsRight(f) ==
  \A c \in Counts(f) : LET m == Mention(f, c) IN
    /\ m.kind = "address" => \A s \in NamedLast(f, c) : Mention(f, s).of = m.of
    /\ m.kind = "reference" => m.of = "ours"
    /\ m.kind = "url" => m.of \notin {"host", "beside"}
    /\ m.kind # "legacy"

TextSound(kind, f) ==
  /\ FileMode(kind, f) = "strict" => SpellsNothingOut(f)
  /\ FileMode(kind, f) = "consistency" => SpellsRight(f)

-----------------------------------------------------------------------------
(* Files, tools, repository.                                                *)

\* The types of files a flaw is looked for in without a tool.
Sought == [emoji |-> Scannable, suppression |-> {"py", "ts", "js", "rs"}, path |-> TextTypes]

\* A source file of a size to be walked can be read, is free of the flaws and has
\* its facts right; what is to be parsed parses, JSON of any size.
FileSound(kind, f) ==
  /\ f.place = "source" /\ ~f.big =>
       /\ f.readable /\ (f.type = "py" => f.parses)
       /\ \A flaw \in DOMAIN Sought : f.type \in Sought[flaw] => flaw \notin f.flaws
       /\ TextSound(kind, f)
  /\ f.place \in {"source", "images"} /\ f.type = "json" => f.readable /\ f.parses

\* The files a tool is run on, or the first of them.
RunOn(p, tool) ==
  CASE tool = "yamllint"      -> In(p, {"source", "hidden", "images"}, {"yaml"})
    [] tool = "markdownlint"  -> In(p, {"source", "hidden", "images"}, {"md"})
    [] tool = "eslint"        -> In(p, {"source"}, {"ts", "js"})
    [] tool = "tsc"           -> In(p, {"source"}, {"ts"})
    [] tool = "html-validate" -> In(p, {"source", "hidden", "images", "dist"}, HtmlTypes)
    [] tool = "pa11y"         -> Audited(p)
    [] tool = "pssa"          -> In(p, {"source", "hidden", "images", "dist"}, {"ps1"})
    [] tool = "pylint"        -> In(p, {"source", "hidden"}, {"py"})

\* A tool has something to do in the project.
Runs(p, tool) ==
  CASE tool = "eslint" -> IsNode(p) /\ "eslint config" \in p.has
    [] tool = "tsc"    -> IsNode(p) /\ "tsconfig" \in p.has
    [] tool = "pylint" -> \E f \in Walked(p) : f.type = "py"
    [] tool = "pssa"   -> p.windows /\ RunOn(p, tool) # {}
    [] tool \in {"html-validate", "pa11y"} -> HasStaticHtml(p) /\ RunOn(p, tool) # {}
    [] tool \in {"yamllint", "markdownlint"} -> RunOn(p, tool) # {}

Flawless(p, tool) ==
  IF tool = "pa11y" THEN \A f \in RunOn(p, tool) : "wcag" \notin f.flaws
  ELSE ~Faulty(RunOn(p, tool))

\* Whatever has something to do came to its end, and found nothing.
ToolsSound(p) ==
  \A tool \in Tools : Runs(p, tool) => p.tools[tool] = "well" /\ Flawless(p, tool)

\* git says what has changed: a first commit has nothing to differ from.
GitWorked(g) == g.status = "well" /\ (g.dirty = {} => g.diff \in {"well", "first"})

\* Changes are known, and are in the README's changelog: those not committed
\* together with it, the last commit's at any time.
ChangelogKept(p) ==
  \/ p.kind = "asset"
  \/ /\ GitWorked(p.git)
     /\ \/ p.git.dirty = {} /\ (p.git.last \subseteq {"readme"} \/ p.readme = "changelog")
        \/ p.git.dirty = {"readme"}
        \/ "readme" \in p.git.dirty /\ p.readme = "changelog"

\* The audit of the changelog gives up without a finding: there are changes and the
\* README cannot be read, or git did not work, and what it did tell passes.
ChangelogSkipped(p) ==
  /\ p.kind # "asset"
  /\ \/ ~(Modified(p.git) \subseteq {"readme"}) /\ p.readme = "unreadable"
     \/ /\ ~GitWorked(p.git)
        /\ Modified(p.git) \subseteq {"readme"} \/ p.readme = "changelog"

HooksSound(p) == \A h \in p.hooks : ~h.sample => h.readable /\ (h.inComment \/ h.cites = {})

\* What the GUI keeps a copy of is in step, where there is a copy.
GuiSound(p) ==
  "tauri config" \in p.has =>
    LET inStep == {"absent", "same"} IN
      /\ {p.gui.snapshot, p.gui.csp, p.gui.npm} \subseteq inStep
      /\ p.gui.interface => p.gui.openapi \in inStep

-----------------------------------------------------------------------------
(* Single projects.                                                         *)

\* The two versions of a paper have the same headings, about as many tables, and
\* neither is much longer: by half the text of Markdown's marks, say.
PaperSound(q) ==
  /\ q.html /\ q.md /\ q.headings = 0 /\ q.tables \in {-1, 0, 1}
  /\ q.htmlLength # 0 /\ q.htmlLength <= 5 * q.mdLength /\ q.mdLength <= 3 * q.htmlLength

DocsSound(d) ==
  /\ {"documents", "json", "yaml"} \subseteq d.present /\ ~d.garbled
  /\ d.sameBaseline /\ d.sameContent /\ d.total = d.listed
  /\ d.tests \in {"absent", "pass"}
  /\ \A q \in d.papers : PaperSound(q)

MappingSound(doc, keys) == doc.form = "absent" \/ (doc.form = "mapping" /\ keys \subseteq doc.keys)

NothingLeft(d) == "staging entry" \notin d.top /\ "temporary file" \notin d.top

DatasetsSound(d) ==
  /\ MappingSound(d.unified, {"_registry_metadata"}) /\ MappingSound(d.models, {"task_metadata"})
  /\ \A i \in d.infos : MappingSound(i, {"count", "task"})
  /\ \A m \in d.manifolds : /\ ManifoldFiles \subseteq m.files
                            /\ m.forex => "dataset-metadata.json" \in m.files /\ m.parquets = 8
  /\ NothingLeft(d)

ModelsSound(d) ==
  d.readme /\ NothingLeft(d) /\ \A m \in d.models : m.readme /\ 0 \notin m.checkpoints

DomainSound(p) ==
  /\ p.kind = "docs"     => DocsSound(p.domain)
  /\ p.kind = "datasets" => DatasetsSound(p.domain)
  /\ p.kind = "training" => MappingSound(p.domain.registry, {"_registry_metadata"})
  /\ p.kind = "models"   => ModelsSound(p.domain)

SoundButChangelog(p) ==
  /\ \A f \in p.files : FileSound(p.kind, f)
  /\ ToolsSound(p) /\ HooksSound(p) /\ GuiSound(p) /\ DomainSound(p)

Sound(p) == SoundButChangelog(p) /\ ChangelogKept(p)

\* The gates "must fail validation" when a tool is missing or broken (models.py:65);
\* the changelog's gate is the one that does not: what it lets pass is "unaudited".
Grade(p) ==
  IF Sound(p) THEN "sound"
  ELSE IF SoundButChangelog(p) /\ ChangelogSkipped(p) THEN "unaudited" ELSE "unsound"

-----------------------------------------------------------------------------
(* What the gates may count on: the values the parts of a project can have. *)

Lines == [heading : 0..6, changelog : BOOLEAN, says : Seq([kind : STRING, of : STRING])]
Shapes == {"absent", "same", "differs", "garbled"}

WellFormed(p) ==
  /\ \A f \in p.files : /\ f.type \in TextTypes /\ f.text \in Seq(Lines)
                        /\ f.big \in BOOLEAN /\ f.readable \in BOOLEAN /\ f.parses \in BOOLEAN
  /\ \A tool \in Tools : p.tools[tool] \in Endings
  /\ p.git.status \in Statuses /\ p.git.diff \in Diffs /\ (p.git.diff = "first" => p.git.last = {})
  /\ \A h \in p.hooks : {h.sample, h.readable, h.inComment} \subseteq BOOLEAN
  /\ "tauri config" \in p.has =>
       {p.gui.snapshot, p.gui.csp, p.gui.openapi, p.gui.npm} \subseteq Shapes
  /\ p.kind = "docs" => \A q \in p.domain.papers : {q.headings, q.tables} \subseteq Int
                                                    /\ {q.htmlLength, q.mdLength} \subseteq Nat
  /\ p.kind \in {"docs", "datasets", "training", "models", "code", "asset"}
=============================================================================
