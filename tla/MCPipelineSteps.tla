-------------------------- MODULE MCPipelineSteps --------------------------
(***************************************************************************)
(* A small instance of PipelineSteps, with the verdicts of validate_project *)
(* on the cases below: sound projects, and the same projects with one thing *)
(* changed.                                                                 *)
(***************************************************************************)
EXTENDS PipelineSteps

-----------------------------------------------------------------------------
(* Cases of validation: what the reference says of a project.               *)

MCFile(type) ==
  [type |-> type, place |-> "source", big |-> FALSE, readable |-> TRUE, parses |-> TRUE,
   flaws |-> {}, role |-> "plain", text |-> <<>>]

MCMapping(keys) == [form |-> "mapping", keys |-> keys]
MCPaper == [html |-> TRUE, md |-> TRUE, headings |-> 0, tables |-> 0, htmlLength |-> 10, mdLength |-> 9]
MCManifold == [files |-> ManifoldFiles \cup {"dataset-metadata.json"}, forex |-> TRUE, parquets |-> 8]

MCDomain ==
  [docs |-> [present |-> {"documents", "json", "yaml"}, garbled |-> FALSE, papers |-> {MCPaper},
             sameBaseline |-> TRUE, total |-> 1, listed |-> 1, sameContent |-> TRUE,
             tests |-> "pass"],
   datasets |-> [unified |-> MCMapping({"_registry_metadata"}), models |-> MCMapping({"task_metadata"}),
                 infos |-> {MCMapping({"count", "task"})}, manifolds |-> {MCManifold}, top |-> {}],
   training |-> [registry |-> MCMapping({"_registry_metadata"})],
   models |-> [readme |-> TRUE, models |-> {[readme |-> TRUE, checkpoints |-> {1}]}, top |-> {}],
   code |-> <<>>, asset |-> <<>>]

MCGui == [ownSteps |-> FALSE, stepsDiffer |-> TRUE, interface |-> TRUE,
          snapshot |-> "same", csp |-> "same", openapi |-> "same", npm |-> "same"]

MCClean(kind) ==
  [kind |-> kind, node |-> kind = "code", windows |-> TRUE,
   has |-> {"package.json", "eslint config", "tsconfig", "index.html", "tauri config"},
   files |-> {MCFile(t) : t \in TextTypes}, tools |-> [t \in Tools |-> "well"],
   git |-> [status |-> "well", diff |-> "well", dirty |-> {"other", "readme"}, last |-> {"other"}],
   readme |-> "changelog", hooks |-> {}, gui |-> MCGui, domain |-> MCDomain[kind]]

MCCase(p, must) == [project |-> p, must |-> must]

\* One more file.  A small source file with a flaw that some check looks for in
\* its type must fail the project; a file that lies elsewhere, or has a flaw
\* nobody looks for in it, may do either.
MCSought ==
  [flaw \in {"emoji", "suppression", "path", "style", "wcag"} |->
     CASE flaw = "emoji"       -> Scannable
       [] flaw = "suppression" -> {"py", "ts", "js", "rs"}
       [] flaw = "style"       -> {"py", "ps1", "yaml", "md", "ts", "html", "index"}
       [] flaw = "wcag"        -> {"index"}
       [] OTHER                -> TextTypes]
MCFileMust(f) ==
  IF f.flaws = {} /\ f.readable /\ f.parses THEN "pass"
  ELSE IF f.place = "source" /\ ~f.big
            /\ ((f.type \in Scannable /\ ~f.readable) \/ \E w \in f.flaws : f.type \in MCSought[w])
  THEN "fail" ELSE "any"
MCFileCases ==
  {MCCase([MCClean("code") EXCEPT !.files = @ \cup {f}], MCFileMust(f)) :
     f \in {[type |-> t, place |-> pl, big |-> b, readable |-> r, parses |-> TRUE,
             flaws |-> w, role |-> "plain", text |-> <<>>] :
              t \in TextTypes, pl \in {"source", "hidden", "images", "dist", "vendored"},
              b \in BOOLEAN, r \in BOOLEAN, w \in {{}} \cup {{x} : x \in DOMAIN MCSought}}}

\* What is written into a file: code may not spell out a fact, a document must
\* have it right; a README's changelog and an allowlisted file may say anything.
MCLine(says) == [heading |-> 0, changelog |-> FALSE, says |-> says]
MCHeading(level, history) == [heading |-> level, changelog |-> history, says |-> <<>>]
MCSay(kind, of) == [kind |-> kind, of |-> of]
MCWrong ==
  {<<MCLine(<<MCSay("service", "b"), MCSay("service", "a"), MCSay("address", "b")>>)>>,
   <<MCLine(<<MCSay("reference", "other")>>)>>, <<MCLine(<<MCSay("url", "host")>>)>>}
MCFacts ==
  {<<MCLine(<<MCSay("service", "b"), MCSay("service", "a"), MCSay("address", "a")>>)>>,
   <<MCLine(<<MCSay("port", "a")>>)>>,
   <<MCLine(<<MCSay("owner", "ours")>>)>>, <<MCLine(<<MCSay("url", "below")>>)>>,
   <<MCLine(<<MCSay("folder", "x")>>), MCLine(<<>>), MCLine(<<MCSay("folder", "y")>>),
     MCLine(<<MCSay("folder", "z")>>)>>}
MCBoth == {<<MCLine(<<MCSay("legacy", "x")>>)>>, <<MCLine(<<MCSay("url", "beside")>>)>>}
MCNothing ==
  {<<>>, <<MCLine(<<MCSay("address", "none")>>)>>,
   <<MCLine(<<MCSay("folder", "x"), MCSay("folder", "y")>>), MCLine(<<>>), MCLine(<<>>),
     MCLine(<<MCSay("folder", "z")>>)>>}
MCHistory(text) ==
  <<MCHeading(2, TRUE), MCHeading(3, FALSE)>> \o text \o <<MCHeading(2, FALSE)>>
MCTextMust(f) ==
  IF f.role = "allowlisted" \/ f.text \in MCNothing THEN "pass"
  ELSE IF f.text \in MCBoth \/ f.text \in (IF FileMode("code", f) = "strict" THEN MCFacts ELSE MCWrong)
  THEN "fail" ELSE IF FileMode("code", f) = "consistency" THEN "pass" ELSE "any"
MCTextCases ==
  {MCCase([MCClean("code") EXCEPT !.files = @ \cup {f}], MCTextMust(f)) :
     f \in {[MCFile(t) EXCEPT !.role = r, !.text = x] :
              t \in {"py", "md"}, r \in {"plain", "test", "record", "allowlisted"},
              x \in MCWrong \cup MCFacts \cup MCBoth \cup MCNothing}}
  \cup {MCCase([MCClean("code") EXCEPT
                 !.files = @ \cup {[MCFile("md") EXCEPT !.role = "readme", !.text = MCHistory(x) \o y]}],
               IF y \in MCWrong \cup MCBoth THEN "fail" ELSE "pass") :
          x \in MCWrong \cup MCBoth, y \in MCWrong \cup MCBoth \cup {<<>>}}

\* A tool that did not come to its end must fail the project, whether or not it
\* had something to report; one that did, if it had.
MCToolCases ==
  {MCCase([MCClean("code") EXCEPT
             !.tools[t] = how,
             !.files = IF found THEN {[f EXCEPT !.flaws = {"style", "wcag"}] : f \in @} ELSE @],
          IF how = "well" /\ ~found THEN "pass" ELSE "fail") :
     t \in Tools, how \in Endings, found \in BOOLEAN}

\* Changes that the README's changelog does not mention, or that git does not tell.
MCGits ==
  {g \in [status : Statuses, diff : Diffs, dirty : SUBSET {"other", "readme"},
          last : SUBSET {"other", "readme"}] : g.diff = "first" => g.last = {}}
MCHygieneCases ==
  {MCCase([MCClean(k) EXCEPT !.git = g, !.readme = r],
          IF k = "asset" THEN "pass"
          ELSE IF g.status # "well" \/ (g.dirty = {} /\ g.diff \in {"fails", "raises"}) THEN "fail"
          ELSE IF (g.dirty = {} /\ g.last \subseteq {"readme"}) \/ g.dirty = {"readme"} THEN "pass"
          ELSE IF r = "changelog" /\ (g.dirty = {} \/ "readme" \in g.dirty) THEN "pass" ELSE "fail") :
     k \in {"code", "asset"}, r \in {"absent", "plain", "changelog", "unreadable"}, g \in MCGits}
  \cup {MCCase([MCClean("code") EXCEPT !.hooks = {h}],
               IF ~h.sample /\ ~h.inComment /\ h.cites # {} THEN "fail"
               ELSE IF h.readable THEN "pass" ELSE "any") :
          h \in [sample : BOOLEAN, readable : BOOLEAN, inComment : BOOLEAN,
                 cites : SUBSET {"retired_git_hook_script", "missing_git_hook_target"}]}
  \cup {MCCase([MCClean("code") EXCEPT !.gui[key] = v],
               IF v \in {"same", "absent"} THEN "pass" ELSE "fail") :
          key \in {"snapshot", "csp", "openapi", "npm"}, v \in {"absent", "same", "differs", "garbled"}}

MCDomainCases ==
  {MCCase(MCClean(k), "pass") : k \in DOMAIN MCDomain}
  \cup {MCCase([MCClean("docs") EXCEPT !.domain = d], "fail") :
          d \in {[MCDomain.docs EXCEPT !.garbled = TRUE], [MCDomain.docs EXCEPT !.sameBaseline = FALSE],
                 [MCDomain.docs EXCEPT !.total = 2], [MCDomain.docs EXCEPT !.sameContent = FALSE],
                 [MCDomain.docs EXCEPT !.tests = "fail"], [MCDomain.docs EXCEPT !.present = {"json"}]}
            \cup {[MCDomain.docs EXCEPT !.papers = {q}] :
                    q \in {[MCPaper EXCEPT !.html = FALSE], [MCPaper EXCEPT !.md = FALSE],
                           [MCPaper EXCEPT !.headings = 1], [MCPaper EXCEPT !.tables = -2],
                           [MCPaper EXCEPT !.mdLength = 1], [MCPaper EXCEPT !.mdLength = 31],
                           [MCPaper EXCEPT !.htmlLength = 0]}}}
  \cup {MCCase([MCClean("datasets") EXCEPT !.domain = d], "fail") :
          d \in {[MCDomain.datasets EXCEPT !.top = {"temporary file"}],
                 [MCDomain.datasets EXCEPT !.unified = MCMapping({})],
                 [MCDomain.datasets EXCEPT !.models.form = "garbled"],
                 [MCDomain.datasets EXCEPT !.infos = {MCMapping({"count"})}]}
            \cup {[MCDomain.datasets EXCEPT !.manifolds = {m}] :
                    m \in {[MCManifold EXCEPT !.parquets = 7], [MCManifold EXCEPT !.files = ManifoldFiles],
                           [MCManifold EXCEPT !.files = @ \ {"classes.txt"}]}}}
  \cup {MCCase([MCClean("training") EXCEPT !.domain.registry.form = "list"], "fail")}
  \cup {MCCase([MCClean("models") EXCEPT !.domain = d], "fail") :
          d \in {[MCDomain.models EXCEPT !.readme = FALSE],
                 [MCDomain.models EXCEPT !.models = {[readme |-> TRUE, checkpoints |-> {0, 1}]}],
                 [MCDomain.models EXCEPT !.models = {[readme |-> FALSE, checkpoints |-> {}]}]}}

MCLabelled == MCFileCases \cup MCTextCases \cup MCToolCases \cup MCHygieneCases \cup MCDomainCases
MCCases == {c.project : c \in MCLabelled}

\* The definition of a sound project, against the cases.
ASSUME LabelsAgree ==
  \A c \in MCLabelled : /\ c.must = "pass" => Sound(c.project)
                       /\ c.must = "fail" => ~Sound(c.project)

-----------------------------------------------------------------------------
(* The workspace: env-manager itself, a project that prefers an OpenCV      *)
(* variant, and a Node project.                                             *)

MCManaged   == <<"manager", "datasets", "gui">>
MCCentral   == [p \in {"manager", "datasets", "gui"} |->
                  CASE p = "manager" -> {"lib"} [] p = "datasets" -> {"lib2", "contrib"} [] OTHER -> {}]
MCPulled    == [d \in {"lib", "lib2", "contrib", "opencv", "old"} |->
                  IF d = "lib2" THEN {"opencv"} ELSE {}]
MCPreferred == [p \in {"manager", "datasets", "gui"} |-> IF p = "datasets" THEN "contrib" ELSE "none"]

MCHosts ==
  {[python |-> "inside", tools |-> {"git", "npm"}], [python |-> "linked", tools |-> {"git"}],
   [python |-> "elsewhere", tools |-> {}]}

MCEnvs(p) ==
  {[venv |-> "none", dists |-> {}, cv |-> "none"], [venv |-> "valid", dists |-> {"old"}, cv |-> "none"]}
  \cup IF p = "manager" THEN {[venv |-> "valid", dists |-> {"lib", "old"}, cv |-> "none"]}
       ELSE {[venv |-> "valid", dists |-> {"lib2", "opencv", "old"}, cv |-> "opencv"],
             [venv |-> "broken", dists |-> {}, cv |-> "none"]}

MCSpaces ==
  {[venv  |-> [p \in Projects |-> CASE p = "manager" -> m.venv  [] p = "datasets" -> d.venv  [] OTHER -> "none"],
    dists |-> [p \in Projects |-> CASE p = "manager" -> m.dists [] p = "datasets" -> d.dists [] OTHER -> {}],
    cv    |-> [p \in Projects |-> IF p = "datasets" THEN d.cv ELSE "none"],
    mods  |-> [p \in Projects |-> IF p = "datasets" THEN "none" ELSE s[1]],
    pkg   |-> [p \in Projects |-> p = "gui" \/ (p = "manager" /\ s[1] = "whole")],
    file  |-> [p \in Projects |-> IF p = "datasets" THEN s[2] ELSE NoFile]] :
     m \in MCEnvs("manager"), d \in MCEnvs("datasets"),
     s \in {<<"none", NoFile>>, <<"whole", NoFile>>, <<"whole", File({"lib2", "old"})>>}}
=============================================================================
