------------------------------ MODULE SsotText ------------------------------
(***************************************************************************)
(* The facts of ecosystem.json written into a project's files              *)
(* (env_manager/validation/gates/ecosystem_ssot/: allowlist.py, literals.py,*)
(* consistency.py, scan.py).  The text of a file is a sequence of lines; a *)
(* line has a heading level (0: none), says whether its heading names the  *)
(* changelog, and mentions things in order: a mention is a record of kind  *)
(* and of.  A number ("port", or "address" behind a host or the word port) *)
(* is of the service whose port it is, or of "none".                       *)
(***************************************************************************)
EXTENDS Integers, Sequences, FiniteSets

Flag(found, kind) == IF found THEN {kind} ELSE {}

-----------------------------------------------------------------------------
(* allowlist.py                                                             *)

\* file_mode: the facts in a file are checked not at all, for being right, or
\* for not being there.
FileMode(kind, f) ==
  IF f.role = "allowlisted" THEN "skip"
  ELSE IF f.role = "test" THEN "strict"
  ELSE IF kind = "asset" \/ f.role = "record" \/ f.type \in {"md", "html", "index"}
  THEN "consistency" ELSE "strict"

\* The level of the changelog section that a line of a README lies in, or 0.
SkipLevel(f) ==
  LET level[n \in 0..Len(f.text)] ==
        IF n = 0 THEN 0
        ELSE LET line == f.text[n]
                 open == IF line.heading \in 1..level[n - 1] THEN 0 ELSE level[n - 1] IN
               IF open = 0 /\ line.heading # 0 /\ line.changelog THEN line.heading ELSE open
  IN level

\* scannable_lines: such a section is history.
ScannableLines(f) == {n \in DOMAIN f.text : f.role = "readme" => SkipLevel(f)[n] = 0}

\* The mentions of these kinds in the lines to scan, with their places.
Mentions(f, kinds) ==
  UNION {{<<n, i, f.text[n].says[i].of>> :
            i \in {k \in DOMAIN f.text[n].says : f.text[n].says[k].kind \in kinds}} :
         n \in ScannableLines(f)}

Of(mention) == mention[3]

-----------------------------------------------------------------------------
(* literals.py: what code may not write out.                                *)

PortLiteral(f) == Flag(\E m \in Mentions(f, {"port", "address"}) : Of(m) # "none", "ssot_port")

KaggleOwnerLiteral(f) ==
  Flag(\E m \in Mentions(f, {"owner", "reference"}) : Of(m) = "ours", "ssot_kaggle_owner")

\* The base URL is looked for as a text, so a URL that merely begins like it is found.
DocsUrlLiteral(f) ==
  Flag(\E m \in Mentions(f, {"url"}) : Of(m) \in {"base", "below", "beside"}, "ssot_docs_url")

ProjectListMinimum == 3
ProjectListGap     == 2

\* Lines that name folders form a group as long as no two neighbours are more
\* than the gap apart.
ProjectList(f) ==
  LET named  == Mentions(f, {"folder"})
      lines  == {m[1] : m \in named}
      starts == {n \in lines : lines \cap ((n - ProjectListGap)..(n - 1)) = {}}
      group(s) == {m \in named : m[1] >= s /\ ~\E t \in starts : s < t /\ t <= m[1]} IN
    Flag(\E s \in starts : Cardinality({Of(m) : m \in group(s)}) >= ProjectListMinimum,
         "ssot_project_list")

-----------------------------------------------------------------------------
(* consistency.py: what documentation and records must have right.          *)

\* A port written as an address must be that of the service named last before it.
WrongPort(f) ==
  LET before(m)  == {s \in Mentions(f, {"service"}) : s[1] = m[1] /\ s[2] < m[2]}
      nearest(m) == CHOOSE s \in before(m) : \A t \in before(m) : t[2] <= s[2] IN
    Flag(\E m \in Mentions(f, {"address"}) : before(m) # {} /\ Of(nearest(m)) # Of(m),
         "ssot_wrong_port")

WrongKaggleOwner(f) ==
  Flag(\E m \in Mentions(f, {"reference"}) : Of(m) # "ours", "ssot_wrong_kaggle_owner")

WrongDocsUrl(f) ==
  Flag(\E m \in Mentions(f, {"url"}) : Of(m) \in {"host", "beside"}, "ssot_wrong_docs_url")

LegacyFolder(f) == Flag(Mentions(f, {"legacy"}) # {}, "ssot_legacy_folder")

-----------------------------------------------------------------------------
(* scan.py                                                                  *)

StrictFindings(f) ==
  PortLiteral(f) \cup KaggleOwnerLiteral(f) \cup DocsUrlLiteral(f) \cup ProjectList(f)
    \cup LegacyFolder(f)

ConsistencyFindings(f) ==
  WrongPort(f) \cup WrongKaggleOwner(f) \cup WrongDocsUrl(f) \cup LegacyFolder(f)

ScanFile(f, mode) ==
  IF ~f.readable THEN {"read_error"}
  ELSE IF mode = "consistency" THEN ConsistencyFindings(f) ELSE StrictFindings(f)
=============================================================================
