------------------------------ MODULE Metadata ------------------------------
(***************************************************************************)
(* From GitHub's answer to stored metadata: the extraction of the changed  *)
(* files, the classification of files and commits, the metadata builder    *)
(* and the schema check of app/processing, for one commit that requests    *)
(* with different options process again and again.                         *)
(*                                                                         *)
(* A file name stands for what the classifier looks at, a message for what *)
(* the patterns of the rule engine find in it.  Author, dates, the changes *)
(* of a file and the merge flag are copied and left out.                   *)
(***************************************************************************)
EXTENDS Lists, FiniteSets, SequencesExt

CONSTANTS Payloads,     \* the answers GitHub may give for the commit
          MaxRequests,  \* bound on the requests that process it
          Absent,       \* a field of the answer, or of the metadata, is not there
          Null          \* a field that is null, where that is not the same

VARIABLES payload,      \* the answer, the same for every request
          stored,       \* the metadata in the store, or Absent
          last,         \* how the last request ended
          requests      \* requests so far

vars == <<payload, stored, last, requests>>

-----------------------------------------------------------------------------
(* file_classifier.py: where a file is (path), what it is called (base) and *)
(* its extension.                                                          *)

LanguageTable ==
    {<<".py", "Python">>, <<".js", "JavaScript">>, <<".jsx", "JavaScript">>,
     <<".ts", "TypeScript">>, <<".tsx", "TypeScript">>, <<".java", "Java">>,
     <<".go", "Go">>, <<".rb", "Ruby">>, <<".rs", "Rust">>, <<".c", "C">>, <<".h", "C">>,
     <<".cpp", "C++">>, <<".cc", "C++">>, <<".cs", "C#">>, <<".php", "PHP">>,
     <<".swift", "Swift">>, <<".kt", "Kotlin">>, <<".scala", "Scala">>,
     <<".sh", "Shell">>, <<".sql", "SQL">>, <<".md", "Markdown">>,
     <<".rst", "reStructuredText">>, <<".html", "HTML">>, <<".css", "CSS">>,
     <<".scss", "SCSS">>, <<".yml", "YAML">>, <<".yaml", "YAML">>, <<".json", "JSON">>,
     <<".toml", "TOML">>}

Languages == {l[2] : l \in LanguageTable}
LanguageOf ==
    [e \in {l[1] : l \in LanguageTable} |-> (CHOOSE l \in LanguageTable : l[1] = e)[2]]

ConfigExt == {".yml", ".yaml", ".toml", ".ini", ".cfg", ".env", ".json"}
DocExt == {".md", ".rst", ".txt", ".adoc"}
AssetExt == {".png", ".jpg", ".jpeg", ".gif", ".svg", ".ico", ".woff", ".woff2", ".ttf"}
DataExt == {".csv", ".tsv", ".parquet", ".xml"}

DetectLanguage(f) ==
    IF f.ext \in DOMAIN LanguageOf THEN LanguageOf[f.ext] ELSE Absent

\* What the first rule that holds gives.
Rule(gives, holds) == [gives |-> gives, holds |-> holds]
FirstRule(rules, otherwise) ==
    LET i == SelectInSeq(rules, LAMBDA r : r.holds)
    IN  IF i = 0 THEN otherwise ELSE rules[i].gives

\* _is_test_path
IsTestPath(f) == f.path = "tests" \/ f.base = "test"

ClassifyFile(f) ==
    FirstRule(<<Rule("ci", f.path = "workflows" \/ f.base = "ci"),
                Rule("test", IsTestPath(f)),
                Rule("build", f.base = "build"),
                Rule("docs", f.ext \in DocExt \/ f.base = "readme"),
                Rule("asset", f.ext \in AssetExt),
                Rule("data", f.ext \in DataExt),
                Rule("config", f.ext \in ConfigExt),
                Rule("source", f.ext \in DOMAIN LanguageOf \ DocExt)>>, "other")

FileCategories == {"source", "test", "docs", "config", "build", "ci", "asset",
                   "data", "other"}

-----------------------------------------------------------------------------
(* diff_extractor.py                                                       *)

OrZero(n) == IF n = Absent THEN 0 ELSE n

\* A missing status has a default, a null one is passed on.
StatusOf(f) == IF f.status = Absent THEN "modified" ELSE f.status

\* Fault: a file without a patch is left out.
ExtractChangedFilesPatched(p, includePatch) ==
    LET named == {f \in Range(p.files) : f.name # Absent /\ (includePatch => f.patch # Absent)}
        entries == Selected(p.files, named)
        file(f) == [name |-> f.name, status |-> StatusOf(f),
                    additions |-> OrZero(f.additions), deletions |-> OrZero(f.deletions),
                    category |-> ClassifyFile(f), language |-> DetectLanguage(f),
                    patch |-> f.patch]
    IN  [i \in DOMAIN entries |-> file(entries[i])]

ExtractChangedFiles(p, includePatch) ==
    LET named == {f \in Range(p.files) : f.name # Absent}
        entries == Selected(p.files, named)
        file(f) == [name |-> f.name, status |-> StatusOf(f),
                    additions |-> OrZero(f.additions), deletions |-> OrZero(f.deletions),
                    category |-> ClassifyFile(f), language |-> DetectLanguage(f),
                    patch |-> IF includePatch THEN f.patch ELSE Absent]
    IN  [i \in DOMAIN entries |-> file(entries[i])]

Additions(files) == Total([i \in DOMAIN files |-> files[i].additions])
Deletions(files) == Total([i \in DOMAIN files |-> files[i].deletions])

\* Fault: a missing total counts as 0, as a null one does.
AggregateStatsZero(files, p) ==
    LET add == IF p.stats = Absent THEN Additions(files) ELSE OrZero(p.stats.additions)
        del == IF p.stats = Absent THEN Deletions(files) ELSE OrZero(p.stats.deletions)
        own == IF p.stats = Absent THEN add + del ELSE p.stats.total
    IN  [additions |-> add, deletions |-> del, files_changed |-> Len(files),
         total |-> IF own \in {Absent, Null} THEN 0 ELSE own]

\* GitHub's own figures, or else sums over the files.  The default of
\* stats.get("total", ...) is for a missing total; a null one counts as 0.
AggregateStats(files, p) ==
    LET add == IF p.stats = Absent THEN Additions(files) ELSE OrZero(p.stats.additions)
        del == IF p.stats = Absent THEN Deletions(files) ELSE OrZero(p.stats.deletions)
        own == IF p.stats = Absent THEN Absent ELSE p.stats.total
    IN  [additions |-> add, deletions |-> del, files_changed |-> Len(files),
         total |-> IF own = Absent THEN add + del ELSE IF own = Null THEN 0 ELSE own]

CountOf(files, c) == Cardinality({i \in DOMAIN files : files[i].category = c})

CategoryCounts(files) ==
    [c \in {files[i].category : i \in DOMAIN files} |-> CountOf(files, c)]

DistinctLanguages(files) == {files[i].language : i \in DOMAIN files} \ {Absent}

-----------------------------------------------------------------------------
(* rule_engine.py: a message has the word of the Conventional Commits      *)
(* prefix of its subject (or Absent), the keyword rules its subject meets, *)
(* the "!" of a prefix, a BREAKING CHANGE, and the issues it names by      *)
(* number and by link.  The prefix is matched against the subject for the  *)
(* type and against the whole message for the "!".                         *)

TypeAliases ==
    [feat |-> "feature", feature |-> "feature", fix |-> "bugfix", bugfix |-> "bugfix",
     docs |-> "docs", test |-> "test", tests |-> "test", chore |-> "chore",
     refactor |-> "refactor", style |-> "style", perf |-> "perf", build |-> "build",
     ci |-> "ci", revert |-> "revert"]

\* models.py
ChangeTypes == {"feature", "bugfix", "refactor", "docs", "test", "chore", "style",
                "perf", "build", "ci", "revert", "unknown"}

KeywordRules == <<"bugfix", "feature", "refactor", "perf", "revert">>

\* A sorted list without repetitions: its set says as much.
ExtractIssueReferences(m) == m.numbers \cup m.links

\* message_subject: the first line of the stripped message; a message of
\* blanks has none, and [0] raises an IndexError.
NoFirstLine(m) == m.text = "blank"

IsBreakingChange(m) == m.footer \/ m.bang

\* max(counts, key=counts.get): of the most frequent the one met first.
Dominant(files) ==
    LET most(f) == \A c \in FileCategories : CountOf(files, c) <= CountOf(files, f.category)
    IN  files[SelectInSeq(files, most)].category

TypeOfCategory(c) ==
    CASE c = "source" -> "feature"
      [] c \in {"test", "docs", "ci", "build"} -> c
      [] OTHER -> "unknown"

\* Fault: the files are looked at before the keywords.
ClassifyChangeTypeFilesFirst(m, files) ==
    IF m.prefix # Absent THEN TypeAliases[m.prefix]
    ELSE LET fromFiles == IF files = <<>> THEN "unknown" ELSE TypeOfCategory(Dominant(files))
             i == SelectInSeq(KeywordRules, LAMBDA k : k \in m.keywords)
         IN  IF fromFiles # "unknown" THEN fromFiles
             ELSE IF i = 0 THEN "unknown" ELSE KeywordRules[i]

\* 1. the prefix; 2. the keywords, in the order of their rules; 3. the files.
ClassifyChangeType(m, files) ==
    IF m.prefix # Absent THEN TypeAliases[m.prefix]
    ELSE FirstRule([i \in DOMAIN KeywordRules |->
                        Rule(KeywordRules[i], KeywordRules[i] \in m.keywords)],
                   IF files = <<>> THEN "unknown" ELSE TypeOfCategory(Dominant(files)))

\* Fault: only a BREAKING CHANGE makes the tag.
DeriveTagsFooter(m, files) ==
    {<<"cat", files[i].category>> : i \in DOMAIN files}
    \cup {<<"lang", l>> : l \in DistinctLanguages(files)}
    \cup (IF m.footer THEN {<<"breaking">>} ELSE {})

DeriveTags(m, files) ==
    {<<"cat", files[i].category>> : i \in DOMAIN files}
    \cup {<<"lang", l>> : l \in DistinctLanguages(files)}
    \cup (IF IsBreakingChange(m) THEN {<<"breaking">>} ELSE {})

-----------------------------------------------------------------------------
(* schema_builder.py, validator.py and process_commit                      *)

\* What the options of a request say: include_diff, enable_llm.
Options == [include_patch : BOOLEAN, llm : BOOLEAN]

\* LLMAnalyzer.analyze: the wording is left out.
Analyze(o) == IF o.llm THEN "summary" ELSE Absent

BuildMetadata(p, o) ==
    LET files == ExtractChangedFiles(p, o.include_patch)
    IN  [sha |-> p.sha,
         change_type |-> ClassifyChangeType(p.message, files),
         breaking_change |-> IsBreakingChange(p.message),
         issue_references |-> ExtractIssueReferences(p.message),
         tags |-> DeriveTags(p.message, files),
         stats |-> AggregateStats(files, p),
         file_categories |-> CategoryCounts(files),
         languages |-> DistinctLanguages(files),
         files |-> files,
         llm_summary |-> Analyze(o)]

\* The ChangedFile and FeatureMetadata models accept it: a null status or
\* html_url is no string, a null sha cannot be cut short (sha[:7]), a type
\* outside the enumeration is no ChangeType.  What fails here is no schema
\* violation.
Builds(p, o) ==
    /\ \A f \in Range(p.files) : f.name # Absent => f.status # Null
    /\ p.sha # Null /\ p.url # Null /\ ~NoFirstLine(p.message)
    /\ BuildMetadata(p, o).change_type \in ChangeTypes

\* Fault: the schema does not know a type the model has.
SchemaTypesOld == {"feature", "bugfix", "refactor", "docs", "test", "chore",
                   "perf", "build", "ci", "revert", "unknown"}

\* The enumeration in feature_metadata.schema.json.
SchemaTypes == {"feature", "bugfix", "refactor", "docs", "test", "chore", "style",
                "perf", "build", "ci", "revert", "unknown"}

\* What else the schema asks of accepted metadata: a sha of 7 to 40 hex digits
\* (a missing one is the empty string).
Validates(meta) == meta.sha # Absent /\ meta.change_type \in SchemaTypes

-----------------------------------------------------------------------------
\* GitHub's answers.  What is missing is Absent, and so is what is null where
\* the code treats that alike; where it does not, what is null is Null.
Text == STRING \cup {Absent}
Figure == Nat \cup {Absent}
Statuses == {"added", "removed", "modified", "renamed", "copied", "changed", "unchanged"}

FileEntries ==
    [name : Text, status : Statuses \cup {Absent, Null}, patch : Text, ext : STRING,
     path : {"plain", "tests", "workflows"}, base : {"plain", "test", "build", "ci", "readme"},
     additions : Figure, deletions : Figure]

CommitMessages ==
    [text : {"text", "blank", "empty"}, prefix : DOMAIN TypeAliases \cup {Absent},
     keywords : SUBSET Range(KeywordRules), bang : BOOLEAN, footer : BOOLEAN,
     numbers : SUBSET Nat, links : SUBSET Nat]

Answers ==
    [sha : Text \cup {Null}, url : Text \cup {Null}, message : CommitMessages,
     files : Seq(FileEntries),
     stats : {Absent} \cup
                 [additions : Figure, deletions : Figure, total : Figure \cup {Null}]]

\* A name stands for all that the classifier looks at.
NamesTell(p) ==
    \A f, g \in Range(p.files) : f.name = g.name /\ f.name # Absent =>
        f.path = g.path /\ f.base = g.base /\ f.ext = g.ext

ASSUME MetadataAssumption ==
    /\ MaxRequests \in Nat
    /\ Absent \notin Languages \cup Nat
    /\ Null \notin Nat \cup {Absent}
    /\ Payloads \subseteq Answers
    /\ \A p \in Payloads : NamesTell(p)
    /\ \A p \in Payloads, o \in Options : BuildMetadata(p, o) # Absent

Init ==
    /\ payload \in Payloads
    /\ stored = Absent
    /\ last = "none"
    /\ requests = 0

\* process_commit with the answer it got: an exception, a refusal by the
\* schema, or metadata that replaces what was stored.
Process(o) ==
    /\ requests < MaxRequests
    /\ requests' = requests + 1
    /\ UNCHANGED payload
    /\ \/ /\ ~Builds(payload, o)
          /\ last' = "unbuildable" /\ UNCHANGED stored
       \/ /\ Builds(payload, o) /\ ~Validates(BuildMetadata(payload, o))
          /\ last' = "invalid" /\ UNCHANGED stored
       \/ /\ Builds(payload, o) /\ Validates(BuildMetadata(payload, o))
          /\ last' = "valid" /\ stored' = BuildMetadata(payload, o)

Next == \E o \in Options : Process(o)

Spec == Init /\ [][Next]_vars

-----------------------------------------------------------------------------
\* Type invariant.
TypeOK ==
    /\ payload \in Payloads
    /\ requests \in 0 .. MaxRequests
    /\ last \in {"none", "valid", "invalid", "unbuildable"}
    /\ stored # Absent =>
          /\ stored.change_type \in ChangeTypes
          /\ stored.breaking_change \in BOOLEAN
          /\ stored.issue_references \subseteq Nat
          /\ stored.stats \in [{"additions", "deletions", "total", "files_changed"} -> Nat]
          /\ DOMAIN stored.file_categories \subseteq FileCategories
          /\ stored.languages \subseteq Languages

\* A commit that GitHub names, links and gives a subject, and whose files have a
\* status, is always stored: whatever its message and files, the rules stay
\* within the types of the model, and these within the schema, so that what a
\* batch retries and dead-letters is never the builder's own doing (models.py:38,
\* validator.py:32).
WellFormedIsStored ==
    /\ payload.sha # Absent => last # "invalid"
    /\ /\ payload.sha # Null /\ payload.url # Null /\ payload.message.text # "blank"
       /\ \A f \in Range(payload.files) : f.name # Absent => f.status # Null
       => last # "unbuildable"

\* The fields that count the files agree, though each is computed apart: the
\* categories add up to files_changed, and the tags name the same categories
\* and languages (diff_extractor.py:54-69, rule_engine.py:100-108).
FieldsAgree ==
    stored # Absent =>
        LET cats == stored.file_categories
            named(kind) == {t[2] : t \in {u \in stored.tags : u[1] = kind}}
        IN  /\ Cardinality(UNION {{c} \X (1 .. cats[c]) : c \in DOMAIN cats})
                  = stored.stats.files_changed
            /\ named("cat") = DOMAIN cats
            /\ named("lang") = stored.languages
            /\ <<"breaking">> \in stored.tags <=> stored.breaking_change

AdditionsListed == Total([i \in DOMAIN payload.files |-> OrZero(payload.files[i].additions)])
DeletionsListed == Total([i \in DOMAIN payload.files |-> OrZero(payload.files[i].deletions)])

\* GitHub's figures are stored as they come, and they may count files that its
\* list does not show, or be missing or null.  Totals that fall short of the
\* files stored are GitHub's own: its stats have less, or nothing, where its
\* list has more; and only a total that GitHub sent, null or not the sum,
\* differs from additions and deletions (diff_extractor.py:34-51).
ShortfallIsGitHubs ==
    stored # Absent =>
        LET own == payload.stats
            stats == stored.stats
        IN  /\ stats.additions < Additions(stored.files) =>
                   own # Absent /\ OrZero(own.additions) < AdditionsListed
            /\ stats.deletions < Deletions(stored.files) =>
                   own # Absent /\ OrZero(own.deletions) < DeletionsListed
            /\ stats.total # stats.additions + stats.deletions =>
                   /\ own # Absent
                   /\ own.total \notin {Absent, OrZero(own.additions) + OrZero(own.deletions)}

\* All figures of a commit are typed and agree with its files, but for what
\* GitHub itself has otherwise.
FiguresAgree == TypeOK /\ FieldsAgree /\ ShortfallIsGitHubs

\* A file counted as source is a program in a known language and in no place
\* of tests or workflows: what the type "feature" of a commit without any
\* keyword rests on (file_classifier.py:75, :92-109).
SourceIsCode ==
    stored # Absent =>
        \A i \in DOMAIN stored.files : stored.files[i].category = "source" =>
            /\ stored.files[i].language \in stored.languages
            /\ \A f \in Range(payload.files) : f.name = stored.files[i].name =>
                   f.path = "plain" /\ f.base = "plain"

\* The files decide the change type only where the message says nothing, and
\* then by a majority the counts in file_categories confirm (rule_engine.py:70-95).
FilesFillIn ==
    stored # Absent =>
        LET alone == ClassifyChangeType(payload.message, <<>>)
            cats == stored.file_categories
        IN  /\ alone # "unknown" => stored.change_type = alone
            /\ alone = "unknown" /\ stored.change_type # "unknown" =>
                 \E c \in DOMAIN cats :
                     /\ TypeOfCategory(c) = stored.change_type
                     /\ \A d \in DOMAIN cats : cats[d] <= cats[c]

\* The order in which GitHub lists the files matters to nothing but the change
\* type, and to that only between categories with equally many files.
OrderBreaksTies ==
    stored # Absent =>
        LET other == BuildMetadata([payload EXCEPT !.files = Reverse(@)],
                                   [include_patch |-> TRUE, llm |-> FALSE])
            cats == stored.file_categories
        IN  /\ other.tags = stored.tags /\ other.stats = stored.stats
            /\ other.file_categories = cats /\ other.languages = stored.languages
            /\ other.change_type # stored.change_type =>
                 \E c, d \in DOMAIN cats :
                     c # d /\ cats[c] = cats[d] /\ \A e \in DOMAIN cats : cats[e] <= cats[c]

\* What a commit is called has its ground in its message or, failing that, in
\* the kinds of its files and no accident of their order.
TypeGrounded == FilesFillIn /\ SourceIsCode /\ OrderBreaksTies

\* The last request decides what is stored, but its options decide no more
\* than patches and summary: processing a commit again, with or without its
\* diff, never changes what it is filed and found under (engine.py:41-47).
ReprocessingKeepsFacts ==
    [][stored # Absent =>
         /\ stored' # Absent
         /\ [f \in DOMAIN stored \ {"files", "llm_summary"} |-> stored'[f]]
              = [f \in DOMAIN stored \ {"files", "llm_summary"} |-> stored[f]]
         /\ [i \in DOMAIN stored.files |-> [stored.files[i] EXCEPT !.patch = Absent]]
              = [i \in DOMAIN stored'.files |-> [stored'.files[i] EXCEPT !.patch = Absent]]]_vars

=============================================================================
