----------------------------- MODULE MCMetadata -----------------------------
(***************************************************************************)
(* Metadata for TLC: commits of up to three files of different categories  *)
(* with messages that meet every rule, alone and against one another.      *)
(***************************************************************************)
EXTENDS Metadata

File(name, path, base, ext, patch) ==
    [name |-> name, status |-> "added", path |-> path, base |-> base, ext |-> ext, patch |-> patch,
     additions |-> 2, deletions |-> 1]

Main == File("app/main.py", "plain", "plain", ".py", "diff")

Files == {Main, File("app/util.py", "plain", "plain", ".py", "diff"),
          File("tests/test_main.py", "tests", "test", ".py", "diff"),
          File(".github/workflows/test.yml", "workflows", "test", ".yml", "diff"),
          File("requirements.txt", "plain", "build", ".txt", "diff"),
          File("settings.toml", "plain", "plain", ".toml", "diff"),
          File("docs/guide.md", "plain", "plain", ".md", "diff"),
          [File("logo.png", "plain", "plain", ".png", Absent)
               EXCEPT !.additions = Absent, !.status = Absent]}

Nameless == [File(Absent, "plain", "plain", "", Absent) EXCEPT !.status = Null]

\* Every order of up to three files, and lists with an entry that is skipped.
FileLists ==
    UNION {{s \in [1 .. n -> Files] : IsInjective(s)} : n \in 0 .. 3}
    \cup {<<Nameless>>, <<Nameless, Main>>}

Message(prefix, keywords, bang, footer) ==
    [text |-> "text", prefix |-> prefix, keywords |-> keywords, bang |-> bang,
     footer |-> footer, numbers |-> {12, 3}, links |-> {3}]

Silent == Message(Absent, {}, FALSE, FALSE)

\* Among them a revert of a fix, and a prefix whose scope spans two lines: it
\* has a "!" but is no prefix of the subject.
Messages ==
    {Silent, Message(Absent, {}, TRUE, FALSE),
     Message(Absent, {"revert", "bugfix"}, FALSE, FALSE),
     Message(Absent, {"perf", "refactor"}, FALSE, TRUE),
     Message("feat", {"feature", "bugfix"}, TRUE, FALSE)}

Figures(add, del, total) == [additions |-> add, deletions |-> del, total |-> total]

Whole == Figures(9, 9, 18)

\* A total that is missing or null, other figures missing, and figures that
\* neither cover three files nor add up.
OddStats == {Figures(9, 9, Absent), Figures(9, 9, Null), Figures(Absent, 9, 9),
             Figures(3, Absent, Absent), Figures(1, 1, 3)}

Payload(message, files, stats) ==
    [sha |-> "sha", url |-> "url", message |-> message, files |-> files, stats |-> stats]

\* Odd figures with one message: neither looks at the other.
WellFormed ==
    {Payload(m, f, s) : m \in Messages, f \in FileLists, s \in {Absent, Whole}}
    \cup {Payload(Silent, f, s) : f \in FileLists, s \in OddStats}

\* A commit of each conventional type, and the answers that cannot be stored.
Plain == Payload(Silent, <<>>, Absent)
MCPayloads ==
    WellFormed
    \cup {Payload(Message(w, {}, FALSE, FALSE), <<>>, Absent) : w \in DOMAIN TypeAliases}
    \cup {[Plain EXCEPT !.sha = Absent], [Plain EXCEPT !.sha = Null], [Plain EXCEPT !.url = Null],
          [Plain EXCEPT !.files = <<Main, [Main EXCEPT !.status = Null]>>],
          [Plain EXCEPT !.message.text = "blank"], [Plain EXCEPT !.message.text = "empty"]}

=============================================================================
