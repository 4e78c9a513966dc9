-------------------------------- MODULE Judges --------------------------------
(* The two judges of generated code.  The runtime auditor adds a model's opinion   *)
(* to deterministic facts.  The physics reviewer is shown excerpts of the project  *)
(* that fit into a prompt, and its answer is normalised: fixes that only a user    *)
(* could make, or that are about the format of outputs, must not block.           *)
EXTENDS Integers, Sequences, FiniteSetsExt

CONSTANTS
    Fixes,          \* fixes a reviewer may ask for: which wordings each contains
    Projects,       \* generated projects: sets of files, their paths in lexical order
    Contexts,       \* sizes of the rest of a prompt
    PromptLimit,    \* MAX_REVIEW_CONTEXT_CHARS
    FilesLimit,     \* PROJECT_FILE_REVIEW_CHARS
    FileLimit,      \* PROJECT_FILE_REVIEW_CHARS_PER_FILE
    ShortLimit,     \* 1800 characters of a file, 900 in the next round
    TinyLimit,
    Capped,         \* what is left of a list of the model IR
    Note            \* the remarks an abridged excerpt ends with

SourceFile ==
    [path : Nat, place : Nat, acts : BOOLEAN, views : BOOLEAN,
     lines : Seq([size : Nat, rank : Nat])]

ASSUME ExcerptAssumption ==
    /\ {PromptLimit, FilesLimit, FileLimit, ShortLimit, TinyLimit, Capped, Note} \subseteq Nat
    /\ TinyLimit <= ShortLimit /\ ShortLimit <= FileLimit
    /\ \A project \in Projects : IsFiniteSet(project) /\ project \subseteq SourceFile
    /\ Contexts \subseteq [ir : Nat, modules : Nat, names : Nat]

-------------------------------------------------------------------------------
(* What the reviewer answers.  A fix is the set of wordings found in its text.     *)

\* _is_user_input_fix: it asks for a confirmation, for a change of the model IR, or
\* for a choice between contradictory statements.
AsksUser(fix) ==
    \/ "confirmation" \in fix
    \/ {"model", "change"} \subseteq fix
    \/ {"contradiction", "choice"} \subseteq fix

\* _is_advisory_output_format_fix
IsFormat(fix) == {"output", "naming"} \subseteq fix /\ "defect" \notin fix

\* _classify_required_fixes: what is left for the agent; all else becomes advice.
Repairable(fixes) == {f \in fixes : ~AsksUser(f) /\ ~IsFormat(f)}

Answers ==
    [status : {"pass", "revise", "needs_user_input", "fail"},
     routing : {"accept", "repair_code", "request_user_input", "fail", "other"},
     fixes : SUBSET Fixes, advice : BOOLEAN]

\* _normalize_routing_recommendation, the lists of user questions being empty by now.
Routing(answer) ==
    IF Repairable(answer.fixes) # {} THEN "repair_code"
    ELSE IF answer.routing = "request_user_input" THEN "accept"
    ELSE IF answer.routing # "other" THEN answer.routing
    ELSE IF answer.status \in {"pass", "needs_user_input"} THEN "accept" ELSE "fail"

\* Variant: advice outweighs the fixes.
Normalized_AdviceWins(answer) ==
    IF answer.advice \/ Repairable(answer.fixes) # answer.fixes THEN "pass"
    ELSE IF answer.status = "fail" THEN "revise" ELSE answer.status

\* _normalize_review: what becomes of the status.  The graph treats "fail" as "revise":
\* both have fixes then, if only the one that says that there were none.
Normalized(answer) ==
    LET advised == answer.advice \/ Repairable(answer.fixes) # answer.fixes
        status == IF Routing(answer) = "accept" THEN "pass"
                  ELSE IF Routing(answer) = "repair_code" /\ answer.status = "needs_user_input"
                  THEN "revise"
                  ELSE answer.status
    IN  IF status \in {"revise", "fail"}
        THEN IF Repairable(answer.fixes) = {} /\ advised THEN "pass" ELSE "revise"
        ELSE status

\* A call that fails is a review that asks for a revision.
Failed == [status |-> "fail", routing |-> "repair_code", fixes |-> {}, advice |-> FALSE]

\* The reviewer rejects the project for something the agent can mend.
NamesDefect(answer) == answer.status # "pass" /\ Repairable(answer.fixes) # {}

\* The reviews there can be: what becomes of the answer, and what it named.
Reviews == {[verdict |-> Normalized(a), defect |-> NamesDefect(a)] : a \in Answers \cup {Failed}}

-------------------------------------------------------------------------------
(* What the reviewer is shown.  Sizes are in characters; a line carries the rank   *)
(* of the first keyword it contains, 0 for none.                                  *)

\* _project_file_review_priority: a file's place in the list of important ones, moved up
\* for code that acts and for code that writes views.
Priority(file) ==
    LET place == IF file.acts THEN Max({0, file.place - 5}) ELSE file.place
    IN  IF file.views THEN Min({8, place}) ELSE place

FileBefore(f, g) ==
    \/ Priority(f) < Priority(g)
    \/ Priority(f) = Priority(g) /\ f.path < g.path

NextFile(files) == CHOOSE f \in files : \A g \in files : ~FileBefore(g, f)

\* A few lines around each keyword and the head of the file, most wanted first.
Windows(lines) ==
    LET n == Len(lines)
        hits == {<<lines[i].rank, Max({1, i - 2}), Min({n, i + 3})>> :
                    i \in {j \in 1..n : lines[j].rank > 0}}
    IN  IF hits = {} THEN {<<50, 1, Min({n, 40})>>} ELSE hits \cup {<<40, 1, Min({n, 12})>>}

WindowBefore(v, w) ==
    \/ v[1] < w[1]
    \/ v[1] = w[1] /\ v[2] < w[2]
    \/ v[1] = w[1] /\ v[2] = w[2] /\ v[3] < w[3]

NextWindow(windows) == CHOOSE w \in windows : \A v \in windows : ~WindowBefore(v, w)

Sum(sizes) ==
    LET upTo[k \in 0..Len(sizes)] == IF k = 0 THEN 0 ELSE upTo[k - 1] + sizes[k]
    IN  upTo[Len(sizes)]

SizeOf(lines, I) == Sum([i \in 1..Len(lines) |-> IF i \in I THEN lines[i].size ELSE 0])

\* One window: left out if it does not fit; a gap before it is marked.
TakeWindow(lines, limit, acc) ==
    LET w == NextWindow(acc.left)
        new == (w[2]..w[3]) \ acc.lines
        gap == acc.last # 0 /\ new # {} /\ Min(new) > acc.last + 1
        cost == SizeOf(lines, new) + (IF gap THEN 1 ELSE 0)
    IN  IF new = {} \/ acc.size + cost > limit
        THEN [acc EXCEPT !.left = @ \ {w}]
        ELSE [left |-> acc.left \ {w}, lines |-> acc.lines \cup new,
              size |-> acc.size + cost, last |-> Max(new)]

\* _code_excerpt_for_review: an abridged file ends with a remark that is not counted.
Excerpt(lines, limit) ==
    LET n == Cardinality(Windows(lines))
        after[k \in 0..n] ==
            IF k = 0 THEN [left |-> Windows(lines), lines |-> {}, size |-> 0, last |-> 0]
            ELSE TakeWindow(lines, limit, after[k - 1])
    IN  [lines |-> after[n].lines,
         size |-> IF after[n].lines = 1..Len(lines) THEN after[n].size ELSE after[n].size + Note]

\* One file: passed over if it is empty or nothing is left of the share of all files.
TakeFile(acc) ==
    LET f == NextFile(acc.left)
        e == Excerpt(f.lines, Min({FileLimit, FilesLimit - acc.used}))
    IN  IF acc.used >= FilesLimit \/ f.lines = <<>>
        THEN [acc EXCEPT !.left = @ \ {f}]
        ELSE [left |-> acc.left \ {f}, used |-> acc.used + e.size,
              files |-> Append(acc.files, e.size)]

\* _project_files_for_review: the sizes of the excerpts.
Shown(project) ==
    LET after[k \in 0..Cardinality(project)] ==
            IF k = 0 THEN [left |-> project, used |-> 0, files |-> <<>>]
            ELSE TakeFile(after[k - 1])
    IN  after[Cardinality(project)].files

\* _shrink_project_file_excerpts
Shrunk(files, limit) == [i \in DOMAIN files |-> Min({files[i], limit})]


\* _review_prompt_json: the rounds of compaction, and what a prompt holds after each.
Rounds(context, files) ==
    << context.ir + context.modules + Sum(files),
       Min({context.ir, Capped}) + Min({context.modules, Capped}) + Sum(Shrunk(files, ShortLimit)),
       Min({context.ir, Capped}) + Min({context.modules, Capped}) + Sum(Shrunk(files, TinyLimit)),
       Min({context.ir, Capped}) + context.names + Sum(Shrunk(files, TinyLimit)),
       Min({context.ir, Capped}) + context.names + Note >>

\* The first prompt that fits, or the last one, in which there are no files.
Prompt(context, files) ==
    LET sizes == Rounds(context, files)
        fits == {r \in 1..4 : sizes[r] <= PromptLimit}
        round == IF fits = {} THEN 5 ELSE Min(fits)
    IN  [size |-> sizes[round],
         files |-> CASE round = 1 -> files
                     [] round = 2 -> Shrunk(files, ShortLimit)
                     [] round \in {3, 4} -> Shrunk(files, TinyLimit)
                     [] round = 5 -> <<>>]

Prompts == {Prompt(c, Shown(p)) : c \in Contexts, p \in Projects}

-------------------------------------------------------------------------------
(* What the audit goes by: event counts, 0 where the file does not say.            *)

\* collect_runtime_execution_facts: did the program's own run pass with whole outputs,
\* how many events did it have to simulate, and how many do its macro, its summary
\* and its table speak of.
Facts == [whole : BOOLEAN, expected : {0, 1}, macro : 0..2, summary : 0..2, rows : 0..2]

\* _inspect_event_table: a table without rows is an error.
HasEvents(f) == f.rows > 0

\* A table without rows, a count other than the one expected, and two different counts
\* are errors; without an expectation, counts that are missing are not.
Sound(f) ==
    /\ f.whole
    /\ HasEvents(f)
    /\ f.expected > 0 => {f.macro, f.summary, f.rows} = {f.expected}
    /\ f.macro > 0 => f.rows = f.macro /\ f.summary \in {0, f.macro}

\* run_runtime_execution_auditor: facts decide, an opinion can only tighten; without an
\* opinion (the call failed) the project is to be revised.
AuditStatus(f, opinion) ==
    IF ~Sound(f) THEN "fail" ELSE IF opinion = "pass" THEN "pass" ELSE "revise"

Opinions == {"pass", "revise", "fail", "error"}

\* The audits there can be of a project whose own run passed or did not.
Agree(f) == f.macro \in {0, f.rows} /\ f.expected \in {0, f.rows}

Audits(passed) ==
    {[status |-> AuditStatus(f, opinion), agreed |-> Agree(f)] :
        f \in {g \in Facts : g.whole => passed}, opinion \in Opinions}

AuditsOfPassed == Audits(TRUE)
AuditsOfFailed == Audits(FALSE)
===============================================================================
