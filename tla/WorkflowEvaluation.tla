-------------------------- MODULE WorkflowEvaluation --------------------------
(***************************************************************************)
(* scripts/evaluate_test_agent_workflow.py: selected cases of a file are   *)
(* evaluated by a pool of threads, or one after the other by the main      *)
(* thread.  Each case asks for a plan, of the rules or of the language     *)
(* model behind a cache of its answers, and checks what comes of it; the   *)
(* rates of all of them decide the exit code.  Evaluations follow each     *)
(* other, may be killed, and share the cache directory.                    *)
(*                                                                         *)
(* A case is its id, its prompt (equal messages have one cache path) and   *)
(* what the plan of the rules comes to; an answer is what the plan made of *)
(* it comes to: "passes" or "fails" the checks (those are in               *)
(* ReportEvaluation), "invalid", an object with no plan in it, or "scalar":*)
(* JSON, but not an object.                                                *)
(***************************************************************************)
EXTENDS Integers, Sequences, FiniteSets

CONSTANTS
    CaseFile,     \* the cases of the file
    CommandLines, \* what operators start the script with
    MaxThreads,   \* the largest --concurrency
    Evaluations   \* how often the script is started

Answers == {"passes", "fails", "invalid", "scalar"}

\* Of the thresholds one is kept apart, the floor of the case pass rate; the others
\* are those of single checks, and of times.  The key is no argument: it is in the
\* environment or the settings, or it is not.
Arguments ==
    [ids : Seq(STRING), from : Nat, to : Nat, llm : BOOLEAN, fallback : BOOLEAN, key : BOOLEAN,
     cache : {"none", "use", "refresh"}, concurrency : 0 .. MaxThreads,
     delayed : BOOLEAN, floor : Nat, others : BOOLEAN, history : BOOLEAN]

ASSUME EvaluationAssumption ==
    /\ CaseFile \in Seq([id : STRING, prompt : STRING,
                         byRules : {"passes", "fails", "raises"}])
    /\ CommandLines \subseteq Arguments
    /\ MaxThreads \in Nat \ {0} /\ Evaluations \in Nat

VARIABLES
    command,   \* args
    selected,  \* the cases to evaluate
    nextCase,  \* the first case no thread has taken
    local,     \* what each thread does, with its thread-local values
    results,   \* of each selected case
    cancelled, \* no further case is taken
    exitCode,  \* "unused" before the first start, "running", "0", "1", "2" or "killed"
    files,     \* the cache directory: prompt -> answer
    benchmark, \* the last line of the benchmark history
    started,   \* how often the script was started
    kept,      \* history: the prompts whose file can be used at the start
    calls,     \* history: how often a case called the model
    given      \* history: <<prompt, answer>> that the model gave

process == <<command, selected, nextCase, local, results, cancelled, exitCode>>
directory == <<files, benchmark>>
record == <<started, kept, calls, given>>
evaluationVars == <<process, directory, record>>

NoLine == [cases |-> 0]
NoResult == [state |-> "none"]
Raised == [state |-> "raised"]

\* The values in threading.local are those of the thread's last case, until the
\* next one resets them.
AtRest == [case |-> 0, step |-> "idle", answer |-> "none",
           status |-> "none", metrics |-> FALSE, fellBack |-> FALSE]

Running == exitCode = "running"
Finished(i) == results[i].state = "done"
AllIdle == \A t \in 1 .. MaxThreads : local[t].step = "idle"
PromptOf(t) == selected[local[t].case].prompt

\* CachedLLMClient around the client.
Cached == command.cache # "none"

\* _read_cached_response: a file whose answer is no object is as good as none.
Usable == {p \in DOMAIN files : files[p] # "scalar"}

-----------------------------------------------------------------------------
(* Start *)

Slice(seq, from, to) == SubSeq(seq, from + 1, IF to < Len(seq) THEN to ELSE Len(seq))

\* An id may be given twice, and the last case of an id stands for it.
CaseOf(id) == CaseFile[CHOOSE i \in DOMAIN CaseFile :
    CaseFile[i].id = id /\ \A k \in i + 1 .. Len(CaseFile) : CaseFile[k].id # id]

Selection(cmd) ==
    Slice(IF cmd.ids = <<>> THEN CaseFile
          ELSE [i \in DOMAIN cmd.ids |-> CaseOf(cmd.ids[i])], cmd.from, cmd.to)

UnknownIds(cmd) ==
    \E i \in DOMAIN cmd.ids : \A k \in DOMAIN CaseFile : CaseFile[k].id # cmd.ids[i]

\* parser.error
Refused(cmd) ==
    \/ cmd.concurrency < 1
    \/ cmd.delayed /\ cmd.concurrency > 1
    \/ cmd.cache # "none" /\ ~cmd.llm
    \/ UnknownIds(cmd)
    \/ cmd.to < cmd.from
    \/ Selection(cmd) = <<>>

EvaluationInit ==
    /\ command = (CHOOSE cmd \in CommandLines : TRUE) /\ selected = <<>> /\ nextCase = 1
    /\ local = [t \in 1 .. MaxThreads |-> AtRest]
    /\ results = <<>> /\ cancelled = FALSE /\ exitCode = "unused"
    /\ files = [p \in {} |-> "passes"] /\ benchmark = NoLine
    /\ started = 0 /\ kept = {} /\ calls = <<>> /\ given = {}

StartEvaluation ==
    /\ ~Running /\ started < Evaluations /\ started' = started + 1
    /\ \E cmd \in CommandLines :
          /\ command' = cmd
          /\ selected' = IF Refused(cmd) THEN <<>> ELSE Selection(cmd)
          /\ exitCode' = IF Refused(cmd) THEN "2" ELSE "running"
    /\ nextCase' = 1 /\ cancelled' = FALSE
    /\ local' = [t \in 1 .. MaxThreads |-> AtRest]
    /\ results' = [i \in DOMAIN selected' |-> NoResult]
    /\ calls' = [i \in DOMAIN selected' |-> 0]
    /\ kept' = Usable
    /\ UNCHANGED <<directory, given>>

-----------------------------------------------------------------------------
(* The threads *)

Serial == command.concurrency = 1 \/ Len(selected) = 1
Pool == 1 .. IF Serial THEN 1 ELSE command.concurrency

\* executor.map hands the cases out in their order, and so does the loop.
BeginCase(t) ==
    /\ Running /\ t \in Pool /\ local[t].step = "idle"
    /\ nextCase <= Len(selected) /\ ~cancelled
    /\ nextCase' = nextCase + 1
    /\ local' = [local EXCEPT ![t].case = nextCase, ![t].answer = "none",
                              ![t].step = IF command.llm THEN "generate" ELSE "planned",
                              ![t].fellBack = FALSE]
    /\ UNCHANGED <<command, selected, results, cancelled, exitCode, directory, record>>

\* The lock of CachedLLMClient is held from the temporary file to its replace.
Locked == \E u \in 1 .. MaxThreads : local[u].step = "replace"

\* generate_json up to the call of the client.
Look(t) ==
    /\ Running /\ local[t].step = "generate"
    /\ command.cache = "use" => ~Locked
    /\ LET hit == command.cache = "use" /\ PromptOf(t) \in Usable
       IN  local' = [local EXCEPT
              ![t].metrics = FALSE,
              ![t].status = CASE hit -> "hit"
                              [] command.cache = "use" /\ ~hit -> "miss"
                              [] OTHER -> command.cache,
              ![t].answer = IF hit THEN files[PromptOf(t)] ELSE "none",
              ![t].step = IF hit THEN "planned" ELSE "post"]
    /\ UNCHANGED <<command, selected, nextCase, results, cancelled, exitCode,
                   directory, record>>

\* The client's generate_json: an answer, or LLMError after its posts; of that
\* one the cache does not take over the metrics.
Post(t) ==
    /\ Running /\ local[t].step = "post" /\ command.key
    /\ calls' = [calls EXCEPT ![local[t].case] = @ + 1]
    /\ \/ \E answer \in Answers :
             /\ given' = given \cup {<<PromptOf(t), answer>>}
             /\ local' = [local EXCEPT ![t].answer = answer, ![t].metrics = TRUE,
                                       ![t].step = IF Cached THEN "store" ELSE "planned"]
       \/ /\ local' = [local EXCEPT ![t].answer = "error", ![t].metrics = ~Cached,
                                    ![t].step = "planned"]
          /\ UNCHANGED given
    /\ UNCHANGED <<command, selected, nextCase, results, cancelled, exitCode,
                   directory, started, kept>>

\* Without a key nothing is posted: MissingApiKeyError, an LLMError.
MissKey(t) ==
    /\ Running /\ local[t].step = "post" /\ ~command.key
    /\ local' = [local EXCEPT ![t].answer = "error", ![t].step = "planned"]
    /\ UNCHANGED <<command, selected, nextCase, results, cancelled, exitCode,
                   directory, record>>

\* A temporary file of the thread's own, which nothing ever reads.
WriteTemp(t) ==
    /\ Running /\ local[t].step = "store" /\ ~Locked
    /\ local' = [local EXCEPT ![t].step = "replace"]
    /\ UNCHANGED <<command, selected, nextCase, results, cancelled, exitCode,
                   directory, record>>

Replace(t) ==
    /\ Running /\ local[t].step = "replace"
    /\ files' = [p \in DOMAIN files \cup {PromptOf(t)} |->
                    IF p = PromptOf(t) THEN local[t].answer ELSE files[p]]
    /\ local' = [local EXCEPT ![t].step = "planned"]
    /\ UNCHANGED <<command, selected, nextCase, results, cancelled, exitCode,
                   benchmark, record>>

\* A faulty variant: the values are kept for all threads together, so that those
\* of another thread may be read.
ObservedOfAny(t, mine) ==
    LET busy == {u \in 1 .. MaxThreads : u # t /\ local[u].step # "idle"}
        seen == IF busy = {} THEN mine ELSE local[CHOOSE u \in busy : TRUE]
    IN  IF command.llm
        THEN [status |-> seen.status, metrics |-> seen.metrics, fellBack |-> mine.fellBack]
        ELSE [status |-> "none", metrics |-> FALSE, fellBack |-> FALSE]

\* _llm_observability, read in the case's thread after its plan.
Observed(t, mine) ==
    IF command.llm
    THEN [status |-> mine.status, metrics |-> mine.metrics, fellBack |-> mine.fellBack]
    ELSE [status |-> "none", metrics |-> FALSE, fellBack |-> FALSE]

\* What the case ends with in thread t, and the thread then takes another.
EndCase(t, mine, result) ==
    /\ results' = [results EXCEPT ![mine.case] = result]
    /\ local' = [local EXCEPT ![t] = [mine EXCEPT !.case = 0, !.step = "idle",
                                                  !.answer = "none"]]
    \* Without a pool the exception ends the loop.
    /\ cancelled' = (cancelled \/ (Serial /\ result = Raised))
    /\ UNCHANGED <<command, selected, nextCase, exitCode>>

\* evaluate_case after the plan's payload: LLMError and an answer without a plan
\* fall back to the rules or are raised.
EvaluateCase(t) ==
    /\ Running /\ local[t].step = "planned"
    /\ LET asks == command.llm
           failed == asks /\ local[t].answer \in {"error", "invalid", "scalar"}
           mine == [local[t] EXCEPT !.fellBack = failed /\ command.fallback]
           verdict == IF ~asks \/ mine.fellBack THEN selected[mine.case].byRules
                      ELSE IF failed THEN "raises" ELSE mine.answer
       IN  EndCase(t, mine,
              IF verdict = "raises" THEN Raised
              ELSE [state |-> "done", passed |-> verdict = "passes",
                    answer |-> mine.answer, observed |-> Observed(t, mine)])
    /\ UNCHANGED <<directory, record>>

\* An exception that the generator does not expect: a malformed response, or the
\* cache directory that cannot be written.
CaseRaises(t) ==
    /\ Running /\ local[t].step \in {"post", "store", "replace"}
    /\ local[t].step = "post" => command.key
    /\ calls' = IF local[t].step = "post"
                THEN [calls EXCEPT ![local[t].case] = @ + 1] ELSE calls
    /\ EndCase(t, local[t], Raised)
    /\ UNCHANGED <<directory, started, kept, given>>

-----------------------------------------------------------------------------
(* The main thread *)

\* The results are read in order; the first exception cancels what no thread has
\* taken, and is raised when the other threads have ended.
CancelRest ==
    /\ Running /\ ~cancelled
    /\ \E i \in DOMAIN selected :
          results[i] = Raised /\ \A k \in 1 .. i - 1 : Finished(k)
    /\ cancelled' = TRUE
    /\ UNCHANGED <<command, selected, nextCase, local, results, exitCode, directory, record>>

EvaluationRaises ==
    /\ Running /\ cancelled /\ AllIdle
    /\ exitCode' = "1"
    /\ UNCHANGED <<command, selected, nextCase, local, results, cancelled, directory, record>>

Scale == 10000
\* round(numerator / denominator, 4), in units of 1 / Scale.
Ratio(n, d) == IF d <= 0 THEN Scale ELSE (2 * n * Scale + d) \div (2 * d)

\* summarize_results: of the rates that of the cases, and what the model was asked.
Summary ==
    LET asking == {i \in DOMAIN results : command.llm}
    IN  [cases |-> Len(results),
         passes |-> Cardinality({i \in DOMAIN results : results[i].passed}),
         observed |-> Cardinality(asking),
         fallbacks |-> Cardinality({i \in asking : results[i].observed.fellBack}),
         hits |-> Cardinality({i \in asking : results[i].observed.status = "hit"}),
         metrics |-> Cardinality({i \in asking : results[i].observed.metrics})]

PassRate == Ratio(Summary.passes, Summary.cases)

\* A check that fails fails its case, so that the other rates are whole where the
\* pass rate is; times exceed their limit or not.
BelowThresholds(exceeded) == PassRate < command.floor \/ exceeded

\* The line is written before the thresholds are looked at, if it can be.
FinishEvaluation ==
    /\ Running /\ \A i \in DOMAIN selected : Finished(i)
    /\ \/ /\ benchmark' = IF command.history THEN Summary ELSE benchmark
          /\ \E exceeded \in IF command.others THEN BOOLEAN ELSE {FALSE} :
                exitCode' = IF BelowThresholds(exceeded) THEN "1" ELSE "0"
       \/ /\ command.history /\ exitCode' = "1" /\ UNCHANGED benchmark
    /\ UNCHANGED <<command, selected, nextCase, local, results, cancelled, files, record>>

Kill ==
    /\ Running /\ exitCode' = "killed"
    /\ local' = [t \in 1 .. MaxThreads |-> AtRest]
    /\ results' = [i \in DOMAIN selected |-> NoResult]
    /\ UNCHANGED <<command, selected, nextCase, cancelled, directory, record>>

EvaluationNext ==
    \/ StartEvaluation \/ CancelRest \/ EvaluationRaises \/ FinishEvaluation \/ Kill
    \/ \E t \in 1 .. MaxThreads :
          \/ BeginCase(t) \/ Look(t) \/ Post(t) \/ MissKey(t) \/ WriteTemp(t) \/ Replace(t)
          \/ EvaluateCase(t) \/ CaseRaises(t)

-----------------------------------------------------------------------------
\* What a result tells of its case is the case's own, whatever other threads do
\* meanwhile: the model was called for it, the cache answered, or there was no
\* key; the metrics are those of its call (but for a call that failed behind the
\* cache, whose metrics are lost), it fell back exactly if the model gave it no
\* plan, and the answer it was judged by is one that the model gave to its prompt.
ResultTells(i) ==
    LET r == results[i]
        judged == r.answer \in {"passes", "fails"}
    IN  IF ~command.llm THEN calls[i] = 0 /\ r.observed.status = "none"
        ELSE /\ (r.observed.status = "hit") <=> (calls[i] = 0 /\ r.answer # "error")
             /\ calls[i] = 0 /\ r.answer = "error" => ~command.key
             /\ r.observed.metrics <=> (calls[i] = 1 /\ ~(Cached /\ r.answer = "error"))
             /\ r.observed.fellBack <=> ~judged
             /\ judged => /\ r.passed <=> (r.answer = "passes")
                          /\ <<selected[i].prompt, r.answer>> \in given

\* A file of the cache is a whole answer to its prompt, whenever the script was
\* killed and however many threads wrote it.  A prompt whose file held an object
\* at the start is not sent again unless that is asked for, no case calls the
\* model twice, and an evaluation that came to its results leaves a file for each
\* prompt that was answered (CachedLLMClient, docs/release-checklist.md: the cache
\* saves tokens; not those of an answer that is JSON and no object).
CacheSpares ==
    /\ \A p \in DOMAIN files : <<p, files[p]>> \in given
    /\ \A i \in DOMAIN calls :
          /\ calls[i] <= 1
          /\ command.cache = "use" /\ calls[i] = 1 => selected[i].prompt \notin kept
    /\ exitCode \in {"0", "1"} /\ Cached => \A i \in DOMAIN results :
          Finished(i) /\ results[i].answer # "error" => selected[i].prompt \in DOMAIN files

ObservationsAreOwn ==
    /\ \A i \in DOMAIN results : Finished(i) => ResultTells(i)
    /\ CacheSpares

\* Exit code 0 under a floor of 1.0 says that every selected case has a result,
\* that all of them passed, and that none fell back unless that is allowed.  The
\* line of the history, if one is asked for, accounts for every case: the model
\* was called for it, or the cache answered, unless there was no key, where the
\* cases that the cache does not answer fall back (main, append_benchmark_history).
EvaluationExitTells ==
    exitCode = "0" =>
        /\ selected # <<>> /\ \A i \in DOMAIN selected : Finished(i)
        /\ command.floor = Scale => \A i \in DOMAIN selected : results[i].passed
        /\ command.llm /\ ~command.fallback =>
              \A i \in DOMAIN selected : ~results[i].observed.fellBack
        /\ command.history /\ command.llm =>
              /\ benchmark.observed = Len(selected)
              /\ command.key =>
                    benchmark.hits + Cardinality({i \in DOMAIN calls : calls[i] = 1})
                       = Len(selected)
              /\ benchmark.metrics + benchmark.hits + benchmark.fallbacks >= Len(selected)
=============================================================================
