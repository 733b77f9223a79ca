------------------------- MODULE OperatorScriptsProofs -------------------------
(***************************************************************************)
(* Proofs about OperatorScripts, for any case file, command lines, worker  *)
(* names, rounds and options of a release: what the results of an          *)
(* evaluation, the end of a drill and the exit codes of the scripts say.   *)
(***************************************************************************)
EXTENDS OperatorScripts, TLAPS, SequenceTheorems, WellFoundedInduction, FiniteSetTheorems

\* A set of naturals that is not empty has a least element.
LEMMA LeastNat ==
    ASSUME NEW T \in SUBSET Nat, T # {}
    PROVE  \E n \in T : \A m \in T : n <= m
<1> DEFINE R == {ss \in Nat \X Nat : ss[1] < ss[2]}
<1>1. IsWellFoundedOn(R, Nat)
  BY NatLessThanWellFounded DEF OpToRel
<1>2. PICK n \in T : \A m \in T : ~(<<m, n>> \in R)
  <2> HIDE DEF R
  <2> QED BY <1>1, WFMin
<1>3. \A m \in T : ~(m < n)
  BY <1>2
<1> QED BY <1>3

-----------------------------------------------------------------------------
(* Evaluations of the workflow: the invariant *)

Cases == [id : STRING, prompt : STRING, byRules : {"passes", "fails", "raises"}]
ThreadSteps == {"idle", "generate", "post", "store", "replace", "planned"}
Statuses == {"none", "hit", "miss", "refresh", "use"}
ThreadValues ==
    [case : Nat, step : ThreadSteps, answer : Answers \cup {"none", "error"},
     status : Statuses, metrics : BOOLEAN, fellBack : BOOLEAN]
DoneResults ==
    [state : {"done"}, passed : BOOLEAN, answer : Answers \cup {"none", "error"},
     observed : [status : Statuses, metrics : BOOLEAN, fellBack : BOOLEAN]]

\* What the variables of an evaluation range over.  What it was started with is
\* not refused where there are cases.
EvaluationTypes ==
    /\ exitCode \in {"unused", "running", "0", "1", "2", "killed"}
    /\ selected \in Seq(Cases)
    /\ selected # <<>> => command \in CommandLines /\ ~Refused(command)
                          /\ selected = Selection(command)
    /\ Running => selected # <<>>
    /\ nextCase \in 1 .. Len(selected) + 1
    /\ local \in [1 .. MaxThreads -> ThreadValues]
    /\ results \in [1 .. Len(selected) -> {NoResult, Raised} \cup DoneResults]
    /\ calls \in [1 .. Len(selected) -> {0, 1}]

\* What a thread is at: its case is no other's, and none's that is not begun.
ThreadsApart ==
    /\ \A t \in 1 .. MaxThreads : local[t].step # "idle" =>
          /\ Running /\ local[t].case \in 1 .. nextCase - 1
          /\ results[local[t].case] = NoResult
    /\ \A t, u \in 1 .. MaxThreads :
          local[t].step # "idle" /\ local[u].step # "idle" /\ t # u
             => local[t].case # local[u].case
    /\ \A i \in 1 .. Len(selected) :
          nextCase <= i => calls[i] = 0 /\ results[i] = NoResult

\* The answer is one that the model gave to the prompt of the case.
Gave(i, said) == <<selected[i].prompt, said>> \in given

\* What the values of a thread say of its case, step by step.
OwnValues(mine) ==
    LET called == calls[mine.case]
    IN  /\ mine.step = "generate" => command.llm /\ called = 0
        /\ mine.step = "post" =>
              /\ command.llm /\ called = 0
              /\ mine.answer = "none" /\ mine.status # "hit" /\ ~mine.metrics
              /\ command.cache = "use" => selected[mine.case].prompt \notin kept
        /\ mine.step \in {"store", "replace"} =>
              /\ command.llm /\ Cached /\ called = 1 /\ mine.status # "hit" /\ mine.metrics
              /\ mine.answer \in Answers /\ Gave(mine.case, mine.answer)
        /\ mine.step = "planned" /\ ~command.llm => called = 0 /\ mine.answer = "none"
        /\ mine.step = "planned" /\ command.llm =>
              /\ mine.status = "hit" <=> called = 0 /\ mine.answer # "error"
              /\ called = 0 /\ mine.answer = "error" => ~command.key
              /\ mine.metrics <=> called = 1 /\ ~(Cached /\ mine.answer = "error")
              /\ mine.answer \in Answers \cup {"error"}
              /\ mine.answer # "error" => Gave(mine.case, mine.answer)
              /\ Cached /\ mine.answer # "error" => selected[mine.case].prompt \in DOMAIN files

ValuesAreOwn ==
    \A t \in 1 .. MaxThreads : local[t].step # "idle" => OwnValues(local[t])

\* The results and the cache, which outlive the threads.
ResultsAreOwn ==
    \A i \in 1 .. Len(selected) :
        /\ Finished(i) =>
              /\ ResultTells(i)
              /\ Cached /\ results[i].answer # "error" => selected[i].prompt \in DOMAIN files
              /\ ~command.llm => results[i].answer = "none"
              /\ results[i].observed.fellBack => command.fallback
        /\ command.cache = "use" /\ calls[i] = 1 => selected[i].prompt \notin kept

CacheHolds ==
    /\ command.cache = "use" => kept \subseteq Usable
    /\ \A p \in DOMAIN files : files[p] \in Answers /\ <<p, files[p]>> \in given

EvaluationInv ==
    EvaluationTypes /\ ThreadsApart /\ ValuesAreOwn /\ ResultsAreOwn /\ CacheHolds

-----------------------------------------------------------------------------
(* Evaluations: what they are started with *)

\* A command line is parsed into its fields.
LEMMA CommandTypes ==
    ASSUME NEW cmd \in CommandLines
    PROVE  /\ cmd.ids \in Seq(STRING) /\ cmd.from \in Nat /\ cmd.to \in Nat
           /\ cmd.llm \in BOOLEAN /\ cmd.fallback \in BOOLEAN /\ cmd.key \in BOOLEAN
           /\ cmd.cache \in {"none", "use", "refresh"} /\ cmd.concurrency \in 0 .. MaxThreads
           /\ cmd.floor \in Nat /\ cmd.others \in BOOLEAN /\ cmd.history \in BOOLEAN
BY EvaluationAssumption DEF Arguments

\* The case of an id is a case of the file.
LEMMA CaseOfIs ==
    ASSUME NEW id, \E i \in DOMAIN CaseFile : CaseFile[i].id = id
    PROVE  CaseOf(id) \in Cases
<1> DEFINE n == Len(CaseFile)
           T == {j \in Nat : n - j \in 1 .. n /\ CaseFile[n - j].id = id}
<1>1. CaseFile \in Seq(Cases) /\ n \in Nat /\ DOMAIN CaseFile = 1 .. n
  BY EvaluationAssumption DEF Cases
<1>2. PICK i \in 1 .. n : CaseFile[i].id = id
  BY <1>1
<1>3. n - i \in T /\ T \in SUBSET Nat
  <2>1. n - i \in Nat /\ n - (n - i) = i
    BY <1>1, <1>2
  <2> QED BY <2>1, <1>2
<1>4. PICK j \in T : \A m \in T : j <= m
  BY <1>3, LeastNat
<1>5. n - j \in 1 .. n /\ CaseFile[n - j].id = id /\ j \in Nat
  BY <1>4
<1>6. ASSUME NEW k \in (n - j) + 1 .. n PROVE CaseFile[k].id # id
  <2>1. SUFFICES ASSUME CaseFile[k].id = id PROVE FALSE
    OBVIOUS
  <2>2. n - k \in Nat /\ n - (n - k) = k /\ k \in 1 .. n /\ n - k < j
    BY <1>1, <1>5
  <2>3. n - k \in T
    BY <2>1, <2>2
  <2> QED BY <1>4, <2>2, <2>3
<1> DEFINE Ok(i2) == CaseFile[i2].id = id /\ \A k \in i2 + 1 .. Len(CaseFile) : CaseFile[k].id # id
<1>7. \E i2 \in DOMAIN CaseFile : Ok(i2)
  BY <1>1, <1>5, <1>6
<1>8. (CHOOSE i2 \in DOMAIN CaseFile : Ok(i2)) \in DOMAIN CaseFile
  <2> HIDE DEF Ok
  <2> QED BY <1>7
<1>9. CaseOf(id) = CaseFile[CHOOSE i2 \in DOMAIN CaseFile : Ok(i2)]
  BY DEF CaseOf
<1> HIDE DEF Ok, n
<1> QED BY <1>1, <1>8, <1>9, ElementOfSeq

\* A slice of a list is a list of its members.
LEMMA SliceIs ==
    ASSUME NEW S, NEW seq \in Seq(S), NEW from \in Nat, NEW to \in Nat
    PROVE  Slice(seq, from, to) \in Seq(S)
<1> DEFINE n == IF to < Len(seq) THEN to ELSE Len(seq)
<1>1. Len(seq) \in Nat /\ n \in Nat /\ n <= Len(seq) /\ from + 1 \in Nat
  OBVIOUS
<1>2. \A i \in from + 1 .. n : seq[i] \in S
  <2>1. ASSUME NEW i \in from + 1 .. n PROVE seq[i] \in S
    <3>1. i \in 1 .. Len(seq)
      BY <1>1
    <3> QED BY <3>1, ElementOfSeq
  <2> QED BY <2>1
<1>3. SubSeq(seq, from + 1, n) \in Seq(S)
  <2> HIDE DEF n
  <2> QED BY <1>1, <1>2, SubSeqProperties
<1> QED BY <1>3 DEF Slice

\* What a command line that is not refused selects is some cases of the file.
LEMMA SelectionIs ==
    ASSUME NEW cmd \in CommandLines, ~Refused(cmd)
    PROVE  Selection(cmd) \in Seq(Cases) /\ Selection(cmd) # <<>>
<1> DEFINE all == IF cmd.ids = <<>> THEN CaseFile
                  ELSE [i \in DOMAIN cmd.ids |-> CaseOf(cmd.ids[i])]
<1>1. all \in Seq(Cases)
  <2>1. CASE cmd.ids = <<>>
    BY <2>1, EvaluationAssumption DEF Cases
  <2>2. CASE cmd.ids # <<>>
    <3>1. cmd.ids \in Seq(STRING) /\ DOMAIN cmd.ids = 1 .. Len(cmd.ids) /\ Len(cmd.ids) \in Nat
      BY CommandTypes
    <3>2. ASSUME NEW i \in DOMAIN cmd.ids PROVE CaseOf(cmd.ids[i]) \in Cases
      <4>1. \E k \in DOMAIN CaseFile : CaseFile[k].id = cmd.ids[i]
        BY DEF Refused, UnknownIds
      <4> QED BY <4>1, CaseOfIs
    <3>3. all = [i \in 1 .. Len(cmd.ids) |-> CaseOf(cmd.ids[i])]
      BY <2>2, <3>1
    <3> QED BY <3>1, <3>2, <3>3
  <2> QED BY <2>1, <2>2
<1>2. Selection(cmd) = Slice(all, cmd.from, cmd.to)
  BY DEF Selection
<1> HIDE DEF all
<1>3. Selection(cmd) \in Seq(Cases)
  BY <1>1, <1>2, SliceIs, CommandTypes
<1>4. Selection(cmd) # <<>>
  BY DEF Refused
<1> QED BY <1>3, <1>4

\* A cache is used by the live evaluation only.
LEMMA AskedCache ==
    ASSUME EvaluationTypes, selected # <<>>, Cached
    PROVE  command.llm
BY DEF EvaluationTypes, Refused, Cached

-----------------------------------------------------------------------------
\* Before the first evaluation nothing is told.
LEMMA EvaluationInitHolds == EvaluationInit => EvaluationInv
<1> SUFFICES ASSUME EvaluationInit PROVE EvaluationInv
  OBVIOUS
<1>1. MaxThreads \in Nat \ {0}
  BY EvaluationAssumption
<1>2. /\ selected = <<>> /\ Len(selected) = 0 /\ results = <<>> /\ calls = <<>>
      /\ nextCase = 1 /\ exitCode = "unused" /\ kept = {} /\ DOMAIN files = {}
      /\ local = [t \in 1 .. MaxThreads |-> AtRest]
  BY DEF EvaluationInit
<1>3. AtRest \in ThreadValues /\ AtRest.step = "idle"
  BY DEF AtRest, ThreadValues, ThreadSteps, Statuses
<1>4. EvaluationTypes
  <2>1. <<>> \in [1 .. 0 -> {NoResult, Raised} \cup DoneResults] /\ <<>> \in [1 .. 0 -> {0, 1}]
    OBVIOUS
  <2>2. selected \in Seq(Cases)
    BY <1>2
  <2> QED BY <1>1, <1>2, <1>3, <2>1, <2>2 DEF EvaluationTypes, Running
<1>5. ThreadsApart
  BY <1>2, <1>3 DEF ThreadsApart
<1>6. ValuesAreOwn
  BY <1>2, <1>3 DEF ValuesAreOwn
<1>7. ResultsAreOwn
  BY <1>2 DEF ResultsAreOwn
<1>8. CacheHolds
  BY <1>2 DEF CacheHolds
<1> QED BY <1>4, <1>5, <1>6, <1>7, <1>8 DEF EvaluationInv

\* An evaluation begins with no result and no call of its own.
LEMMA StartEvaluationStep ==
    ASSUME EvaluationInv, StartEvaluation
    PROVE  EvaluationInv'
<1>1. PICK cmd \in CommandLines :
          /\ command' = cmd
          /\ selected' = IF Refused(cmd) THEN <<>> ELSE Selection(cmd)
          /\ exitCode' = IF Refused(cmd) THEN "2" ELSE "running"
  BY DEF StartEvaluation
<1>2. /\ nextCase' = 1 /\ local' = [t \in 1 .. MaxThreads |-> AtRest]
      /\ results' = [i \in DOMAIN selected' |-> NoResult]
      /\ calls' = [i \in DOMAIN selected' |-> 0]
      /\ kept' = Usable /\ files' = files /\ given' = given
  BY DEF StartEvaluation, directory
<1>3. selected' \in Seq(Cases) /\ (selected' # <<>> => ~Refused(cmd))
      /\ (~Refused(cmd) => selected' # <<>> /\ selected' = Selection(cmd))
  BY <1>1, SelectionIs
<1>4. AtRest \in ThreadValues /\ AtRest.step = "idle"
  BY DEF AtRest, ThreadValues, ThreadSteps, Statuses
<1>5. DOMAIN selected' = 1 .. Len(selected') /\ Len(selected') \in Nat
  BY <1>3
<1>6. EvaluationTypes'
  <2>1. results' \in [1 .. Len(selected') -> {NoResult, Raised} \cup DoneResults]
    BY <1>2, <1>5
  <2>2. calls' \in [1 .. Len(selected') -> {0, 1}]
    BY <1>2, <1>5
  <2>3. local' \in [1 .. MaxThreads -> ThreadValues] /\ nextCase' \in 1 .. Len(selected') + 1
    BY <1>2, <1>4, <1>5
  <2>4. exitCode' \in {"running", "2"} /\ (Running' => ~Refused(cmd))
    BY <1>1 DEF Running
  <2> QED BY <1>1, <1>3, <2>1, <2>2, <2>3, <2>4 DEF EvaluationTypes
<1>7. ThreadsApart'
  BY <1>2, <1>4, <1>5 DEF ThreadsApart
<1>8. ValuesAreOwn'
  BY <1>2, <1>4 DEF ValuesAreOwn
<1>9. ResultsAreOwn'
  <2>1. \A i \in 1 .. Len(selected') : results'[i] = NoResult /\ calls'[i] = 0
    BY <1>2, <1>5
  <2> QED BY <2>1 DEF ResultsAreOwn, Finished, NoResult
<1>10. CacheHolds'
  BY <1>2 DEF CacheHolds, EvaluationInv, Usable
<1> QED BY <1>6, <1>7, <1>8, <1>9, <1>10 DEF EvaluationInv

-----------------------------------------------------------------------------
\* A thread's values stay its own while its case's calls, the replies and the cache only grow.
LEMMA OwnValuesStay ==
    ASSUME NEW mine, OwnValues(mine), command' = command, selected' = selected, kept' = kept,
           calls'[mine.case] = calls[mine.case], given \subseteq given',
           DOMAIN files \subseteq DOMAIN files'
    PROVE  OwnValues(mine)'
BY DEF OwnValues, Gave, Cached

\* A result stays true while the calls of its case stay as they are.
LEMMA ResultTellsStays ==
    ASSUME NEW i, ResultTells(i), command' = command, selected' = selected,
           results'[i] = results[i], calls'[i] = calls[i], given \subseteq given'
    PROVE  ResultTells(i)'
BY DEF ResultTells, Cached

\* A thread goes on with its case.
LEMMA ThreadStep ==
    ASSUME EvaluationInv, NEW t \in 1 .. MaxThreads, NEW now \in ThreadValues, Running,
           local[t].step # "idle", now.step # "idle", now.case = local[t].case,
           local' = [local EXCEPT ![t] = now],
           UNCHANGED <<command, selected, nextCase, results, exitCode, kept>>,
           calls' = calls \/ calls' = [calls EXCEPT ![now.case] = 1],
           given \subseteq given', DOMAIN files \subseteq DOMAIN files',
           CacheHolds', OwnValues(now)',
           calls' # calls /\ command.cache = "use" => selected[now.case].prompt \notin kept
    PROVE  EvaluationInv'
<1> USE DEF EvaluationInv
<1>1. local \in [1 .. MaxThreads -> ThreadValues] /\ local'[t] = now
  BY DEF EvaluationTypes
<1>2. \A u \in 1 .. MaxThreads : u # t => local'[u] = local[u]
  BY <1>1
<1>3. now.case \in 1 .. nextCase - 1 /\ nextCase \in 1 .. Len(selected) + 1 /\ Len(selected) \in Nat
      /\ results[now.case] = NoResult
  BY DEF ThreadsApart, EvaluationTypes
<1>4. calls \in [1 .. Len(selected) -> {0, 1}] /\ now.case \in 1 .. Len(selected)
  BY <1>3 DEF EvaluationTypes
<1>5. \A i \in 1 .. Len(selected) : i # now.case => calls'[i] = calls[i]
  BY <1>4
<1>6. calls' \in [1 .. Len(selected) -> {0, 1}]
  BY <1>4
<1>7. EvaluationTypes'
  <2>1. local' \in [1 .. MaxThreads -> ThreadValues]
    BY <1>1
  <2> QED BY <1>6, <2>1 DEF EvaluationTypes, Running
<1>8. ThreadsApart'
  <2>1. \A u \in 1 .. MaxThreads : local'[u].case = local[u].case /\
            (local'[u].step # "idle" <=> local[u].step # "idle")
    BY <1>1, <1>2
  <2>2. \A i \in 1 .. Len(selected) : nextCase <= i => calls'[i] = 0 /\ results[i] = NoResult
    <3>1. ASSUME NEW i \in 1 .. Len(selected), nextCase <= i PROVE i # now.case
      BY <1>3, <3>1
    <3> QED BY <3>1, <1>5 DEF ThreadsApart
  <2>3. \A u \in 1 .. MaxThreads : local'[u].step # "idle" =>
          /\ Running' /\ local'[u].case \in 1 .. nextCase' - 1
          /\ results'[local'[u].case] = NoResult
    BY <2>1 DEF ThreadsApart, Running
  <2>4. \A v, u \in 1 .. MaxThreads :
          local'[v].step # "idle" /\ local'[u].step # "idle" /\ v # u
             => local'[v].case # local'[u].case
    BY <2>1 DEF ThreadsApart
  <2> QED BY <2>2, <2>3, <2>4 DEF ThreadsApart
<1>9. ValuesAreOwn'
  <2>1. ASSUME NEW u \in 1 .. MaxThreads, local'[u].step # "idle" PROVE OwnValues(local[u])'
    <3>1. CASE u = t
      BY <3>1, <1>1 DEF OwnValues, Gave, Cached
    <3>2. CASE u # t
      <4>1. local'[u] = local[u] /\ local[u].step # "idle" /\ OwnValues(local[u])
        BY <3>2, <1>2, <2>1 DEF ValuesAreOwn
      <4>2. local[u].case # now.case /\ local[u].case \in 1 .. Len(selected)
        BY <4>1, <3>2, <1>3 DEF ThreadsApart
      <4>3. calls'[local[u].case] = calls[local[u].case]
        BY <4>2, <1>5
      <4>4. ASSUME NEW m, m = local[u] PROVE OwnValues(m)'
        BY <4>1, <4>3, <4>4, OwnValuesStay
      <4> QED BY <4>1, <4>4 DEF OwnValues, Gave, Cached
    <3> QED BY <3>1, <3>2
  <2> QED BY <2>1 DEF ValuesAreOwn
<1>10. ResultsAreOwn'
  <2>1. ASSUME NEW i \in 1 .. Len(selected)
        PROVE  /\ Finished(i)' =>
                     /\ ResultTells(i)'
                     /\ Cached' /\ results'[i].answer # "error" => selected[i].prompt \in DOMAIN files'
                     /\ ~command.llm => results'[i].answer = "none"
                     /\ results'[i].observed.fellBack => command.fallback
               /\ command.cache = "use" /\ calls'[i] = 1 => selected[i].prompt \notin kept
    <3>1. CASE i = now.case
      BY <3>1, <1>3 DEF Finished, NoResult, ResultsAreOwn
    <3>2. CASE i # now.case
      <4>1. calls'[i] = calls[i]
        BY <3>2, <1>5
      <4>2. Finished(i)' => ResultTells(i)'
        BY <4>1, ResultTellsStays DEF Finished, ResultsAreOwn
      <4> QED BY <4>1, <4>2 DEF Finished, ResultsAreOwn, Cached
    <3> QED BY <3>1, <3>2
  <2> QED BY <2>1 DEF ResultsAreOwn
<1> QED BY <1>7, <1>8, <1>9, <1>10

\* A thread that has a case.
LEMMA BusyThread ==
    ASSUME EvaluationInv, NEW t \in 1 .. MaxThreads, local[t].step # "idle"
    PROVE  /\ local[t] \in ThreadValues /\ local \in [1 .. MaxThreads -> ThreadValues]
           /\ local[t].case \in 1 .. Len(selected) /\ Len(selected) \in Nat
           /\ selected # <<>> /\ command \in CommandLines
           /\ results[local[t].case] = NoResult
           /\ calls \in [1 .. Len(selected) -> {0, 1}]
           /\ OwnValues(local[t])
           /\ Cached => command.llm
<1> USE DEF EvaluationInv
<1>1. local[t] \in ThreadValues /\ local \in [1 .. MaxThreads -> ThreadValues]
  BY DEF EvaluationTypes
<1>2. /\ local[t].case \in 1 .. nextCase - 1 /\ nextCase \in 1 .. Len(selected) + 1
      /\ Len(selected) \in Nat /\ Running
  BY DEF ThreadsApart, EvaluationTypes
<1>3. local[t].case \in 1 .. Len(selected)
  BY <1>2
<1>4. selected # <<>> /\ command \in CommandLines
  BY <1>2 DEF EvaluationTypes
<1>5. Cached => command.llm
  BY <1>4, AskedCache
<1> QED BY <1>1, <1>2, <1>3, <1>4, <1>5 DEF ThreadsApart, ValuesAreOwn, EvaluationTypes

\* A thread looks its case up in the cache.
LEMMA LookStep ==
    ASSUME EvaluationInv, NEW t \in 1 .. MaxThreads, Look(t)
    PROVE  EvaluationInv'
<1>1. local[t].step = "generate" /\ Running
  BY DEF Look
<1>2. /\ local[t] \in ThreadValues /\ local \in [1 .. MaxThreads -> ThreadValues]
      /\ command.llm /\ calls[local[t].case] = 0 /\ command \in CommandLines
  BY <1>1, BusyThread DEF OwnValues
<1> DEFINE hit == command.cache = "use" /\ PromptOf(t) \in Usable
           status == CASE hit -> "hit"
                       [] command.cache = "use" /\ ~hit -> "miss"
                       [] OTHER -> command.cache
           said == IF hit THEN files[PromptOf(t)] ELSE "none"
<1>0. PICK now :
          now = [local[t] EXCEPT !.metrics = FALSE, !.status = status, !.answer = said,
                                 !.step = IF hit THEN "planned" ELSE "post"]
  OBVIOUS
<1>3. local' = [local EXCEPT ![t] = now]
  BY <1>0, <1>2 DEF Look, ThreadValues
<1>4. command.cache \in {"none", "use", "refresh"}
  BY <1>2, CommandTypes
<1>5. hit => said \in Answers /\ <<PromptOf(t), said>> \in given
  BY DEF EvaluationInv, CacheHolds, Usable
<1>6. status \in Statuses /\ (status = "hit" <=> hit)
  BY <1>4 DEF Statuses
<1>7. said \in Answers \cup {"none"} /\ (~hit => said = "none")
  BY <1>5
<1> HIDE DEF status, said
<1>8. now \in ThreadValues /\ now.case = local[t].case /\ now.step # "idle"
  BY <1>0, <1>2, <1>6, <1>7 DEF ThreadValues, ThreadSteps
<1>9. /\ now.step = IF hit THEN "planned" ELSE "post"
      /\ now.answer = said /\ now.status = status /\ now.metrics = FALSE
  BY <1>0, <1>2 DEF ThreadValues
<1>10. UNCHANGED <<command, selected, nextCase, results, exitCode, kept, calls, given, files>>
  BY DEF Look, directory, record
<1>11. PromptOf(t) = selected[now.case].prompt
  BY <1>8 DEF PromptOf
<1>12. OwnValues(now)
  <2>1. CASE hit
    <3>1. now.step = "planned" /\ now.status = "hit" /\ calls[now.case] = 0
      BY <2>1, <1>2, <1>6, <1>8, <1>9
    <3>2. now.answer \in Answers /\ Gave(now.case, now.answer) /\ selected[now.case].prompt \in DOMAIN files
      BY <2>1, <1>5, <1>9, <1>11 DEF Gave, Usable
    <3>3. now.metrics = FALSE /\ now.answer # "error"
      BY <1>9, <3>2 DEF Answers
    <3> QED BY <3>1, <3>2, <3>3, <1>2 DEF OwnValues
  <2>2. CASE ~hit
    <3>1. /\ now.step = "post" /\ now.status # "hit" /\ calls[now.case] = 0
          /\ now.answer = "none" /\ now.metrics = FALSE
      BY <2>2, <1>2, <1>6, <1>7, <1>8, <1>9
    <3>2. command.cache = "use" => selected[now.case].prompt \notin kept
      BY <2>2, <1>11 DEF EvaluationInv, CacheHolds
    <3> QED BY <3>1, <3>2, <1>2 DEF OwnValues
  <2> QED BY <2>1, <2>2
<1>13. OwnValues(now)'
  BY <1>10, <1>12, OwnValuesStay
<1>14. CacheHolds'
  BY <1>10 DEF CacheHolds, EvaluationInv, Usable
<1> QED BY <1>1, <1>3, <1>8, <1>10, <1>13, <1>14, ThreadStep

\* A thread asks the language model.
LEMMA PostStep ==
    ASSUME EvaluationInv, NEW t \in 1 .. MaxThreads, Post(t)
    PROVE  EvaluationInv'
<1>1. local[t].step = "post" /\ Running
  BY DEF Post
<1>2. /\ local[t] \in ThreadValues /\ local \in [1 .. MaxThreads -> ThreadValues]
      /\ calls \in [1 .. Len(selected) -> {0, 1}] /\ local[t].case \in 1 .. Len(selected)
      /\ OwnValues(local[t])
  BY <1>1, BusyThread
<1>3. /\ command.llm /\ calls[local[t].case] = 0 /\ local[t].status # "hit"
      /\ command.cache = "use" => selected[local[t].case].prompt \notin kept
  BY <1>1, <1>2 DEF OwnValues
<1>4. calls' = [calls EXCEPT ![local[t].case] = 1]
  <2>1. calls' = [calls EXCEPT ![local[t].case] = @ + 1]
    BY DEF Post
  <2> QED BY <1>2, <1>3, <2>1
<1>5. UNCHANGED <<command, selected, nextCase, results, exitCode, kept, files>>
  BY DEF Post, directory
<1>6. ASSUME NEW now \in ThreadValues, local' = [local EXCEPT ![t] = now],
             now.case = local[t].case, now.step # "idle", now.status = local[t].status,
             given \subseteq given',
             \/ now.step = "store" /\ Cached /\ now.metrics
                  /\ now.answer \in Answers /\ Gave(now.case, now.answer)'
             \/ now.step = "planned" /\ ~Cached /\ now.metrics
                  /\ now.answer \in Answers /\ Gave(now.case, now.answer)'
             \/ now.step = "planned" /\ now.answer = "error" /\ now.metrics = ~Cached
      PROVE  EvaluationInv'
  <2>1. calls'[now.case] = 1
    BY <1>2, <1>4, <1>6
  <2>2. command' = command /\ (Cached' <=> Cached)
    BY <1>5 DEF Cached
  <2>3. OwnValues(now)'
    <3>1. CASE now.step = "store"
      <4>1. Cached' /\ now.metrics /\ now.answer \in Answers /\ Gave(now.case, now.answer)'
        BY <1>6, <2>2, <3>1
      <4> QED BY <1>3, <1>6, <2>1, <2>2, <3>1, <4>1 DEF OwnValues
    <3>2. CASE now.step = "planned"
      <4>1. now.answer # "none" /\ now.answer \in Answers \cup {"error"}
        BY <1>6, <3>2 DEF Answers
      <4>2. now.answer = "error" <=> now.answer \notin Answers
        BY <4>1 DEF Answers
      <4>3. now.metrics <=> ~(Cached' /\ now.answer = "error")
        BY <1>6, <2>2, <3>2, <4>2 DEF ThreadValues
      <4>4. now.answer # "error" => Gave(now.case, now.answer)' /\ ~Cached'
        BY <1>6, <2>2, <3>2, <4>2
      <4> QED BY <1>3, <1>6, <2>1, <2>2, <3>2, <4>1, <4>3, <4>4 DEF OwnValues
    <3> QED BY <1>6, <3>1, <3>2
  <2>4. CacheHolds'
    BY <1>5, <1>6 DEF CacheHolds, EvaluationInv, Usable
  <2> QED BY <1>1, <1>3, <1>4, <1>5, <1>6, <2>3, <2>4, ThreadStep
<1>7. CASE \E said \in Answers :
             /\ given' = given \cup {<<PromptOf(t), said>>}
             /\ local' = [local EXCEPT ![t].answer = said, ![t].metrics = TRUE,
                                       ![t].step = IF Cached THEN "store" ELSE "planned"]
  <2>1. PICK said \in Answers :
             /\ given' = given \cup {<<PromptOf(t), said>>}
             /\ local' = [local EXCEPT ![t].answer = said, ![t].metrics = TRUE,
                                       ![t].step = IF Cached THEN "store" ELSE "planned"]
    BY <1>7
  <2>0. PICK now : now = [local[t] EXCEPT !.answer = said, !.metrics = TRUE,
                                      !.step = IF Cached THEN "store" ELSE "planned"]
    OBVIOUS
  <2>2. local' = [local EXCEPT ![t] = now]
    BY <2>0, <2>1, <1>2 DEF ThreadValues
  <2>3. /\ now \in ThreadValues /\ now.case = local[t].case /\ now.status = local[t].status
        /\ now.step = (IF Cached THEN "store" ELSE "planned") /\ now.metrics /\ now.answer = said
    BY <2>0, <1>2 DEF ThreadValues, ThreadSteps, Answers
  <2>4. Gave(now.case, now.answer)' /\ given \subseteq given'
    BY <2>1, <2>3, <1>5 DEF Gave, PromptOf
  <2> QED BY <1>6, <2>2, <2>3, <2>4
<1>8. CASE /\ local' = [local EXCEPT ![t].answer = "error", ![t].metrics = ~Cached,
                                     ![t].step = "planned"]
           /\ UNCHANGED given
  <2>0. PICK now : now = [local[t] EXCEPT !.answer = "error", !.metrics = ~Cached,
                                      !.step = "planned"]
    OBVIOUS
  <2>2. local' = [local EXCEPT ![t] = now]
    BY <2>0, <1>8, <1>2 DEF ThreadValues
  <2>3. /\ now \in ThreadValues /\ now.case = local[t].case /\ now.status = local[t].status
        /\ now.step = "planned" /\ now.metrics = ~Cached /\ now.answer = "error"
    BY <2>0, <1>2 DEF ThreadValues, ThreadSteps, Answers
  <2> QED BY <1>6, <1>8, <2>2, <2>3
<1> QED BY <1>7, <1>8 DEF Post

\* A thread has no key to ask with.
LEMMA MissKeyStep ==
    ASSUME EvaluationInv, NEW t \in 1 .. MaxThreads, MissKey(t)
    PROVE  EvaluationInv'
<1>1. /\ local[t].step = "post" /\ Running /\ ~command.key
      /\ local' = [local EXCEPT ![t].answer = "error", ![t].step = "planned"]
  BY DEF MissKey
<1>2. /\ local[t] \in ThreadValues /\ local \in [1 .. MaxThreads -> ThreadValues]
      /\ OwnValues(local[t])
  BY <1>1, BusyThread
<1>3. PICK now : now = [local[t] EXCEPT !.answer = "error", !.step = "planned"]
  OBVIOUS
<1>4. local' = [local EXCEPT ![t] = now]
  BY <1>1, <1>2, <1>3 DEF ThreadValues
<1>5. /\ now \in ThreadValues /\ now.step = "planned" /\ now.answer = "error"
      /\ now.case = local[t].case /\ now.status = local[t].status
      /\ now.metrics = local[t].metrics
  BY <1>2, <1>3 DEF ThreadValues, ThreadSteps
<1>6. UNCHANGED <<command, selected, nextCase, results, exitCode, kept, files, given, calls>>
  BY DEF MissKey, directory, record
<1>7. OwnValues(now)
  BY <1>1, <1>2, <1>5 DEF OwnValues
<1>8. OwnValues(now)' /\ CacheHolds'
  BY <1>6, <1>7, OwnValuesStay DEF CacheHolds, EvaluationInv, Usable
<1> QED BY <1>1, <1>4, <1>5, <1>6, <1>8, ThreadStep

\* A thread writes the temporary file of its entry.
LEMMA WriteTempStep ==
    ASSUME EvaluationInv, NEW t \in 1 .. MaxThreads, WriteTemp(t)
    PROVE  EvaluationInv'
<1>1. local[t].step = "store" /\ Running /\ local' = [local EXCEPT ![t].step = "replace"]
  BY DEF WriteTemp
<1>2. /\ local[t] \in ThreadValues /\ local \in [1 .. MaxThreads -> ThreadValues]
      /\ OwnValues(local[t])
  BY <1>1, BusyThread
<1>0. PICK now : now = [local[t] EXCEPT !.step = "replace"]
  OBVIOUS
<1>3. local' = [local EXCEPT ![t] = now]
  BY <1>0, <1>1, <1>2 DEF ThreadValues
<1>4. now \in ThreadValues /\ now.step = "replace"
  BY <1>0, <1>2 DEF ThreadValues, ThreadSteps
<1>5. now.case = local[t].case /\ now.answer = local[t].answer /\ now.status = local[t].status
      /\ now.metrics = local[t].metrics
  BY <1>0, <1>2 DEF ThreadValues
<1>6. UNCHANGED <<command, selected, nextCase, results, exitCode, kept, files, given, calls>>
  BY DEF WriteTemp, directory, record
<1>7. OwnValues(now)
  BY <1>1, <1>2, <1>4, <1>5 DEF OwnValues
<1>8. OwnValues(now)' /\ CacheHolds'
  BY <1>6, <1>7, OwnValuesStay DEF CacheHolds, EvaluationInv, Usable
<1> QED BY <1>1, <1>3, <1>4, <1>5, <1>6, <1>8, ThreadStep

\* A thread moves the temporary file in place.
LEMMA ReplaceStep ==
    ASSUME EvaluationInv, NEW t \in 1 .. MaxThreads, Replace(t)
    PROVE  EvaluationInv'
<1>1. local[t].step = "replace" /\ Running /\ local' = [local EXCEPT ![t].step = "planned"]
  BY DEF Replace
<1>2. /\ local[t] \in ThreadValues /\ local \in [1 .. MaxThreads -> ThreadValues]
      /\ OwnValues(local[t])
  BY <1>1, BusyThread
<1>0. PICK now : now = [local[t] EXCEPT !.step = "planned"]
  OBVIOUS
<1>3. local' = [local EXCEPT ![t] = now]
  BY <1>0, <1>1, <1>2 DEF ThreadValues
<1>4. now \in ThreadValues /\ now.step = "planned"
  BY <1>0, <1>2 DEF ThreadValues, ThreadSteps
<1>5. now.case = local[t].case /\ now.answer = local[t].answer /\ now.status = local[t].status
      /\ now.metrics = local[t].metrics
  BY <1>0, <1>2 DEF ThreadValues
<1>6. UNCHANGED <<command, selected, nextCase, results, exitCode, kept, given, calls>>
  BY DEF Replace, record
<1>7. files' = [p \in DOMAIN files \cup {PromptOf(t)} |->
                    IF p = PromptOf(t) THEN local[t].answer ELSE files[p]]
  BY DEF Replace
<1>8. /\ command.llm /\ Cached /\ calls[now.case] = 1 /\ now.status # "hit" /\ now.metrics
      /\ now.answer \in Answers /\ Gave(now.case, now.answer)
  BY <1>1, <1>2, <1>5 DEF OwnValues
<1>9. PromptOf(t) = selected[now.case].prompt
  BY <1>5 DEF PromptOf
<1>10. DOMAIN files' = DOMAIN files \cup {selected[now.case].prompt}
  BY <1>7, <1>9
<1>11. OwnValues(now)'
  <2>1. Cached' /\ command'.llm /\ calls'[now.case] = 1 /\ Gave(now.case, now.answer)'
    BY <1>6, <1>8 DEF Cached, Gave
  <2>2. selected'[now.case].prompt \in DOMAIN files'
    BY <1>6, <1>10
  <2> QED BY <1>4, <1>8, <2>1, <2>2 DEF OwnValues, Answers
<1>12. CacheHolds'
  <2>1. ASSUME NEW p \in DOMAIN files' PROVE files'[p] \in Answers /\ <<p, files'[p]>> \in given
    <3>1. CASE p = PromptOf(t)
      BY <3>1, <1>5, <1>7, <1>8, <1>9 DEF Gave
    <3>2. CASE p # PromptOf(t)
      BY <3>2, <1>7 DEF CacheHolds, EvaluationInv
    <3> QED BY <3>1, <3>2
  <2>2. ASSUME command.cache = "use", NEW p \in kept
        PROVE  p \in DOMAIN files' /\ files'[p] # "scalar"
    <3>1. p \in DOMAIN files /\ files[p] # "scalar"
      BY <2>2 DEF CacheHolds, EvaluationInv, Usable
    <3>2. selected[now.case].prompt \notin kept
      <4>1. now.case \in 1 .. Len(selected)
        BY <1>1, <1>5, BusyThread
      <4> QED BY <1>8, <2>2, <4>1 DEF EvaluationInv, ResultsAreOwn
    <3>3. p # PromptOf(t)
      BY <2>2, <3>2, <1>9
    <3> QED BY <3>1, <3>3, <1>7
  <2>3. command'.cache = "use" => kept' \subseteq Usable'
    BY <1>6, <2>2 DEF Usable
  <2> QED BY <2>1, <2>3, <1>6 DEF CacheHolds
<1> QED BY <1>1, <1>3, <1>4, <1>5, <1>6, <1>10, <1>11, <1>12, ThreadStep

\* A thread takes the next case.
LEMMA BeginCaseStep ==
    ASSUME EvaluationInv, NEW t \in 1 .. MaxThreads, BeginCase(t)
    PROVE  EvaluationInv'
<1> USE DEF EvaluationInv
<1>1. /\ Running /\ local[t].step = "idle" /\ nextCase <= Len(selected)
      /\ nextCase' = nextCase + 1
      /\ UNCHANGED <<command, selected, results, exitCode, files, kept, calls, given>>
  BY DEF BeginCase, directory, record
<1>2. /\ local \in [1 .. MaxThreads -> ThreadValues] /\ Len(selected) \in Nat
      /\ nextCase \in 1 .. Len(selected) /\ command \in CommandLines
  <2>1. /\ nextCase \in 1 .. Len(selected) + 1 /\ selected \in Seq(Cases) /\ selected # <<>>
        /\ local \in [1 .. MaxThreads -> ThreadValues] /\ command \in CommandLines
    BY <1>1 DEF EvaluationTypes
  <2> QED BY <1>1, <2>1
<1>3. PICK now : now = [local[t] EXCEPT !.case = nextCase, !.answer = "none",
                            !.step = IF command.llm THEN "generate" ELSE "planned",
                            !.fellBack = FALSE]
  OBVIOUS
<1>4. local' = [local EXCEPT ![t] = now]
  BY <1>2, <1>3 DEF BeginCase, ThreadValues
<1>5. /\ now \in ThreadValues /\ now.case = nextCase /\ now.answer = "none"
      /\ now.step = (IF command.llm THEN "generate" ELSE "planned")
  <2>1. local[t] \in ThreadValues /\ nextCase \in Nat
    BY <1>2
  <2> QED BY <1>3, <2>1 DEF ThreadValues, ThreadSteps
<1>6. local'[t] = now /\ \A u \in 1 .. MaxThreads : u # t => local'[u] = local[u]
  BY <1>2, <1>4
<1>7. EvaluationTypes'
  <2>1. local' \in [1 .. MaxThreads -> ThreadValues] /\ nextCase' \in 1 .. Len(selected) + 1
    BY <1>1, <1>2, <1>4, <1>5
  <2> QED BY <1>1, <2>1 DEF EvaluationTypes, Running
<1>8. calls[nextCase] = 0 /\ results[nextCase] = NoResult
  BY <1>2 DEF ThreadsApart
<1>9. ThreadsApart'
  <2>1. \A u \in 1 .. MaxThreads : u # t /\ local'[u].step # "idle" =>
           local'[u].case \in 1 .. nextCase - 1 /\ results[local'[u].case] = NoResult
    BY <1>6 DEF ThreadsApart
  <2>2. \A u \in 1 .. MaxThreads : local'[u].step # "idle" =>
          /\ Running' /\ local'[u].case \in 1 .. nextCase' - 1
          /\ results'[local'[u].case] = NoResult
    BY <1>1, <1>2, <1>5, <1>6, <1>8, <2>1 DEF Running
  <2>3. \A u \in 1 .. MaxThreads : u # t /\ local'[u].step # "idle" => local'[u].case # nextCase
    BY <1>2, <2>1
  <2>4. \A v, u \in 1 .. MaxThreads :
          local'[v].step # "idle" /\ local'[u].step # "idle" /\ v # u
             => local'[v].case # local'[u].case
    BY <1>5, <1>6, <2>3 DEF ThreadsApart
  <2>5. \A i \in 1 .. Len(selected) : nextCase' <= i => calls'[i] = 0 /\ results'[i] = NoResult
    BY <1>1, <1>2 DEF ThreadsApart
  <2> QED BY <1>1, <2>2, <2>4, <2>5 DEF ThreadsApart
<1>10. ValuesAreOwn'
  <2>1. OwnValues(now)
    BY <1>5, <1>8, CommandTypes, <1>2 DEF OwnValues
  <2>2. ASSUME NEW m, OwnValues(m) PROVE OwnValues(m)'
    BY <1>1, <2>2, OwnValuesStay
  <2>3. ASSUME NEW u \in 1 .. MaxThreads, local'[u].step # "idle" PROVE OwnValues(local[u])'
    <3>1. CASE u = t
      BY <3>1, <1>6, <2>1, <2>2 DEF OwnValues, Gave, Cached
    <3>2. CASE u # t
      <4>1. local'[u] = local[u] /\ OwnValues(local[u])
        BY <3>2, <2>3, <1>6 DEF ValuesAreOwn
      <4> QED BY <1>1, <4>1 DEF OwnValues, Gave, Cached
    <3> QED BY <3>1, <3>2
  <2> QED BY <2>3 DEF ValuesAreOwn
<1>11. ResultsAreOwn' /\ CacheHolds'
  BY <1>1 DEF ResultsAreOwn, CacheHolds, Usable, Finished, ResultTells, Cached
<1> QED BY <1>7, <1>9, <1>10, <1>11

\* A case ends with a result that its own calls and values explain.
LEMMA EndCaseStep ==
    ASSUME EvaluationInv, NEW t \in 1 .. MaxThreads, NEW mine \in ThreadValues, Running,
           local[t].step # "idle", mine.case = local[t].case,
           NEW result \in {Raised} \cup DoneResults, EndCase(t, mine, result),
           UNCHANGED <<files, kept, given>>,
           calls' = calls \/ calls' = [calls EXCEPT ![mine.case] = 1],
           calls' # calls /\ command.cache = "use" => selected[mine.case].prompt \notin kept,
           result \in DoneResults =>
              /\ ResultTells(mine.case)'
              /\ Cached /\ result.answer # "error" => selected[mine.case].prompt \in DOMAIN files
              /\ ~command.llm => result.answer = "none"
              /\ result.observed.fellBack => command.fallback
    PROVE  EvaluationInv'
<1> USE DEF EvaluationInv
<1>1. /\ results' = [results EXCEPT ![mine.case] = result]
      /\ local' = [local EXCEPT ![t] = [mine EXCEPT !.case = 0, !.step = "idle",
                                                    !.answer = "none"]]
      /\ UNCHANGED <<command, selected, nextCase, exitCode>>
  BY DEF EndCase
<1>2. /\ local \in [1 .. MaxThreads -> ThreadValues] /\ mine.case \in 1 .. Len(selected)
      /\ Len(selected) \in Nat /\ calls \in [1 .. Len(selected) -> {0, 1}]
  BY BusyThread
<1>3. mine.case \in 1 .. nextCase - 1 /\ nextCase \in 1 .. Len(selected) + 1
      /\ results \in [1 .. Len(selected) -> {NoResult, Raised} \cup DoneResults]
  BY DEF ThreadsApart, EvaluationTypes
<1>4. results'[mine.case] = result /\ \A i \in 1 .. Len(selected) : i # mine.case =>
          results'[i] = results[i] /\ calls'[i] = calls[i]
  BY <1>1, <1>2, <1>3
<1>5. local'[t].step = "idle" /\ local' \in [1 .. MaxThreads -> ThreadValues]
      /\ \A u \in 1 .. MaxThreads : u # t => local'[u] = local[u]
  BY <1>1, <1>2 DEF ThreadValues, ThreadSteps
<1>6. EvaluationTypes'
  <2>1. calls' \in [1 .. Len(selected) -> {0, 1}]
    BY <1>2
  <2>2. results' \in [1 .. Len(selected) -> {NoResult, Raised} \cup DoneResults]
    BY <1>1, <1>3
  <2> QED BY <1>1, <1>5, <2>1, <2>2 DEF EvaluationTypes, Running
<1>7. \A u \in 1 .. MaxThreads : local'[u].step # "idle" =>
          /\ u # t /\ local'[u] = local[u] /\ local[u].step # "idle"
          /\ local[u].case # mine.case /\ local[u].case \in 1 .. nextCase - 1
          /\ local[u].case \in 1 .. Len(selected)
  BY <1>3, <1>5 DEF ThreadsApart
<1>8. ThreadsApart'
  <2>1. \A u \in 1 .. MaxThreads : local'[u].step # "idle" =>
          /\ Running' /\ local'[u].case \in 1 .. nextCase' - 1
          /\ results'[local'[u].case] = NoResult
    BY <1>1, <1>4, <1>7 DEF ThreadsApart, Running
  <2>2. \A v, u \in 1 .. MaxThreads :
          local'[v].step # "idle" /\ local'[u].step # "idle" /\ v # u
             => local'[v].case # local'[u].case
    BY <1>7 DEF ThreadsApart
  <2>3. \A i \in 1 .. Len(selected) : nextCase' <= i => calls'[i] = 0 /\ results'[i] = NoResult
    <3>1. \A i \in 1 .. Len(selected) : nextCase <= i => i # mine.case
      BY <1>3
    <3> QED BY <1>1, <1>4, <3>1 DEF ThreadsApart
  <2> QED BY <1>1, <2>1, <2>2, <2>3 DEF ThreadsApart
<1>9. ValuesAreOwn'
  <2>1. ASSUME NEW u \in 1 .. MaxThreads, local'[u].step # "idle" PROVE OwnValues(local[u])'
    <3>1. local'[u] = local[u] /\ OwnValues(local[u]) /\ calls'[local[u].case] = calls[local[u].case]
      BY <1>4, <1>7, <2>1 DEF ValuesAreOwn
    <3>2. ASSUME NEW m, m = local[u] PROVE OwnValues(m)'
      BY <1>1, <3>1, <3>2, OwnValuesStay
    <3> QED BY <3>1, <3>2 DEF OwnValues, Gave, Cached
  <2> QED BY <2>1 DEF ValuesAreOwn
<1>10. ResultsAreOwn'
  <2>1. ASSUME NEW i \in 1 .. Len(selected)
        PROVE  /\ Finished(i)' =>
                     /\ ResultTells(i)'
                     /\ Cached' /\ results'[i].answer # "error" => selected[i].prompt \in DOMAIN files'
                     /\ ~command.llm => results'[i].answer = "none"
                     /\ results'[i].observed.fellBack => command.fallback
               /\ command.cache = "use" /\ calls'[i] = 1 => selected[i].prompt \notin kept
    <3>1. CASE i = mine.case
      <4>1. Finished(i)' => result \in DoneResults
        BY <3>1, <1>4 DEF Finished, Raised
      <4>2. command.cache = "use" /\ calls'[i] = 1 => selected[i].prompt \notin kept
        BY <3>1 DEF ResultsAreOwn
      <4>3. Cached' <=> Cached
        BY <1>1 DEF Cached
      <4>4. results'[i] = result
        BY <3>1, <1>4
      <4>5. Finished(i)' => ResultTells(i)'
        BY <3>1, <4>1 DEF ResultTells, Cached
      <4> QED BY <1>1, <3>1, <4>1, <4>2, <4>3, <4>4, <4>5
    <3>2. CASE i # mine.case
      <4>1. calls'[i] = calls[i] /\ results'[i] = results[i]
        BY <3>2, <1>4
      <4>2. Finished(i)' => ResultTells(i)'
        BY <1>1, <4>1, ResultTellsStays DEF Finished, ResultsAreOwn
      <4> QED BY <1>1, <4>1, <4>2 DEF Finished, ResultsAreOwn, Cached
    <3> QED BY <3>1, <3>2
  <2> QED BY <1>1, <2>1 DEF ResultsAreOwn
<1>11. CacheHolds'
  BY <1>1 DEF CacheHolds, Usable
<1> QED BY <1>6, <1>8, <1>9, <1>10, <1>11

\* A thread evaluates the plan of its case.
LEMMA EvaluateCaseStep ==
    ASSUME EvaluationInv, NEW t \in 1 .. MaxThreads, EvaluateCase(t)
    PROVE  EvaluationInv'
<1> DEFINE asks == command.llm
           failure2 == asks /\ local[t].answer \in {"error", "invalid", "scalar"}
           mine == [local[t] EXCEPT !.fellBack = failure2 /\ command.fallback]
           outcome == IF ~asks \/ mine.fellBack THEN selected[mine.case].byRules
                      ELSE IF failure2 THEN "raises" ELSE mine.answer
           result == IF outcome = "raises" THEN Raised
                     ELSE [state |-> "done", passed |-> outcome = "passes",
                           answer |-> mine.answer, observed |-> Observed(t, mine)]
<1>1. /\ local[t].step = "planned" /\ Running /\ EndCase(t, mine, result)
      /\ UNCHANGED <<files, kept, given, calls>>
  BY DEF EvaluateCase, directory, record
<1>2. /\ local[t] \in ThreadValues /\ local[t].case \in 1 .. Len(selected)
      /\ OwnValues(local[t]) /\ command \in CommandLines
      /\ results[local[t].case] = NoResult
      /\ calls \in [1 .. Len(selected) -> {0, 1}]
  BY <1>1, BusyThread
<1>3. command.llm \in BOOLEAN /\ command.fallback \in BOOLEAN
  BY <1>2, CommandTypes
<1>4. /\ mine \in ThreadValues /\ mine.case = local[t].case /\ mine.answer = local[t].answer
      /\ mine.status = local[t].status /\ mine.metrics = local[t].metrics
      /\ mine.fellBack = (failure2 /\ command.fallback)
  BY <1>2, <1>3 DEF ThreadValues
<1>5. Observed(t, mine) =
        IF asks THEN [status |-> mine.status, metrics |-> mine.metrics, fellBack |-> mine.fellBack]
        ELSE [status |-> "none", metrics |-> FALSE, fellBack |-> FALSE]
  BY DEF Observed
<1>6. PICK c, r, m : c = local[t].case /\ r = result /\ m = mine
  OBVIOUS
<1>7. r \in {Raised} \cup DoneResults
  <2>1. Observed(t, mine) \in [status : Statuses, metrics : BOOLEAN, fellBack : BOOLEAN]
    <3>1. mine.status \in Statuses /\ mine.metrics \in BOOLEAN /\ mine.fellBack \in BOOLEAN
      BY <1>4 DEF ThreadValues
    <3> HIDE DEF mine
    <3> QED BY <1>3, <1>5, <3>1 DEF Statuses
  <2>2. mine.answer \in Answers \cup {"none", "error"} /\ (outcome = "passes") \in BOOLEAN
    BY <1>4 DEF ThreadValues
  <2> HIDE DEF mine, outcome
  <2> QED BY <1>6, <2>1, <2>2 DEF DoneResults
<1>8. /\ UNCHANGED <<command, selected>>
      /\ results' = [results EXCEPT ![c] = r]
  BY <1>1, <1>4, <1>6 DEF EndCase
<1>9. results'[c] = r
  BY <1>2, <1>6, <1>8 DEF EvaluationInv, EvaluationTypes
<1>10. ASSUME r \in DoneResults
       PROVE  /\ ResultTells(c)'
              /\ Cached /\ r.answer # "error" => selected[c].prompt \in DOMAIN files
              /\ ~command.llm => r.answer = "none"
              /\ r.observed.fellBack => command.fallback
  <2>1. /\ outcome # "raises" /\ r.answer = local[t].answer
        /\ r.observed = Observed(t, mine) /\ r.passed = (outcome = "passes")
    <3>1. outcome # "raises"
      BY <1>6, <1>10 DEF DoneResults, Raised
    <3> HIDE DEF outcome, mine
    <3> QED BY <1>4, <1>6, <3>1
  <2>2. Cached' <=> Cached
    BY <1>8 DEF Cached
  <2>3. CASE ~command.llm
    <3>1. r.answer = "none" /\ calls[c] = 0 /\ r.observed.status = "none" /\ ~r.observed.fellBack
      BY <1>1, <1>2, <1>5, <1>6, <2>1, <2>3 DEF OwnValues
    <3>2. Cached => FALSE
      BY <1>1, <2>3, BusyThread
    <3> QED BY <1>1, <1>8, <1>9, <2>3, <3>1, <3>2 DEF ResultTells
  <2>4. CASE command.llm
    <3>1. /\ r.observed.status = local[t].status /\ r.observed.metrics = local[t].metrics
          /\ r.observed.fellBack = (failure2 /\ command.fallback)
      BY <1>4, <1>5, <2>1, <2>4
    <3>2. /\ local[t].status = "hit" <=> calls[c] = 0 /\ local[t].answer # "error"
          /\ calls[c] = 0 /\ local[t].answer = "error" => ~command.key
          /\ local[t].metrics <=> calls[c] = 1 /\ ~(Cached /\ local[t].answer = "error")
          /\ local[t].answer \in Answers \cup {"error"}
          /\ local[t].answer # "error" => Gave(c, local[t].answer)
          /\ Cached /\ local[t].answer # "error" => selected[c].prompt \in DOMAIN files
      BY <1>1, <1>2, <1>6, <2>4 DEF OwnValues
    <3>3. failure2 <=> local[t].answer \notin {"passes", "fails"}
      BY <2>4, <3>2 DEF Answers
    <3>4. failure2 => command.fallback
      BY <1>4, <2>1
    <3>5. ~failure2 => outcome = local[t].answer
      BY <1>4, <2>4
    <3> HIDE DEF failure2, outcome
    <3>6. r.observed.fellBack <=> ~(r.answer \in {"passes", "fails"})
      BY <2>1, <3>1, <3>3, <3>4
    <3>7. r.answer \in {"passes", "fails"} =>
             (r.passed <=> r.answer = "passes") /\ <<selected[c].prompt, r.answer>> \in given
      BY <2>1, <3>2, <3>3, <3>5 DEF Gave
    <3>8. (r.observed.status = "hit" <=> calls[c] = 0 /\ r.answer # "error")
          /\ (calls[c] = 0 /\ r.answer = "error" => ~command.key)
          /\ (r.observed.metrics <=> calls[c] = 1 /\ ~(Cached /\ r.answer = "error"))
      BY <2>1, <3>1, <3>2
    <3>9. ResultTells(c)'
      BY <1>1, <1>8, <1>9, <2>2, <2>4, <3>6, <3>7, <3>8 DEF ResultTells
    <3> QED BY <2>1, <2>4, <3>1, <3>2, <3>9
  <2> QED BY <1>3, <2>3, <2>4
<1>11. m \in ThreadValues /\ m.case = c /\ EndCase(t, m, r)
  BY <1>1, <1>4, <1>6
<1>12. calls' = calls
  BY <1>1
<1> HIDE DEF mine, result
<1> QED BY <1>1, <1>6, <1>7, <1>10, <1>11, <1>12, EndCaseStep

\* A case raises.
LEMMA CaseRaisesStep ==
    ASSUME EvaluationInv, NEW t \in 1 .. MaxThreads, CaseRaises(t)
    PROVE  EvaluationInv'
<1>1. /\ local[t].step \in {"post", "store", "replace"} /\ Running
      /\ EndCase(t, local[t], Raised) /\ UNCHANGED <<files, kept, given>>
  BY DEF CaseRaises, directory
<1>2. /\ local[t] \in ThreadValues /\ OwnValues(local[t])
      /\ calls \in [1 .. Len(selected) -> {0, 1}] /\ local[t].case \in 1 .. Len(selected)
  BY <1>1, BusyThread
<1>3. PICK m : m = local[t]
  OBVIOUS
<1>4. calls' = calls \/ /\ calls' = [calls EXCEPT ![m.case] = 1]
                        /\ command.cache = "use" => selected[m.case].prompt \notin kept
  <2>1. CASE local[t].step = "post"
    <3>1. calls' = [calls EXCEPT ![local[t].case] = @ + 1] /\ calls[local[t].case] = 0
          /\ (command.cache = "use" => selected[local[t].case].prompt \notin kept)
      BY <1>2, <2>1 DEF CaseRaises, OwnValues
    <3> QED BY <1>2, <1>3, <3>1
  <2>2. CASE local[t].step # "post"
    BY <2>2 DEF CaseRaises
  <2> QED BY <2>1, <2>2
<1>5. Raised \notin DoneResults
  BY DEF Raised, DoneResults
<1> QED BY <1>1, <1>2, <1>3, <1>4, <1>5, EndCaseStep

\* What the main thread does to the variables that its threads go by.
LEMMA MainThreadStep ==
    ASSUME EvaluationInv,
           UNCHANGED <<command, selected, nextCase, local, results, files, kept, calls, given>>,
           exitCode' \in {"running", "0", "1"}, exitCode' # exitCode => AllIdle,
           Running
    PROVE  EvaluationInv'
<1> USE DEF EvaluationInv
<1>1. EvaluationTypes'
  BY DEF EvaluationTypes, Running
<1>2. ThreadsApart'
  BY DEF ThreadsApart, AllIdle, Running
<1>3. ValuesAreOwn'
  BY DEF ValuesAreOwn, OwnValues, Gave, Cached
<1>4. ResultsAreOwn' /\ CacheHolds'
  BY DEF ResultsAreOwn, CacheHolds, Usable, Finished, ResultTells, Cached
<1> QED BY <1>1, <1>2, <1>3, <1>4

\* The cases not begun are cancelled.
LEMMA CancelRestStep ==
    ASSUME EvaluationInv, CancelRest
    PROVE  EvaluationInv'
BY MainThreadStep DEF CancelRest, Running, directory, record

\* The evaluation raises what a case raised.
LEMMA EvaluationRaisesStep ==
    ASSUME EvaluationInv, EvaluationRaises
    PROVE  EvaluationInv'
BY MainThreadStep DEF EvaluationRaises, Running, directory, record

\* Where all cases have ended there is no thread at one.
LEMMA FinishedIdle ==
    ASSUME EvaluationInv, \A i \in DOMAIN selected : Finished(i)
    PROVE  AllIdle
<1>1. SUFFICES ASSUME NEW t \in 1 .. MaxThreads, local[t].step # "idle" PROVE FALSE
  BY DEF AllIdle
<1>2. local[t].case \in 1 .. Len(selected) /\ results[local[t].case] = NoResult
  BY <1>1, BusyThread
<1>3. DOMAIN selected = 1 .. Len(selected)
  BY DEF EvaluationInv, EvaluationTypes
<1> QED BY <1>2, <1>3 DEF Finished, NoResult

\* The evaluation is summed up.
LEMMA FinishEvaluationStep ==
    ASSUME EvaluationInv, FinishEvaluation
    PROVE  EvaluationInv'
<1>1. AllIdle /\ Running
  BY FinishedIdle DEF FinishEvaluation
<1>2. exitCode' \in {"0", "1"}
  BY DEF FinishEvaluation
<1> QED BY <1>1, <1>2, MainThreadStep DEF FinishEvaluation, record

\* The evaluation is killed: its files are what stays.
LEMMA KillStep ==
    ASSUME EvaluationInv, Kill
    PROVE  EvaluationInv'
<1> USE DEF EvaluationInv
<1>1. /\ exitCode' = "killed" /\ local' = [t \in 1 .. MaxThreads |-> AtRest]
      /\ results' = [i \in DOMAIN selected |-> NoResult]
      /\ UNCHANGED <<command, selected, nextCase, files, kept, calls, given>>
  BY DEF Kill, directory, record
<1>2. AtRest \in ThreadValues /\ AtRest.step = "idle"
  BY DEF AtRest, ThreadValues, ThreadSteps, Statuses
<1>3. DOMAIN selected = 1 .. Len(selected)
  BY DEF EvaluationTypes
<1>4. EvaluationTypes'
  <2>1. results' \in [1 .. Len(selected) -> {NoResult, Raised} \cup DoneResults]
        /\ local' \in [1 .. MaxThreads -> ThreadValues]
    BY <1>1, <1>2, <1>3
  <2> QED BY <1>1, <2>1 DEF EvaluationTypes, Running
<1>5. ThreadsApart' /\ ValuesAreOwn'
  BY <1>1, <1>2, <1>3 DEF ThreadsApart, ValuesAreOwn
<1>6. ResultsAreOwn'
  BY <1>1, <1>3 DEF ResultsAreOwn, Finished, NoResult
<1>7. CacheHolds'
  BY <1>1 DEF CacheHolds, Usable
<1> QED BY <1>4, <1>5, <1>6, <1>7

\* Every step of an evaluation keeps the invariant.
LEMMA EvaluationNextStep ==
    ASSUME EvaluationInv, EvaluationNext
    PROVE  EvaluationInv'
<1>1. ASSUME NEW t \in 1 .. MaxThreads,
             \/ BeginCase(t) \/ Look(t) \/ Post(t) \/ MissKey(t) \/ WriteTemp(t) \/ Replace(t)
             \/ EvaluateCase(t) \/ CaseRaises(t)
      PROVE  EvaluationInv'
  BY <1>1, BeginCaseStep, LookStep, PostStep, MissKeyStep, WriteTempStep, ReplaceStep, EvaluateCaseStep,
     CaseRaisesStep
<1> QED BY <1>1, StartEvaluationStep, CancelRestStep, EvaluationRaisesStep,
           FinishEvaluationStep, KillStep DEF EvaluationNext

\* What a step of the scripts is to the evaluation.
LEMMA EvaluationPart ==
    ASSUME ScriptsNext
    PROVE  EvaluationNext \/ UNCHANGED evaluationVars
BY DEF ScriptsNext, ReleaseSteps, DrillSteps, EvaluationSteps, CallDrill, DrillReturns,
       CallEvaluation, EvaluationReturns, OtherCheck, EvaluationNext

\* And so does every other step.
LEMMA EvaluationUnchanged ==
    ASSUME EvaluationInv, UNCHANGED evaluationVars
    PROVE  EvaluationInv'
<1>1. UNCHANGED <<command, selected, nextCase, local, results, cancelled, exitCode,
                  files, benchmark, started, kept, calls, given>>
  BY DEF evaluationVars, process, directory, record
<1> USE DEF EvaluationInv
<1>2. EvaluationTypes' /\ ThreadsApart'
  BY <1>1 DEF EvaluationTypes, ThreadsApart, Running
<1>3. ValuesAreOwn'
  BY <1>1 DEF ValuesAreOwn, OwnValues, Gave, Cached
<1>4. ResultsAreOwn' /\ CacheHolds'
  BY <1>1 DEF ResultsAreOwn, CacheHolds, Usable, Finished, ResultTells, Cached
<1> QED BY <1>2, <1>3, <1>4

\* What is known of the threads, the results and the cache of an evaluation,
\* whatever else is run meanwhile.
THEOREM EvaluationInvariant == ScriptsSpec => []EvaluationInv
<1>1. ScriptsInit => EvaluationInv
  BY EvaluationInitHolds DEF ScriptsInit
<1>2. EvaluationInv /\ [ScriptsNext]_scriptVars => EvaluationInv'
  <2>1. scriptVars' = scriptVars => evaluationVars' = evaluationVars
    BY DEF scriptVars
  <2> QED BY <2>1, EvaluationPart, EvaluationNextStep, EvaluationUnchanged
<1> QED BY <1>1, <1>2, PTL DEF ScriptsSpec

\* A result tells what its own case did, however the threads interleave, and a
\* file of the cache is an answer that the model gave to its prompt
\* (_llm_observability, CachedLLMClient).
THEOREM ObservationsHold == ScriptsSpec => []ObservationsAreOwn
<1>1. EvaluationInv => ObservationsAreOwn
  <2> SUFFICES ASSUME EvaluationInv PROVE ObservationsAreOwn
    OBVIOUS
  <2>1. /\ DOMAIN results = 1 .. Len(selected) /\ DOMAIN calls = 1 .. Len(selected)
        /\ calls \in [1 .. Len(selected) -> {0, 1}]
    BY DEF EvaluationInv, EvaluationTypes
  <2>2. \A i \in DOMAIN results : Finished(i) => ResultTells(i)
    BY <2>1 DEF EvaluationInv, ResultsAreOwn
  <2>3. CacheSpares
    <3>1. \A p \in DOMAIN files : <<p, files[p]>> \in given
      BY DEF EvaluationInv, CacheHolds
    <3>2. \A i \in DOMAIN calls :
            /\ calls[i] <= 1
            /\ command.cache = "use" /\ calls[i] = 1 => selected[i].prompt \notin kept
      BY <2>1 DEF EvaluationInv, ResultsAreOwn
    <3>3. Cached => \A i \in DOMAIN results :
            Finished(i) /\ results[i].answer # "error" => selected[i].prompt \in DOMAIN files
      BY <2>1 DEF EvaluationInv, ResultsAreOwn
    <3> QED BY <3>1, <3>2, <3>3 DEF CacheSpares
  <2> QED BY <2>2, <2>3 DEF ObservationsAreOwn
<1> QED BY <1>1, EvaluationInvariant, PTL

-----------------------------------------------------------------------------
(* Evaluations: the exit code *)

\* A quotient below the scale.
LEMMA QuotientBelow ==
    ASSUME NEW x \in Nat, NEW y \in Nat \ {0}, x < y * 10000
    PROVE  x \div y < 10000
OBVIOUS

\* The rate of fewer than 2 * Scale cases is whole only if they all passed.
LEMMA WholeRate ==
    ASSUME NEW n \in Nat, NEW d \in Nat, d < 2 * Scale, d # 0, n <= d, Ratio(n, d) >= Scale
    PROVE  n = d
<1>1. SUFFICES ASSUME n <= d - 1 PROVE FALSE
  OBVIOUS
<1> DEFINE x == 2 * n * 10000 + d
           y == 2 * d
<1>2. Ratio(n, d) = x \div y
  BY DEF Ratio, Scale
<1>3. x \in Nat /\ y \in Nat \ {0} /\ x < y * 10000
  BY <1>1 DEF Scale
<1>4. x \div y < 10000
  <2> HIDE DEF x, y
  <2> QED BY <1>3, QuotientBelow
<1>5. x \div y \in Int
  <2> HIDE DEF x, y
  <2> QED BY <1>3
<1> HIDE DEF x, y
<1> QED BY <1>2, <1>4, <1>5 DEF Scale

\* What an evaluation that left with 0 has seen.
ExitHolds ==
    exitCode = "0" =>
        /\ selected # <<>> /\ \A i \in DOMAIN selected : Finished(i)
        /\ ~(PassRate < command.floor)
        /\ command.history => benchmark = Summary

\* A bound that the rates need: they are rounded to four digits.
FewCases == \A cmd \in CommandLines : ~Refused(cmd) => Len(Selection(cmd)) < 2 * Scale

\* Every step of an evaluation keeps what its exit code says.
LEMMA ExitStep ==
    ASSUME EvaluationInv, ExitHolds, EvaluationNext
    PROVE  ExitHolds'
<1>1. CASE FinishEvaluation
  <2>1. CASE \E exceeded \in IF command.others THEN BOOLEAN ELSE {FALSE} :
                exitCode' = IF BelowThresholds(exceeded) THEN "1" ELSE "0"
    <3>1. exitCode' = "0" => ~(PassRate < command.floor)
      BY <2>1 DEF BelowThresholds
    <3>2. /\ UNCHANGED <<command, selected, results>> /\ Running
          /\ \A i \in DOMAIN selected : Finished(i)
      BY <1>1 DEF FinishEvaluation
    <3>3. selected # <<>>
      BY <3>2 DEF EvaluationInv, EvaluationTypes
    <3>4. exitCode' = "0" /\ command.history => benchmark' = Summary
      BY <1>1 DEF FinishEvaluation
    <3>5. Summary' = Summary /\ PassRate' = PassRate
      BY <3>2 DEF Summary, PassRate
    <3> QED BY <3>1, <3>2, <3>3, <3>4, <3>5 DEF ExitHolds, Finished
  <2>2. CASE exitCode' = "1"
    BY <2>2 DEF ExitHolds
  <2> QED BY <1>1, <2>1, <2>2 DEF FinishEvaluation
<1>2. CASE StartEvaluation \/ CancelRest \/ EvaluationRaises \/ Kill
  <2>1. exitCode' # "0"
    BY <1>2 DEF StartEvaluation, CancelRest, EvaluationRaises, Kill, Running
  <2> QED BY <2>1 DEF ExitHolds
<1>3. CASE \E t \in 1 .. MaxThreads :
             \/ BeginCase(t) \/ Look(t) \/ Post(t) \/ MissKey(t) \/ WriteTemp(t) \/ Replace(t)
             \/ EvaluateCase(t) \/ CaseRaises(t)
  <2>1. exitCode' = "running"
    BY <1>3 DEF BeginCase, Look, Post, MissKey, WriteTemp, Replace, EvaluateCase, CaseRaises,
                EndCase, Running
  <2> QED BY <2>1 DEF ExitHolds
<1> QED BY <1>1, <1>2, <1>3 DEF EvaluationNext

\* And so does every other step.
LEMMA ExitUnchanged ==
    ASSUME ExitHolds, UNCHANGED evaluationVars
    PROVE  ExitHolds'
<1>1. UNCHANGED <<command, selected, results, exitCode, benchmark>>
  BY DEF evaluationVars, process, directory
<1>2. Summary' = Summary /\ PassRate' = PassRate
  BY <1>1 DEF Summary, PassRate
<1> QED BY <1>1, <1>2 DEF ExitHolds, Finished

\* What the exit code says, of few enough cases.
LEMMA ExitTells ==
    ASSUME EvaluationInv, ExitHolds, FewCases
    PROVE  EvaluationExitTells
<1> SUFFICES ASSUME exitCode = "0" PROVE EvaluationExitTells
  BY DEF EvaluationExitTells
<1> DEFINE n == Len(selected)
           all == 1 .. n
<1>1. /\ selected \in Seq(Cases) /\ n \in Nat /\ DOMAIN selected = all
      /\ results \in [all -> {NoResult, Raised} \cup DoneResults] /\ calls \in [all -> {0, 1}]
      /\ \A i \in all : Finished(i)
      /\ command \in CommandLines /\ ~Refused(command) /\ selected = Selection(command)
      /\ n # 0
  <2>1. selected # <<>> /\ selected \in Seq(Cases)
    BY DEF ExitHolds, EvaluationInv, EvaluationTypes
  <2> QED BY <2>1 DEF ExitHolds, EvaluationInv, EvaluationTypes
<1>2. n < 2 * Scale
  BY <1>1 DEF FewCases
<1>3. DOMAIN results = all /\ DOMAIN calls = all /\ Len(results) = n
      /\ IsFiniteSet(all) /\ Cardinality(all) = n
  <2>1. IsFiniteSet(1 .. n) /\ Cardinality(1 .. n) = n
    BY <1>1, FS_Interval
  <2> QED BY <1>1, <2>1
<1>4. \A i \in all : results[i] \in DoneResults
  BY <1>1 DEF Finished, NoResult, Raised
<1>5. \A i \in all : ResultTells(i)
  BY <1>1 DEF EvaluationInv, ResultsAreOwn
<1> DEFINE passing == {i \in DOMAIN results : results[i].passed}
<1> HIDE DEF n
<1>6. command.floor = Scale => \A i \in DOMAIN selected : results[i].passed
  <2> SUFFICES ASSUME command.floor = Scale PROVE \A i \in all : results[i].passed
    BY <1>1
  <2>1. passing \subseteq all /\ IsFiniteSet(passing) /\ Cardinality(passing) <= n
        /\ Cardinality(passing) \in Nat /\ (Cardinality(passing) = n => passing = all)
    <3>1. passing \subseteq all
      BY <1>3
    <3>2. /\ IsFiniteSet(passing) /\ Cardinality(passing) <= Cardinality(all)
          /\ (Cardinality(all) = Cardinality(passing) => all = passing)
      <4> HIDE DEF passing, all
      <4> QED BY <1>3, <3>1, FS_Subset
    <3> HIDE DEF passing, all
    <3> QED BY <1>3, <3>1, <3>2, FS_CardinalityType
  <2>2. PassRate = Ratio(Cardinality(passing), n)
    BY <1>3 DEF PassRate, Summary
  <2>3. ~(Ratio(Cardinality(passing), n) < Scale)
    BY <2>2 DEF ExitHolds
  <2> HIDE DEF passing
  <2>4. Ratio(Cardinality(passing), n) \in Int
    BY <1>1, <2>1 DEF Ratio, Scale
  <2>5. Cardinality(passing) = n
    BY <1>1, <1>2, <2>1, <2>3, <2>4, WholeRate DEF Scale
  <2>6. passing = all
    BY <2>1, <2>5
  <2> QED BY <1>3, <2>6 DEF passing
<1>7. command.llm /\ ~command.fallback =>
        \A i \in DOMAIN selected : ~results[i].observed.fellBack
  BY <1>1 DEF EvaluationInv, ResultsAreOwn, n
<1>8. command.history /\ command.llm =>
         /\ benchmark.observed = n
         /\ command.key =>
               benchmark.hits + Cardinality({i \in DOMAIN calls : calls[i] = 1}) = n
         /\ benchmark.metrics + benchmark.hits + benchmark.fallbacks >= n
  <2> SUFFICES ASSUME command.history, command.llm
               PROVE  /\ benchmark.observed = n
                      /\ command.key =>
                            benchmark.hits + Cardinality({i \in DOMAIN calls : calls[i] = 1}) = n
                      /\ benchmark.metrics + benchmark.hits + benchmark.fallbacks >= n
    OBVIOUS
  <2> DEFINE hits == {i \in all : results[i].observed.status = "hit"}
             metered == {i \in all : results[i].observed.metrics}
             back == {i \in all : results[i].observed.fellBack}
             called == {i \in all : calls[i] = 1}
  <2>1. {i \in DOMAIN results : command.llm} = all
    BY <1>3
  <2>2. /\ benchmark.observed = Cardinality(all) /\ benchmark.hits = Cardinality(hits)
        /\ benchmark.metrics = Cardinality(metered) /\ benchmark.fallbacks = Cardinality(back)
    <3>1. benchmark = Summary
      BY DEF ExitHolds
    <3> HIDE DEF all
    <3>2. /\ Summary.observed = Cardinality(all) /\ Summary.hits = Cardinality(hits)
          /\ Summary.metrics = Cardinality(metered) /\ Summary.fallbacks = Cardinality(back)
      BY <2>1 DEF Summary
    <3> QED BY <3>1, <3>2
  <2>3. {i \in DOMAIN calls : calls[i] = 1} = called
    BY <1>3
  <2>4. hits \subseteq all /\ metered \subseteq all /\ back \subseteq all /\ called \subseteq all
    OBVIOUS
  <2>5. \A i \in all :
            (results[i].observed.status = "hit" <=> calls[i] = 0 /\ results[i].answer # "error")
            /\ (calls[i] = 0 /\ results[i].answer = "error" => ~command.key)
            /\ (results[i].observed.metrics <=> calls[i] = 1 /\ ~(Cached /\ results[i].answer = "error"))
            /\ (results[i].observed.fellBack <=> results[i].answer \notin {"passes", "fails"})
    BY <1>5 DEF ResultTells
  <2>6. command.key => hits \cup called = all /\ hits \cap called = {}
    BY <1>1, <2>5
  <2>7. (metered \cup hits) \cup back = all
    BY <1>1, <2>5
  <2> HIDE DEF all, hits, metered, back, called
  <2>8. /\ IsFiniteSet(hits) /\ IsFiniteSet(metered) /\ IsFiniteSet(back) /\ IsFiniteSet(called)
    BY <1>3, <2>4, FS_Subset
  <2>9. ASSUME command.key PROVE Cardinality(hits) + Cardinality(called) = n
    <3>1. Cardinality(hits \cup called) =
             Cardinality(hits) + Cardinality(called) - Cardinality(hits \cap called)
      BY <2>8, FS_Union
    <3>2. Cardinality(hits) \in Nat /\ Cardinality(called) \in Nat
      BY <2>8, FS_CardinalityType
    <3>3. Cardinality(hits \cup called) = n
      <4>1. hits \cup called = all
        BY <2>6, <2>9
      <4> QED BY ONLY <1>3, <4>1
    <3>4. Cardinality(hits \cap called) = 0
      BY <2>6, <2>9, FS_EmptySet
    <3> QED BY <1>1, <3>1, <3>2, <3>3, <3>4
  <2>10. Cardinality(metered) + Cardinality(hits) + Cardinality(back) >= n
    <3> DEFINE some == metered \cup hits
    <3>1. /\ IsFiniteSet(some)
          /\ Cardinality(some) = Cardinality(metered) + Cardinality(hits)
                                     - Cardinality(metered \cap hits)
      BY <2>8, FS_Union
    <3>2. some \cup back = all
      BY <2>7
    <3> HIDE DEF some
    <3>3. Cardinality(some \cup back) =
             Cardinality(some) + Cardinality(back) - Cardinality(some \cap back)
      BY <2>8, <3>1, FS_Union
    <3>4. IsFiniteSet(metered \cap hits) /\ IsFiniteSet(some \cap back)
      <4>1. metered \cap hits \in SUBSET hits /\ some \cap back \in SUBSET back
        OBVIOUS
      <4> QED BY <2>8, <4>1, FS_Subset
    <3>5. /\ Cardinality(metered) \in Nat /\ Cardinality(hits) \in Nat /\ Cardinality(back) \in Nat
          /\ Cardinality(some) \in Nat
          /\ Cardinality(metered \cap hits) \in Nat /\ Cardinality(some \cap back) \in Nat
      BY <2>8, <3>1, <3>4, FS_CardinalityType
    <3>6. Cardinality(some) <= Cardinality(metered) + Cardinality(hits)
      BY <3>1, <3>5
    <3>7. n <= Cardinality(some) + Cardinality(back)
      <4>1. Cardinality(some \cup back) = n
        BY ONLY <1>3, <3>2
      <4> QED BY <1>1, <3>3, <3>5, <4>1
    <3> QED BY <1>1, <3>5, <3>6, <3>7
  <2> QED BY <1>3, <2>2, <2>3, <2>9, <2>10
<1>9. selected # <<>>
  BY DEF ExitHolds
<1> QED BY <1>1, <1>6, <1>7, <1>8, <1>9 DEF EvaluationExitTells, n

\* An evaluation that leaves with 0 under a floor of 1.0 has a result of every
\* case, all of them passed, and its line of the history accounts for each, for
\* any file of fewer than 20000 cases (main, append_benchmark_history).
THEOREM EvaluationsExitHonestly ==
    ASSUME FewCases
    PROVE  ScriptsSpec => []EvaluationExitTells
<1>1. ScriptsInit => ExitHolds
  BY DEF ScriptsInit, EvaluationInit, ExitHolds
<1>2. EvaluationInv /\ ExitHolds /\ [ScriptsNext]_scriptVars => ExitHolds'
  <2>1. scriptVars' = scriptVars => evaluationVars' = evaluationVars
    BY DEF scriptVars
  <2> QED BY <2>1, EvaluationPart, ExitStep, ExitUnchanged
<1>3. EvaluationInv /\ ExitHolds => EvaluationExitTells
  BY ExitTells
<1> QED BY <1>1, <1>2, <1>3, EvaluationInvariant, PTL DEF ScriptsSpec

-----------------------------------------------------------------------------
(* Drills: the invariant *)

Crew == Len(WorkerNames)
Commands == [do : {"start", "setup", "check", "stop", "outage", "restart", "run", "submit",
                   "remove"},
              on : Services \cup Workers \cup {"all", "init", "api", "queue", "readiness", "alerts",
                                             "load", "jobs"}]
Readying == {"start", "setup"}
Probing == {"check", "stop", "outage", "restart"}

DrillTypes ==
    /\ script \in {"outage", "jitter", "stability", "workflow"} /\ rounds \in RoundCounts
    /\ probes \in {<<>>, <<"redis">>, <<"mysql">>, <<"redis", "mysql">>}
    /\ todo \in Seq(Commands) /\ begun \in 0 .. Crew
    /\ raised \in BOOLEAN /\ clean \in BOOLEAN
    /\ up \subseteq Services /\ seen \subseteq Services /\ containers \subseteq Workers
    /\ doing \in [Workers -> {0} \cup Numbers]
    /\ job \in [Numbers -> {"none", "queued", "running", "succeeded", "failed"}]
    /\ registry \subseteq Numbers
    /\ submitter \in {"none", "submitting", "waiting", "alert", "done", "failed", "dead"}
    /\ round \in 1 .. rounds

\* What follows what in a list of commands, of whose beginning some are done.
Follows(p) ==
    \A j \in 1 .. Len(p) :
        /\ p[j].do \in {"stop", "outage", "restart"} => p[j].on \in Services
        /\ p[j].do = "stop" => j < Len(p) /\ p[j + 1] = Command("outage", p[j].on)
        /\ p[j].do = "outage" => j < Len(p) /\ p[j + 1] = Command("restart", p[j].on)
        /\ p[j].do = "outage" /\ j > 1 => p[j - 1] = Command("stop", p[j].on)
        /\ p[j].do = "restart" /\ j > 1 => p[j - 1] = Command("outage", p[j].on)
        /\ p[j].do = "start" => j = 1 /\ p[j].on = "all"

\* The commands of the two kinds of drills.
OfProbing == \A j \in 1 .. Len(todo) : todo[j].do \in Readying \cup Probing

RemovesFrom(b) ==
    \A j \in 1 .. Len(todo) : Len(todo) - j < b =>
        todo[j] = Command("remove", WorkerNames[b - (Len(todo) - j)])

OfWorkers ==
    IF raised THEN Len(todo) <= begun /\ RemovesFrom(begun)
    ELSE /\ RemovesFrom(Crew)
         /\ \A j \in 1 .. Len(todo) :
               LET after == Len(todo) - j
               IN  /\ after = Crew => todo[j].do = "submit"
                   /\ Crew < after /\ after <= 2 * Crew =>
                         todo[j] = Command("run", WorkerNames[2 * Crew + 1 - after])
                   /\ after > 2 * Crew => todo[j].do \in Readying
         /\ begun = IF Len(todo) > 2 * Crew THEN 0
                    ELSE IF Len(todo) > Crew THEN 2 * Crew + 1 - Len(todo) ELSE Crew

InOrder ==
    /\ Follows(todo)
    /\ IF StartsWorkers THEN OfWorkers
       ELSE OfProbing /\ begun = 0 /\ containers = {} /\ submitter = "none"

\* Why a service is down, or a container there, once nothing is left to do.
ServiceBlamed(s) ==
    <<"start", "all">> \in trouble \/ <<"stop", s>> \in trouble \/ <<"restart", s>> \in trouble
ContainerBlamed(i) ==
    \/ <<"run", WorkerNames[i]>> \in trouble
    \/ \E k \in 1 .. i : <<"remove", WorkerNames[k]>> \in trouble

RemovalToCome(i) == \E j \in 1 .. Len(todo) : todo[j] = Command("remove", WorkerNames[i])

ServicesReturn ==
    \A s \in Services : s \in up \/ ServiceBlamed(s) \/
        /\ todo # <<>>
        /\ todo[1].do = "start" \/ todo[1] \in {Command("outage", s), Command("restart", s)}

ContainersGo ==
    \A i \in 1 .. Crew : WorkerNames[i] \in containers =>
        /\ i <= begun \/ <<"run", WorkerNames[i]>> \in trouble
        /\ ContainerBlamed(i) \/ RemovalToCome(i)
        /\ raised \/ <<"remove", WorkerNames[i]>> \in trouble \/ RemovalToCome(i)

\* What a drill is told by.
TroubleTells ==
    /\ raised => trouble # {} \/ (StartsWorkers /\ rounds > RoundsKept)
    /\ ~clean => trouble # {}
    /\ submitter = "failed" => trouble # {}
    /\ \A n \in Numbers : job[n] = "failed" => trouble # {}
    /\ \A x \in trouble : x[1] \in {"start", "stop", "restart", "run"} => raised
    /\ \A x \in trouble : x[1] = "remove" => raised \/ ~clean

\* The services whose outage is still to be seen.
Outages(p) == {p[j].on : j \in {k \in 1 .. Len(p) : p[k].do = "outage"}}
OutagesSeen ==
    /\ ~raised => {probes[i] : i \in DOMAIN probes} = seen \cup Outages(todo)
    /\ todo # <<>> /\ todo[1].do = "outage" => todo[1].on \notin up

\* Round after round.
RoundsDone ==
    /\ submitter = "none" => (\A n \in Numbers : job[n] = "none") /\ registry = {} /\ round = 1
    /\ \A w \in Workers : doing[w] # 0 => job[doing[w]] \in {"running", "succeeded", "failed"}
    /\ submitter \in {"submitting", "waiting", "alert", "done"} =>
          \A n \in 1 .. (round - 1) * JobsPerRound : job[n] = "succeeded"
    /\ submitter = "submitting" => \A n \in Numbers : n >= round * JobsPerRound => job[n] = "none"
    /\ submitter \in {"waiting", "alert", "done"} =>
          \A n \in Numbers : n > round * JobsPerRound => job[n] = "none"
    /\ submitter \in {"alert", "done"} => \A n \in OfRound(round) : job[n] = "succeeded"
    /\ submitter = "done" => round = rounds /\ registry = {}
    /\ StartsWorkers /\ ~raised /\ Len(todo) <= Crew => submitter = "done"

DrillInv ==
    /\ DrillTypes /\ InOrder /\ ServicesReturn /\ ContainersGo /\ TroubleTells
    /\ OutagesSeen /\ RoundsDone

-----------------------------------------------------------------------------
(* Drills: their commands, jobs and steps *)

\* The names of the workers are told apart by their places.
LEMMA DrillConstants ==
    /\ WorkerNames \in Seq(STRING) /\ Crew \in Nat \ {0} /\ DOMAIN WorkerNames = 1 .. Crew
    /\ \A i \in 1 .. Crew : WorkerNames[i] \in STRING
    /\ \A i, k \in 1 .. Crew : WorkerNames[i] = WorkerNames[k] => i = k
    /\ Workers = {WorkerNames[i] : i \in 1 .. Crew}
    /\ JobsPerRound \in Nat \ {0}
<1>1. /\ WorkerNames \in Seq(STRING) /\ Crew \in Nat \ {0} /\ DOMAIN WorkerNames = 1 .. Crew
      /\ JobsPerRound \in Nat \ {0}
  BY DrillsAssumption DEF Crew
<1>2. \A i \in 1 .. Crew : WorkerNames[i] \in STRING
  BY <1>1
<1>3. \A i, k \in 1 .. Crew : WorkerNames[i] = WorkerNames[k] => i = k
  BY <1>1, DrillsAssumption DEF IsInjective
<1>4. Workers = {WorkerNames[i] : i \in 1 .. Crew}
  BY <1>1 DEF Workers, Range
<1> QED BY <1>1, <1>2, <1>3, <1>4

\* The numbers of the jobs are those of all rounds there may be.
LEMMA NumbersAre ==
    ASSUME NEW r \in RoundCounts
    PROVE  /\ r \in Nat \ {0} /\ Numbers \subseteq Nat \ {0}
           /\ \A n \in 1 .. r * JobsPerRound : n \in Numbers
<1>1. PICK most \in RoundCounts : \A k \in RoundCounts : k <= most
  BY DrillsAssumption
<1>2. RoundCounts \subseteq Nat \ {0} /\ JobsPerRound \in Nat \ {0}
  BY DrillsAssumption
<1>3. Max(RoundCounts) \in RoundCounts /\ \A k \in RoundCounts : k <= Max(RoundCounts)
  <2> DEFINE P(x) == \A y \in RoundCounts : x >= y
  <2>1. P(most) /\ most \in RoundCounts
    BY <1>1, <1>2
  <2>2. Max(RoundCounts) = CHOOSE x \in RoundCounts : P(x)
    BY DEF Max
  <2>3. (CHOOSE x \in RoundCounts : P(x)) \in RoundCounts /\ P(CHOOSE x \in RoundCounts : P(x))
    <3> HIDE DEF P
    <3> QED BY <2>1
  <2> QED BY <1>2, <2>2, <2>3
<1>4. PICK m \in Nat \ {0} : m = Max(RoundCounts) /\ r <= m /\ r \in Nat \ {0}
  BY <1>2, <1>3
<1>5. r * JobsPerRound <= m * JobsPerRound /\ m * JobsPerRound \in Nat /\ r * JobsPerRound \in Nat
  BY <1>2, <1>4
<1>6. Numbers = 1 .. m * JobsPerRound
  BY <1>4 DEF Numbers
<1> QED BY <1>4, <1>5, <1>6

\* What is left of a list without its head.
LEMMA TailIs ==
    ASSUME NEW S, NEW p \in Seq(S), p # <<>>
    PROVE  /\ Tail(p) \in Seq(S) /\ Len(Tail(p)) = Len(p) - 1 /\ Len(p) \in Nat \ {0}
           /\ \A j \in 1 .. Len(p) - 1 : Tail(p)[j] = p[j + 1] /\ j + 1 \in 1 .. Len(p)
           /\ Head(p) = p[1] /\ p[1] \in S
OBVIOUS

\* What is left of an ordered list of commands is ordered.
LEMMA FollowsTail ==
    ASSUME NEW p \in Seq(Commands), p # <<>>, Follows(p)
    PROVE  Follows(Tail(p))
<1> DEFINE q == Tail(p)
<1>1. /\ Len(q) = Len(p) - 1 /\ Len(p) \in Nat \ {0}
      /\ \A j \in 1 .. Len(p) - 1 : q[j] = p[j + 1] /\ j + 1 \in 1 .. Len(p)
  BY TailIs
<1> HIDE DEF q
<1>2. ASSUME NEW j \in 1 .. Len(q)
      PROVE  /\ q[j].do \in {"stop", "outage", "restart"} => q[j].on \in Services
             /\ q[j].do = "stop" => j < Len(q) /\ q[j + 1] = Command("outage", q[j].on)
             /\ q[j].do = "outage" => j < Len(q) /\ q[j + 1] = Command("restart", q[j].on)
             /\ q[j].do = "outage" /\ j > 1 => q[j - 1] = Command("stop", q[j].on)
             /\ q[j].do = "restart" /\ j > 1 => q[j - 1] = Command("outage", q[j].on)
             /\ q[j].do = "start" => j = 1 /\ q[j].on = "all"
  <2>1. q[j] = p[j + 1] /\ j + 1 \in 1 .. Len(p)
    BY <1>1
  <2>2. j < Len(q) <=> j + 1 < Len(p)
    BY <1>1
  <2>3. j < Len(q) => q[j + 1] = p[(j + 1) + 1]
    BY <1>1
  <2>4. j > 1 => q[j - 1] = p[(j + 1) - 1]
    BY <1>1
  <2>5. p[j + 1].do # "start"
    BY <2>1 DEF Follows
  <2> QED BY <2>1, <2>2, <2>3, <2>4, <2>5 DEF Follows
<1> QED BY <1>2 DEF Follows, q

\* The outages left once the first command is done.
LEMMA OutagesTail ==
    ASSUME NEW p \in Seq(Commands), p # <<>>
    PROVE  Outages(p) = Outages(Tail(p)) \cup IF p[1].do = "outage" THEN {p[1].on} ELSE {}
<1> DEFINE q == Tail(p)
<1>1. /\ Len(q) = Len(p) - 1 /\ Len(p) \in Nat \ {0}
      /\ \A j \in 1 .. Len(p) - 1 : q[j] = p[j + 1] /\ j + 1 \in 1 .. Len(p)
  BY TailIs
<1> HIDE DEF q
<1>2. ASSUME NEW s \in Outages(p) PROVE s \in Outages(q) \cup IF p[1].do = "outage" THEN {p[1].on} ELSE {}
  <2>1. PICK k \in 1 .. Len(p) : p[k].do = "outage" /\ s = p[k].on
    BY DEF Outages
  <2>2. CASE k = 1
    BY <2>1, <2>2
  <2>3. CASE k # 1
    <3>1. k - 1 \in 1 .. Len(q) /\ q[k - 1] = p[k]
      BY <1>1, <2>3
    <3> QED BY <2>1, <3>1 DEF Outages
  <2> QED BY <2>2, <2>3
<1>3. ASSUME NEW s \in Outages(q) PROVE s \in Outages(p)
  <2>1. PICK k \in 1 .. Len(q) : q[k].do = "outage" /\ s = q[k].on
    BY <1>3 DEF Outages
  <2>2. k + 1 \in 1 .. Len(p) /\ p[k + 1] = q[k]
    BY <1>1
  <2> QED BY <2>1, <2>2 DEF Outages
<1>4. p[1].do = "outage" => p[1].on \in Outages(p)
  BY <1>1 DEF Outages
<1> QED BY <1>2, <1>3, <1>4 DEF q

\* The commands that remove the first n workers, in their order.
LEMMA RemovalIs ==
    ASSUME NEW n \in 0 .. Crew
    PROVE  /\ Removal(n) \in Seq(Commands) /\ Len(Removal(n)) = n
           /\ \A i \in 1 .. n : Removal(n)[i] = Command("remove", WorkerNames[i])
           /\ Follows(Removal(n))
<1>1. Removal(n) = [i \in 1 .. n |-> Command("remove", WorkerNames[i])] /\ n \in Nat
  BY DrillConstants DEF Removal
<1>2. \A i \in 1 .. n : Command("remove", WorkerNames[i]) \in Commands
  <2>1. \A i \in 1 .. n : WorkerNames[i] \in Workers
    BY DrillConstants
  <2> QED BY <2>1 DEF Command, Commands
<1>3. Removal(n) \in Seq(Commands) /\ Len(Removal(n)) = n
  BY <1>1, <1>2
<1>4. \A i \in 1 .. n : Removal(n)[i] = Command("remove", WorkerNames[i])
  BY <1>1
<1>5. Follows(Removal(n))
  BY <1>3, <1>4 DEF Follows, Command
<1> QED BY <1>3, <1>4, <1>5

\* What is known of the drill at the command it is at.
LEMMA HeadIs ==
    ASSUME DrillInv, todo # <<>>
    PROVE  /\ todo \in Seq(Commands) /\ Len(todo) \in Nat \ {0} /\ todo[1] \in Commands
           /\ Head(todo) = todo[1]
           /\ begun \in 0 .. Crew /\ Crew \in Nat \ {0}
BY TailIs, DrillConstants DEF DrillInv, DrillTypes

\* The kinds of commands of a drill with workers, by what comes after them.
LEMMA WorkerCommand ==
    ASSUME DrillInv, todo # <<>>, StartsWorkers
    PROVE  /\ raised => todo[1] = Command("remove", WorkerNames[begun - (Len(todo) - 1)])
                        /\ Len(todo) <= begun
           /\ ~raised /\ Len(todo) <= Crew =>
                 todo[1] = Command("remove", WorkerNames[Crew - (Len(todo) - 1)]) /\ begun = Crew
           /\ ~raised /\ Len(todo) = Crew + 1 => todo[1].do = "submit" /\ begun = Crew
           /\ ~raised /\ Crew + 1 < Len(todo) /\ Len(todo) <= 2 * Crew + 1 =>
                 /\ todo[1] = Command("run", WorkerNames[begun + 1])
                 /\ begun = 2 * Crew + 1 - Len(todo)
           /\ ~raised /\ 2 * Crew + 1 < Len(todo) => todo[1].do \in Readying /\ begun = 0
<1>1. OfWorkers
  BY DEF DrillInv, InOrder
<1>2. 1 \in 1 .. Len(todo) /\ Len(todo) \in Nat \ {0} /\ begun \in 0 .. Crew /\ Crew \in Nat \ {0}
  BY HeadIs
<1>3. raised => todo[1] = Command("remove", WorkerNames[begun - (Len(todo) - 1)])
                /\ Len(todo) <= begun
  BY <1>1, <1>2 DEF OfWorkers, RemovesFrom
<1>4. ASSUME ~raised
      PROVE  /\ Len(todo) <= Crew => todo[1] = Command("remove", WorkerNames[Crew - (Len(todo) - 1)])
             /\ Len(todo) - 1 = Crew => todo[1].do = "submit"
             /\ Crew < Len(todo) - 1 /\ Len(todo) - 1 <= 2 * Crew =>
                   todo[1] = Command("run", WorkerNames[2 * Crew + 1 - (Len(todo) - 1)])
             /\ Len(todo) - 1 > 2 * Crew => todo[1].do \in Readying
             /\ begun = IF Len(todo) > 2 * Crew THEN 0
                        ELSE IF Len(todo) > Crew THEN 2 * Crew + 1 - Len(todo) ELSE Crew
  BY <1>1, <1>2, <1>4 DEF OfWorkers, RemovesFrom
<1>5. ~raised => (Crew + 1 < Len(todo) /\ Len(todo) <= 2 * Crew + 1 =>
                    /\ todo[1] = Command("run", WorkerNames[begun + 1])
                    /\ begun = 2 * Crew + 1 - Len(todo))
  <2> SUFFICES ASSUME ~raised, Crew + 1 < Len(todo), Len(todo) <= 2 * Crew + 1
               PROVE  /\ todo[1] = Command("run", WorkerNames[begun + 1])
                      /\ begun = 2 * Crew + 1 - Len(todo)
    OBVIOUS
  <2>1. begun = 2 * Crew + 1 - Len(todo)
    BY <1>2, <1>4
  <2>2. 2 * Crew + 1 - (Len(todo) - 1) = begun + 1
    BY <1>2, <2>1
  <2>3. todo[1] = Command("run", WorkerNames[2 * Crew + 1 - (Len(todo) - 1)])
    BY <1>2, <1>4
  <2> QED BY <2>1, <2>2, <2>3
<1>6. ~raised /\ Len(todo) = Crew + 1 => todo[1].do = "submit" /\ begun = Crew
  BY <1>2, <1>4
<1>7. ~raised /\ Len(todo) <= Crew => begun = Crew
  BY <1>2, <1>4
<1>8. ~raised /\ 2 * Crew + 1 < Len(todo) => todo[1].do \in Readying /\ begun = 0
  BY <1>2, <1>4
<1> QED BY <1>3, <1>4, <1>5, <1>6, <1>7, <1>8

\* Probes are made by the drills that start no worker.
LEMMA AtProbing ==
    ASSUME DrillInv, todo # <<>>, todo[1].do \in Probing
    PROVE  ~StartsWorkers /\ begun = 0 /\ containers = {} /\ submitter = "none"
<1>1. SUFFICES ASSUME StartsWorkers PROVE FALSE
  BY DEF DrillInv, InOrder
<1>2. todo[1].do \notin {"start", "setup", "run", "submit", "remove"}
  BY DEF Probing
<1>3. Len(todo) \in Nat \ {0} /\ Crew \in Nat \ {0}
  BY HeadIs
<1>4. ~raised /\ ~(Len(todo) <= Crew)
  BY <1>1, <1>2, WorkerCommand DEF Command
<1>5. Len(todo) # Crew + 1
  BY <1>1, <1>2, <1>4, WorkerCommand
<1>6. ~(Crew + 1 < Len(todo) /\ Len(todo) <= 2 * Crew + 1)
  BY <1>1, <1>2, <1>4, WorkerCommand DEF Command
<1>7. todo[1].do \in Readying
  BY <1>1, <1>3, <1>4, <1>5, <1>6, WorkerCommand
<1> QED BY <1>2, <1>7 DEF Readying

\* Services are readied before any worker is started.
LEMMA AtReadying ==
    ASSUME DrillInv, todo # <<>>, todo[1].do \in Readying
    PROVE  begun = 0 /\ (StartsWorkers => ~raised /\ 2 * Crew + 1 < Len(todo))
<1>1. CASE StartsWorkers
  <2>1. todo[1].do \notin {"run", "submit", "remove"}
    BY DEF Readying
  <2>2. Len(todo) \in Nat \ {0} /\ Crew \in Nat \ {0}
    BY HeadIs
  <2>3. ~raised /\ ~(Len(todo) <= Crew)
    BY <1>1, <2>1, WorkerCommand DEF Command
  <2>4. Len(todo) # Crew + 1
    BY <1>1, <2>1, <2>3, WorkerCommand
  <2>5. ~(Crew + 1 < Len(todo) /\ Len(todo) <= 2 * Crew + 1)
    BY <1>1, <2>1, <2>3, WorkerCommand DEF Command
  <2> QED BY <1>1, <2>2, <2>3, <2>4, <2>5, WorkerCommand
<1>2. CASE ~StartsWorkers
  BY <1>2 DEF DrillInv, InOrder
<1> QED BY <1>1, <1>2

\* Where a command about workers stands in its list.
LEMMA AtWorkers ==
    ASSUME DrillInv, todo # <<>>, todo[1].do \in {"run", "submit", "remove"}
    PROVE  /\ StartsWorkers
           /\ todo[1].do = "run" =>
                 /\ ~raised /\ Crew + 1 < Len(todo) /\ begun < Crew
                 /\ todo[1].on = WorkerNames[begun + 1]
           /\ todo[1].do = "submit" => ~raised /\ Len(todo) = Crew + 1 /\ begun = Crew
           /\ todo[1].do = "remove" =>
                 LET b == IF raised THEN begun ELSE Crew
                 IN  /\ Len(todo) <= b /\ begun = b
                     /\ todo[1].on = WorkerNames[b - (Len(todo) - 1)]
<1>1. Len(todo) \in Nat \ {0} /\ Crew \in Nat \ {0} /\ begun \in 0 .. Crew
  BY HeadIs
<1>2. StartsWorkers
  BY <1>1 DEF DrillInv, InOrder, OfProbing, Readying, Probing
<1>3. /\ raised => todo[1].do = "remove"
      /\ ~raised /\ Len(todo) <= Crew => todo[1].do = "remove"
      /\ ~raised /\ Len(todo) = Crew + 1 => todo[1].do = "submit"
      /\ ~raised /\ Crew + 1 < Len(todo) /\ Len(todo) <= 2 * Crew + 1 => todo[1].do = "run"
      /\ ~raised /\ 2 * Crew + 1 < Len(todo) => todo[1].do \in Readying
  BY <1>2, WorkerCommand DEF Command
<1>4. todo[1].do \notin Readying
  BY DEF Readying
<1>5. ASSUME todo[1].do = "run"
      PROVE  /\ ~raised /\ Crew + 1 < Len(todo) /\ begun < Crew
             /\ todo[1].on = WorkerNames[begun + 1]
  <2>1. ~raised /\ Crew + 1 < Len(todo) /\ Len(todo) <= 2 * Crew + 1
    BY <1>1, <1>3, <1>4, <1>5
  <2>2. begun = 2 * Crew + 1 - Len(todo) /\ todo[1] = Command("run", WorkerNames[begun + 1])
    BY <1>2, <2>1, WorkerCommand
  <2>3. begun < Crew
    BY ONLY <1>1, <2>1, <2>2
  <2>4. todo[1].on = WorkerNames[begun + 1]
    BY <2>2 DEF Command
  <2> QED BY <2>1, <2>3, <2>4
<1>6. ASSUME todo[1].do = "submit"
      PROVE  ~raised /\ Len(todo) = Crew + 1 /\ begun = Crew
  <2>1. ~raised /\ Len(todo) = Crew + 1
    BY <1>1, <1>3, <1>4, <1>6
  <2> QED BY <1>2, <2>1, WorkerCommand
<1>7. ASSUME todo[1].do = "remove"
      PROVE  LET b == IF raised THEN begun ELSE Crew
             IN  /\ Len(todo) <= b /\ begun = b
                 /\ todo[1].on = WorkerNames[b - (Len(todo) - 1)]
  <2>1. raised \/ Len(todo) <= Crew
    BY <1>1, <1>3, <1>4, <1>7
  <2>2. CASE raised
    <3>1. Len(todo) <= begun
          /\ todo[1] = Command("remove", WorkerNames[begun - (Len(todo) - 1)])
      BY <1>2, <2>2, WorkerCommand
    <3> QED BY <2>2, <3>1 DEF Command
  <2>3. CASE ~raised
    <3>1. todo[1] = Command("remove", WorkerNames[Crew - (Len(todo) - 1)]) /\ begun = Crew
      BY <1>2, <2>1, <2>3, WorkerCommand
    <3> QED BY <2>1, <2>3, <3>1 DEF Command
  <2> QED BY <2>2, <2>3
<1> QED BY <1>2, <1>5, <1>6, <1>7

\* The list after a command that ended as it should.
LEMMA Advances ==
    ASSUME DrillInv, todo # <<>>, todo' = Tail(todo), raised' = raised, script' = script,
           begun' = IF todo[1].do = "run" THEN begun + 1 ELSE begun,
           ~StartsWorkers => containers' = {} /\ submitter' = "none"
    PROVE  InOrder' /\ todo' \in Seq(Commands) /\ begun' \in 0 .. Crew
<1> USE DEF DrillInv
<1>1. /\ todo \in Seq(Commands) /\ Len(todo) \in Nat \ {0} /\ begun \in 0 .. Crew /\ Crew \in Nat \ {0}
      /\ todo' \in Seq(Commands) /\ Len(todo') = Len(todo) - 1
      /\ \A j \in 1 .. Len(todo) - 1 : todo'[j] = todo[j + 1] /\ j + 1 \in 1 .. Len(todo)
  BY HeadIs, TailIs
<1>2. Follows(todo)'
  <2>1. Follows(Tail(todo))
    BY <1>1, FollowsTail DEF InOrder
  <2> QED BY <2>1 DEF Follows
<1>3. begun' \in 0 .. Crew
  <2>1. CASE todo[1].do = "run"
    <3>1. begun < Crew
      BY <2>1, AtWorkers
    <3> QED BY <1>1, <2>1, <3>1
  <2>2. CASE todo[1].do # "run"
    BY <1>1, <2>2
  <2> QED BY <2>1, <2>2
<1>4. CASE ~StartsWorkers
  <2>1. OfProbing'
    BY <1>1, <1>4 DEF InOrder, OfProbing
  <2>2. todo[1].do # "run"
    BY <1>4, AtWorkers
  <2> QED BY <1>1, <1>2, <1>3, <1>4, <2>1, <2>2 DEF InOrder, StartsWorkers
<1>5. CASE StartsWorkers
  <2>1. \A j \in 1 .. Len(todo') : /\ j + 1 \in 1 .. Len(todo) /\ todo'[j] = todo[j + 1]
                                   /\ Len(todo') - j = Len(todo) - (j + 1)
    BY <1>1
  <2>2. OfWorkers
    BY <1>5 DEF InOrder
  <2>3. CASE raised
    <3>1. todo[1].do = "remove" /\ Len(todo) <= begun
      BY <1>5, <2>3, WorkerCommand DEF Command
    <3>2. RemovesFrom(begun) /\ begun' = begun
      BY <2>2, <2>3, <3>1 DEF OfWorkers
    <3>3. ASSUME NEW j \in 1 .. Len(todo'), Len(todo') - j < begun
          PROVE  todo'[j] = Command("remove", WorkerNames[begun - (Len(todo') - j)])
      BY <2>1, <3>2, <3>3 DEF RemovesFrom
    <3>4. RemovesFrom(begun)'
      BY <3>2, <3>3 DEF RemovesFrom
    <3> QED BY <1>1, <2>3, <3>1, <3>2, <3>4, <1>2, <1>3, <1>5 DEF OfWorkers, InOrder, StartsWorkers
  <2>4. CASE ~raised
    <3>1. begun' = IF Len(todo') > 2 * Crew THEN 0
                   ELSE IF Len(todo') > Crew THEN 2 * Crew + 1 - Len(todo') ELSE Crew
      <4>1. todo[1].do \in Readying => todo[1].do # "run"
        BY DEF Readying
      <4>2. CASE 2 * Crew + 1 < Len(todo)
        <5>1. begun = 0 /\ begun' = 0
          BY <1>5, <2>4, <4>1, <4>2, WorkerCommand
        <5>2. Len(todo') > 2 * Crew
          BY <1>1, <4>2
        <5> QED BY <5>1, <5>2
      <4>3. CASE Crew + 1 < Len(todo) /\ Len(todo) <= 2 * Crew + 1
        <5>1. begun = 2 * Crew + 1 - Len(todo) /\ todo[1].do = "run"
          BY <1>5, <2>4, <4>3, WorkerCommand DEF Command
        <5>2. begun' = begun + 1
          BY <5>1
        <5>3. /\ ~(Len(todo') > 2 * Crew) /\ Len(todo') > Crew
              /\ begun' = 2 * Crew + 1 - Len(todo')
          BY <1>1, <4>3, <5>1, <5>2
        <5> QED BY <5>3
      <4>4. CASE Len(todo) <= Crew + 1
        <5>1. CASE Len(todo) = Crew + 1
          <6>1. begun = Crew /\ todo[1].do = "submit"
            BY <1>5, <2>4, <5>1, WorkerCommand
          <6>2. begun' = Crew /\ ~(Len(todo') > Crew) /\ ~(Len(todo') > 2 * Crew)
            BY <1>1, <5>1, <6>1
          <6> QED BY <6>2
        <5>2. CASE Len(todo) <= Crew
          <6>1. begun = Crew /\ todo[1].do = "remove"
            BY <1>5, <2>4, <5>2, WorkerCommand DEF Command
          <6>2. begun' = Crew /\ ~(Len(todo') > Crew) /\ ~(Len(todo') > 2 * Crew)
            BY <1>1, <5>2, <6>1
          <6> QED BY <6>2
        <5>3. Len(todo) = Crew + 1 \/ Len(todo) <= Crew
          BY ONLY <1>1, <4>4
        <5> QED BY <5>1, <5>2, <5>3
      <4> QED BY <1>1, <4>2, <4>3, <4>4
    <3>2. RemovesFrom(Crew)'
      <4>1. RemovesFrom(Crew)
        BY <2>2, <2>4 DEF OfWorkers
      <4>2. ASSUME NEW j \in 1 .. Len(todo'), Len(todo') - j < Crew
            PROVE  todo'[j] = Command("remove", WorkerNames[Crew - (Len(todo') - j)])
        BY <2>1, <4>1, <4>2 DEF RemovesFrom
      <4> QED BY <4>2 DEF RemovesFrom, Crew
    <3>3. ASSUME NEW j \in 1 .. Len(todo')
          PROVE  LET after == Len(todo') - j
                 IN  /\ after = Crew => todo'[j].do = "submit"
                     /\ Crew < after /\ after <= 2 * Crew =>
                           todo'[j] = Command("run", WorkerNames[2 * Crew + 1 - after])
                     /\ after > 2 * Crew => todo'[j].do \in Readying
      BY <2>1, <2>2, <2>4 DEF OfWorkers
    <3> QED BY <2>4, <3>1, <3>2, <3>3, <1>2, <1>3, <1>1, <1>5 DEF OfWorkers, InOrder, StartsWorkers, Crew
  <2> QED BY <2>3, <2>4
<1> QED BY <1>1, <1>3, <1>4, <1>5
\* The list after a command that ended with an exception.
LEMMA Aborts ==
    ASSUME DrillInv, todo # <<>>, raised' = TRUE, script' = script, begun' = begun,
           ~StartsWorkers => containers' = {} /\ submitter' = "none",
           \/ todo' = <<>>
           \/ StartsWorkers /\ todo' = Removal(begun)
           \/ ~StartsWorkers /\ \E s \in Services : todo' = <<Command("restart", s)>>
    PROVE  InOrder' /\ todo' \in Seq(Commands) /\ begun' \in 0 .. Crew
<1> USE DEF DrillInv
<1>1. begun \in 0 .. Crew /\ Crew \in Nat \ {0}
  BY HeadIs
<1>2. ~StartsWorkers => begun = 0
  BY DEF InOrder
<1>3. CASE todo' = <<>>
  <2>1. Follows(todo)' /\ OfProbing' /\ RemovesFrom(begun)' /\ Len(todo') = 0
        /\ todo' \in Seq(Commands)
    BY <1>3 DEF Follows, OfProbing, RemovesFrom
  <2> QED BY <1>1, <1>2, <2>1 DEF InOrder, OfWorkers, StartsWorkers
<1>4. CASE StartsWorkers /\ todo' = Removal(begun)
  <2>1. /\ todo' \in Seq(Commands) /\ Len(todo') = begun
        /\ \A i \in 1 .. begun : todo'[i] = Command("remove", WorkerNames[i])
        /\ Follows(todo')
    BY <1>1, <1>4, RemovalIs
  <2>2. ASSUME NEW j \in 1 .. Len(todo')
        PROVE  todo'[j] = Command("remove", WorkerNames[begun' - (Len(todo') - j)])
    <3>1. begun' - (Len(todo') - j) = j /\ j \in 1 .. begun
      BY <1>1, <2>1
    <3> QED BY <2>1, <3>1
  <2>3. RemovesFrom(begun)'
    BY <2>2 DEF RemovesFrom
  <2>4. Follows(todo)'
    BY <2>1 DEF Follows
  <2> QED BY <1>1, <1>4, <2>1, <2>3, <2>4 DEF InOrder, OfWorkers, StartsWorkers
<1>5. CASE ~StartsWorkers /\ \E s \in Services : todo' = <<Command("restart", s)>>
  <2>1. PICK s \in Services : todo' = <<Command("restart", s)>>
    BY <1>5
  <2>2. Command("restart", s) \in Commands
    BY DEF Command, Commands
  <2>3. todo' \in Seq(Commands) /\ Len(todo') = 1 /\ todo'[1] = Command("restart", s)
    BY <2>1, <2>2
  <2>4. Follows(todo)'
    BY <2>3 DEF Follows, Command
  <2>5. OfProbing'
    BY <2>3 DEF OfProbing, Command, Probing
  <2> QED BY <1>1, <1>2, <1>5, <2>3, <2>4, <2>5 DEF InOrder, StartsWorkers
<1> QED BY <1>3, <1>4, <1>5

\* The command after the one that is done.
LEMMA NextHead ==
    ASSUME DrillInv, todo # <<>>, todo' = Tail(todo)
    PROVE  /\ todo[1].do \in {"stop", "outage"} => todo' # <<>>
           /\ todo[1].do = "stop" => todo'[1] = Command("outage", todo[1].on)
           /\ todo[1].do = "outage" => todo'[1] = Command("restart", todo[1].on)
           /\ todo[1].do \in {"stop", "outage", "restart"} => todo[1].on \in Services
           /\ todo[1].do = "start" => todo[1].on = "all"
           /\ todo' # <<>> => todo'[1] \in Commands /\ todo'[1].do # "start"
           /\ todo' # <<>> /\ todo[1].do # "stop" => todo'[1].do # "outage"
<1>1. /\ Len(todo') = Len(todo) - 1 /\ Len(todo) \in Nat \ {0} /\ todo' \in Seq(Commands)
      /\ \A j \in 1 .. Len(todo) - 1 : todo'[j] = todo[j + 1]
  BY HeadIs, TailIs
<1>2. Follows(todo)
  BY DEF DrillInv, InOrder
<1>3. /\ todo[1].do \in {"stop", "outage", "restart"} => todo[1].on \in Services
      /\ todo[1].do = "stop" => 1 < Len(todo) /\ todo[1 + 1] = Command("outage", todo[1].on)
      /\ todo[1].do = "outage" => 1 < Len(todo) /\ todo[1 + 1] = Command("restart", todo[1].on)
      /\ todo[1].do = "start" => todo[1].on = "all"
  <2>1. 1 \in 1 .. Len(todo)
    BY <1>1
  <2> QED BY <1>2, <2>1 DEF Follows
<1>4. todo' # <<>> <=> 1 < Len(todo)
  BY <1>1
<1>5. ASSUME todo' # <<>>
      PROVE  /\ todo'[1] \in Commands /\ todo'[1] = todo[2] /\ todo'[1].do # "start"
             /\ todo[2].do = "outage" => todo[2 - 1] = Command("stop", todo[2].on)
  <2>1. 2 \in 1 .. Len(todo) /\ 1 \in 1 .. Len(todo) - 1 /\ 1 \in 1 .. Len(todo')
    BY <1>1, <1>4, <1>5
  <2>2. todo'[1] = todo[2] /\ todo'[1] \in Commands
    BY <1>1, <2>1
  <2>3. todo[2].do = "outage" => todo[2 - 1] = Command("stop", todo[2].on)
    BY <1>2, <2>1 DEF Follows
  <2>4. todo[2].do # "start"
    BY <1>2, <2>1 DEF Follows
  <2> QED BY <2>2, <2>3, <2>4
<1>6. todo' # <<>> /\ todo[1].do # "stop" => todo'[1].do # "outage"
  BY <1>5 DEF Command
<1> QED BY <1>1, <1>3, <1>4, <1>5, <1>6

\* The rounds after a command that leaves the submitter and the jobs alone.
LEMMA RoundsStay ==
    ASSUME DrillInv, UNCHANGED <<drillArgs, jobs, submission>>,
           StartsWorkers /\ ~raised' /\ Len(todo') <= Crew => submitter = "done"
    PROVE  RoundsDone'
BY DEF DrillInv, RoundsDone, drillArgs, jobs, submission, StartsWorkers, OfRound, Crew

\* The types of the jobs do not depend on the containers.
LEMMA JobTypesStay ==
    ASSUME DrillTypes, UNCHANGED <<drillArgs, jobs, submission>>, todo' \in Seq(Commands),
           begun' \in 0 .. Crew, raised' \in BOOLEAN, clean' \in BOOLEAN,
           up' \subseteq Services, seen' \subseteq Services, containers' \subseteq Workers
    PROVE  DrillTypes'
BY DEF DrillTypes, drillArgs, jobs, submission, Crew, Commands, Services, Workers, Numbers
\* What trouble explains, more trouble explains.
LEMMA TroubleGrows ==
    ASSUME DrillInv, trouble \subseteq trouble', UNCHANGED <<script, rounds>>,
           raised' => raised \/ trouble' # {} \/ (StartsWorkers /\ rounds > RoundsKept),
           ~clean' => ~clean \/ trouble' # {},
           submitter' = "failed" => submitter = "failed" \/ trouble' # {},
           \A n \in Numbers : job'[n] = "failed" => job[n] = "failed" \/ trouble' # {},
           raised => raised', ~clean => ~clean',
           \A x \in trouble' \ trouble : x[1] \in {"start", "stop", "restart", "run"} => raised',
           \A x \in trouble' \ trouble : x[1] = "remove" => raised' \/ ~clean'
    PROVE  TroubleTells'
<1>1. TroubleTells /\ (trouble # {} => trouble' # {})
  BY DEF DrillInv
<1>2. raised' => trouble' # {} \/ (StartsWorkers /\ rounds > RoundsKept)
  BY <1>1 DEF TroubleTells
<1>3. /\ ~clean' => trouble' # {}
      /\ submitter' = "failed" => trouble' # {}
      /\ \A n \in Numbers : job'[n] = "failed" => trouble' # {}
  BY <1>1 DEF TroubleTells
<1>4. \A x \in trouble' : x[1] \in {"start", "stop", "restart", "run"} => raised'
  BY <1>1 DEF TroubleTells
<1>5. \A x \in trouble' : x[1] = "remove" => raised' \/ ~clean'
  BY <1>1 DEF TroubleTells
<1> QED BY <1>2, <1>3, <1>4, <1>5 DEF TroubleTells, StartsWorkers, Numbers

\* The trouble of a command that does not end with 0 and raises something.
LEMMA TroubleOfCommand ==
    ASSUME DrillInv, NEW x, trouble' = trouble \/ (raised' = TRUE /\ trouble' = trouble \cup {x}),
           UNCHANGED <<drillArgs, clean, jobs>>, submitter' = "failed" => submitter = "failed",
           raised' \in BOOLEAN, raised => raised',
           raised' => raised \/ trouble' # trouble \/ trouble' # {}
                        \/ (StartsWorkers /\ rounds > RoundsKept)
    PROVE  TroubleTells'
<1>1. trouble \subseteq trouble' /\ (trouble' # trouble => trouble' # {})
  OBVIOUS
<1>2. \A y \in trouble' \ trouble : raised'
  OBVIOUS
<1>3. UNCHANGED <<script, rounds>> /\ clean' = clean /\ job' = job
  BY DEF drillArgs, jobs
<1> QED BY <1>1, <1>2, <1>3, TroubleGrows

\* A worker whose run did not end with 0 is told of by an exception.
LEMMA RunTells ==
    ASSUME DrillInv
    PROVE  \A y : <<"run", y>> \in trouble => raised
<1>1. \A x \in trouble : x[1] \in {"start", "stop", "restart", "run"} => raised
  BY DEF DrillInv, TroubleTells
<1> QED BY <1>1

\* Outages that were seen stay seen while the next commands are done.
LEMMA OutagesStay ==
    ASSUME DrillInv, todo # <<>>, UNCHANGED <<drillArgs, seen>>,
           raised' \/ (raised' = raised /\ todo' = Tail(todo) /\ todo[1].do # "outage"
                         /\ todo[1].do # "stop"),
           raised' => todo' = <<>> \/ todo'[1].do # "outage"
    PROVE  OutagesSeen'
<1>1. OutagesSeen /\ probes' = probes /\ seen' = seen
  BY DEF DrillInv, drillArgs
<1>2. Outages(todo') = Outages(todo)'
  BY DEF Outages
<1>3. CASE raised'
  BY <1>1, <1>3 DEF OutagesSeen
<1>4. CASE ~raised'
  <2>1. Outages(todo) = Outages(todo')
    BY <1>4, OutagesTail, HeadIs
  <2>2. todo' # <<>> => todo'[1].do # "outage"
    BY <1>4, NextHead
  <2>3. {probes'[i] : i \in DOMAIN probes'} = seen' \cup Outages(todo')
    BY <1>1, <1>4, <2>1 DEF OutagesSeen
  <2> QED BY <1>2, <2>2, <2>3 DEF OutagesSeen
<1> QED BY <1>3, <1>4

-----------------------------------------------------------------------------
(* The commands of a drill preserve the invariant *)

\* The compose command of the setup, done or failed.
LEMMA SetupStep ==
    ASSUME DrillInv, Setup
    PROVE  DrillInv'
<1> USE DEF DrillInv, Setup
<1>1. PICK outcome \in Outcomes :
          /\ IF outcome = "ok" THEN CommandDone ELSE Finally(<<>>)
          /\ Noted(outcome)
          /\ IF At("setup") THEN UNCHANGED up
             ELSE IF outcome = "ok" THEN up' = Services
             ELSE \E some \in SUBSET Services : up' = up \cup some
  OBVIOUS
<1>2. todo # <<>> /\ Head(todo) = todo[1] /\ todo[1].do \in Readying
  BY HeadIs DEF At, Readying
<1>3. UNCHANGED <<drillArgs, begun, clean, containers, jobs, submission, seen>>
  OBVIOUS
<1>4. begun = 0 /\ (StartsWorkers => ~raised /\ 2 * Crew + 1 < Len(todo))
      /\ Len(todo) \in Nat \ {0} /\ Crew \in Nat \ {0}
  BY <1>2, AtReadying, HeadIs
<1>5. ~StartsWorkers => containers' = {} /\ submitter' = "none"
  BY <1>3 DEF InOrder, submission
<1>6. InOrder' /\ todo' \in Seq(Commands) /\ begun' \in 0 .. Crew
  <2>1. script' = script /\ begun' = begun /\ todo[1].do # "run"
    BY <1>2, <1>3 DEF drillArgs, Readying
  <2>2. CASE outcome = "ok"
    BY <1>1, <1>2, <1>5, <2>1, <2>2, Advances DEF CommandDone
  <2>3. CASE outcome # "ok"
    BY <1>1, <1>2, <1>5, <2>1, <2>3, Aborts DEF Finally
  <2> QED BY <2>2, <2>3
<1>7. /\ trouble' = IF outcome = "ok" THEN trouble ELSE trouble \cup {<<todo[1].do, todo[1].on>>}
      /\ trouble \subseteq trouble'
      /\ outcome # "ok" => raised' = TRUE /\ todo' = <<>>
      /\ outcome = "ok" => raised' = raised /\ todo' = Tail(todo)
  BY <1>1, <1>2 DEF Noted, On, Finally, CommandDone
<1>8. DrillTypes'
  <2>1. up' \subseteq Services /\ raised' \in BOOLEAN
    BY <1>1, <1>7 DEF DrillTypes
  <2> QED BY <1>3, <1>6, <2>1, JobTypesStay DEF DrillTypes
<1>9. ServicesReturn'
  <2>1. up \subseteq up'
    BY <1>1, <1>2 DEF At, Readying, DrillTypes
  <2>2. todo[1].do = "start" /\ outcome = "ok" => up' = Services
    BY <1>1, <1>2 DEF At
  <2>3. todo[1].do = "start" /\ outcome # "ok" => <<"start", "all">> \in trouble'
    <3> SUFFICES ASSUME todo[1].do = "start", outcome # "ok" PROVE <<"start", "all">> \in trouble'
      OBVIOUS
    <3>1. 1 \in 1 .. Len(todo)
      BY <1>4
    <3>2. todo[1].on = "all"
      BY <3>1 DEF InOrder, Follows
    <3> QED BY <1>7, <3>2
  <2>4. ASSUME NEW s \in Services, s \notin up', ~ServiceBlamed(s)' PROVE FALSE
    <3>1. ~ServiceBlamed(s) /\ s \notin up
      BY <1>7, <2>1, <2>4 DEF ServiceBlamed
    <3>2. todo[1].do = "start" \/ todo[1].do \in {"outage", "restart"}
      BY <3>1 DEF ServicesReturn, Command
    <3>3. todo[1].do = "start"
      BY <1>2, <3>2 DEF Readying
    <3> QED BY <2>2, <2>3, <2>4, <3>3 DEF ServiceBlamed
  <2> QED BY <2>4 DEF ServicesReturn, ServiceBlamed
<1>10. ContainersGo'
  <2>1. ASSUME NEW i \in 1 .. Crew, WorkerNames[i] \in containers
        PROVE  <<"run", WorkerNames[i]>> \in trouble /\ StartsWorkers
    <3>1. i <= begun \/ <<"run", WorkerNames[i]>> \in trouble
      BY <2>1 DEF ContainersGo
    <3>2. StartsWorkers
      BY <2>1 DEF InOrder
    <3> QED BY <1>4, <3>1, <3>2
  <2>2. containers' = containers
    BY <1>3
  <2>3. \A y : <<"run", y>> \in trouble => raised
    BY RunTells
  <2>4. \A i \in 1 .. Crew : WorkerNames[i] \notin containers'
    BY <1>4, <2>1, <2>2, <2>3
  <2> QED BY <2>4 DEF ContainersGo, Crew
<1>11. TroubleTells'
  <2>1. submitter' = submitter /\ clean' = clean /\ UNCHANGED <<drillArgs, clean, jobs>>
    BY <1>3 DEF submission
  <2>2. /\ trouble' = trouble \/ (raised' = TRUE /\ trouble' = trouble \cup {<<todo[1].do, todo[1].on>>})
    BY <1>7
  <2>3. raised' \in BOOLEAN
    BY <1>8 DEF DrillTypes
  <2>4. (raised => raised') /\ (raised' => raised \/ trouble' # {})
    <3>1. CASE outcome = "ok"
      BY <1>7, <3>1
    <3>2. CASE outcome # "ok"
      BY <1>7, <3>2
    <3> QED BY <3>1, <3>2
  <2> QED BY <2>1, <2>2, <2>3, <2>4, TroubleOfCommand
<1>12. OutagesSeen'
  <2>1. todo[1].do # "outage" /\ todo[1].do # "stop"
    BY <1>2 DEF Readying
  <2>2. raised' => todo' = <<>> \/ todo'[1].do # "outage"
    BY <1>2, <1>7, <2>1, NextHead
  <2> QED BY <1>2, <1>3, <1>7, <2>1, <2>2, OutagesStay
<1>13. RoundsDone'
  <2>1. StartsWorkers /\ ~raised' /\ Len(todo') <= Crew => submitter = "done"
    <3>1. ~raised' => Len(todo') = Len(todo) - 1
      BY <1>2, <1>7, HeadIs, TailIs
    <3> QED BY <1>4, <3>1
  <2> QED BY <1>3, <2>1, RoundsStay
<1> QED BY <1>6, <1>8, <1>9, <1>10, <1>11, <1>12, <1>13

\* What the commands on the services, and the checks, have in common.
LEMMA ProbingStep ==
    ASSUME DrillInv, todo # <<>>, todo[1].do \in Probing, NEW ok \in BOOLEAN,
           UNCHANGED <<drillArgs, begun, clean, containers, jobs, submission>>,
           up' \subseteq Services, seen' \subseteq Services,
           trouble' = IF ok THEN trouble ELSE trouble \cup {<<todo[1].do, todo[1].on>>},
           ok => todo' = Tail(todo) /\ raised' = raised,
           ~ok => /\ raised' = TRUE
                  /\ todo' = IF todo[1].do = "outage" THEN <<Command("restart", todo[1].on)>>
                             ELSE <<>>
    PROVE  InOrder' /\ DrillTypes' /\ ContainersGo' /\ TroubleTells' /\ RoundsDone'
<1> USE DEF DrillInv
<1>1. ~StartsWorkers /\ begun = 0 /\ containers = {} /\ submitter = "none"
  BY AtProbing
<1>2. script' = script /\ begun' = begun /\ todo[1].do # "run" /\ containers' = {} /\ submitter' = "none"
  BY <1>1 DEF drillArgs, Probing, submission
<1>3. InOrder' /\ todo' \in Seq(Commands) /\ begun' \in 0 .. Crew
  <2>1. CASE ok
    BY <1>1, <1>2, <2>1, Advances
  <2>2. CASE ~ok
    <3>1. todo[1].do = "outage" => todo[1].on \in Services
      <4>1. 1 \in 1 .. Len(todo)
        BY HeadIs
      <4> QED BY <4>1 DEF InOrder, Follows
    <3>2. todo' = <<>> \/ \E s \in Services : todo' = <<Command("restart", s)>>
      BY <2>2, <3>1
    <3> QED BY <1>1, <1>2, <2>2, <3>2, Aborts
  <2> QED BY <2>1, <2>2
<1>4. raised' \in BOOLEAN
  BY DEF DrillTypes
<1>5. DrillTypes'
  BY <1>3, <1>4, JobTypesStay DEF DrillTypes
<1>6. ContainersGo'
  BY <1>2 DEF ContainersGo
<1>7. TroubleTells'
  <2>1. trouble' = trouble \/ (raised' = TRUE /\ trouble' = trouble \cup {<<todo[1].do, todo[1].on>>})
    BY <1>2
  <2>2. (raised => raised') /\ (raised' => raised \/ trouble' # {})
    <3>1. CASE ok
      BY <3>1
    <3>2. CASE ~ok
      BY <3>2
    <3> QED BY <3>1, <3>2
  <2> QED BY <1>1, <1>2, <1>4, <2>1, <2>2, TroubleOfCommand
<1>8. RoundsDone'
  BY <1>1, RoundsStay
<1> QED BY <1>3, <1>5, <1>6, <1>7, <1>8

\* What a command says with how it ends.
LEMMA HeadOn ==
    ASSUME DrillInv, NEW do, At(do)
    PROVE  todo # <<>> /\ Head(todo) = todo[1] /\ todo[1].do = do /\ On = todo[1].on
BY HeadIs DEF At, On

\* A check that is tried again changes nothing else.
LEMMA TriedAgain ==
    ASSUME DrillInv, UNCHANGED <<drillArgs, todo, raised, begun, clean, up, containers, jobs,
                                 submission, history>>
    PROVE  DrillInv'
<1> USE DEF DrillInv, drillArgs, jobs, submission, history
<1>1. DrillTypes' /\ TroubleTells' /\ RoundsDone'
  BY DEF DrillTypes, TroubleTells, RoundsDone, StartsWorkers, Commands, Services, Workers, Numbers,
         Crew, OfRound
<1>2. InOrder'
  BY DEF InOrder, Follows, OfWorkers, OfProbing, RemovesFrom, StartsWorkers
<1>3. ServicesReturn' /\ ContainersGo' /\ OutagesSeen'
  BY DEF ServicesReturn, ContainersGo, OutagesSeen, ServiceBlamed, ContainerBlamed, RemovalToCome,
         Outages
<1> QED BY <1>1, <1>2, <1>3

\* A check is passed, tried again or given up.
LEMMA CheckStep ==
    ASSUME DrillInv, Check
    PROVE  DrillInv'
<1> USE DEF Check
<1>1. PICK outcome \in Outcomes :
          /\ outcome = "ok" => up = Services
          /\ IF outcome = "failed" /\ On # "load" /\ tries + 1 < RecoverRetries
             THEN tries' = tries + 1 /\ UNCHANGED <<todo, raised, trouble>>
             ELSE /\ tries' = 0 /\ Noted(outcome)
                  /\ IF outcome = "ok" THEN CommandDone ELSE Finally(<<>>)
  OBVIOUS
<1>2. UNCHANGED <<drillArgs, begun, clean, up, containers, jobs, submission, seen>>
  OBVIOUS
<1>3. CASE UNCHANGED <<todo, raised, trouble>>
  BY <1>2, <1>3, TriedAgain DEF history
<1>4. CASE Noted(outcome) /\ IF outcome = "ok" THEN CommandDone ELSE Finally(<<>>)
  <2>1. todo # <<>> /\ Head(todo) = todo[1] /\ todo[1].do = "check" /\ On = todo[1].on
    BY HeadOn
  <2>2. PICK ok \in BOOLEAN : ok = (outcome = "ok")
    OBVIOUS
  <2>3. /\ trouble' = IF ok THEN trouble ELSE trouble \cup {<<todo[1].do, todo[1].on>>}
        /\ ok => todo' = Tail(todo) /\ raised' = raised
        /\ ~ok => raised' = TRUE /\ todo' = <<>>
    BY <1>4, <2>1, <2>2 DEF Noted, CommandDone, Finally
  <2>4. todo[1].do \in Probing /\ todo[1].do \notin {"start", "outage", "restart", "stop"}
    BY <2>1 DEF Probing
  <2>5. up' \subseteq Services /\ seen' \subseteq Services
    BY <1>2 DEF DrillInv, DrillTypes
  <2>6. InOrder' /\ DrillTypes' /\ ContainersGo' /\ TroubleTells' /\ RoundsDone'
    BY <1>2, <2>1, <2>3, <2>4, <2>5, ProbingStep
  <2>7. ServicesReturn'
    <3>1. \A s \in Services : s \in up \/ ServiceBlamed(s)
      BY <2>4 DEF DrillInv, ServicesReturn, Command
    <3>2. \A s \in Services : ServiceBlamed(s) => ServiceBlamed(s)'
      BY <2>3 DEF ServiceBlamed
    <3> QED BY <1>2, <3>1, <3>2 DEF ServicesReturn, Services
  <2>8. OutagesSeen'
    <3>1. raised' => todo' = <<>> \/ todo'[1].do # "outage"
      BY <2>1, <2>3, <2>4, NextHead
    <3> QED BY <1>2, <2>1, <2>3, <2>4, <3>1, OutagesStay
  <2> QED BY <2>6, <2>7, <2>8 DEF DrillInv
<1> QED BY <1>1, <1>3, <1>4

\* A service is stopped.
LEMMA StopStep ==
    ASSUME DrillInv, Stop
    PROVE  DrillInv'
<1> USE DEF Stop
<1>1. PICK outcome \in Outcomes :
          /\ IF outcome = "ok" THEN CommandDone ELSE Finally(<<>>)
          /\ Noted(outcome)
          /\ up' \in IF outcome = "ok" THEN {up \ {On}} ELSE {up, up \ {On}}
  OBVIOUS
<1>2. UNCHANGED <<drillArgs, begun, clean, containers, jobs, submission, seen>>
  OBVIOUS
<1>3. todo # <<>> /\ Head(todo) = todo[1] /\ todo[1].do = "stop" /\ On = todo[1].on
  BY HeadOn
<1>4. PICK ok \in BOOLEAN : ok = (outcome = "ok")
  OBVIOUS
<1>5. /\ trouble' = IF ok THEN trouble ELSE trouble \cup {<<todo[1].do, todo[1].on>>}
      /\ ok => todo' = Tail(todo) /\ raised' = raised
      /\ ~ok => raised' = TRUE /\ todo' = <<>>
  BY <1>1, <1>3, <1>4 DEF Noted, CommandDone, Finally
<1>6. /\ todo[1].do \in Probing
      /\ up' \subseteq up /\ up \ {todo[1].on} \subseteq up'
      /\ ok => up' = up \ {todo[1].on}
  BY <1>1, <1>3, <1>4 DEF Probing
<1>7. up' \subseteq Services /\ seen' \subseteq Services
  BY <1>2, <1>6 DEF DrillInv, DrillTypes
<1>8. InOrder' /\ DrillTypes' /\ ContainersGo' /\ TroubleTells' /\ RoundsDone'
  BY <1>2, <1>3, <1>5, <1>6, <1>7, ProbingStep
<1>9. ok => todo' # <<>> /\ todo'[1] = Command("outage", todo[1].on)
  BY <1>3, <1>5, NextHead
<1>10. ServicesReturn'
  <2>1. \A s \in Services : s \in up \/ ServiceBlamed(s)
    BY <1>3 DEF DrillInv, ServicesReturn, Command
  <2>2. \A s \in Services : ServiceBlamed(s) => ServiceBlamed(s)'
    BY <1>5 DEF ServiceBlamed
  <2>3. ~ok => \A s \in Services : s = todo[1].on => ServiceBlamed(s)'
    BY <1>3, <1>5 DEF ServiceBlamed
  <2>4. ASSUME NEW s \in Services, s \notin up', ~ServiceBlamed(s)'
        PROVE  ok /\ s = todo[1].on
    BY <1>6, <2>1, <2>2, <2>3, <2>4
  <2>5. ok => todo' # <<>> /\ \A s \in Services : s = todo[1].on => todo'[1] = Command("outage", s)
    BY <1>9
  <2> QED BY <2>4, <2>5 DEF ServicesReturn, Services
<1>11. OutagesSeen'
  <2>1. OutagesSeen /\ probes' = probes /\ seen' = seen
    BY <1>2 DEF DrillInv, drillArgs
  <2>2. Outages(todo') = Outages(todo)'
    BY DEF Outages
  <2>3. CASE ok
    <3>1. Outages(todo) = Outages(todo') /\ raised' = raised
      BY <1>3, <1>5, <2>3, OutagesTail, HeadIs
    <3>2. todo'[1].on \notin up'
      BY <1>6, <1>9, <2>3 DEF Command
    <3> QED BY <2>1, <2>2, <3>1, <3>2 DEF OutagesSeen
  <2>4. CASE ~ok
    BY <1>5, <2>4 DEF OutagesSeen
  <2> QED BY <2>3, <2>4
<1> QED BY <1>8, <1>10, <1>11 DEF DrillInv

\* A stopped service is seen by the probes, or not.
LEMMA OutageStep ==
    ASSUME DrillInv, Outage
    PROVE  DrillInv'
<1> USE DEF Outage
<1>1. PICK outcome \in Outcomes :
          /\ IF outcome = "ok" THEN CommandDone ELSE Finally(<<Command("restart", On)>>)
          /\ Noted(outcome)
          /\ seen' = IF outcome = "ok" THEN seen \cup ({On} \ up) ELSE seen
  OBVIOUS
<1>2. UNCHANGED <<drillArgs, begun, clean, up, containers, jobs, submission>>
  OBVIOUS
<1>3. todo # <<>> /\ Head(todo) = todo[1] /\ todo[1].do = "outage" /\ On = todo[1].on
  BY HeadOn
<1>4. PICK ok \in BOOLEAN : ok = (outcome = "ok")
  OBVIOUS
<1>5. /\ trouble' = IF ok THEN trouble ELSE trouble \cup {<<todo[1].do, todo[1].on>>}
      /\ ok => todo' = Tail(todo) /\ raised' = raised
      /\ ~ok => raised' = TRUE /\ todo' = <<Command("restart", todo[1].on)>>
      /\ seen' = IF ok THEN seen \cup ({todo[1].on} \ up) ELSE seen
  BY <1>1, <1>3, <1>4 DEF Noted, CommandDone, Finally
<1>6. todo[1].on \in Services /\ todo[1].on \notin up
  BY <1>3, NextHead DEF DrillInv, OutagesSeen, InOrder, Follows
<1>7. up' \subseteq Services /\ seen' \subseteq Services /\ todo[1].do \in Probing
  BY <1>2, <1>3, <1>5, <1>6 DEF DrillInv, DrillTypes, Probing
<1>8. InOrder' /\ DrillTypes' /\ ContainersGo' /\ TroubleTells' /\ RoundsDone'
  BY <1>2, <1>3, <1>5, <1>7, ProbingStep
<1>9. todo' # <<>> /\ todo'[1] = Command("restart", todo[1].on)
  BY <1>3, <1>5, NextHead
<1>10. ServicesReturn'
  <2>1. \A s \in Services : s \in up \/ ServiceBlamed(s) \/ s = todo[1].on
    BY <1>3 DEF DrillInv, ServicesReturn, Command
  <2>2. \A s \in Services : ServiceBlamed(s) => ServiceBlamed(s)'
    BY <1>5 DEF ServiceBlamed
  <2> QED BY <1>2, <1>9, <2>1, <2>2 DEF ServicesReturn, Services
<1>11. OutagesSeen'
  <2>1. OutagesSeen /\ probes' = probes
    BY <1>2 DEF DrillInv, drillArgs
  <2>2. Outages(todo') = Outages(todo)'
    BY DEF Outages
  <2>3. todo'[1].do # "outage"
    BY <1>9 DEF Command
  <2>4. CASE ok
    <3>1. Outages(todo) = Outages(todo') \cup {todo[1].on} /\ raised' = raised
      BY <1>3, <1>5, <2>4, OutagesTail, HeadIs
    <3>2. seen' = seen \cup {todo[1].on}
      BY <1>5, <1>6, <2>4
    <3> QED BY <2>1, <2>2, <2>3, <3>1, <3>2 DEF OutagesSeen
  <2>5. CASE ~ok
    BY <1>5, <2>3, <2>5 DEF OutagesSeen
  <2> QED BY <2>4, <2>5
<1> QED BY <1>8, <1>10, <1>11 DEF DrillInv

\* A service is started again.
LEMMA RestartStep ==
    ASSUME DrillInv, Restart
    PROVE  DrillInv'
<1> USE DEF Restart
<1>1. PICK outcome \in Outcomes :
          /\ IF outcome = "ok" THEN CommandDone ELSE Finally(<<>>)
          /\ Noted(outcome)
          /\ up' \in IF outcome = "ok" THEN {up \cup {On}} ELSE {up, up \cup {On}}
  OBVIOUS
<1>2. UNCHANGED <<drillArgs, begun, clean, containers, jobs, submission, seen>>
  OBVIOUS
<1>3. todo # <<>> /\ Head(todo) = todo[1] /\ todo[1].do = "restart" /\ On = todo[1].on
  BY HeadOn
<1>4. PICK ok \in BOOLEAN : ok = (outcome = "ok")
  OBVIOUS
<1>5. /\ trouble' = IF ok THEN trouble ELSE trouble \cup {<<todo[1].do, todo[1].on>>}
      /\ ok => todo' = Tail(todo) /\ raised' = raised
      /\ ~ok => raised' = TRUE /\ todo' = <<>>
  BY <1>1, <1>3, <1>4 DEF Noted, CommandDone, Finally
<1>6. todo[1].on \in Services
  <2>1. 1 \in 1 .. Len(todo)
    BY HeadIs, <1>3
  <2> QED BY <1>3, <2>1 DEF DrillInv, InOrder, Follows
<1>7. up \subseteq up' /\ (ok => todo[1].on \in up') /\ up' \subseteq up \cup {todo[1].on}
  BY <1>1, <1>3, <1>4
<1>8. up' \subseteq Services /\ seen' \subseteq Services /\ todo[1].do \in Probing
  BY <1>2, <1>3, <1>6, <1>7 DEF DrillInv, DrillTypes, Probing
<1>9. InOrder' /\ DrillTypes' /\ ContainersGo' /\ TroubleTells' /\ RoundsDone'
  BY <1>2, <1>3, <1>5, <1>8, ProbingStep
<1>10. ServicesReturn'
  <2>1. \A s \in Services : s \in up \/ ServiceBlamed(s) \/ s = todo[1].on
    BY <1>3 DEF DrillInv, ServicesReturn, Command
  <2>2. \A s \in Services : ServiceBlamed(s) => ServiceBlamed(s)'
    BY <1>5 DEF ServiceBlamed
  <2>3. ~ok => \A s \in Services : s = todo[1].on => ServiceBlamed(s)'
    BY <1>3, <1>5 DEF ServiceBlamed
  <2>4. \A s \in Services : s \in up' \/ ServiceBlamed(s)'
    BY <1>7, <2>1, <2>2, <2>3
  <2> QED BY <2>4 DEF ServicesReturn, Services
<1>11. OutagesSeen'
  <2>1. raised' => todo' = <<>> \/ todo'[1].do # "outage"
    BY <1>3, <1>5, NextHead
  <2> QED BY <1>2, <1>3, <1>5, <2>1, OutagesStay
<1> QED BY <1>9, <1>10, <1>11 DEF DrillInv
-----------------------------------------------------------------------------
(* The workers of a drill *)

\* What the commands on the workers leave alone of the services.
LEMMA ServicesAlone ==
    ASSUME DrillInv, todo # <<>>, todo[1].do \in {"run", "submit", "remove"},
           UNCHANGED <<drillArgs, up, seen>>, trouble \subseteq trouble',
           raised' \/ (raised' = raised /\ todo' = Tail(todo)),
           raised' => todo' = Tail(todo) \/ todo' = <<>> \/ todo'[1].do # "outage"
    PROVE  ServicesReturn' /\ OutagesSeen'
<1>1. \A s \in Services : s \in up \/ ServiceBlamed(s)
  BY DEF DrillInv, ServicesReturn, Command
<1>2. \A s \in Services : ServiceBlamed(s) => ServiceBlamed(s)'
  BY DEF ServiceBlamed
<1>3. ServicesReturn'
  BY <1>1, <1>2 DEF ServicesReturn, Services
<1>4. raised' => todo' = <<>> \/ todo'[1].do # "outage"
  BY NextHead
<1>5. OutagesSeen'
  BY <1>4, OutagesStay
<1> QED BY <1>3, <1>5

\* The container of the next worker is started.
LEMMA RunWorkerStep ==
    ASSUME DrillInv, RunWorker
    PROVE  DrillInv'
<1> USE DEF RunWorker
<1>1. PICK outcome \in Outcomes :
          /\ IF outcome = "ok" THEN CommandDone /\ begun' = begun + 1
             ELSE Finally(Removal(begun)) /\ UNCHANGED begun
          /\ Noted(outcome)
          /\ containers' \in IF outcome = "ok" THEN {containers \cup {On}}
                             ELSE {containers, containers \cup {On}}
  OBVIOUS
<1>2. UNCHANGED <<drillArgs, tries, clean, up, jobs, submission, seen>>
  OBVIOUS
<1>3. todo # <<>> /\ Head(todo) = todo[1] /\ todo[1].do = "run" /\ On = todo[1].on
  BY HeadOn
<1>4. PICK ok \in BOOLEAN : ok = (outcome = "ok")
  OBVIOUS
<1>5. /\ trouble' = IF ok THEN trouble ELSE trouble \cup {<<todo[1].do, todo[1].on>>}
      /\ ok => todo' = Tail(todo) /\ raised' = raised /\ begun' = begun + 1
      /\ ~ok => raised' = TRUE /\ todo' = Removal(begun) /\ begun' = begun
      /\ containers' \subseteq containers \cup {todo[1].on}
  BY <1>1, <1>3, <1>4 DEF Noted, CommandDone, Finally
<1>6. /\ StartsWorkers /\ ~raised /\ Crew + 1 < Len(todo) /\ begun < Crew
      /\ todo[1].on = WorkerNames[begun + 1]
      /\ Len(todo) \in Nat \ {0} /\ Crew \in Nat \ {0} /\ begun \in 0 .. Crew
  BY <1>3, AtWorkers, HeadIs
<1>7. begun + 1 \in 1 .. Crew /\ todo[1].on \in Workers
  BY <1>6, DrillConstants
<1>8. InOrder' /\ todo' \in Seq(Commands) /\ begun' \in 0 .. Crew
  <2>1. script' = script
    BY <1>2 DEF drillArgs
  <2>2. CASE ok
    BY <1>3, <1>5, <1>6, <2>1, <2>2, Advances
  <2>3. CASE ~ok
    BY <1>3, <1>5, <1>6, <2>1, <2>3, Aborts
  <2> QED BY <2>2, <2>3
<1>9. DrillTypes'
  <2>1. raised' \in BOOLEAN /\ containers' \subseteq Workers
    BY <1>5, <1>7 DEF DrillInv, DrillTypes
  <2> QED BY <1>2, <1>8, <2>1, JobTypesStay DEF DrillInv, DrillTypes
<1>10. ServicesReturn' /\ OutagesSeen'
  <2>1. ~ok => todo' = <<>> \/ todo'[1].do # "outage"
    <3>1. Len(Removal(begun)) = begun
          /\ \A i \in 1 .. begun : Removal(begun)[i] = Command("remove", WorkerNames[i])
      BY <1>6, RemovalIs
    <3>2. begun # 0 => Removal(begun)[1].do = "remove"
      BY <1>6, <3>1 DEF Command
    <3>3. begun = 0 => Removal(begun) = <<>>
      BY <1>6, RemovalIs
    <3> QED BY <1>5, <3>2, <3>3
  <2>2. raised' => todo' = Tail(todo) \/ todo' = <<>> \/ todo'[1].do # "outage"
    BY <1>5, <2>1
  <2>3. trouble \subseteq trouble' /\ (raised' \/ (raised' = raised /\ todo' = Tail(todo)))
    BY <1>5
  <2> QED BY <1>2, <1>3, <2>2, <2>3, ServicesAlone
<1>11. ContainersGo'
  <2>1. ASSUME NEW i \in 1 .. Crew, WorkerNames[i] \in containers'
        PROVE  /\ i <= begun' \/ <<"run", WorkerNames[i]>> \in trouble'
               /\ ContainerBlamed(i)' \/ RemovalToCome(i)'
               /\ raised' \/ <<"remove", WorkerNames[i]>> \in trouble' \/ RemovalToCome(i)'
    <3>1. CASE i = begun + 1 /\ ~ok
      BY <1>3, <1>5, <1>6, <3>1 DEF ContainerBlamed
    <3>2. CASE i <= begun /\ ~ok
      <4>1. Len(todo') = begun /\ todo'[i] = Command("remove", WorkerNames[i]) /\ i \in 1 .. begun
        <5>1. i \in 1 .. begun /\ todo' = Removal(begun)
          BY <1>5, <1>6, <3>2
        <5>2. /\ Len(Removal(begun)) = begun
              /\ \A k \in 1 .. begun : Removal(begun)[k] = Command("remove", WorkerNames[k])
          BY <1>6, RemovalIs
        <5> QED BY <5>1, <5>2
      <4> QED BY <1>5, <3>2, <4>1 DEF RemovalToCome
    <3>3. CASE i <= begun + 1 /\ ok
      <4>1. todo' = Tail(todo) /\ i <= begun'
        BY <1>5, <3>3
      <4>2. Len(todo') = Len(todo) - 1 /\ todo' \in Seq(Commands)
        BY <1>3, <1>5, <3>3, HeadIs, TailIs
      <4>3. RemovesFrom(Crew)'
        BY <1>5, <1>6, <1>8, <3>3 DEF InOrder, OfWorkers, StartsWorkers, Crew, drillArgs
      <4>4. PICK j \in 1 .. Len(todo') : j = Len(todo') - (Crew - i)
        <5>1. Crew <= Len(todo') /\ Len(todo') \in Nat
          BY <1>6, <4>2
        <5>2. Len(todo') - (Crew - i) \in 1 .. Len(todo')
          BY <1>6, <5>1
        <5> QED BY <5>2
      <4>5. Len(todo') - j < Crew /\ Crew - (Len(todo') - j) = i
        BY <1>6, <4>2, <4>4
      <4>6. todo'[j] = Command("remove", WorkerNames[i])
        BY <4>3, <4>5 DEF RemovesFrom, Crew
      <4> QED BY <4>1, <4>6 DEF RemovalToCome
    <3>4. CASE begun + 1 < i
      <4>1. WorkerNames[i] # todo[1].on
        BY <1>6, <1>7, <3>4, DrillConstants
      <4>2. WorkerNames[i] \in containers
        BY <1>5, <2>1, <4>1
      <4>3. <<"run", WorkerNames[i]>> \in trouble
        <5>1. i <= begun \/ <<"run", WorkerNames[i]>> \in trouble
          BY <4>2 DEF DrillInv, ContainersGo
        <5> QED BY <1>6, <3>4, <5>1
      <4> QED BY <1>6, <4>3, RunTells
    <3>5. i <= begun + 1 \/ begun + 1 < i
      BY <1>6
    <3>6. i <= begun \/ i = begun + 1 \/ begun + 1 < i
      BY <1>6
    <3> QED BY <3>1, <3>2, <3>3, <3>4, <3>5, <3>6
  <2> QED BY <2>1 DEF ContainersGo, Crew
<1>12. TroubleTells'
  <2>1. submitter' = submitter /\ UNCHANGED <<drillArgs, clean, jobs>>
    BY <1>2 DEF submission
  <2>2. trouble' = trouble \/ (raised' = TRUE /\ trouble' = trouble \cup {<<todo[1].do, todo[1].on>>})
    BY <1>5
  <2>3. raised' \in BOOLEAN
    BY <1>9 DEF DrillTypes
  <2>4. (raised => raised') /\ (raised' => raised \/ trouble' # {})
    <3>1. CASE ok
      BY <1>5, <3>1
    <3>2. CASE ~ok
      BY <1>5, <3>2
    <3> QED BY <3>1, <3>2
  <2> QED BY <2>1, <2>2, <2>3, <2>4, TroubleOfCommand
<1>13. RoundsDone'
  <2>1. StartsWorkers /\ ~raised' /\ Len(todo') <= Crew => submitter = "done"
    <3>1. ~raised' => Len(todo') = Len(todo) - 1
      BY <1>3, <1>5, HeadIs, TailIs
    <3>2. ~raised' => ~(Len(todo') <= Crew)
      BY <1>6, <3>1
    <3> QED BY <3>2
  <2> QED BY <1>2, <2>1, RoundsStay
<1> QED BY <1>8, <1>9, <1>10, <1>11, <1>12, <1>13 DEF DrillInv

\* A container is removed.
LEMMA RemoveWorkerStep ==
    ASSUME DrillInv, RemoveWorker
    PROVE  DrillInv'
<1> USE DEF RemoveWorker
<1>1. PICK outcome \in Outcomes :
          /\ IF outcome = "timeout" THEN Finally(<<>>) ELSE CommandDone
          /\ clean' = (clean /\ outcome # "failed")
          /\ Noted(outcome)
          /\ containers' \in IF outcome = "ok" THEN {containers \ {On}}
                             ELSE {containers, containers \ {On}}
  OBVIOUS
<1>2. UNCHANGED <<drillArgs, tries, begun, up, jobs, submission, seen>>
  OBVIOUS
<1>3. todo # <<>> /\ Head(todo) = todo[1] /\ todo[1].do = "remove" /\ On = todo[1].on
  BY HeadOn
<1>4. PICK ok \in BOOLEAN, late \in BOOLEAN :
          ok = (outcome = "ok") /\ late = (outcome = "timeout")
  OBVIOUS
<1>5. /\ trouble' = IF ok THEN trouble ELSE trouble \cup {<<todo[1].do, todo[1].on>>}
      /\ ~late => todo' = Tail(todo) /\ raised' = raised
      /\ late => raised' = TRUE /\ todo' = <<>>
      /\ containers' \subseteq containers
      /\ ok => containers' = containers \ {todo[1].on}
  BY <1>1, <1>3, <1>4 DEF Noted, CommandDone, Finally
<1>6. clean' = (clean /\ (ok \/ late))
  BY <1>1, <1>4 DEF Outcomes
<1>7. StartsWorkers /\ Len(todo) \in Nat \ {0} /\ begun \in 0 .. Crew /\ Crew \in Nat \ {0}
  BY <1>3, AtWorkers, HeadIs
<1>8. InOrder' /\ todo' \in Seq(Commands) /\ begun' \in 0 .. Crew
  <2>1. script' = script /\ begun' = begun
    BY <1>2 DEF drillArgs
  <2>2. CASE ~late
    BY <1>3, <1>5, <1>7, <2>1, <2>2, Advances
  <2>3. CASE late
    BY <1>3, <1>5, <1>7, <2>1, <2>3, Aborts
  <2> QED BY <2>2, <2>3
<1>9. DrillTypes'
  <2>1. raised' \in BOOLEAN /\ containers' \subseteq Workers
    BY <1>5 DEF DrillInv, DrillTypes
  <2>2. clean' \in BOOLEAN
    BY <1>6
  <2> QED BY <1>2, <1>8, <2>1, <2>2, JobTypesStay DEF DrillInv, DrillTypes
<1>10. ServicesReturn' /\ OutagesSeen'
  <2>1. trouble \subseteq trouble' /\ (raised' \/ (raised' = raised /\ todo' = Tail(todo)))
    BY <1>5
  <2>2. todo' = Tail(todo) \/ todo' = <<>>
    BY <1>5
  <2> QED BY <1>2, <1>3, <2>1, <2>2, ServicesAlone
<1>11. ContainersGo'
  <2>1. ASSUME NEW i \in 1 .. Crew, WorkerNames[i] \in containers'
        PROVE  /\ i <= begun' \/ <<"run", WorkerNames[i]>> \in trouble'
               /\ ContainerBlamed(i)' \/ RemovalToCome(i)'
               /\ raised' \/ <<"remove", WorkerNames[i]>> \in trouble' \/ RemovalToCome(i)'
    <3>1. /\ i <= begun \/ <<"run", WorkerNames[i]>> \in trouble
          /\ ContainerBlamed(i) \/ RemovalToCome(i)
          /\ raised \/ <<"remove", WorkerNames[i]>> \in trouble \/ RemovalToCome(i)
      BY <1>5, <2>1 DEF DrillInv, ContainersGo
    <3>2. (ContainerBlamed(i) => ContainerBlamed(i)') /\ trouble \subseteq trouble'
      BY <1>5 DEF ContainerBlamed
    <3>3. i <= begun' \/ <<"run", WorkerNames[i]>> \in trouble'
      BY <1>2, <3>1, <3>2
    <3>4. raised \/ late => raised'
      BY <1>5
    <3>5. CASE ~RemovalToCome(i)
      BY <3>1, <3>2, <3>3, <3>4, <3>5
    <3>6. CASE RemovalToCome(i)
      <4>1. PICK j \in 1 .. Len(todo) : todo[j] = Command("remove", WorkerNames[i])
        BY ONLY <3>6 DEF RemovalToCome
      <4>2. CASE ~late /\ j # 1
        <5>1. /\ Len(todo') = Len(todo) - 1
              /\ \A m \in 1 .. Len(todo) - 1 : todo'[m] = todo[m + 1]
          <6>1. todo \in Seq(Commands) /\ todo # <<>>
            BY <1>3, HeadIs
          <6>2. todo' = Tail(todo)
            BY <1>5, <4>2
          <6> QED BY ONLY <6>1, <6>2, TailIs
        <5>2. PICK m \in 1 .. Len(todo) - 1 : j = m + 1
          <6>1. j - 1 \in 1 .. Len(todo) - 1 /\ j = (j - 1) + 1
            BY <1>7, <4>2
          <6> QED BY <6>1
        <5>3. RemovalToCome(i)'
          BY <4>1, <5>1, <5>2 DEF RemovalToCome
        <5> QED BY <3>3, <5>3
      <4>3. CASE ok /\ j = 1
        <5>1. todo[1].on = WorkerNames[i]
          BY <4>1, <4>3 DEF Command
        <5> QED BY <1>5, <2>1, <4>3, <5>1
      <4>4. CASE ~ok /\ (late \/ j = 1)
        <5>1. PICK k \in 1 .. i : todo[1].on = WorkerNames[k] /\ (j = 1 => k = i)
          <6>1. CASE j = 1
            BY <4>1, <6>1 DEF Command
          <6>2. CASE j # 1
            <7> DEFINE b == IF raised THEN begun ELSE Crew
            <7>1. Len(todo) <= b /\ b \in 0 .. Crew /\ todo[1].on = WorkerNames[b - (Len(todo) - 1)]
              BY <1>3, <1>7, AtWorkers
            <7>2. RemovesFrom(b)
              BY <1>7 DEF DrillInv, InOrder, OfWorkers
            <7> HIDE DEF b
            <7>3. Len(todo) - j < b /\ b - (Len(todo) - j) \in 1 .. Crew
              BY <1>7, <7>1
            <7>4. todo[j] = Command("remove", WorkerNames[b - (Len(todo) - j)])
              BY <7>2, <7>3 DEF RemovesFrom
            <7>5. WorkerNames[i] = WorkerNames[b - (Len(todo) - j)]
              BY <4>1, <7>4 DEF Command
            <7>6. i = b - (Len(todo) - j)
              BY <7>3, <7>5, DrillConstants
            <7>7. b - (Len(todo) - 1) \in 1 .. i
              BY <1>7, <7>1, <7>6
            <7> QED BY <6>2, <7>1, <7>7
          <6> QED BY <6>1, <6>2
        <5>2. <<"remove", WorkerNames[k]>> \in trouble'
          BY <1>3, <1>5, <4>4, <5>1
        <5>3. ContainerBlamed(i)'
          BY <5>2 DEF ContainerBlamed
        <5>4. raised' \/ <<"remove", WorkerNames[i]>> \in trouble'
          BY <3>4, <4>4, <5>1, <5>2
        <5> QED BY <3>3, <5>3, <5>4
      <4>5. ~(ok /\ late)
        BY <1>4
      <4> QED BY <4>2, <4>3, <4>4, <4>5
    <3> QED BY <3>5, <3>6
  <2> QED BY <2>1 DEF ContainersGo, Crew
<1>12. TroubleTells'
  <2>1. trouble \subseteq trouble' /\ UNCHANGED <<script, rounds>> /\ submitter' = submitter /\ job' = job
    BY <1>2, <1>5 DEF drillArgs, submission, jobs
  <2>2. (raised => raised') /\ (raised' => raised \/ trouble' # {})
    <3>1. CASE late
      <4>1. ~ok
        BY <1>4, <3>1
      <4> QED BY <1>5, <3>1, <4>1
    <3>2. CASE ~late
      BY <1>5, <3>2
    <3> QED BY <3>1, <3>2
  <2>3. (~clean => ~clean') /\ (~clean' => ~clean \/ trouble' # {})
    BY <1>5, <1>6
  <2>4. ~ok => raised' \/ ~clean'
    BY <1>5, <1>6
  <2>5. \A x \in trouble' \ trouble : x[1] = "remove" /\ (raised' \/ ~clean')
    BY <1>3, <1>5, <2>4
  <2> QED BY <2>1, <2>2, <2>3, <2>5, TroubleGrows
<1>13. RoundsDone'
  <2>1. StartsWorkers /\ ~raised' /\ Len(todo') <= Crew => submitter = "done"
    <3>1. ~raised => Len(todo) <= Crew
      BY <1>3, <1>7, AtWorkers
    <3>2. ~raised => submitter = "done"
      BY <1>7, <3>1 DEF DrillInv, RoundsDone
    <3>3. ~raised' => ~raised
      BY <1>5
    <3> QED BY <3>2, <3>3
  <2> QED BY <1>2, <2>1, RoundsStay
<1> QED BY <1>8, <1>9, <1>10, <1>11, <1>12, <1>13 DEF DrillInv
-----------------------------------------------------------------------------
(* The submitter and the jobs *)

\* Each of the first n workers is removed by one of the commands.
LEMMA RemovalThere ==
    ASSUME NEW n \in 0 .. Crew, NEW i \in 1 .. n
    PROVE  \E j \in 1 .. Len(Removal(n)) : Removal(n)[j] = Command("remove", WorkerNames[i])
BY RemovalIs

\* What the end of the submission leaves: the removals are still to come.
LEMMA SubmissionEnds ==
    ASSUME DrillInv, At("submit"), UNCHANGED <<drillArgs, tries, begun, clean, up, containers, jobs,
                                               round, seen>>,
           trouble \subseteq trouble', raised' \in BOOLEAN,
           (todo' = Tail(todo) /\ raised' = raised) \/ (todo' = Removal(begun) /\ raised' = TRUE)
    PROVE  /\ StartsWorkers /\ ~raised /\ Len(todo) = Crew + 1 /\ begun = Crew
           /\ Crew \in Nat \ {0}
           /\ InOrder' /\ todo' \in Seq(Commands) /\ begun' \in 0 .. Crew
           /\ ServicesReturn' /\ ContainersGo' /\ OutagesSeen'
<1>1. todo # <<>> /\ Head(todo) = todo[1] /\ todo[1].do = "submit" /\ On = todo[1].on
  BY HeadOn
<1>2. /\ StartsWorkers /\ ~raised /\ Len(todo) = Crew + 1 /\ begun = Crew
      /\ Len(todo) \in Nat \ {0} /\ Crew \in Nat \ {0} /\ begun \in 0 .. Crew
  BY <1>1, AtWorkers, HeadIs
<1>3. script' = script /\ begun' = begun
  BY DEF drillArgs
<1>4. InOrder' /\ todo' \in Seq(Commands) /\ begun' \in 0 .. Crew
  <2>1. CASE todo' = Tail(todo) /\ raised' = raised
    BY <1>1, <1>2, <1>3, <2>1, Advances
  <2>2. CASE todo' = Removal(begun) /\ raised' = TRUE
    BY <1>1, <1>2, <1>3, <2>2, Aborts
  <2> QED BY <2>1, <2>2
<1>5. ServicesReturn' /\ OutagesSeen'
  <2>1. Removal(begun)[1].do # "outage"
    <3>1. Removal(begun)[1] = Command("remove", WorkerNames[1])
      BY <1>2, RemovalIs
    <3> QED BY <3>1 DEF Command
  <2> QED BY <1>1, <2>1, ServicesAlone
<1>6. ContainersGo'
  <2>1. ASSUME NEW i \in 1 .. Crew
        PROVE  RemovalToCome(i)'
    <3>1. CASE todo' = Tail(todo) /\ raised' = raised
      <4>1. Len(todo') = Crew
        BY <1>1, <1>2, <3>1, HeadIs, TailIs
      <4>2. RemovesFrom(Crew)'
        BY <1>2, <1>3, <1>4, <3>1 DEF InOrder, OfWorkers, StartsWorkers, Crew
      <4>3. i \in 1 .. Len(todo') /\ Len(todo') - i < Crew /\ Crew - (Len(todo') - i) = i
        BY <1>2, <4>1
      <4> QED BY <4>2, <4>3 DEF RemovesFrom, Crew, RemovalToCome
    <3>2. CASE todo' = Removal(begun) /\ raised' = TRUE
      BY <1>2, <3>2, RemovalThere DEF RemovalToCome
    <3> QED BY <3>1, <3>2
  <2>2. \A i \in 1 .. Crew : i <= begun'
    BY <1>2, <1>3
  <2> QED BY <2>1, <2>2 DEF ContainersGo, Crew
<1> QED BY <1>2, <1>4, <1>5, <1>6

\* What the jobs do leaves the commands, services and containers alone.
LEMMA ControlAlone ==
    ASSUME DrillInv, UNCHANGED <<drillArgs, control, up, containers, seen>>,
           trouble \subseteq trouble', ~StartsWorkers => submitter' = "none"
    PROVE  InOrder' /\ ServicesReturn' /\ ContainersGo' /\ OutagesSeen'
<1> USE DEF DrillInv, drillArgs, control
<1>1. InOrder'
  BY DEF InOrder, Follows, OfWorkers, OfProbing, RemovesFrom, StartsWorkers
<1>2. ServicesReturn'
  BY DEF ServicesReturn, ServiceBlamed
<1>3. ContainersGo'
  <2>1. \A i \in 1 .. Crew : ContainerBlamed(i) => ContainerBlamed(i)'
    BY DEF ContainerBlamed
  <2>2. \A i \in 1 .. Crew : RemovalToCome(i) => RemovalToCome(i)'
    BY DEF RemovalToCome
  <2> QED BY <2>1, <2>2 DEF ContainersGo, Crew
<1>4. OutagesSeen'
  BY DEF OutagesSeen, Outages
<1> QED BY <1>1, <1>2, <1>3, <1>4

\* The numbers of a round.
LEMMA RoundIs ==
    ASSUME DrillInv
    PROVE  /\ rounds \in Nat \ {0} /\ round \in Nat \ {0} /\ round <= rounds /\ JobsPerRound \in Nat \ {0}
           /\ round * JobsPerRound \in Nat /\ (round - 1) * JobsPerRound \in Nat
           /\ (round - 1) * JobsPerRound < round * JobsPerRound
           /\ (round + 1) * JobsPerRound > round * JobsPerRound
           /\ (round + 1) * JobsPerRound \in Nat
           /\ round * JobsPerRound \in OfRound(round) /\ OfRound(round) \subseteq Numbers
           /\ Numbers \subseteq Nat \ {0}
           /\ OfRound(round) \subseteq (round - 1) * JobsPerRound + 1 .. round * JobsPerRound
           /\ \A n \in Numbers : n <= round * JobsPerRound =>
                  n \in OfRound(round) \/ n \in 1 .. (round - 1) * JobsPerRound
<1>1. /\ rounds \in RoundCounts /\ rounds \in Nat \ {0} /\ Numbers \subseteq Nat \ {0}
      /\ \A n \in 1 .. rounds * JobsPerRound : n \in Numbers
  BY NumbersAre DEF DrillInv, DrillTypes
<1>2. round \in Nat \ {0} /\ round <= rounds /\ JobsPerRound \in Nat \ {0}
  BY <1>1, DrillConstants DEF DrillInv, DrillTypes
<1>3. /\ round * JobsPerRound \in Nat /\ rounds * JobsPerRound \in Nat
      /\ (round - 1) * JobsPerRound = round * JobsPerRound - JobsPerRound
      /\ (round + 1) * JobsPerRound = round * JobsPerRound + JobsPerRound
      /\ round * JobsPerRound <= rounds * JobsPerRound
      /\ JobsPerRound <= round * JobsPerRound
  <2>1. /\ round * JobsPerRound \in Nat /\ rounds * JobsPerRound \in Nat
        /\ (round - 1) * JobsPerRound = round * JobsPerRound - JobsPerRound
        /\ (round + 1) * JobsPerRound = round * JobsPerRound + JobsPerRound
    BY <1>1, <1>2
  <2>2. \A a, b, c \in Nat : a <= b => a * c <= b * c
    OBVIOUS
  <2>3. round * JobsPerRound <= rounds * JobsPerRound /\ 1 * JobsPerRound <= round * JobsPerRound
    BY <1>1, <1>2, <2>2
  <2> QED BY <1>2, <2>1, <2>3
<1> DEFINE now == round * JobsPerRound
           before == (round - 1) * JobsPerRound
           all == rounds * JobsPerRound
           next == (round + 1) * JobsPerRound
<1> HIDE DEF now, before, all, next
<1>4. /\ now \in Nat /\ before \in Nat /\ all \in Nat /\ next \in Nat
      /\ before < now /\ now < next /\ now <= all
  <2>1. /\ now \in Nat /\ all \in Nat /\ now <= all /\ JobsPerRound <= now
        /\ before = now - JobsPerRound /\ next = now + JobsPerRound
    BY <1>3 DEF now, before, all, next
  <2> QED BY <1>2, <2>1
<1>5. OfRound(round) = before + 1 .. now
  BY DEF OfRound, now, before
<1>6. now \in OfRound(round) /\ OfRound(round) \subseteq 1 .. all
  BY <1>4, <1>5
<1>7. \A n \in Numbers : n <= now => n \in before + 1 .. now \/ n \in 1 .. before
  BY <1>1, <1>4
<1>8. \A n \in 1 .. all : n \in Numbers
  BY <1>1 DEF all
<1>9. OfRound(round) \subseteq Numbers
  BY <1>4, <1>6, <1>8
<1> QED BY <1>1, <1>2, <1>4, <1>5, <1>6, <1>7, <1>9 DEF now, before, next

\* The numbers of earlier rounds are numbers of jobs.
LEMMA EarlierNumbers ==
    ASSUME DrillInv
    PROVE  \A n \in 1 .. (round - 1) * JobsPerRound : n \in Numbers
<1>1. /\ rounds \in Nat \ {0} /\ round \in Nat \ {0} /\ round <= rounds /\ JobsPerRound \in Nat \ {0}
  BY RoundIs
<1>2. \A n \in 1 .. rounds * JobsPerRound : n \in Numbers
  BY NumbersAre DEF DrillInv, DrillTypes
<1>3. \A a, b, c \in Nat : a <= b => a * c <= b * c
  OBVIOUS
<1>4. (round - 1) * JobsPerRound <= rounds * JobsPerRound
  <2>1. round - 1 \in Nat /\ round - 1 <= rounds
    BY <1>1
  <2> QED BY <1>1, <1>3, <2>1
<1>5. (round - 1) * JobsPerRound \in Nat /\ rounds * JobsPerRound \in Nat
  BY <1>1
<1> QED BY <1>2, <1>4, <1>5

\* The least of some numbers.
LEMMA MinIs ==
    ASSUME NEW S, S \subseteq Nat, S # {}
    PROVE  Min(S) \in S /\ \A x \in S : Min(S) <= x
<1> DEFINE P(x) == \A y \in S : x <= y
<1>1. \E x \in S : P(x)
  BY LeastNat
<1>2. Min(S) = CHOOSE x \in S : P(x)
  BY DEF Min
<1>3. (CHOOSE x \in S : P(x)) \in S /\ P(CHOOSE x \in S : P(x))
  <2> HIDE DEF P
  <2> QED BY <1>1
<1> QED BY <1>2, <1>3

\* The submitter begins a round.
LEMMA SubmitStep ==
    ASSUME DrillInv, Submit
    PROVE  DrillInv'
<1> USE DEF DrillInv, Submit
<1>1. /\ StartsWorkers /\ ~raised /\ Len(todo) = Crew + 1 /\ Crew \in Nat \ {0}
  BY HeadOn, AtWorkers, DrillConstants
<1>2. UNCHANGED <<drillArgs, control, up, containers, jobs, round, history>> /\ submitter' = "submitting"
  OBVIOUS
<1>3. InOrder' /\ ServicesReturn' /\ ContainersGo' /\ OutagesSeen'
  BY <1>1, <1>2, ControlAlone DEF history
<1>4. DrillTypes'
  BY <1>2 DEF DrillTypes, drillArgs, control, jobs, history, Crew, Commands, Services, Workers, Numbers
<1>5. TroubleTells'
  BY <1>2, TroubleGrows DEF drillArgs, control, jobs, history
<1>6. RoundsDone'
  <2>1. (\A n \in Numbers : job[n] = "none") /\ registry = {} /\ round = 1
    BY DEF RoundsDone
  <2>2. JobsPerRound \in Nat \ {0} /\ (1 - 1) * JobsPerRound = 0
    BY DrillConstants
  <2>3. UNCHANGED <<job, doing, registry, round, todo, raised, script, rounds>>
    BY <1>2 DEF jobs, control, drillArgs
  <2>4. \A w \in Workers : doing[w] # 0 => job[doing[w]] \in {"running", "succeeded", "failed"}
    BY DEF RoundsDone
  <2>5. \A n \in 1 .. (round - 1) * JobsPerRound : job[n] = "succeeded"
    BY <2>1, <2>2
  <2>6. ~(Len(todo) <= Crew)
    BY <1>1
  <2> QED BY <1>2, <2>1, <2>3, <2>4, <2>5, <2>6 DEF RoundsDone, Crew
<1> QED BY <1>3, <1>4, <1>5, <1>6

\* The last post was answered: the jobs of the round are waited for.
LEMMA AnsweredStep ==
    ASSUME DrillInv, Answered
    PROVE  DrillInv'
<1> USE DEF Answered
<1>1. UNCHANGED <<drillArgs, tries, begun, clean, up, containers, jobs, submission, history>>
  OBVIOUS
<1>2. /\ submitter = "done" /\ rounds <= RoundsKept => todo' = Tail(todo) /\ raised' = raised
      /\ ~(submitter = "done" /\ rounds <= RoundsKept) => todo' = Removal(begun) /\ raised' = TRUE
      /\ submitter \in {"done", "failed"} /\ At("submit")
  BY DEF CommandDone, Finally
<1>3. raised' \in BOOLEAN
  BY <1>2 DEF DrillInv, DrillTypes
<1>4. /\ StartsWorkers /\ ~raised /\ Len(todo) = Crew + 1 /\ begun = Crew
      /\ InOrder' /\ todo' \in Seq(Commands) /\ begun' \in 0 .. Crew
      /\ ServicesReturn' /\ ContainersGo' /\ OutagesSeen'
  BY <1>1, <1>2, <1>3, SubmissionEnds DEF submission, history
<1>5. DrillTypes'
  BY <1>1, <1>3, <1>4, JobTypesStay DEF DrillInv, DrillTypes, history
<1>6. TroubleTells'
  <2>1. raised' => trouble # {} \/ (StartsWorkers /\ rounds > RoundsKept)
    <3>1. submitter = "failed" => trouble # {}
      BY DEF DrillInv, TroubleTells
    <3>2. submitter # "failed" /\ raised' => ~(rounds <= RoundsKept)
      BY <1>2, <1>4
    <3>3. rounds \in Nat /\ RoundsKept \in Nat
      BY RoundIs, DrillsAssumption
    <3> QED BY <1>4, <3>1, <3>2, <3>3
  <2> QED BY <1>1, <1>3, <1>4, <2>1, TroubleOfCommand DEF submission, history
<1>7. RoundsDone'
  <2>1. ~raised' => submitter = "done"
    BY <1>2
  <2> QED BY <1>1, <2>1, RoundsStay
<1> QED BY <1>4, <1>5, <1>6, <1>7 DEF DrillInv

\* A post failed: the submitter gives up.
LEMMA NotAnsweredStep ==
    ASSUME DrillInv, NotAnswered
    PROVE  DrillInv'
<1> USE DEF NotAnswered
<1>1. UNCHANGED <<drillArgs, tries, begun, clean, up, containers, jobs, round, seen>>
  OBVIOUS
<1>2. todo' = Removal(begun) /\ raised' = TRUE /\ At("submit") /\ submitter' \in {submitter, "dead"}
      /\ submitter # "none" /\ trouble' = trouble \cup {<<Head(todo).do, On>>}
  BY DEF Finally, Noted
<1>3. /\ StartsWorkers
      /\ InOrder' /\ todo' \in Seq(Commands) /\ begun' \in 0 .. Crew
      /\ ServicesReturn' /\ ContainersGo' /\ OutagesSeen'
  BY <1>1, <1>2, SubmissionEnds
<1>4. DrillTypes'
  BY <1>1, <1>2, <1>3 DEF DrillInv, DrillTypes, drillArgs, jobs, Crew, Commands, Services, Workers, Numbers
<1>5. TroubleTells'
  <2>1. PICK x : trouble' = trouble \cup {x}
    BY <1>2
  <2>2. submitter' = "failed" => submitter = "failed"
    BY <1>2
  <2> QED BY <1>1, <1>2, <2>1, <2>2, TroubleOfCommand
<1>6. RoundsDone'
  <2>1. UNCHANGED <<job, doing, registry, round, script, rounds>>
    BY <1>1 DEF jobs, drillArgs
  <2>2. RoundsDone
    BY DEF DrillInv
  <2>3. CASE submitter' = submitter
    BY <1>2, <2>1, <2>2, <2>3 DEF RoundsDone, OfRound
  <2>4. CASE submitter' = "dead"
    BY <1>2, <2>1, <2>2, <2>4 DEF RoundsDone
  <2> QED BY <1>2, <2>3, <2>4
<1> QED BY <1>3, <1>4, <1>5, <1>6 DEF DrillInv

\* What is left to prove of a step of the submitter or of a worker.
LEMMA JobStep ==
    ASSUME DrillInv, submitter # "none",
           UNCHANGED <<drillArgs, control, up, containers, seen>>, trouble \subseteq trouble',
           doing' \in [Workers -> {0} \cup Numbers],
           job' \in [Numbers -> {"none", "queued", "running", "succeeded", "failed"}],
           registry' \subseteq Numbers, round' \in 1 .. rounds,
           submitter' \in {"submitting", "waiting", "alert", "done", "failed", "dead"},
           submitter' = "failed" => submitter = "failed" \/ trouble' # {},
           \A n \in Numbers : job'[n] = "failed" => job[n] = "failed" \/ trouble' # {},
           \A x \in trouble' \ trouble : x[1] \in {"submit", "jobs", "job"}
    PROVE  /\ InOrder' /\ ServicesReturn' /\ ContainersGo' /\ OutagesSeen'
           /\ DrillTypes' /\ TroubleTells' /\ StartsWorkers
<1>1. StartsWorkers
  BY DEF DrillInv, InOrder
<1>2. InOrder' /\ ServicesReturn' /\ ContainersGo' /\ OutagesSeen'
  BY <1>1, ControlAlone
<1>3. DrillTypes'
  BY DEF DrillInv, DrillTypes, drillArgs, control, Crew, Commands, Services, Workers, Numbers
<1>4. TroubleTells'
  BY TroubleGrows DEF drillArgs, control
<1> QED BY <1>1, <1>2, <1>3, <1>4

\* A job is posted.
LEMMA SubmitJobStep ==
    ASSUME DrillInv, SubmitJob
    PROVE  DrillInv'
<1> USE DEF SubmitJob
<1> DEFINE S == {m \in OfRound(round) : job[m] = "none"}
           n == Min(S)
<1>1. /\ round * JobsPerRound \in OfRound(round) /\ OfRound(round) \subseteq Numbers
      /\ Numbers \subseteq Nat \ {0} /\ round * JobsPerRound \in Nat
      /\ (round - 1) * JobsPerRound \in Nat
      /\ OfRound(round) \subseteq (round - 1) * JobsPerRound + 1 .. round * JobsPerRound
  BY RoundIs
<1>2. submitter = "submitting"
  OBVIOUS
<1>3. /\ \A m \in 1 .. (round - 1) * JobsPerRound : job[m] = "succeeded"
      /\ \A m \in Numbers : m >= round * JobsPerRound => job[m] = "none"
      /\ \A w \in Workers : doing[w] # 0 => job[doing[w]] \in {"running", "succeeded", "failed"}
      /\ ~(StartsWorkers /\ ~raised /\ Len(todo) <= Crew)
  BY <1>2 DEF DrillInv, RoundsDone
<1>4. S # {} /\ S \subseteq Nat
  BY <1>1, <1>3
<1>5. n \in Numbers /\ job[n] = "none" /\ n \in OfRound(round) /\ n <= round * JobsPerRound
  <2>1. n \in S
    BY <1>4, MinIs
  <2> QED BY <1>1, <2>1
<1>6. UNCHANGED <<drillArgs, control, up, containers, doing, registry, round, seen>>
  OBVIOUS
<1>7. /\ job \in [Numbers -> {"none", "queued", "running", "succeeded", "failed"}]
      /\ doing \in [Workers -> {0} \cup Numbers] /\ registry \subseteq Numbers /\ round \in 1 .. rounds
  BY DEF DrillInv, DrillTypes
<1>8. \/ /\ job' = [job EXCEPT ![n] = "queued"]
         /\ submitter' = IF n = round * JobsPerRound THEN "waiting" ELSE submitter
         /\ trouble' = trouble
      \/ submitter' = "failed" /\ trouble' = trouble \cup {<<"submit", "raises">>} /\ job' = job
  BY DEF Lose
<1> HIDE DEF S, n
<1>9. UNCHANGED <<script, raised, todo, rounds, doing, registry, round>>
  BY <1>6 DEF drillArgs, control
<1>10. CASE /\ job' = [job EXCEPT ![n] = "queued"]
            /\ submitter' = IF n = round * JobsPerRound THEN "waiting" ELSE submitter
            /\ trouble' = trouble
  <2>1. job'[n] = "queued" /\ \A m \in Numbers : m # n => job'[m] = job[m]
    BY <1>5, <1>7, <1>10
  <2>2. /\ InOrder' /\ ServicesReturn' /\ ContainersGo' /\ OutagesSeen'
        /\ DrillTypes' /\ TroubleTells' /\ StartsWorkers
    <3>1. job' \in [Numbers -> {"none", "queued", "running", "succeeded", "failed"}]
      BY <1>7, <1>10
    <3>2. \A m \in Numbers : job'[m] = "failed" => job[m] = "failed"
      BY <2>1
    <3>3. submitter' \in {"waiting", "submitting"}
      BY <1>2, <1>10
    <3> QED BY <1>2, <1>6, <1>7, <1>10, <3>1, <3>2, <3>3, JobStep
  <2>3. RoundsDone'
    <3>1. \A w \in Workers : doing[w] # 0 => job'[doing[w]] \in {"running", "succeeded", "failed"}
      <4>1. \A w \in Workers : doing[w] # 0 => doing[w] \in Numbers /\ doing[w] # n
        BY <1>3, <1>5, <1>7
      <4> QED BY <1>3, <2>1, <4>1
    <3>2. \A m \in 1 .. (round - 1) * JobsPerRound : job'[m] = "succeeded"
      <4>1. \A m \in 1 .. (round - 1) * JobsPerRound : m # n /\ m \in DOMAIN job
        <5>1. n > (round - 1) * JobsPerRound /\ n \in Nat
          BY <1>1, <1>5
        <5>2. \A m \in 1 .. (round - 1) * JobsPerRound : m <= (round - 1) * JobsPerRound
          BY <1>1
        <5>3. \A m \in 1 .. (round - 1) * JobsPerRound : m # n
          BY <1>1, <5>1, <5>2
        <5>4. \A m \in 1 .. (round - 1) * JobsPerRound : m \in Numbers
          BY EarlierNumbers
        <5> QED BY <1>7, <5>3, <5>4
      <4> QED BY <1>3, <1>7, <2>1, <4>1
    <3>3. submitter' = "submitting" => \A m \in Numbers : m >= round * JobsPerRound => job'[m] = "none"
      <4>1. submitter' = "submitting" => n # round * JobsPerRound
        BY <1>10
      <4>2. n # round * JobsPerRound => \A m \in Numbers : m >= round * JobsPerRound => m # n
        BY <1>1, <1>5
      <4> QED BY <1>3, <2>1, <4>1, <4>2
    <3>4. \A m \in Numbers : m > round * JobsPerRound => job'[m] = "none"
      <4>1. \A m \in Numbers : m > round * JobsPerRound => m # n /\ m >= round * JobsPerRound
        BY <1>1, <1>5
      <4> QED BY <1>3, <2>1, <4>1
    <3>5. submitter' \in {"waiting", "submitting"}
      BY <1>2, <1>10
    <3> QED BY <1>3, <1>9, <3>1, <3>2, <3>3, <3>4, <3>5 DEF RoundsDone, StartsWorkers, Crew
  <2> QED BY <2>2, <2>3 DEF DrillInv
<1>11. CASE submitter' = "failed" /\ trouble' = trouble \cup {<<"submit", "raises">>} /\ job' = job
  <2>1. /\ InOrder' /\ ServicesReturn' /\ ContainersGo' /\ OutagesSeen'
        /\ DrillTypes' /\ TroubleTells' /\ StartsWorkers
    <3>1. /\ trouble \subseteq trouble' /\ trouble' # {}
          /\ \A x \in trouble' \ trouble : x = <<"submit", "raises">>
      BY <1>11
    <3>2. \A x \in trouble' \ trouble : x[1] \in {"submit", "jobs", "job"}
      BY <3>1
    <3> QED BY <1>2, <1>6, <1>7, <1>11, <3>1, <3>2, JobStep
  <2>2. RoundsDone'
    BY <1>3, <1>9, <1>11 DEF RoundsDone, StartsWorkers, Crew
  <2> QED BY <2>1, <2>2 DEF DrillInv
<1> QED BY <1>8, <1>10, <1>11

\* The submitter sees every job of the round at its end, or gives up.
LEMMA WaitStep ==
    ASSUME DrillInv, Wait
    PROVE  DrillInv'
<1> USE DEF Wait
<1>1. submitter = "waiting" /\ OfRound(round) \subseteq Numbers
  BY RoundIs
<1>2. UNCHANGED <<drillArgs, control, up, containers, jobs, round, seen>>
  OBVIOUS
<1>3. /\ job \in [Numbers -> {"none", "queued", "running", "succeeded", "failed"}]
      /\ doing \in [Workers -> {0} \cup Numbers] /\ registry \subseteq Numbers /\ round \in 1 .. rounds
  BY DEF DrillInv, DrillTypes
<1>4. \/ /\ submitter' = "alert" /\ trouble' = trouble
         /\ \A n \in OfRound(round) : job[n] = "succeeded"
      \/ submitter' = "failed" /\ trouble' = trouble /\ trouble # {}
      \/ submitter' = "failed" /\ trouble' = trouble \cup {<<"jobs", "unexpected">>}
  <2>1. \A n \in OfRound(round) : job[n] = "failed" => trouble # {}
    BY <1>1 DEF DrillInv, TroubleTells
  <2>2. CASE /\ \A n \in OfRound(round) : Ended(n)
             /\ submitter' = IF \A n \in OfRound(round) : job[n] = "succeeded" THEN "alert"
                             ELSE "failed"
             /\ trouble' = trouble
    <3>1. CASE \A n \in OfRound(round) : job[n] = "succeeded"
      BY <2>2, <3>1
    <3>2. CASE ~\A n \in OfRound(round) : job[n] = "succeeded"
      <4>1. trouble # {}
        BY <2>1, <2>2, <3>2 DEF Ended
      <4> QED BY <2>2, <3>2, <4>1
    <3> QED BY <3>1, <3>2
  <2>3. CASE Lose("jobs", "unexpected")
    BY <2>3 DEF Lose
  <2> QED BY <2>2, <2>3
<1>5. /\ InOrder' /\ ServicesReturn' /\ ContainersGo' /\ OutagesSeen'
      /\ DrillTypes' /\ TroubleTells' /\ StartsWorkers
  <2>1. UNCHANGED <<job, doing, registry, round>>
    BY <1>2 DEF jobs
  <2>2. /\ trouble \subseteq trouble' /\ (submitter' = "failed" => trouble' # {})
        /\ \A x \in trouble' \ trouble : x = <<"jobs", "unexpected">>
    BY <1>4
  <2>3. \A x \in trouble' \ trouble : x[1] \in {"submit", "jobs", "job"}
    BY <2>2
  <2> QED BY <1>1, <1>2, <1>3, <1>4, <2>1, <2>2, <2>3, JobStep
<1>6. RoundsDone'
  <2>1. UNCHANGED <<script, raised, todo, rounds, doing, job, registry, round>>
    BY <1>2 DEF drillArgs, control, jobs
  <2>2. /\ \A m \in 1 .. (round - 1) * JobsPerRound : job[m] = "succeeded"
        /\ \A m \in Numbers : m > round * JobsPerRound => job[m] = "none"
        /\ \A w \in Workers : doing[w] # 0 => job[doing[w]] \in {"running", "succeeded", "failed"}
        /\ ~(StartsWorkers /\ ~raised /\ Len(todo) <= Crew)
    BY <1>1 DEF DrillInv, RoundsDone
  <2>3. CASE submitter' = "alert" /\ \A n \in OfRound(round) : job[n] = "succeeded"
    BY <2>1, <2>2, <2>3 DEF RoundsDone, StartsWorkers, Crew, OfRound
  <2>4. CASE submitter' = "failed"
    BY <2>1, <2>2, <2>4 DEF RoundsDone, StartsWorkers, Crew
  <2> QED BY <1>4, <2>3, <2>4
<1> QED BY <1>5, <1>6 DEF DrillInv

\* The alerts of the round are read.
LEMMA AlertStep ==
    ASSUME DrillInv, Alert
    PROVE  DrillInv'
<1> USE DEF Alert
<1>1. submitter = "alert" /\ OfRound(round) \subseteq Numbers /\ round \in Nat \ {0}
      /\ rounds \in Nat \ {0} /\ round <= rounds
  BY RoundIs
<1>2. UNCHANGED <<drillArgs, control, up, containers, jobs, seen>>
  OBVIOUS
<1>3. /\ job \in [Numbers -> {"none", "queued", "running", "succeeded", "failed"}]
      /\ doing \in [Workers -> {0} \cup Numbers] /\ registry \subseteq Numbers /\ round \in 1 .. rounds
  BY DEF DrillInv, DrillTypes
<1>4. \/ /\ submitter' = "failed" /\ round' = round
         /\ \E how : trouble' = trouble \cup {<<"jobs", how>>}
      \/ round < rounds /\ round' = round + 1 /\ submitter' = "submitting" /\ trouble' = trouble
      \/ /\ ~(round < rounds) /\ submitter' = "done" /\ round' = round /\ trouble' = trouble
         /\ registry = {}
  <2>1. CASE ~AlertsClean /\ Lose("jobs", "started") /\ round' = round
    BY <2>1 DEF Lose
  <2>2. CASE Lose("jobs", "slow") /\ round' = round
    BY <2>2 DEF Lose
  <2>3. CASE AlertsClean /\ round = rounds /\ submitter' = "done" /\ round' = round /\ trouble' = trouble
    BY <1>1, <2>3 DEF AlertsClean
  <2>4. CASE round < rounds /\ round' = round + 1 /\ submitter' = "submitting" /\ trouble' = trouble
    BY <2>4
  <2> QED BY <2>1, <2>2, <2>3, <2>4
<1>5. round' \in 1 .. rounds /\ UNCHANGED <<job, doing, registry>>
  <2>1. round' = round \/ (round < rounds /\ round' = round + 1)
    BY ONLY <1>4
  <2>2. round' \in 1 .. rounds
    BY ONLY <1>1, <2>1
  <2> QED BY <1>2, <2>2 DEF jobs
<1>6. /\ InOrder' /\ ServicesReturn' /\ ContainersGo' /\ OutagesSeen'
      /\ DrillTypes' /\ TroubleTells' /\ StartsWorkers
  <2>1. \A y : <<"jobs", y>>[1] = "jobs"
    BY ONLY TRUE
  <2>2. /\ trouble \subseteq trouble' /\ (submitter' = "failed" => trouble' # {})
        /\ \A x \in trouble' \ trouble : \E how : x = <<"jobs", how>>
    BY ONLY <1>4
  <2>3. \A x \in trouble' \ trouble : x[1] \in {"submit", "jobs", "job"}
    BY ONLY <2>1, <2>2
  <2>4. submitter' \in {"submitting", "done", "failed"}
    BY ONLY <1>4
  <2> QED BY <1>1, <1>2, <1>3, <1>5, <2>2, <2>3, <2>4, JobStep
<1>7. RoundsDone'
  <2>1. UNCHANGED <<script, raised, todo, rounds>>
    BY <1>2 DEF drillArgs, control
  <2>2. /\ \A m \in 1 .. (round - 1) * JobsPerRound : job[m] = "succeeded"
        /\ \A m \in OfRound(round) : job[m] = "succeeded"
        /\ \A m \in Numbers : m > round * JobsPerRound => job[m] = "none"
        /\ \A w \in Workers : doing[w] # 0 => job[doing[w]] \in {"running", "succeeded", "failed"}
        /\ ~(StartsWorkers /\ ~raised /\ Len(todo) <= Crew)
    BY <1>1 DEF DrillInv, RoundsDone
  <2>3. CASE submitter' = "failed"
    BY <1>5, <2>1, <2>2, <2>3 DEF RoundsDone, StartsWorkers, Crew
  <2>4. CASE round' = round + 1 /\ submitter' = "submitting"
    <3>1. \A m \in 1 .. round * JobsPerRound : m \in OfRound(round) \/ m \in 1 .. (round - 1) * JobsPerRound
      <4>1. round * JobsPerRound \in Nat /\ (round - 1) * JobsPerRound \in Nat
        BY RoundIs
      <4>2. \A a, b \in Nat : \A m \in 1 .. b : m \in a + 1 .. b \/ m \in 1 .. a
        BY ONLY TRUE
      <4> QED BY ONLY <4>1, <4>2 DEF OfRound
    <3>2. \A m \in 1 .. round * JobsPerRound : job[m] = "succeeded"
      BY <2>2, <3>1
    <3>3. \A m \in Numbers : m >= (round + 1) * JobsPerRound => m > round * JobsPerRound
      <4>1. /\ round * JobsPerRound \in Nat /\ (round + 1) * JobsPerRound \in Nat
            /\ (round + 1) * JobsPerRound > round * JobsPerRound /\ Numbers \subseteq Nat
        BY RoundIs
      <4>2. \A a, b, m \in Nat : b > a /\ m >= b => m > a
        BY ONLY TRUE
      <4> QED BY ONLY <4>1, <4>2
    <3>4. round' - 1 = round
      BY ONLY <1>1, <2>4
    <3>5. (\A m \in 1 .. (round - 1) * JobsPerRound : job[m] = "succeeded")'
      BY <1>5, <3>2, <3>4
    <3>6. (\A m \in Numbers : m >= round * JobsPerRound => job[m] = "none")'
      BY <1>5, <2>2, <2>4, <3>3 DEF Numbers
    <3> QED BY <1>5, <2>1, <2>2, <2>4, <3>5, <3>6 DEF RoundsDone, StartsWorkers, Crew
  <2>5. CASE ~(round < rounds) /\ submitter' = "done" /\ round' = round /\ registry = {}
    <3>1. round = rounds
      BY ONLY <1>1, <2>5
    <3> QED BY <1>5, <2>1, <2>2, <2>5, <3>1 DEF RoundsDone, StartsWorkers, Crew, OfRound
  <2> QED BY <1>4, <2>3, <2>4, <2>5
<1> QED BY <1>6, <1>7 DEF DrillInv

\* Where a worker has a job, or there is one to take, the submitter was started,
\* and it is not done where a job waits.
LEMMA JobsAre ==
    ASSUME DrillInv, NEW n \in Numbers, job[n] # "none"
    PROVE  /\ submitter # "none"
           /\ submitter \in {"alert", "done"} => job[n] = "succeeded"
           /\ submitter \in {"submitting", "waiting"} /\ job[n] # "succeeded" =>
                 n \in OfRound(round)
<1>1. RoundsDone
  BY DEF DrillInv
<1>2. submitter # "none"
  BY <1>1 DEF RoundsDone
<1>3. /\ round * JobsPerRound \in Nat /\ n \in Nat
      /\ n <= round * JobsPerRound => n \in OfRound(round) \/ n \in 1 .. (round - 1) * JobsPerRound
  BY RoundIs
<1>4. submitter \in {"alert", "done"} => job[n] = "succeeded"
  <2> SUFFICES ASSUME submitter \in {"alert", "done"} PROVE job[n] = "succeeded"
    OBVIOUS
  <2>1. n <= round * JobsPerRound
    BY <1>1, <1>3 DEF RoundsDone
  <2> QED BY <1>1, <1>3, <2>1 DEF RoundsDone
<1>5. submitter \in {"submitting", "waiting"} /\ job[n] # "succeeded" => n \in OfRound(round)
  <2> SUFFICES ASSUME submitter \in {"submitting", "waiting"}, job[n] # "succeeded"
               PROVE  n \in OfRound(round)
    OBVIOUS
  <2>1. n <= round * JobsPerRound
    BY <1>1, <1>3 DEF RoundsDone
  <2> QED BY <1>1, <1>3, <2>1 DEF RoundsDone
<1> QED BY <1>2, <1>4, <1>5

\* A job that has begun goes on: rows that are not of a success change to what
\* is not "none".
LEMMA JobGoesOn ==
    ASSUME DrillInv, NEW n \in Numbers, job[n] \in {"queued", "running"},
           NEW status \in {"running", "succeeded", "failed"},
           job' = [job EXCEPT ![n] = status],
           UNCHANGED <<drillArgs, control, submission>>,
           \A w \in Workers : doing'[w] # 0 => doing'[w] = n \/ doing'[w] = doing[w],
           registry' \subseteq registry \cup {n}, doing' \in [Workers -> {0} \cup Numbers]
    PROVE  RoundsDone'
<1>1. RoundsDone /\ job \in [Numbers -> {"none", "queued", "running", "succeeded", "failed"}]
  BY DEF DrillInv, DrillTypes
<1>2. submitter \notin {"none", "alert", "done"}
  BY JobsAre
<1>3. UNCHANGED <<script, raised, todo, rounds, submitter, round>>
  BY DEF drillArgs, control, submission
<1>4. job'[n] = status /\ \A m \in Numbers : m # n => job'[m] = job[m]
  BY <1>1
<1>5. \A m \in Numbers : job[m] \in {"none", "succeeded"} => job'[m] = job[m]
  BY <1>4
<1>6. \A w \in Workers : doing'[w] # 0 => job'[doing'[w]] \in {"running", "succeeded", "failed"}
  <2>1. ASSUME NEW w \in Workers, doing'[w] # 0
        PROVE  job'[doing'[w]] \in {"running", "succeeded", "failed"}
    <3>1. doing'[w] \in Numbers
      BY <2>1
    <3>2. CASE doing'[w] = n
      BY <1>4, <3>2
    <3>3. CASE doing'[w] # n
      BY <1>1, <1>4, <2>1, <3>1, <3>3 DEF RoundsDone
    <3> QED BY <3>2, <3>3
  <2> QED BY <2>1
<1>7. submitter \in {"submitting", "waiting"} =>
          \A m \in 1 .. (round - 1) * JobsPerRound : job'[m] = "succeeded"
  BY <1>1, <1>5, EarlierNumbers DEF RoundsDone
<1>8. submitter = "submitting" => \A m \in Numbers : m >= round * JobsPerRound => job'[m] = "none"
  BY <1>1, <1>5 DEF RoundsDone
<1>9. submitter = "waiting" => \A m \in Numbers : m > round * JobsPerRound => job'[m] = "none"
  BY <1>1, <1>5 DEF RoundsDone
<1>10. ~(StartsWorkers /\ ~raised /\ Len(todo) <= Crew)
  BY <1>1, <1>2 DEF RoundsDone
<1> QED BY <1>2, <1>3, <1>6, <1>7, <1>8, <1>9, <1>10 DEF RoundsDone, StartsWorkers, Crew, Numbers, Workers

\* A worker takes a job.
LEMMA TakeJobStep ==
    ASSUME DrillInv, NEW w \in Workers, Take(w)
    PROVE  DrillInv'
<1>1. /\ job \in [Numbers -> {"none", "queued", "running", "succeeded", "failed"}]
      /\ doing \in [Workers -> {0} \cup Numbers] /\ registry \subseteq Numbers /\ round \in 1 .. rounds
      /\ submitter \in {"none", "submitting", "waiting", "alert", "done", "failed", "dead"}
  BY DEF DrillInv, DrillTypes
<1>2. PICK queued, n : queued = {m \in Numbers : job[m] = "queued"} /\ n = Min(queued)
  OBVIOUS
<1>3. n \in Numbers /\ job[n] = "queued"
  <2>1. queued # {}
    BY <1>2 DEF Take
  <2>2. queued \subseteq Nat
    BY <1>2, RoundIs
  <2>3. n \in queued
    BY <1>2, <2>1, <2>2, MinIs
  <2> QED BY <1>2, <2>3
<1>4. /\ doing' = [doing EXCEPT ![w] = n] /\ job' = [job EXCEPT ![n] = "running"]
      /\ registry' = registry \cup {n}
      /\ UNCHANGED <<drillArgs, control, up, containers, submission, history>>
  BY <1>2 DEF Take
<1>5. UNCHANGED <<seen, trouble, submitter, round>>
  BY <1>4 DEF history, submission
<1>6. submitter # "none"
  BY <1>3, JobsAre
<1>7. /\ doing' \in [Workers -> {0} \cup Numbers] /\ registry' \subseteq Numbers
      /\ job' \in [Numbers -> {"none", "queued", "running", "succeeded", "failed"}]
      /\ \A m \in Numbers : job'[m] = "failed" => job[m] = "failed"
      /\ \A u \in Workers : doing'[u] # 0 => doing'[u] = n \/ doing'[u] = doing[u]
  BY <1>1, <1>3, <1>4
<1>8. /\ InOrder' /\ ServicesReturn' /\ ContainersGo' /\ OutagesSeen'
      /\ DrillTypes' /\ TroubleTells'
  BY <1>1, <1>4, <1>5, <1>6, <1>7, JobStep
<1>9. RoundsDone'
  BY <1>3, <1>4, <1>7, JobGoesOn
<1> QED BY ONLY <1>8, <1>9 DEF DrillInv

\* A worker ends its job.
LEMMA FinishStep ==
    ASSUME DrillInv, NEW w \in Workers, Finish(w)
    PROVE  DrillInv'
<1>1. PICK status \in {"succeeded", "failed"} :
          /\ job' = [job EXCEPT ![doing[w]] = status]
          /\ trouble' = IF status = "failed" THEN trouble \cup {<<"job", "failed">>} ELSE trouble
  BY DEF Finish
<1>2. /\ doing[w] # 0 /\ job[doing[w]] = "running"
      /\ UNCHANGED <<drillArgs, control, up, containers, doing, registry, submission, seen>>
  BY DEF Finish
<1>3. /\ job \in [Numbers -> {"none", "queued", "running", "succeeded", "failed"}]
      /\ doing \in [Workers -> {0} \cup Numbers] /\ registry \subseteq Numbers /\ round \in 1 .. rounds
      /\ submitter \in {"none", "submitting", "waiting", "alert", "done", "failed", "dead"}
  BY DEF DrillInv, DrillTypes
<1>4. PICK n \in Numbers : n = doing[w]
  BY <1>2, <1>3
<1>5. job[n] = "running" /\ job' = [job EXCEPT ![n] = status]
  BY <1>1, <1>2, <1>4
<1>6. submitter # "none" /\ UNCHANGED <<submitter, round>>
  BY <1>2, <1>5, JobsAre DEF submission
<1>7. /\ job' \in [Numbers -> {"none", "queued", "running", "succeeded", "failed"}]
      /\ \A m \in Numbers : job'[m] = "failed" => job[m] = "failed" \/ trouble' # {}
  <2>1. job' \in [Numbers -> {"none", "queued", "running", "succeeded", "failed"}]
    BY ONLY <1>1, <1>3, <1>5
  <2>2. \A m \in Numbers : m # n => job'[m] = job[m]
    BY ONLY <1>3, <1>5
  <2>3. job'[n] = status
    BY ONLY <1>3, <1>5, <1>4
  <2>4. status = "failed" => trouble' # {}
    BY ONLY <1>1
  <2> QED BY ONLY <2>1, <2>2, <2>3, <2>4
<1>8. trouble \subseteq trouble' /\ \A x \in trouble' \ trouble : x = <<"job", "failed">>
  BY ONLY <1>1
<1>9. \A x \in trouble' \ trouble : x[1] \in {"submit", "jobs", "job"}
  BY ONLY <1>8
<1>10. /\ InOrder' /\ ServicesReturn' /\ ContainersGo' /\ OutagesSeen'
       /\ DrillTypes' /\ TroubleTells'
  BY <1>2, <1>3, <1>6, <1>7, <1>8, <1>9, JobStep
<1>11. RoundsDone'
  BY <1>2, <1>3, <1>5, JobGoesOn
<1> QED BY <1>10, <1>11 DEF DrillInv

\* A job goes back to the queue once its worker is gone.
LEMMA ReturnStep ==
    ASSUME DrillInv, NEW w \in Workers, Return(w)
    PROVE  DrillInv'
<1>1. /\ doing[w] # 0 /\ registry' = registry \ {doing[w]} /\ doing' = [doing EXCEPT ![w] = 0]
      /\ Ended(doing[w])
      /\ UNCHANGED <<drillArgs, control, up, containers, job, submission, history>>
  BY DEF Return
<1>2. /\ job \in [Numbers -> {"none", "queued", "running", "succeeded", "failed"}]
      /\ doing \in [Workers -> {0} \cup Numbers] /\ registry \subseteq Numbers /\ round \in 1 .. rounds
      /\ submitter \in {"none", "submitting", "waiting", "alert", "done", "failed", "dead"}
  BY DEF DrillInv, DrillTypes
<1>3. UNCHANGED <<seen, trouble, submitter, round>>
  BY <1>1 DEF history, submission
<1>4. submitter # "none"
  BY <1>1, <1>2, JobsAre DEF Ended
<1>5. doing' \in [Workers -> {0} \cup Numbers] /\ registry' \subseteq Numbers /\ job' = job
      /\ \A u \in Workers : doing'[u] # 0 => doing'[u] = doing[u]
  BY <1>1, <1>2
<1>6. /\ InOrder' /\ ServicesReturn' /\ ContainersGo' /\ OutagesSeen'
      /\ DrillTypes' /\ TroubleTells'
  BY <1>1, <1>2, <1>3, <1>4, <1>5, JobStep
<1>7. RoundsDone'
  <2>1. RoundsDone /\ UNCHANGED <<script, raised, todo, rounds>>
    BY <1>1 DEF DrillInv, drillArgs, control
  <2>2. \A u \in Workers : doing'[u] # 0 => job'[doing'[u]] \in {"running", "succeeded", "failed"}
    BY <1>5, <2>1 DEF RoundsDone
  <2>3. registry = {} => registry' = {}
    BY <1>1
  <2> QED BY <1>3, <1>4, <1>5, <2>1, <2>2, <2>3 DEF RoundsDone, StartsWorkers, Crew, Numbers, Workers, OfRound
<1> QED BY <1>6, <1>7 DEF DrillInv

\* The invariant is about the variables of a drill.
LEMMA DrillUnchanged ==
    ASSUME DrillInv, UNCHANGED drillVars
    PROVE  DrillInv'
BY TriedAgain DEF drillVars, control, jobs, submission, history

\* Every step of a drill keeps the invariant.
LEMMA DrillsNextStep ==
    ASSUME DrillInv, DrillsNext
    PROVE  DrillInv'
<1>1. CASE Drill
  BY <1>1, SetupStep, CheckStep, StopStep, OutageStep, RestartStep, RunWorkerStep,
     RemoveWorkerStep, SubmitStep, AnsweredStep, NotAnsweredStep DEF Drill
<1>2. CASE Submitter
  BY <1>2, SubmitJobStep, WaitStep, AlertStep DEF Submitter
<1>3. CASE \E w \in Workers : Take(w) \/ Finish(w) \/ Return(w)
  <2>1. PICK w \in Workers : Take(w) \/ Finish(w) \/ Return(w)
    BY <1>3
  <2>2. CASE Take(w)
    BY <2>2, TakeJobStep DEF Take
  <2>3. CASE Finish(w)
    BY <2>3, FinishStep
  <2>4. CASE Return(w)
    BY <2>4, ReturnStep
  <2> QED BY <2>1, <2>2, <2>3, <2>4
<1> QED BY <1>1, <1>2, <1>3 DEF DrillsNext

\* A step of the scripts is a step of a drill, or leaves it alone.
LEMMA DrillPart ==
    ASSUME ScriptsNext
    PROVE  DrillsNext \/ UNCHANGED drillVars
BY DEF ScriptsNext, ReleaseSteps, DrillSteps, EvaluationSteps, CallDrill, DrillReturns,
       CallEvaluation, EvaluationReturns, OtherCheck

-----------------------------------------------------------------------------
(* What a drill begins with *)

\* A part of a list of commands that can follow others.
Piece(p, services) ==
    /\ p \in Seq(Commands) /\ Follows(p) /\ Outages(p) = services
    /\ p # <<>> => p[1].do \notin {"start", "outage", "restart"}
    /\ \A j \in 1 .. Len(p) : p[j].do \in Readying \cup Probing

\* Two ordered lists of commands, one after the other, are ordered.
LEMMA JoinFollows ==
    ASSUME NEW p \in Seq(Commands), NEW q \in Seq(Commands), Follows(p), Follows(q),
           q # <<>> => q[1].do \notin {"start", "outage", "restart"}
    PROVE  Follows(p \o q) /\ Outages(p \o q) = Outages(p) \cup Outages(q)
<1> DEFINE r == p \o q
<1>1. /\ Len(p) \in Nat /\ Len(q) \in Nat /\ Len(r) = Len(p) + Len(q)
      /\ \A j \in 1 .. Len(p) : r[j] = p[j]
      /\ \A j \in 1 .. Len(q) : r[j + Len(p)] = q[j]
  OBVIOUS
<1> HIDE DEF r
<1>2. \A j \in 1 .. Len(r) : j \in 1 .. Len(p) \/ j - Len(p) \in 1 .. Len(q)
  BY <1>1
<1>3. ASSUME NEW j \in 1 .. Len(r)
      PROVE  /\ r[j].do \in {"stop", "outage", "restart"} => r[j].on \in Services
             /\ r[j].do = "stop" => j < Len(r) /\ r[j + 1] = Command("outage", r[j].on)
             /\ r[j].do = "outage" => j < Len(r) /\ r[j + 1] = Command("restart", r[j].on)
             /\ r[j].do = "outage" /\ j > 1 => r[j - 1] = Command("stop", r[j].on)
             /\ r[j].do = "restart" /\ j > 1 => r[j - 1] = Command("outage", r[j].on)
             /\ r[j].do = "start" => j = 1 /\ r[j].on = "all"
  <2>1. CASE j \in 1 .. Len(p)
    <3>1. r[j] = p[j] /\ (j < Len(p) => j < Len(r) /\ r[j + 1] = p[j + 1]) /\ (j > 1 => r[j - 1] = p[j - 1])
      BY <1>1, <2>1
    <3> QED BY <2>1, <3>1 DEF Follows
  <2>2. CASE j - Len(p) \in 1 .. Len(q)
    <3>1. PICK k \in 1 .. Len(q) : k = j - Len(p)
      BY <2>2
    <3>2. /\ r[j] = q[k] /\ (k < Len(q) => j < Len(r) /\ r[j + 1] = q[k + 1])
          /\ (k > 1 => j > 1 /\ r[j - 1] = q[k - 1])
      <4>1. j = k + Len(p) /\ j + 1 = (k + 1) + Len(p) /\ j - 1 = (k - 1) + Len(p)
        BY <1>1, <3>1
      <4>2. k < Len(q) => k + 1 \in 1 .. Len(q) /\ j < Len(r)
        BY <1>1, <4>1
      <4>3. k > 1 => k - 1 \in 1 .. Len(q) /\ j > 1
        BY <1>1, <4>1
      <4> QED BY <1>1, <4>1, <4>2, <4>3
    <3>3. r[j].do \in {"outage", "restart", "start"} => k > 1
      <4>1. k = 1 => q # <<>> /\ r[j] = q[1]
        BY <1>1, <3>2
      <4>2. k = 1 \/ k > 1
        BY <1>1
      <4> QED BY <4>1, <4>2
    <3>4. r[j].do # "start"
      BY <3>2, <3>3 DEF Follows
    <3> QED BY <3>2, <3>3, <3>4 DEF Follows
  <2> QED BY <1>2, <2>1, <2>2
<1>4. Follows(r)
  BY <1>3 DEF Follows
<1>5. \A s : s \in Outages(r) => s \in Outages(p) \cup Outages(q)
  <2>1. ASSUME NEW k \in 1 .. Len(r), r[k].do = "outage" PROVE r[k].on \in Outages(p) \cup Outages(q)
    <3>1. CASE k \in 1 .. Len(p)
      BY <1>1, <2>1, <3>1 DEF Outages
    <3>2. CASE k - Len(p) \in 1 .. Len(q)
      <4>1. r[k] = q[k - Len(p)]
        <5>1. r[(k - Len(p)) + Len(p)] = q[k - Len(p)] /\ k = (k - Len(p)) + Len(p)
          BY <1>1, <3>2
        <5> QED BY <5>1
      <4> QED BY <2>1, <3>2, <4>1 DEF Outages
    <3> QED BY <1>2, <3>1, <3>2
  <2> QED BY <2>1 DEF Outages
<1>6. \A s : s \in Outages(p) \cup Outages(q) => s \in Outages(r)
  <2>1. ASSUME NEW k \in 1 .. Len(p), p[k].do = "outage" PROVE p[k].on \in Outages(r)
    <3>1. k \in 1 .. Len(r) /\ r[k] = p[k]
      BY <1>1
    <3> QED BY <2>1, <3>1 DEF Outages
  <2>2. ASSUME NEW k \in 1 .. Len(q), q[k].do = "outage" PROVE q[k].on \in Outages(r)
    <3>1. k + Len(p) \in 1 .. Len(r) /\ r[k + Len(p)] = q[k]
      BY <1>1
    <3> QED BY <2>2, <3>1 DEF Outages
  <2> QED BY <2>1, <2>2 DEF Outages
<1> QED BY <1>4, <1>5, <1>6 DEF r

\* Two pieces, one after the other, are a piece.
LEMMA JoinPieces ==
    ASSUME NEW p, NEW q, NEW some, NEW others, Piece(p, some), Piece(q, others)
    PROVE  Piece(p \o q, some \cup others)
<1>1. /\ p \in Seq(Commands) /\ q \in Seq(Commands) /\ p \o q \in Seq(Commands)
      /\ Follows(p \o q) /\ Outages(p \o q) = some \cup others
  BY JoinFollows DEF Piece
<1>2. /\ Len(p) \in Nat /\ Len(q) \in Nat /\ Len(p \o q) = Len(p) + Len(q)
      /\ \A j \in 1 .. Len(p) : (p \o q)[j] = p[j]
      /\ \A j \in 1 .. Len(q) : (p \o q)[j + Len(p)] = q[j]
  BY <1>1
<1>3. p \o q # <<>> => (p \o q)[1].do \notin {"start", "outage", "restart"}
  <2>1. CASE p = <<>>
    <3>1. p \o q = q
      BY <1>1, <2>1
    <3> QED BY <3>1 DEF Piece
  <2>2. CASE p # <<>>
    <3>1. 1 \in 1 .. Len(p)
      BY <1>1, <2>2
    <3> QED BY <1>2, <2>2, <3>1 DEF Piece
  <2> QED BY <2>1, <2>2
<1>4. ASSUME NEW j \in 1 .. Len(p \o q) PROVE (p \o q)[j].do \in Readying \cup Probing
  <2>1. CASE j \in 1 .. Len(p)
    BY <1>2, <2>1 DEF Piece
  <2>2. CASE j \notin 1 .. Len(p)
    <3>1. j - Len(p) \in 1 .. Len(q) /\ j = (j - Len(p)) + Len(p)
      BY <1>2, <2>2
    <3>2. (p \o q)[j] = q[j - Len(p)]
      BY <1>2, <3>1
    <3> QED BY <3>1, <3>2 DEF Piece
  <2> QED BY <2>1, <2>2
<1> QED BY <1>1, <1>3, <1>4 DEF Piece

\* No command is a piece.
LEMMA NothingIsPiece == Piece(<<>>, {})
BY DEF Piece, Follows, Outages

\* A check is a piece.
LEMMA CheckIsPiece ==
    ASSUME NEW what \in {"queue", "readiness", "alerts", "load"}
    PROVE  Piece(<<Command("check", what)>>, {})
<1> DEFINE p == <<Command("check", what)>>
<1>1. Command("check", what) \in Commands
  BY DEF Command, Commands
<1>2. p \in Seq(Commands) /\ Len(p) = 1 /\ p[1] = Command("check", what)
  BY <1>1
<1> HIDE DEF p
<1>3. \A j \in 1 .. Len(p) : p[j].do = "check"
  BY <1>2 DEF Command
<1>4. Follows(p) /\ Outages(p) = {}
  BY <1>3 DEF Follows, Outages
<1> QED BY <1>2, <1>3, <1>4 DEF Piece, Probing, p

\* The checks of a drill are a piece.
LEMMA ChecksArePiece == \A s : Piece(Checks(s), {})
<1> SUFFICES ASSUME NEW s PROVE Piece(Checks(s), {})
  OBVIOUS
<1>1. CASE s = "outage"
  BY <1>1, CheckIsPiece DEF Checks
<1>2. CASE s # "outage"
  <2> DEFINE a == <<Command("check", "readiness")>>
             b == <<Command("check", "alerts")>>
             c == <<Command("check", "load")>>
  <2>1. Checks(s) = (a \o b) \o c
    BY <1>2 DEF Checks
  <2>2. Piece(a, {}) /\ Piece(b, {}) /\ Piece(c, {})
    BY CheckIsPiece
  <2> HIDE DEF a, b, c
  <2>3. Piece(a \o b, {} \cup {})
    BY ONLY <2>2, JoinPieces
  <2>4. Piece((a \o b) \o c, ({} \cup {}) \cup {})
    BY ONLY <2>2, <2>3, JoinPieces
  <2>5. ({} \cup {}) \cup {} = {}
    OBVIOUS
  <2> QED BY ONLY <2>1, <2>4, <2>5
<1> QED BY <1>1, <1>2

\* The probe of one service: stopped, seen, started again.
LEMMA ProbeIsPiece ==
    ASSUME NEW s, NEW service \in Services
    PROVE  Piece(Probe(s, service), {service})
<1> DEFINE p == <<Command("stop", service), Command("outage", service), Command("restart", service)>>
<1>1. /\ Command("stop", service) \in Commands /\ Command("outage", service) \in Commands
      /\ Command("restart", service) \in Commands
  BY DEF Command, Commands
<1>2. /\ p \in Seq(Commands) /\ Len(p) = 3 /\ p[1] = Command("stop", service)
      /\ p[2] = Command("outage", service) /\ p[3] = Command("restart", service)
  BY <1>1
<1> HIDE DEF p
<1>3. /\ p[1].do = "stop" /\ p[2].do = "outage" /\ p[3].do = "restart"
      /\ p[1].on = service /\ p[2].on = service /\ p[3].on = service
  BY <1>2 DEF Command
<1>4. ASSUME NEW j \in 1 .. Len(p)
      PROVE  (j = 1 \/ j = 2 \/ j = 3) /\ (1 < Len(p) /\ 2 < Len(p))
  BY <1>2
<1>5. Follows(p)
  <2>1. ASSUME NEW j \in 1 .. Len(p)
        PROVE  /\ p[j].do \in {"stop", "outage", "restart"} => p[j].on \in Services
               /\ p[j].do = "stop" => j < Len(p) /\ p[j + 1] = Command("outage", p[j].on)
               /\ p[j].do = "outage" => j < Len(p) /\ p[j + 1] = Command("restart", p[j].on)
               /\ p[j].do = "outage" /\ j > 1 => p[j - 1] = Command("stop", p[j].on)
               /\ p[j].do = "restart" /\ j > 1 => p[j - 1] = Command("outage", p[j].on)
               /\ p[j].do = "start" => j = 1 /\ p[j].on = "all"
    <3>1. CASE j = 1
      BY <1>2, <1>3, <3>1
    <3>2. CASE j = 2
      BY <1>2, <1>3, <3>2
    <3>3. CASE j = 3
      BY <1>2, <1>3, <3>3
    <3> QED BY <1>4, <3>1, <3>2, <3>3
  <2> QED BY <2>1 DEF Follows
<1>6. Outages(p) = {service}
  <2>1. {k \in 1 .. Len(p) : p[k].do = "outage"} = {2}
    BY <1>2, <1>3, <1>4
  <2> QED BY <1>3, <2>1 DEF Outages
<1>7. Piece(p, {service})
  <2>1. \A j \in 1 .. Len(p) : p[j].do \in Probing
    BY <1>3, <1>4 DEF Probing
  <2> QED BY <1>2, <1>3, <1>5, <1>6, <2>1 DEF Piece
<1>8. Piece(p \o Checks(s), {service} \cup {})
  BY <1>7, ChecksArePiece, JoinPieces
<1>9. Probe(s, service) = p \o Checks(s)
  BY DEF Probe, p
<1> QED BY <1>8, <1>9

\* The probes of every service of a drill are a piece.
LEMMA OutageProgramIsPiece ==
    ASSUME NEW s \in {"outage", "jitter"},
           NEW services \in {<<"redis">>, <<"mysql">>, <<"redis", "mysql">>}
    PROVE  Piece(OutageProgram(s, services), {services[i] : i \in DOMAIN services})
<1> DEFINE some == {services[i] : i \in DOMAIN services}
           probing == IF Len(services) = 2 THEN Probe(s, services[1]) \o Probe(s, services[2])
                      ELSE Probe(s, services[1])
           last == IF s = "jitter" THEN <<Command("check", "alerts")>> ELSE <<>>
<1>1. Piece(probing, some)
  <2>1. services[1] \in Services
    BY DEF Services
  <2>2. CASE Len(services) = 2
    <3>1. services[2] \in Services /\ some = {services[1]} \cup {services[2]}
      BY <2>2 DEF Services
    <3>2. Piece(Probe(s, services[1]), {services[1]}) /\ Piece(Probe(s, services[2]), {services[2]})
      BY <2>1, <3>1, ProbeIsPiece
    <3>3. Piece(Probe(s, services[1]) \o Probe(s, services[2]), {services[1]} \cup {services[2]})
      BY ONLY <3>2, JoinPieces
    <3>4. probing = Probe(s, services[1]) \o Probe(s, services[2])
      BY <2>2
    <3> QED BY ONLY <3>1, <3>3, <3>4
  <2>3. CASE Len(services) # 2
    <3>1. some = {services[1]}
      BY <2>3
    <3> QED BY <2>1, <2>3, <3>1, ProbeIsPiece
  <2> QED BY <2>2, <2>3
<1>2. Piece(last, {})
  BY NothingIsPiece, CheckIsPiece
<1>3. Piece(Checks(s), {})
  BY ChecksArePiece
<1>4. OutageProgram(s, services) = (Checks(s) \o probing) \o last
  BY DEF OutageProgram
<1> HIDE DEF some, probing, last
<1>5. Piece(Checks(s) \o probing, {} \cup some)
  BY ONLY <1>1, <1>3, JoinPieces
<1>6. Piece((Checks(s) \o probing) \o last, ({} \cup some) \cup {})
  BY ONLY <1>2, <1>5, JoinPieces
<1>7. ({} \cup some) \cup {} = some
  OBVIOUS
<1> QED BY ONLY <1>4, <1>6, <1>7 DEF some

\* What a drill does to set itself up.
LEMMA SetupIs ==
    ASSUME NEW s \in {"outage", "jitter", "stability", "workflow"}, NEW setup \in Setups(s)
    PROVE  /\ setup \in Seq(Commands)
           /\ \A j \in 1 .. Len(setup) :
                 /\ setup[j].do \in Readying
                 /\ setup[j].do = "start" => j = 1 /\ setup[j].on = "all"
<1> DEFINE Ready(p) ==
        /\ p \in Seq(Commands)
        /\ \A j \in 1 .. Len(p) : p[j].do \in Readying
                                  /\ (p[j].do = "start" => j = 1 /\ p[j].on = "all")
<1>1. /\ Command("start", "all") \in Commands /\ Command("setup", "init") \in Commands
      /\ Command("setup", "api") \in Commands
  BY DEF Command, Commands
<1>2. /\ Command("start", "all").do = "start" /\ Command("start", "all").on = "all"
      /\ Command("setup", "init").do = "setup" /\ Command("setup", "api").do = "setup"
  BY DEF Command
<1>3. PICK start, init, api :
          /\ start = Command("start", "all") /\ init = Command("setup", "init")
          /\ api = Command("setup", "api")
  OBVIOUS
<1>4. /\ start \in Commands /\ init \in Commands /\ api \in Commands
      /\ start.do = "start" /\ start.on = "all" /\ init.do = "setup" /\ api.do = "setup"
  BY <1>1, <1>2, <1>3
<1>5. setup \in {<<>>, <<start>>, <<init>>, <<start, init>>, <<start, api>>, <<start, api, init>>}
  BY <1>3 DEF Setups
<1>6. "start" \in Readying /\ "setup" \in Readying /\ "setup" # "start"
  BY DEF Readying
<1>7. Ready(<<>>) /\ Ready(<<start>>) /\ Ready(<<init>>)
  BY <1>4, <1>6
<1>8. Ready(<<start, init>>) /\ Ready(<<start, api>>)
  BY <1>4, <1>6
<1>9. Ready(<<start, api, init>>)
  BY <1>4, <1>6
<1> QED BY <1>5, <1>7, <1>8, <1>9

\* The setup of a drill is ordered and has no outage.
LEMMA SetupFollows ==
    ASSUME NEW setup \in Seq(Commands),
           \A j \in 1 .. Len(setup) :
                 /\ setup[j].do \in Readying
                 /\ setup[j].do = "start" => j = 1 /\ setup[j].on = "all"
    PROVE  Follows(setup) /\ Outages(setup) = {}
<1>1. \A j \in 1 .. Len(setup) : setup[j].do \notin {"stop", "outage", "restart"}
  BY DEF Readying
<1> QED BY <1>1 DEF Follows, Outages

\* Where the commands of two lists stand once they are joined.
LEMMA JoinIs ==
    ASSUME NEW p \in Seq(Commands), NEW q \in Seq(Commands)
    PROVE  /\ p \o q \in Seq(Commands) /\ Len(p \o q) = Len(p) + Len(q)
           /\ Len(p) \in Nat /\ Len(q) \in Nat
           /\ \A j \in 1 .. Len(p) : (p \o q)[j] = p[j]
           /\ \A j \in 1 .. Len(q) : (p \o q)[j + Len(p)] = q[j]
OBVIOUS

\* The workers are run, the jobs submitted, the workers removed.
LEMMA WorkerProgramIs ==
    /\ WorkerProgram \in Seq(Commands) /\ Len(WorkerProgram) = 2 * Crew + 1 /\ Crew \in Nat \ {0}
    /\ \A j \in 1 .. 2 * Crew + 1 :
          /\ j <= Crew => WorkerProgram[j] = Command("run", WorkerNames[j])
          /\ j = Crew + 1 => WorkerProgram[j].do = "submit"
          /\ j > Crew + 1 => WorkerProgram[j] = Command("remove", WorkerNames[j - (Crew + 1)])
<1> DEFINE runs_ == [i \in DOMAIN WorkerNames |-> Command("run", WorkerNames[i])]
           submit_ == <<Command("submit", "jobs")>>
           removal_ == Removal(Len(WorkerNames))
<1>1. Crew \in Nat \ {0} /\ DOMAIN WorkerNames = 1 .. Crew
      /\ \A i \in 1 .. Crew : WorkerNames[i] \in Workers
  BY DrillConstants
<1>2. \A i \in 1 .. Crew : Command("run", WorkerNames[i]) \in Commands
  BY <1>1 DEF Command, Commands
<1>3. /\ runs_ \in Seq(Commands) /\ Len(runs_) = Crew
      /\ \A i \in 1 .. Crew : runs_[i] = Command("run", WorkerNames[i])
  BY <1>1, <1>2
<1>4. submit_ \in Seq(Commands) /\ Len(submit_) = 1 /\ submit_[1].do = "submit"
  <2>1. Command("submit", "jobs") \in Commands /\ Command("submit", "jobs").do = "submit"
    BY DEF Command, Commands
  <2> QED BY <2>1
<1>5. /\ removal_ \in Seq(Commands) /\ Len(removal_) = Crew
      /\ \A i \in 1 .. Crew : removal_[i] = Command("remove", WorkerNames[i])
  <2>1. removal_ = Removal(Crew) /\ Crew \in 0 .. Crew
    BY <1>1 DEF Crew
  <2> QED BY <2>1, RemovalIs
<1>6. WorkerProgram = (runs_ \o submit_) \o removal_
  BY DEF WorkerProgram
<1> HIDE DEF runs_, submit_, removal_
<1>7. /\ runs_ \o submit_ \in Seq(Commands) /\ Len(runs_ \o submit_) = Crew + 1
      /\ \A j \in 1 .. Crew : (runs_ \o submit_)[j] = runs_[j]
      /\ (runs_ \o submit_)[Crew + 1] = submit_[1]
  <2>1. /\ runs_ \o submit_ \in Seq(Commands) /\ Len(runs_ \o submit_) = Len(runs_) + Len(submit_)
        /\ \A j \in 1 .. Len(runs_) : (runs_ \o submit_)[j] = runs_[j]
        /\ \A j \in 1 .. Len(submit_) : (runs_ \o submit_)[j + Len(runs_)] = submit_[j]
    BY ONLY <1>3, <1>4, JoinIs
  <2>2. (runs_ \o submit_)[1 + Crew] = submit_[1] /\ 1 + Crew = Crew + 1
    BY <1>1, <1>3, <1>4, <2>1
  <2> QED BY <1>1, <1>3, <1>4, <2>1, <2>2
<1>8. PICK front : front = runs_ \o submit_
  OBVIOUS
<1>9. /\ front \o removal_ \in Seq(Commands) /\ Len(front \o removal_) = 2 * Crew + 1
      /\ \A j \in 1 .. Crew + 1 : (front \o removal_)[j] = front[j]
      /\ \A i \in 1 .. Crew : (front \o removal_)[i + (Crew + 1)] = removal_[i]
  <2>1. front \in Seq(Commands) /\ Len(front) = Crew + 1
    BY ONLY <1>7, <1>8
  <2>2. /\ front \o removal_ \in Seq(Commands) /\ Len(front \o removal_) = Len(front) + Len(removal_)
        /\ \A j \in 1 .. Len(front) : (front \o removal_)[j] = front[j]
        /\ \A j \in 1 .. Len(removal_) : (front \o removal_)[j + Len(front)] = removal_[j]
    BY ONLY <1>5, <2>1, JoinIs
  <2> QED BY <1>1, <1>5, <2>1, <2>2
<1>10. ASSUME NEW j \in 1 .. 2 * Crew + 1
       PROVE  /\ j <= Crew => WorkerProgram[j] = Command("run", WorkerNames[j])
              /\ j = Crew + 1 => WorkerProgram[j].do = "submit"
              /\ j > Crew + 1 => WorkerProgram[j] = Command("remove", WorkerNames[j - (Crew + 1)])
  <2>1. j <= Crew => WorkerProgram[j] = Command("run", WorkerNames[j])
    BY <1>1, <1>3, <1>6, <1>7, <1>8, <1>9
  <2>2. j = Crew + 1 => WorkerProgram[j].do = "submit"
    BY <1>1, <1>4, <1>6, <1>7, <1>8, <1>9
  <2>3. ASSUME j > Crew + 1 PROVE WorkerProgram[j] = Command("remove", WorkerNames[j - (Crew + 1)])
    <3>1. j - (Crew + 1) \in 1 .. Crew /\ (j - (Crew + 1)) + (Crew + 1) = j
      BY <1>1, <2>3
    <3> QED BY <1>5, <1>6, <1>8, <1>9, <3>1
  <2> QED BY <2>1, <2>2, <2>3
<1> QED BY <1>1, <1>6, <1>8, <1>9, <1>10

\* A drill begins with all its commands to do.
LEMMA DrillInitHolds ==
    ASSUME DrillsInit
    PROVE  DrillInv
<1>1. PICK setup \in Setups(script) :
          /\ up \in IF setup # <<>> /\ setup[1].do = "start" THEN SUBSET Services ELSE {Services}
          /\ IF StartsWorkers
             THEN probes = <<>> /\ todo = setup \o WorkerProgram
             ELSE /\ probes \in {<<"redis">>, <<"mysql">>, <<"redis", "mysql">>}
                  /\ todo = setup \o OutageProgram(script, probes)
  BY DEF DrillsInit
<1>2. /\ script \in {"outage", "jitter", "stability", "workflow"} /\ rounds \in RoundCounts
      /\ begun = 0 /\ raised = FALSE /\ clean = TRUE
      /\ containers = {} /\ doing = [w \in Workers |-> 0]
      /\ job = [n \in Numbers |-> "none"] /\ registry = {}
      /\ submitter = "none" /\ round = 1 /\ seen = {} /\ trouble = {}
  BY DEF DrillsInit
<1>3. /\ setup \in Seq(Commands) /\ Follows(setup) /\ Outages(setup) = {}
      /\ \A j \in 1 .. Len(setup) :
            setup[j].do \in Readying /\ (setup[j].do = "start" => j = 1 /\ setup[j].on = "all")
  BY <1>1, <1>2, SetupIs, SetupFollows
<1>4. PICK program \in Seq(Commands) :
          /\ program = IF StartsWorkers THEN WorkerProgram ELSE OutageProgram(script, probes)
          /\ todo = setup \o program /\ Follows(program)
          /\ program # <<>> => program[1].do \notin {"start", "outage", "restart"}
          /\ Outages(program) = {probes[i] : i \in DOMAIN probes}
          /\ ~StartsWorkers => \A j \in 1 .. Len(program) : program[j].do \in Readying \cup Probing
  <2>1. CASE StartsWorkers
    <3>1. probes = <<>> /\ todo = setup \o WorkerProgram
      BY <1>1, <2>1
    <3>2. /\ WorkerProgram \in Seq(Commands) /\ Len(WorkerProgram) = 2 * Crew + 1
          /\ Crew \in Nat \ {0}
          /\ \A j \in 1 .. 2 * Crew + 1 : WorkerProgram[j].do \in {"run", "submit", "remove"}
      BY WorkerProgramIs DEF Command
    <3> HIDE DEF WorkerProgram
    <3>3. Follows(WorkerProgram) /\ Outages(WorkerProgram) = {}
      BY <3>2 DEF Follows, Outages
    <3>4. WorkerProgram[1].do \notin {"start", "outage", "restart"}
      <4>1. 1 \in 1 .. 2 * Crew + 1
        BY <3>2
      <4> QED BY <3>2, <4>1
    <3>5. {probes[i] : i \in DOMAIN probes} = {}
      BY <3>1
    <3> QED BY <2>1, <3>1, <3>2, <3>3, <3>4, <3>5
  <2>2. CASE ~StartsWorkers
    <3>1. /\ script \in {"outage", "jitter"}
          /\ probes \in {<<"redis">>, <<"mysql">>, <<"redis", "mysql">>}
          /\ todo = setup \o OutageProgram(script, probes)
      BY <1>1, <1>2, <2>2 DEF StartsWorkers
    <3>2. Piece(OutageProgram(script, probes), {probes[i] : i \in DOMAIN probes})
      BY <3>1, OutageProgramIsPiece
    <3> QED BY <2>2, <3>1, <3>2 DEF Piece
  <2> QED BY <2>1, <2>2
<1>5. /\ todo \in Seq(Commands) /\ Follows(todo)
      /\ Outages(todo) = {} \cup {probes[i] : i \in DOMAIN probes}
  <2>1. /\ Follows(setup \o program)
        /\ Outages(setup \o program) = Outages(setup) \cup Outages(program)
    BY <1>3, <1>4, JoinFollows
  <2>2. setup \o program \in Seq(Commands)
    BY <1>3, <1>4, JoinIs
  <2> QED BY <1>3, <1>4, <2>1, <2>2
<1>6. /\ Len(setup) \in Nat /\ Len(program) \in Nat /\ Len(todo) = Len(setup) + Len(program)
      /\ \A j \in 1 .. Len(setup) : todo[j] = setup[j]
      /\ \A j \in 1 .. Len(program) : todo[j + Len(setup)] = program[j]
  BY <1>3, <1>4, JoinIs
<1>7. todo # <<>> /\ setup # <<>> => todo[1] = setup[1]
  BY <1>3, <1>6
<1>8. Crew \in Nat \ {0}
  BY DrillConstants
<1>9. DrillTypes
  <2>1. rounds \in Nat \ {0}
    BY <1>2, NumbersAre
  <2>2. 1 \in 1 .. rounds /\ 0 \in 0 .. Crew
    BY <1>8, <2>1
  <2>3. probes \in {<<>>, <<"redis">>, <<"mysql">>, <<"redis", "mysql">>} /\ up \subseteq Services
    BY <1>1
  <2>4. doing \in [Workers -> {0} \cup Numbers]
        /\ job \in [Numbers -> {"none", "queued", "running", "succeeded", "failed"}]
    BY <1>2
  <2> QED BY <1>2, <1>5, <2>2, <2>3, <2>4 DEF DrillTypes
<1>10. InOrder
  <2>1. CASE ~StartsWorkers
    <3>1. OfProbing
      <4>1. ASSUME NEW j \in 1 .. Len(todo) PROVE todo[j].do \in Readying \cup Probing
        <5>1. CASE j \in 1 .. Len(setup)
          BY <1>3, <1>6, <5>1
        <5>2. CASE j \notin 1 .. Len(setup)
          <6>1. j - Len(setup) \in 1 .. Len(program) /\ j = (j - Len(setup)) + Len(setup)
            BY <1>6, <5>2
          <6>2. todo[j] = program[j - Len(setup)]
            BY <1>6, <6>1
          <6> QED BY <1>4, <2>1, <6>1, <6>2
        <5> QED BY <5>1, <5>2
      <4> QED BY <4>1 DEF OfProbing
    <3> QED BY <1>2, <1>5, <2>1, <3>1 DEF InOrder
  <2>2. CASE StartsWorkers
    <3>1. /\ program = WorkerProgram /\ Len(program) = 2 * Crew + 1
          /\ \A j \in 1 .. 2 * Crew + 1 :
                /\ j <= Crew => program[j] = Command("run", WorkerNames[j])
                /\ j = Crew + 1 => program[j].do = "submit"
                /\ j > Crew + 1 => program[j] = Command("remove", WorkerNames[j - (Crew + 1)])
      BY <1>4, <2>2, WorkerProgramIs
    <3>2. ASSUME NEW j \in 1 .. Len(todo)
          PROVE  LET after == Len(todo) - j
                 IN  /\ after < Crew => todo[j] = Command("remove", WorkerNames[Crew - after])
                     /\ after = Crew => todo[j].do = "submit"
                     /\ Crew < after /\ after <= 2 * Crew =>
                           todo[j] = Command("run", WorkerNames[2 * Crew + 1 - after])
                     /\ after > 2 * Crew => todo[j].do \in Readying
      <4>1. CASE j \in 1 .. Len(setup)
        <5>1. Len(todo) - j > 2 * Crew
          BY <1>6, <1>8, <3>1, <4>1
        <5>2. ~(Len(todo) - j < Crew) /\ Len(todo) - j # Crew /\ ~(Len(todo) - j <= 2 * Crew)
          BY <1>6, <1>8, <5>1
        <5> QED BY <1>3, <1>6, <4>1, <5>2
      <4>2. CASE j \notin 1 .. Len(setup)
        <5>1. PICK k \in 1 .. 2 * Crew + 1 : k = j - Len(setup)
          BY <1>6, <3>1, <4>2
        <5>2. /\ Len(todo) - j = 2 * Crew + 1 - k /\ j = k + Len(setup) /\ k \in Nat
          BY <1>6, <1>8, <3>1, <5>1
        <5>3. todo[j] = program[k]
          BY <1>6, <3>1, <5>2
        <5>4. /\ 2 * Crew + 1 - k < Crew => k > Crew + 1 /\ Crew - (2 * Crew + 1 - k) = k - (Crew + 1)
              /\ 2 * Crew + 1 - k = Crew => k = Crew + 1
              /\ Crew < 2 * Crew + 1 - k => k <= Crew /\ 2 * Crew + 1 - (2 * Crew + 1 - k) = k
              /\ ~(2 * Crew + 1 - k > 2 * Crew)
          BY <1>8, <5>1
        <5> QED BY <3>1, <5>2, <5>3, <5>4
      <4> QED BY <4>1, <4>2
    <3>3. RemovesFrom(Crew)
      BY <3>2 DEF RemovesFrom
    <3>4. Len(todo) > 2 * Crew
      BY <1>6, <1>8, <3>1
    <3>5. OfWorkers
      BY <1>2, <3>2, <3>3, <3>4 DEF OfWorkers
    <3> QED BY <1>5, <2>2, <3>5 DEF InOrder
  <2> QED BY <2>1, <2>2
<1>11. ServicesReturn
  <2>1. CASE setup # <<>> /\ setup[1].do = "start"
    <3>1. todo # <<>> /\ todo[1].do = "start"
      <4>1. 1 \in 1 .. Len(setup)
        BY <1>3, <2>1
      <4> QED BY <1>6, <2>1, <4>1
    <3> QED BY <3>1 DEF ServicesReturn
  <2>2. CASE ~(setup # <<>> /\ setup[1].do = "start")
    BY <1>1, <2>2 DEF ServicesReturn
  <2> QED BY <2>1, <2>2
<1>12. ContainersGo /\ TroubleTells
  BY <1>2 DEF ContainersGo, TroubleTells
<1>13. OutagesSeen
  <2>1. todo # <<>> => todo[1].do # "outage"
    <3> SUFFICES ASSUME todo # <<>> PROVE todo[1].do # "outage"
      OBVIOUS
    <3>1. CASE setup # <<>>
      <4>1. 1 \in 1 .. Len(setup)
        BY <1>3, <3>1
      <4> QED BY <1>3, <1>6, <4>1 DEF Readying
    <3>2. CASE setup = <<>>
      <4>1. todo = program
        BY <1>4, <3>2
      <4> QED BY <1>4, <4>1
    <3> QED BY <3>1, <3>2
  <2> QED BY <1>2, <1>5, <2>1 DEF OutagesSeen
<1>14. RoundsDone
  <2>1. ~(StartsWorkers /\ Len(todo) <= Crew)
    <3>1. StartsWorkers => Len(program) = 2 * Crew + 1
      BY <1>4, WorkerProgramIs
    <3> QED BY <1>6, <1>8, <3>1
  <2> QED BY <1>2, <2>1 DEF RoundsDone
<1> QED BY <1>9, <1>10, <1>11, <1>12, <1>13, <1>14 DEF DrillInv

\* The list of commands of a drill is in order, what it leaves has its cause in
\* the trouble it met, and the submitter's rounds are done one after the other.
THEOREM DrillInvariant == ScriptsSpec => []DrillInv
<1>1. ScriptsInit => DrillInv
  BY DrillInitHolds DEF ScriptsInit
<1>2. DrillInv /\ [ScriptsNext]_scriptVars => DrillInv'
  <2>1. CASE UNCHANGED drillVars
    BY <2>1, DrillUnchanged
  <2>2. UNCHANGED scriptVars => UNCHANGED drillVars
    BY DEF scriptVars
  <2> QED BY <2>1, <2>2, DrillsNextStep, DrillPart
<1> QED BY <1>1, <1>2, PTL DEF ScriptsSpec

\* Whoever is blamed for a service that is down has raised something.
LEMMA BlameTells ==
    ASSUME DrillInv
    PROVE  \A s \in Services : ServiceBlamed(s) => raised
<1>1. \A x \in trouble : x[1] \in {"start", "stop", "restart", "run"} => raised
  BY DEF DrillInv, TroubleTells
<1>2. \A y : /\ <<"start", y>> \in trouble => raised
             /\ <<"stop", y>> \in trouble => raised
             /\ <<"restart", y>> \in trouble => raised
  BY <1>1
<1> QED BY <1>2 DEF ServiceBlamed

\* What is left running has its cause.
LEMMA LeftoversFollow == DrillInv => LeftoversHaveCause
<1> SUFFICES ASSUME DrillInv, todo = <<>> PROVE LeftoversHaveCause
  BY DEF LeftoversHaveCause, Over
<1>1. \A s \in Services \ up : ServiceBlamed(s)
  BY DEF DrillInv, ServicesReturn
<1>2. \A i \in 1 .. Crew : WorkerNames[i] \in containers => ContainerBlamed(i)
  <2>1. 1 .. Len(todo) = {}
    OBVIOUS
  <2> QED BY <2>1 DEF DrillInv, ContainersGo, RemovalToCome
<1>3. DOMAIN WorkerNames = 1 .. Crew
  BY DrillConstants
<1> QED BY <1>1, <1>2, <1>3 DEF LeftoversHaveCause, ServiceBlamed, ContainerBlamed

\* A drill without trouble passes.
LEMMA UntroubledFollows == DrillInv => UntroubledDrillsPass
<1> SUFFICES ASSUME DrillInv, Over, trouble = {}, StartsWorkers => rounds <= RoundsKept
             PROVE  Passed /\ clean
  BY DEF UntroubledDrillsPass
<1>1. rounds \in Nat /\ RoundsKept \in Nat
  BY RoundIs, DrillsAssumption
<1> QED BY <1>1 DEF DrillInv, TroubleTells, Passed, DrillTypes

\* A drill that passed did what it was for.
LEMMA PassedFollows == DrillInv => PassedMeansDone
<1> SUFFICES ASSUME DrillInv, todo = <<>>, ~raised
             PROVE  /\ up = Services /\ seen = {probes[i] : i \in DOMAIN probes}
                    /\ registry = {}
                    /\ clean => containers = {}
                    /\ \A w \in containers : <<"remove", w>> \in trouble
                    /\ StartsWorkers => \A n \in 1 .. rounds * JobsPerRound : job[n] = "succeeded"
  BY DEF PassedMeansDone, Passed, Over
<1>1. up = Services
  BY BlameTells DEF DrillInv, DrillTypes, ServicesReturn
<1>2. seen = {probes[i] : i \in DOMAIN probes}
  <2>1. Outages(todo) = {}
    BY DEF Outages
  <2> QED BY <2>1 DEF DrillInv, OutagesSeen
<1>3. \A w \in containers : <<"remove", w>> \in trouble
  <2>1. ASSUME NEW i \in 1 .. Crew, WorkerNames[i] \in containers
        PROVE  <<"remove", WorkerNames[i]>> \in trouble
    <3>1. 1 .. Len(todo) = {}
      OBVIOUS
    <3> QED BY <2>1, <3>1 DEF DrillInv, ContainersGo, RemovalToCome
  <2> QED BY <2>1, DrillConstants DEF DrillInv, DrillTypes
<1>8. clean => containers = {}
  <2>1. \A x \in trouble : x[1] = "remove" => ~clean
    BY DEF DrillInv, TroubleTells
  <2>2. \A y : <<"remove", y>> \in trouble => ~clean
    BY <2>1
  <2> QED BY <1>3, <2>2
<1>4. StartsWorkers => submitter = "done"
  <2>1. Len(todo) <= Crew
    BY DrillConstants
  <2> QED BY <2>1 DEF DrillInv, RoundsDone
<1>5. ~StartsWorkers => submitter = "none"
  BY DEF DrillInv, InOrder
<1>6. registry = {}
  BY <1>4, <1>5 DEF DrillInv, RoundsDone
<1>7. ASSUME StartsWorkers, NEW n \in 1 .. rounds * JobsPerRound PROVE job[n] = "succeeded"
  <2>1. round = rounds /\ submitter = "done"
    BY <1>4, <1>7 DEF DrillInv, RoundsDone
  <2>2. n \in Numbers
    BY NumbersAre DEF DrillInv, DrillTypes
  <2>3. n <= round * JobsPerRound
    BY <2>1, RoundIs
  <2>4. n \in OfRound(round) \/ n \in 1 .. (round - 1) * JobsPerRound
    BY <2>2, <2>3, RoundIs
  <2> QED BY <2>1, <2>4 DEF DrillInv, RoundsDone
<1> QED BY <1>1, <1>2, <1>3, <1>6, <1>7, <1>8

\* Whichever command fails, and wherever: a service stays down, and a worker
\* container stays, only where a command on it did not end with 0.
THEOREM LeftoversCaused == ScriptsSpec => []LeftoversHaveCause
BY DrillInvariant, LeftoversFollow, PTL

\* A drill that met no trouble passes and its result is ok, for any number of
\* rounds, jobs and workers whose answer the submitter's output holds.
THEOREM UntroubledPass == ScriptsSpec => []UntroubledDrillsPass
BY DrillInvariant, UntroubledFollows, PTL

\* A drill that leaves with 0 has seen every outage, has its services back and its
\* jobs done, and a worker container it leaves is one whose own removal ended with
\* another code: nothing else stays behind an exit code of 0.
THEOREM PassedDone == ScriptsSpec => []PassedMeansDone
BY DrillInvariant, PassedFollows, PTL

-----------------------------------------------------------------------------
(* Releases: the invariant *)

ReleaseTypes ==
    /\ asked \subseteq Options /\ at \in 1 .. Len(SelectedChecks) + 1 /\ failed \in BOOLEAN
    /\ releaseCode \in {"unused", "running", "0", "1", "killed"}
    /\ collections \in [Collections -> {"none", "part", "older", "own"}]
    /\ smoke \in {"none", "health", "refusal", "answer", "stop", "over"}
    /\ verdict \in {"none", "passed", "failed", "raised"}
    /\ server \in {"none", "starting", "serving", "exited"}
    /\ port \in {"free", "own", "left", "other"}
    /\ firstFailed \in Nat /\ releases \in Nat

\* The checks that failed.
FailuresTell ==
    /\ firstFailed # 0 => (failed \/ releaseCode = "1") /\ ~Dry
    /\ firstFailed # 0 /\ "fail_fast" \in asked =>
          releaseCode = "1" /\ smoke = "none" /\ at <= firstFailed + 1
    /\ releaseCode = "0" => ~failed /\ at = Len(SelectedChecks) + 1
    /\ releaseCode = "unused" <=> releases = 0

\* As long as no check has failed, the ones that were run have written the
\* collections, from which the later ones read.
CollectionsOwn ==
    "skip_rag_eval" \notin asked /\ ~Dry /\ ~failed =>
        /\ at > 1 => collections["login"] = "own"
        /\ at > 2 => collections["refund"] = "own"
        /\ readers = {}

\* The smoke, its server and the port.
SmokeTells ==
    /\ smoke # "none" => at = Len(SelectedChecks) + 1 /\ SmokeDue
    /\ smoke \in {"none", "health", "refusal", "answer"} => verdict = "none"
    /\ smoke \in {"stop", "over"} => verdict # "none"
    /\ server = "serving" => port = "own"
    /\ smoke = "over" /\ verdict = "passed" => server = "none"
    /\ verdict = "passed" /\ releaseCode \in {"running", "0"} =>
          answered = "own" \/ (answered = port /\ port \in {"left", "other"})
    /\ releaseCode = "0" /\ SmokeDue => smoke = "over" /\ verdict = "passed"

ReleaseInv == ReleaseTypes /\ FailuresTell /\ CollectionsOwn /\ SmokeTells

\* The scripts that a release has called.
CallsTell ==
    /\ operator \in {"drill", "evaluation", "release"}
    /\ waitsFor \in {"none", "drill", "evaluation"}
    /\ calledBy \in [drill : {0, 1}, evaluation : {0, 1}]
    /\ Called => operator = "release" /\ releases = 1
    /\ waitsFor # "none" => AtCheck
    /\ ~failed /\ releaseCode \in {"running", "0"} =>
          /\ calledBy.drill # 0 /\ waitsFor # "drill" => Passed
          /\ calledBy.evaluation # 0 /\ waitsFor # "evaluation" => exitCode = "0"

-----------------------------------------------------------------------------
(* The checks of a release *)

Writers == {"login-rag-ingest", "refund-rag-ingest"}
LaterChecks ==
    {"login-rag-eval", "refund-rag-eval", "pytest-core", "type-check-test-agent", "frontend-test",
     "frontend-build", "test-plan-eval", "llm-test-plan-eval", "test-report-eval",
     "test-execution-eval", "test-agent-workflow-eval", "llm-test-agent-workflow-eval",
     "llm-test-agent-workflow-benchmark", "generation-recovery-smoke",
     "test-plan-execution-worker-smoke", "test-plan-execution-runtime-smoke",
     "runtime-dependency-outage-smoke", "rq-mysql-worker-stability-smoke",
     "test-agent-workflow-rq-mysql-smoke", "queue-alert-check", "monitoring-stack-smoke",
     "monitoring-rollout-check", "deployment-security-check", "monitoring-metrics-check",
     "readiness-check", "generation-queue-check", "test-plan-execution-queue-check",
     "test-agent-workflow-queue-check", "secret-scan", "git-diff-check"}

\* A list of checks that begins with the two that write the collections, which
\* are in it once.
WritersFirst(p) ==
    /\ p \in Seq(Writers \cup LaterChecks) /\ Len(p) >= 4
    /\ p[1] = "login-rag-ingest" /\ p[2] = "refund-rag-ingest"
    /\ \A i \in 3 .. Len(p) : p[i] \notin Writers

\* Checks that write no collection, after those that do.
LEMMA MoreChecks ==
    ASSUME NEW p, WritersFirst(p), NEW q \in Seq(LaterChecks)
    PROVE  WritersFirst(p \o q)
<1>1. p \in Seq(Writers \cup LaterChecks) /\ q \in Seq(Writers \cup LaterChecks)
  BY DEF WritersFirst
<1>2. /\ p \o q \in Seq(Writers \cup LaterChecks)
      /\ Len(p) \in Nat /\ Len(q) \in Nat /\ Len(p \o q) = Len(p) + Len(q)
      /\ \A j \in 1 .. Len(p) : (p \o q)[j] = p[j]
      /\ \A j \in 1 .. Len(q) : (p \o q)[j + Len(p)] = q[j]
  BY <1>1
<1>3. \A c \in LaterChecks : c \notin Writers
  BY DEF LaterChecks, Writers
<1>4. ASSUME NEW i \in 3 .. Len(p \o q) PROVE (p \o q)[i] \notin Writers
  <2>1. CASE i <= Len(p)
    BY <1>2, <2>1 DEF WritersFirst
  <2>2. CASE i > Len(p)
    <3>1. i - Len(p) \in 1 .. Len(q) /\ (i - Len(p)) + Len(p) = i
      BY <1>2, <2>2
    <3>2. (p \o q)[i] = q[i - Len(p)] /\ q[i - Len(p)] \in LaterChecks
      BY <1>2, <3>1
    <3> QED BY <1>3, <3>2
  <2> QED BY <1>2, <2>1, <2>2
<1> QED BY <1>2, <1>4 DEF WritersFirst

\* An option adds its checks, or none.
LEMMA Some ==
    ASSUME NEW S, NEW option, NEW names \in Seq(S)
    PROVE  Unless(option, names) \in Seq(S) /\ IfAsked(option, names) \in Seq(S)
BY DEF Unless, IfAsked

\* Later checks after later checks.
LEMMA LaterSeq ==
    ASSUME NEW p \in Seq(LaterChecks), NEW q \in Seq(LaterChecks)
    PROVE  p \o q \in Seq(LaterChecks)
OBVIOUS

\* The kinds of checks after those of the code.
LEMMA LaterAre ==
    /\ PlanChecks \in Seq(LaterChecks) /\ WorkflowChecks \in Seq(LaterChecks)
    /\ SmokeChecks \in Seq(LaterChecks) /\ DeploymentChecks \in Seq(LaterChecks)
<1>1. \A a \in LaterChecks : <<a>> \in Seq(LaterChecks)
  OBVIOUS
<1>2. \A a, b, c \in LaterChecks : <<a, b, c>> \in Seq(LaterChecks)
  OBVIOUS
<1>3. PlanChecks \in Seq(LaterChecks)
  <2>1. /\ "test-plan-eval" \in LaterChecks /\ "llm-test-plan-eval" \in LaterChecks
        /\ "test-report-eval" \in LaterChecks /\ "test-execution-eval" \in LaterChecks
    BY DEF LaterChecks
  <2>2. PICK p1, p2, p3, p4 \in Seq(LaterChecks) :
            PlanChecks = ((p1 \o p2) \o p3) \o p4
    BY <1>1, <2>1, Some DEF PlanChecks
  <2> QED BY <2>2, LaterSeq
<1>4. WorkflowChecks \in Seq(LaterChecks)
  <2>1. /\ "test-agent-workflow-eval" \in LaterChecks /\ "llm-test-agent-workflow-eval" \in LaterChecks
        /\ "llm-test-agent-workflow-benchmark" \in LaterChecks
    BY DEF LaterChecks
  <2>2. PICK p1, p2, p3 \in Seq(LaterChecks) : WorkflowChecks = (p1 \o p2) \o p3
    BY <1>1, <2>1, Some DEF WorkflowChecks
  <2> QED BY <2>2, LaterSeq
<1>5. SmokeChecks \in Seq(LaterChecks)
  <2>1. /\ "generation-recovery-smoke" \in LaterChecks
        /\ "test-plan-execution-worker-smoke" \in LaterChecks
        /\ "test-plan-execution-runtime-smoke" \in LaterChecks
        /\ "runtime-dependency-outage-smoke" \in LaterChecks
        /\ "rq-mysql-worker-stability-smoke" \in LaterChecks
        /\ "test-agent-workflow-rq-mysql-smoke" \in LaterChecks
    BY DEF LaterChecks
  <2>2. PICK p1, p2, p3, p4 \in Seq(LaterChecks) :
            SmokeChecks = ((p1 \o p2) \o p3) \o p4
    BY <1>1, <1>2, <2>1, Some DEF SmokeChecks
  <2> QED BY <2>2, LaterSeq
<1>6. DeploymentChecks \in Seq(LaterChecks)
  <2>1. /\ "queue-alert-check" \in LaterChecks /\ "monitoring-stack-smoke" \in LaterChecks
        /\ "monitoring-rollout-check" \in LaterChecks /\ "deployment-security-check" \in LaterChecks
        /\ "monitoring-metrics-check" \in LaterChecks /\ "readiness-check" \in LaterChecks
        /\ "generation-queue-check" \in LaterChecks
        /\ "test-plan-execution-queue-check" \in LaterChecks
        /\ "test-agent-workflow-queue-check" \in LaterChecks
        /\ "secret-scan" \in LaterChecks /\ "git-diff-check" \in LaterChecks
    BY DEF LaterChecks
  <2>2. PICK p1, p2, p3, p4, p5, p6, p7, p8, p9 \in Seq(LaterChecks) :
            DeploymentChecks = (((((((p1 \o p2) \o p3) \o p4) \o p5) \o p6) \o p7) \o p8) \o p9
    BY <1>1, <1>2, <2>1, Some DEF DeploymentChecks
  <2> QED BY <2>2, LaterSeq
<1> QED BY <1>3, <1>4, <1>5, <1>6

\* The collections are written before they are read.
LEMMA ChecksAre ==
    /\ SelectedChecks \in Seq(Writers \cup LaterChecks)
    /\ "skip_rag_eval" \notin asked => WritersFirst(SelectedChecks)
<1> DEFINE rag == Unless("skip_rag_eval", <<"login-rag-ingest", "refund-rag-ingest",
                                            "login-rag-eval", "refund-rag-eval">>)
           tests == Unless("skip_pytest", <<"pytest-core">>)
           types == Unless("skip_type_check", <<"type-check-test-agent">>)
           pages == IfAsked("include_frontend_check", <<"frontend-test", "frontend-build">>)
<1>1. tests \in Seq(LaterChecks) /\ types \in Seq(LaterChecks) /\ pages \in Seq(LaterChecks)
  <2>1. /\ "pytest-core" \in LaterChecks /\ "type-check-test-agent" \in LaterChecks
        /\ "frontend-test" \in LaterChecks /\ "frontend-build" \in LaterChecks
    BY DEF LaterChecks
  <2>2. \A a, b \in LaterChecks : <<a>> \in Seq(LaterChecks) /\ <<a, b>> \in Seq(LaterChecks)
    OBVIOUS
  <2> QED BY <2>1, <2>2, Some
<1>2. rag \in Seq(Writers \cup LaterChecks) /\ ("skip_rag_eval" \notin asked => WritersFirst(rag))
  <2>1. /\ "login-rag-ingest" \in Writers /\ "refund-rag-ingest" \in Writers
        /\ "login-rag-eval" \in LaterChecks /\ "refund-rag-eval" \in LaterChecks
        /\ "login-rag-eval" \notin Writers /\ "refund-rag-eval" \notin Writers
    BY DEF LaterChecks, Writers
  <2>2. \A a, b, c, d \in Writers \cup LaterChecks : <<a, b, c, d>> \in Seq(Writers \cup LaterChecks)
    OBVIOUS
  <2>3. PICK four : four = <<"login-rag-ingest", "refund-rag-ingest", "login-rag-eval", "refund-rag-eval">>
    OBVIOUS
  <2>4. /\ four \in Seq(Writers \cup LaterChecks) /\ Len(four) = 4
        /\ four[1] = "login-rag-ingest" /\ four[2] = "refund-rag-ingest"
        /\ four[3] = "login-rag-eval" /\ four[4] = "refund-rag-eval"
    BY <2>1, <2>2, <2>3
  <2>5. \A i \in 3 .. 4 : i = 3 \/ i = 4
    OBVIOUS
  <2>6. WritersFirst(four)
    BY <2>1, <2>4, <2>5 DEF WritersFirst
  <2>7. rag = IF "skip_rag_eval" \in asked THEN <<>> ELSE four
    BY <2>3 DEF Unless
  <2>8. <<>> \in Seq(Writers \cup LaterChecks)
    OBVIOUS
  <2> QED BY ONLY <2>4, <2>6, <2>7, <2>8
<1>3. SelectedChecks = ((((((rag \o tests) \o types) \o pages) \o PlanChecks) \o WorkflowChecks)
                            \o SmokeChecks) \o DeploymentChecks
  BY DEF SelectedChecks, CodeChecks
<1> HIDE DEF rag, tests, types, pages
<1>4. \A p \in Seq(Writers \cup LaterChecks) : \A q \in Seq(LaterChecks) :
          p \o q \in Seq(Writers \cup LaterChecks)
  OBVIOUS
<1>5. SelectedChecks \in Seq(Writers \cup LaterChecks)
  BY <1>1, <1>2, <1>3, <1>4, LaterAre
<1>6. ASSUME "skip_rag_eval" \notin asked PROVE WritersFirst(SelectedChecks)
  <2>1. WritersFirst(rag)
    BY <1>2, <1>6
  <2>2. WritersFirst(((rag \o tests) \o types) \o pages)
    BY <1>1, <2>1, MoreChecks
  <2>3. PICK code : code = ((rag \o tests) \o types) \o pages
    OBVIOUS
  <2>4. WritersFirst((code \o PlanChecks) \o WorkflowChecks)
    BY <2>2, <2>3, MoreChecks, LaterAre
  <2>5. WritersFirst((((code \o PlanChecks) \o WorkflowChecks) \o SmokeChecks) \o DeploymentChecks)
    BY <2>4, MoreChecks, LaterAre
  <2> QED BY <1>3, <2>3, <2>5
<1> QED BY <1>5, <1>6

-----------------------------------------------------------------------------
(* The steps of a release *)

\* With the collections there are four checks at least.
LEMMA LengthIs ==
    /\ Len(SelectedChecks) \in Nat
    /\ "skip_rag_eval" \notin asked => Len(SelectedChecks) >= 4
BY ChecksAre DEF WritersFirst

\* The checks are counted.
LEMMA LengthNat == Len(SelectedChecks) \in Nat
BY LengthIs

\* And so are those of the next state.
LEMMA NextLength == (Len(SelectedChecks) \in Nat)'
BY LengthNat, PTL

\* As long as the release was started with the same arguments.
LEMMA SameChecks ==
    ASSUME asked' = asked
    PROVE  SelectedChecks' = SelectedChecks /\ Dry' = Dry /\ SmokeDue' = SmokeDue
BY DEF SelectedChecks, CodeChecks, PlanChecks, WorkflowChecks, SmokeChecks, DeploymentChecks,
       Unless, IfAsked, Dry, SmokeDue

\* Before the first release nothing is told.
LEMMA ReleaseInitHolds ==
    ASSUME ReleaseInit
    PROVE  ReleaseInv
<1>1. Len(SelectedChecks) \in Nat
  BY LengthIs
<1>2. 1 \in 1 .. Len(SelectedChecks) + 1 /\ collections \in [Collections -> {"none", "part", "older", "own"}]
  BY <1>1 DEF ReleaseInit
<1>3. /\ asked = {} /\ at = 1 /\ failed = FALSE /\ releaseCode = "unused"
      /\ smoke = "none" /\ verdict = "none" /\ server = "none"
      /\ port \in {"free", "other"} /\ releases = 0 /\ firstFailed = 0 /\ readers = {}
  BY DEF ReleaseInit
<1>4. ReleaseTypes
  BY <1>2, <1>3 DEF ReleaseTypes
<1>5. FailuresTell /\ CollectionsOwn /\ SmokeTells
  BY <1>3 DEF FailuresTell, CollectionsOwn, SmokeTells
<1> QED BY <1>4, <1>5 DEF ReleaseInv

\* The invariant is about the variables of a release.
LEMMA ReleaseUnchanged ==
    ASSUME ReleaseInv, UNCHANGED releaseVars
    PROVE  ReleaseInv'
<1>1. asked' = asked
  BY DEF releaseVars, progress
<1>2. SelectedChecks' = SelectedChecks /\ Dry' = Dry /\ SmokeDue' = SmokeDue
  BY <1>1, SameChecks
<1> QED BY <1>1, <1>2 DEF releaseVars, progress, serving, past, ReleaseInv, ReleaseTypes, FailuresTell,
           CollectionsOwn, SmokeTells, Collections, Options, Skips, Includes

\* A release begins with its first check.
LEMMA StartReleaseStep ==
    ASSUME ReleaseInv, StartRelease
    PROVE  ReleaseInv'
<1>1. Len(SelectedChecks)' \in Nat
  BY NextLength
<1>2. asked' \subseteq Options
  BY ReleaseAssumption DEF StartRelease
<1>3. /\ at' = 1 /\ failed' = FALSE /\ releaseCode' = "running" /\ releases' = releases + 1
      /\ smoke' = "none" /\ verdict' = "none" /\ server' = "none"
      /\ port' \in {port, "left"} /\ firstFailed' = 0 /\ readers' = {}
      /\ collections' = [c \in Collections |->
                            IF collections[c] = "own" THEN "older" ELSE collections[c]]
  BY DEF StartRelease
<1>4. ReleaseTypes'
  <2>1. collections' \in [Collections -> {"none", "part", "older", "own"}]
    BY <1>3 DEF ReleaseInv, ReleaseTypes
  <2>2. 1 \in 1 .. Len(SelectedChecks)' + 1
    BY <1>1
  <2>3. port' \in {"free", "own", "left", "other"} /\ releases' \in Nat
    BY <1>3 DEF ReleaseInv, ReleaseTypes
  <2>4. at' \in 1 .. Len(SelectedChecks)' + 1
    BY <1>3, <2>2
  <2> QED BY <1>2, <1>3, <2>1, <2>3, <2>4 DEF ReleaseTypes, Collections, Options, Skips, Includes
<1>5. FailuresTell'
  BY <1>3 DEF FailuresTell, ReleaseInv, ReleaseTypes
<1>6. CollectionsOwn'
  BY <1>3 DEF CollectionsOwn
<1>7. SmokeTells'
  BY <1>3 DEF SmokeTells
<1> QED BY <1>4, <1>5, <1>6, <1>7 DEF ReleaseInv

\* What a check that was run does to the collections.
LEMMA CollectionsAfterCheck ==
    ASSUME ReleaseInv, NEW ok \in BOOLEAN, CheckEnds(ok)
    PROVE  CollectionsOwn' /\ collections' \in [Collections -> {"none", "part", "older", "own"}]
<1>1. PICK name : name = SelectedChecks[at]
  OBVIOUS
<1>2. /\ AtCheck /\ ~Dry /\ asked' = asked /\ at' = at + 1 /\ failed' = (failed \/ ~ok)
      /\ collections' \in [Collections -> {"none", "part", "older", "own"}]
      /\ \A c \in Collections : collections'[c] \in CollectionAfter(c, name, ok)
      /\ readers' = readers \cup {name : c \in {d \in Collections :
                                     ok /\ name = Reads[d] /\ collections[d] # "own"}}
  BY <1>1 DEF CheckEnds, FailedAfter
<1>3. /\ Ingests["login"] = "login-rag-ingest" /\ Ingests["refund"] = "refund-rag-ingest"
      /\ Reads["login"] = "login-rag-eval" /\ Reads["refund"] = "refund-rag-eval"
      /\ Collections = {"login", "refund"}
  BY DEF Ingests, Reads, Collections
<1>4. ASSUME "skip_rag_eval" \notin asked, ~failed, ok
      PROVE  /\ at + 1 > 1 => collections'["login"] = "own"
             /\ at + 1 > 2 => collections'["refund"] = "own"
             /\ readers' = {}
  <2>1. at \in Nat \ {0} /\ at <= Len(SelectedChecks) /\ Len(SelectedChecks) \in Nat
    BY <1>2, LengthIs DEF AtCheck, ReleaseInv, ReleaseTypes
  <2>2. /\ at > 1 => collections["login"] = "own"
        /\ at > 2 => collections["refund"] = "own"
        /\ readers = {}
    BY <1>2, <1>4 DEF ReleaseInv, CollectionsOwn
  <2>3. /\ at = 1 => name = "login-rag-ingest"
        /\ at = 2 => name = "refund-rag-ingest"
        /\ at > 2 => name \notin Writers
    BY <1>1, <1>4, <2>1, ChecksAre DEF WritersFirst
  <2>4. \A c \in Collections :
            IF name = Ingests[c] THEN collections'[c] = "own" ELSE collections'[c] = collections[c]
    BY <1>2, <1>4 DEF CollectionAfter
  <2>5. collections'["login"] = "own" /\ (at > 1 => collections'["refund"] = "own")
    <3>1. CASE at = 1
      BY <1>3, <2>3, <2>4, <3>1
    <3>2. CASE at = 2
      BY <1>3, <2>2, <2>3, <2>4, <3>2
    <3>3. CASE at > 2
      BY <1>3, <2>1, <2>2, <2>3, <2>4, <3>3 DEF Writers
    <3> QED BY <2>1, <3>1, <3>2, <3>3
  <2>6. {d \in Collections : ok /\ name = Reads[d] /\ collections[d] # "own"} = {}
    <3>1. CASE at = 1 \/ at = 2
      BY <1>3, <2>3, <3>1
    <3>2. CASE at > 2
      BY <1>3, <2>1, <2>2, <3>2
    <3> QED BY <2>1, <3>1, <3>2
  <2>7. readers' = {}
    BY <1>2, <2>2, <2>6
  <2> QED BY <2>1, <2>5, <2>7
<1> QED BY <1>2, <1>4 DEF CollectionsOwn, Dry

\* A check ends with its exit code.
LEMMA CheckEndsStep ==
    ASSUME ReleaseInv, NEW ok \in BOOLEAN, CheckEnds(ok)
    PROVE  ReleaseInv'
<1>1. /\ AtCheck /\ ~Dry /\ at' = at + 1 /\ failed' = (failed \/ ~ok)
      /\ firstFailed' = IF ~ok /\ firstFailed = 0 THEN at ELSE firstFailed
      /\ releaseCode' = IF ~ok /\ "fail_fast" \in asked THEN "1" ELSE "running"
      /\ UNCHANGED <<asked, serving, releases>>
  BY DEF CheckEnds, FailedAfter
<1>2. SelectedChecks' = SelectedChecks /\ Dry' = Dry /\ SmokeDue' = SmokeDue
  BY <1>1, SameChecks
<1>3. /\ at \in Nat \ {0} /\ at <= Len(SelectedChecks) /\ Len(SelectedChecks) \in Nat
      /\ releaseCode = "running"
  BY <1>1, LengthIs DEF AtCheck, Releasing, ReleaseInv, ReleaseTypes
<1>4. ReleaseTypes'
  <2>1. at + 1 \in 1 .. Len(SelectedChecks) + 1 /\ firstFailed' \in Nat /\ failed' \in BOOLEAN
    BY <1>1, <1>3 DEF ReleaseInv, ReleaseTypes
  <2> QED BY <1>1, <1>2, <2>1, CollectionsAfterCheck
          DEF ReleaseInv, ReleaseTypes, serving, Collections, Options, Skips, Includes
<1>5. smoke = "none" /\ smoke' = smoke
  BY <1>1, <1>3 DEF ReleaseInv, SmokeTells, serving
<1>6. FailuresTell'
  <2>1. firstFailed # 0 => failed
    BY <1>3 DEF ReleaseInv, FailuresTell
  <2>2. firstFailed' # 0 => failed' /\ ~Dry
    BY <1>1, <2>1
  <2>3. firstFailed # 0 => "fail_fast" \notin asked
    BY <1>3 DEF ReleaseInv, FailuresTell
  <2>4. firstFailed' # 0 /\ "fail_fast" \in asked =>
            releaseCode' = "1" /\ smoke' = "none" /\ at' <= firstFailed' + 1
    BY <1>1, <1>3, <1>5, <2>3
  <2>5. releaseCode' \in {"1", "running"} /\ releases # 0
    BY <1>1, <1>3 DEF ReleaseInv, FailuresTell
  <2> QED BY <1>1, <1>2, <2>2, <2>4, <2>5 DEF FailuresTell
<1>7. SmokeTells'
  <2>1. verdict = "none"
    BY <1>5 DEF ReleaseInv, SmokeTells
  <2>2. releaseCode' # "0"
    BY <1>1
  <2> QED BY <1>1, <1>5, <2>1, <2>2 DEF ReleaseInv, SmokeTells, serving
<1> QED BY <1>4, <1>6, <1>7, CollectionsAfterCheck DEF ReleaseInv

\* A check that cannot be started raises.
LEMMA CheckRaisesStep ==
    ASSUME ReleaseInv, CheckRaises
    PROVE  ReleaseInv'
<1>1. /\ AtCheck /\ ~Dry /\ releaseCode' = "1"
      /\ firstFailed' = IF firstFailed = 0 THEN at ELSE firstFailed
      /\ UNCHANGED <<asked, at, failed, collections, serving, releases, readers>>
  BY DEF CheckRaises
<1>2. SelectedChecks' = SelectedChecks /\ Dry' = Dry /\ SmokeDue' = SmokeDue
  BY <1>1, SameChecks
<1>3. /\ at \in Nat \ {0} /\ at <= Len(SelectedChecks) /\ Len(SelectedChecks) \in Nat
      /\ releaseCode = "running"
  BY <1>1, LengthIs DEF AtCheck, Releasing, ReleaseInv, ReleaseTypes
<1>4. smoke = "none" /\ smoke' = smoke
  BY <1>1, <1>3 DEF ReleaseInv, SmokeTells, serving
<1>5. ReleaseTypes'
  BY <1>1, <1>2, <1>3 DEF ReleaseInv, ReleaseTypes, serving, Collections, Options, Skips, Includes
<1>6. FailuresTell'
  <2>1. firstFailed # 0 => "fail_fast" \notin asked
    BY <1>3 DEF ReleaseInv, FailuresTell
  <2>2. releases # 0
    BY <1>3 DEF ReleaseInv, FailuresTell
  <2>3. firstFailed' # 0 /\ "fail_fast" \in asked => at' <= firstFailed' + 1
    BY <1>1, <1>3, <2>1
  <2> QED BY <1>1, <1>2, <1>4, <2>2, <2>3 DEF FailuresTell
<1>7. CollectionsOwn'
  BY <1>1, <1>2 DEF ReleaseInv, CollectionsOwn
<1>8. SmokeTells'
  BY <1>1, <1>2, <1>4 DEF ReleaseInv, SmokeTells, serving
<1> QED BY <1>5, <1>6, <1>7, <1>8 DEF ReleaseInv

\* A check of a dry run is printed.
LEMMA CheckIsPrintedStep ==
    ASSUME ReleaseInv, CheckIsPrinted
    PROVE  ReleaseInv'
<1>1. /\ AtCheck /\ Dry /\ at' = at + 1
      /\ UNCHANGED <<asked, failed, releaseCode, collections, serving, past>>
  BY DEF CheckIsPrinted
<1>2. SelectedChecks' = SelectedChecks /\ Dry' = Dry /\ SmokeDue' = SmokeDue
  BY <1>1, SameChecks
<1>3. /\ at \in Nat \ {0} /\ at <= Len(SelectedChecks) /\ Len(SelectedChecks) \in Nat
      /\ releaseCode = "running"
  BY <1>1, LengthIs DEF AtCheck, Releasing, ReleaseInv, ReleaseTypes
<1>4. at' \in 1 .. Len(SelectedChecks) + 1
  BY <1>1, <1>3
<1>5. ReleaseTypes'
  BY <1>1, <1>2, <1>4 DEF ReleaseInv, ReleaseTypes, serving, past, Collections, Options, Skips, Includes
<1>6. firstFailed = 0 /\ firstFailed' = 0 /\ releases' = releases
  BY <1>1 DEF ReleaseInv, FailuresTell, past
<1>7. FailuresTell'
  BY <1>1, <1>2, <1>3, <1>6 DEF ReleaseInv, FailuresTell
<1>8. CollectionsOwn'
  BY <1>1, <1>2 DEF CollectionsOwn
<1>9. smoke = "none" /\ smoke' = smoke
  BY <1>1, <1>3 DEF ReleaseInv, SmokeTells, serving
<1>10. SmokeTells'
  BY <1>1, <1>2, <1>3, <1>9 DEF ReleaseInv, SmokeTells, serving
<1> QED BY <1>5, <1>7, <1>8, <1>10 DEF ReleaseInv

\* What is left to prove of a step of the smoke.
LEMMA SmokeStep ==
    ASSUME ReleaseInv, Releasing, UNCHANGED <<progress, collections, releases, firstFailed>>,
           smoke' \in {"none", "health", "refusal", "answer", "stop", "over"},
           verdict' \in {"none", "passed", "failed", "raised"},
           server' \in {"none", "starting", "serving", "exited"},
           port' \in {"free", "own", "left", "other"},
           smoke' # "none" => smoke # "none" \/ (at = Len(SelectedChecks) + 1 /\ SmokeDue),
           smoke' # smoke => smoke' # "none",
           readers' = readers \/ (readers' = readers \cup {"llm-smoke"} /\ smoke # "none"
                                    /\ collections["login"] # "own")
    PROVE  /\ ReleaseTypes' /\ FailuresTell' /\ CollectionsOwn'
           /\ smoke' # "none" => at' = Len(SelectedChecks)' + 1 /\ SmokeDue'
           /\ releaseCode' = "running"
<1>1. UNCHANGED <<asked, at, failed, releaseCode>> /\ releaseCode = "running"
  BY DEF progress, Releasing
<1>2. SelectedChecks' = SelectedChecks /\ Dry' = Dry /\ SmokeDue' = SmokeDue
  BY <1>1, SameChecks
<1>3. smoke' # "none" => at = Len(SelectedChecks) + 1 /\ SmokeDue
  BY DEF ReleaseInv, SmokeTells
<1>4. ReleaseTypes'
  BY <1>1, <1>2 DEF ReleaseInv, ReleaseTypes, Collections, Options, Skips, Includes
<1>5. FailuresTell'
  <2>1. firstFailed # 0 => "fail_fast" \notin asked
    BY <1>1 DEF ReleaseInv, FailuresTell
  <2> QED BY <1>1, <1>2, <2>1 DEF ReleaseInv, FailuresTell
<1>6. CollectionsOwn'
  <2>1. ASSUME "skip_rag_eval" \notin asked, ~Dry, ~failed PROVE readers' = {}
    <3>1. readers = {} /\ (at > 1 => collections["login"] = "own")
      BY <2>1 DEF ReleaseInv, CollectionsOwn
    <3>2. smoke # "none" => at > 1
      <4>1. smoke # "none" => at = Len(SelectedChecks) + 1
        BY DEF ReleaseInv, SmokeTells
      <4>2. Len(SelectedChecks) \in Nat /\ Len(SelectedChecks) >= 4
        BY <2>1, LengthIs
      <4> QED BY <4>1, <4>2
    <3> QED BY <3>1, <3>2
  <2> QED BY <1>1, <1>2, <2>1 DEF ReleaseInv, CollectionsOwn
<1> QED BY <1>1, <1>2, <1>3, <1>4, <1>5, <1>6

\* The server is tried once the checks are over.
LEMMA SmokeIsDue ==
    ASSUME ReleaseInv, ChecksOver
    PROVE  at = Len(SelectedChecks) + 1 /\ Releasing
BY LengthIs DEF ReleaseInv, ReleaseTypes, ChecksOver

\* The server is started, asked and stopped.
LEMMA SmokeNextStep ==
    ASSUME ReleaseInv, Smoke
    PROVE  ReleaseInv'
<1>1. /\ smoke \in {"none", "health", "refusal", "answer", "stop", "over"}
      /\ verdict \in {"none", "passed", "failed", "raised"}
      /\ server \in {"none", "starting", "serving", "exited"}
      /\ port \in {"free", "own", "left", "other"}
  BY DEF ReleaseInv, ReleaseTypes
<1>2. SmokeTells
  BY DEF ReleaseInv
<1>3. CASE StartSmoke
  <2>1. /\ Releasing /\ at = Len(SelectedChecks) + 1 /\ SmokeDue /\ smoke = "none"
        /\ smoke' = "health" /\ server' = "starting"
        /\ UNCHANGED <<progress, collections, verdict, port, answered, past>>
    BY <1>3, SmokeIsDue DEF StartSmoke
  <2>2. UNCHANGED <<releases, firstFailed, readers>>
    BY <2>1 DEF past
  <2>3. /\ ReleaseTypes' /\ FailuresTell' /\ CollectionsOwn' /\ releaseCode' = "running"
        /\ smoke' # "none" => at' = Len(SelectedChecks)' + 1 /\ SmokeDue'
    BY <1>1, <2>1, <2>2, SmokeStep
  <2>4. SmokeTells'
    BY <1>2, <2>1, <2>3 DEF SmokeTells
  <2> QED BY <2>3, <2>4 DEF ReleaseInv
<1>4. CASE ServerStarts
  <2>1. /\ Releasing /\ server = "starting" /\ smoke' = smoke
        /\ (port = "free" /\ port' = "own" /\ server' = "serving") \/ (server' = "exited" /\ port' = port)
        /\ UNCHANGED <<progress, collections, verdict, answered, past>>
    BY <1>4 DEF ServerStarts
  <2>2. UNCHANGED <<releases, firstFailed, readers>>
    BY <2>1 DEF past
  <2>3. /\ ReleaseTypes' /\ FailuresTell' /\ CollectionsOwn' /\ releaseCode' = "running"
        /\ smoke' # "none" => at' = Len(SelectedChecks)' + 1 /\ SmokeDue'
    BY <1>1, <2>1, <2>2, SmokeStep
  <2>4. SmokeTells'
    BY <1>2, <2>1, <2>3 DEF SmokeTells, Releasing
  <2> QED BY <2>3, <2>4 DEF ReleaseInv
<1>5. CASE ServerDies
  <2>1. /\ Releasing /\ server = "serving" /\ smoke' = smoke /\ server' = "exited" /\ port' = "free"
        /\ UNCHANGED <<progress, collections, verdict, answered, past>>
    BY <1>5 DEF ServerDies
  <2>2. UNCHANGED <<releases, firstFailed, readers>>
    BY <2>1 DEF past
  <2>3. /\ ReleaseTypes' /\ FailuresTell' /\ CollectionsOwn' /\ releaseCode' = "running"
        /\ smoke' # "none" => at' = Len(SelectedChecks)' + 1 /\ SmokeDue'
    BY <1>1, <2>1, <2>2, SmokeStep
  <2>4. SmokeTells'
    BY <1>2, <2>1, <2>3 DEF SmokeTells, Releasing
  <2> QED BY <2>3, <2>4 DEF ReleaseInv
<1>6. ASSUME NEW from \in {"health", "refusal", "answer"}, NEW to \in {"refusal", "answer", "stop"},
             SmokeGoesOn(from, to), to = "stop" => verdict' # "none"
      PROVE  ReleaseInv'
  <2>1. /\ Releasing /\ smoke = from
        /\ (smoke' = to /\ verdict' = verdict) \/ (smoke' = "stop" /\ verdict' \in {"raised", "failed"})
        /\ UNCHANGED <<progress, collections, server, port, answered, past>>
    BY <1>6 DEF SmokeGoesOn
  <2>2. UNCHANGED <<releases, firstFailed, readers>>
    BY <2>1 DEF past
  <2>3. /\ ReleaseTypes' /\ FailuresTell' /\ CollectionsOwn' /\ releaseCode' = "running"
        /\ smoke' # "none" => at' = Len(SelectedChecks)' + 1 /\ SmokeDue'
    BY <1>1, <2>1, <2>2, SmokeStep
  <2>4. verdict = "none" /\ smoke' \in {"refusal", "answer", "stop"}
    BY <1>2, <2>1 DEF SmokeTells
  <2>5. (smoke' = "stop" => verdict' # "none") /\ (smoke' # "stop" => verdict' = "none")
        /\ verdict' # "passed"
    BY <1>6, <2>1, <2>4
  <2>6. SmokeTells'
    BY <1>2, <2>1, <2>3, <2>4, <2>5 DEF SmokeTells
  <2> QED BY <2>3, <2>6 DEF ReleaseInv
<1>7. CASE WaitForHealth \/ PostSmall
  BY <1>6, <1>7 DEF WaitForHealth, PostSmall
<1>8. CASE PostFull
  <2>1. CASE SmokeGoesOn("answer", "stop") /\ verdict' # "none"
    BY <1>6, <2>1
  <2>2. CASE /\ Releasing /\ smoke = "answer" /\ port # "free"
             /\ smoke' = "stop" /\ verdict' = "passed" /\ answered' = port
             /\ readers' = IF port = "own" /\ collections["login"] # "own"
                           THEN readers \cup {"llm-smoke"} ELSE readers
             /\ UNCHANGED <<progress, collections, server, port, releases, firstFailed>>
    <3>1. /\ ReleaseTypes' /\ FailuresTell' /\ CollectionsOwn' /\ releaseCode' = "running"
          /\ smoke' # "none" => at' = Len(SelectedChecks)' + 1 /\ SmokeDue'
      BY <1>1, <2>2, SmokeStep
    <3>2. SmokeTells'
      BY <1>1, <1>2, <2>2, <3>1 DEF SmokeTells
    <3> QED BY <3>1, <3>2 DEF ReleaseInv
  <2> QED BY <1>8, <2>1, <2>2 DEF PostFull
<1>9. CASE StopServer
  <2>1. /\ Releasing /\ smoke = "stop" /\ smoke' = "over"
        /\ \/ /\ server' = "none" /\ port' = IF port = "own" THEN "free" ELSE port
              /\ verdict' = verdict
           \/ server # "exited" /\ verdict' = "raised" /\ UNCHANGED <<server, port>>
        /\ UNCHANGED <<progress, collections, answered, past>>
    BY <1>9 DEF StopServer
  <2>2. UNCHANGED <<releases, firstFailed, readers>>
    BY <2>1 DEF past
  <2>3. /\ ReleaseTypes' /\ FailuresTell' /\ CollectionsOwn' /\ releaseCode' = "running"
        /\ smoke' # "none" => at' = Len(SelectedChecks)' + 1 /\ SmokeDue'
    BY <1>1, <2>1, <2>2, SmokeStep
  <2>4. SmokeTells'
    BY <1>2, <2>1, <2>3 DEF SmokeTells, Releasing
  <2> QED BY <2>3, <2>4 DEF ReleaseInv
<1> QED BY <1>3, <1>4, <1>5, <1>7, <1>8, <1>9 DEF Smoke

\* The release is summed up.
LEMMA FinishReleaseStep ==
    ASSUME ReleaseInv, FinishRelease
    PROVE  ReleaseInv'
<1>1. /\ ChecksOver /\ (SmokeDue => smoke = "over")
      /\ releaseCode' = IF failed \/ verdict \in {"failed", "raised"} THEN "1" ELSE "0"
      /\ UNCHANGED <<asked, at, failed, collections, serving, past>>
  BY DEF FinishRelease
<1>2. SelectedChecks' = SelectedChecks /\ Dry' = Dry /\ SmokeDue' = SmokeDue
  BY <1>1, SameChecks
<1>3. at = Len(SelectedChecks) + 1 /\ releaseCode = "running"
  BY <1>1, SmokeIsDue DEF Releasing
<1>4. UNCHANGED <<smoke, verdict, server, port, answered, releases, firstFailed, readers>>
  BY <1>1 DEF serving, past
<1>5. ReleaseTypes'
  BY <1>1, <1>2, <1>4 DEF ReleaseInv, ReleaseTypes, Collections, Options, Skips, Includes
<1>6. FailuresTell'
  <2>1. /\ firstFailed # 0 => failed /\ ~Dry /\ "fail_fast" \notin asked
        /\ releases # 0
    BY <1>3 DEF ReleaseInv, FailuresTell
  <2> QED BY <1>1, <1>2, <1>3, <1>4, <2>1 DEF FailuresTell
<1>7. CollectionsOwn'
  BY <1>1, <1>2, <1>4 DEF ReleaseInv, CollectionsOwn
<1>8. SmokeTells'
  <2>1. releaseCode' = "0" /\ SmokeDue => smoke = "over" /\ verdict = "passed"
    BY <1>1 DEF ReleaseInv, SmokeTells, ReleaseTypes
  <2> QED BY <1>1, <1>2, <1>3, <1>4, <2>1 DEF ReleaseInv, SmokeTells
<1> QED BY <1>5, <1>6, <1>7, <1>8 DEF ReleaseInv

\* The release is killed.
LEMMA KillReleaseStep ==
    ASSUME ReleaseInv, KillRelease
    PROVE  ReleaseInv'
<1>1. /\ releaseCode = "running" /\ releaseCode' = "killed" /\ server' = "none"
      /\ port' \in {port, "left", "free"}
      /\ UNCHANGED <<asked, at, failed, collections, smoke, verdict, answered, past>>
  BY DEF KillRelease, Releasing
<1>2. SelectedChecks' = SelectedChecks /\ Dry' = Dry /\ SmokeDue' = SmokeDue
  BY <1>1, SameChecks
<1>3. UNCHANGED <<releases, firstFailed, readers>>
  BY <1>1 DEF past
<1>4. ReleaseTypes'
  BY <1>1, <1>2, <1>3 DEF ReleaseInv, ReleaseTypes, Collections, Options, Skips, Includes
<1>5. FailuresTell'
  <2>1. /\ firstFailed # 0 => failed /\ ~Dry /\ "fail_fast" \notin asked
        /\ releases # 0
    BY <1>1 DEF ReleaseInv, FailuresTell
  <2> QED BY <1>1, <1>2, <1>3, <2>1 DEF FailuresTell
<1>6. CollectionsOwn'
  BY <1>1, <1>2, <1>3 DEF ReleaseInv, CollectionsOwn
<1>7. SmokeTells'
  BY <1>1, <1>2 DEF ReleaseInv, SmokeTells
<1> QED BY <1>4, <1>5, <1>6, <1>7 DEF ReleaseInv

\* What a step of the scripts is to the release.
LEMMA ReleasePart ==
    ASSUME ReleaseInv, ScriptsNext
    PROVE  ReleaseInv'
<1>1. CASE UNCHANGED releaseVars
  BY <1>1, ReleaseUnchanged
<1>2. CASE DrillSteps \/ EvaluationSteps \/ CallDrill \/ CallEvaluation
  BY <1>1, <1>2 DEF DrillSteps, EvaluationSteps, CallDrill, CallEvaluation
<1>3. CASE \E ok \in BOOLEAN : CheckEnds(ok)
  BY <1>3, CheckEndsStep
<1>4. CASE OtherCheck
  BY <1>3, <1>4 DEF OtherCheck
<1>5. CASE DrillReturns
  <2>1. CheckEnds(Passed) /\ Passed \in BOOLEAN
    BY <1>5 DEF DrillReturns, Passed
  <2> QED BY <1>3, <2>1
<1>6. CASE EvaluationReturns
  <2>1. CheckEnds(exitCode = "0") /\ (exitCode = "0") \in BOOLEAN
    BY <1>6 DEF EvaluationReturns
  <2> QED BY <1>3, <2>1
<1>7. CASE StartRelease \/ FinishRelease \/ Smoke \/ CheckRaises \/ CheckIsPrinted \/ KillRelease
  BY <1>7, StartReleaseStep, FinishReleaseStep, SmokeNextStep, CheckRaisesStep,
     CheckIsPrintedStep, KillReleaseStep
<1> QED BY <1>2, <1>4, <1>5, <1>6, <1>7 DEF ScriptsNext, ReleaseSteps

\* What is known of the checks of a release, of the collections and of its smoke.
THEOREM ReleaseInvariant == ScriptsSpec => []ReleaseInv
<1>1. ScriptsInit => ReleaseInv
  BY ReleaseInitHolds DEF ScriptsInit
<1>2. ReleaseInv /\ [ScriptsNext]_scriptVars => ReleaseInv'
  <2>1. UNCHANGED scriptVars => UNCHANGED releaseVars
    BY DEF scriptVars
  <2> QED BY <2>1, ReleasePart, ReleaseUnchanged
<1> QED BY <1>1, <1>2, PTL DEF ScriptsSpec

\* What the exit code of a release says.
LEMMA ReleaseFollows == ReleaseInv => ReleaseExitTells
<1> SUFFICES ASSUME ReleaseInv PROVE ReleaseExitTells
  OBVIOUS
<1>1. ASSUME releaseCode = "0", ~Dry
      PROVE  /\ firstFailed = 0 /\ at = Len(SelectedChecks) + 1
             /\ "skip_rag_eval" \notin asked => readers = {}
             /\ "include_llm_smoke" \in asked =>
                   /\ verdict = "passed" /\ server = "none"
                   /\ answered = "own" \/ (answered = port /\ port \in {"left", "other"})
  <2>1. firstFailed = 0 /\ at = Len(SelectedChecks) + 1 /\ ~failed
    BY <1>1 DEF ReleaseInv, FailuresTell
  <2>2. "skip_rag_eval" \notin asked => readers = {}
    BY <1>1, <2>1 DEF ReleaseInv, CollectionsOwn
  <2>3. ASSUME "include_llm_smoke" \in asked
        PROVE  /\ verdict = "passed" /\ server = "none"
               /\ answered = "own" \/ (answered = port /\ port \in {"left", "other"})
    BY <1>1, <2>3 DEF ReleaseInv, SmokeTells, SmokeDue
  <2> QED BY <2>1, <2>2, <2>3
<1>2. firstFailed # 0 /\ "fail_fast" \in asked =>
          releaseCode \in {"1", "killed"} /\ smoke = "none" /\ at <= firstFailed + 1
  BY DEF ReleaseInv, FailuresTell
<1> QED BY <1>1, <1>2 DEF ReleaseExitTells

-----------------------------------------------------------------------------
(* The scripts that a release calls *)

\* The commands of a drill that has passed are over.
LEMMA PassedStays ==
    ASSUME Passed, DrillsNext
    PROVE  Passed'
<1>1. todo = <<>> /\ ~raised
  BY DEF Passed, Over
<1>2. ~Drill
  BY <1>1 DEF Drill, Setup, Check, Stop, Outage, Restart, RunWorker, RemoveWorker, Submit,
              Answered, NotAnswered, At
<1>3. UNCHANGED control
  BY <1>2 DEF DrillsNext, Submitter, SubmitJob, Wait, Alert, Take, Finish, Return
<1> QED BY <1>1, <1>3 DEF control, Passed, Over

\* What a call told stays told while it is waited for.
LEMMA SameProgress ==
    ASSUME CallsTell, UNCHANGED <<operator, waitsFor, calledBy, progress, releases>>,
           Passed => Passed',
           calledBy.evaluation # 0 /\ exitCode = "0" => exitCode' = "0"
    PROVE  CallsTell'
<1>1. UNCHANGED <<asked, at, failed, releaseCode, operator, waitsFor, calledBy, releases>>
  BY DEF progress
<1>2. AtCheck' = AtCheck /\ Called' = Called
  BY <1>1, SameChecks DEF AtCheck, Releasing, Called
<1> QED BY <1>1, <1>2 DEF CallsTell

\* A check has ended with whatever the script it has called, if any, came to.
LEMMA CheckReturns ==
    ASSUME CallsTell, NEW ok \in BOOLEAN, CheckEnds(ok),
           waitsFor' = "none", UNCHANGED <<drillVars, evaluationVars, operator, calledBy>>,
           waitsFor = "drill" => (ok => Passed),
           waitsFor = "evaluation" => (ok => exitCode = "0")
    PROVE  CallsTell'
<1>1. /\ releaseCode = "running" /\ failed' = (failed \/ ~ok)
      /\ UNCHANGED <<releases, operator, calledBy>>
  BY DEF CheckEnds, AtCheck, Releasing, FailedAfter
<1>2. Passed' = Passed /\ exitCode' = exitCode /\ Called' = Called
  BY <1>1 DEF drillVars, control, evaluationVars, process, Passed, Over, Called
<1> QED BY <1>1, <1>2 DEF CallsTell

\* Every step of the scripts keeps what the called scripts told.
LEMMA CallsPart ==
    ASSUME CallsTell, ReleaseInv, ScriptsNext
    PROVE  CallsTell'
<1>1. /\ UNCHANGED drillVars => Passed' = Passed
      /\ UNCHANGED evaluationVars => exitCode' = exitCode
  BY DEF drillVars, control, evaluationVars, process, Passed, Over
<1>2. /\ UNCHANGED calling => UNCHANGED <<operator, waitsFor, calledBy>>
      /\ UNCHANGED releaseVars => UNCHANGED <<progress, releases>>
  BY DEF calling, releaseVars, past
<1>3. CASE DrillSteps
  BY <1>1, <1>2, <1>3, PassedStays, SameProgress DEF DrillSteps
<1>4. CASE EvaluationSteps
  <2>1. UNCHANGED <<drillVars, releaseVars, calling>>
        /\ (operator = "evaluation" \/ (calledBy.evaluation # 0 /\ exitCode = "running"))
    BY <1>4 DEF EvaluationSteps, Running
  <2>2. operator = "evaluation" => calledBy.evaluation = 0
    BY DEF CallsTell, Called
  <2> QED BY <1>1, <1>2, <2>1, <2>2, SameProgress
<1>5. ASSUME operator = "release", CallDrill PROVE CallsTell'
  <2>1. /\ AtCheck /\ waitsFor = "none" /\ releases = 1 /\ waitsFor' = "drill"
        /\ calledBy' = [calledBy EXCEPT !.drill = 1]
        /\ UNCHANGED <<operator, releases, asked, at, failed, releaseCode>>
    BY <1>5 DEF CallDrill, DrillIsNext, MayCall, releaseVars, progress, past
  <2>2. AtCheck' = AtCheck
    BY <2>1, SameChecks DEF AtCheck, Releasing
  <2>3. /\ calledBy' \in [drill : {0, 1}, evaluation : {0, 1}]
        /\ calledBy'.evaluation = calledBy.evaluation
    BY <2>1 DEF CallsTell
  <2>4. exitCode' = exitCode
    BY <1>1, <1>5 DEF CallDrill
  <2> QED BY <1>5, <2>1, <2>2, <2>3, <2>4 DEF CallsTell
<1>6. ASSUME operator = "release", CallEvaluation PROVE CallsTell'
  <2>1. /\ AtCheck /\ waitsFor = "none" /\ releases = 1 /\ waitsFor' = "evaluation"
        /\ calledBy' = [calledBy EXCEPT !.evaluation = 1]
        /\ UNCHANGED <<operator, releases, asked, at, failed, releaseCode>>
    BY <1>6 DEF CallEvaluation, EvaluationIsNext, MayCall, releaseVars, progress, past
  <2>2. AtCheck' = AtCheck
    BY <2>1, SameChecks DEF AtCheck, Releasing
  <2>3. /\ calledBy' \in [drill : {0, 1}, evaluation : {0, 1}]
        /\ calledBy'.drill = calledBy.drill
    BY <2>1 DEF CallsTell
  <2>4. Passed' = Passed
    BY <1>1, <1>6 DEF CallEvaluation
  <2> QED BY <1>6, <2>1, <2>2, <2>3, <2>4 DEF CallsTell
<1>7. CASE DrillReturns
  <2>1. Passed \in BOOLEAN
    BY DEF Passed
  <2> QED BY <1>7, <2>1, CheckReturns DEF DrillReturns
<1>8. CASE EvaluationReturns
  <2>1. (exitCode = "0") \in BOOLEAN
    OBVIOUS
  <2> QED BY <1>8, <2>1, CheckReturns DEF EvaluationReturns
<1>9. CASE OtherCheck
  <2>1. waitsFor = "none" /\ UNCHANGED <<drillVars, evaluationVars, operator, waitsFor, calledBy>>
    BY <1>2, <1>9 DEF OtherCheck
  <2>2. PICK ok \in BOOLEAN : CheckEnds(ok)
    BY <1>9 DEF OtherCheck
  <2> QED BY <2>1, <2>2, CheckReturns
<1>10. ASSUME UNCHANGED <<drillVars, evaluationVars, calling>>, waitsFor = "none",
              \/ StartRelease /\ ~Called
              \/ FinishRelease
              \/ CheckRaises
              \/ CheckIsPrinted
       PROVE  CallsTell'
  <2>1. /\ UNCHANGED <<operator, waitsFor, calledBy>>
        /\ Passed' = Passed /\ exitCode' = exitCode /\ Called' = Called
    BY <1>1, <1>2, <1>10 DEF Called
  <2>2. CASE StartRelease /\ ~Called
    BY <1>10, <2>1, <2>2 DEF CallsTell, Called
  <2>3. CASE FinishRelease
    <3>1. releaseCode = "running" /\ failed' = failed /\ releases' = releases
      BY <2>3 DEF FinishRelease, ChecksOver, Releasing, past
    <3> QED BY <1>10, <2>1, <3>1 DEF CallsTell
  <2>4. CASE CheckRaises
    <3>1. releaseCode' = "1" /\ releases' = releases
      BY <2>4 DEF CheckRaises
    <3> QED BY <1>10, <2>1, <3>1 DEF CallsTell
  <2>5. CASE CheckIsPrinted
    <3>1. releaseCode' = releaseCode /\ failed' = failed /\ releases' = releases
      BY <2>5 DEF CheckIsPrinted, past
    <3> QED BY <1>10, <2>1, <3>1 DEF CallsTell
  <2> QED BY <1>10, <2>2, <2>3, <2>4, <2>5
<1>11. CASE /\ StartRelease /\ ~Called
            /\ UNCHANGED <<drillVars, evaluationVars, calling>>
  <2>1. waitsFor = "none"
    BY <1>11 DEF StartRelease, CallsTell, AtCheck
  <2> QED BY <1>10, <1>11, <2>1
<1>12. CASE FinishRelease /\ UNCHANGED <<drillVars, evaluationVars, calling>>
  <2>1. ~AtCheck
    BY <1>12, LengthIs DEF FinishRelease, ChecksOver, AtCheck, ReleaseInv, ReleaseTypes
  <2>2. waitsFor = "none"
    BY <2>1 DEF CallsTell
  <2> QED BY <1>10, <1>12, <2>2
<1>13. CASE Smoke /\ UNCHANGED <<drillVars, evaluationVars, calling>>
  <2>1. UNCHANGED <<progress, releases>>
    BY <1>13 DEF Smoke, StartSmoke, ServerStarts, ServerDies, WaitForHealth, PostSmall, PostFull,
                 SmokeGoesOn, StopServer, past
  <2> QED BY <1>1, <1>2, <1>13, <2>1, SameProgress
<1>14. CASE /\ waitsFor = "none" /\ (CheckRaises \/ CheckIsPrinted)
            /\ UNCHANGED <<drillVars, evaluationVars, calling>>
  BY <1>10, <1>14
<1>15. CASE /\ KillRelease /\ waitsFor' = "none"
            /\ UNCHANGED <<drillVars, evaluationVars, operator, calledBy>>
  <2>1. releaseCode' = "killed" /\ releases' = releases /\ Called' = Called
    BY <1>15 DEF KillRelease, past, Called
  <2> QED BY <1>15, <2>1 DEF CallsTell
<1> QED BY <1>3, <1>4, <1>5, <1>6, <1>7, <1>8, <1>9, <1>11, <1>12, <1>13, <1>14, <1>15
        DEF ScriptsNext, ReleaseSteps

\* A caller is told by the exit code what the called script found.
LEMMA CallsInvariant == ScriptsSpec => []CallsTell
<1>1. ScriptsInit => CallsTell
  BY DEF ScriptsInit, CallsTell, Called
<1>2. CallsTell /\ ReleaseInv /\ [ScriptsNext]_scriptVars => CallsTell'
  <2>1. CASE UNCHANGED scriptVars
    <3>1. UNCHANGED <<drillVars, evaluationVars, operator, waitsFor, calledBy, progress, releases>>
      BY <2>1 DEF scriptVars, calling, releaseVars, past
    <3>2. Passed' = Passed /\ exitCode' = exitCode
      BY <3>1 DEF drillVars, control, evaluationVars, process, Passed, Over
    <3> QED BY <3>1, <3>2, SameProgress
  <2> QED BY <2>1, CallsPart
<1> QED BY <1>1, <1>2, ReleaseInvariant, PTL DEF ScriptsSpec

\* Exit code 0 of every script says what operators take it for, and that of a
\* release that the drill and the evaluation it has called came to 0 as well
\* (main of the scripts, run_check).
THEOREM ScriptsHonest ==
    ASSUME FewCases
    PROVE  ScriptsSpec => []ScriptsPassHonestly
<1>1. ASSUME ReleaseInv, CallsTell, DrillInv, EvaluationExitTells PROVE ScriptsPassHonestly
  <2>1. PassedMeansDone /\ ReleaseExitTells
    BY <1>1, PassedFollows, ReleaseFollows
  <2>2. ASSUME releaseCode = "0"
        PROVE  /\ calledBy.drill = releases => Passed
               /\ calledBy.evaluation = releases => exitCode = "0"
    <3>1. releases # 0 /\ ~failed
      BY <1>1, <2>2 DEF ReleaseInv, FailuresTell
    <3>2. waitsFor = "none"
      BY <1>1, <2>2 DEF CallsTell, AtCheck, Releasing
    <3> QED BY <1>1, <2>2, <3>1, <3>2 DEF CallsTell
  <2> QED BY <1>1, <2>1, <2>2 DEF ScriptsPassHonestly
<1> QED BY <1>1, ReleaseInvariant, CallsInvariant, DrillInvariant, EvaluationsExitHonestly, PTL
=============================================================================
