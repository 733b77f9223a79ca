-------------------------- MODULE TestAgentRunProofs --------------------------
(***************************************************************************)
(* Proofs about TestAgentRun and ReportEvaluation, for any requests, any   *)
(* answers of the language model and any plans of clients: which plan is   *)
(* made, what the report says of the runs, how a failure is told, and that *)
(* an evaluation of the report tells one run from another.                 *)
(***************************************************************************)
EXTENDS ReportEvaluation, TLAPS, SequenceTheorems, WellFoundedInduction

Succeeded(name) == [name |-> name, status |-> "succeeded"]
Failed(name) == [name |-> name, status |-> "failed"]

\* The stages before the tools are run.
Planning == IF kind = "workflow" THEN <<Succeeded("plan_generation")>> ELSE <<>>

\* What is known of a run that goes on.
GoingOn ==
    stage # "done" =>
        /\ failure = NoFailure /\ report = NoReport
        /\ stage = "plan_generation" => kind = "workflow" /\ plan = <<>> /\ timings = <<>>
        /\ stage \in {"plan_generation", "build_service"} => runs = <<>>
        /\ stage \in {"build_service", "tool_execution"} => timings = Planning
        /\ stage = "report_build" =>
              timings = Append(Planning, Succeeded("tool_execution")) /\ Len(runs) = Len(plan)

\* How it has ended: with a report, or with the failure of the last stage, or
\* between the stages.
Ending ==
    stage = "done" =>
        \/ /\ failure = NoFailure /\ Len(runs) = Len(plan) /\ report = Report(plan, runs)
           /\ timings = Append(Append(Planning, Succeeded("tool_execution")),
                               Succeeded("report_build"))
        \/ /\ report = NoReport /\ kind = "workflow"
           /\ failure = [stage |-> "none", code |-> "workflow_failed"]
           /\ ~config.allowed /\ runs = <<>> /\ timings = Planning
        \/ /\ report = NoReport /\ kind = "workflow"
           /\ failure.stage = "plan_generation" /\ failure.code \in {"failed", "timeout"}
           /\ timings = <<Failed("plan_generation")>>
        \/ /\ report = NoReport /\ failure.code \in {"failed", "raised"}
           /\ kind = "workflow" => failure = [stage |-> "tool_execution", code |-> "failed"]
           /\ timings = Append(Planning, Failed("tool_execution"))
        \/ /\ report = NoReport /\ kind = "plan" /\ failure.code = "raised"
           /\ timings = Append(Planning, Succeeded("tool_execution"))

\* One run of each step so far, in order.
RunsFollowPlan ==
    /\ Len(runs) <= Len(plan)
    /\ \A i \in 1 .. Len(runs) : runs[i].step = plan[i].id

\* The steps of a plan that the workflow makes.
MadeSteps ==
    [id : Nat, requirements : SUBSET STRING, tool : Tools, named : BOOLEAN,
     args : Args, expected : SUBSET Nat, asserts : BOOLEAN]

\* The ids of the first requirements are distinct.
DistinctWanted(wanted) ==
    \A i, k \in 1 .. Len(wanted) : wanted[i].id = wanted[k].id => i = k

\* The model wrote a step of its own for each of the first so many.
Own(raw, wanted, m) ==
    \A k \in 1 .. m : \E j \in 1 .. Len(raw) : raw[j].requirements = {wanted[k].id}

\* A step expects the status that its requirement's text states.
Expects(step, req) == FromText(req, step.tool) => req.expected \in {{}, step.expected}

\* No tool refuses the arguments of its step.
Accepted(steps) == \A i \in 1 .. Len(steps) : steps[i].args = "ok"

\* The rest of PlanServesRequirements, of any plan, request and answer.
Serves(steps, req, ans) ==
    LET wanted == FirstOf(req.requirements, req.maxSteps)
    IN  /\ \A i \in 1 .. Len(steps) : steps[i].id = i
        /\ Len(steps) <= req.maxSteps
        /\ \A i \in 1 .. Len(wanted) : \E k \in 1 .. Len(steps) :
              steps[k].requirements = {wanted[i].id}
        /\ wanted # <<>> /\ DistinctWanted(wanted) =>
              /\ Len(steps) = Len(wanted)
              /\ \A i \in 1 .. Len(wanted) :
                    steps[i].requirements = {wanted[i].id} /\ Expects(steps[i], wanted[i])
              /\ \A i \in 1 .. Len(wanted) : Own(ans, wanted, i) => steps[i].named

MadePlanServes ==
    kind = "workflow" /\ plan # <<>> =>
        Serves(plan, request, answer) /\ (request.useLlm /\ ~fellBack => Accepted(plan))

InductiveInv ==
    TypeOK /\ GoingOn /\ Ending /\ RunsFollowPlan /\ MadePlanServes
-----------------------------------------------------------------------------
\* A set of naturals that is not empty has a least element.
LEMMA LeastNat ==
    ASSUME NEW T \in SUBSET Nat, T # {}
    PROVE  \E n \in T : \A m \in T : n <= m
<1> DEFINE R == {ss \in Nat \X Nat : ss[1] < ss[2]}
<1>1. IsWellFoundedOn(R, Nat)
  BY NatLessThanWellFounded DEF OpToRel
<1>2. PICK n \in T : \A m \in T : ~(<<m, n>> \in R)
  <2> HIDE DEF R
  <2> QED BY <1>1, WFMin
<1>3. \A m \in T : ~(m < n)
  BY <1>2
<1> QED BY <1>3

\* A set of naturals with 0 that has the successors of its members is all of
\* them.
LEMMA AllNat ==
    ASSUME NEW T \in SUBSET Nat, 0 \in T, \A n \in T : n + 1 \in T
    PROVE  \A n \in Nat : n \in T
<1> SUFFICES ASSUME Nat \ T # {} PROVE FALSE
  OBVIOUS
<1>1. PICK n \in Nat \ T : \A m \in Nat \ T : n <= m
  <2>1. Nat \ T \in SUBSET Nat
    OBVIOUS
  <2> QED BY <2>1, LeastNat
<1>2. n # 0 /\ n - 1 \in Nat /\ n - 1 \notin Nat \ T
  BY <1>1
<1>3. (n - 1) + 1 \in T
  BY <1>2
<1> QED BY <1>1, <1>2, <1>3
-----------------------------------------------------------------------------
\* What a request is.
LEMMA RequestTypes ==
    ASSUME NEW r \in PlanRequests
    PROVE  /\ r.requirements \in Seq(Requirements) /\ r.described \in Requirements
           /\ r.maxSteps \in Nat \ {0}
BY AgentAssumption

\* The first so many of a sequence.
LEMMA FirstOfIs ==
    ASSUME NEW S, NEW seq \in Seq(S), NEW max \in Nat
    PROVE  /\ FirstOf(seq, max) \in Seq(S)
           /\ Len(FirstOf(seq, max)) = Smaller(Len(seq), max)
           /\ \A i \in 1 .. Smaller(Len(seq), max) : FirstOf(seq, max)[i] = seq[i]
<1> DEFINE n == Smaller(Len(seq), max)
<1>1. Len(seq) \in Nat /\ n \in Nat /\ n <= Len(seq)
  BY DEF Smaller
<1>2. FirstOf(seq, max) = SubSeq(seq, 1, n)
  BY DEF FirstOf
<1> HIDE DEF n
<1>3. \A i \in 1 .. n : seq[i] \in S
  <2>1. ASSUME NEW i \in 1 .. n PROVE seq[i] \in S
    <3>1. i \in 1 .. Len(seq)
      BY <1>1
    <3> QED BY <3>1, ElementOfSeq
  <2> QED BY <2>1
<1>4. /\ SubSeq(seq, 1, n) \in Seq(S)
      /\ Len(SubSeq(seq, 1, n)) = IF 1 <= n THEN n - 1 + 1 ELSE 0
      /\ \A i \in 1 .. n - 1 + 1 : SubSeq(seq, 1, n)[i] = seq[1 + i - 1]
  BY <1>1, <1>3, SubSeqProperties
<1>5. Len(SubSeq(seq, 1, n)) = n
  BY <1>1, <1>4
<1>6. ASSUME NEW i \in 1 .. n PROVE SubSeq(seq, 1, n)[i] = seq[i]
  <2>1. i \in 1 .. n - 1 + 1 /\ 1 + i - 1 = i
    BY <1>1
  <2> QED BY <1>4, <2>1
<1> QED BY <1>2, <1>4, <1>5, <1>6 DEF n

\* A sequence without one of its elements keeps the others.
LEMMA Removed ==
    ASSUME NEW S, NEW s \in Seq(S), NEW i \in 1 .. Len(s)
    PROVE  /\ RemoveAt(s, i) \in Seq(S)
           /\ Len(RemoveAt(s, i)) = Len(s) - 1
           /\ \A k \in 1 .. Len(s) : k # i =>
                 \E j \in 1 .. Len(s) - 1 : RemoveAt(s, i)[j] = s[k]
<1> DEFINE a == SubSeq(s, 1, i - 1)
           b == SubSeq(s, i + 1, Len(s))
           n == Len(s)
<1>1. n \in Nat /\ i \in 1 .. n /\ \A k \in 1 .. n : s[k] \in S
  <2>1. ASSUME NEW k \in 1 .. Len(s) PROVE s[k] \in S
    BY <2>1, ElementOfSeq
  <2> QED BY <2>1
<1>2. /\ a \in Seq(S) /\ Len(a) = i - 1
      /\ \A k \in 1 .. i - 1 : a[k] = s[k]
  <2>1. \A k \in 1 .. i - 1 : s[k] \in S
    BY <1>1
  <2>2. /\ a \in Seq(S)
        /\ Len(a) = IF 1 <= i - 1 THEN (i - 1) - 1 + 1 ELSE 0
        /\ \A k \in 1 .. (i - 1) - 1 + 1 : a[k] = s[1 + k - 1]
    <3>1. i - 1 \in Int
      BY <1>1
    <3> QED BY <1>1, <2>1, <3>1, SubSeqProperties
  <2> HIDE DEF a
  <2>3. Len(a) = i - 1
    BY <1>1, <2>2
  <2>4. ASSUME NEW k \in 1 .. i - 1 PROVE a[k] = s[k]
    <3>1. k \in 1 .. (i - 1) - 1 + 1 /\ 1 + k - 1 = k
      BY <1>1
    <3> QED BY <2>2, <3>1
  <2> QED BY <2>2, <2>3, <2>4
<1>3. /\ b \in Seq(S) /\ Len(b) = n - i
      /\ \A k \in 1 .. n - i : b[k] = s[i + k]
  <2>1. \A k \in i + 1 .. n : s[k] \in S
    BY <1>1
  <2>2. /\ b \in Seq(S)
        /\ Len(b) = IF i + 1 <= n THEN n - (i + 1) + 1 ELSE 0
        /\ \A k \in 1 .. n - (i + 1) + 1 : b[k] = s[(i + 1) + k - 1]
    <3>1. i + 1 \in Int
      BY <1>1
    <3> QED BY <1>1, <2>1, <3>1, SubSeqProperties
  <2> HIDE DEF b
  <2>3. Len(b) = n - i
    BY <1>1, <2>2
  <2>4. ASSUME NEW k \in 1 .. n - i PROVE b[k] = s[i + k]
    <3>1. k \in 1 .. n - (i + 1) + 1 /\ (i + 1) + k - 1 = i + k
      BY <1>1
    <3> QED BY <2>2, <3>1
  <2> QED BY <2>2, <2>3, <2>4
<1>4. RemoveAt(s, i) = a \o b
  BY DEF RemoveAt
<1> HIDE DEF a, b, n
<1>5. /\ a \o b \in Seq(S)
      /\ Len(a \o b) = Len(a) + Len(b)
      /\ \A k \in 1 .. Len(a) + Len(b) :
            (a \o b)[k] = IF k <= Len(a) THEN a[k] ELSE b[k - Len(a)]
  BY <1>2, <1>3, ConcatProperties
<1>6. Len(a \o b) = n - 1
  BY <1>1, <1>2, <1>3, <1>5
<1>7. ASSUME NEW k \in 1 .. n, k # i PROVE \E j \in 1 .. n - 1 : (a \o b)[j] = s[k]
  <2>1. CASE k < i
    <3>1. k \in 1 .. i - 1 /\ k \in 1 .. n - 1 /\ k \in 1 .. Len(a) + Len(b) /\ k <= Len(a)
      BY <1>1, <1>2, <1>3, <2>1
    <3> QED BY <1>2, <1>5, <3>1
  <2>2. CASE k > i
    <3>1. /\ k - 1 \in 1 .. n - 1 /\ k - 1 \in 1 .. Len(a) + Len(b) /\ ~(k - 1 <= Len(a))
          /\ k - 1 - Len(a) = k - i /\ k - i \in 1 .. n - i /\ i + (k - i) = k
      BY <1>1, <1>2, <1>3, <2>2
    <3>2. (a \o b)[k - 1] = b[k - i]
      BY <1>5, <3>1
    <3>3. b[k - i] = s[i + (k - i)]
      BY <1>3, <3>1
    <3> QED BY <3>1, <3>2, <3>3
  <2>3. k < i \/ k > i
    <3>1. k \in Int /\ i \in Int /\ k # i
      BY <1>1, <1>7
    <3> QED BY <3>1
  <2> QED BY <2>1, <2>2, <2>3
<1> QED BY <1>4, <1>5, <1>6, <1>7 DEF n
-----------------------------------------------------------------------------
(* _select_llm_step_payloads *)

\* What the loop carries from one requirement to the next.
Selections ==
    [remaining : Seq(AnsweredSteps), selected : Seq([raw : AnsweredSteps, for : Requirements])]

\* A requirement takes a step that names it, where one does.
LEMMA ChoiceIs ==
    ASSUME NEW remaining \in Seq(AnsweredSteps), remaining # <<>>, NEW req \in Requirements
    PROVE  /\ Choice(remaining, req) \in 1 .. Len(remaining)
           /\ (\E i \in 1 .. Len(remaining) : req.id \in remaining[i].requirements)
                 => req.id \in remaining[Choice(remaining, req)].requirements
<1> DEFINE Names(i) == req.id \in remaining[i].requirements
           T == {i \in 1 .. Len(remaining) : Names(i)}
<1>1. Len(remaining) \in Nat /\ DOMAIN remaining = 1 .. Len(remaining) /\ 1 \in 1 .. Len(remaining)
  OBVIOUS
<1>2. CASE T = {}
  <2>1. ~ \E i \in DOMAIN remaining : Names(i)
    BY <1>1, <1>2
  <2>2. Choice(remaining, req) = 1
    BY <2>1 DEF Choice
  <2> QED BY <1>1, <2>1, <2>2
<1>3. CASE T # {}
  <2> DEFINE First(i) == Names(i) /\ \A k \in 1 .. i - 1 : ~Names(k)
  <2>1. PICK i \in T : \A k \in T : i <= k
    <3>1. T \in SUBSET Nat
      BY <1>1
    <3> HIDE DEF T
    <3> QED BY <1>3, <3>1, LeastNat
  <2>2. First(i)
    <3>1. ASSUME NEW k \in 1 .. i - 1, Names(k) PROVE FALSE
      <4>1. k \in T /\ k < i
        BY <1>1, <2>1, <3>1
      <4>2. i <= k
        BY <2>1, <4>1
      <4> QED BY <1>1, <2>1, <4>1, <4>2
    <3> QED BY <2>1, <3>1
  <2>3. \E k \in DOMAIN remaining : Names(k)
    BY <1>1, <2>1
  <2>4. Choice(remaining, req) = CHOOSE k \in DOMAIN remaining : First(k)
    BY <2>3 DEF Choice
  <2>5. i \in DOMAIN remaining
    BY <1>1, <2>1
  <2>6. Choice(remaining, req) \in DOMAIN remaining /\ First(Choice(remaining, req))
    <3> HIDE DEF First
    <3> QED BY <2>2, <2>4, <2>5
  <2> QED BY <1>1, <2>6
<1> QED BY <1>2, <1>3

\* What one requirement takes, and what it leaves.
LEMMA TakeStepDoes ==
    ASSUME NEW acc \in Selections, NEW req \in Requirements
    PROVE  /\ acc.remaining = <<>> => TakeStep(acc, req) = acc
           /\ acc.remaining # <<>> =>
                 LET next == TakeStep(acc, req)
                     n == Len(acc.selected)
                 IN  /\ next \in Selections
                     /\ Len(next.selected) = n + 1
                     /\ \A i \in 1 .. n : next.selected[i] = acc.selected[i]
                     /\ next.selected[n + 1].for = req
                     /\ (\E i \in 1 .. Len(acc.remaining) :
                            req.id \in acc.remaining[i].requirements)
                        => /\ req.id \in next.selected[n + 1].raw.requirements
                           /\ \A other : other # req.id /\
                                 (\E i \in 1 .. Len(acc.remaining) :
                                     acc.remaining[i].requirements = {other})
                                 => \E i \in 1 .. Len(next.remaining) :
                                       next.remaining[i].requirements = {other}
<1>1. acc.remaining = <<>> => TakeStep(acc, req) = acc
  BY DEF TakeStep
<1> SUFFICES ASSUME acc.remaining # <<>>
             PROVE  LET next == TakeStep(acc, req)
                        n == Len(acc.selected)
                    IN  /\ next \in Selections
                        /\ Len(next.selected) = n + 1
                        /\ \A i \in 1 .. n : next.selected[i] = acc.selected[i]
                        /\ next.selected[n + 1].for = req
                        /\ (\E i \in 1 .. Len(acc.remaining) :
                               req.id \in acc.remaining[i].requirements)
                           => /\ req.id \in next.selected[n + 1].raw.requirements
                              /\ \A other : other # req.id /\
                                    (\E i \in 1 .. Len(acc.remaining) :
                                        acc.remaining[i].requirements = {other})
                                    => \E i \in 1 .. Len(next.remaining) :
                                          next.remaining[i].requirements = {other}
  BY <1>1
<1> DEFINE rem == acc.remaining
           sel == acc.selected
           i0 == Choice(rem, req)
           one == [raw |-> rem[i0], for |-> req]
           next == TakeStep(acc, req)
           left == RemoveAt(rem, i0)
           more == Append(sel, one)
           n == Len(sel)
<1>2. rem \in Seq(AnsweredSteps) /\ sel \in Seq([raw : AnsweredSteps, for : Requirements])
  BY DEF Selections
<1>3. next = [remaining |-> left, selected |-> more]
  BY DEF TakeStep
<1>4. /\ i0 \in 1 .. Len(rem)
      /\ (\E i \in 1 .. Len(rem) : req.id \in rem[i].requirements) => req.id \in rem[i0].requirements
  <2> HIDE DEF rem
  <2> QED BY <1>2, ChoiceIs DEF rem
<1> HIDE DEF i0
<1>5. rem[i0] \in AnsweredSteps
  <2> HIDE DEF rem
  <2> QED BY <1>2, <1>4, ElementOfSeq
<1>6. one \in [raw : AnsweredSteps, for : Requirements] /\ one.raw = rem[i0] /\ one.for = req
  BY <1>5
<1>7. /\ left \in Seq(AnsweredSteps) /\ Len(left) = Len(rem) - 1
      /\ \A k \in 1 .. Len(rem) : k # i0 => \E j \in 1 .. Len(rem) - 1 : left[j] = rem[k]
  <2> HIDE DEF rem
  <2> QED BY <1>2, <1>4, Removed
<1> HIDE DEF one
<1>8. /\ more \in Seq([raw : AnsweredSteps, for : Requirements]) /\ Len(more) = n + 1
      /\ \A i \in 1 .. n : more[i] = sel[i]
      /\ more[n + 1] = one
  <2> HIDE DEF sel
  <2> QED BY <1>2, <1>6
<1> HIDE DEF left, more
<1>9. next.remaining = left /\ next.selected = more /\ next \in Selections
  BY <1>3, <1>7, <1>8 DEF Selections
<1>10. ASSUME \E i \in 1 .. Len(rem) : req.id \in rem[i].requirements
       PROVE  /\ req.id \in more[n + 1].raw.requirements
              /\ \A other : other # req.id /\
                    (\E i \in 1 .. Len(rem) : rem[i].requirements = {other})
                    => \E i \in 1 .. Len(left) : left[i].requirements = {other}
  <2>1. req.id \in rem[i0].requirements
    BY <1>4, <1>10
  <2>2. ASSUME NEW other, other # req.id, NEW i \in 1 .. Len(rem), rem[i].requirements = {other}
        PROVE  \E j \in 1 .. Len(left) : left[j].requirements = {other}
    <3>1. i # i0
      BY <2>1, <2>2
    <3> QED BY <1>7, <2>2, <3>1
  <2> QED BY <1>6, <1>8, <2>1, <2>2
<1> HIDE DEF next, rem, sel, n
<1> QED BY <1>8, <1>6, <1>9, <1>10 DEF next, rem, sel, n

Loop(taken, raw, wanted) ==
    taken = [n \in 0 .. Len(wanted) |->
                IF n = 0 THEN [remaining |-> raw, selected |-> <<>>]
                ELSE TakeStep(taken[n - 1], wanted[n])]

\* The loop over the requirements is defined.
LEMMA LoopDefined ==
    ASSUME NEW raw, NEW wanted, Len(wanted) \in Nat
    PROVE  \E taken : Loop(taken, raw, wanted)
<1> DEFINE start == [remaining |-> raw, selected |-> <<>>]
           Body(g, n) == IF n = 0 THEN start ELSE TakeStep(g[n - 1], wanted[n])
           Defined(k) == \E g : g = [n \in 0 .. k |-> Body(g, n)]
           T == {k \in Nat : Defined(k)}
<1>1. 0 \in T
  <2> DEFINE g == [n \in 0 .. 0 |-> start]
  <2>1. g = [n \in 0 .. 0 |-> Body(g, n)]
    <3>1. \A n \in 0 .. 0 : Body(g, n) = start
      OBVIOUS
    <3> QED BY <3>1
  <2> QED BY <2>1
<1>2. ASSUME NEW k \in T PROVE k + 1 \in T
  <2>1. PICK h : h = [n \in 0 .. k |-> Body(h, n)]
    OBVIOUS
  <2>2. k \in Nat
    OBVIOUS
  <2> DEFINE g == [n \in 0 .. k + 1 |-> IF n = k + 1 THEN TakeStep(h[k], wanted[k + 1]) ELSE h[n]]
  <2>3. ASSUME NEW n \in 0 .. k + 1 PROVE g[n] = Body(g, n)
    <3>1. CASE n = k + 1
      <4>1. n # 0 /\ n - 1 = k /\ k \in 0 .. k + 1 /\ k # k + 1
        BY <2>2, <3>1
      <4>2. g[n - 1] = h[k]
        BY <4>1
      <4> QED BY <3>1, <4>1, <4>2
    <3>2. CASE n # k + 1
      <4>1. n \in 0 .. k /\ (n # 0 => n - 1 \in 0 .. k + 1 /\ n - 1 # k + 1)
        BY <2>2, <3>2
      <4>2. n # 0 => g[n - 1] = h[n - 1]
        BY <4>1
      <4>3. Body(g, n) = Body(h, n)
        <5> HIDE DEF g
        <5> QED BY <4>2
      <4>4. h[n] = Body(h, n)
        <5> HIDE DEF Body
        <5> QED BY <2>1, <4>1
      <4> HIDE DEF Body
      <4> QED BY <3>2, <4>3, <4>4
    <3> QED BY <3>1, <3>2
  <2>4. g = [n \in 0 .. k + 1 |-> Body(g, n)]
    <3>1. g = [n \in 0 .. k + 1 |-> g[n]]
      OBVIOUS
    <3> HIDE DEF g, Body
    <3> QED BY <2>3, <3>1
  <2>5. k + 1 \in Nat
    BY <2>2
  <2> HIDE DEF g, Body
  <2> QED BY <2>4, <2>5
<1>3. Len(wanted) \in T
  <2>1. T \in SUBSET Nat
    OBVIOUS
  <2> HIDE DEF T
  <2> QED BY <1>1, <1>2, <2>1, AllNat
<1> QED BY <1>3 DEF Loop

\* The loop, requirement by requirement.
LEMMA LoopSteps ==
    ASSUME NEW raw, NEW wanted \in Seq(Requirements), NEW taken, Loop(taken, raw, wanted)
    PROVE  /\ Len(wanted) \in Nat
           /\ \A n \in 0 .. Len(wanted) :
                 taken[n] = IF n = 0 THEN [remaining |-> raw, selected |-> <<>>]
                            ELSE TakeStep(taken[n - 1], wanted[n])
<1> DEFINE Body(n) == IF n = 0 THEN [remaining |-> raw, selected |-> <<>>]
                      ELSE TakeStep(taken[n - 1], wanted[n])
<1>1. Len(wanted) \in Nat
  OBVIOUS
<1>2. taken = [n \in 0 .. Len(wanted) |-> Body(n)]
  BY DEF Loop
<1> HIDE DEF Body
<1>3. \A n \in 0 .. Len(wanted) : taken[n] = Body(n)
  BY <1>2
<1> QED BY <1>1, <1>3 DEF Body

\* After n requirements: the steps taken are theirs, in order; if there are fewer,
\* none is left.
LEMMA LoopTakes ==
    ASSUME NEW raw \in Seq(AnsweredSteps), NEW wanted \in Seq(Requirements), NEW taken,
           Loop(taken, raw, wanted)
    PROVE  \A n \in 0 .. Len(wanted) :
              /\ taken[n] \in Selections
              /\ Len(taken[n].selected) <= n
              /\ taken[n].remaining # <<>> => Len(taken[n].selected) = n
              /\ \A i \in 1 .. Len(taken[n].selected) : taken[n].selected[i].for = wanted[i]
<1> DEFINE P(n) == /\ taken[n] \in Selections
                   /\ Len(taken[n].selected) <= n
                   /\ taken[n].remaining # <<>> => Len(taken[n].selected) = n
                   /\ \A i \in 1 .. Len(taken[n].selected) :
                         taken[n].selected[i].for = wanted[i]
           T == {n \in Nat : n <= Len(wanted) => P(n)}
<1>1. Len(wanted) \in Nat
      /\ \A n \in 0 .. Len(wanted) :
            taken[n] = IF n = 0 THEN [remaining |-> raw, selected |-> <<>>]
                       ELSE TakeStep(taken[n - 1], wanted[n])
  BY LoopSteps
<1>2. 0 \in T
  <2>1. taken[0] = [remaining |-> raw, selected |-> <<>>]
    BY <1>1
  <2>2. taken[0].selected = <<>> /\ Len(<<>>) = 0 /\ taken[0] \in Selections
    BY <2>1 DEF Selections
  <2> QED BY <2>2
<1>3. ASSUME NEW n \in T PROVE n + 1 \in T
  <2> SUFFICES ASSUME n + 1 <= Len(wanted) PROVE P(n + 1)
    OBVIOUS
  <2>1. n \in Nat /\ n <= Len(wanted) /\ n + 1 \in 0 .. Len(wanted) /\ n + 1 # 0
        /\ (n + 1) - 1 = n /\ n + 1 \in 1 .. Len(wanted)
    BY <1>1
  <2>2. P(n)
    BY <2>1
  <2> DEFINE acc == taken[n]
             req == wanted[n + 1]
             next == taken[n + 1]
             m == Len(acc.selected)
  <2>3. next = TakeStep(acc, req)
    BY <1>1, <2>1
  <2>4. req \in Requirements
    BY <2>1, ElementOfSeq
  <2>5. /\ acc \in Selections /\ m <= n /\ (acc.remaining # <<>> => m = n)
        /\ \A i \in 1 .. m : acc.selected[i].for = wanted[i]
    BY <2>2
  <2>6. m \in Nat
    <3>1. acc.selected \in Seq([raw : AnsweredSteps, for : Requirements])
      BY <2>5 DEF Selections
    <3> HIDE DEF acc
    <3> QED BY <3>1
  <2>7. CASE acc.remaining = <<>>
    <3>1. next = acc
      BY <2>3, <2>4, <2>5, <2>7, TakeStepDoes
    <3>2. /\ next \in Selections /\ Len(next.selected) = m /\ m <= n + 1
          /\ next.remaining = <<>>
          /\ \A i \in 1 .. m : next.selected[i].for = wanted[i]
      <4> HIDE DEF next, acc, m
      <4> QED BY <2>1, <2>5, <2>6, <2>7, <3>1 DEF m
    <3> HIDE DEF m
    <3> QED BY <3>2
  <2>8. CASE acc.remaining # <<>>
    <3>1. /\ next \in Selections
          /\ Len(next.selected) = m + 1
          /\ \A i \in 1 .. m : next.selected[i] = acc.selected[i]
          /\ next.selected[m + 1].for = req
      BY <2>3, <2>4, <2>5, <2>8, TakeStepDoes
    <3> HIDE DEF next, acc, m
    <3>2. m = n
      BY <2>5, <2>8
    <3>3. ASSUME NEW i \in 1 .. n + 1 PROVE next.selected[i].for = wanted[i]
      <4>1. CASE i = n + 1
        BY <3>1, <3>2, <4>1
      <4>2. CASE i # n + 1
        <5>1. i \in 1 .. m
          BY <2>1, <3>2, <4>2
        <5> QED BY <2>5, <3>1, <5>1
      <4> QED BY <4>1, <4>2
    <3>4. Len(next.selected) = n + 1 /\ n + 1 <= n + 1
      BY <2>1, <3>1, <3>2
    <3>5. /\ next \in Selections /\ Len(next.selected) <= n + 1
          /\ (next.remaining # <<>> => Len(next.selected) = n + 1)
          /\ \A i \in 1 .. Len(next.selected) : next.selected[i].for = wanted[i]
      BY <3>1, <3>3, <3>4
    <3> QED BY <3>5 DEF next
  <2> QED BY <2>7, <2>8
<1>4. ASSUME NEW n \in 0 .. Len(wanted) PROVE P(n)
  <2>1. T \in SUBSET Nat
    OBVIOUS
  <2>2. n \in T
    <3> HIDE DEF T
    <3> QED BY <1>1, <1>2, <1>3, <2>1, AllNat
  <2> HIDE DEF P
  <2> QED BY <1>1, <2>2
<1> QED BY <1>4

\* After n requirements: the steps the model wrote for the next of them are left,
Left(taken, raw, wanted, n) ==
    \A m \in n .. Len(wanted) : Own(raw, wanted, m) =>
        /\ Len(taken[n].selected) = n
        /\ \A k \in n + 1 .. m : \E j \in 1 .. Len(taken[n].remaining) :
              taken[n].remaining[j].requirements = {wanted[k].id}

\* and the first of them have got theirs.
Got(taken, raw, wanted, n) ==
    \A i \in 1 .. n : Own(raw, wanted, i) =>
        /\ i <= Len(taken[n].selected)
        /\ wanted[i].id \in taken[n].selected[i].raw.requirements

\* Where the ids are distinct, a requirement gets the step of its own, if the
\* model wrote one for each of the requirements up to it.
LEMMA LoopServes ==
    ASSUME NEW raw \in Seq(AnsweredSteps), NEW wanted \in Seq(Requirements), NEW taken,
           Loop(taken, raw, wanted),
           \A i, k \in 1 .. Len(wanted) : wanted[i].id = wanted[k].id => i = k
    PROVE  \A n \in 0 .. Len(wanted) : Got(taken, raw, wanted, n)
<1> DEFINE P(n) == Left(taken, raw, wanted, n) /\ Got(taken, raw, wanted, n)
           T == {n \in Nat : n <= Len(wanted) => P(n)}
<1>1. Len(wanted) \in Nat
      /\ \A n \in 0 .. Len(wanted) :
            taken[n] = IF n = 0 THEN [remaining |-> raw, selected |-> <<>>]
                       ELSE TakeStep(taken[n - 1], wanted[n])
  BY LoopSteps
<1>2. 0 \in T
  <2>1. taken[0] = [remaining |-> raw, selected |-> <<>>]
    BY <1>1
  <2>2. Len(taken[0].selected) = 0 /\ taken[0].remaining = raw
    BY <2>1
  <2>3. Left(taken, raw, wanted, 0)
    <3>1. ASSUME NEW m \in 0 .. Len(wanted), Own(raw, wanted, m), NEW k \in 0 + 1 .. m
          PROVE  \E j \in 1 .. Len(raw) : raw[j].requirements = {wanted[k].id}
      <4>1. k \in 1 .. m
        OBVIOUS
      <4> QED BY <3>1, <4>1 DEF Own
    <3> QED BY <2>2, <3>1 DEF Left
  <2>4. Got(taken, raw, wanted, 0)
    BY DEF Got
  <2> QED BY <2>3, <2>4
<1>3. ASSUME NEW n \in T PROVE n + 1 \in T
  <2> SUFFICES ASSUME n + 1 <= Len(wanted)
               PROVE  Left(taken, raw, wanted, n + 1) /\ Got(taken, raw, wanted, n + 1)
    OBVIOUS
  <2>1. n \in Nat /\ n <= Len(wanted) /\ n + 1 \in 0 .. Len(wanted) /\ n + 1 # 0
        /\ (n + 1) - 1 = n /\ n + 1 \in 1 .. Len(wanted) /\ n \in 0 .. Len(wanted)
    BY <1>1
  <2>2. Left(taken, raw, wanted, n) /\ Got(taken, raw, wanted, n)
    BY <2>1
  <2> DEFINE acc == taken[n]
             req == wanted[n + 1]
             next == taken[n + 1]
             s == Len(acc.selected)
  <2>3. next = TakeStep(acc, req)
    BY <1>1, <2>1
  <2>4. req \in Requirements
    BY <2>1, ElementOfSeq
  <2>5. acc \in Selections
    BY <2>1, LoopTakes
  <2>6. s \in Nat
    <3>1. acc.selected \in Seq([raw : AnsweredSteps, for : Requirements])
      BY <2>5 DEF Selections
    <3> HIDE DEF acc
    <3> QED BY <3>1
  <2>7. /\ acc.remaining = <<>> => next = acc
        /\ acc.remaining # <<>> =>
              /\ Len(next.selected) = s + 1
              /\ \A i \in 1 .. s : next.selected[i] = acc.selected[i]
              /\ (\E i \in 1 .. Len(acc.remaining) : req.id \in acc.remaining[i].requirements)
                 => /\ req.id \in next.selected[s + 1].raw.requirements
                    /\ \A other : other # req.id /\
                          (\E i \in 1 .. Len(acc.remaining) :
                              acc.remaining[i].requirements = {other})
                          => \E i \in 1 .. Len(next.remaining) :
                                next.remaining[i].requirements = {other}
    <3> HIDE DEF acc, req, next
    <3>1. acc.remaining = <<>> => next = acc
      BY <2>3, <2>4, <2>5, TakeStepDoes
    <3>2. ASSUME acc.remaining # <<>>
          PROVE  /\ Len(next.selected) = s + 1
                 /\ \A i \in 1 .. s : next.selected[i] = acc.selected[i]
                 /\ (\E i \in 1 .. Len(acc.remaining) :
                        req.id \in acc.remaining[i].requirements)
                    => /\ req.id \in next.selected[s + 1].raw.requirements
                       /\ \A other : other # req.id /\
                             (\E i \in 1 .. Len(acc.remaining) :
                                 acc.remaining[i].requirements = {other})
                             => \E i \in 1 .. Len(next.remaining) :
                                   next.remaining[i].requirements = {other}
      <4> DEFINE took == TakeStep(acc, req)
      <4>1. /\ Len(took.selected) = s + 1
            /\ \A i \in 1 .. s : took.selected[i] = acc.selected[i]
            /\ (\E i \in 1 .. Len(acc.remaining) :
                   req.id \in acc.remaining[i].requirements)
               => /\ req.id \in took.selected[s + 1].raw.requirements
                  /\ \A other : other # req.id /\
                        (\E i \in 1 .. Len(acc.remaining) :
                            acc.remaining[i].requirements = {other})
                        => \E i \in 1 .. Len(took.remaining) :
                              took.remaining[i].requirements = {other}
        BY <2>4, <2>5, <3>2, TakeStepDoes, Zenon
      <4>2. took = next
        BY <2>3
      <4> HIDE DEF took
      <4> QED BY <4>1, <4>2, Zenon
    <3> HIDE DEF s
    <3> QED BY <3>1, <3>2
  <2>8. \A m \in n .. Len(wanted) : Own(raw, wanted, m) =>
           /\ s = n
           /\ \A k \in n + 1 .. m : \E j \in 1 .. Len(acc.remaining) :
                 acc.remaining[j].requirements = {wanted[k].id}
    BY <2>2 DEF Left
  <2>9. \A i \in 1 .. n : Own(raw, wanted, i) =>
           i <= s /\ wanted[i].id \in acc.selected[i].raw.requirements
    BY <2>2 DEF Got
  <2> HIDE DEF acc, next, s, req
  <2>10. ASSUME NEW m \in n + 1 .. Len(wanted), Own(raw, wanted, m)
         PROVE  /\ s = n /\ acc.remaining # <<>>
                /\ \E i \in 1 .. Len(acc.remaining) : req.id \in acc.remaining[i].requirements
                /\ \A k \in n + 2 .. m : \E j \in 1 .. Len(next.remaining) :
                      next.remaining[j].requirements = {wanted[k].id}
    <3>1. m \in n .. Len(wanted)
      BY <2>1
    <3>2. /\ s = n
          /\ \A k \in n + 1 .. m : \E j \in 1 .. Len(acc.remaining) :
                acc.remaining[j].requirements = {wanted[k].id}
      BY <2>8, <2>10, <3>1
    <3>3. n + 1 \in n + 1 .. m
      BY <2>1
    <3>4. PICK j \in 1 .. Len(acc.remaining) : acc.remaining[j].requirements = {req.id}
      BY <3>2, <3>3 DEF req
    <3>5. req.id \in acc.remaining[j].requirements
      BY <3>4
    <3>6. acc.remaining # <<>>
      <4>1. acc.remaining = <<>> => Len(acc.remaining) = 0
        OBVIOUS
      <4> QED BY <3>4, <4>1
    <3>7. ASSUME NEW k \in n + 2 .. m
          PROVE  \E i \in 1 .. Len(next.remaining) :
                    next.remaining[i].requirements = {wanted[k].id}
      <4>1. k \in n + 1 .. m /\ k \in 1 .. Len(wanted) /\ k # n + 1
        BY <1>1, <2>1
      <4>2. wanted[k].id # req.id
        BY <2>1, <4>1 DEF req
      <4>3. \E i \in 1 .. Len(acc.remaining) : acc.remaining[i].requirements = {wanted[k].id}
        BY <3>2, <4>1
      <4> QED BY <2>7, <3>5, <3>6, <4>2, <4>3
    <3> QED BY <3>2, <3>5, <3>6, <3>7
  <2>11. ASSUME NEW m \in n + 1 .. Len(wanted), Own(raw, wanted, m)
         PROVE  /\ Len(next.selected) = n + 1
                /\ \A k \in (n + 1) + 1 .. m : \E j \in 1 .. Len(next.remaining) :
                      next.remaining[j].requirements = {wanted[k].id}
    <3>1. (n + 1) + 1 = n + 2
      BY <2>1
    <3>2. Len(next.selected) = n + 1
      BY <2>7, <2>10, <2>11
    <3>3. \A k \in n + 2 .. m : \E j \in 1 .. Len(next.remaining) :
             next.remaining[j].requirements = {wanted[k].id}
      BY <2>10, <2>11
    <3> QED BY <3>1, <3>2, <3>3
  <2>12. ASSUME NEW i \in 1 .. n + 1, Own(raw, wanted, i)
         PROVE  i <= Len(next.selected) /\ wanted[i].id \in next.selected[i].raw.requirements
    <3>1. CASE i = n + 1
      <4>1. i \in n + 1 .. Len(wanted)
        BY <2>1, <3>1
      <4>2. /\ s = n /\ acc.remaining # <<>>
            /\ \E j \in 1 .. Len(acc.remaining) : req.id \in acc.remaining[j].requirements
        BY <2>10, <2>12, <4>1
      <4>3. Len(next.selected) = n + 1 /\ req.id \in next.selected[n + 1].raw.requirements
        BY <2>7, <4>2
      <4> QED BY <2>1, <3>1, <4>3 DEF req
    <3>2. CASE i # n + 1
      <4>1. i \in 1 .. n
        BY <2>1, <3>2
      <4>2. i <= s /\ wanted[i].id \in acc.selected[i].raw.requirements
        BY <2>9, <2>12, <4>1
      <4>3. CASE acc.remaining = <<>>
        BY <2>7, <4>2, <4>3 DEF s
      <4>4. CASE acc.remaining # <<>>
        <5>1. i \in 1 .. s /\ i <= s + 1
          BY <2>6, <4>1, <4>2
        <5> QED BY <2>7, <4>2, <4>4, <5>1
      <4> QED BY <4>3, <4>4
    <3> QED BY <3>1, <3>2
  <2>13. Left(taken, raw, wanted, n + 1)
    BY <2>11 DEF next, Left
  <2>14. Got(taken, raw, wanted, n + 1)
    BY <2>12 DEF next, Got
  <2> QED BY <2>13, <2>14
<1>4. ASSUME NEW n \in 0 .. Len(wanted) PROVE Got(taken, raw, wanted, n)
  <2>1. T \in SUBSET Nat
    OBVIOUS
  <2>2. \A k \in T : k + 1 \in T
    <3> HIDE DEF T
    <3> QED BY <1>3
  <2> HIDE DEF P
  <2>3. \A k \in Nat : k \in T
    <3> HIDE DEF T
    <3> QED BY <1>2, <2>1, <2>2, AllNat
  <2>4. n \in Nat /\ n <= Len(wanted)
    BY <1>1
  <2> QED BY <2>3, <2>4 DEF P
<1> QED BY <1>4

\* What is selected where the request has requirements.
LEMMA SelectedIs ==
    ASSUME NEW raw \in Seq(AnsweredSteps), NEW req \in PlanRequests, req.requirements # <<>>
    PROVE  LET wanted == FirstOf(req.requirements, req.maxSteps)
               chosen == Selected(raw, req)
           IN  /\ wanted \in Seq(Requirements)
               /\ chosen \in Seq([raw : AnsweredSteps, for : Requirements])
               /\ Len(chosen) <= Len(wanted)
               /\ \A i \in 1 .. Len(chosen) : chosen[i].for = wanted[i]
               /\ (\A i, k \in 1 .. Len(wanted) : wanted[i].id = wanted[k].id => i = k) =>
                     \A i \in 1 .. Len(wanted) : Own(raw, wanted, i) =>
                        i <= Len(chosen) /\ wanted[i].id \in chosen[i].raw.requirements
<1> DEFINE wanted == FirstOf(req.requirements, req.maxSteps)
           taken == CHOOSE t : Loop(t, raw, wanted)
           chosen == Selected(raw, req)
<1>1. wanted \in Seq(Requirements)
  BY RequestTypes, FirstOfIs
<1>2. chosen = taken[Len(wanted)].selected
  BY DEF Selected, Loop
<1> HIDE DEF wanted
<1>3. Len(wanted) \in Nat /\ Len(wanted) \in 0 .. Len(wanted)
  BY <1>1
<1>4. Loop(taken, raw, wanted)
  BY <1>3, LoopDefined
<1> HIDE DEF taken, chosen
<1>5. /\ taken[Len(wanted)] \in Selections
      /\ Len(chosen) <= Len(wanted)
      /\ \A i \in 1 .. Len(chosen) : chosen[i].for = wanted[i]
  BY <1>1, <1>2, <1>3, <1>4, LoopTakes
<1>6. chosen \in Seq([raw : AnsweredSteps, for : Requirements])
  BY <1>2, <1>5 DEF Selections
<1>7. (\A i, k \in 1 .. Len(wanted) : wanted[i].id = wanted[k].id => i = k) =>
         \A i \in 1 .. Len(wanted) : Own(raw, wanted, i) =>
            i <= Len(chosen) /\ wanted[i].id \in chosen[i].raw.requirements
  BY <1>1, <1>2, <1>3, <1>4, LoopServes DEF Got
<1> QED BY <1>1, <1>5, <1>6, <1>7 DEF wanted, chosen
-----------------------------------------------------------------------------
(* The plan that is made. *)

\* The first requirements of a request.
LEMMA WantedIs ==
    ASSUME NEW req \in PlanRequests
    PROVE  LET wanted == FirstOf(req.requirements, req.maxSteps)
           IN  /\ wanted \in Seq(Requirements)
               /\ Len(wanted) <= req.maxSteps
               /\ wanted = <<>> <=> req.requirements = <<>>
               /\ \A i \in 1 .. Len(wanted) : wanted[i] = req.requirements[i]
<1> DEFINE wanted == FirstOf(req.requirements, req.maxSteps)
<1>1. req.requirements \in Seq(Requirements) /\ req.maxSteps \in Nat /\ req.maxSteps > 0
  BY RequestTypes
<1>2. /\ wanted \in Seq(Requirements) /\ Len(wanted) = Smaller(Len(req.requirements), req.maxSteps)
      /\ \A i \in 1 .. Smaller(Len(req.requirements), req.maxSteps) :
            wanted[i] = req.requirements[i]
  BY <1>1, FirstOfIs
<1> HIDE DEF wanted
<1>3. Len(req.requirements) \in Nat /\ (Len(req.requirements) = 0 <=> req.requirements = <<>>)
  BY <1>1, EmptySeq
<1>4. Len(wanted) \in Nat /\ (Len(wanted) = 0 <=> wanted = <<>>)
  BY <1>2, EmptySeq
<1>5. Len(wanted) <= req.maxSteps /\ (Len(wanted) = 0 <=> Len(req.requirements) = 0)
  BY <1>1, <1>2, <1>3 DEF Smaller
<1> QED BY <1>2, <1>3, <1>4, <1>5 DEF wanted

\* What the steps are made from.
Chosen == [raw : AnsweredSteps, for : Requirements \cup {NoRequirement}]

\* The steps that are selected are no more than the request allows.
LEMMA ChosenIs ==
    ASSUME NEW raw \in Seq(AnsweredSteps), NEW req \in PlanRequests
    PROVE  Selected(raw, req) \in Seq(Chosen) /\ Len(Selected(raw, req)) <= req.maxSteps
<1>1. req.maxSteps \in Nat /\ Len(raw) \in Nat
  BY RequestTypes
<1>2. CASE req.requirements # <<>>
  <2> DEFINE wanted == FirstOf(req.requirements, req.maxSteps)
             chosen == Selected(raw, req)
  <2>1. /\ chosen \in Seq([raw : AnsweredSteps, for : Requirements])
        /\ Len(chosen) <= Len(wanted)
    BY <1>2, SelectedIs
  <2>2. wanted \in Seq(Requirements) /\ Len(wanted) <= req.maxSteps
    BY WantedIs
  <2> HIDE DEF wanted, chosen
  <2>3. Len(chosen) \in Nat /\ Len(wanted) \in Nat
    BY <2>1, <2>2
  <2>4. \A i \in 1 .. Len(chosen) : chosen[i] \in Chosen
    <3>1. ASSUME NEW i \in 1 .. Len(chosen) PROVE chosen[i] \in Chosen
      <4>1. chosen[i] \in [raw : AnsweredSteps, for : Requirements]
        BY <2>1, ElementOfSeq
      <4> QED BY <4>1 DEF Chosen
    <3> QED BY <3>1
  <2>5. chosen \in Seq(Chosen)
    BY <2>1, <2>4
  <2> QED BY <1>1, <2>1, <2>2, <2>3, <2>5 DEF chosen
<1>3. CASE req.requirements = <<>>
  <2> DEFINE n == Smaller(Len(raw), req.maxSteps)
  <2>1. n \in Nat /\ n <= req.maxSteps /\ n <= Len(raw)
    BY <1>1 DEF Smaller
  <2> HIDE DEF n
  <2>2. Selected(raw, req) = [i \in 1 .. n |-> [raw |-> raw[i], for |-> NoRequirement]]
    BY <1>3 DEF Selected, n
  <2>3. ASSUME NEW i \in 1 .. n PROVE [raw |-> raw[i], for |-> NoRequirement] \in Chosen
    <3>1. i \in 1 .. Len(raw)
      BY <1>1, <2>1
    <3>2. raw[i] \in AnsweredSteps
      BY <3>1, ElementOfSeq
    <3> QED BY <3>2 DEF Chosen
  <2>4. Selected(raw, req) \in Seq(Chosen) /\ Len(Selected(raw, req)) = n
    BY <2>1, <2>2, <2>3
  <2> QED BY <2>1, <2>4
<1> QED BY <1>2, <1>3

\* The step that is made from what the model wrote, for a requirement.
LlmStep(i, one) ==
    [id |-> i,
     requirements |-> IF one.for = NoRequirement THEN one.raw.requirements ELSE {one.for.id},
     named |-> one.for # NoRequirement /\ one.for.id \in one.raw.requirements,
     tool |-> LlmTool(one.raw, one.for), args |-> LlmArgs(one.raw, one.for),
     expected |-> ExpectedOf(one.for, LlmTool(one.raw, one.for), one.raw.expected),
     asserts |-> one.raw.asserts
                    \/ (FromText(one.for, LlmTool(one.raw, one.for)) /\ one.for.asserts)]

\* What is expected is of the right type, and the requirement's where it states it.
LEMMA ExpectedIs ==
    ASSUME NEW req \in Requirements \cup {NoRequirement}, NEW tool,
           NEW default \in SUBSET Nat
    PROVE  /\ ExpectedOf(req, tool, default) \in SUBSET Nat
           /\ FromText(req, tool) => req.expected \in {{}, ExpectedOf(req, tool, default)}
           /\ FromText(req, tool) \in BOOLEAN
<1>1. FromText(req, tool) => req.expected \in SUBSET Nat
  BY DEF FromText, Requirements
<1>2. FromText(req, tool) \in BOOLEAN
  BY DEF FromText, Requirements
<1> QED BY <1>1, <1>2 DEF ExpectedOf

\* It is a step, whatever the model wrote.
LEMMA LlmStepIs ==
    ASSUME NEW i \in Nat, NEW one \in Chosen
    PROVE  LlmStep(i, one) \in MadeSteps
<1> DEFINE raw == one.raw
           owner == one.for
<1>1. raw \in AnsweredSteps /\ owner \in Requirements \cup {NoRequirement}
  BY DEF Chosen
<1> HIDE DEF raw, owner
<1>2. /\ raw.requirements \in SUBSET STRING /\ raw.tool \in Tools
      /\ raw.expected \in SUBSET Nat /\ raw.asserts \in BOOLEAN
  BY <1>1 DEF AnsweredSteps
<1>3. owner # NoRequirement => owner.id \in STRING /\ owner.tool \in Tools
  BY <1>1 DEF Requirements
<1>4. LlmTool(raw, owner) \in Tools
  BY <1>2, <1>3 DEF LlmTool
<1>5. LlmArgs(raw, owner) \in Args
  BY DEF LlmArgs, Args
<1> DEFINE requirements == IF owner = NoRequirement THEN raw.requirements ELSE {owner.id}
           named == owner # NoRequirement /\ owner.id \in raw.requirements
           expected == ExpectedOf(owner, LlmTool(raw, owner), raw.expected)
           asserts == raw.asserts \/ (FromText(owner, LlmTool(raw, owner)) /\ owner.asserts)
<1>6. requirements \in SUBSET STRING
  BY <1>2, <1>3
<1>7. named \in BOOLEAN
  OBVIOUS
<1>8. LlmStep(i, one) = [id |-> i, requirements |-> requirements, named |-> named,
                         tool |-> LlmTool(raw, owner), args |-> LlmArgs(raw, owner),
                         expected |-> expected, asserts |-> asserts]
  BY DEF LlmStep, raw, owner
<1>9. expected \in SUBSET Nat
  BY <1>1, <1>2, ExpectedIs
<1>10. asserts \in BOOLEAN
  OBVIOUS
<1> HIDE DEF requirements, named, expected, asserts
<1> QED BY <1>4, <1>5, <1>6, <1>7, <1>8, <1>9, <1>10 DEF MadeSteps

\* The plan from the answer, step by step.
LEMMA LlmPlanIs ==
    ASSUME NEW payload \in Payloads, NEW req \in PlanRequests
    PROVE  LET chosen == Selected(payload.steps, req)
               steps == LlmPlan(payload, req)
           IN  /\ payload.steps \in Seq(AnsweredSteps)
               /\ chosen \in Seq(Chosen) /\ Len(chosen) <= req.maxSteps
               /\ steps \in Seq(MadeSteps) /\ Len(steps) = Len(chosen)
               /\ \A i \in 1 .. Len(chosen) : steps[i] = LlmStep(i, chosen[i])
<1> DEFINE chosen == Selected(payload.steps, req)
           steps == LlmPlan(payload, req)
<1>1. payload.steps \in Seq(AnsweredSteps)
  BY AgentAssumption
<1>2. chosen \in Seq(Chosen) /\ Len(chosen) <= req.maxSteps
  BY <1>1, ChosenIs
<1>3. steps = [i \in DOMAIN chosen |-> LlmStep(i, chosen[i])]
  BY DEF LlmPlan, LlmStep
<1> HIDE DEF chosen, steps
<1>4. Len(chosen) \in Nat /\ DOMAIN chosen = 1 .. Len(chosen)
  BY <1>2
<1>5. ASSUME NEW i \in 1 .. Len(chosen) PROVE LlmStep(i, chosen[i]) \in MadeSteps
  <2>1. chosen[i] \in Chosen /\ i \in Nat
    BY <1>2, <1>4, ElementOfSeq
  <2> QED BY <2>1, LlmStepIs
<1>6. steps \in Seq(MadeSteps) /\ Len(steps) = Len(chosen)
  BY <1>3, <1>4, <1>5
<1>7. \A i \in 1 .. Len(chosen) : steps[i] = LlmStep(i, chosen[i])
  BY <1>3, <1>4
<1> QED BY <1>1, <1>2, <1>6, <1>7 DEF chosen, steps

\* A plan from the model that passes its checks serves the requirements.
LEMMA LlmPlanServes ==
    ASSUME NEW payload \in Payloads, NEW req \in PlanRequests, ~LlmPlanFails(payload, req)
    PROVE  /\ LlmPlan(payload, req) \in Seq(MadeSteps)
           /\ Serves(LlmPlan(payload, req), req, payload.steps)
           /\ Accepted(LlmPlan(payload, req))
<1> DEFINE raw == payload.steps
           chosen == Selected(raw, req)
           steps == LlmPlan(payload, req)
           wanted == FirstOf(req.requirements, req.maxSteps)
           covered == UNION {steps[i].requirements : i \in DOMAIN steps}
<1>1. /\ raw \in Seq(AnsweredSteps)
      /\ chosen \in Seq(Chosen) /\ Len(chosen) <= req.maxSteps
      /\ steps \in Seq(MadeSteps) /\ Len(steps) = Len(chosen)
      /\ \A i \in 1 .. Len(chosen) : steps[i] = LlmStep(i, chosen[i])
  BY LlmPlanIs
<1>2. /\ wanted \in Seq(Requirements) /\ Len(wanted) <= req.maxSteps
      /\ wanted = <<>> <=> req.requirements = <<>>
      /\ \A i \in 1 .. Len(wanted) : wanted[i] = req.requirements[i]
  BY WantedIs
<1>3. /\ \A i \in DOMAIN wanted : req.requirements[i].id \in covered
      /\ \A i \in DOMAIN steps : steps[i].args = "ok"
  BY DEF LlmPlanFails
<1>4. wanted # <<>> =>
         /\ Len(chosen) <= Len(wanted)
         /\ \A i \in 1 .. Len(chosen) : chosen[i].for = wanted[i]
         /\ DistinctWanted(wanted) =>
               \A i \in 1 .. Len(wanted) : Own(raw, wanted, i) =>
                  i <= Len(chosen) /\ wanted[i].id \in chosen[i].raw.requirements
  <2>1. ASSUME req.requirements # <<>>
        PROVE  /\ Len(chosen) <= Len(wanted)
               /\ \A i \in 1 .. Len(chosen) : chosen[i].for = wanted[i]
               /\ DistinctWanted(wanted) =>
                     \A i \in 1 .. Len(wanted) : Own(raw, wanted, i) =>
                        i <= Len(chosen) /\ wanted[i].id \in chosen[i].raw.requirements
    BY <1>1, <2>1, SelectedIs DEF DistinctWanted
  <2> QED BY <1>2, <2>1
<1> HIDE DEF raw, chosen, steps, wanted
<1>5. /\ DOMAIN wanted = 1 .. Len(wanted) /\ DOMAIN steps = 1 .. Len(chosen)
      /\ Len(wanted) \in Nat /\ Len(chosen) \in Nat
  BY <1>1, <1>2
<1>6. \A i \in 1 .. Len(steps) : steps[i].id = i /\ steps[i].args = "ok"
  BY <1>1, <1>3, <1>5 DEF LlmStep
<1>7. ASSUME NEW i \in 1 .. Len(chosen), wanted # <<>>
      PROVE  /\ i \in 1 .. Len(wanted)
             /\ steps[i].requirements = {wanted[i].id} /\ Expects(steps[i], wanted[i])
             /\ steps[i].named <=> wanted[i].id \in chosen[i].raw.requirements
  <2>1. i \in 1 .. Len(wanted) /\ chosen[i].for = wanted[i]
    BY <1>4, <1>5, <1>7
  <2>2. wanted[i] \in Requirements /\ wanted[i] # NoRequirement
    BY <1>2, <2>1, ElementOfSeq, AgentAssumption
  <2>3. steps[i] = LlmStep(i, chosen[i])
    BY <1>1
  <2>4. LlmStep(i, chosen[i]).requirements = {wanted[i].id}
    BY <2>1, <2>2 DEF LlmStep
  <2>5. LlmStep(i, chosen[i]).named <=> wanted[i].id \in chosen[i].raw.requirements
    <3> DEFINE named == chosen[i].for # NoRequirement
                        /\ chosen[i].for.id \in chosen[i].raw.requirements
    <3>1. LlmStep(i, chosen[i]).named = named
      BY DEF LlmStep
    <3>2. named <=> wanted[i].id \in chosen[i].raw.requirements
      BY <2>1, <2>2
    <3> HIDE DEF named
    <3> QED BY <3>1, <3>2, Zenon
  <2>6. Expects(LlmStep(i, chosen[i]), wanted[i])
    <3> DEFINE one == chosen[i]
               tool == LlmTool(one.raw, one.for)
    <3>1. one \in Chosen
      BY <1>1, ElementOfSeq
    <3>2. one.raw.expected \in SUBSET Nat
      BY <3>1 DEF Chosen, AnsweredSteps
    <3>3. /\ LlmStep(i, one).tool = tool
          /\ LlmStep(i, one).expected = ExpectedOf(one.for, tool, one.raw.expected)
      BY DEF LlmStep
    <3>4. FromText(wanted[i], tool)
            => wanted[i].expected \in {{}, ExpectedOf(wanted[i], tool, one.raw.expected)}
      BY <2>2, <3>2, ExpectedIs
    <3> HIDE DEF one, tool
    <3> QED BY <2>1, <3>3, <3>4 DEF Expects, one
  <2> QED BY <2>1, <2>3, <2>4, <2>5, <2>6
<1>8. ASSUME NEW i \in 1 .. Len(wanted)
      PROVE  \E k \in 1 .. Len(chosen) : wanted[k].id = wanted[i].id
  <2>1. wanted # <<>>
    <3>1. wanted = <<>> => Len(wanted) = 0
      OBVIOUS
    <3> QED BY <3>1, <1>5
  <2>2. wanted[i].id \in covered
    BY <1>2, <1>3, <1>5
  <2>3. PICK k \in 1 .. Len(chosen) : wanted[i].id \in steps[k].requirements
    BY <1>5, <2>2
  <2> QED BY <1>7, <2>1, <2>3
<1>9. ASSUME NEW i \in 1 .. Len(wanted)
      PROVE  \E k \in 1 .. Len(steps) : steps[k].requirements = {wanted[i].id}
  <2>1. PICK k \in 1 .. Len(chosen) : wanted[k].id = wanted[i].id
    BY <1>8
  <2>2. wanted # <<>>
    <3>1. wanted = <<>> => Len(wanted) = 0
      OBVIOUS
    <3> QED BY <3>1, <1>5
  <2> QED BY <1>1, <1>7, <2>1, <2>2
<1>10. ASSUME wanted # <<>>, DistinctWanted(wanted)
       PROVE  /\ Len(steps) = Len(wanted)
              /\ \A i \in 1 .. Len(wanted) :
                    steps[i].requirements = {wanted[i].id} /\ Expects(steps[i], wanted[i])
              /\ \A i \in 1 .. Len(wanted) : Own(raw, wanted, i) => steps[i].named
  <2>1. ASSUME NEW i \in 1 .. Len(wanted) PROVE i \in 1 .. Len(chosen)
    <3>1. PICK k \in 1 .. Len(chosen) : wanted[k].id = wanted[i].id
      BY <1>8
    <3>2. k \in 1 .. Len(wanted)
      BY <1>7, <1>10
    <3>3. k = i
      BY <1>10, <3>1, <3>2 DEF DistinctWanted
    <3> QED BY <3>1, <3>3
  <2>2. Len(chosen) = Len(wanted)
    <3>1. Len(wanted) > 0
      BY <1>2, <1>5, <1>10, EmptySeq
    <3>2. Len(wanted) \in 1 .. Len(chosen)
      BY <1>5, <2>1, <3>1
    <3> QED BY <1>4, <1>5, <1>10, <3>2
  <2>3. \A i \in 1 .. Len(wanted) :
           steps[i].requirements = {wanted[i].id} /\ Expects(steps[i], wanted[i])
    BY <1>7, <1>10, <2>2
  <2>4. ASSUME NEW i \in 1 .. Len(wanted), Own(raw, wanted, i) PROVE steps[i].named
    BY <1>4, <1>7, <1>10, <2>2, <2>4
  <2> QED BY <1>1, <2>2, <2>3, <2>4
<1>11. Accepted(steps)
  BY <1>6 DEF Accepted
<1> QED BY <1>1, <1>6, <1>9, <1>10, <1>11 DEF Serves, steps, raw, wanted

\* A step of the rules names its requirement and expects what its text states.
LEMMA RuleStepIs ==
    ASSUME NEW req \in Requirements, NEW i \in Nat
    PROVE  /\ RuleStep(req, i) \in MadeSteps
           /\ RuleStep(req, i).id = i /\ RuleStep(req, i).named
           /\ RuleStep(req, i).requirements = {req.id} /\ Expects(RuleStep(req, i), req)
<1> DEFINE expected == ExpectedOf(req, req.tool, {200})
           asserts == FromText(req, req.tool) /\ req.asserts
           args == IF req.tool \in Checked /\ req.refused THEN "wrong" ELSE "ok"
<1>1. req.id \in STRING /\ req.tool \in Tools
  BY DEF Requirements
<1>2. /\ expected \in SUBSET Nat
      /\ FromText(req, req.tool) => req.expected \in {{}, expected}
  BY ExpectedIs
<1>3. args \in Args /\ asserts \in BOOLEAN
  BY DEF Args
<1>4. RuleStep(req, i) = [id |-> i, requirements |-> {req.id}, tool |-> req.tool,
                          named |-> TRUE, args |-> args, expected |-> expected,
                          asserts |-> asserts]
  BY DEF RuleStep
<1> HIDE DEF expected, asserts, args
<1>5. RuleStep(req, i) \in MadeSteps
  BY <1>1, <1>2, <1>3, <1>4 DEF MadeSteps
<1>6. Expects(RuleStep(req, i), req)
  BY <1>2, <1>4 DEF Expects
<1> QED BY <1>4, <1>5, <1>6

\* So does a plan from the rules, which has a step that names its requirement for
\* each of them, or for the description where there is none.
LEMMA RulePlanServes ==
    ASSUME NEW req \in PlanRequests, NEW ans
    PROVE  RulePlan(req) \in Seq(MadeSteps) /\ Serves(RulePlan(req), req, ans)
<1> DEFINE chosen == FirstOf(Planned(req), req.maxSteps)
           steps == RulePlan(req)
           wanted == FirstOf(req.requirements, req.maxSteps)
           Made(i) == RuleStep(chosen[i], i)
<1>1. /\ req.requirements \in Seq(Requirements) /\ req.described \in Requirements
      /\ req.maxSteps \in Nat /\ req.maxSteps > 0
  BY RequestTypes
<1>2. Planned(req) \in Seq(Requirements)
  BY <1>1 DEF Planned
<1>3. chosen \in Seq(Requirements) /\ Len(chosen) = Smaller(Len(Planned(req)), req.maxSteps)
  BY <1>1, <1>2, FirstOfIs
<1>4. /\ wanted \in Seq(Requirements) /\ Len(wanted) <= req.maxSteps
      /\ wanted = <<>> <=> req.requirements = <<>>
  BY WantedIs
<1>5. steps = [i \in DOMAIN chosen |-> Made(i)]
  BY DEF RulePlan
<1>6. wanted # <<>> => chosen = wanted
  BY <1>4 DEF Planned
<1> HIDE DEF chosen, steps, wanted
<1>7. /\ DOMAIN chosen = 1 .. Len(chosen) /\ Len(chosen) \in Nat /\ Len(chosen) <= req.maxSteps
  <2>1. Len(Planned(req)) \in Nat
    BY <1>2
  <2>2. Len(chosen) \in Nat /\ DOMAIN chosen = 1 .. Len(chosen)
    BY <1>3
  <2> QED BY <1>1, <1>3, <2>1, <2>2 DEF Smaller
<1>8. ASSUME NEW i \in 1 .. Len(chosen) PROVE Made(i) \in MadeSteps
  <2>1. chosen[i] \in Requirements /\ i \in Nat
    BY <1>3, <1>7, ElementOfSeq
  <2> QED BY <2>1, RuleStepIs
<1>9. steps \in Seq(MadeSteps) /\ Len(steps) = Len(chosen)
  <2> HIDE DEF Made
  <2> QED BY <1>5, <1>7, <1>8
<1>10. ASSUME NEW i \in 1 .. Len(chosen)
       PROVE  /\ steps[i].id = i /\ steps[i].named
              /\ steps[i].requirements = {chosen[i].id} /\ Expects(steps[i], chosen[i])
  <2>1. chosen[i] \in Requirements /\ i \in Nat
    BY <1>3, <1>7, ElementOfSeq
  <2>2. steps[i] = RuleStep(chosen[i], i)
    BY <1>5, <1>7
  <2> QED BY <2>1, <2>2, RuleStepIs
<1>11. ASSUME NEW i \in 1 .. Len(wanted)
       PROVE  wanted # <<>> /\ chosen = wanted
  <2>1. wanted = <<>> => Len(wanted) = 0
    OBVIOUS
  <2> QED BY <1>4, <1>6, <1>11, <2>1
<1> QED BY <1>6, <1>7, <1>9, <1>10, <1>11 DEF Serves, steps, wanted
-----------------------------------------------------------------------------
(* The steps. *)

\* The assumptions that the types of the steps and runs depend on the kind alone.
LEMMA TypesOfKind ==
    ASSUME UNCHANGED kind
    PROVE  /\ StepIds' = StepIds /\ PlannedSteps' = PlannedSteps /\ ToolRuns' = ToolRuns
           /\ kind = "workflow" => PlannedSteps = MadeSteps
BY DEF StepIds, PlannedSteps, ToolRuns, MadeSteps

\* At the start there is a plan of a client, or none.
LEMMA InitHolds == Init => InductiveInv
<1> SUFFICES ASSUME Init PROVE InductiveInv
  OBVIOUS
<1>1. EmptyRequest \in PlanRequests
  BY AgentAssumption DEF EmptyRequest
<1>2. /\ config \in Configs /\ answer = <<>> /\ fellBack = FALSE /\ runs = <<>>
      /\ artifacts = 0 /\ timings = <<>> /\ failure = NoFailure /\ report = NoReport
  BY DEF Init
<1>3. /\ kind \in {"workflow", "plan"} /\ request \in PlanRequests
      /\ plan \in Seq(PlannedSteps)
      /\ kind = "workflow" => plan = <<>> /\ stage = "plan_generation"
      /\ kind = "plan" => stage = "build_service"
  <2>1. CASE kind = "workflow" /\ request \in PlanRequests
             /\ plan = <<>> /\ stage = "plan_generation"
    BY <2>1
  <2>2. CASE kind = "plan" /\ request = EmptyRequest
             /\ plan \in ClientPlans /\ stage = "build_service"
    <3>1. PlannedSteps = Steps
      BY <2>2 DEF PlannedSteps, StepIds, Steps
    <3>2. plan \in Seq(Steps)
      BY <2>2, AgentAssumption
    <3> QED BY <1>1, <2>2, <3>1, <3>2
  <2> QED BY <2>1, <2>2 DEF Init
<1>4. TypeOK
  <2>1. /\ answer \in Seq(AnsweredSteps) /\ runs \in Seq(ToolRuns) /\ artifacts \in Nat
        /\ timings \in Seq([name : Stages, status : {"succeeded", "failed"}])
    BY <1>2
  <2>2. stage \in Stages \cup {"build_service", "done"}
    BY <1>3 DEF Stages
  <2>3. failure \in [stage : Stages \cup {"none"},
                     code : {"none", "failed", "timeout", "raised", "workflow_failed"}]
    BY <1>2 DEF NoFailure
  <2>4. report.status = "none"
    BY <1>2 DEF NoReport
  <2> QED BY <1>2, <1>3, <2>1, <2>2, <2>3, <2>4 DEF TypeOK
<1>5. GoingOn
  BY <1>2, <1>3 DEF GoingOn, Planning
<1>6. Ending
  BY <1>3 DEF Ending
<1>7. RunsFollowPlan
  <2>1. Len(plan) \in Nat /\ Len(runs) = 0
    BY <1>2, <1>3
  <2> QED BY <2>1 DEF RunsFollowPlan
<1>8. MadePlanServes
  BY <1>3 DEF MadePlanServes
<1> QED BY <1>4, <1>5, <1>6, <1>7, <1>8 DEF InductiveInv

\* A plan that is made goes on to the tools.
LEMMA PlanMade ==
    ASSUME InductiveInv, stage = "plan_generation",
           UNCHANGED <<inputs, runs, artifacts, report>>,
           answer' \in Seq(AnsweredSteps), fellBack' \in BOOLEAN,
           plan' \in Seq(MadeSteps), Serves(plan', request, answer'),
           request.useLlm /\ ~fellBack' => Accepted(plan'),
           StageDone("plan_generation", "build_service")
    PROVE  InductiveInv'
<1>1. /\ kind = "workflow" /\ timings = <<>> /\ runs = <<>>
      /\ failure = NoFailure /\ report = NoReport
  BY DEF InductiveInv, GoingOn
<1>2. /\ kind' = "workflow" /\ request' = request /\ config' = config /\ runs' = <<>>
      /\ artifacts' = artifacts /\ failure' = NoFailure /\ report' = NoReport
      /\ stage' = "build_service" /\ timings' = <<Succeeded("plan_generation")>>
  BY <1>1 DEF inputs, StageDone, Succeeded
<1>3. plan' \in Seq(PlannedSteps)'
  BY <1>1, TypesOfKind DEF inputs
<1>4. TypeOK'
  <2>1. config \in Configs /\ request \in PlanRequests /\ artifacts \in Nat
    BY DEF InductiveInv, TypeOK
  <2>2. timings' \in Seq([name : Stages, status : {"succeeded", "failed"}])
    BY <1>2 DEF Succeeded, Stages
  <2> QED BY <1>2, <1>3, <2>1, <2>2 DEF TypeOK, NoFailure, NoReport, Stages
<1>5. GoingOn'
  BY <1>2 DEF GoingOn, Planning
<1>6. Ending'
  BY <1>2 DEF Ending
<1>7. RunsFollowPlan'
  <2>1. Len(plan') \in Nat /\ Len(runs') = 0
    BY <1>2
  <2> QED BY <2>1 DEF RunsFollowPlan
<1>8. MadePlanServes'
  BY <1>2 DEF MadePlanServes
<1> QED BY <1>4, <1>5, <1>6, <1>7, <1>8 DEF InductiveInv

\* Or there is none, and the failure says so.
LEMMA PlanFailed ==
    ASSUME InductiveInv, stage = "plan_generation",
           UNCHANGED <<inputs, runs, artifacts, report, plan>>,
           answer' \in Seq(AnsweredSteps), fellBack' \in BOOLEAN,
           NEW code \in {"failed", "timeout"}, StageFails("plan_generation", code)
    PROVE  InductiveInv'
<1>1. /\ kind = "workflow" /\ plan = <<>> /\ timings = <<>> /\ runs = <<>>
      /\ report = NoReport
  BY DEF InductiveInv, GoingOn
<1>2. /\ kind' = "workflow" /\ request' = request /\ config' = config /\ runs' = <<>>
      /\ plan' = <<>> /\ artifacts' = artifacts /\ report' = NoReport /\ stage' = "done"
      /\ failure' = [stage |-> "plan_generation", code |-> code]
      /\ timings' = <<Failed("plan_generation")>>
  BY <1>1 DEF inputs, StageFails, Failed
<1>3. TypeOK'
  <2>1. config \in Configs /\ request \in PlanRequests /\ artifacts \in Nat
    BY DEF InductiveInv, TypeOK
  <2>2. timings' \in Seq([name : Stages, status : {"succeeded", "failed"}])
    BY <1>2 DEF Failed, Stages
  <2>3. failure' \in [stage : Stages \cup {"none"},
                      code : {"none", "failed", "timeout", "raised", "workflow_failed"}]
    BY <1>2 DEF Stages
  <2> QED BY <1>2, <2>1, <2>2, <2>3 DEF TypeOK, NoReport, Stages
<1>4. GoingOn'
  BY <1>2 DEF GoingOn
<1>5. Ending'
  BY <1>2 DEF Ending
<1>6. RunsFollowPlan'
  <2>1. Len(plan') = 0 /\ Len(runs') = 0
    BY <1>2
  <2> QED BY <2>1 DEF RunsFollowPlan
<1>7. MadePlanServes'
  BY <1>2 DEF MadePlanServes
<1> QED BY <1>3, <1>4, <1>5, <1>6, <1>7 DEF InductiveInv

\* The rules make a plan or fail.
LEMMA RulesStep ==
    ASSUME InductiveInv, stage = "plan_generation",
           UNCHANGED <<inputs, runs, artifacts, report>>,
           answer' \in Seq(AnsweredSteps), fellBack' \in BOOLEAN,
           ~request.useLlm \/ fellBack', RulesGenerate
    PROVE  InductiveInv'
<1>1. request \in PlanRequests
  BY DEF InductiveInv, TypeOK
<1>2. CASE plan' = RulePlan(request) /\ StageDone("plan_generation", "build_service")
  <2>1. plan' \in Seq(MadeSteps) /\ Serves(plan', request, answer')
    BY <1>1, <1>2, RulePlanServes
  <2> QED BY <1>2, <2>1, PlanMade
<1>3. CASE UNCHANGED plan /\ StageFails("plan_generation", "failed")
  BY <1>3, PlanFailed
<1> QED BY <1>2, <1>3 DEF RulesGenerate

\* A step that makes the plan by the rules preserves the invariant.
LEMMA GenerateByRulesStep ==
    ASSUME InductiveInv, GenerateByRules
    PROVE  InductiveInv'
<1>1. answer' \in Seq(AnsweredSteps) /\ fellBack' \in BOOLEAN
  BY DEF InductiveInv, TypeOK, GenerateByRules
<1> QED BY <1>1, RulesStep DEF GenerateByRules

\* Where the rules take over, and where they may not.
LEMMA FallBackStep ==
    ASSUME InductiveInv, stage = "plan_generation",
           UNCHANGED <<inputs, runs, artifacts, report>>,
           answer' \in Seq(AnsweredSteps),
           NEW code \in {"failed", "timeout"}, FallBack(code)
    PROVE  InductiveInv'
<1>1. CASE request.fallback
  BY <1>1, RulesStep DEF FallBack
<1>2. CASE ~request.fallback
  <2>1. fellBack' \in BOOLEAN
    BY <1>2 DEF InductiveInv, TypeOK, FallBack
  <2> QED BY <1>2, <2>1, PlanFailed DEF FallBack
<1> QED BY <1>1, <1>2

\* A step that asks the model preserves the invariant.
LEMMA GenerateByLlmStep ==
    ASSUME InductiveInv, GenerateByLlm
    PROVE  InductiveInv'
<1>1. /\ stage = "plan_generation" /\ UNCHANGED <<inputs, runs, artifacts, report>>
      /\ request \in PlanRequests /\ answer \in Seq(AnsweredSteps) /\ fellBack \in BOOLEAN
  BY DEF InductiveInv, TypeOK, GenerateByLlm
<1>2. ASSUME NEW payload \in Payloads, answer' = payload.steps,
             IF LlmPlanFails(payload, request) THEN FallBack("failed")
             ELSE /\ plan' = LlmPlan(payload, request) /\ UNCHANGED fellBack
                  /\ StageDone("plan_generation", "build_service")
      PROVE  InductiveInv'
  <2>1. answer' \in Seq(AnsweredSteps)
    BY <1>2, AgentAssumption
  <2>2. CASE LlmPlanFails(payload, request)
    BY <1>1, <1>2, <2>1, <2>2, FallBackStep
  <2>3. CASE ~LlmPlanFails(payload, request)
    <3>1. plan' \in Seq(MadeSteps) /\ Serves(plan', request, answer') /\ Accepted(plan')
      BY <1>1, <1>2, <2>3, LlmPlanServes
    <3>2. fellBack' \in BOOLEAN /\ StageDone("plan_generation", "build_service")
      BY <1>1, <1>2, <2>3
    <3> QED BY <1>1, <2>1, <3>1, <3>2, PlanMade
  <2> QED BY <2>2, <2>3
<1>3. ASSUME UNCHANGED answer, NEW code \in {"timeout", "failed"}, FallBack(code)
      PROVE  InductiveInv'
  BY <1>1, <1>3, FallBackStep
<1>4. CASE UNCHANGED <<plan, answer, fellBack>> /\ StageFails("plan_generation", "failed")
  BY <1>1, <1>4, PlanFailed
<1> QED BY <1>2, <1>3, <1>4 DEF GenerateByLlm

\* An execution that fails takes the report with it.
LEMMA ExecutionFailed ==
    ASSUME InductiveInv, stage \in {"build_service", "tool_execution"},
           stage = "build_service" => kind = "plan",
           UNCHANGED <<inputs, plan, answer, fellBack, runs, artifacts, report>>,
           StageFails("tool_execution", "failed")
    PROVE  InductiveInv'
<1>1. timings = Planning /\ report = NoReport /\ kind \in {"workflow", "plan"}
  BY DEF InductiveInv, GoingOn, TypeOK
<1>2. /\ kind' = kind /\ request' = request /\ config' = config /\ runs' = runs
      /\ plan' = plan /\ artifacts' = artifacts /\ report' = NoReport /\ stage' = "done"
      /\ failure' = IF kind = "workflow" THEN [stage |-> "tool_execution", code |-> "failed"]
                    ELSE [stage |-> "none", code |-> "raised"]
      /\ timings' = Append(timings, Failed("tool_execution"))
      /\ answer' = answer /\ fellBack' = fellBack
  BY <1>1 DEF inputs, StageFails, Failed
<1>3. TypeOK'
  <2>1. /\ config \in Configs /\ request \in PlanRequests /\ artifacts \in Nat
        /\ plan \in Seq(PlannedSteps) /\ runs \in Seq(ToolRuns)
        /\ answer \in Seq(AnsweredSteps) /\ fellBack \in BOOLEAN
        /\ timings \in Seq([name : Stages, status : {"succeeded", "failed"}])
    BY DEF InductiveInv, TypeOK
  <2>2. timings' \in Seq([name : Stages, status : {"succeeded", "failed"}])
    <3>1. Failed("tool_execution") \in [name : Stages, status : {"succeeded", "failed"}]
      BY DEF Failed, Stages
    <3> QED BY <1>2, <2>1, <3>1
  <2>3. failure' \in [stage : Stages \cup {"none"},
                      code : {"none", "failed", "timeout", "raised", "workflow_failed"}]
    BY <1>2 DEF Stages
  <2>4. PlannedSteps' = PlannedSteps /\ ToolRuns' = ToolRuns
    BY <1>2, TypesOfKind
  <2> QED BY <1>1, <1>2, <2>1, <2>2, <2>3, <2>4 DEF TypeOK, NoReport
<1>4. GoingOn'
  BY <1>2 DEF GoingOn
<1>5. Ending'
  <2>1. Planning' = Planning
    BY <1>2 DEF Planning
  <2>2. failure'.code \in {"failed", "raised"}
        /\ (kind' = "workflow" => failure' = [stage |-> "tool_execution", code |-> "failed"])
    BY <1>2
  <2> QED BY <1>1, <1>2, <2>1, <2>2 DEF Ending
<1>6. RunsFollowPlan'
  BY <1>2 DEF RunsFollowPlan, InductiveInv
<1>7. MadePlanServes'
  BY <1>2 DEF MadePlanServes, InductiveInv
<1> QED BY <1>3, <1>4, <1>5, <1>6, <1>7 DEF InductiveInv

\* A step that builds the tools' service preserves the invariant.
LEMMA BuildServiceStep ==
    ASSUME InductiveInv, BuildService
    PROVE  InductiveInv'
<1>1. /\ kind' = kind /\ request' = request /\ config' = config /\ runs' = runs
      /\ plan' = plan /\ artifacts' = artifacts /\ report' = report
      /\ answer' = answer /\ fellBack' = fellBack /\ stage = "build_service"
  BY DEF BuildService, inputs
<1>2. /\ timings = Planning /\ report = NoReport /\ failure = NoFailure /\ runs = <<>>
      /\ TypeOK /\ RunsFollowPlan /\ MadePlanServes
  BY <1>1 DEF InductiveInv, GoingOn
<1>3. /\ Planning' = Planning /\ PlannedSteps' = PlannedSteps /\ ToolRuns' = ToolRuns
  BY <1>1, TypesOfKind DEF Planning
<1>4. RunsFollowPlan' /\ MadePlanServes'
  BY <1>1, <1>2 DEF RunsFollowPlan, MadePlanServes
<1>5. CASE config.allowed
  <2>1. stage' = "tool_execution" /\ timings' = timings /\ failure' = failure
    BY <1>5 DEF BuildService
  <2>2. TypeOK'
    BY <1>1, <1>2, <1>3, <2>1 DEF TypeOK, Stages
  <2>3. GoingOn' /\ Ending'
    BY <1>1, <1>2, <1>3, <2>1 DEF GoingOn, Ending
  <2> QED BY <1>4, <2>2, <2>3 DEF InductiveInv
<1>6. CASE ~config.allowed /\ kind = "plan"
  <2>1. UNCHANGED <<inputs, plan, answer, fellBack, runs, artifacts, report>>
        /\ StageFails("tool_execution", "failed")
    BY <1>6 DEF BuildService
  <2> QED BY <1>1, <1>6, <2>1, ExecutionFailed
<1>7. CASE ~config.allowed /\ kind = "workflow"
  <2>1. /\ failure' = [stage |-> "none", code |-> "workflow_failed"]
        /\ stage' = "done" /\ timings' = timings
    BY <1>7 DEF BuildService
  <2>2. TypeOK'
    BY <1>1, <1>2, <1>3, <2>1 DEF TypeOK
  <2>3. GoingOn'
    BY <2>1 DEF GoingOn
  <2>4. Ending'
    BY <1>1, <1>2, <1>3, <1>7, <2>1 DEF Ending
  <2> QED BY <1>4, <2>2, <2>3, <2>4 DEF InductiveInv
<1>8. kind \in {"workflow", "plan"}
  BY <1>2 DEF TypeOK
<1> QED BY <1>5, <1>6, <1>7, <1>8

\* A step of the plan that leaves a run preserves the invariant.
LEMMA RanStep ==
    ASSUME InductiveInv, stage = "tool_execution", Len(runs) < Len(plan),
           NEW status \in {"passed", "failed", "blocked", "skipped"},
           NEW words \in SUBSET Words, NEW actual \in Nat, NEW written \in Nat,
           Ran(Run(status, words, actual), written)
    PROVE  InductiveInv'
<1> DEFINE run == Run(status, words, actual)
           n == Len(runs)
<1>1. /\ kind' = kind /\ request' = request /\ config' = config /\ runs' = Append(runs, run)
      /\ plan' = plan /\ artifacts' = artifacts + written /\ report' = report /\ stage' = stage
      /\ answer' = answer /\ fellBack' = fellBack /\ timings' = timings /\ failure' = failure
  BY DEF Ran, inputs
<1>2. TypeOK /\ GoingOn /\ RunsFollowPlan /\ MadePlanServes
  BY DEF InductiveInv
<1>3. /\ plan \in Seq(PlannedSteps) /\ runs \in Seq(ToolRuns) /\ artifacts \in Nat
      /\ n \in Nat /\ Len(plan) \in Nat
  BY <1>2 DEF TypeOK
<1>4. n + 1 \in 1 .. Len(plan)
  BY <1>3
<1>5. plan[n + 1] \in PlannedSteps
  BY <1>3, <1>4, ElementOfSeq
<1>6. run \in ToolRuns /\ run.step = plan[n + 1].id
  BY <1>5 DEF Run, Step, ToolRuns, PlannedSteps
<1> HIDE DEF run
<1>7. /\ runs' \in Seq(ToolRuns) /\ Len(runs') = n + 1
      /\ \A i \in 1 .. n : runs'[i] = runs[i]
      /\ runs'[n + 1] = run
  BY <1>1, <1>3, <1>6
<1>8. PlannedSteps' = PlannedSteps /\ ToolRuns' = ToolRuns /\ Planning' = Planning
  BY <1>1, TypesOfKind DEF Planning
<1>9. TypeOK'
  <2>1. artifacts' \in Nat
    BY <1>1, <1>3
  <2> QED BY <1>1, <1>2, <1>7, <1>8, <2>1 DEF TypeOK
<1>10. GoingOn' /\ Ending'
  BY <1>1, <1>2, <1>8 DEF GoingOn, Ending
<1>11. RunsFollowPlan'
  <2>1. Len(runs') <= Len(plan')
    BY <1>1, <1>3, <1>7
  <2>2. ASSUME NEW i \in 1 .. n + 1 PROVE runs'[i].step = plan[i].id
    <3>1. CASE i = n + 1
      BY <1>6, <1>7, <3>1
    <3>2. CASE i # n + 1
      <4>1. i \in 1 .. n
        BY <1>3, <3>2
      <4> QED BY <1>2, <1>7, <4>1 DEF RunsFollowPlan
    <3> QED BY <3>1, <3>2
  <2>3. \A i \in 1 .. Len(runs') : runs'[i].step = plan'[i].id
    BY <1>1, <1>7, <2>2
  <2> HIDE DEF n
  <2> QED BY <2>1, <2>3 DEF RunsFollowPlan
<1>12. MadePlanServes'
  BY <1>1, <1>2 DEF MadePlanServes
<1> QED BY <1>9, <1>10, <1>11, <1>12 DEF InductiveInv

\* A step of the plan preserves the invariant, whatever its tool does.
LEMMA ExecuteStepStep ==
    ASSUME InductiveInv, ExecuteStep
    PROVE  InductiveInv'
<1>1. CASE SkipManual
  <2>1. stage = "tool_execution" /\ Len(runs) < Len(plan) /\ {"manual"} \in SUBSET Words
    BY <1>1 DEF Words, SkipManual, Executing
  <2>2. Ran(Run("skipped", {"manual"}, 0), 0)
    BY <1>1 DEF SkipManual
  <2> QED BY <2>1, <2>2, RanStep
<1>2. CASE NoAdapter
  <2>1. stage = "tool_execution" /\ Len(runs) < Len(plan) /\ {"adapter"} \in SUBSET Words
    BY <1>2 DEF Words, NoAdapter, Executing
  <2>2. Ran(Run("blocked", {"adapter"}, 0), 0)
    BY <1>2 DEF NoAdapter
  <2> QED BY <2>1, <2>2, RanStep
<1>3. CASE HttpBlocked \/ PytestBlocked
  <2>1. stage = "tool_execution" /\ Len(runs) < Len(plan) /\ {"adapter"} \in SUBSET Words
    BY <1>3 DEF Words, HttpBlocked, PytestBlocked, Executing
  <2>2. Ran(Run("blocked", {"adapter"}, 0), 0) \/ Ran(Run("blocked", {}, 0), 0)
    BY <1>3 DEF HttpBlocked, PytestBlocked
  <2> QED BY <2>1, <2>2, RanStep
<1>4. CASE HttpAnswered
  <2>1. stage = "tool_execution" /\ Len(runs) < Len(plan)
    BY <1>4 DEF HttpAnswered, Executing
  <2>2. PICK actual \in HttpStatuses, holds \in (IF Step.asserts THEN BOOLEAN ELSE {TRUE}),
             path \in {{}, {"token"}} :
          Ran(Run(IF actual \in Step.expected /\ holds THEN "passed" ELSE "failed",
                  path \cup (IF Step.asserts THEN {"assert"} ELSE {})
                       \cup (IF holds THEN {} ELSE {"json assertion failed"}),
                  actual), 1)
    BY <1>4 DEF HttpAnswered
  <2> DEFINE status == IF actual \in Step.expected /\ holds THEN "passed" ELSE "failed"
             words == path \cup (IF Step.asserts THEN {"assert"} ELSE {})
                           \cup (IF holds THEN {} ELSE {"json assertion failed"})
  <2>3. status \in {"passed", "failed", "blocked", "skipped"} /\ words \in SUBSET Words
    BY DEF Words
  <2>4. actual \in Nat
    BY AgentAssumption
  <2>5. Ran(Run(status, words, actual), 1)
    BY <2>2
  <2> HIDE DEF status, words
  <2> QED BY <2>1, <2>3, <2>4, <2>5, RanStep
<1>5. CASE PytestRan
  <2>1. stage = "tool_execution" /\ Len(runs) < Len(plan)
    BY <1>5 DEF PytestRan, Executing
  <2>2. PICK status \in {"passed", "failed"},
             words \in {{}, {"assert"}, {"timeout"}, {"token"}} : Ran(Run(status, words, 0), 1)
    BY <1>5 DEF PytestRan
  <2>3. words \in SUBSET Words
    BY DEF Words
  <2> QED BY <2>1, <2>2, <2>3, RanStep
<1>6. CASE EvidenceFails
  <2>1. /\ stage = "tool_execution" /\ StageFails("tool_execution", "failed")
        /\ UNCHANGED <<inputs, plan, answer, fellBack, runs, artifacts, report>>
    BY <1>6 DEF EvidenceFails, Executing
  <2> QED BY <2>1, ExecutionFailed
<1> QED BY <1>1, <1>2, <1>3, <1>4, <1>5, <1>6 DEF ExecuteStep

\* The end of the execution preserves the invariant.
LEMMA ExecutePlanDoneStep ==
    ASSUME InductiveInv, ExecutePlanDone
    PROVE  InductiveInv'
<1>1. /\ kind' = kind /\ request' = request /\ config' = config /\ runs' = runs
      /\ plan' = plan /\ artifacts' = artifacts /\ report' = report /\ stage' = "report_build"
      /\ answer' = answer /\ fellBack' = fellBack /\ failure' = failure
      /\ timings' = Append(timings, Succeeded("tool_execution"))
      /\ stage = "tool_execution" /\ Len(runs) = Len(plan)
  BY DEF ExecutePlanDone, StageDone, Succeeded, inputs
<1>2. /\ TypeOK /\ RunsFollowPlan /\ MadePlanServes
      /\ timings = Planning /\ report = NoReport /\ failure = NoFailure
  BY <1>1 DEF InductiveInv, GoingOn
<1>3. PlannedSteps' = PlannedSteps /\ ToolRuns' = ToolRuns /\ Planning' = Planning
  BY <1>1, TypesOfKind DEF Planning
<1>4. TypeOK'
  <2>1. timings' \in Seq([name : Stages, status : {"succeeded", "failed"}])
    <3>1. Succeeded("tool_execution") \in [name : Stages, status : {"succeeded", "failed"}]
      BY DEF Succeeded, Stages
    <3> QED BY <1>1, <1>2, <3>1 DEF TypeOK
  <2>2. stage' \in Stages
    BY <1>1 DEF Stages
  <2> QED BY <1>1, <1>2, <1>3, <2>1, <2>2 DEF TypeOK
<1>5. GoingOn' /\ Ending'
  BY <1>1, <1>2, <1>3 DEF GoingOn, Ending
<1>6. RunsFollowPlan' /\ MadePlanServes'
  BY <1>1, <1>2 DEF RunsFollowPlan, MadePlanServes
<1> QED BY <1>4, <1>5, <1>6 DEF InductiveInv

\* A report has one of its four statuses.
LEMMA ReportIsNone ==
    ASSUME NEW steps, NEW rs
    PROVE  /\ Report(steps, rs).status \in {"failed", "blocked", "passed", "incomplete"}
           /\ Report(steps, rs) # NoReport
<1>1. Report(steps, rs).status = StatusOf({rs[i].status : i \in DOMAIN rs})
  BY DEF Report
<1>2. StatusOf({rs[i].status : i \in DOMAIN rs})
        \in {"failed", "blocked", "passed", "incomplete"}
  BY DEF StatusOf
<1>3. NoReport.status = "none"
  BY DEF NoReport
<1> QED BY <1>1, <1>2, <1>3

\* The report preserves the invariant.
LEMMA BuildReportStep ==
    ASSUME InductiveInv, BuildReport
    PROVE  InductiveInv'
<1>1. /\ kind' = kind /\ request' = request /\ config' = config /\ runs' = runs
      /\ plan' = plan /\ artifacts' = artifacts
      /\ answer' = answer /\ fellBack' = fellBack /\ stage' = "done"
      /\ stage = "report_build"
  BY DEF BuildReport, StageDone, inputs
<1>2. /\ TypeOK /\ RunsFollowPlan /\ MadePlanServes /\ Len(runs) = Len(plan)
      /\ timings = Append(Planning, Succeeded("tool_execution"))
      /\ failure = NoFailure /\ report = NoReport
  BY <1>1 DEF InductiveInv, GoingOn
<1>3. PlannedSteps' = PlannedSteps /\ ToolRuns' = ToolRuns /\ Planning' = Planning
  BY <1>1, TypesOfKind DEF Planning
<1>4. GoingOn'
  BY <1>1 DEF GoingOn
<1>5. RunsFollowPlan' /\ MadePlanServes'
  BY <1>1, <1>2 DEF RunsFollowPlan, MadePlanServes
<1>6. CASE /\ report' = Report(plan, runs)
           /\ StageDone("report_build", "done")
  <2>1. /\ report' = Report(plan, runs) /\ failure' = failure
        /\ timings' = Append(timings, Succeeded("report_build"))
    BY <1>6 DEF StageDone, Succeeded
  <2>2. TypeOK'
    <3>1. timings' \in Seq([name : Stages, status : {"succeeded", "failed"}])
      <4>1. Succeeded("report_build") \in [name : Stages, status : {"succeeded", "failed"}]
        BY DEF Succeeded, Stages
      <4> QED BY <1>2, <2>1, <4>1 DEF TypeOK
    <3>2. report'.status \in {"none", "passed", "failed", "blocked", "incomplete"}
      BY <2>1, ReportIsNone
    <3> QED BY <1>1, <1>2, <1>3, <2>1, <3>1, <3>2 DEF TypeOK
  <2>3. Ending'
    BY <1>1, <1>2, <1>3, <2>1 DEF Ending
  <2> QED BY <1>4, <1>5, <2>2, <2>3 DEF InductiveInv
<1>7. CASE /\ kind = "plan"
           /\ failure' = [stage |-> "none", code |-> "raised"]
           /\ stage' = "done" /\ UNCHANGED <<timings, report>>
  <2>1. TypeOK'
    <3>1. /\ failure' \in [stage : Stages \cup {"none"},
                        code : {"none", "failed", "timeout", "raised", "workflow_failed"}]
          /\ timings' = timings /\ report' = report
      BY <1>7
    <3> QED BY <1>1, <1>2, <1>3, <3>1 DEF TypeOK
  <2>2. Ending'
    BY <1>1, <1>2, <1>3, <1>7 DEF Ending
  <2> QED BY <1>4, <1>5, <2>1, <2>2 DEF InductiveInv
<1> QED BY <1>6, <1>7 DEF BuildReport

\* Nothing else happens to the invariant.
LEMMA StutterStep ==
    ASSUME InductiveInv, UNCHANGED vars
    PROVE  InductiveInv'
BY TypesOfKind DEF InductiveInv, vars, inputs, TypeOK, GoingOn, Ending, Planning, RunsFollowPlan,
                   MadePlanServes

\* A run keeps what is known of it: it has a run of each step so far, a failure
\* names the stage that failed, and the plan serves the requirements.
THEOREM InductiveInvariant == Spec => []InductiveInv
<1>1. InductiveInv /\ [Next]_vars => InductiveInv'
  <2> SUFFICES ASSUME InductiveInv, [Next]_vars PROVE InductiveInv'
    OBVIOUS
  <2>1. CASE GenerateByRules
    BY <2>1, GenerateByRulesStep
  <2>2. CASE GenerateByLlm
    BY <2>2, GenerateByLlmStep
  <2>3. CASE BuildService
    BY <2>3, BuildServiceStep
  <2>4. CASE ExecuteStep
    BY <2>4, ExecuteStepStep
  <2>5. CASE ExecutePlanDone
    BY <2>5, ExecutePlanDoneStep
  <2>6. CASE BuildReport
    BY <2>6, BuildReportStep
  <2>7. CASE Done
    BY <2>7, StutterStep DEF Done
  <2>8. CASE UNCHANGED vars
    BY <2>8, StutterStep
  <2> QED BY <2>1, <2>2, <2>3, <2>4, <2>5, <2>6, <2>7, <2>8 DEF Next
<1> QED BY InitHolds, <1>1, PTL DEF Spec

\* The variables have their types.
THEOREM TypesHold == Spec => []TypeOK
<1>1. InductiveInv => TypeOK
  BY DEF InductiveInv
<1> QED BY <1>1, InductiveInvariant, PTL
-----------------------------------------------------------------------------
(* What the runs check. *)

\* A plan of the model has only arguments that the tools accept; in any plan each
\* of the first requirements is named by a step, and where their ids are distinct
\* each has the step that was written for it, which expects the status that the
\* text states with its endpoint (_plan_from_llm_payload, _validate_generated_plan,
\* _normalize_llm_http_tool_args).
THEOREM PlansServe == Spec => []PlanServesRequirements
<1>1. ASSUME InductiveInv PROVE PlanServesRequirements
  <2> SUFFICES ASSUME kind = "workflow", plan # <<>>
               PROVE  PlanServesRequirements
    BY DEF PlanServesRequirements
  <2> DEFINE wanted == FirstOf(request.requirements, request.maxSteps)
  <2>1. Serves(plan, request, answer) /\ (request.useLlm /\ ~fellBack => Accepted(plan))
    BY <1>1 DEF InductiveInv, MadePlanServes
  <2>2. /\ request \in PlanRequests /\ plan \in Seq(PlannedSteps)
        /\ answer \in Seq(AnsweredSteps)
    BY <1>1 DEF InductiveInv, TypeOK
  <2>3. wanted \in Seq(Requirements)
    BY <2>2, WantedIs
  <2>4. /\ \A i \in 1 .. Len(plan) : plan[i].id = i
        /\ Len(plan) <= request.maxSteps
        /\ \A i \in 1 .. Len(wanted) : \E k \in 1 .. Len(plan) :
              plan[k].requirements = {wanted[i].id}
        /\ wanted # <<>> /\ DistinctWanted(wanted) =>
              /\ Len(plan) = Len(wanted)
              /\ \A i \in 1 .. Len(wanted) :
                    plan[i].requirements = {wanted[i].id} /\ Expects(plan[i], wanted[i])
              /\ \A i \in 1 .. Len(wanted) : Own(answer, wanted, i) => plan[i].named
    BY <2>1 DEF Serves
  <2> HIDE DEF wanted
  <2>5. /\ DOMAIN plan = 1 .. Len(plan) /\ DOMAIN wanted = 1 .. Len(wanted)
        /\ DOMAIN answer = 1 .. Len(answer)
    BY <2>2, <2>3
  <2>6. DistinctIds
    <3>1. \A i \in DOMAIN plan : plan[i].id = i
      BY <2>4, <2>5
    <3> QED BY <3>1 DEF DistinctIds
  <2>7. ASSUME IsInjective([i \in DOMAIN wanted |-> wanted[i].id])
        PROVE  DistinctWanted(wanted)
    BY <2>5, <2>7 DEF IsInjective, DistinctWanted
  <2>8. \A i \in DOMAIN wanted : \E k \in DOMAIN plan : plan[k].requirements = {wanted[i].id}
    BY <2>4, <2>5
  <2>9. ASSUME wanted # <<>>, IsInjective([i \in DOMAIN wanted |-> wanted[i].id])
        PROVE  /\ Len(plan) = Len(wanted)
               /\ \A i \in DOMAIN wanted :
                     /\ plan[i].requirements = {wanted[i].id}
                     /\ FromText(wanted[i], plan[i].tool) =>
                           wanted[i].expected \in {{}, plan[i].expected}
               /\ \A i \in DOMAIN wanted :
                     (\A k \in 1 .. i : \E j \in DOMAIN answer :
                         answer[j].requirements = {wanted[k].id}) => plan[i].named
    BY <2>4, <2>5, <2>7, <2>9 DEF Own, Expects
  <2>10. request.useLlm /\ ~fellBack => \A i \in DOMAIN plan : plan[i].args = "ok"
    BY <2>1, <2>5 DEF Accepted
  <2> QED BY <2>4, <2>5, <2>6, <2>8, <2>9, <2>10 DEF PlanServesRequirements, wanted
<1> QED BY <1>1, InductiveInvariant, PTL

\* Runs of steps with ids of their own.
RunsApart(rs) ==
    /\ rs \in Seq(ToolRuns)
    /\ \A i, j \in DOMAIN rs : rs[i].step = rs[j].step => i = j

\* A list of runs, one per step, is a sequence of runs.
LEMMA RunIs ==
    ASSUME NEW rs, RunsApart(rs)
    PROVE  /\ Len(rs) \in Nat /\ DOMAIN rs = 1 .. Len(rs)
           /\ \A i \in DOMAIN rs : rs[i] \in ToolRuns
BY DEF RunsApart

\* The run of a step's id is then its run.
LEMMA OwnRun ==
    ASSUME NEW rs, RunsApart(rs), NEW k \in DOMAIN rs
    PROVE  RunOfStep(rs, rs[k].step) = rs[k]
<1> DEFINE IsLast(i) == rs[i].step = rs[k].step
                        /\ \A j \in i + 1 .. Len(rs) : rs[j].step # rs[k].step
           i0 == CHOOSE i \in DOMAIN rs : IsLast(i)
<1>1. IsLast(k)
  <2>1. ASSUME NEW j \in k + 1 .. Len(rs) PROVE rs[j].step # rs[k].step
    <3>1. j \in DOMAIN rs /\ j # k
      BY RunIs
    <3> QED BY <3>1 DEF RunsApart
  <2> QED BY <2>1
<1>2. i0 \in DOMAIN rs /\ IsLast(i0)
  <2> HIDE DEF IsLast
  <2> QED BY <1>1
<1>3. RunOfStep(rs, rs[k].step) = rs[i0]
  BY DEF RunOfStep
<1> HIDE DEF i0
<1>4. i0 = k
  BY <1>2 DEF RunsApart
<1> QED BY <1>3, <1>4

\* A report is about the whole plan, is green only if no step failed or was
\* blocked, counts a requirement as covered exactly if a step of its own passed,
\* and gives the reason of every step that did not (build_execution_report).
THEOREM ReportsTellRuns == Spec => []ReportTellsRuns
<1>1. ASSUME InductiveInv PROVE ReportTellsRuns
  <2> SUFFICES ASSUME report # NoReport PROVE ReportTellsRuns
    BY DEF ReportTellsRuns
  <2> DEFINE n == Len(plan)
             statuses == {runs[i].status : i \in DOMAIN runs}
  <2>1. Len(runs) = n /\ report = Report(plan, runs)
    BY <1>1 DEF InductiveInv, GoingOn, Ending
  <2>2. /\ plan \in Seq(PlannedSteps) /\ runs \in Seq(ToolRuns)
        /\ \A i \in 1 .. Len(runs) : runs[i].step = plan[i].id
    BY <1>1 DEF InductiveInv, TypeOK, RunsFollowPlan
  <2>3. n \in Nat /\ DOMAIN plan = 1 .. n /\ DOMAIN runs = 1 .. n
    BY <2>1, <2>2
  <2>4. \A i \in 1 .. n : runs[i].status \in {"passed", "failed", "blocked", "skipped"}
    <3>1. ASSUME NEW i \in 1 .. n
          PROVE  runs[i].status \in {"passed", "failed", "blocked", "skipped"}
      <4>1. runs[i] \in ToolRuns
        BY <2>1, <2>2, ElementOfSeq
      <4> QED BY <4>1 DEF ToolRuns
    <3> QED BY <3>1
  <2> HIDE DEF n
  <2>5. [i \in DOMAIN runs |-> runs[i].step] = [i \in DOMAIN plan |-> plan[i].id]
    BY <2>1, <2>2, <2>3
  <2>6. /\ report.status = StatusOf(statuses)
        /\ report.coverage = RequirementCoverage(plan, runs)
        /\ report.reasons = Reasons(runs)
    BY <2>1 DEF Report
  <2>7. ASSUME report.status = "passed"
        PROVE  /\ \A i \in DOMAIN runs : runs[i].status \in {"passed", "skipped"}
               /\ \E i \in DOMAIN runs : runs[i].status = "passed"
    <3>1. "failed" \notin statuses /\ "blocked" \notin statuses /\ "passed" \in statuses
      <4> HIDE DEF statuses
      <4> QED BY <2>6, <2>7 DEF StatusOf
    <3> QED BY <2>3, <2>4, <3>1
  <2>8. ASSUME DistinctIds, NEW i \in DOMAIN plan, NEW r \in plan[i].requirements
        PROVE  report.coverage[r] <=> \E k \in DOMAIN plan :
                  r \in plan[k].requirements /\ runs[k].status = "passed"
    <3>1. \A k \in 1 .. n : RunOfStep(runs, plan[k].id) = runs[k]
      <4>1. \A j \in 1 .. n : runs[j].step = plan[j].id
        BY <2>1, <2>2
      <4>2. RunsApart(runs)
        BY <2>1, <2>2, <2>3, <2>8, <4>1 DEF DistinctIds, RunsApart
      <4> QED BY <2>3, <4>1, <4>2, OwnRun
    <3>2. r \in UNION {plan[k].requirements : k \in DOMAIN plan}
      BY <2>8
    <3>3. report.coverage[r] = \E k \in DOMAIN plan :
             r \in plan[k].requirements /\ RunOfStep(runs, plan[k].id).status = "passed"
      BY <2>6, <3>2 DEF RequirementCoverage
    <3>4. (\E k \in DOMAIN plan :
             r \in plan[k].requirements /\ RunOfStep(runs, plan[k].id).status = "passed")
          <=> \E k \in DOMAIN plan :
                r \in plan[k].requirements /\ runs[k].status = "passed"
      BY <2>3, <3>1
    <3> QED BY <3>3, <3>4, Zenon
  <2>9. ASSUME DistinctIds, NEW i \in DOMAIN plan
        PROVE  plan[i].id \in DOMAIN report.reasons <=> runs[i].status # "passed"
    <3> DEFINE ids == {runs[j].step : j \in {k \in DOMAIN runs : runs[k].status \in Explained}}
    <3>1. DOMAIN report.reasons = ids
      BY <2>6 DEF Reasons
    <3>2. ASSUME runs[i].status # "passed" PROVE plan[i].id \in ids
      BY <2>1, <2>2, <2>3, <2>4, <2>9, <3>2 DEF Explained
    <3>3. ASSUME plan[i].id \in ids PROVE runs[i].status # "passed"
      <4>1. PICK j \in DOMAIN runs : runs[j].status \in Explained /\ runs[j].step = plan[i].id
        BY <3>3
      <4>2. plan[j].id = plan[i].id
        BY <2>1, <2>2, <2>3, <4>1
      <4>3. j = i
        BY <2>3, <2>9, <4>1, <4>2 DEF DistinctIds
      <4> QED BY <4>1, <4>3 DEF Explained
    <3> HIDE DEF ids
    <3> QED BY <3>1, <3>2, <3>3
  <2> QED BY <2>5, <2>7, <2>8, <2>9 DEF ReportTellsRuns
<1> QED BY <1>1, InductiveInvariant, PTL

\* There is a report or a failure and not both, only the last stage can have
\* failed, and a failure names it; one without a stage is the configuration's,
\* between two stages (execute_test_agent_workflow_request, _run_stage).
THEOREM FailuresAreTold == Spec => []FailuresNameTheirStage
<1>1. ASSUME InductiveInv PROVE FailuresNameTheirStage
  <2> SUFFICES ASSUME stage = "done" PROVE FailuresNameTheirStage
    BY DEF FailuresNameTheirStage
  <2>1. kind = "workflow" => Planning = <<Succeeded("plan_generation")>>
    BY DEF Planning
  <2>2. kind # "workflow" => Planning = <<>>
    BY DEF Planning
  <2>3. Report(plan, runs) # NoReport
    BY ReportIsNone
  <2>4. CASE /\ failure = NoFailure /\ report = Report(plan, runs)
             /\ timings = Append(Append(Planning, Succeeded("tool_execution")),
                                 Succeeded("report_build"))
    <3>1. \A i \in DOMAIN timings : timings[i].status = "succeeded"
      BY <2>1, <2>2, <2>4 DEF Succeeded
    <3>2. failure.code = "none"
      BY <2>4 DEF NoFailure
    <3> QED BY <2>3, <2>4, <3>1, <3>2 DEF FailuresNameTheirStage
  <2>5. CASE /\ report = NoReport /\ kind = "workflow"
             /\ failure = [stage |-> "none", code |-> "workflow_failed"]
             /\ ~config.allowed /\ runs = <<>> /\ timings = Planning
    <3>1. /\ Len(timings) = 1
          /\ \A i \in DOMAIN timings : timings[i].status = "succeeded"
      BY <2>1, <2>5 DEF Succeeded
    <3>2. failure.code = "workflow_failed" /\ failure # NoFailure
      BY <2>5 DEF NoFailure
    <3> QED BY <2>5, <3>1, <3>2 DEF FailuresNameTheirStage
  <2>6. CASE /\ report = NoReport /\ kind = "workflow"
             /\ failure.stage = "plan_generation" /\ failure.code \in {"failed", "timeout"}
             /\ timings = <<Failed("plan_generation")>>
    <3>1. /\ \A i \in DOMAIN timings : i = Len(timings)
          /\ Last(timings) = [name |-> failure.stage, status |-> "failed"]
      BY <2>6 DEF Failed, Last
    <3>2. failure # NoFailure /\ failure.code # "workflow_failed"
      BY <2>6 DEF NoFailure
    <3> QED BY <2>6, <3>1, <3>2 DEF FailuresNameTheirStage
  <2>7. CASE /\ report = NoReport /\ failure.code \in {"failed", "raised"}
             /\ kind = "workflow" => failure = [stage |-> "tool_execution", code |-> "failed"]
             /\ timings = Append(Planning, Failed("tool_execution"))
    <3>1. /\ \A i \in DOMAIN timings : timings[i].status = "failed" => i = Len(timings)
          /\ Last(timings) = [name |-> "tool_execution", status |-> "failed"]
      BY <2>1, <2>2, <2>7 DEF Succeeded, Failed, Last
    <3>2. failure # NoFailure /\ failure.code # "workflow_failed"
      BY <2>7 DEF NoFailure
    <3> QED BY <2>7, <3>1, <3>2 DEF FailuresNameTheirStage
  <2>8. CASE /\ report = NoReport /\ kind = "plan" /\ failure.code = "raised"
             /\ timings = Append(Planning, Succeeded("tool_execution"))
    <3>1. \A i \in DOMAIN timings : timings[i].status = "succeeded"
      BY <2>1, <2>2, <2>8 DEF Succeeded
    <3>2. failure # NoFailure /\ kind # "workflow"
      BY <2>8 DEF NoFailure
    <3> QED BY <2>8, <3>1, <3>2 DEF FailuresNameTheirStage
  <2> QED BY <1>1, <2>4, <2>5, <2>6, <2>7, <2>8 DEF InductiveInv, Ending
<1> QED BY <1>1, InductiveInvariant, PTL

-----------------------------------------------------------------------------
(* What the evaluation scripts tell of a run *)

\* So is the last of its runs that did not pass.
LEMMA OwnLast ==
    ASSUME NEW rs, RunsApart(rs), NEW k \in ExplainedRuns(rs)
    PROVE  LastExplained(rs, rs[k].step) = k
<1> DEFINE IsLast(i) == rs[i].step = rs[k].step
                        /\ \A j \in ExplainedRuns(rs) : j > i => rs[j].step # rs[k].step
           i0 == CHOOSE i \in ExplainedRuns(rs) : IsLast(i)
<1>1. ExplainedRuns(rs) \subseteq DOMAIN rs /\ ExplainedRuns(rs) \subseteq Nat
  BY RunIs DEF ExplainedRuns
<1>2. IsLast(k)
  BY <1>1 DEF RunsApart
<1>3. i0 \in ExplainedRuns(rs) /\ IsLast(i0)
  <2> HIDE DEF IsLast
  <2> QED BY <1>2
<1>4. LastExplained(rs, rs[k].step) = i0
  BY DEF LastExplained
<1> HIDE DEF i0
<1>5. i0 = k
  BY <1>1, <1>3 DEF RunsApart
<1> QED BY <1>4, <1>5

\* A reason is that of the step's own run.
LEMMA OwnReason ==
    ASSUME NEW rs, RunsApart(rs)
    PROVE  /\ DOMAIN Reasons(rs) = {rs[k].step : k \in ExplainedRuns(rs)}
           /\ \A k \in ExplainedRuns(rs) : Reasons(rs)[rs[k].step] = Reason(rs[k])
<1> DEFINE IsLast(id, i) == /\ rs[i].step = id /\ rs[i].status \in Explained
                            /\ \A j \in i + 1 .. Len(rs) :
                                  ~(rs[j].step = id /\ rs[j].status \in Explained)
           last(id) == CHOOSE i \in DOMAIN rs : IsLast(id, i)
           ids == {rs[i].step : i \in {k \in DOMAIN rs : rs[k].status \in Explained}}
<1>1. Reasons(rs) = [id \in ids |-> Reason(rs[last(id)])]
  BY DEF Reasons
<1>2. ids = {rs[k].step : k \in ExplainedRuns(rs)}
  BY DEF ExplainedRuns
<1>3. ASSUME NEW k \in ExplainedRuns(rs) PROVE last(rs[k].step) = k
  <2>1. k \in DOMAIN rs /\ rs[k].status \in Explained
    BY DEF ExplainedRuns
  <2>2. IsLast(rs[k].step, k)
    <3>1. ASSUME NEW j \in k + 1 .. Len(rs) PROVE rs[j].step # rs[k].step
      <4>1. j \in DOMAIN rs /\ j # k
        BY <2>1, RunIs
      <4> QED BY <2>1, <4>1 DEF RunsApart
    <3> QED BY <2>1, <3>1
  <2>3. last(rs[k].step) \in DOMAIN rs /\ IsLast(rs[k].step, last(rs[k].step))
    <3> HIDE DEF IsLast
    <3> QED BY <2>1, <2>2
  <2>4. last(rs[k].step) \in DOMAIN rs /\ rs[last(rs[k].step)].step = rs[k].step
    <3> HIDE DEF last
    <3> QED BY <2>3
  <2> HIDE DEF last
  <2> QED BY <2>1, <2>4 DEF RunsApart
<1> HIDE DEF last, ids
<1> QED BY <1>1, <1>2, <1>3

\* The reasons of the ends of a run are of different kinds.
ReasonsOfFailures ==
    {"response_assertion_mismatch", "assertion_mismatch", "timeout", "auth_failure",
     "permission_denied", "conflict", "validation_error", "upstream_unavailable",
     "permission_not_enforced", "http_status_mismatch", "tool_execution_error"}

\* The reason of a run says of which kind it is.
LEMMA ReasonIs ==
    ASSUME NEW run
    PROVE  /\ run.status = "blocked" => Reason(run) \in {"adapter_missing", "blocked_environment"}
           /\ run.status = "skipped" => Reason(run) = "manual_confirmation_required"
           /\ run.status = "failed" => Reason(run) \in ReasonsOfFailures
<1>1. ASSUME run.status = "blocked"
      PROVE  Reason(run) \in {"adapter_missing", "blocked_environment"}
  BY <1>1 DEF Reason
<1>2. ASSUME run.status = "skipped" PROVE Reason(run) = "manual_confirmation_required"
  BY <1>2 DEF Reason
<1>3. ASSUME run.status = "failed" PROVE Reason(run) \in ReasonsOfFailures
  BY <1>3 DEF Reason, ReasonsOfFailures
<1> QED BY <1>1, <1>2, <1>3

\* The words that the scripts look for are in the recommendation of each reason.
LEMMA WordsAgree ==
    ASSUME NEW run, run.status \in Explained
    PROVE  LET words == Recommendation(run.status, Reason(run))
           IN  /\ Reason(run) \in DOMAIN ReasonWords => ReasonWords[Reason(run)] \subseteq words
               /\ words \cap ActionWords[run.status] # {}
<1> DEFINE words == Recommendation(run.status, Reason(run))
<1>1. CASE run.status = "blocked"
  <2>1. CASE Reason(run) = "adapter_missing"
    <3>1. words = {"handle", "configure", "adapter", "enable"}
      BY <1>1, <2>1 DEF Recommendation
    <3>2. "handle" \in ActionWords[run.status]
      BY <1>1 DEF ActionWords
    <3>3. ReasonWords[Reason(run)] = {"adapter", "enable"}
      BY <2>1 DEF ReasonWords
    <3>4. "handle" \in words /\ ReasonWords[Reason(run)] \subseteq words
      BY ONLY <3>1, <3>3
    <3> QED BY <3>2, <3>4
  <2>2. CASE Reason(run) = "blocked_environment"
    <3>1. "handle" \in words
      BY <1>1, <2>2 DEF Recommendation
    <3>2. "handle" \in ActionWords[run.status]
      BY <1>1 DEF ActionWords
    <3>3. Reason(run) \notin DOMAIN ReasonWords
      BY <2>2 DEF ReasonWords
    <3> QED BY <3>1, <3>2, <3>3
  <2> QED BY <1>1, <2>1, <2>2, ReasonIs
<1>2. CASE run.status = "skipped"
  <2>1. Reason(run) = "manual_confirmation_required"
    BY <1>2, ReasonIs
  <2>2. words = {"confirm", "add", "adapter", "manual"}
    BY <1>2, <2>1 DEF Recommendation
  <2>3. "confirm" \in ActionWords[run.status]
    BY <1>2 DEF ActionWords
  <2>4. ReasonWords[Reason(run)] = {"manual", "confirm"}
    BY <2>1 DEF ReasonWords
  <2>5. "confirm" \in words /\ ReasonWords[Reason(run)] \subseteq words
    BY ONLY <2>2, <2>4
  <2> QED BY <2>3, <2>5
<1>3. CASE run.status = "failed"
  <2>1. Reason(run) \in ReasonsOfFailures
    BY <1>3, ReasonIs
  <2>2. ActionWords[run.status] = {"recheck", "inspect", "locate", "fix"}
    BY <1>3 DEF ActionWords
  <2>3. ASSUME NEW reason \in ReasonsOfFailures
        PROVE  /\ reason \in DOMAIN ReasonWords =>
                     ReasonWords[reason] \subseteq Recommendation("failed", reason)
               /\ "recheck" \in Recommendation("failed", reason)
                    \/ "fix" \in Recommendation("failed", reason)
    <3>1. CASE reason = "timeout"
      BY <3>1 DEF Recommendation, ReasonWords
    <3>2. CASE reason = "conflict"
      BY <3>2 DEF Recommendation, ReasonWords
    <3>3. CASE reason = "permission_denied"
      BY <3>3 DEF Recommendation, ReasonWords
    <3>4. CASE reason = "permission_not_enforced"
      BY <3>4 DEF Recommendation, ReasonWords
    <3>5. CASE reason = "upstream_unavailable"
      BY <3>5 DEF Recommendation, ReasonWords
    <3>6. CASE reason = "auth_failure"
      BY <3>6 DEF Recommendation, ReasonWords
    <3>7. CASE reason = "validation_error"
      BY <3>7 DEF Recommendation, ReasonWords
    <3>8. CASE reason = "response_assertion_mismatch"
      BY <3>8 DEF Recommendation, ReasonWords
    <3>9. CASE reason = "assertion_mismatch"
      BY <3>9 DEF Recommendation, ReasonWords
    <3>10. CASE reason = "http_status_mismatch"
      BY <3>10 DEF Recommendation, ReasonWords
    <3>11. CASE reason = "tool_execution_error"
      BY <3>11 DEF Recommendation, ReasonWords
    <3> QED BY <3>1, <3>2, <3>3, <3>4, <3>5, <3>6, <3>7, <3>8, <3>9, <3>10, <3>11
           DEF ReasonsOfFailures
  <2>4. words = Recommendation("failed", Reason(run))
    BY <1>3
  <2>5. ("recheck" \in words \/ "fix" \in words)
        /\ {"recheck", "fix"} \subseteq ActionWords[run.status]
    BY <2>1, <2>2, <2>3, <2>4
  <2>6. Reason(run) \in DOMAIN ReasonWords => ReasonWords[Reason(run)] \subseteq words
    BY <2>1, <2>3, <2>4
  <2> QED BY <2>5, <2>6
<1> QED BY <1>1, <1>2, <1>3 DEF Explained

\* What is recommended of runs with step ids of their own.
LEMMA RecommendationsHold ==
    ASSUME NEW rs, RunsApart(rs), NEW expected, expected.reasons = Reasons(rs)
    PROVE  /\ RecommendationsGround(rs) /\ RecommendationsGiveReasons(rs, expected)
           /\ RecommendationsSayNext(rs)
<1>1. /\ DOMAIN Recommendations(rs) = ExplainedRuns(rs)
      /\ \A k \in ExplainedRuns(rs) :
            /\ Recommendations(rs)[k].step = rs[k].step
            /\ Recommendations(rs)[k].words = Recommendation(rs[k].status, Reason(rs[k]))
  BY OwnReason DEF Recommendations
<1>2. StepsOf(rs, Explained) = {rs[k].step : k \in ExplainedRuns(rs)}
  BY DEF StepsOf, ExplainedRuns
<1>3. RecommendationsGround(rs)
  BY <1>1, <1>2 DEF RecommendationsGround
<1>4. \A k \in ExplainedRuns(rs) : rs[k].status \in Explained
  BY DEF ExplainedRuns
<1>5. RecommendationsGiveReasons(rs, expected)
  <2> SUFFICES ASSUME NEW id \in DOMAIN expected.reasons,
                      expected.reasons[id] \in DOMAIN ReasonWords
               PROVE  \E i \in DOMAIN Recommendations(rs) :
                          /\ Recommendations(rs)[i].step = id
                          /\ ReasonWords[expected.reasons[id]] \subseteq Recommendations(rs)[i].words
    BY DEF RecommendationsGiveReasons
  <2>1. PICK k \in ExplainedRuns(rs) : id = rs[k].step /\ expected.reasons[id] = Reason(rs[k])
    <3>1. id \in {rs[k].step : k \in ExplainedRuns(rs)}
      BY OwnReason
    <3> QED BY <3>1, OwnReason
  <2> QED BY <1>1, <1>4, <2>1, WordsAgree
<1>6. RecommendationsSayNext(rs)
  <2> SUFFICES ASSUME NEW id \in StepsOf(rs, Explained)
               PROVE  \E i \in DOMAIN Recommendations(rs) :
                          /\ Recommendations(rs)[i].step = id
                          /\ Recommendations(rs)[i].words
                                \cap ActionWords[rs[LastExplained(rs, id)].status] # {}
    BY DEF RecommendationsSayNext
  <2>1. PICK k \in ExplainedRuns(rs) : id = rs[k].step
    BY <1>2
  <2>2. LastExplained(rs, id) = k
    BY <2>1, OwnLast
  <2> QED BY <1>1, <1>4, <2>1, <2>2, WordsAgree
<1> QED BY <1>3, <1>5, <1>6

\* The report shows the evidence of every run that did not pass.
LEMMA EvidenceIsShown ==
    ASSUME NEW rs, RunsApart(rs), NEW evidence, NEW normalized
    PROVE  EvidenceShown(rs, evidence, normalized) <=>
               \A k \in ExplainedRuns(rs) : InMarkdown(rs[k], evidence[k], normalized)
<1>1. StepsOf(rs, Explained) = {rs[k].step : k \in ExplainedRuns(rs)}
  BY DEF StepsOf, ExplainedRuns
<1>2. \A k \in ExplainedRuns(rs) : LastExplained(rs, rs[k].step) = k
  BY OwnLast
<1> QED BY <1>1, <1>2 DEF EvidenceShown

\* A case written from the runs: all that a script compares is as it expects.
LEMMA OwnCase ==
    ASSUME NEW rs, RunsApart(rs), NEW steps
    PROVE  LET rep == Report(steps, rs)
               own == Expected(steps, rs)
           IN  /\ rep.status = own.status /\ rep.reasons = own.reasons
               /\ SummaryMatches(SummaryOf(steps, rs), steps, rs, rep)
               /\ CoverageMatches(rep, own) /\ DefectsMatch(rs, rep, own)
               /\ StatusesOf(rs) = own.statuses /\ StepsOf(rs, {"blocked"}) = own.blocked
               /\ RecommendationsGround(rs) /\ RecommendationsGiveReasons(rs, own)
               /\ RecommendationsSayNext(rs)
<1> DEFINE rep == Report(steps, rs)
           own == Expected(steps, rs)
<1>1. /\ rep.status = StatusOf({rs[i].status : i \in DOMAIN rs})
      /\ rep.coverage = RequirementCoverage(steps, rs)
      /\ rep.defects = [i \in DOMAIN rs |-> rs[i].status = "failed"]
      /\ rep.reasons = Reasons(rs)
  BY DEF Report
<1>2. /\ own.status = rep.status /\ own.statuses = StatusesOf(rs) /\ own.reasons = rep.reasons
      /\ own.covered = {r \in DOMAIN rep.coverage : rep.coverage[r]}
      /\ own.uncovered = {r \in DOMAIN rep.coverage : ~rep.coverage[r]}
      /\ own.defects = StepsOf(rs, {"failed"}) /\ own.blocked = StepsOf(rs, {"blocked"})
  BY DEF Expected
<1> HIDE DEF rep, own
<1>3. SummaryMatches(SummaryOf(steps, rs), steps, rs, rep)
  <2>1. LET covered == RequirementCoverage(steps, rs)
        IN  /\ SummaryOf(steps, rs).status = StatusOf({rs[i].status : i \in DOMAIN rs})
            /\ SummaryOf(steps, rs).executed = <<Len(rs), Len(steps)>>
            /\ SummaryOf(steps, rs).coverage = <<Cardinality({r \in DOMAIN covered : covered[r]}),
                                                 Cardinality(DOMAIN covered)>>
            /\ SummaryOf(steps, rs).counts = [status \in Explained \cup {"passed"} |->
                        Cardinality({i \in DOMAIN rs : rs[i].status = status})]
    BY DEF SummaryOf
  <2>2. \A status \in Explained \cup {"passed"} :
            SummaryOf(steps, rs).counts[status]
              = Quantify(DOMAIN rs, LAMBDA i : rs[i].status = status)
    BY <2>1 DEF Quantify
  <2> QED BY <1>1, <2>1, <2>2 DEF SummaryMatches
<1>4. CoverageMatches(rep, own)
  BY <1>2 DEF CoverageMatches
<1>5. DefectsMatch(rs, rep, own)
  <2>1. {rs[i].step : i \in {k \in DOMAIN rs : rep.defects[k]}} = StepsOf(rs, {"failed"})
    BY <1>1 DEF StepsOf
  <2> QED BY <1>2, <2>1 DEF DefectsMatch
<1>6. /\ RecommendationsGround(rs) /\ RecommendationsGiveReasons(rs, own)
      /\ RecommendationsSayNext(rs)
  BY <1>1, <1>2, RecommendationsHold
<1> QED BY <1>2, <1>3, <1>4, <1>5, <1>6 DEF rep, own

\* Where one run had ended in another way, the reasons and the statuses are others.
LEMMA OtherRunsDiffer ==
    ASSUME NEW rs, RunsApart(rs), NEW i \in DOMAIN rs,
           NEW status \in Explained \cup {"passed"}, status # rs[i].status
    PROVE  LET other == [rs EXCEPT ![i].status = status]
           IN  Reasons(rs) # Reasons(other) /\ StatusesOf(rs) # StatusesOf(other)
<1> DEFINE other == [rs EXCEPT ![i].status = status]
<1>1. rs[i] \in ToolRuns /\ Len(rs) \in Nat /\ DOMAIN rs = 1 .. Len(rs)
  BY RunIs
<1>2. /\ DOMAIN other = DOMAIN rs
      /\ \A k \in DOMAIN rs : k # i => other[k] = rs[k]
      /\ other[i].status = status /\ other[i].step = rs[i].step
      /\ other[i] = [rs[i] EXCEPT !.status = status]
  BY <1>1 DEF ToolRuns
<1>3. RunsApart(other)
  <2>1. other[i] \in ToolRuns
    BY <1>1, <1>2 DEF ToolRuns, Explained
  <2>2. other \in Seq(ToolRuns)
    BY <2>1 DEF RunsApart
  <2>3. \A k \in DOMAIN rs : other[k].step = rs[k].step
    BY <1>2
  <2> HIDE DEF other
  <2> QED BY <1>2, <2>2, <2>3 DEF RunsApart
<1> HIDE DEF other
<1>4. StatusesOf(rs) # StatusesOf(other)
  <2>1. StatusesOf(rs)[rs[i].step] = rs[i].status
    BY OwnRun DEF StatusesOf
  <2>2. StatusesOf(other)[other[i].step] = other[i].status
    <3>1. RunOfStep(other, other[i].step) = other[i]
      BY <1>2, <1>3, OwnRun
    <3> QED BY <1>2, <3>1 DEF StatusesOf
  <2> QED BY <1>2, <2>1, <2>2
<1>5. Reasons(rs) # Reasons(other)
  <2>1. /\ rs[i].status \in Explained => i \in ExplainedRuns(rs)
        /\ status \in Explained => i \in ExplainedRuns(other)
    BY <1>2 DEF ExplainedRuns
  <2>2. /\ rs[i].status \in Explained => /\ rs[i].step \in DOMAIN Reasons(rs)
                                         /\ Reasons(rs)[rs[i].step] = Reason(rs[i])
        /\ status \in Explained => /\ rs[i].step \in DOMAIN Reasons(other)
                                   /\ Reasons(other)[rs[i].step] = Reason(other[i])
    <3>1. /\ DOMAIN Reasons(rs) = {rs[k].step : k \in ExplainedRuns(rs)}
          /\ \A k \in ExplainedRuns(rs) : Reasons(rs)[rs[k].step] = Reason(rs[k])
      BY OwnReason
    <3>2. /\ DOMAIN Reasons(other) = {other[k].step : k \in ExplainedRuns(other)}
          /\ \A k \in ExplainedRuns(other) : Reasons(other)[other[k].step] = Reason(other[k])
      BY <1>3, OwnReason
    <3> QED BY <1>2, <2>1, <3>1, <3>2
  <2>3. rs[i].status \notin Explained => rs[i].step \notin DOMAIN Reasons(rs)
    <3> SUFFICES ASSUME rs[i].step \in DOMAIN Reasons(rs) PROVE rs[i].status \in Explained
      OBVIOUS
    <3>1. DOMAIN Reasons(rs) = {rs[k].step : k \in ExplainedRuns(rs)}
      BY OwnReason
    <3>2. PICK k \in ExplainedRuns(rs) : rs[k].step = rs[i].step
      BY <3>1
    <3> QED BY <3>2 DEF ExplainedRuns, RunsApart
  <2>4. status \notin Explained => rs[i].step \notin DOMAIN Reasons(other)
    <3> SUFFICES ASSUME rs[i].step \in DOMAIN Reasons(other) PROVE status \in Explained
      OBVIOUS
    <3>1. DOMAIN Reasons(other) = {other[k].step : k \in ExplainedRuns(other)}
      BY <1>3, OwnReason
    <3>2. PICK k \in ExplainedRuns(other) : other[k].step = rs[i].step
      BY <3>1
    <3>3. k = i
      BY <1>2, <1>3, <3>2 DEF ExplainedRuns, RunsApart
    <3> QED BY <1>2, <3>3 DEF ExplainedRuns
  <2>5. CASE rs[i].status \notin Explained \/ status \notin Explained
    <3>1. rs[i].status \in Explained \cup {"passed"}
      BY <1>1 DEF ToolRuns, Explained
    <3>2. rs[i].status \notin Explained => status \in Explained
      BY <3>1
    <3> QED BY <2>2, <2>3, <2>4, <2>5, <3>2
  <2>6. CASE rs[i].status \in Explained /\ status \in Explained
    <3>1. Reason(rs[i]) # Reason(other[i])
      <4>1. \A reason \in ReasonsOfFailures : reason \notin {"adapter_missing", "blocked_environment",
                                                             "manual_confirmation_required"}
        BY DEF ReasonsOfFailures
      <4>2. /\ rs[i].status = "blocked" => Reason(rs[i]) \in {"adapter_missing", "blocked_environment"}
            /\ rs[i].status = "skipped" => Reason(rs[i]) = "manual_confirmation_required"
            /\ rs[i].status = "failed" => Reason(rs[i]) \in ReasonsOfFailures
        BY ReasonIs
      <4>3. /\ status = "blocked" => Reason(other[i]) \in {"adapter_missing", "blocked_environment"}
            /\ status = "skipped" => Reason(other[i]) = "manual_confirmation_required"
            /\ status = "failed" => Reason(other[i]) \in ReasonsOfFailures
        BY <1>2, ReasonIs
      <4> QED BY <2>6, <4>1, <4>2, <4>3 DEF Explained
    <3> QED BY <2>2, <2>6, <3>1
  <2> QED BY <2>5, <2>6
<1> QED BY <1>4, <1>5 DEF other

\* The two halves of what the evaluations tell, where step ids are distinct.
LEMMA OwnCaseHolds ==
    ASSUME RunsApart(runs), report = Report(plan, runs)
    PROVE  OwnCasePasses
<1> DEFINE own == Expected(plan, runs)
           told == {i \in DOMAIN runs : runs[i].status \in Explained}
<1> SUFFICES ASSUME NEW evidence \in [DOMAIN runs -> Evidence]
             PROVE  LET lost == {i \in told : evidence[i] = "bar" /\ runs[i].status # "failed"}
                        long == {i \in told : evidence[i] = "lines"}
                    IN  /\ ReportCasePasses(plan, runs, report, own, evidence)
                               <=> lost \cup long = {}
                        /\ WorkflowCasePasses(plan, runs, report, own, evidence)
                               <=> lost = {} /\ PlanMatches(plan, own, TRUE)
  BY DEF OwnCasePasses
<1> DEFINE lost == {i \in told : evidence[i] = "bar" /\ runs[i].status # "failed"}
           long == {i \in told : evidence[i] = "lines"}
<1>1. told = ExplainedRuns(runs)
  BY DEF ExplainedRuns
<1>2. /\ EvidenceShown(runs, evidence, FALSE) <=>
             \A k \in told : InMarkdown(runs[k], evidence[k], FALSE)
      /\ EvidenceShown(runs, evidence, TRUE) <=>
             \A k \in told : InMarkdown(runs[k], evidence[k], TRUE)
  BY <1>1, EvidenceIsShown
<1>3. ASSUME NEW k \in told
      PROVE  /\ InMarkdown(runs[k], evidence[k], FALSE) <=> k \notin lost /\ k \notin long
             /\ InMarkdown(runs[k], evidence[k], TRUE) <=> k \notin lost
  <2>1. evidence[k] \in {"artifact", "plain", "lines", "bar"}
    BY DEF Evidence
  <2>2. CASE evidence[k] \in {"artifact", "plain"}
    BY <2>2 DEF InMarkdown
  <2>3. CASE evidence[k] = "lines"
    BY <2>3 DEF InMarkdown
  <2>4. CASE evidence[k] = "bar"
    BY <2>4 DEF InMarkdown
  <2> QED BY <2>1, <2>2, <2>3, <2>4
<1>4. lost \subseteq told /\ long \subseteq told
  OBVIOUS
<1>5. /\ EvidenceShown(runs, evidence, FALSE) <=> lost \cup long = {}
      /\ EvidenceShown(runs, evidence, TRUE) <=> lost = {}
  <2> HIDE DEF told, lost, long
  <2> QED BY <1>2, <1>3, <1>4
<1>6. /\ report.status = own.status /\ report.reasons = own.reasons
      /\ SummaryMatches(SummaryOf(plan, runs), plan, runs, report)
      /\ CoverageMatches(report, own) /\ DefectsMatch(runs, report, own)
      /\ StatusesOf(runs) = own.statuses
      /\ RecommendationsGround(runs) /\ RecommendationsGiveReasons(runs, own)
      /\ RecommendationsSayNext(runs)
  BY OwnCase
<1> HIDE DEF own, told, lost, long
<1>7. ReportCasePasses(plan, runs, report, own, evidence) <=> lost \cup long = {}
  BY <1>5, <1>6 DEF ReportCasePasses
<1>8. WorkflowCasePasses(plan, runs, report, own, evidence)
          <=> lost = {} /\ PlanMatches(plan, own, TRUE)
  BY <1>5, <1>6 DEF WorkflowCasePasses
<1> QED BY <1>7, <1>8 DEF own, told, lost, long

\* A case without a run of its own is not explained by the runs of others.
LEMMA OtherCaseHolds ==
    ASSUME RunsApart(runs), report = Report(plan, runs)
    PROVE  OtherCaseFails
<1> DEFINE plain == [i \in DOMAIN runs |-> "plain"]
           Other(i, status) == Expected(plan, [runs EXCEPT ![i].status = status])
<1> SUFFICES ASSUME NEW i \in DOMAIN runs, NEW status \in Explained \cup {"passed"}
             PROVE  LET same == status = runs[i].status
                    IN  /\ ReportCasePasses(plan, runs, report, Other(i, status), plain) <=> same
                        /\ ExecutionCasePasses(plan, runs, report, Other(i, status)) <=> same
                        /\ WorkflowCasePasses(plan, runs, report, Other(i, status), plain)
                               <=> same /\ PlanMatches(plan, Other(i, status), TRUE)
  BY DEF OtherCaseFails
<1> DEFINE other == Other(i, status)
<1>1. CASE status # runs[i].status
  <2>1. /\ other.reasons = Reasons([runs EXCEPT ![i].status = status])
        /\ other.statuses = StatusesOf([runs EXCEPT ![i].status = status])
    BY DEF Expected, Report
  <2>2. report.reasons = Reasons(runs)
    BY DEF Report
  <2> HIDE DEF other
  <2>3. report.reasons # other.reasons /\ StatusesOf(runs) # other.statuses
    BY <1>1, <2>1, <2>2, OtherRunsDiffer
  <2>4. /\ ~ReportCasePasses(plan, runs, report, other, plain)
        /\ ~ExecutionCasePasses(plan, runs, report, other)
        /\ ~WorkflowCasePasses(plan, runs, report, other, plain)
    BY <2>3 DEF ReportCasePasses, ExecutionCasePasses, WorkflowCasePasses
  <2> QED BY <1>1, <2>4 DEF other
<1>2. CASE status = runs[i].status
  <2>1. [runs EXCEPT ![i].status = status] = runs
    <3>1. runs[i] \in ToolRuns /\ runs = [k \in DOMAIN runs |-> runs[k]]
      BY RunIs DEF RunsApart
    <3>2. [runs[i] EXCEPT !.status = status] = runs[i]
      BY <1>2, <3>1 DEF ToolRuns
    <3> QED BY <3>1, <3>2
  <2>2. other = Expected(plan, runs)
    BY <2>1
  <2> HIDE DEF other
  <2>3. /\ report.status = other.status /\ report.reasons = other.reasons
        /\ SummaryMatches(SummaryOf(plan, runs), plan, runs, report)
        /\ CoverageMatches(report, other) /\ DefectsMatch(runs, report, other)
        /\ StatusesOf(runs) = other.statuses /\ StepsOf(runs, {"blocked"}) = other.blocked
        /\ RecommendationsGround(runs) /\ RecommendationsGiveReasons(runs, other)
        /\ RecommendationsSayNext(runs)
    BY <2>2, OwnCase
  <2>4. EvidenceShown(runs, plain, FALSE) /\ EvidenceShown(runs, plain, TRUE)
    <3>1. \A k \in ExplainedRuns(runs) : plain[k] = "plain"
      BY DEF ExplainedRuns
    <3>2. \A k \in ExplainedRuns(runs) : InMarkdown(runs[k], plain[k], FALSE)
                                         /\ InMarkdown(runs[k], plain[k], TRUE)
      BY <3>1 DEF InMarkdown
    <3> HIDE DEF plain
    <3> QED BY <3>2, EvidenceIsShown
  <2> HIDE DEF plain
  <2>5. /\ ReportCasePasses(plan, runs, report, other, plain)
        /\ ExecutionCasePasses(plan, runs, report, other)
        /\ WorkflowCasePasses(plan, runs, report, other, plain) <=> PlanMatches(plan, other, TRUE)
    BY <2>3, <2>4 DEF ReportCasePasses, ExecutionCasePasses, WorkflowCasePasses
  <2> QED BY <1>2, <2>5 DEF other, plain
<1> QED BY <1>1, <1>2

\* A case written from a run passes in the scripts if its evidence can be found,
\* and one that expects another end of one step fails in all of them, for every
\* plan, whatever its tools came to (evaluate_case, _recommendation_for_run).
THEOREM EvaluationsTellRuns == Spec => []EvaluationTellsRuns
<1>1. ASSUME InductiveInv PROVE EvaluationTellsRuns
  <2> SUFFICES ASSUME report # NoReport PROVE OwnCasePasses /\ (DistinctIds => OtherCaseFails)
    BY DEF EvaluationTellsRuns
  <2>1. Len(runs) = Len(plan) /\ report = Report(plan, runs)
    BY <1>1 DEF InductiveInv, GoingOn, Ending
  <2>2. /\ plan \in Seq(PlannedSteps) /\ runs \in Seq(ToolRuns)
        /\ \A i \in 1 .. Len(runs) : runs[i].step = plan[i].id
    BY <1>1 DEF InductiveInv, TypeOK, RunsFollowPlan
  <2>3. ASSUME DistinctIds PROVE RunsApart(runs)
    <3>1. DOMAIN runs = 1 .. Len(runs) /\ DOMAIN plan = DOMAIN runs
      BY <2>1, <2>2
    <3> QED BY <2>2, <2>3, <3>1 DEF DistinctIds, RunsApart
  <2>4. CASE DistinctIds
    BY <2>1, <2>3, <2>4, OwnCaseHolds, OtherCaseHolds
  <2>5. CASE ~DistinctIds
    BY <2>5 DEF OwnCasePasses
  <2> QED BY <2>4, <2>5
<1> QED BY <1>1, InductiveInvariant, PTL
=============================================================================
