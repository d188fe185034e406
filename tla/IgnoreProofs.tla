---------------------------- MODULE IgnoreProofs ----------------------------
(***************************************************************************)
(* What cdclint:ignore markers do to a run's findings, proved for any      *)
(* findings and any markers.                                               *)
(*                                                                         *)
(* Each loop of Apply keeps an exact account of the part of its list it    *)
(* has been through (FindingsAgree, MarkersAgree), and the first one's is  *)
(* complete when the second starts.  The second reads used, which is why   *)
(* the account says which markers were used and not only which findings    *)
(* were acknowledged.                                                      *)
(***************************************************************************)
EXTENDS Ignore, ListLemmas

InputOK ==
  /\ given \in Seq(Findings)
  /\ markers \in Seq(Markers)
  /\ ran \in SUBSET RuleNames

Covered(i) == CoveredBy(given[i]) # {}

(***************************************************************************)
(* The first n findings have each been kept, or given to the first marker  *)
(* that covers them.                                                       *)
(***************************************************************************)
SortedOut(n) ==
  /\ kept = {i \in 1 .. n : ~Covered(i)}
  /\ acks = {[finding |-> i, by |-> Min(CoveredBy(given[i]))] :
               i \in {j \in 1 .. n : Covered(j)}}
  /\ used = {a.by : a \in acks}

FindingsAgree ==
  /\ pc = "findings" => k <= Len(given) + 1 /\ SortedOut(k - 1)
  /\ pc # "findings" => SortedOut(Len(given))

(***************************************************************************)
(* The first n markers have been warned about where there is a problem.    *)
(***************************************************************************)
WarnedUpTo(n) ==
  warned = {[marker |-> i, problem |-> Problem(i)] :
              i \in {j \in 1 .. n : Problem(j) # "none"}}

MarkersAgree ==
  /\ pc = "findings" => warned = {}
  /\ pc = "markers" => k <= Len(markers) + 1 /\ WarnedUpTo(k - 1)
  /\ pc = "done" => WarnedUpTo(Len(markers))

IInv == InputOK /\ TypeOK /\ FindingsAgree /\ MarkersAgree

-----------------------------------------------------------------------------

(***************************************************************************)
(* The marker a covered finding is given to covers it.                     *)
(***************************************************************************)
LEMMA FirstCovers ==
  ASSUME InputOK, NEW i \in DOMAIN given, Covered(i)
  PROVE  /\ Min(CoveredBy(given[i])) \in DOMAIN markers
         /\ Acknowledges(markers[Min(CoveredBy(given[i]))], given[i])
<1>1. CoveredBy(given[i]) \in SUBSET Nat /\ CoveredBy(given[i]) # {}
  BY DEF CoveredBy, Covered, InputOK
<1>2. Min(CoveredBy(given[i])) \in CoveredBy(given[i])
  BY <1>1, MinExists
<1> QED
  BY <1>2 DEF CoveredBy

(***************************************************************************)
(* A problem found is one of the four Apply knows.                         *)
(***************************************************************************)
LEMMA ProblemKinds ==
  ASSUME NEW i
  PROVE  Problem(i) \in {"names no rule", "names an unknown rule",
                        "gives no reason", "covers nothing", "none"}
BY DEF Problem

(***************************************************************************)
(* Nothing has been sorted out before Apply starts.                        *)
(***************************************************************************)
LEMMA StartedIInv ==
  ASSUME InputOK, pc = "findings", k = 1,
         kept = {}, acks = {}, used = {}, warned = {}
  PROVE  IInv
<1>1. TypeOK
  BY DEF TypeOK
<1>2. FindingsAgree /\ MarkersAgree
  BY DEF FindingsAgree, MarkersAgree, SortedOut, InputOK
<1> QED
  BY <1>1, <1>2 DEF IInv

LEMMA InitIInv == Init => IInv
<1> SUFFICES ASSUME Init PROVE IInv
  OBVIOUS
<1>1. PICK c \in Cases : given = c.given /\ markers = c.markers /\ ran = c.ran
  BY DEF Init
<1>2. InputOK
  BY <1>1, CasesAssumption DEF InputOK, CaseType
<1> QED
  BY <1>2, StartedIInv DEF Init

(***************************************************************************)
(* The lists are sequences, and k counts from one.                         *)
(***************************************************************************)
LEMMA Lists ==
  ASSUME IInv
  PROVE  /\ Len(given) \in Nat /\ DOMAIN given = 1 .. Len(given)
         /\ Len(markers) \in Nat /\ DOMAIN markers = 1 .. Len(markers)
         /\ k \in Nat /\ k # 0
<1>1. given \in Seq(Findings) /\ markers \in Seq(Markers)
  BY DEF IInv, InputOK
<1>2. k \in Nat \ {0}
  BY DEF IInv, TypeOK
<1> QED
  BY <1>1, <1>2

(***************************************************************************)
(* An account holds for as long as nothing it is about changes.            *)
(***************************************************************************)
LEMMA SameAccount ==
  ASSUME UNCHANGED <<given, markers, kept, acks, used>>
  PROVE  \A n : SortedOut(n)' <=> SortedOut(n)
BY DEF SortedOut, Covered, CoveredBy

(***************************************************************************)
(* One turn of the first loop extends its account by one finding.          *)
(***************************************************************************)
LEMMA FindingStep ==
  ASSUME IInv, Keep \/ Acknowledge
  PROVE  IInv'
<1> DEFINE first == Min(CoveredBy(given[k]))
<1>1. /\ pc = "findings" /\ pc' = "findings"
      /\ k <= Len(given) /\ k' = k + 1
      /\ UNCHANGED <<given, markers, ran, warned>>
  BY DEF Keep, Acknowledge, AtFinding
<1>2. k \in DOMAIN given /\ k' \in Nat \ {0} /\ k' - 1 = k /\ k <= Len(given)
      /\ 1 .. k = (1 .. (k - 1)) \cup {k} /\ k' <= Len(given) + 1
  BY <1>1, Lists
<1>3. SortedOut(k - 1) /\ warned = {}
  BY <1>1 DEF IInv, FindingsAgree, MarkersAgree
<1>4. \A i : CoveredBy(given[i])' = CoveredBy(given[i])
  BY <1>1 DEF CoveredBy
<1>5. \/ ~Covered(k) /\ kept' = kept \cup {k} /\ UNCHANGED <<acks, used>>
      \/ /\ Covered(k)
         /\ acks' = acks \cup {[finding |-> k, by |-> first]}
         /\ used' = used \cup {first}
         /\ UNCHANGED kept
  BY DEF Keep, Acknowledge, Covered
<1>6. kept' = {i \in 1 .. k : ~Covered(i)}
  BY <1>2, <1>3, <1>5 DEF SortedOut
<1>7. acks' = {[finding |-> i, by |-> Min(CoveredBy(given[i]))] :
                 i \in {j \in 1 .. k : Covered(j)}}
  BY <1>2, <1>3, <1>5 DEF SortedOut
<1>8. used' = {a.by : a \in acks'}
  <2>1. used = {a.by : a \in acks}
    BY <1>3 DEF SortedOut
  <2>2. CASE UNCHANGED <<acks, used>>
    BY <2>1, <2>2
  <2>3. ASSUME NEW a, acks' = acks \cup {a}, used' = used \cup {a.by}
        PROVE  used' = {x.by : x \in acks'}
    BY <2>1, <2>3
  <2>4. [finding |-> k, by |-> first].by = first
    OBVIOUS
  <2> QED
    BY <1>5, <2>2, <2>3, <2>4
<1>9. SortedOut(k - 1)'
  <2>1. \A i : Covered(i)' <=> Covered(i)
    BY <1>4 DEF Covered
  <2>2. kept' = {i \in 1 .. (k' - 1) : ~Covered(i)'}
    BY <1>2, <1>6, <2>1
  <2>3. acks' = {[finding |-> i, by |-> Min(CoveredBy(given[i])')] :
                   i \in {j \in 1 .. (k' - 1) : Covered(j)'}}
    BY <1>2, <1>4, <1>7, <2>1
  <2> QED
    BY <1>8, <2>2, <2>3 DEF SortedOut
<1>10. TypeOK'
  <2>1. Covered(k) => first \in DOMAIN markers
    BY <1>2, FirstCovers DEF IInv
  <2>2. [finding |-> k, by |-> first].finding = k
    OBVIOUS
  <2>3. kept' \subseteq DOMAIN given
    BY <1>2, <1>5 DEF IInv, TypeOK
  <2>4. used' \subseteq DOMAIN markers
    BY <1>5, <2>1 DEF IInv, TypeOK
  <2>5. acks' \subseteq [finding : DOMAIN given, by : DOMAIN markers]
    <3>1. Covered(k) => [finding |-> k, by |-> first]
                          \in [finding : DOMAIN given, by : DOMAIN markers]
      BY <1>2, <2>1
    <3>2. acks \subseteq [finding : DOMAIN given, by : DOMAIN markers]
      BY DEF IInv, TypeOK
    <3> HIDE DEF first
    <3> QED
      BY <1>5, <3>1, <3>2, Zenon
  <2> QED
    BY <1>1, <1>2, <2>3, <2>4, <2>5 DEF IInv, TypeOK
<1>11. InputOK'
  BY <1>1 DEF IInv, InputOK
<1>12. FindingsAgree'
  BY <1>1, <1>2, <1>9 DEF FindingsAgree
<1>13. MarkersAgree'
  BY <1>1, <1>3 DEF MarkersAgree
<1> QED
  BY <1>10, <1>11, <1>12, <1>13 DEF IInv

(***************************************************************************)
(* The first loop's account is complete when the second starts.            *)
(***************************************************************************)
LEMMA FindingsDoneStep ==
  ASSUME IInv, FindingsDone
  PROVE  IInv'
<1>1. /\ pc = "findings" /\ pc' = "markers" /\ k' = 1 /\ k > Len(given)
      /\ UNCHANGED <<given, markers, ran, kept, acks, used, warned>>
  BY DEF FindingsDone
<1>2. k <= Len(given) + 1 /\ SortedOut(k - 1) /\ warned = {}
  BY <1>1 DEF IInv, FindingsAgree, MarkersAgree
<1>3. k - 1 = Len(given) /\ k' \in Nat \ {0} /\ k' - 1 = 0 /\ k' <= Len(markers) + 1
  BY <1>1, <1>2, Lists
<1>4. InputOK'
  BY <1>1 DEF IInv, InputOK
<1>5. TypeOK'
  BY <1>1, <1>3, Zenon DEF IInv, TypeOK
<1>6. FindingsAgree'
  <2>1. SortedOut(Len(given))
    BY <1>2, <1>3
  <2>2. Len(given)' = Len(given)
    BY <1>1
  <2> QED
    BY <1>1, <2>1, <2>2, SameAccount DEF FindingsAgree
<1>7. MarkersAgree'
  <2>1. {j \in 1 .. (k' - 1) : Problem(j)' # "none"} = {}
    BY <1>3
  <2>2. WarnedUpTo(k - 1)'
    BY <1>1, <1>2, <2>1 DEF WarnedUpTo
  <2> QED
    BY <1>1, <1>3, <2>2 DEF MarkersAgree
<1> QED
  BY <1>4, <1>5, <1>6, <1>7 DEF IInv

(***************************************************************************)
(* One turn of the second loop extends its account by one marker.          *)
(***************************************************************************)
LEMMA MarkerStep ==
  ASSUME IInv, Warn \/ Pass
  PROVE  IInv'
<1>1. /\ pc = "markers" /\ pc' = "markers"
      /\ k <= Len(markers) /\ k' = k + 1
      /\ UNCHANGED <<given, markers, ran, kept, acks, used>>
  BY DEF Warn, Pass, AtMarker
<1>2. /\ k \in DOMAIN markers /\ k' \in Nat \ {0} /\ k' - 1 = k
      /\ 1 .. k = (1 .. (k - 1)) \cup {k} /\ k' <= Len(markers) + 1
  BY <1>1, Lists
<1>3. SortedOut(Len(given)) /\ WarnedUpTo(k - 1)
  BY <1>1 DEF IInv, FindingsAgree, MarkersAgree
<1>4. warned' = IF Problem(k) = "none" THEN warned
                ELSE warned \cup {[marker |-> k, problem |-> Problem(k)]}
  BY DEF Warn, Pass
<1>5. \A i : Problem(i)' = Problem(i)
  BY <1>1 DEF Problem, JudgedNow
<1>6. warned' = {[marker |-> i, problem |-> Problem(i)] :
                   i \in {j \in 1 .. k : Problem(j) # "none"}}
  BY <1>2, <1>3, <1>4 DEF WarnedUpTo
<1>7. WarnedUpTo(k - 1)'
  <2>1. warned' = {[marker |-> i, problem |-> Problem(i)'] :
                     i \in {j \in 1 .. (k' - 1) : Problem(j)' # "none"}}
    BY <1>2, <1>5, <1>6
  <2> QED
    BY <2>1 DEF WarnedUpTo
<1>8. TypeOK'
  <2> DEFINE Warnings ==
        [marker : DOMAIN markers,
         problem : {"names no rule", "names an unknown rule", "gives no reason",
                    "covers nothing"}]
  <2>1. warned \subseteq Warnings
    BY DEF IInv, TypeOK
  <2>2. Problem(k) # "none" => [marker |-> k, problem |-> Problem(k)] \in Warnings
    BY <1>2, ProblemKinds
  <2>3. warned' \subseteq Warnings
    <3> HIDE DEF Warnings
    <3> QED
      BY <1>4, <2>1, <2>2
  <2> QED
    BY <1>1, <1>2, <2>3, Zenon DEF IInv, TypeOK
<1>9. FindingsAgree'
  <2>1. Len(given)' = Len(given)
    BY <1>1
  <2> QED
    BY <1>1, <1>3, <2>1, SameAccount DEF FindingsAgree
<1>10. MarkersAgree'
  BY <1>1, <1>2, <1>7 DEF MarkersAgree
<1>11. InputOK'
  BY <1>1 DEF IInv, InputOK
<1> QED
  BY <1>8, <1>9, <1>10, <1>11 DEF IInv

(***************************************************************************)
(* The second loop's account is complete at the end, and stays so.         *)
(***************************************************************************)
LEMMA MarkersDoneStep ==
  ASSUME IInv, MarkersDone \/ UNCHANGED vars
  PROVE  IInv'
<1>1. /\ UNCHANGED <<given, markers, ran, k, kept, acks, used, warned>>
      /\ \/ pc' = pc
         \/ pc = "markers" /\ pc' = "done" /\ k > Len(markers)
  BY DEF MarkersDone, vars
<1>2. InputOK' /\ TypeOK'
  BY <1>1 DEF IInv, InputOK, TypeOK
<1>3. FindingsAgree'
  <2>1. Len(given)' = Len(given) /\ (pc' = "findings" <=> pc = "findings")
    BY <1>1
  <2> QED
    BY <1>1, <2>1, SameAccount DEF IInv, FindingsAgree
<1>4. \A n : WarnedUpTo(n)' <=> WarnedUpTo(n)
  BY <1>1 DEF WarnedUpTo, Problem, JudgedNow
<1>5. MarkersAgree'
  <2>1. CASE pc' = pc
    BY <1>1, <1>4, <2>1 DEF IInv, MarkersAgree
  <2>2. CASE pc = "markers" /\ pc' = "done" /\ k > Len(markers)
    <3>1. k <= Len(markers) + 1 /\ WarnedUpTo(k - 1)
      BY <2>2 DEF IInv, MarkersAgree
    <3>2. k - 1 = Len(markers)
      BY <2>2, <3>1, Lists
    <3> QED
      BY <1>1, <1>4, <2>2, <3>1, <3>2 DEF MarkersAgree
  <2> QED
    BY <1>1, <2>1, <2>2
<1> QED
  BY <1>2, <1>3, <1>5 DEF IInv

(***************************************************************************)
(* Every step keeps IInv, so it holds in every state of every run.         *)
(***************************************************************************)
LEMMA NextIInv ==
  ASSUME IInv, [Next]_vars
  PROVE  IInv'
BY FindingStep, FindingsDoneStep, MarkerStep, MarkersDoneStep DEF Next

LEMMA Invariance == Spec => []IInv
<1>1. Init => IInv
  BY InitIInv
<1>2. IInv /\ [Next]_vars => IInv'
  BY NextIInv
<1> QED
  BY <1>1, <1>2, PTL DEF Spec

(***************************************************************************)
(* Every variable keeps its type, whatever Apply is given.                 *)
(***************************************************************************)
THEOREM TypeCorrect == Spec => []TypeOK
<1>1. IInv => TypeOK
  BY DEF IInv
<1> QED
  BY <1>1, Invariance, PTL

(***************************************************************************)
(* A marker that acknowledged a finding has no problem.                    *)
(***************************************************************************)
LEMMA UsedIsNotWarned ==
  ASSUME IInv, pc = "done", NEW a \in acks
  PROVE  /\ a.finding \in DOMAIN given /\ Covered(a.finding)
         /\ a.by \in DOMAIN markers
         /\ Acknowledges(markers[a.by], given[a.finding])
         /\ a.by \notin Warned
<1>1. SortedOut(Len(given)) /\ WarnedUpTo(Len(markers))
  BY DEF IInv, FindingsAgree, MarkersAgree
<1>2. PICK i \in 1 .. Len(given) :
        Covered(i) /\ a = [finding |-> i, by |-> Min(CoveredBy(given[i]))]
  BY <1>1 DEF SortedOut
<1>3. i \in DOMAIN given
  BY <1>2 DEF IInv, InputOK
<1>4. a.by \in DOMAIN markers /\ Acknowledges(markers[a.by], given[i])
  BY <1>2, <1>3, FirstCovers DEF IInv
<1>5. a.by \in used
  BY <1>1 DEF SortedOut
<1>6. Problem(a.by) = "none"
  BY <1>4, <1>5 DEF Problem, Acknowledges, Valid
<1>7. a.by \notin Warned
  BY <1>1, <1>6 DEF Warned, WarnedUpTo
<1> QED
  BY <1>2, <1>3, <1>4, <1>7

(***************************************************************************)
(* At the end every finding stands or is acknowledged, and none is both.   *)
(***************************************************************************)
LEMMA EachSortedOut ==
  ASSUME IInv, pc = "done"
  PROVE  kept \cup Acknowledged = DOMAIN given /\ kept \cap Acknowledged = {}
<1>1. SortedOut(Len(given)) /\ DOMAIN given = 1 .. Len(given)
  BY DEF IInv, FindingsAgree, InputOK
<1>2. Acknowledged = {i \in 1 .. Len(given) : Covered(i)}
  <2>1. ASSUME NEW i \in 1 .. Len(given), Covered(i) PROVE i \in Acknowledged
    <3>1. [finding |-> i, by |-> Min(CoveredBy(given[i]))] \in acks
      BY <1>1, <2>1 DEF SortedOut
    <3> QED
      BY <3>1 DEF Acknowledged
  <2>2. ASSUME NEW i \in Acknowledged PROVE i \in 1 .. Len(given) /\ Covered(i)
    BY <1>1 DEF Acknowledged, SortedOut
  <2> QED
    BY <2>1, <2>2
<1> QED
  BY <1>1, <1>2 DEF SortedOut

(***************************************************************************)
(* Every finding stands or is acknowledged, never both and never neither,  *)
(* and only by a marker that names its rule and its place with a reason.   *)
(***************************************************************************)
THEOREM OnPurpose == Spec => []AcknowledgedOnPurpose
<1>1. IInv => AcknowledgedOnPurpose
  <2> SUFFICES ASSUME IInv, pc = "done" PROVE AcknowledgedOnPurpose
    BY DEF AcknowledgedOnPurpose
  <2>1. kept \cup Acknowledged = DOMAIN given /\ kept \cap Acknowledged = {}
    BY EachSortedOut
  <2>2. ASSUME NEW a \in acks
        PROVE  LET f == given[a.finding]
                   m == markers[a.by]
               IN  /\ a.by \notin Warned
                   /\ m.reasoned /\ f.rule \in m.rules /\ m.file = f.file
                   /\ \/ ~m.alone /\ m.line = f.line
                      \/ m.alone /\ m.line + 1 = f.line
    BY UsedIsNotWarned DEF Acknowledges, Valid, Covers
  <2> QED
    BY <2>1, <2>2 DEF AcknowledgedOnPurpose
<1> QED
  BY <1>1, Invariance, PTL

(***************************************************************************)
(* The markers warned about are the ones that could go without a finding   *)
(* coming back, but for those of rules that did not run or judge the       *)
(* change.                                                                 *)
(***************************************************************************)
THEOREM ExactWarnings == Spec => []WarningsAreExact
<1>1. IInv => WarningsAreExact
  <2> SUFFICES ASSUME IInv, pc = "done" PROVE WarningsAreExact
    BY DEF WarningsAreExact
  <2>1. ASSUME NEW i \in Acknowledged
        PROVE  CoveredBy(given[i]) \ Warned # {}
    <3>1. PICK a \in acks : a.finding = i
      BY DEF Acknowledged
    <3>2. a.by \in CoveredBy(given[i]) /\ a.by \notin Warned
      BY <3>1, UsedIsNotWarned DEF CoveredBy
    <3> QED
      BY <3>2
  <2>2. ASSUME NEW i \in DOMAIN markers \ Warned
        PROVE  \/ \E a \in acks : a.by = i
               \/ markers[i].rules \cap (DiffRules \cup (RuleNames \ ran)) # {}
    <3>1. Problem(i) = "none"
      <4>1. SUFFICES ASSUME Problem(i) # "none" PROVE FALSE
        OBVIOUS
      <4>2. WarnedUpTo(Len(markers)) /\ i \in 1 .. Len(markers)
        BY DEF IInv, MarkersAgree, InputOK
      <4>3. [marker |-> i, problem |-> Problem(i)] \in warned
        BY <4>1, <4>2 DEF WarnedUpTo
      <4> QED
        BY <4>3 DEF Warned
    <3>2. i \in used \/ ~JudgedNow(markers[i])
      BY <3>1 DEF Problem
    <3>3. markers[i].rules \subseteq RuleNames
      BY <3>1 DEF Problem
    <3>4. CASE i \in used
      BY <3>4 DEF IInv, FindingsAgree, SortedOut
    <3>5. CASE ~JudgedNow(markers[i])
      BY <3>3, <3>5 DEF JudgedNow
    <3> QED
      BY <3>2, <3>4, <3>5
  <2> QED
    BY <2>1, <2>2 DEF WarningsAreExact
<1> QED
  BY <1>1, Invariance, PTL

=============================================================================
