--------------------------- MODULE TestEvidenceProofs ---------------------------
(***************************************************************************)
(* Theorems about TestEvidence, for any cases, any classifications of them *)
(* and any number of sessions, edits and oddities.                         *)
(***************************************************************************)
EXTENDS TestEvidence, TLAPS

(* Phases                                                                  *)

LEMMA FateNames ==
  Fates = {"passed", "failed", "not_set_up", "not_cleaned", "skipped", "xfailed",
           "xpassed", "interrupted"}
  BY DEF Fates, PhasesOf

LEMMA Table ==
  /\ PhasesOf["passed"] = <<SetUp, Call("passed"), TearDown>>
  /\ PhasesOf["failed"] = <<SetUp, Call("failed"), TearDown>>
  /\ PhasesOf["not_set_up"] = <<Phase("setup", "failed", FALSE), TearDown>>
  /\ PhasesOf["not_cleaned"] =
       <<SetUp, Call("passed"), Phase("teardown", "failed", FALSE)>>
  /\ PhasesOf["skipped"] = <<Phase("setup", "skipped", FALSE), TearDown>>
  /\ PhasesOf["xfailed"] = <<SetUp, Expected("skipped"), TearDown>>
  /\ PhasesOf["xpassed"] = <<SetUp, Expected("passed"), TearDown>>
  /\ PhasesOf["interrupted"] = <<SetUp>>
  BY DEF PhasesOf, AllPassed

LEMMA PhaseTyped ==
  ASSUME NEW when \in {"setup", "call", "teardown"},
         NEW outcome \in {"passed", "failed", "skipped"}, NEW wasxfail \in BOOLEAN
  PROVE  Phase(when, outcome, wasxfail) \in Phases
  BY DEF Phase, Phases

LEMMA PhasesTyped ==
  ASSUME NEW f \in Fates
  PROVE  PhasesOf[f] \in Seq(Phases) /\ PhasesOf[f] # << >>
<1>1. SetUp \in Phases /\ TearDown \in Phases
  BY PhaseTyped DEF SetUp, TearDown
<1>2. \A o \in {"passed", "failed", "skipped"} :
        /\ Call(o) \in Phases /\ Expected(o) \in Phases
        /\ Phase("setup", o, FALSE) \in Phases /\ Phase("teardown", o, FALSE) \in Phases
  BY PhaseTyped DEF Call, Expected
<1>3. CASE f \in {"passed", "failed", "xfailed", "xpassed", "not_cleaned"}
  <2>1. \A a, b, c \in Phases : <<a, b, c>> \in Seq(Phases) /\ <<a, b, c>> # << >>
    OBVIOUS
  <2>2. \E a, b, c \in Phases : PhasesOf[f] = <<a, b, c>>
    <3>1. CASE f = "passed" BY <1>1, <1>2, <3>1, Table
    <3>2. CASE f = "failed" BY <1>1, <1>2, <3>2, Table
    <3>3. CASE f = "xfailed" BY <1>1, <1>2, <3>3, Table
    <3>4. CASE f = "xpassed" BY <1>1, <1>2, <3>4, Table
    <3>5. CASE f = "not_cleaned" BY <1>1, <1>2, <3>5, Table
    <3> QED BY <1>3, <3>1, <3>2, <3>3, <3>4, <3>5
  <2> QED
    BY <2>1, <2>2
<1>4. CASE f \in {"not_set_up", "skipped", "interrupted"}
  <2>1. \A a, b \in Phases :
          /\ <<a, b>> \in Seq(Phases) /\ <<a, b>> # << >>
          /\ <<a>> \in Seq(Phases) /\ <<a>> # << >>
    OBVIOUS
  <2> QED
    BY <1>1, <1>2, <1>4, <2>1, Table
<1> QED
  BY <1>3, <1>4, FateNames

\* Of an attempt, the phases tell whether it passed.
LEMMA CleanPassed ==
  ASSUME NEW f \in Fates, Clean(PhasesOf[f])
  PROVE  f = "passed"
<1>1. Len(PhasesOf[f]) = 3 /\ \A i \in 1 .. 3 :
        PhasesOf[f][i].outcome = "passed" /\ ~PhasesOf[f][i].wasxfail
  <2> DEFINE s == PhasesOf[f]
  <2>1. s \in Seq(Phases)
    BY PhasesTyped
  <2>2. DOMAIN s = 1 .. 3
    <3> HIDE DEF s
    <3>1. [i \in DOMAIN s |-> s[i].when] = <<"setup", "call", "teardown">>
      BY DEF Clean, s
    <3>2. DOMAIN [i \in DOMAIN s |-> s[i].when] = DOMAIN s
      OBVIOUS
    <3>3. DOMAIN <<"setup", "call", "teardown">> = 1 .. 3
      OBVIOUS
    <3> QED
      BY <3>1, <3>2, <3>3
  <2>3. \A i \in DOMAIN s : s[i].outcome = "passed" /\ ~s[i].wasxfail
    BY DEF Clean
  <2>4. Len(s) = 3
    <3> HIDE DEF s
    <3>1. Len(s) \in Nat /\ DOMAIN s = 1 .. Len(s)
      BY <2>1
    <3>2. 1 .. Len(s) = 1 .. 3
      BY <2>2, <3>1
    <3>3. 3 \in 1 .. Len(s)
      BY <3>2
    <3>4. Len(s) = 0 \/ Len(s) \in 1 .. 3
      BY <3>1, <3>2
    <3> QED
      BY <3>1, <3>3, <3>4
  <2> QED
    BY <2>2, <2>3, <2>4
<1>2. f \notin {"not_set_up", "skipped", "interrupted"}
  BY <1>1, Table
<1>3. f # "failed" /\ f # "xfailed" /\ f # "xpassed"
  <2>1. Call("failed").outcome = "failed" /\ Expected("skipped").wasxfail
        /\ Expected("passed").wasxfail
    BY DEF Call, Expected, Phase
  <2> QED
    BY <1>1, <2>1, Table
<1>4. f # "not_cleaned"
  <2> SUFFICES ASSUME f = "not_cleaned" PROVE FALSE
    OBVIOUS
  <2> DEFINE last == Phase("teardown", "failed", FALSE)
  <2>1. last.outcome # "passed"
    BY DEF Phase
  <2> HIDE DEF last
  <2>2. PhasesOf["not_cleaned"] = <<SetUp, Call("passed"), last>>
    BY Table DEF last
  <2>3. <<SetUp, Call("passed"), last>>[3] = last
    OBVIOUS
  <2>4. PhasesOf[f][3] = last
    BY <2>2, <2>3
  <2> QED
    BY <1>1, <2>1, <2>4
<1> QED
  BY <1>2, <1>3, <1>4, FateNames

HasFailed(phases) == \E i \in DOMAIN phases : phases[i].outcome = "failed"

LEMMA BrokenFailed ==
  ASSUME NEW f \in Broken
  PROVE  f \in Fates /\ HasFailed(PhasesOf[f])
<1>1. f \in Fates
  BY FateNames DEF Broken
<1>2. f \in {"failed", "not_set_up", "not_cleaned"}
  BY DEF Broken
<1>3. /\ PhasesOf["failed"][2] = Call("failed") /\ 2 \in DOMAIN PhasesOf["failed"]
     /\ PhasesOf["not_set_up"][1] = Phase("setup", "failed", FALSE)
     /\ 1 \in DOMAIN PhasesOf["not_set_up"]
     /\ PhasesOf["not_cleaned"][3] = Phase("teardown", "failed", FALSE)
     /\ 3 \in DOMAIN PhasesOf["not_cleaned"]
  BY Table
<1>4. \E i \in DOMAIN PhasesOf[f] : PhasesOf[f][i].outcome = "failed"
  BY <1>2, <1>3 DEF Phase, Call
<1> QED
  BY <1>1, <1>4 DEF HasFailed

LEMMA Appended ==
  ASSUME NEW s \in Seq(Phases), NEW t \in Seq(Phases)
  PROVE  /\ s \o t \in Seq(Phases)
         /\ s = << >> => s \o t = t
         /\ t # << >> => s \o t # << >>
         /\ HasFailed(s) => HasFailed(s \o t)
<1>1. HasFailed(s) => HasFailed(s \o t)
  <2> SUFFICES ASSUME NEW i \in DOMAIN s, s[i].outcome = "failed"
      PROVE  HasFailed(s \o t)
    BY DEF HasFailed
  <2>1. i \in DOMAIN (s \o t) /\ (s \o t)[i] = s[i]
    OBVIOUS
  <2> QED
    BY <2>1 DEF HasFailed
<1>2. t # << >> => s \o t # << >>
  <2>1. Len(s \o t) = Len(s) + Len(t) /\ Len(s) >= 0
    OBVIOUS
  <2>2. t # << >> => Len(t) > 0
    OBVIOUS
  <2> QED
    BY <2>1, <2>2
<1>3. s \o t \in Seq(Phases) /\ (s = << >> => s \o t = t)
  OBVIOUS
<1> QED
  BY <1>1, <1>2, <1>3


-----------------------------------------------------------------------------
(* Types                                                                   *)

Session == [pc : {"configured", "running"}, file : Files,
            config : {"unit", "default"}, report : Report]

LEMMA AllowTyped ==
  ASSUME oddities \in Nat, NEW n \in Nat, Allow(n)
  PROVE  oddities' \in Nat
  BY DEF Allow

LEMMA OddTyped == \A b \in BOOLEAN : Odd(b) \in Nat
  BY DEF Odd

LEMMA NothingTyped == Nothing \in Fact
<1>1. "passed" \in Fates
  BY FateNames
<1> QED
  BY <1>1 DEF Nothing, Fact, Placements

\* A session that runs is one of the type.
LEMMA SessionTyped ==
  ASSUME TypeOK, session.pc \in {"configured", "running"}
  PROVE  session \in Session /\ session.report \in Report
  BY DEF TypeOK, NoSession, Session

LEMMA StartTyped ==
  ASSUME TypeOK, NEW file \in Files, NEW lane \in Files, NEW config \in {"unit", "default"},
         NEW only \in BOOLEAN, NEW source \in Answers, Start(file, lane, config, only, source)
  PROVE  TypeOK'
<1>1. tree.content \in Nat /\ tree.commit \in Nat
  BY DEF TypeOK
<1>2. source \in [commit : Nat, tracked_dirty : BOOLEAN]
  <2>1. Revision.commit \in Nat /\ Revision.tracked_dirty \in BOOLEAN
    BY <1>1 DEF Revision
  <2>2. {Revision.commit, 0} \subseteq Nat /\ {Revision.tracked_dirty, FALSE} \subseteq BOOLEAN
    BY <2>1
  <2>3. source \in [commit : {Revision.commit, 0}, tracked_dirty : {Revision.tracked_dirty, FALSE}]
    BY DEF Answers
  <2> HIDE DEF Revision
  <2> QED
    BY <2>2, <2>3, Zenon
<1> DEFINE report == [lane |-> lane, collect_only |-> only,
                      exitstatus |-> 0, source |-> source, errors |-> FALSE,
                      cases |-> [c \in Cases |-> "none"],
                      selected |-> {}, deselected |-> {},
                      phases |-> [c \in Cases |-> << >>]]
<1>3. report \in Report
  <2>1. << >> \in Seq(Phases)
    OBVIOUS
  <2>2. [c \in Cases |-> << >>] \in [Cases -> Seq(Phases)]
    BY <2>1
  <2> QED
    BY <1>2, <2>2 DEF Report
<1> HIDE DEF report
<1>4. session' = [pc |-> "configured", file |-> file, config |-> config, report |-> report]
  BY DEF Start, report
<1>5. session' \in Session
  BY <1>3, <1>4 DEF Session
<1>6. fact' \in Fact
  <2>1. PICK content \in Nat, plain \in BOOLEAN :
          fact' = [Nothing EXCEPT !.content = content, !.plain = plain]
    BY <1>1 DEF Start
  <2> QED
    BY <2>1, NothingTyped DEF Fact
<1>7. oddities' \in Nat
  <2>1. PICK n \in Nat : Allow(n)
    BY OddTyped DEF Start, Odd
  <2> QED
    BY <2>1, AllowTyped DEF TypeOK
<1> QED
  BY <1>5, <1>6, <1>7 DEF Start, TypeOK, Session

LEMMA CollectTyped ==
  ASSUME TypeOK, NEW cases \in SUBSET Cases, NEW selected \in SUBSET Cases,
         Collect(cases, selected)
  PROVE  TypeOK'
<1> DEFINE owners == [c \in Cases |-> IF c \in cases THEN Owner(c) ELSE "none"]
           report == [session.report EXCEPT !.errors = cases # Collected(session.config),
                                            !.cases = owners,
                                            !.selected = selected,
                                            !.deselected = cases \ selected]
<1>1. session \in Session /\ session.report \in Report
  BY SessionTyped DEF Collect
<1>2. owners \in [Cases -> Lanes \cup {"none"}]
  BY DEF Owner, Lanes
<1>3. report \in Report
  <2> HIDE DEF owners
  <2>1. (cases # Collected(session.config)) \in BOOLEAN
    OBVIOUS
  <2> QED
    BY <1>1, <1>2, <2>1 DEF Report
<1>4. session' = [session EXCEPT !.pc = "running", !.report = report]
  BY DEF Collect
<1> HIDE DEF report
<1>5. session' \in Session
  BY <1>1, <1>3, <1>4 DEF Session
<1>6. fact' \in Fact
  <2>1. PICK untracked \in BOOLEAN, plain \in BOOLEAN :
          fact' = [fact EXCEPT !.tests = tree.found, !.untracked = untracked, !.plain = plain]
    BY DEF Collect, TypeOK, Fact
  <2> QED
    BY <2>1 DEF TypeOK, Fact
<1>7. oddities' \in Nat
  BY AllowTyped, OddTyped DEF Collect, TypeOK
<1> QED
  BY <1>5, <1>6, <1>7 DEF Collect, TypeOK, Session

LEMMA RunTyped ==
  ASSUME TypeOK, NEW c \in Cases, NEW fate \in Fates, Run(c, fate)
  PROVE  TypeOK'
<1> DEFINE phases == [session.report.phases EXCEPT ![c] = @ \o PhasesOf[fate]]
           report == [session.report EXCEPT !.phases = phases]
<1>1. session \in Session /\ session.report \in Report
  BY SessionTyped DEF Run
<1>2. phases \in [Cases -> Seq(Phases)]
  <2>1. session.report.phases \in [Cases -> Seq(Phases)]
    BY <1>1 DEF Report
  <2>2. session.report.phases[c] \o PhasesOf[fate] \in Seq(Phases)
    BY <2>1, PhasesTyped, Appended
  <2> QED
    BY <2>1, <2>2
<1>3. report \in Report
  <2> HIDE DEF phases
  <2> QED
    BY <1>1, <1>2 DEF Report
<1>4. session' = [session EXCEPT !.report = report]
  BY <1>1 DEF Run, Session, Report
<1> HIDE DEF report, phases
<1>5. session' \in Session
  BY <1>1, <1>3, <1>4 DEF Session
<1>6. fact' \in Fact
  <2>1. PICK plain \in BOOLEAN :
          fact' = [fact EXCEPT !.runs[c] = @ + 1, !.last[c] = fate, !.plain = plain]
    BY DEF Run, TypeOK, Fact
  <2>2. fact \in Fact /\ fact.runs[c] + 1 \in Nat
    BY DEF TypeOK, Fact
  <2> DEFINE runs == [fact.runs EXCEPT ![c] = @ + 1]
             last == [fact.last EXCEPT ![c] = fate]
  <2>3. runs \in [Cases -> Nat] /\ last \in [Cases -> Fates]
    BY <2>2 DEF Fact
  <2>4. fact' = [fact EXCEPT !.runs = runs, !.last = last, !.plain = plain]
    BY <2>1, <2>2 DEF Fact
  <2> HIDE DEF runs, last
  <2> QED
    BY <2>2, <2>3, <2>4 DEF Fact
<1>7. oddities' \in Nat
  BY AllowTyped, OddTyped DEF Run, TypeOK
<1> QED
  BY <1>5, <1>6, <1>7 DEF Run, TypeOK, Session

LEMMA FinishTyped ==
  ASSUME TypeOK, NEW stopped \in BOOLEAN, Finish(stopped)
  PROVE  TypeOK'
<1> DEFINE report == [session.report EXCEPT !.exitstatus = ExitStatus(stopped)]
           done == [fact EXCEPT !.plain = @ /\ ~stopped]
<1>1. session \in Session /\ session.report \in Report
  BY SessionTyped DEF Finish
<1>2. report \in Report
  <2>1. ExitStatus(stopped) \in {0, 1, 2, 5}
    BY DEF ExitStatus
  <2> HIDE DEF ExitStatus
  <2> QED
    BY <1>1, <2>1 DEF Report
<1>3. done \in Fact
  <2>1. (fact.plain /\ ~stopped) \in BOOLEAN
    OBVIOUS
  <2> QED
    BY <2>1 DEF TypeOK, Fact
<1>4. session.file \in Files
  BY <1>1 DEF Session
<1>5. /\ reports' = [reports EXCEPT ![session.file] = report]
      /\ truth' = [truth EXCEPT ![session.file] = done]
      /\ session' = NoSession /\ fact' = Nothing
      /\ sessions' = sessions + 1 /\ UNCHANGED tree
  BY DEF Finish
<1> HIDE DEF report, done
<1>6. oddities' \in Nat
  BY AllowTyped, OddTyped DEF Finish, TypeOK
<1> QED
  BY <1>2, <1>3, <1>4, <1>5, <1>6, NothingTyped DEF TypeOK

LEMMA DieTyped == TypeOK /\ Die => TypeOK'
  BY AllowTyped, NothingTyped DEF Die, TypeOK

LEMMA ChangeTyped ==
  ASSUME TypeOK, NEW usual \in BOOLEAN, Change(usual)
  PROVE  fact' \in Fact /\ oddities' \in Nat
<1>1. fact' \in Fact
  BY DEF Change, TypeOK, Fact
<1>2. oddities' \in Nat
  BY AllowTyped, OddTyped DEF Change, TypeOK
<1> QED
  BY <1>1, <1>2

LEMMA EditTyped ==
  ASSUME TypeOK, NEW tests \in Trees, NEW found \in Trees, Edit(tests, found)
  PROVE  TypeOK'
<1>1. tree' = [tree EXCEPT !.content = @ + 1, !.tests = tests, !.found = found]
  BY DEF Edit
<1>2. /\ tests \in [Cases -> Placements] /\ found \in [Cases -> Placements]
      /\ tree.content + 1 \in Nat
  BY EvidenceAssumption DEF TypeOK
<1>3. tree' \in [content : Nat, commit : Nat, tests : [Cases -> Placements],
                found : [Cases -> Placements]]
  BY <1>1, <1>2 DEF TypeOK
<1> QED
  BY <1>3, ChangeTyped DEF Edit, Change, TypeOK

LEMMA LeaveTyped ==
  ASSUME TypeOK, NEW found \in Trees, Leave(found)
  PROVE  TypeOK'
<1>1. found \in [Cases -> Placements]
  BY EvidenceAssumption
<1>2. tree' \in [content : Nat, commit : Nat, tests : [Cases -> Placements],
                found : [Cases -> Placements]]
  BY <1>1 DEF Leave, TypeOK
<1> QED
  BY <1>2, ChangeTyped DEF Leave, Change, TypeOK

LEMMA CommitTyped == TypeOK /\ Commit => TypeOK'
  BY DEF Commit, TypeOK

LEMMA TypeStep == TypeOK /\ [Next]_vars => TypeOK'
<1> SUFFICES ASSUME TypeOK, [Next]_vars PROVE TypeOK'
  OBVIOUS
<1>1. CASE UNCHANGED vars
  BY <1>1 DEF vars, TypeOK
<1> QED
  BY <1>1, StartTyped, CollectTyped, RunTyped, FinishTyped, DieTyped, EditTyped, LeaveTyped,
     CommitTyped
  DEF Next

LEMMA TypeStart == Init => TypeOK
<1> SUFFICES ASSUME Init PROVE TypeOK
  OBVIOUS
<1>1. tree \in [content : Nat, commit : Nat, tests : [Cases -> Placements],
               found : [Cases -> Placements]]
  BY EvidenceAssumption DEF Init
<1> QED
  BY <1>1, NothingTyped DEF Init, TypeOK

\* Every variable of TestEvidence always has its type (pytest_report.py:122-201).
THEOREM TypeCorrect == Spec => []TypeOK
  BY TypeStart, TypeStep, PTL DEF Spec

-----------------------------------------------------------------------------
(* What a report records of what its session did                           *)

\* A case's phases tell how often it was run, and how it ended if it was once.
Recorded(report, f) ==
  \A c \in Cases :
    /\ f.runs[c] = 0 => report.phases[c] = << >>
    /\ f.runs[c] = 1 => report.phases[c] = PhasesOf[f.last[c]]
    /\ f.runs[c] > 1 => HasFailed(report.phases[c])
    /\ f.runs[c] > 0 => report.phases[c] # << >>

RecordInv ==
  /\ session # NoSession => Recorded(session.report, fact)
  /\ \A f \in Files : reports[f] # NoReport => Recorded(reports[f], truth[f])

LEMMA RecordStart == Init => RecordInv
  BY DEF Init, RecordInv

LEMMA RecordRun ==
  ASSUME TypeOK, RecordInv, NEW c \in Cases, NEW fate \in Fates, Run(c, fate)
  PROVE  Recorded(session'.report, fact')
<1>1. session \in Session /\ session.report \in Report /\ fact \in Fact
  BY SessionTyped DEF Run, TypeOK
<1> DEFINE r == session.report
           t == PhasesOf[fate]
<1>2. Recorded(r, fact)
  BY DEF Run, NoSession, RecordInv
<1>3. /\ r.phases \in [Cases -> Seq(Phases)]
      /\ fact.runs \in [Cases -> Nat] /\ fact.last \in [Cases -> Fates]
  BY <1>1 DEF Report, Fact
<1>4. /\ session'.report.phases = [r.phases EXCEPT ![c] = @ \o t]
      /\ fact'.runs = [fact.runs EXCEPT ![c] = @ + 1]
      /\ fact'.last = [fact.last EXCEPT ![c] = fate]
  BY <1>1 DEF Run, Session, Report, Fact
<1>5. t \in Seq(Phases) /\ t # << >>
  BY PhasesTyped
<1>6. fact.runs[c] = 0 \/ fact.last[c] \in Broken
  BY DEF Run
<1> SUFFICES ASSUME NEW d \in Cases
    PROVE  /\ fact'.runs[d] = 0 => session'.report.phases[d] = << >>
           /\ fact'.runs[d] = 1 => session'.report.phases[d] = PhasesOf[fact'.last[d]]
           /\ fact'.runs[d] > 1 => HasFailed(session'.report.phases[d])
           /\ fact'.runs[d] > 0 => session'.report.phases[d] # << >>
  BY DEF Recorded
<1>7. CASE d # c
  BY <1>2, <1>3, <1>4, <1>7 DEF Recorded
<1>8. CASE d = c
  <2> DEFINE s == r.phases[c]
  <2>1. s \in Seq(Phases) /\ fact.runs[c] \in Nat
    BY <1>3
  <2>2. /\ session'.report.phases[d] = s \o t
        /\ fact'.runs[d] = fact.runs[c] + 1 /\ fact'.last[d] = fate
    BY <1>3, <1>4, <1>8
  <2>3. /\ fact.runs[c] = 0 => s = << >>
        /\ fact.runs[c] = 1 => s = PhasesOf[fact.last[c]]
        /\ fact.runs[c] > 1 => HasFailed(s)
    BY <1>2 DEF Recorded
  <2>4. fact.runs[c] > 0 => HasFailed(s)
    BY <1>6, <2>1, <2>3, BrokenFailed
  <2> HIDE DEF s, t
  <2>5. /\ s \o t # << >> /\ (s = << >> => s \o t = t)
        /\ HasFailed(s) => HasFailed(s \o t)
    BY <1>5, <2>1, Appended
  <2>6. s \o t # << >> /\ (fact.runs[c] = 0 => s \o t = t)
        /\ (fact.runs[c] > 0 => HasFailed(s \o t))
    BY <2>3, <2>4, <2>5
  <2>7. CASE fact.runs[c] = 0
    BY <2>1, <2>2, <2>6, <2>7 DEF t
  <2>8. CASE fact.runs[c] > 0
    BY <2>1, <2>2, <2>6, <2>8
  <2> QED
    BY <2>1, <2>7, <2>8
<1> QED
  BY <1>7, <1>8

LEMMA RecordStep == TypeOK /\ RecordInv /\ [Next]_vars => RecordInv'
<1> SUFFICES ASSUME TypeOK, RecordInv, [Next]_vars PROVE RecordInv'
  OBVIOUS
<1>1. ASSUME NEW file \in Files, NEW lane \in Files, NEW config \in {"unit", "default"},
             NEW only \in BOOLEAN, NEW source \in Answers,
             Start(file, lane, config, only, source)
      PROVE  RecordInv'
  <2>1. \A c \in Cases : session'.report.phases[c] = << >> /\ fact'.runs[c] = 0
    BY <1>1 DEF Start, Nothing
  <2> QED
    BY <1>1, <2>1 DEF Start, RecordInv, Recorded
<1>2. ASSUME NEW cases \in SUBSET Cases, NEW selected \in SUBSET Cases,
             Collect(cases, selected)
      PROVE  RecordInv'
  <2>1. session \in Session /\ session.report \in Report /\ fact \in Fact
    BY <1>2, SessionTyped DEF Collect, TypeOK
  <2> DEFINE owners == [c \in Cases |-> IF c \in cases THEN Owner(c) ELSE "none"]
             errors == cases # Collected(session.config)
  <2>2. session' = [session EXCEPT !.pc = "running",
          !.report = [session.report EXCEPT !.errors = errors, !.cases = owners,
                                            !.selected = selected,
                                            !.deselected = cases \ selected]]
    BY <1>2 DEF Collect
  <2> HIDE DEF owners, errors
  <2>3. session'.report.phases = session.report.phases
    BY <2>1, <2>2 DEF Session, Report
  <2>4. fact'.runs = fact.runs /\ fact'.last = fact.last
    BY <1>2, <2>1 DEF Collect, Fact
  <2>5. session # NoSession
    BY <1>2 DEF Collect, NoSession
  <2> QED
    BY <1>2, <2>3, <2>4, <2>5 DEF Collect, RecordInv, Recorded
<1>3. ASSUME NEW c \in Cases, NEW fate \in Fates, Run(c, fate)
      PROVE  RecordInv'
  BY <1>3, RecordRun DEF Run, RecordInv, Recorded
<1>4. ASSUME NEW stopped \in BOOLEAN, Finish(stopped)
      PROVE  RecordInv'
  <2> DEFINE report == [session.report EXCEPT !.exitstatus = ExitStatus(stopped)]
             done == [fact EXCEPT !.plain = @ /\ ~stopped]
  <2>1. /\ session \in Session /\ session.report \in Report /\ fact \in Fact
        /\ session # NoSession
    BY <1>4, SessionTyped DEF Finish, TypeOK, NoSession
  <2>2. /\ report.phases = session.report.phases
        /\ done.runs = fact.runs /\ done.last = fact.last
    BY <2>1 DEF Report, Fact
  <2>3. Recorded(report, done)
    BY <2>1, <2>2 DEF RecordInv, Recorded
  <2> HIDE DEF report, done
  <2>4. /\ reports' = [reports EXCEPT ![session.file] = report]
        /\ truth' = [truth EXCEPT ![session.file] = done]
        /\ session' = NoSession
    BY <1>4 DEF Finish, report, done
  <2>5. \A f \in Files : \/ reports'[f] = report /\ truth'[f] = done
                         \/ reports'[f] = reports[f] /\ truth'[f] = truth[f]
    BY <2>4 DEF TypeOK
  <2> QED
    BY <2>3, <2>4, <2>5 DEF RecordInv
<1>5. CASE Die
  BY <1>5 DEF Die, RecordInv
<1>6. ASSUME NEW usual \in BOOLEAN, Change(usual)
      PROVE  RecordInv'
  <2>1. fact'.runs = fact.runs /\ fact'.last = fact.last
    BY <1>6 DEF Change, TypeOK, Fact
  <2> QED
    BY <1>6, <2>1 DEF Change, RecordInv, Recorded
<1>7. CASE Commit
  BY <1>7 DEF Commit, RecordInv, Recorded
<1>8. CASE UNCHANGED vars
  BY <1>8 DEF vars, RecordInv, Recorded
<1>9. ASSUME NEW tests \in Trees, NEW found \in Trees, Edit(tests, found) \/ Leave(found)
      PROVE  RecordInv'
  BY <1>6, <1>9 DEF Edit, Leave
<1> QED
  BY <1>1, <1>2, <1>3, <1>4, <1>5, <1>7, <1>8, <1>9 DEF Next

-----------------------------------------------------------------------------
(* What the audit concludes from them                                      *)

LEMMA CleanThree ==
  ASSUME NEW phases, Clean(phases)
  PROVE  phases # << >> /\ ~HasFailed(phases)
<1>1. DOMAIN phases = 1 .. 3
  <2>1. DOMAIN [i \in DOMAIN phases |-> phases[i].when] = DOMAIN phases
    OBVIOUS
  <2>2. DOMAIN <<"setup", "call", "teardown">> = 1 .. 3
    OBVIOUS
  <2>3. [i \in DOMAIN phases |-> phases[i].when] = <<"setup", "call", "teardown">>
    BY DEF Clean
  <2> QED
    BY <2>1, <2>2, <2>3
<1>2. phases # << >>
  <2>1. DOMAIN << >> = {}
    OBVIOUS
  <2> QED
    BY <1>1, <2>1
<1> QED
  BY <1>2 DEF Clean, HasFailed

LEMMA AcceptedLanes ==
  ASSUME TypeOK, Accepts
  PROVE  /\ \A f \in Files : reports[f] \in Report
         /\ \A lane \in Lanes : \E f \in Lanes : reports[f].lane = lane
         /\ \A f, g \in Lanes : reports[f].lane \in Lanes
                                /\ (f # g => reports[f].lane # reports[g].lane)
<1>1. \A f \in Files : reports[f] \in Report
  BY DEF TypeOK, Accepts
<1>2. {reports[f].lane : f \in Lanes} = {"unit", "integration"}
  BY DEF Accepts, Lanes
<1>3. {reports["unit"].lane, reports["integration"].lane} = {"unit", "integration"}
  BY <1>2 DEF Lanes
<1> QED
  BY <1>1, <1>2, <1>3 DEF Lanes

LEMMA AcceptedCore == TypeOK /\ RecordInv => AcceptedMeansPassed
<1> SUFFICES ASSUME TypeOK, RecordInv, Accepts, NEW c \in Inventoried
    PROVE  \E f \in Lanes :
             /\ reports[f].lane = inventory.cases[c]
             /\ truth[f].runs[c] = 1 /\ truth[f].last[c] = "passed"
             /\ \A g \in Lanes \ {f} : truth[g].runs[c] = 0
  BY DEF AcceptedMeansPassed
<1>1. c \in Cases /\ inventory.cases[c] \in Lanes
  BY AcceptedLanes DEF Inventoried, inventory, Report, Files
<1>2. PICK f \in Lanes : reports[f].lane = inventory.cases[c]
  BY <1>1, AcceptedLanes
<1>3. c \in Owned(reports[f].lane)
  BY <1>1, <1>2 DEF Owned
<1>4. /\ Clean(reports[f].phases[c])
      /\ \A g \in Lanes : c \notin Owned(reports[g].lane) => reports[g].phases[c] = << >>
  BY <1>1, <1>3 DEF Accepts, LaneOK
<1>5. \A g \in Lanes : Recorded(reports[g], truth[g]) /\ truth[g] \in Fact
  BY DEF Accepts, RecordInv, TypeOK, Files
<1>6. \A g \in Lanes : truth[g].runs[c] \in Nat /\ truth[g].last[c] \in Fates
  BY <1>1, <1>5 DEF Fact
<1>7. truth[f].runs[c] = 1
  BY <1>1, <1>4, <1>5, <1>6, CleanThree DEF Recorded
<1>8. truth[f].last[c] = "passed"
  BY <1>1, <1>4, <1>5, <1>6, <1>7, CleanPassed DEF Recorded
<1>9. ASSUME NEW g \in Lanes \ {f}
      PROVE  truth[g].runs[c] = 0
  <2>1. c \notin Owned(reports[g].lane)
    BY <1>1, <1>2, AcceptedLanes DEF Owned
  <2>2. reports[g].phases[c] = << >>
    BY <1>4, <2>1
  <2> QED
    BY <1>1, <1>5, <1>6, <2>2 DEF Recorded
<1> QED
  BY <1>2, <1>7, <1>8, <1>9

\* If the audit accepts, every inventoried case passed in its own lane, in a
\* single attempt, and ran in no other (audit_test_reports.py:43-81).
THEOREM AcceptanceIsEarned == Spec => []AcceptedMeansPassed
<1>1. Init => TypeOK /\ RecordInv
  BY TypeStart, RecordStart
<1>2. TypeOK /\ RecordInv /\ [Next]_vars => TypeOK' /\ RecordInv'
  BY TypeStep, RecordStep
<1> QED
  BY <1>1, <1>2, AcceptedCore, PTL DEF Spec

-----------------------------------------------------------------------------
(* Which tests a report is about                                           *)

OwnerAt(placement) == IF placement \in {"unit", "misfiled"} THEN "unit" ELSE "integration"

PathOf(config) == IF config = "unit" THEN {"unit", "unmarked"} ELSE Placements \ {"absent"}

\* Without errors a report has all the cases of its tests that a configuration
\* collects; if git answered and the tree was clean, they are those of the commit.
About(report, f) ==
  /\ ~report.errors => \E config \in {"unit", "default"} : \A c \in Cases :
       report.cases[c] = IF f.tests[c] \in PathOf(config) THEN OwnerAt(f.tests[c]) ELSE "none"
  /\ f.content # 0 /\ ~report.source.tracked_dirty => f.content = report.source.commit

\* Unless untracked files had a part in it, f's session found these tests.
OfTracked(f, tests) == truth[f].untracked \/ truth[f].tests = tests

AboutInv ==
  /\ session # NoSession /\ fact.content # 0 =>
       /\ fact.content = tree.content
       /\ ~session.report.source.tracked_dirty => fact.content = session.report.source.commit
  /\ session # NoSession /\ session.pc = "running" =>
       /\ About(session.report, fact)
       /\ fact.content # 0 /\ ~fact.untracked => fact.tests = tree.tests
  /\ \A f \in Files : reports[f] # NoReport => About(reports[f], truth[f])
  /\ \A f \in Files : truth[f].content <= tree.content
  /\ \A f \in Files : truth[f].content # 0 /\ truth[f].content = tree.content =>
                        OfTracked(f, tree.tests)
  /\ \A f, g \in Files : /\ truth[f].content # 0 /\ truth[f].content = truth[g].content
                          /\ ~truth[f].untracked
                          => OfTracked(g, truth[f].tests)

LEMMA AboutStart == Init => AboutInv
<1> SUFFICES ASSUME Init PROVE AboutInv
  OBVIOUS
<1>1. \A f \in Files : truth[f].content = 0
  BY DEF Init, Nothing
<1> QED
  BY <1>1 DEF Init, AboutInv, OfTracked

LEMMA AboutBegun ==
  ASSUME TypeOK, AboutInv, NEW file \in Files, NEW lane \in Files,
         NEW config \in {"unit", "default"}, NEW only \in BOOLEAN, NEW source \in Answers,
         Start(file, lane, config, only, source)
  PROVE  AboutInv'
<1>1. /\ session'.pc = "configured" /\ session'.report.source = source
      /\ UNCHANGED <<tree, reports, truth>>
  BY DEF Start
<1>2. fact'.content = IF source = Revision THEN tree.content ELSE 0
  BY DEF Start, Nothing
<1>3. source = Revision /\ ~source.tracked_dirty => tree.content = source.commit
  <2>1. Revision.tracked_dirty = (tree.content # tree.commit) /\ Revision.commit = tree.commit
    BY DEF Revision
  <2> QED
    BY <2>1
<1> QED
  BY <1>1, <1>2, <1>3 DEF AboutInv, OfTracked

LEMMA AboutCollected ==
  ASSUME TypeOK, AboutInv, NEW cases \in SUBSET Cases, NEW selected \in SUBSET Cases,
         Collect(cases, selected)
  PROVE  AboutInv'
<1>1. session \in Session /\ session.report \in Report /\ fact \in Fact /\ session # NoSession
  BY SessionTyped DEF Collect, TypeOK, NoSession
<1> DEFINE owners == [c \in Cases |-> IF c \in cases THEN Owner(c) ELSE "none"]
           errors == cases # Collected(session.config)
<1>2. session' = [session EXCEPT !.pc = "running",
        !.report = [session.report EXCEPT !.errors = errors, !.cases = owners,
                                          !.selected = selected,
                                          !.deselected = cases \ selected]]
  BY DEF Collect
<1>3. ~errors => \A c \in Cases : owners[c] =
        IF tree.found[c] \in PathOf(session.config) THEN OwnerAt(tree.found[c]) ELSE "none"
  BY DEF Collected, PathOf, Owner, OwnerAt
<1> HIDE DEF owners, errors
<1>4. /\ session'.report.errors = errors /\ session'.report.cases = owners
      /\ session'.report.source = session.report.source
  BY <1>1, <1>2 DEF Session, Report
<1>5. /\ fact'.tests = tree.found /\ fact'.content = fact.content
      /\ ~fact'.untracked => tree.found = tree.tests
  BY <1>1 DEF Collect, Fact
<1>6. session.config \in {"unit", "default"}
  BY <1>1 DEF Session
<1>7. session # NoSession /\ fact.content # 0 =>
        /\ fact.content = tree.content
        /\ ~session.report.source.tracked_dirty => fact.content = session.report.source.commit
  BY DEF AboutInv, OfTracked
<1>8. About(session.report, fact)'
  BY <1>1, <1>3, <1>4, <1>5, <1>6, <1>7 DEF About
<1>9. UNCHANGED <<tree, reports, truth>>
  BY DEF Collect
<1> QED
  BY <1>1, <1>4, <1>5, <1>7, <1>8, <1>9 DEF AboutInv, OfTracked

LEMMA AboutRun ==
  ASSUME TypeOK, AboutInv, NEW c \in Cases, NEW fate \in Fates, Run(c, fate)
  PROVE  AboutInv'
<1>1. session \in Session /\ session.report \in Report /\ fact \in Fact /\ session # NoSession
  BY SessionTyped DEF Run, TypeOK, NoSession
<1>2. /\ session'.report.errors = session.report.errors
      /\ session'.report.cases = session.report.cases
      /\ session'.report.source = session.report.source
      /\ session'.pc = session.pc
  BY <1>1 DEF Run, Session, Report
<1>3. /\ fact'.tests = fact.tests /\ fact'.content = fact.content
      /\ fact'.untracked = fact.untracked
  BY <1>1 DEF Run, Fact
<1>4. session.pc = "running" /\ UNCHANGED <<tree, reports, truth>>
  BY DEF Run
<1> QED
  BY <1>1, <1>2, <1>3, <1>4 DEF AboutInv, About, OfTracked

LEMMA AboutFinished ==
  ASSUME TypeOK, AboutInv, NEW stopped \in BOOLEAN, Finish(stopped)
  PROVE  AboutInv'
<1> DEFINE report == [session.report EXCEPT !.exitstatus = ExitStatus(stopped)]
           done == [fact EXCEPT !.plain = @ /\ ~stopped]
<1>1. /\ session \in Session /\ session.report \in Report /\ fact \in Fact
      /\ session # NoSession
  BY SessionTyped DEF Finish, TypeOK, NoSession
<1>2. /\ report.errors = session.report.errors /\ report.cases = session.report.cases
      /\ report.source = session.report.source
      /\ done.content = fact.content /\ done.tests = fact.tests
      /\ done.untracked = fact.untracked
  BY <1>1 DEF Report, Fact
<1>3. About(session.report, fact)
  BY <1>1 DEF Finish, AboutInv
<1>4. About(report, done)
  BY <1>2, <1>3 DEF About
<1>5. /\ tree.content \in Nat
      /\ done.content # 0 => done.content = tree.content
      /\ done.content # 0 /\ ~done.untracked => done.tests = tree.tests
  BY <1>1, <1>2 DEF Finish, AboutInv, TypeOK
<1> HIDE DEF report, done
<1>6. /\ reports' = [reports EXCEPT ![session.file] = report]
      /\ truth' = [truth EXCEPT ![session.file] = done]
      /\ session' = NoSession /\ tree' = tree
  BY DEF Finish, report, done
<1>7. \A f \in Files : \/ reports'[f] = report /\ truth'[f] = done
                       \/ reports'[f] = reports[f] /\ truth'[f] = truth[f]
  BY <1>6 DEF TypeOK
<1>8. done.content <= tree.content
  BY <1>5
<1> QED
  BY <1>4, <1>5, <1>6, <1>7, <1>8 DEF AboutInv, OfTracked

LEMMA AboutEdited ==
  ASSUME TypeOK, AboutInv, NEW tests \in Trees, NEW found \in Trees, Edit(tests, found)
  PROVE  AboutInv'
<1>1. fact \in Fact /\ tree.content \in Nat /\ \A f \in Files : truth[f].content \in Nat
  BY DEF TypeOK, Fact
<1>2. fact'.content = 0 /\ fact'.tests = fact.tests
  BY <1>1 DEF Edit, Change, Fact
<1>3. tree'.content = tree.content + 1
  BY DEF Edit, TypeOK
<1>4. UNCHANGED <<session, reports, truth>>
  BY DEF Edit, Change
<1>5. \A f \in Files : truth'[f].content < tree'.content
  BY <1>1, <1>3, <1>4 DEF AboutInv
<1>6. session' # NoSession /\ session'.pc = "running" => About(session.report, fact)'
  BY <1>2, <1>4 DEF AboutInv, About
<1>7. \A f \in Files : truth'[f].content <= tree'.content /\ truth'[f].content # tree'.content
  BY <1>1, <1>3, <1>4, <1>5
<1> QED
  BY <1>2, <1>4, <1>6, <1>7 DEF AboutInv, OfTracked

LEMMA AboutLeft ==
  ASSUME TypeOK, AboutInv, NEW found \in Trees, Leave(found)
  PROVE  AboutInv'
<1>1. fact'.content = 0 /\ fact'.tests = fact.tests
  BY DEF Leave, Change, TypeOK, Fact
<1>2. tree'.content = tree.content /\ tree'.tests = tree.tests
  BY DEF Leave, TypeOK
<1>3. UNCHANGED <<session, reports, truth>>
  BY DEF Leave, Change
<1>4. session' # NoSession /\ session'.pc = "running" => About(session.report, fact)'
  BY <1>1, <1>3 DEF AboutInv, About
<1> QED
  BY <1>1, <1>2, <1>3, <1>4 DEF AboutInv, OfTracked, About

LEMMA AboutStep == TypeOK /\ AboutInv /\ [Next]_vars => AboutInv'
<1> SUFFICES ASSUME TypeOK, AboutInv, [Next]_vars PROVE AboutInv'
  OBVIOUS
<1>1. CASE Die
  BY <1>1 DEF Die, AboutInv, OfTracked
<1>2. CASE Commit
  <2>1. tree'.content = tree.content /\ tree'.tests = tree.tests
    BY <1>2 DEF Commit, TypeOK
  <2> QED
    BY <1>2, <2>1 DEF Commit, AboutInv, About, OfTracked
<1>3. CASE UNCHANGED vars
  BY <1>3 DEF vars, AboutInv, About, OfTracked
<1> QED
  BY <1>1, <1>2, <1>3, AboutBegun, AboutCollected, AboutRun, AboutFinished, AboutEdited,
     AboutLeft
  DEF Next

LEMMA CoveredCore == TypeOK /\ AboutInv => AcceptedCoversTree
<1> SUFFICES ASSUME TypeOK, AboutInv, Accepts, ~inventory.source.tracked_dirty,
                    \A f \in Files : truth[f].content # 0 /\ ~truth[f].untracked
    PROVE  /\ \A f \in Files : truth[f].content = inventory.source.commit
           /\ \A c \in Cases : c \in Inventoried <=> truth["inventory"].tests[c] # "absent"
  BY DEF AcceptedCoversTree
<1>1. \A f \in Files : /\ About(reports[f], truth[f])
                       /\ ~reports[f].errors /\ reports[f].source = inventory.source
  BY DEF Accepts, AboutInv, SameRevision
<1>2. \A f \in Files : truth[f].content = inventory.source.commit
  BY <1>1 DEF About
<1> DEFINE tests == truth["inventory"].tests
<1>3. \A f \in Files : truth[f].tests = tests
  BY <1>2 DEF AboutInv, OfTracked, Files
<1>4. \A c \in Cases : tests[c] \in Placements
  BY DEF TypeOK, Fact, Files
<1>5. PICK config \in {"unit", "default"} : \A c \in Cases :
        inventory.cases[c] = IF tests[c] \in PathOf(config) THEN OwnerAt(tests[c]) ELSE "none"
  BY <1>1 DEF About, inventory, Files
<1>6. \A p \in Placements : OwnerAt(p) \in Lanes
  BY DEF OwnerAt, Lanes
<1>7. \A c \in Cases : c \in Inventoried <=> tests[c] \in PathOf(config)
  BY <1>5, <1>4, <1>6 DEF Inventoried, Lanes
<1>8. CASE config = "default"
  BY <1>2, <1>4, <1>7, <1>8 DEF PathOf
<1>9. CASE config = "unit"
  <2>1. PICK f \in Lanes : reports[f].lane = "unit"
    BY AcceptedLanes DEF Lanes
  <2>2. PICK g \in Lanes : reports[g].lane = "integration"
    BY AcceptedLanes DEF Lanes
  <2>3. PICK c \in Cases : inventory.cases[c] = "integration"
    <3>1. Owned("integration") # {}
      BY <2>2 DEF Accepts, LaneOK
    <3> QED
      BY <3>1 DEF Owned
  <2>4. tests[c] = "unmarked"
    BY <1>4, <1>5, <1>9, <2>3 DEF PathOf, OwnerAt
  <2>5. reports[f].cases[c] = "none"
    BY <2>1, <2>3 DEF Accepts, LaneOK, Collection, Owned
  <2>6. reports[f].cases[c] = "integration"
    <3>1. \A other \in {"unit", "default"} : "unmarked" \in PathOf(other)
      BY DEF PathOf, Placements
    <3>2. f \in Files
      BY DEF Files
    <3>3. OwnerAt("unmarked") = "integration"
      BY DEF OwnerAt
    <3> QED
      BY <1>1, <1>3, <2>4, <3>1, <3>2, <3>3 DEF About
  <2> QED
    BY <2>5, <2>6
<1> QED
  BY <1>8, <1>9

\* Accepted reports of a tree that git calls unmodified cover the commit they
\* name: all its tests, in all three sessions, as long as no untracked test or
\* conftest.py had a part in what they collected, which git is not asked
\* (pytest_report.py:54-60; audit_test_reports.py:36-65).
THEOREM AcceptanceCovers == Spec => []AcceptedCoversTree
<1>1. Init => TypeOK /\ AboutInv
  BY TypeStart, AboutStart
<1>2. TypeOK /\ AboutInv /\ [Next]_vars => TypeOK' /\ AboutInv'
  BY TypeStep, AboutStep
<1> QED
  BY <1>1, <1>2, CoveredCore, PTL DEF Spec

-----------------------------------------------------------------------------
(* What the audit must accept                                              *)

\* What a lane of the CI workflow collects of the tests, and what it selects.
Collects(lane, tests) ==
  {c \in Cases : tests[c] \in PathOf(IF lane = "unit" THEN "unit" ELSE "default")}

Selects(lane, tests) ==
  IF lane = "integration" THEN {c \in Collects(lane, tests) : OwnerAt(tests[c]) # "unit"}
  ELSE Collects(lane, tests)

\* A session that was begun as in the workflow, for the report in a file.
BegunAsUsual(report, file) ==
  /\ report.lane = file
  /\ report.collect_only <=> file = "inventory"
  /\ report.source.commit # 0

\* What it collected and selected, and that it ran a case only with success.
DoneAsUsual(report, f, file) ==
  /\ ~report.errors
  /\ \A c \in Cases : report.cases[c] =
       IF c \in Collects(file, f.tests) THEN OwnerAt(f.tests[c]) ELSE "none"
  /\ report.selected = Selects(file, f.tests)
  /\ report.deselected = Collects(file, f.tests) \ Selects(file, f.tests)
  /\ \A c \in Cases : f.runs[c] # 0 =>
       /\ f.runs[c] = 1 /\ f.last[c] = "passed" /\ c \in report.selected
       /\ ~report.collect_only

PlainSession ==
  session # NoSession /\ fact.plain =>
    /\ BegunAsUsual(session.report, session.file)
    /\ session.config = "unit" <=> session.file = "unit"
    /\ fact.content # 0
    /\ session.pc = "configured" => \A c \in Cases : fact.runs[c] = 0
    /\ session.pc = "running" => DoneAsUsual(session.report, fact, session.file)

\* Such a session ends when it has run all it selected.
PlainReport(report, f, file) ==
  /\ BegunAsUsual(report, file) /\ DoneAsUsual(report, f, file)
  /\ f.content # 0
  /\ report.selected # {} => report.exitstatus = 0
  /\ ~report.collect_only => \A c \in report.selected : f.runs[c] # 0

PlainInv ==
  /\ tree.content # 0 /\ tree.commit # 0
  /\ PlainSession
  /\ \A f \in Files : reports[f] # NoReport /\ truth[f].plain =>
       PlainReport(reports[f], truth[f], f)

LEMMA PlainStart == Init => PlainInv
  BY DEF Init, PlainInv, PlainSession

LEMMA NoOdds ==
  ASSUME NEW a \in BOOLEAN, NEW b \in BOOLEAN, NEW c \in BOOLEAN, NEW d \in BOOLEAN,
         Odd(a) + Odd(b) + Odd(c) + Odd(d) = 0
  PROVE  a /\ b /\ c /\ d
<1>1. /\ a \/ Odd(a) = 1
      /\ b \/ Odd(b) = 1
      /\ c \/ Odd(c) = 1
      /\ d \/ Odd(d) = 1
  BY DEF Odd
<1>2. Odd(a) \in Nat /\ Odd(b) \in Nat /\ Odd(c) \in Nat /\ Odd(d) \in Nat
  BY OddTyped
<1>3. Odd(a) # 1 /\ Odd(b) # 1 /\ Odd(c) # 1 /\ Odd(d) # 1
  BY <1>2
<1> QED
  BY <1>1, <1>3

LEMMA PlainBegun ==
  ASSUME TypeOK, PlainInv, NEW file \in Files, NEW lane \in Files,
         NEW config \in {"unit", "default"}, NEW only \in BOOLEAN, NEW source \in Answers,
         Start(file, lane, config, only, source)
  PROVE  PlainSession'
<1> DEFINE odd == Odd(file = lane) + Odd(source = Revision)
                  + Odd(config = "unit" <=> lane = "unit")
                  + Odd(only <=> lane = "inventory")
<1>1. fact' = [Nothing EXCEPT !.content = IF source = Revision THEN tree.content ELSE 0,
                              !.plain = odd = 0]
  BY DEF Start
<1>2. /\ fact'.plain <=> odd = 0
      /\ fact'.content = IF source = Revision THEN tree.content ELSE 0
      /\ \A c \in Cases : fact'.runs[c] = 0
  <2> HIDE DEF odd
  <2> QED
    BY <1>1 DEF Nothing
<1>3. odd = 0 => /\ file = lane /\ source = Revision
                 /\ config = "unit" <=> lane = "unit"
                 /\ only <=> lane = "inventory"
  BY NoOdds
<1> HIDE DEF odd
<1>4. /\ session'.pc = "configured" /\ session'.file = file /\ session'.config = config
      /\ session'.report.lane = lane /\ session'.report.collect_only = only
      /\ session'.report.source = source
  BY DEF Start
<1>5. source = Revision => source.commit # 0 /\ tree.content # 0
  BY DEF Revision, PlainInv
<1> QED
  BY <1>2, <1>3, <1>4, <1>5 DEF PlainSession, BegunAsUsual

LEMMA PlainCollected ==
  ASSUME TypeOK, PlainInv, NEW cases \in SUBSET Cases, NEW selected \in SUBSET Cases,
         Collect(cases, selected)
  PROVE  PlainSession'
<1>1. session \in Session /\ session.report \in Report /\ fact \in Fact /\ session # NoSession
  BY SessionTyped DEF Collect, TypeOK, NoSession
<1> DEFINE owners == [c \in Cases |-> IF c \in cases THEN Owner(c) ELSE "none"]
           all == Collected(session.config)
           errors == cases # all
           usual == cases = all /\ selected = Chosen(session.report.lane, cases)
<1>2. /\ session' = [session EXCEPT !.pc = "running",
           !.report = [session.report EXCEPT !.errors = errors, !.cases = owners,
                                             !.selected = selected,
                                             !.deselected = cases \ selected]]
      /\ fact' = [fact EXCEPT !.tests = tree.found, !.untracked = tree.found # tree.tests,
                              !.plain = @ /\ usual]
  BY DEF Collect
<1>3. SUFFICES ASSUME fact.plain, usual
      PROVE  PlainSession'
  <2>1. fact'.plain <=> fact.plain /\ usual
    <3> HIDE DEF usual
    <3> QED
      BY <1>1, <1>2 DEF Fact
  <2> QED
    BY <2>1 DEF PlainSession
<1> DEFINE file == session.file
<1>4. /\ BegunAsUsual(session.report, file) /\ file \in Files
      /\ session.config = "unit" <=> file = "unit"
      /\ fact.content # 0 /\ \A c \in Cases : fact.runs[c] = 0
  BY <1>1, <1>3 DEF PlainInv, PlainSession, Collect, Session
<1>5. cases = Collects(file, tree.found)
  BY <1>1, <1>3, <1>4 DEF Collects, Collected, PathOf, Session
<1>6. selected = Selects(file, tree.found)
  BY <1>3, <1>4, <1>5 DEF Selects, Chosen, Owner, OwnerAt, BegunAsUsual
<1>7. \A c \in Cases : owners[c] =
        IF c \in Collects(file, tree.found) THEN OwnerAt(tree.found[c]) ELSE "none"
  BY <1>5 DEF Owner, OwnerAt
<1>8. ~errors
  BY <1>3
<1> HIDE DEF owners, errors, usual
<1>9. /\ session'.pc = "running" /\ session'.file = file /\ session'.config = session.config
      /\ session'.report.errors = errors /\ session'.report.cases = owners
      /\ session'.report.selected = selected /\ session'.report.deselected = cases \ selected
      /\ session'.report.lane = session.report.lane
      /\ session'.report.collect_only = session.report.collect_only
      /\ session'.report.source = session.report.source
  BY <1>1, <1>2 DEF Session, Report
<1>10. /\ fact'.tests = tree.found /\ fact'.content = fact.content
       /\ fact'.runs = fact.runs
  BY <1>1, <1>2 DEF Fact
<1>11. BegunAsUsual(session.report, file)'
  BY <1>4, <1>9 DEF BegunAsUsual
<1>12. DoneAsUsual(session.report, fact, file)'
  BY <1>4, <1>5, <1>6, <1>7, <1>8, <1>9, <1>10 DEF DoneAsUsual
<1> QED
  BY <1>4, <1>9, <1>10, <1>11, <1>12 DEF PlainSession

LEMMA PlainRun ==
  ASSUME TypeOK, PlainInv, NEW c \in Cases, NEW fate \in Fates, Run(c, fate)
  PROVE  PlainSession'
<1>1. session \in Session /\ session.report \in Report /\ fact \in Fact /\ session # NoSession
  BY SessionTyped DEF Run, TypeOK, NoSession
<1>2. fact'.plain => fact.plain /\ fate = "passed" /\ fact.runs[c] = 0
  <2>1. fact'.plain => fact.plain /\ fate = "passed"
    BY <1>1 DEF Run, Fact
  <2>2. fact.plain => fact.runs[c] = 0
    BY <1>1 DEF Run, PlainInv, PlainSession, DoneAsUsual, Broken
  <2> QED
    BY <2>1, <2>2
<1>3. SUFFICES ASSUME fact.plain, fate = "passed", fact.runs[c] = 0
      PROVE  PlainSession'
  BY <1>2 DEF PlainSession
<1>4. /\ session'.pc = "running" /\ session'.file = session.file
      /\ session'.config = session.config
      /\ session'.report.errors = session.report.errors
      /\ session'.report.cases = session.report.cases
      /\ session'.report.selected = session.report.selected
      /\ session'.report.deselected = session.report.deselected
      /\ session'.report.lane = session.report.lane
      /\ session'.report.collect_only = session.report.collect_only
      /\ session'.report.source = session.report.source
  BY <1>1 DEF Run, Session, Report
<1>5. fact'.tests = fact.tests /\ fact'.content = fact.content
  BY <1>1 DEF Run, Fact
<1>6. /\ fact'.runs[c] = 1 /\ fact'.last[c] = "passed"
      /\ \A d \in Cases \ {c} : fact'.runs[d] = fact.runs[d] /\ fact'.last[d] = fact.last[d]
  BY <1>1, <1>3 DEF Run, Fact
<1>7. session.pc = "running" /\ c \in session.report.selected /\ ~session.report.collect_only
  BY DEF Run
<1>8. /\ BegunAsUsual(session.report, session.file)
      /\ DoneAsUsual(session.report, fact, session.file)
      /\ session.config = "unit" <=> session.file = "unit"
      /\ fact.content # 0
  BY <1>1, <1>3, <1>7 DEF PlainInv, PlainSession
<1>9. BegunAsUsual(session.report, session.file)'
  BY <1>4, <1>8 DEF BegunAsUsual
<1>10. \A d \in Cases : fact'.runs[d] # 0 =>
         /\ fact'.runs[d] = 1 /\ fact'.last[d] = "passed" /\ d \in session.report.selected
         /\ ~session.report.collect_only
  BY <1>6, <1>7, <1>8 DEF DoneAsUsual
<1>11. DoneAsUsual(session.report, fact, session.file)'
  BY <1>4, <1>5, <1>8, <1>10 DEF DoneAsUsual
<1> QED
  BY <1>4, <1>5, <1>8, <1>9, <1>11 DEF PlainSession

LEMMA PlainFinished ==
  ASSUME TypeOK, PlainInv, NEW stopped \in BOOLEAN, Finish(stopped)
  PROVE  \A f \in Files : reports'[f] # NoReport /\ truth'[f].plain =>
           PlainReport(reports'[f], truth'[f], f)
<1> DEFINE report == [session.report EXCEPT !.exitstatus = ExitStatus(stopped)]
           done == [fact EXCEPT !.plain = @ /\ ~stopped]
           file == session.file
<1>1. /\ session \in Session /\ session.report \in Report /\ fact \in Fact
      /\ session # NoSession /\ session.pc = "running" /\ file \in Files
  BY SessionTyped DEF Finish, TypeOK, NoSession, Session
<1>2. /\ report.lane = session.report.lane /\ report.source = session.report.source
      /\ report.collect_only = session.report.collect_only
      /\ report.errors = session.report.errors /\ report.cases = session.report.cases
      /\ report.selected = session.report.selected
      /\ report.deselected = session.report.deselected
      /\ report.exitstatus = ExitStatus(stopped)
  BY <1>1 DEF Report
<1>3. /\ done.runs = fact.runs /\ done.last = fact.last /\ done.tests = fact.tests
      /\ done.content = fact.content
      /\ done.plain => fact.plain /\ ~stopped
  BY <1>1 DEF Fact
<1>4. ASSUME done.plain
      PROVE  PlainReport(report, done, file)
  <2>1. fact.plain /\ ~stopped
    BY <1>3, <1>4
  <2>2. /\ BegunAsUsual(session.report, file) /\ DoneAsUsual(session.report, fact, file)
        /\ fact.content # 0
    BY <1>1, <2>1 DEF PlainInv, PlainSession
  <2>3. Ran(Broken) = {}
    <3>1. \A c \in Cases : fact.runs[c] > 0 => fact.runs[c] # 0
      BY <1>1 DEF Fact
    <3> QED
      BY <2>2, <3>1 DEF Ran, Broken, DoneAsUsual
  <2>4. session.report.selected # {} => ExitStatus(stopped) = 0
    BY <2>1, <2>2, <2>3 DEF ExitStatus, DoneAsUsual
  <2>5. ~session.report.collect_only => \A c \in session.report.selected : fact.runs[c] # 0
    <3>1. ~session.report.collect_only => session.report.selected \subseteq Ran(Fates)
      BY <2>1, <2>2 DEF Finish, DoneAsUsual
    <3>2. \A c \in Ran(Fates) : fact.runs[c] # 0
      BY <1>1 DEF Ran, Fact
    <3> QED
      BY <3>1, <3>2
  <2> HIDE DEF report, done, file
  <2>6. BegunAsUsual(report, file) /\ DoneAsUsual(report, done, file)
    BY <1>2, <1>3, <2>2 DEF BegunAsUsual, DoneAsUsual
  <2> QED
    BY <1>2, <1>3, <2>2, <2>4, <2>5, <2>6 DEF PlainReport
<1>5. /\ reports' = [reports EXCEPT ![file] = report]
      /\ truth' = [truth EXCEPT ![file] = done]
  BY DEF Finish
<1> HIDE DEF report, done
<1>6. \A f \in Files : \/ f = file /\ reports'[f] = report /\ truth'[f] = done
                       \/ reports'[f] = reports[f] /\ truth'[f] = truth[f]
  BY <1>1, <1>5 DEF TypeOK
<1> HIDE DEF file
<1> QED
  BY <1>4, <1>6 DEF PlainInv

\* Who changes the tree, and who writes reports.
LEMMA Untouched ==
  ASSUME [Next]_vars
  PROVE  /\ \/ UNCHANGED tree \/ Commit
            \/ \E tests, found \in Trees : Edit(tests, found)
            \/ \E found \in Trees : Leave(found)
         /\ UNCHANGED <<reports, truth>> \/ \E stopped \in BOOLEAN : Finish(stopped)
<1> DEFINE Goal ==
      /\ \/ UNCHANGED tree \/ Commit
         \/ \E tests, found \in Trees : Edit(tests, found)
         \/ \E found \in Trees : Leave(found)
      /\ UNCHANGED <<reports, truth>> \/ \E stopped \in BOOLEAN : Finish(stopped)
<1>1. ASSUME UNCHANGED <<tree, reports, truth>> PROVE Goal
  BY <1>1
<1>2. ASSUME NEW file \in Files, NEW lane \in Files, NEW config \in {"unit", "default"},
             NEW only \in BOOLEAN, NEW source \in Answers,
             Start(file, lane, config, only, source)
      PROVE  Goal
  BY <1>1, <1>2 DEF Start
<1>3. ASSUME NEW cases \in SUBSET Cases, NEW selected \in SUBSET Cases,
             Collect(cases, selected)
      PROVE  Goal
  BY <1>1, <1>3 DEF Collect
<1>4. ASSUME NEW c \in Cases, NEW fate \in Fates, Run(c, fate)
      PROVE  Goal
  BY <1>1, <1>4 DEF Run
<1>5. ASSUME NEW stopped \in BOOLEAN, Finish(stopped)
      PROVE  Goal
  <2>1. UNCHANGED tree
    BY <1>5 DEF Finish
  <2> QED
    BY <1>5, <2>1
<1>6. ASSUME Die PROVE Goal
  BY <1>1, <1>6 DEF Die
<1>7. ASSUME NEW tests \in Trees, NEW found \in Trees, Edit(tests, found) \/ Leave(found)
      PROVE  Goal
  <2>1. UNCHANGED <<reports, truth>>
    BY <1>7 DEF Edit, Leave, Change
  <2> QED
    BY <1>7, <2>1
<1>8. ASSUME Commit PROVE Goal
  <2>1. UNCHANGED <<reports, truth>>
    BY <1>8 DEF Commit
  <2> QED
    BY <1>8, <2>1
<1>9. ASSUME UNCHANGED vars PROVE Goal
  BY <1>1, <1>9 DEF vars
<1> HIDE DEF Goal
<1>10. Goal
  BY <1>2, <1>3, <1>4, <1>5, <1>6, <1>7, <1>8, <1>9 DEF Next
<1> QED
  BY <1>10 DEF Goal

LEMMA PlainStep == TypeOK /\ PlainInv /\ [Next]_vars => PlainInv'
<1> SUFFICES ASSUME TypeOK, PlainInv, [Next]_vars PROVE PlainInv'
  OBVIOUS
<1>1. tree'.content # 0 /\ tree'.commit # 0
  <2>1. tree.content \in Nat /\ tree.content + 1 # 0 /\ tree.content # 0 /\ tree.commit # 0
    BY DEF TypeOK, PlainInv
  <2>2. ASSUME NEW tests \in Trees, NEW found \in Trees, Edit(tests, found) \/ Leave(found)
        PROVE  tree'.content # 0 /\ tree'.commit # 0
    BY <2>1, <2>2 DEF Edit, Leave, TypeOK
  <2>3. CASE Commit
    BY <2>1, <2>3 DEF Commit, TypeOK
  <2>4. CASE UNCHANGED tree
    BY <2>1, <2>4
  <2> QED
    BY <2>2, <2>3, <2>4, Untouched
<1>2. ASSUME UNCHANGED <<reports, truth>>
      PROVE  \A f \in Files : reports'[f] # NoReport /\ truth'[f].plain =>
               PlainReport(reports'[f], truth'[f], f)
  BY <1>2 DEF PlainInv
<1>3. CASE session' = NoSession
  <2>1. PlainSession'
    BY <1>3 DEF PlainSession
  <2>2. CASE UNCHANGED <<reports, truth>>
    BY <1>1, <1>2, <2>1, <2>2 DEF PlainInv
  <2>3. ASSUME NEW stopped \in BOOLEAN, Finish(stopped)
        PROVE  PlainInv'
    BY <1>1, <2>1, <2>3, PlainFinished DEF PlainInv
  <2> QED
    BY <2>2, <2>3, Untouched
<1>4. ASSUME PlainSession', UNCHANGED <<reports, truth>>
      PROVE  PlainInv'
  BY <1>1, <1>2, <1>4 DEF PlainInv
<1>5. ASSUME NEW tests \in Trees, NEW found \in Trees, Edit(tests, found) \/ Leave(found)
      PROVE  PlainInv'
  <2>1. ~fact'.plain
    BY <1>5 DEF Edit, Leave, Change, TypeOK, Fact
  <2> QED
    BY <1>4, <1>5, <2>1 DEF Edit, Leave, Change, PlainSession
<1>6. CASE UNCHANGED <<session, fact, reports, truth>>
  <2>1. PlainSession'
    BY <1>6 DEF PlainInv, PlainSession, BegunAsUsual, DoneAsUsual
  <2> QED
    BY <1>4, <1>6, <2>1
<1>7. ASSUME NEW file \in Files, NEW lane \in Files, NEW config \in {"unit", "default"},
             NEW only \in BOOLEAN, NEW source \in Answers,
             Start(file, lane, config, only, source)
      PROVE  PlainInv'
  <2>1. UNCHANGED <<reports, truth>>
    BY <1>7 DEF Start
  <2> QED
    BY <1>4, <1>7, <2>1, PlainBegun
<1>8. ASSUME NEW cases \in SUBSET Cases, NEW selected \in SUBSET Cases,
             Collect(cases, selected)
      PROVE  PlainInv'
  <2>1. UNCHANGED <<reports, truth>>
    BY <1>8 DEF Collect
  <2> QED
    BY <1>4, <1>8, <2>1, PlainCollected
<1>9. ASSUME NEW c \in Cases, NEW fate \in Fates, Run(c, fate)
      PROVE  PlainInv'
  <2>1. UNCHANGED <<reports, truth>>
    BY <1>9 DEF Run
  <2> QED
    BY <1>4, <1>9, <2>1, PlainRun
<1> QED
  BY <1>3, <1>5, <1>6, <1>7, <1>8, <1>9 DEF Next, Finish, Die, Commit, vars

LEMMA PassedIsClean ==
  PhasesOf["passed"] # << >> /\ Clean(PhasesOf["passed"])
<1> DEFINE s == PhasesOf["passed"]
<1>1. s = <<SetUp, Call("passed"), TearDown>>
  BY Table
<1>2. /\ SetUp.when = "setup" /\ SetUp.outcome = "passed" /\ ~SetUp.wasxfail
      /\ Call("passed").when = "call" /\ Call("passed").outcome = "passed"
      /\ ~Call("passed").wasxfail
      /\ TearDown.when = "teardown" /\ TearDown.outcome = "passed" /\ ~TearDown.wasxfail
  BY DEF SetUp, Call, TearDown, Phase
<1>3. \A a, b, c : /\ DOMAIN <<a, b, c>> = 1 .. 3 /\ <<a, b, c>> # << >>
                   /\ <<a, b, c>>[1] = a /\ <<a, b, c>>[2] = b /\ <<a, b, c>>[3] = c
  OBVIOUS
<1> HIDE DEF s
<1>4. /\ DOMAIN s = 1 .. 3 /\ s # << >>
      /\ s[1] = SetUp /\ s[2] = Call("passed") /\ s[3] = TearDown
  BY <1>1, <1>3
<1>5. \A i \in 1 .. 3 : i = 1 \/ i = 2 \/ i = 3
  OBVIOUS
<1>6. [i \in 1 .. 3 |-> s[i].when] = <<"setup", "call", "teardown">>
  BY <1>2, <1>4
<1>7. \A i \in 1 .. 3 : s[i].outcome = "passed" /\ ~s[i].wasxfail
  BY <1>2, <1>4, <1>5
<1>8. Clean(s)
  BY <1>4, <1>6, <1>7 DEF Clean
<1> QED
  BY <1>4, <1>8 DEF s

\* The report of a plain lane is what the audit asks of it, when the inventory has
\* all tests and the tests of both reports are the same and in their places.
LEMMA LaneAccepted ==
  ASSUME NEW f \in Lanes, NEW r \in Report, NEW t \in Fact, NEW tests,
         PlainReport(r, t, f), Recorded(r, t), t.tests = tests,
         \A c \in Cases : tests[c] \in {"unit", "integration", "absent"},
         \A lane \in Lanes : \E c \in Cases : tests[c] = lane,
         Inventoried = {c \in Cases : tests[c] # "absent"},
         \A lane \in Lanes : Owned(lane) = {c \in Cases : tests[c] = lane}
  PROVE  r.lane = f /\ LaneOK(r)
<1>1. PlainReport(r, t, f) /\ Recorded(r, t) /\ r \in Report
  OBVIOUS
<1>2. r.lane = f /\ ~r.collect_only
  BY <1>1 DEF PlainReport, BegunAsUsual, Lanes
<1>3. t.tests = tests
  OBVIOUS
<1>4. \A c \in Cases : tests[c] \in {"unit", "integration", "absent"}
  OBVIOUS
<1>5. OwnerAt("unit") = "unit" /\ OwnerAt("integration") = "integration"
  BY DEF OwnerAt
<1>6. \A lane \in Lanes : Owned(lane) = {c \in Cases : tests[c] = lane}
  OBVIOUS
<1>7. Inventoried = {c \in Cases : tests[c] # "absent"}
  OBVIOUS
<1>8. Collects(f, tests) = Collection(f)
  <2>1. Collects("unit", tests) = Owned("unit")
    BY <1>4, <1>6 DEF Collects, PathOf, Lanes
  <2>2. Collects("integration", tests) = Inventoried
    BY <1>4, <1>7 DEF Collects, PathOf, Placements
  <2> QED
    BY <2>1, <2>2 DEF Collection, Lanes
<1>9. Selects(f, tests) = Owned(f)
  <2>1. CASE f = "unit"
    BY <1>8, <2>1 DEF Selects, Collection
  <2>2. CASE f = "integration"
    BY <1>4, <1>6, <1>7, <1>8, <2>2 DEF Selects, Collection, OwnerAt, Lanes
  <2> QED
    BY <2>1, <2>2 DEF Lanes
<1>10. r.cases = [c \in Cases |-> IF c \in Collection(f) THEN inventory.cases[c] ELSE "none"]
  <2>1. r.cases \in [Cases -> Lanes \cup {"none"}] /\ DoneAsUsual(r, t, f)
    BY <1>1 DEF Report, PlainReport
  <2>2. ASSUME NEW c \in Cases, c \in Collection(f)
        PROVE  r.cases[c] = inventory.cases[c]
    <3>1. tests[c] \in Lanes
      BY <1>4, <1>6, <1>7, <2>2 DEF Collection, Lanes
    <3>2. inventory.cases[c] = tests[c]
      BY <1>6, <3>1 DEF Owned
    <3>3. r.cases[c] = OwnerAt(tests[c])
      BY <1>3, <1>8, <2>1, <2>2 DEF DoneAsUsual
    <3> QED
      BY <1>5, <3>1, <3>2, <3>3 DEF Lanes
  <2>3. ASSUME NEW c \in Cases, c \notin Collection(f)
        PROVE  r.cases[c] = "none"
    BY <1>3, <1>8, <2>1, <2>3 DEF DoneAsUsual
  <2> QED
    BY <2>1, <2>2, <2>3
<1>11. r.selected = Owned(f) /\ Owned(f) # {}
  BY <1>1, <1>3, <1>6, <1>9 DEF PlainReport, DoneAsUsual
<1>12. r.exitstatus = 0
  BY <1>1, <1>11 DEF PlainReport
<1>13. \A c \in Owned(f) : c \in Cases /\ t.runs[c] = 1 /\ t.last[c] = "passed"
  <2>1. \A c \in Owned(f) : c \in Cases /\ t.runs[c] # 0
    BY <1>1, <1>2, <1>11 DEF PlainReport, Owned
  <2> QED
    BY <1>1, <2>1 DEF PlainReport, DoneAsUsual
<1>14. ASSUME NEW c \in Owned(f)
       PROVE  r.phases[c] = PhasesOf["passed"]
  BY <1>1, <1>13 DEF Recorded
<1>15. \A c \in Cases : c \notin Owned(f) => r.phases[c] = << >>
  BY <1>1, <1>11 DEF PlainReport, DoneAsUsual, Recorded
<1>16. {c \in Cases : r.phases[c] # << >>} = Owned(f)
  BY <1>6, <1>14, <1>15, PassedIsClean
<1>17. LaneOK(r)
  BY <1>2, <1>10, <1>11, <1>12, <1>14, <1>16, PassedIsClean DEF LaneOK
<1> QED
  BY <1>2, <1>17

LEMMA CleanCore == TypeOK /\ RecordInv /\ PlainInv => CleanRunAccepted
<1> DEFINE tests == truth["inventory"].tests
<1>1. SUFFICES
        ASSUME TypeOK, RecordInv, PlainInv,
               \A f \in Files : reports[f] # NoReport /\ truth[f].plain,
               \A f \in Files : reports[f].source = inventory.source /\ truth[f].tests = tests,
               \A c \in Cases : tests[c] \notin {"unmarked", "misfiled"},
               \A lane \in Lanes : \E c \in Cases : tests[c] = lane
        PROVE  Accepts
  BY DEF CleanRunAccepted
<1>2. \A f \in Files : /\ reports[f] \in Report /\ truth[f] \in Fact
                       /\ reports[f] # NoReport /\ reports[f].source = inventory.source
                       /\ PlainReport(reports[f], truth[f], f)
                       /\ Recorded(reports[f], truth[f])
  BY <1>1 DEF PlainInv, RecordInv, TypeOK
<1>3. \A f \in Files : truth[f].tests = tests
  BY <1>1
<1>4. \A c \in Cases : tests[c] \in {"unit", "integration", "absent"}
  <2>1. tests \in [Cases -> Placements]
    BY <1>2 DEF Fact, Files
  <2> QED
    BY <1>1, <2>1 DEF Placements
<1>5. /\ inventory \in Report /\ truth["inventory"].tests = tests
      /\ PlainReport(inventory, truth["inventory"], "inventory")
      /\ \A lane \in Lanes : \E c \in Cases : tests[c] = lane
  BY <1>1, <1>2 DEF inventory, Files
<1> HIDE DEF tests
<1>6. /\ Collects("inventory", tests) = {c \in Cases : tests[c] # "absent"}
      /\ Selects("inventory", tests) = Collects("inventory", tests)
  <2>1. \A c \in Cases : tests[c] \in PathOf("default") <=> tests[c] # "absent"
    BY <1>4 DEF PathOf, Placements
  <2> QED
    BY <2>1 DEF Collects, Selects
<1>7. /\ Inventoried = {c \in Cases : tests[c] # "absent"}
      /\ \A lane \in Lanes : Owned(lane) = {c \in Cases : tests[c] = lane}
  <2>1. ASSUME NEW c \in Cases
        PROVE  IF tests[c] = "absent" THEN inventory.cases[c] = "none"
               ELSE inventory.cases[c] = tests[c] /\ tests[c] \in Lanes
    <3>1. inventory.cases[c] = IF tests[c] # "absent" THEN OwnerAt(tests[c]) ELSE "none"
      BY <1>5, <1>6 DEF PlainReport, DoneAsUsual
    <3> QED
      BY <1>4, <3>1 DEF OwnerAt, Lanes
  <2>2. \A c \in Cases : inventory.cases[c] # "none" <=> tests[c] # "absent"
    BY <2>1 DEF Lanes
  <2>3. \A lane \in Lanes : \A c \in Cases : inventory.cases[c] = lane <=> tests[c] = lane
    BY <2>1 DEF Lanes
  <2> QED
    BY <2>2, <2>3 DEF Inventoried, Owned
<1>8. \A f \in Lanes : reports[f].lane = f /\ LaneOK(reports[f])
  BY <1>2, <1>3, <1>4, <1>5, <1>7, LaneAccepted DEF Files
<1>9. Inventoried = Collects("inventory", tests)
  BY <1>6, <1>7
<1>10. Inventoried # {}
  <2>1. PICK c \in Cases : tests[c] = "unit"
    BY <1>5 DEF Lanes
  <2> QED
    BY <1>6, <1>9, <2>1
<1>11. InventoryOK
  <2>1. inventory.selected = Inventoried /\ inventory.deselected = {}
    BY <1>5, <1>6, <1>9 DEF PlainReport, DoneAsUsual
  <2>2. /\ inventory.lane = "inventory" /\ inventory.collect_only
        /\ inventory.source.commit # 0 /\ inventory.exitstatus = 0
    BY <1>5, <1>10, <2>1 DEF PlainReport, BegunAsUsual
  <2> QED
    BY <1>10, <2>1, <2>2 DEF InventoryOK
<1>12. \A f \in Files : SameRevision(reports[f])
  BY <1>2 DEF SameRevision, PlainReport, DoneAsUsual
<1>13. {reports[f].lane : f \in Lanes} = Lanes
  BY <1>8
<1> QED
  BY <1>2, <1>8, <1>11, <1>12, <1>13 DEF Accepts

\* Three sessions as CI runs them, of one revision whose tests are in their
\* places, and in which all pass, are accepted (audit_test_reports.py:20-82).
THEOREM CleanRunsAccepted == Spec => []CleanRunAccepted
<1>1. Init => TypeOK /\ RecordInv /\ PlainInv
  BY TypeStart, RecordStart, PlainStart
<1>2. TypeOK /\ RecordInv /\ PlainInv /\ [Next]_vars =>
        TypeOK' /\ RecordInv' /\ PlainInv'
  BY TypeStep, RecordStep, PlainStep
<1> QED
  BY <1>1, <1>2, CleanCore, PTL DEF Spec

=============================================================================
