---------------------------- MODULE Build_proofs ----------------------------
(***************************************************************************)
(* Whatever the jobs, the edits and the builds that fail in between: a     *)
(* successful build is current, no binary mixes two versions of a source,  *)
(* and no unit is extracted without need.                                  *)
(*                                                                         *)
(* The argument has two invariants.  TInv holds of every build: what       *)
(* make's own state says (Phases), that nothing is ahead of the sources    *)
(* (Dated), that config.mk is what cosim.json says while make runs         *)
(* (Inputs), and that a current output of an extraction cannot be found    *)
(* out of date (Extractions).  CInv says why make's choice can be trusted: *)
(* a target with sound prerequisites none of which is newer is sound       *)
(* itself (Trusted).  It is carried along the order make builds in: what   *)
(* feeds a rule is sound when the rule is reached, by going through the    *)
(* rules one by one (Prepared).  CInv needs two hypotheses (Told) which    *)
(* the makefiles do not ensure: see BuildFrequency.cfg for the first.      *)
(***************************************************************************)
EXTENDS Build, FiniteSetTheorems, SequenceTheorems, TLAPS

----------------------------------------------------------------------------
(* The tables of the rules. *)

LEMMA RuleNames ==
  Rules = {"lower", "extractA", "arcilate", "genArc", "compileGen", "compileA", "linkA",
           "extractV", "split", "verilate", "compileV", "linkV", "genSim"}
BY DEF Rules, Targets

LEMMA TargetTable ==
  /\ Targets["lower"] = {"design"}
  /\ Targets["extractA"] = {"hwA"} /\ Targets["arcilate"] = {"libA", "stateA"}
  /\ Targets["genArc"] = {"genA"} /\ Targets["compileGen"] = {"genobj"}
  /\ Targets["compileA"] = {"simoA"} /\ Targets["linkA"] = {"simA"}
  /\ Targets["extractV"] = {"hwV", "stateV"} /\ Targets["split"] = {"vsrc"}
  /\ Targets["verilate"] = {"libV"} /\ Targets["compileV"] = {"simoV"}
  /\ Targets["linkV"] = {"simV"} /\ Targets["genSim"] = {"simcpp"}
BY DEF Targets

LEMMA FileNames ==
  Files = {"input", "json", "config", "design", "hwA", "libA", "stateA", "genA", "genobj",
           "simoA", "simA", "hwV", "stateV", "vsrc", "libV", "simoV", "simV", "simcpp",
           "wrapper"}
<1>1. UNION {Targets[r] : r \in Rules} =
        {"design", "hwA", "libA", "stateA", "genA", "genobj",
           "simoA", "simA", "hwV", "stateV", "vsrc", "libV", "simoV", "simV", "simcpp"}
  BY RuleNames, TargetTable
<1> QED
  BY <1>1 DEF Files, Sources, Built

LEMMA NeedTable ==
  ASSUME NEW b \in Backends
  PROVE
  /\ Prerequisites[b]["lower"] = {"input"}
  /\ Prerequisites[b]["extractA"] = {"design", "config"}
  /\ Prerequisites[b]["arcilate"] = {"hwA"}
  /\ Prerequisites[b]["genArc"] = {"stateA"}
  /\ Prerequisites[b]["compileGen"] = {"genA"}
  /\ Prerequisites[b]["compileA"] = {"simcpp", "genA"}
  /\ Prerequisites[b]["linkA"] = {"simoA", "genobj", "libA"}
  /\ Prerequisites[b]["extractV"] = {"design", "config"}
  /\ Prerequisites[b]["split"] = {"hwV"}
  /\ Prerequisites[b]["verilate"] = {"vsrc"}
  /\ Prerequisites[b]["compileV"] = {"simcpp", "libV"}
  /\ Prerequisites[b]["linkV"] = {"simoV", "libV"}
  /\ Prerequisites[b]["genSim"] = {State(b)}
BY DEF Prerequisites, PrerequisiteTable

LEMMA StateNames == State("arcilator") = "stateA" /\ State("verilator") = "stateV"
BY DEF State

\* The rules' targets are distinct files, and no rule needs what it makes.
LEMMA OneMaker ==
  /\ \A r, q \in Rules : r # q => Targets[r] \cap Targets[q] = {}
  /\ \A b \in Backends, r \in Rules : Prerequisites[b][r] \cap Targets[r] = {}
  /\ \A r \in Rules : Targets[r] \subseteq Files
  /\ \A b \in Backends, r \in Rules : Prerequisites[b][r] \subseteq Files
<1>1. \A r, q \in Rules : r # q => Targets[r] \cap Targets[q] = {}
  BY RuleNames, TargetTable
<1>2. \A b \in Backends, r \in Rules : Prerequisites[b][r] \cap Targets[r] = {}
  BY RuleNames, TargetTable, NeedTable DEF State
<1>3. \A r \in Rules : Targets[r] \subseteq Files
  BY DEF Files, Built
<1>4. \A b \in Backends, r \in Rules : Prerequisites[b][r] \subseteq Files
  BY RuleNames, NeedTable, FileNames DEF State
<1> QED
  BY <1>1, <1>2, <1>3, <1>4

LEMMA EdgePairs ==
  ASSUME NEW b \in Backends, NEW r \in Rules, NEW p \in Prerequisites[b][r], NEW t \in Targets[r]
  PROVE  <<p, t>> \in Edges
<1>1. <<p, t>> \in Prerequisites[b][r] \X Targets[r]
  OBVIOUS
<1>2. <<p, t>> \in UNION {Prerequisites[b][q] \X Targets[q] : q \in Rules}
  BY <1>1
<1> QED
  BY <1>2 DEF Edges

\* What is made before r: the rules feeding it, and what is made before those.
LEMMA BeforeClosed ==
  ASSUME NEW b \in Backends, NEW r \in Rules
  PROVE  /\ Before[b][r] \subseteq Rules
         /\ Feeding(b, r) \subseteq Before[b][r]
         /\ \A q \in Before[b][r] : Before[b][q] \subseteq Before[b][r]
<1> DEFINE closed == {S \in SUBSET Rules : \A s \in S : Feeding(b, s) \subseteq S}
           before(s) == {q \in Rules : \A S \in closed : Feeding(b, s) \subseteq S => q \in S}
<1>1. \A s \in Rules : Before[b][s] = before(s)
  BY DEF Before
<1>2. \A s \in Rules : Feeding(b, s) \subseteq Rules
  BY RuleNames DEF Feeding
<1>3. Feeding(b, r) \subseteq before(r)
  BY <1>2
<1>4. \A S \in closed : Feeding(b, r) \subseteq S => before(r) \subseteq S
  OBVIOUS
<1>5. ASSUME NEW q \in before(r)
      PROVE  before(q) \subseteq before(r)
  <2> SUFFICES ASSUME NEW s \in before(q), NEW S \in closed, Feeding(b, r) \subseteq S
               PROVE  s \in S
    OBVIOUS
  <2>1. q \in S
    BY <1>5
  <2>2. Feeding(b, q) \subseteq S
    BY <2>1
  <2> QED
    BY <2>2
<1> QED
  BY <1>1, <1>3, <1>5

\* The rules feeding each rule that a unit's make runs.
LEMMA FeedTable ==
  ASSUME NEW b \in Backends
  PROVE
  /\ \A r \in Rules \ {"lower"} : "lower" \in Feeding(b, r)
  /\ "extractA" \in Feeding(b, "arcilate")
  /\ "arcilate" \in Feeding(b, "genArc")
  /\ "genArc" \in Feeding(b, "compileGen")
  /\ {"genSim", "genArc"} \subseteq Feeding(b, "compileA")
  /\ {"compileA", "compileGen", "arcilate"} \subseteq Feeding(b, "linkA")
  /\ "extractV" \in Feeding(b, "split")
  /\ "split" \in Feeding(b, "verilate")
  /\ {"genSim", "verilate"} \subseteq Feeding(b, "compileV")
  /\ {"compileV", "verilate"} \subseteq Feeding(b, "linkV")
  /\ (IF b = "arcilator" THEN "arcilate" ELSE "extractV") \in Feeding(b, "genSim")
BY RuleNames, TargetTable, NeedTable DEF Feeding, State

----------------------------------------------------------------------------
(* What a file has to hold: the facets it is made from, at their present        *)
(* version.                                                                     *)

Unit == {"logic", "ports", "decl"}

From(f) == CASE f \in {"input", "design"} -> {"logic", "ports"}
             [] f = "config" -> {"decl"}
             [] f = "json" -> {"decl", "freq"}
             [] f = "simcpp" -> {"ports", "decl", "freq"}
             [] f = "wrapper" -> {"ports", "decl"}
             [] f \in {"simoA", "simoV", "simA", "simV"} -> Facets
             [] OTHER -> Unit

Goal(f) == Holding(From(f))
Current(f) == file[f] = Goal(f)
Sound(f) == file[f] = Goal(f) \/ file[f] = Broken

\* The files codegen writes, and the plans it may be at in `emitted`.
Written == {"genA", "wrapper", "simcpp"}
Listings == {<<"genA", "wrapper", "simcpp">>, <<"wrapper", "simcpp">>, <<"simcpp">>}
Plans == {<<>>} \cup Listings
         \cup {<<s, "genA", "wrapper", "simcpp">> : s \in {"changed", "open"}}
         \cup {<<s, "wrapper", "simcpp">> : s \in {"changed", "open"}}
         \cup {<<s, "simcpp">> : s \in {"changed", "open"}}

Typing ==
  /\ src \in [Facets -> Versions] /\ backends \in BackendLists
  /\ file \in [Files -> Content \cup {Absent, Broken}]
  /\ newer \subseteq Edges
  /\ make \in {"off", "on", "failing"}
  /\ job \in [Rules -> {"idle", "waiting", "running", "done"}]
  /\ due \subseteq Codegen
  /\ got \in [Rules -> Content \cup {Absent, Broken}]
  /\ emitted \in [Codegen -> Plans]
  /\ ok \in BOOLEAN /\ failures \in Nat

LEMMA FirstIsBackend == ASSUME Typing PROVE First \in Backends
<1>1. backends \in Seq({"arcilator", "verilator"}) /\ backends # <<>>
  BY BuildAssumption DEF Typing
<1> QED
  BY <1>1 DEF First, Backends

LEMMA FacetNames == Facets = {"logic", "ports", "decl", "freq"}
BY DEF Facets

LEMMA HoldingContent ==
  ASSUME src \in [Facets -> Versions], NEW fs
  PROVE  /\ Holding(fs) \in Content
         /\ Holding(fs) # Absent /\ Holding(fs) # Broken
         /\ \A x \in Facets : Holding(fs)[x] = IF x \in fs THEN {src[x]} ELSE {}
<1>1. \A x \in Facets : (IF x \in fs THEN {src[x]} ELSE {}) \in SUBSET Versions
  OBVIOUS
<1>2. Holding(fs) \in Content
  BY <1>1 DEF Holding, Content
<1> QED
  BY <1>2, MarksAssumption DEF Holding

LEMMA GoalContent ==
  ASSUME src \in [Facets -> Versions], NEW f
  PROVE  Goal(f) \in Content /\ Goal(f) # Absent /\ Goal(f) # Broken
BY HoldingContent DEF Goal

LEMMA MergeContent ==
  ASSUME NEW cs \in SUBSET Content PROVE Merge(cs) \in Content
<1>1. \A x \in Facets : UNION {c[x] : c \in cs} \in SUBSET Versions
  BY DEF Content
<1> QED
  BY <1>1 DEF Merge, Content

LEMMA ProjectContent ==
  ASSUME NEW c \in Content, NEW fs PROVE Project(c, fs) \in Content
BY DEF Project, Content

\* Reading current files gives the present versions of all their facets.
LEMMA MergeCurrent ==
  ASSUME NEW fs, \A f \in fs : Current(f)
  PROVE  Merge({file[f] : f \in fs}) = Holding(UNION {From(f) : f \in fs})
<1> DEFINE all == UNION {From(f) : f \in fs}
<1>1. ASSUME NEW x \in Facets
      PROVE  UNION {c[x] : c \in {file[f] : f \in fs}} = IF x \in all THEN {src[x]} ELSE {}
  <2>1. \A f \in fs : file[f][x] = IF x \in From(f) THEN {src[x]} ELSE {}
    BY DEF Current, Goal, Holding
  <2>2. \A v : v \in UNION {c[x] : c \in {file[f] : f \in fs}} <=> \E f \in fs : v \in file[f][x]
    OBVIOUS
  <2>3. x \in all <=> \E f \in fs : x \in From(f)
    OBVIOUS
  <2> HIDE DEF all
  <2> QED
    BY <2>1, <2>2, <2>3
<1> HIDE DEF all
<1> QED
  BY <1>1 DEF Merge, Holding, all

LEMMA ReadTable ==
  ASSUME First \in Backends
  PROVE
  /\ Reads("lower") = {"input"}
  /\ Reads("extractA") = {"design", "config"} /\ Reads("extractV") = {"design", "config"}
  /\ Reads("arcilate") = {"hwA"} /\ Reads("compileGen") = {"genA"}
  /\ Reads("compileA") = {"simcpp", "genA", "wrapper"}
  /\ Reads("linkA") = {"simoA", "genobj", "libA"}
  /\ Reads("split") = {"hwV"} /\ Reads("verilate") = {"vsrc"}
  /\ Reads("compileV") = {"simcpp", "libV"} /\ Reads("linkV") = {"simoV", "libV"}
  /\ Reads("genArc") = {"stateA", "json"} /\ Reads("genSim") = {State(First), "json"}
BY NeedTable DEF Reads, Needs

LEMMA ReadFiles == ASSUME First \in Backends, NEW r \in Rules PROVE Reads(r) \subseteq Files
BY ReadTable, RuleNames, FileNames DEF State

\* The facets that go into the targets of a rule are those of what it reads.
LEMMA Makes ==
  ASSUME First \in Backends, NEW r \in Rules
  PROVE  /\ r \notin Codegen => \A t \in Targets[r] : UNION {From(f) : f \in Reads(r)} = From(t)
         /\ r \in Codegen => UNION {From(f) : f \in Reads(r)} = Facets
<1>1. /\ UNION {From(f) : f \in {"input"}} = From("design")
      /\ UNION {From(f) : f \in {"design", "config"}} = Unit
      /\ UNION {From(f) : f \in {"hwA"}} = Unit /\ UNION {From(f) : f \in {"genA"}} = Unit
      /\ UNION {From(f) : f \in {"hwV"}} = Unit /\ UNION {From(f) : f \in {"vsrc"}} = Unit
  BY DEF From, Unit
<1>2. /\ UNION {From(f) : f \in {"simcpp", "genA", "wrapper"}} = Facets
      /\ UNION {From(f) : f \in {"simoA", "genobj", "libA"}} = Facets
      /\ UNION {From(f) : f \in {"simcpp", "libV"}} = Facets
      /\ UNION {From(f) : f \in {"simoV", "libV"}} = Facets
  BY DEF From, Unit, Facets
<1>3. /\ UNION {From(f) : f \in {"stateA", "json"}} = Facets
      /\ UNION {From(f) : f \in {State(First), "json"}} = Facets
  BY DEF From, Unit, Facets, State
<1>4. /\ \A t \in {"hwA", "libA", "stateA", "hwV", "stateV", "vsrc", "libV", "genobj"} : From(t) = Unit
      /\ \A t \in {"simoA", "simoV", "simA", "simV"} : From(t) = Facets
  BY DEF From
<1>5. CASE r \in {"lower", "extractA", "extractV", "arcilate", "compileGen", "split", "verilate"}
  BY <1>1, <1>4, <1>5, ReadTable, TargetTable DEF Codegen
<1>6. CASE r \in {"compileA", "linkA", "compileV", "linkV"}
  BY <1>2, <1>4, <1>6, ReadTable, TargetTable DEF Codegen
<1>7. CASE r \in Codegen
  BY <1>3, <1>7, ReadTable DEF Codegen
<1> QED
  BY <1>5, <1>6, <1>7, RuleNames DEF Codegen

\* What a recipe makes of files that are current or cut short.
LEMMA ProductOfSound ==
  ASSUME Typing, NEW r \in Rules, \A f \in Reads(r) : Sound(f)
  PROVE  /\ r \notin Codegen => \A t \in Targets[r] : Product(r) \in {Goal(t), Broken}
         /\ r \in Codegen => Product(r) \in {Holding(Facets), Broken}
<1> USE FirstIsBackend
<1>1. CASE \E f \in Reads(r) : file[f] = Broken
  BY <1>1 DEF Product
<1>2. CASE \A f \in Reads(r) : file[f] # Broken
  <2>1. \A f \in Reads(r) : Current(f)
    BY <1>2 DEF Sound, Current
  <2>2. \A f \in Reads(r) : file[f] # Absent /\ file[f] # Broken
    BY <2>1, GoalContent DEF Current, Typing
  <2>3. Product(r) = Merge({file[f] : f \in Reads(r)})
    BY <2>2 DEF Product
  <2>4. Product(r) = Holding(UNION {From(f) : f \in Reads(r)})
    BY <2>1, <2>3, MergeCurrent
  <2> QED
    BY <2>4, Makes DEF Goal
<1> QED
  BY <1>1, <1>2

LEMMA ProductContent ==
  ASSUME Typing, NEW r \in Rules
  PROVE  Product(r) \in Content \cup {Broken}
<1> DEFINE inputs == {file[f] : f \in Reads(r)}
<1>1. inputs \in SUBSET (Content \cup {Absent, Broken})
  BY ReadFiles, FirstIsBackend DEF Typing
<1>2. CASE inputs \cap {Absent, Broken} # {}
  BY <1>2 DEF Product
<1>3. CASE inputs \cap {Absent, Broken} = {}
  <2>1. inputs \in SUBSET Content
    BY <1>1, <1>3
  <2>2. Product(r) = Merge(inputs)
    BY <1>3 DEF Product
  <2> QED
    BY <2>1, <2>2, MergeContent
<1> QED
  BY <1>2, <1>3

\* The text codegen gives a file when it read current files.
LEMMA TextGoal ==
  ASSUME NEW f \in Written
  PROVE  Project(Holding(Facets), Carries(f)) = Goal(f)
<1>1. Carries(f) = From(f) /\ From(f) \subseteq Facets
  BY DEF Written, Carries, From, Unit, Facets
<1> QED
  BY <1>1 DEF Project, Goal, Holding

\* A sequence with one element put before another sequence.
LEMMA Prefixed ==
  ASSUME NEW S, NEW c \in S, NEW s \in Seq(S), NEW q \in Seq(S),
         Len(q) = Len(s) + 1, q[1] = c, \A i \in 1..Len(s) : q[i + 1] = s[i]
  PROVE  <<c>> \o s = q
<1> DEFINE l == <<c>>
<1>1. l \in Seq(S) /\ Len(l) = 1 /\ l[1] = c
  OBVIOUS
<1> HIDE DEF l
<1>2. /\ l \o s \in Seq(S) /\ Len(l \o s) = Len(s) + 1
      /\ \A i \in 1 .. 1 + Len(s) : (l \o s)[i] = IF i <= 1 THEN l[i] ELSE s[i - 1]
  <2>1. /\ l \o s \in Seq(S) /\ Len(l \o s) = Len(l) + Len(s)
        /\ \A i \in 1 .. Len(l) + Len(s) : (l \o s)[i] = IF i <= Len(l) THEN l[i] ELSE s[i - Len(l)]
    BY <1>1, ConcatProperties, Zenon
  <2> QED
    BY <1>1, <2>1
<1>3. ASSUME NEW i \in 1 .. 1 + Len(s) PROVE (l \o s)[i] = q[i]
  <2>1. CASE i = 1
    BY <2>1, <1>1, <1>2
  <2>2. CASE i # 1
    <3>1. i - 1 \in 1..Len(s) /\ (i - 1) + 1 = i
      BY <2>2
    <3> QED
      BY <2>2, <3>1, <1>2
  <2> QED
    BY <2>1, <2>2
<1>4. l \o s = q
  BY <1>2, <1>3, SeqEqual
<1> QED
  BY <1>4 DEF l

\* The plan of a file whose text differs.
LEMMA Opening ==
  /\ <<"changed">> \o <<"genA", "wrapper", "simcpp">> = <<"changed", "genA", "wrapper", "simcpp">>
  /\ <<"changed">> \o <<"wrapper", "simcpp">> = <<"changed", "wrapper", "simcpp">>
  /\ <<"changed">> \o <<"simcpp">> = <<"changed", "simcpp">>
<1> DEFINE names == {"changed", "genA", "wrapper", "simcpp"}
<1>1. "changed" \in names
  OBVIOUS
<1>2. <<"changed">> \o <<"genA", "wrapper", "simcpp">> = <<"changed", "genA", "wrapper", "simcpp">>
  <2> DEFINE s == <<"genA", "wrapper", "simcpp">>
             q == <<"changed", "genA", "wrapper", "simcpp">>
  <2>1. s \in Seq(names) /\ q \in Seq(names)
    OBVIOUS
  <2>2. Len(q) = Len(s) + 1 /\ q[1] = "changed" /\ \A i \in 1..Len(s) : q[i + 1] = s[i]
    OBVIOUS
  <2> HIDE DEF names, s, q
  <2>3. <<"changed">> \o s = q
    BY <1>1, <2>1, <2>2, Prefixed
  <2> QED
    BY <2>3 DEF s, q
<1>3. <<"changed">> \o <<"wrapper", "simcpp">> = <<"changed", "wrapper", "simcpp">>
  <2> DEFINE s == <<"wrapper", "simcpp">>
             q == <<"changed", "wrapper", "simcpp">>
  <2>1. s \in Seq(names) /\ q \in Seq(names)
    OBVIOUS
  <2>2. Len(q) = Len(s) + 1 /\ q[1] = "changed" /\ \A i \in 1..Len(s) : q[i + 1] = s[i]
    OBVIOUS
  <2> HIDE DEF names, s, q
  <2>3. <<"changed">> \o s = q
    BY <1>1, <2>1, <2>2, Prefixed
  <2> QED
    BY <2>3 DEF s, q
<1>4. <<"changed">> \o <<"simcpp">> = <<"changed", "simcpp">>
  <2> DEFINE s == <<"simcpp">>
             q == <<"changed", "simcpp">>
  <2>1. s \in Seq(names) /\ q \in Seq(names)
    OBVIOUS
  <2>2. Len(q) = Len(s) + 1 /\ q[1] = "changed" /\ \A i \in 1..Len(s) : q[i + 1] = s[i]
    OBVIOUS
  <2> HIDE DEF names, s, q
  <2>3. <<"changed">> \o s = q
    BY <1>1, <2>1, <2>2, Prefixed
  <2> QED
    BY <2>3 DEF s, q
<1> QED
  BY <1>2, <1>3, <1>4

\* The stages of codegen's plan, and the files it still has to write.
LEMMA PlanSteps ==
  ASSUME NEW r \in Codegen, emitted[r] \in Plans
  PROVE  /\ Stage(r) = "next" =>
              /\ Head(emitted[r]) \in Written
              /\ Tail(emitted[r]) \in Plans /\ <<"changed">> \o emitted[r] \in Plans
              /\ \A f \in Written : f \in SetOf(emitted[r]) =>
                                      f = Head(emitted[r]) \/ f \in SetOf(Tail(emitted[r]))
              /\ \A f \in Written : f \in SetOf(emitted[r]) => f \in SetOf(<<"changed">> \o emitted[r])
         /\ Stage(r) = "changed" =>
              /\ emitted[r][2] \in Written /\ [emitted[r] EXCEPT ![1] = "open"] \in Plans
              /\ \A f \in Written : f \in SetOf(emitted[r]) => f \in SetOf([emitted[r] EXCEPT ![1] = "open"])
              /\ emitted[r][2] \in SetOf(emitted[r])
         /\ Stage(r) = "open" =>
              /\ emitted[r][2] \in Written /\ Tail(Tail(emitted[r])) \in Plans
              /\ \A f \in Written : f \in SetOf(emitted[r]) =>
                                      f = emitted[r][2] \/ f \in SetOf(Tail(Tail(emitted[r])))
              /\ emitted[r][2] \in SetOf(emitted[r])
         /\ Stage(r) = "ended" => emitted[r] = <<>>
         /\ Stage(r) \in {"next", "changed", "open", "ended"}
<1>1. CASE emitted[r] = <<>>
  BY <1>1 DEF Stage
<1>2. CASE emitted[r] \in Listings
  <2> DEFINE ahead == <<"changed">> \o emitted[r]
  <2>1. ASSUME emitted[r] = <<"genA", "wrapper", "simcpp">>
        PROVE  /\ Stage(r) = "next" /\ Head(emitted[r]) = "genA"
               /\ Tail(emitted[r]) = <<"wrapper", "simcpp">>
               /\ ahead = <<"changed", "genA", "wrapper", "simcpp">>
    <3>1. emitted[r] # <<>> /\ Stage(r) = "next"
      BY <2>1 DEF Stage
    <3>2. ahead = <<"changed", "genA", "wrapper", "simcpp">>
      BY <2>1, Opening
    <3> QED
      BY <2>1, <3>1, <3>2
  <2>2. ASSUME emitted[r] = <<"wrapper", "simcpp">>
        PROVE  /\ Stage(r) = "next" /\ Head(emitted[r]) = "wrapper"
               /\ Tail(emitted[r]) = <<"simcpp">>
               /\ ahead = <<"changed", "wrapper", "simcpp">>
    <3>1. emitted[r] # <<>> /\ Stage(r) = "next"
      BY <2>2 DEF Stage
    <3>2. ahead = <<"changed", "wrapper", "simcpp">>
      BY <2>2, Opening
    <3> QED
      BY <2>2, <3>1, <3>2
  <2>3. ASSUME emitted[r] = <<"simcpp">>
        PROVE  /\ Stage(r) = "next" /\ Head(emitted[r]) = "simcpp"
               /\ Tail(emitted[r]) = <<>>
               /\ ahead = <<"changed", "simcpp">>
    <3>1. emitted[r] # <<>> /\ Stage(r) = "next"
      BY <2>3 DEF Stage
    <3>2. ahead = <<"changed", "simcpp">>
      BY <2>3, Opening
    <3> QED
      BY <2>3, <3>1, <3>2
  <2>4. /\ SetOf(<<"genA", "wrapper", "simcpp">>) = Written
        /\ SetOf(<<"wrapper", "simcpp">>) = {"wrapper", "simcpp"} /\ SetOf(<<"simcpp">>) = {"simcpp"}
        /\ SetOf(<<"changed", "genA", "wrapper", "simcpp">>) \cap Written = Written
        /\ SetOf(<<"changed", "wrapper", "simcpp">>) \cap Written = {"wrapper", "simcpp"}
        /\ SetOf(<<"changed", "simcpp">>) \cap Written = {"simcpp"}
    BY DEF SetOf, Written
  <2>5. CASE emitted[r] = <<"genA", "wrapper", "simcpp">>
    BY <2>1, <2>4, <2>5 DEF Plans, Listings, Written
  <2>6. CASE emitted[r] = <<"wrapper", "simcpp">>
    BY <2>2, <2>4, <2>6 DEF Plans, Listings, Written
  <2>7. CASE emitted[r] = <<"simcpp">>
    BY <2>3, <2>4, <2>7 DEF Plans, Listings, Written
  <2> QED
    BY <1>2, <2>5, <2>6, <2>7 DEF Listings
<1>3. ASSUME NEW s \in {"changed", "open"}, emitted[r] = <<s, "genA", "wrapper", "simcpp">>
      PROVE  /\ Stage(r) = s /\ emitted[r][2] = "genA"
             /\ SetOf(emitted[r]) \cap Written = Written
             /\ [emitted[r] EXCEPT ![1] = "open"] = <<"open", "genA", "wrapper", "simcpp">>
             /\ Tail(Tail(emitted[r])) = <<"wrapper", "simcpp">>
  BY <1>3 DEF Stage, Written, SetOf
<1>4. ASSUME NEW s \in {"changed", "open"}, emitted[r] = <<s, "wrapper", "simcpp">>
      PROVE  /\ Stage(r) = s /\ emitted[r][2] = "wrapper"
             /\ SetOf(emitted[r]) \cap Written = {"wrapper", "simcpp"}
             /\ [emitted[r] EXCEPT ![1] = "open"] = <<"open", "wrapper", "simcpp">>
             /\ Tail(Tail(emitted[r])) = <<"simcpp">>
  BY <1>4 DEF Stage, Written, SetOf
<1>5. ASSUME NEW s \in {"changed", "open"}, emitted[r] = <<s, "simcpp">>
      PROVE  /\ Stage(r) = s /\ emitted[r][2] = "simcpp"
             /\ SetOf(emitted[r]) \cap Written = {"simcpp"}
             /\ [emitted[r] EXCEPT ![1] = "open"] = <<"open", "simcpp">>
             /\ Tail(Tail(emitted[r])) = <<>>
  BY <1>5 DEF Stage, Written, SetOf
<1>6. /\ SetOf(<<"open", "genA", "wrapper", "simcpp">>) \cap Written = Written
      /\ SetOf(<<"open", "wrapper", "simcpp">>) \cap Written = {"wrapper", "simcpp"}
      /\ SetOf(<<"open", "simcpp">>) \cap Written = {"simcpp"}
      /\ SetOf(<<"wrapper", "simcpp">>) = {"wrapper", "simcpp"}
      /\ SetOf(<<"simcpp">>) = {"simcpp"}
  BY DEF SetOf, Written
<1>7. CASE \E s \in {"changed", "open"} : emitted[r] = <<s, "genA", "wrapper", "simcpp">>
  BY <1>3, <1>6, <1>7 DEF Plans, Listings, Written
<1>8. CASE \E s \in {"changed", "open"} : emitted[r] = <<s, "wrapper", "simcpp">>
  BY <1>4, <1>6, <1>8 DEF Plans, Listings, Written
<1>9. CASE \E s \in {"changed", "open"} : emitted[r] = <<s, "simcpp">>
  BY <1>5, <1>6, <1>9 DEF Plans, Listings, Written
<1> QED
  BY <1>1, <1>2, <1>7, <1>8, <1>9 DEF Plans

LEMMA EmitsPlan == ASSUME NEW r \in Codegen PROVE Emits(r) \in Plans
BY DEF Emits, Plans, Listings

----------------------------------------------------------------------------
(* The first invariant, which holds whatever the user edits and whatever fails. *)

\* What make's state says: nothing runs when make is off, a rule that waits is one
\* that `make all` reaches, a codegen that runs has read contents, and a codegen
\* that waits and was not found out of date is not.
Phases ==
  /\ make = "off" => \A r \in Rules : job[r] = "idle"
  /\ \A r \in Rules : job[r] = "waiting" => make = "on" /\ r \in Reached
  /\ \A r \in Codegen : job[r] = "running" => got[r] \in Content
  /\ \A r \in Codegen : job[r] # "running" => emitted[r] = <<>>
  /\ \A r \in Rules : job[r] = "running" => r \in Codegen \cup Compilers
  /\ \A r \in Codegen : job[r] = "waiting" /\ r \notin due => ~OutOfDate(r)

\* No content is ahead of the sources.
Past(c) == c \in Content => \A x \in Facets : \A v \in c[x] : v <= src[x]

Dated ==
  /\ \A f \in Files : Past(file[f])
  /\ \A r \in Rules : Past(got[r])

Inputs ==
  /\ \A f \in Sources : Current(f)
  /\ make # "off" => Current("config")

\* The state files are there for codegen to read.
States ==
  /\ \A f \in {"stateA", "stateV"} : file[f] # Broken
  /\ job["arcilate"] = "done" => file["stateA"] # Absent
  /\ job["extractV"] = "done" => file["stateV"] # Absent

\* A current output of an extraction was made from the present design and
\* config.mk, and nothing was written since that would have it made again.
Lowered == Current("design") /\ <<"input", "design">> \notin newer

Extractions ==
  /\ file["design"] # Absent /\ <<"input", "design">> \notin newer => Lowered
  /\ job["lower"] = "done" => Lowered
  /\ \A t \in {"hwA", "hwV", "stateV"} :
       Current(t) => /\ Lowered /\ Current("config")
                     /\ <<"design", t>> \notin newer /\ <<"config", t>> \notin newer

TInv == Typing /\ Phases /\ Dated /\ Inputs /\ States /\ Extractions

----------------------------------------------------------------------------
(* Facts every step needs. *)

LEMMA Kinds ==
  /\ Codegen \subseteq Rules /\ Compilers \subseteq Rules /\ Linkers \subseteq Rules
  /\ Codegen \cap Compilers = {}
  /\ Codegen = {"genArc", "genSim"} /\ Compilers = {"compileGen", "compileA", "compileV"}
BY RuleNames DEF Codegen, Compilers, Linkers

LEMMA WrittenFiles ==
  /\ Written \subseteq Files /\ Sources \subseteq Files /\ "config" \in Files
  /\ \A r \in Rules : Targets[r] \cap (Sources \cup {"config"}) = {}
  /\ Written \cap (Sources \cup {"config", "design", "hwA", "hwV", "stateA", "stateV"}) = {}
  /\ \A r \in Compilers : Targets[r] \cap {"design", "hwA", "hwV", "stateA", "stateV"} = {}
  /\ \A r \in Compilers : Targets[r] \cap Written = {}
BY FileNames, RuleNames, TargetTable DEF Written, Sources, Compilers

LEMMA TouchEdges ==
  ASSUME newer \subseteq Edges, NEW fs
  PROVE  Touch(fs) \subseteq Edges /\ Forget(fs) \subseteq Edges
BY DEF Touch, Forget

\* A pair after a write: gone when its target was written, there when only its
\* prerequisite was, and otherwise as before.
LEMMA Touched ==
  ASSUME NEW fs, NEW p, NEW t
  PROVE  /\ t \in fs => <<p, t>> \notin Touch(fs)
         /\ p \in fs /\ t \notin fs /\ <<p, t>> \in Edges => <<p, t>> \in Touch(fs)
         /\ p \notin fs /\ t \notin fs => (<<p, t>> \in Touch(fs) <=> <<p, t>> \in newer)
BY DEF Touch

LEMMA DesignEdges ==
  /\ <<"input", "design">> \in Edges
  /\ \A t \in {"hwA", "hwV", "stateV"} : <<"design", t>> \in Edges /\ <<"config", t>> \in Edges
<1>1. "arcilator" \in Backends
  BY DEF Backends
<1> QED
  BY <1>1, EdgePairs, RuleNames, TargetTable, NeedTable

\* A rule that is ready: what feeds it is settled.
LEMMA ReadyFeeds ==
  ASSUME First \in Backends, NEW r \in Rules, Ready(r)
  PROVE  /\ \A q \in Feeding(First, r) : Settled(q)
         /\ \A q \in Feeding(First, r) : \A s \in Feeding(First, q) : Settled(s)
<1>1. \A q \in Rules : Before[First][q] \subseteq Rules /\ Feeding(First, q) \subseteq Before[First][q]
  BY BeforeClosed
<1>2. \A q \in Before[First][r] : Settled(q) /\ Before[First][q] \subseteq Before[First][r]
  BY BeforeClosed DEF Ready
<1> QED
  BY <1>1, <1>2

\* A settled rule that codegen does not run is done or has its targets in time.
LEMMA SettledTargets ==
  ASSUME First \in Backends, Phases, NEW r \in Rules, Settled(r), job[r] # "done",
         NEW t \in Targets[r]
  PROVE  file[t] # Absent /\ \A p \in Prerequisites[First][r] : <<p, t>> \notin newer
<1>1. ~OutOfDate(r)
  BY DEF Settled, Due, Phases
<1> QED
  BY <1>1 DEF OutOfDate, Needs

\* The state file a codegen reads is there.
LEMMA StateThere ==
  ASSUME Typing, Phases, States, NEW r \in Codegen, Ready(r)
  PROVE  \A f \in Reads(r) \ {"json"} : file[f] \in Content
<1> USE FirstIsBackend
<1>1. ASSUME Settled("arcilate") PROVE file["stateA"] # Absent
  BY <1>1, SettledTargets, RuleNames, TargetTable DEF States
<1>2. ASSUME Settled("extractV") PROVE file["stateV"] # Absent
  BY <1>2, SettledTargets, RuleNames, TargetTable DEF States
<1>3. {"stateA", "stateV"} \subseteq Files
  BY FileNames
<1>4. CASE r = "genArc"
  <2>1. Settled("arcilate")
    BY <1>4, ReadyFeeds, FeedTable, Kinds
  <2> QED
    BY <1>1, <1>3, <1>4, <2>1, ReadTable DEF States, Typing
<1>5. CASE r = "genSim"
  <2>1. Settled(IF First = "arcilator" THEN "arcilate" ELSE "extractV")
    BY <1>5, ReadyFeeds, FeedTable, Kinds
  <2>2. State(First) = IF First = "arcilator" THEN "stateA" ELSE "stateV"
    BY DEF State
  <2> QED
    BY <1>1, <1>2, <1>3, <1>5, <2>1, <2>2, ReadTable DEF States, Typing
<1> QED
  BY <1>4, <1>5, Kinds

LEMMA ProductCodegen ==
  ASSUME Typing, Phases, Inputs, States, NEW r \in Codegen, Ready(r)
  PROVE  Product(r) \in Content
<1>1. file["json"] \in Content
  BY GoalContent DEF Inputs, Sources, Current, Typing
<1>2. \A f \in Reads(r) : file[f] \in Content
  BY <1>1, StateThere
<1>3. {file[f] : f \in Reads(r)} \in SUBSET Content
  BY <1>2
<1>4. {file[f] : f \in Reads(r)} \cap {Absent, Broken} = {}
  BY <1>2, MarksAssumption
<1> QED
  BY <1>3, <1>4, MergeContent DEF Product

----------------------------------------------------------------------------
(* The steps of the typing invariant. *)

LEMMA VersionNat == Versions \subseteq Nat /\ \A v \in Nat : v <= MaxEdits => v \in Versions
BY BuildAssumption DEF Versions

LEMMA SourceTyping ==
  ASSUME src' \in [Facets -> Versions]
  PROVE  \A f : SourceContent(f)' \in Content
<1> SUFFICES ASSUME NEW f PROVE SourceContent(f)' \in Content
  OBVIOUS
<1>1. \A fs : [x \in Facets |-> IF x \in fs THEN {src'[x]} ELSE {}] \in [Facets -> SUBSET Versions]
  OBVIOUS
<1> QED
  BY <1>1 DEF SourceContent, Holding, Content

LEMMA EditTyping ==
  ASSUME Typing, NEW f \in Facets, Edit(f)
  PROVE  Typing'
<1>1. src' \in [Facets -> Versions]
  <2>1. \A x \in Facets : src[x] \in Nat
    BY VersionNat DEF Typing
  <2>2. src[f] + 1 <= MaxEdits
    BY <2>1, FacetNames, BuildAssumption DEF Edit, Edited
  <2>3. src[f] + 1 \in Versions
    BY <2>1, <2>2, VersionNat
  <2> QED
    BY <2>3 DEF Edit, Typing
<1>2. file' \in [Files -> Content \cup {Absent, Broken}]
  BY <1>1, SourceTyping DEF Edit, Typing
<1>3. newer' \subseteq Edges
  BY TouchEdges DEF Edit, Typing
<1> QED
  BY <1>1, <1>2, <1>3 DEF Edit, Typing, NoJob

LEMMA EditBackendsTyping ==
  ASSUME Typing, NEW list \in BackendLists, EditBackends(list)
  PROVE  Typing'
<1>1. src' \in [Facets -> Versions]
  <2>1. \A x \in Facets : src[x] \in Nat
    BY VersionNat DEF Typing
  <2>2. src["decl"] + 1 <= MaxEdits
    BY <2>1, FacetNames, BuildAssumption DEF EditBackends, Edited
  <2>3. src["decl"] + 1 \in Versions
    BY <2>1, <2>2, VersionNat, FacetNames
  <2> QED
    BY <2>3 DEF EditBackends, Typing
<1>2. file' \in [Files -> Content \cup {Absent, Broken}]
  BY <1>1, SourceTyping DEF EditBackends, Typing
<1> QED
  BY <1>1, <1>2 DEF EditBackends, Typing, NoJob

LEMMA StartTyping ==
  ASSUME Typing, Start
  PROVE  Typing'
<1>1. Holding({"decl"}) \in Content
  BY HoldingContent DEF Typing
<1>2. newer' \subseteq Edges
  BY TouchEdges DEF Start, Typing
<1>3. due' \subseteq Codegen
  BY DEF Start, OutdatedCodegen
<1>4. job' \in [Rules -> {"idle", "waiting", "running", "done"}]
  BY DEF Start
<1>5. file' \in [Files -> Content \cup {Absent, Broken}]
  BY <1>1 DEF Start, Typing
<1> QED
  BY <1>2, <1>3, <1>4, <1>5 DEF Start, Typing

LEMMA RunTyping ==
  ASSUME Typing, NEW r \in Rules, Run(r)
  PROVE  Typing'
<1>1. file' \in [Files -> Content \cup {Absent, Broken}]
  BY ProductContent DEF Run, Typing
<1>2. newer' \subseteq Edges
  BY TouchEdges DEF Run, Typing
<1>3. due' \subseteq Codegen
  BY DEF Run, OutdatedCodegen, Typing
<1> QED
  BY <1>1, <1>2, <1>3 DEF Run, Typing

LEMMA LaunchTyping ==
  ASSUME Typing, NEW r \in Rules, Launch(r)
  PROVE  Typing'
<1>1. got' \in [Rules -> Content \cup {Absent, Broken}]
  BY ProductContent DEF Launch, Typing
<1>2. emitted' \in [Codegen -> Plans]
  BY EmitsPlan DEF Launch, Typing
<1> QED
  BY <1>1, <1>2 DEF Launch, Typing

LEMMA FinishTyping ==
  ASSUME Typing, NEW r \in Rules, Finish(r)
  PROVE  Typing'
<1>1. newer' \subseteq Edges
  BY TouchEdges DEF Finish, Typing
<1> QED
  BY <1>1 DEF Finish, Typing

LEMMA FailTyping ==
  ASSUME Typing, NEW r \in Rules, Fail(r)
  PROVE  Typing'
<1>1. PICK written \in {{}, Targets[r] \cap {"stateA", "stateV"}} :
         /\ file' = [f \in Files |-> IF f \in written THEN Product(r) ELSE file[f]]
         /\ newer' = Touch(written)
  BY DEF Fail
<1>2. file' \in [Files -> Content \cup {Absent, Broken}]
  BY <1>1, ProductContent DEF Typing
<1>3. newer' \subseteq Edges
  BY <1>1, TouchEdges DEF Typing
<1>4. /\ job' \in [Rules -> {"idle", "waiting", "running", "done"}]
      /\ got' \in [Rules -> Content \cup {Absent, Broken}]
      /\ make' \in {"off", "on", "failing"}
  BY DEF Fail, Typing
<1>5. emitted' \in [Codegen -> Plans]
  BY DEF Fail, Typing, Plans
<1>6. failures' \in Nat
  BY DEF Fail, Typing
<1> QED
  BY <1>2, <1>3, <1>4, <1>5, <1>6 DEF Fail, Typing

\* The files and plans of a codegen that runs.
LEMMA TextContent ==
  ASSUME Phases, NEW r \in Codegen, job[r] = "running", NEW f
  PROVE  Text(r, f) \in Content
BY ProjectContent DEF Phases, Text

LEMMA EmitTyping ==
  ASSUME Typing, Phases, NEW r \in Rules,
         EmitSame(r) \/ EmitChanged(r) \/ EmitOpen(r) \/ EmitWrite(r) \/ EmitDone(r)
  PROVE  Typing'
<1>1. r \in Codegen /\ job[r] = "running" /\ emitted[r] \in Plans
  BY DEF EmitSame, EmitChanged, EmitOpen, EmitWrite, EmitDone, Emitting, Typing
<1> USE PlanSteps
<1>2. CASE EmitSame(r)
  BY <1>1, <1>2 DEF EmitSame, Emitting, Typing
<1>3. CASE EmitChanged(r)
  BY <1>1, <1>3 DEF EmitChanged, Emitting, Typing
<1>4. CASE EmitOpen(r)
  <2>1. emitted' = [emitted EXCEPT ![r] = [emitted[r] EXCEPT ![1] = "open"]]
    BY <1>1, <1>4 DEF EmitOpen, Typing
  <2>2. emitted' \in [Codegen -> Plans]
    BY <1>1, <1>4, <2>1 DEF EmitOpen, Emitting, Typing
  <2>3. newer' \subseteq Edges
    BY <1>4, TouchEdges DEF EmitOpen, Typing
  <2>4. file' \in [Files -> Content \cup {Absent, Broken}]
    BY <1>4 DEF EmitOpen, Typing
  <2> QED
    BY <1>4, <2>2, <2>3, <2>4 DEF EmitOpen, Typing
<1>5. CASE EmitWrite(r)
  <2>1. emitted' \in [Codegen -> Plans]
    BY <1>1, <1>5 DEF EmitWrite, Emitting, Typing
  <2>2. newer' \subseteq Edges
    BY <1>5, TouchEdges DEF EmitWrite, Typing
  <2>3. file' \in [Files -> Content \cup {Absent, Broken}]
    BY <1>1, <1>5, TextContent DEF EmitWrite, Typing
  <2> QED
    BY <1>5, <2>1, <2>2, <2>3 DEF EmitWrite, Typing
<1>6. CASE EmitDone(r)
  BY <1>6 DEF EmitDone, Typing
<1> QED
  BY <1>2, <1>3, <1>4, <1>5, <1>6

LEMMA CleanTyping ==
  ASSUME Typing, NEW all \in BOOLEAN, Clean(all)
  PROVE  Typing'
<1>1. newer' \subseteq Edges
  BY TouchEdges DEF Clean, Typing
<1>2. file' \in [Files -> Content \cup {Absent, Broken}]
  BY DEF Clean, Typing
<1> QED
  BY <1>1, <1>2 DEF Clean, Typing, NoJob

LEMMA TypingStep ==
  ASSUME Typing, Phases, [Next]_vars
  PROVE  Typing'
<1>1. CASE \E f \in Facets : Edit(f)
  BY <1>1, EditTyping
<1>2. CASE \E list \in BackendLists : EditBackends(list)
  BY <1>2, EditBackendsTyping
<1>3. CASE Start
  BY <1>3, StartTyping
<1>4. CASE Skip
  BY <1>4 DEF Skip, Typing
<1>5. CASE \E r \in Rules : RuleStep(r)
  BY <1>5, RunTyping, LaunchTyping, FinishTyping, FailTyping, EmitTyping DEF RuleStep
<1>6. CASE End
  BY <1>6 DEF End, Typing
<1>7. CASE \E all \in BOOLEAN : Clean(all)
  BY <1>7, CleanTyping
<1>8. CASE UNCHANGED vars
  BY <1>8 DEF vars, Typing
<1> QED
  BY <1>1, <1>2, <1>3, <1>4, <1>5, <1>6, <1>7, <1>8 DEF Next

----------------------------------------------------------------------------
(* The steps of the phases. *)

\* Writing other files than the state leaves a codegen's target in time.
LEMMA StaysInTime ==
  ASSUME Typing, NEW r \in Codegen, NEW fs, fs \cap {"stateA", "stateV"} = {},
         newer' = Touch(fs), backends' = backends,
         \A f \in Files \ fs : file'[f] = file[f],
         \A f \in fs \cap Written : file'[f] # Absent,
         ~OutOfDate(r)
  PROVE  ~OutOfDate(r)'
<1>1. First' = First /\ First \in Backends
  BY FirstIsBackend DEF First
<1>2. /\ Needs(r)' = Needs(r) /\ Needs(r) \subseteq {"stateA", "stateV"}
      /\ Targets[r] \subseteq Written /\ Targets[r] \subseteq Files
  BY <1>1, Kinds, NeedTable, TargetTable, FileNames DEF Needs, State, Written
<1>3. \A t \in Targets[r] : file[t] # Absent /\ \A p \in Needs(r) : <<p, t>> \notin newer
  BY DEF OutOfDate
<1>4. ASSUME NEW t \in Targets[r] PROVE file'[t] # Absent
  BY <1>2, <1>3
<1>5. ASSUME NEW t \in Targets[r], NEW p \in Needs(r) PROVE <<p, t>> \notin newer'
  <2>1. p \notin fs
    BY <1>2
  <2> QED
    BY <1>3, <2>1, Touched
<1> QED
  BY <1>2, <1>4, <1>5 DEF OutOfDate

\* With nothing written, nothing is out of date that was not.
LEMMA SameTime ==
  ASSUME NEW r \in Codegen, UNCHANGED <<file, newer, backends>>
  PROVE  OutOfDate(r)' = OutOfDate(r)
BY DEF OutOfDate, Needs, First

LEMMA OutdatedDue ==
  ASSUME NEW r \in Codegen, r \in Reached', r \notin OutdatedCodegen'
  PROVE  ~OutOfDate(r)'
BY DEF OutdatedCodegen

LEMMA ReachedSame == ASSUME backends' = backends PROVE Reached' = Reached
BY DEF Reached

LEMMA StartPhases ==
  ASSUME Typing, Phases, Start
  PROVE  Phases'
<1>1. Reached' = Reached
  BY ReachedSame DEF Start
<1>2. job' = [r \in Rules |-> IF r \in Reached THEN "waiting" ELSE "idle"] /\ make' = "on" /\ make = "off"
  BY DEF Start
<1>3. \A r \in Codegen : job'[r] = "waiting" /\ r \notin due' => ~OutOfDate(r)'
  BY <1>1, <1>2, OutdatedDue, Kinds DEF Start
<1>4. UNCHANGED emitted
  BY DEF Start
<1> QED
  BY <1>1, <1>2, <1>3, <1>4, Kinds DEF Phases

LEMMA RunPhases ==
  ASSUME Typing, Phases, NEW r \in Rules, Run(r)
  PROVE  Phases'
<1>1. Reached' = Reached
  BY ReachedSame DEF Run
<1>2. /\ job' = [job EXCEPT ![r] = "done"] /\ job \in [Rules -> {"idle", "waiting", "running", "done"}]
      /\ r \notin Codegen \cup Compilers
      /\ UNCHANGED <<make, got, emitted>> /\ make = "on"
  BY DEF Run, Typing, Ready
<1>3. \A q \in Codegen : job'[q] = "waiting" /\ q \notin due' => ~OutOfDate(q)'
  BY <1>1, <1>2, OutdatedDue, Kinds DEF Run, Phases
<1> QED
  BY <1>1, <1>2, <1>3, Kinds DEF Phases

LEMMA LaunchPhases ==
  ASSUME Typing, Phases, Inputs, States, NEW r \in Rules, Launch(r)
  PROVE  Phases'
<1>1. Reached' = Reached
  BY ReachedSame DEF Launch
<1>2. /\ job' = [job EXCEPT ![r] = "running"] /\ job \in [Rules -> {"idle", "waiting", "running", "done"}]
      /\ r \in Codegen \cup Compilers
      /\ UNCHANGED <<make, due, file, newer, backends>> /\ make = "on"
  BY DEF Launch, Typing, Ready
<1>3. \A q \in Codegen : job'[q] = "waiting" /\ q \notin due' => ~OutOfDate(q)'
  BY <1>2, SameTime, Kinds DEF Phases
<1>4. \A q \in Codegen : job'[q] = "running" => got'[q] \in Content
  BY <1>2, ProductCodegen, Kinds DEF Phases, Launch, Typing
<1>5. \A q \in Codegen : job'[q] # "running" => emitted'[q] = <<>>
  BY <1>2, Kinds DEF Phases, Launch, Typing
<1> QED
  BY <1>1, <1>2, <1>3, <1>4, <1>5 DEF Phases

LEMMA SkipPhases ==
  ASSUME Typing, Phases, Skip
  PROVE  Phases'
<1>1. Reached' = Reached
  BY ReachedSame DEF Skip
<1>2. /\ job' = [job EXCEPT !["genArc"] = "done"] /\ job \in [Rules -> {"idle", "waiting", "running", "done"}]
      /\ job["genArc"] = "waiting" /\ "genArc" \in Rules
      /\ UNCHANGED <<make, due, file, newer, backends, got, emitted>> /\ make = "on"
  BY RuleNames DEF Skip, Typing, Ready
<1>3. \A q \in Codegen : job'[q] = "waiting" /\ q \notin due' => ~OutOfDate(q)'
  BY <1>2, SameTime, Kinds DEF Phases
<1> QED
  BY <1>1, <1>2, <1>3, Kinds DEF Phases

LEMMA FinishPhases ==
  ASSUME Typing, Phases, NEW r \in Rules, Finish(r)
  PROVE  Phases'
<1>1. Reached' = Reached
  BY ReachedSame DEF Finish
<1>2. /\ job' = [job EXCEPT ![r] = "done"] /\ job \in [Rules -> {"idle", "waiting", "running", "done"}]
      /\ job[r] = "running" /\ r \in Compilers
      /\ UNCHANGED <<make, due, backends, emitted>>
      /\ got' = [got EXCEPT ![r] = Absent] /\ got \in [Rules -> Content \cup {Absent, Broken}]
  BY DEF Finish, Typing
<1>3. ASSUME NEW q \in Codegen, ~OutOfDate(q) PROVE ~OutOfDate(q)'
  <2>1. Targets[r] \cap {"stateA", "stateV"} = {} /\ Targets[r] \cap Written = {}
    BY <1>2, WrittenFiles
  <2> QED
    BY <1>3, <2>1, StaysInTime DEF Finish
<1>4. \A q \in Codegen : job'[q] = "waiting" /\ q \notin due' => ~OutOfDate(q)'
  BY <1>2, <1>3, Kinds DEF Phases
<1> QED
  BY <1>1, <1>2, <1>4, Kinds DEF Phases

LEMMA FailPhases ==
  ASSUME Typing, Phases, NEW r \in Rules, Fail(r)
  PROVE  Phases'
<1>1. /\ job' = [q \in Rules |-> IF q = r \/ job[q] = "waiting" THEN "idle" ELSE job[q]]
      /\ job \in [Rules -> {"idle", "waiting", "running", "done"}]
      /\ make' = "failing"
      /\ got' = [got EXCEPT ![r] = Absent] /\ got \in [Rules -> Content \cup {Absent, Broken}]
      /\ emitted' = IF r \in Codegen THEN [emitted EXCEPT ![r] = <<>>] ELSE emitted
  BY DEF Fail, Typing
<1>2. \A q \in Rules : job'[q] # "waiting"
  BY <1>1
<1>3. \A q \in Codegen : job'[q] # "running" => emitted'[q] = <<>>
  BY <1>1, Kinds DEF Phases, Typing
<1>4. \A q \in Codegen : job'[q] = "running" => got'[q] \in Content
  BY <1>1, Kinds DEF Phases
<1> QED
  BY <1>1, <1>2, <1>3, <1>4, Kinds DEF Phases

LEMMA EmitPhases ==
  ASSUME Typing, Phases, NEW r \in Rules,
         EmitSame(r) \/ EmitChanged(r) \/ EmitOpen(r) \/ EmitWrite(r) \/ EmitDone(r)
  PROVE  Phases'
<1>1. r \in Codegen /\ job[r] = "running" /\ emitted[r] \in Plans /\ UNCHANGED <<make, due, backends>>
  BY DEF EmitSame, EmitChanged, EmitOpen, EmitWrite, EmitDone, Emitting, Typing
<1>2. Reached' = Reached
  BY <1>1, ReachedSame
<1>3. CASE EmitSame(r) \/ EmitChanged(r)
  <2>1. UNCHANGED <<file, newer, job, got>> /\ \A q \in Codegen \ {r} : emitted'[q] = emitted[q]
    BY <1>3 DEF EmitSame, EmitChanged, Typing
  <2>2. \A q \in Codegen : job'[q] = "waiting" /\ q \notin due' => ~OutOfDate(q)'
    BY <1>1, <2>1, SameTime DEF Phases
  <2> QED
    BY <1>1, <1>2, <2>1, <2>2 DEF Phases
<1>4. CASE EmitOpen(r) \/ EmitWrite(r)
  <2>1. UNCHANGED <<job, got>> /\ \A q \in Codegen \ {r} : emitted'[q] = emitted[q]
    BY <1>4 DEF EmitOpen, EmitWrite, Typing
  <2>2. emitted[r][2] \in Written
    BY <1>1, <1>4, PlanSteps DEF EmitOpen, EmitWrite, Emitting
  <2>3. /\ newer' = Touch({emitted[r][2]}) /\ \A f \in Files \ {emitted[r][2]} : file'[f] = file[f]
        /\ file'[emitted[r][2]] # Absent
    BY <1>1, <1>4, <2>2, TextContent, MarksAssumption, WrittenFiles DEF EmitOpen, EmitWrite, Typing
  <2>4. ASSUME NEW q \in Codegen, ~OutOfDate(q) PROVE ~OutOfDate(q)'
    <3>1. {emitted[r][2]} \cap {"stateA", "stateV"} = {}
      BY <2>2, WrittenFiles
    <3> QED
      BY <1>1, <2>3, <2>4, <3>1, StaysInTime
  <2>5. \A q \in Codegen : job'[q] = "waiting" /\ q \notin due' => ~OutOfDate(q)'
    BY <1>1, <2>1, <2>4 DEF Phases
  <2> QED
    BY <1>1, <1>2, <2>1, <2>5 DEF Phases
<1>5. CASE EmitDone(r)
  <2>1. /\ UNCHANGED <<file, newer, emitted>> /\ job' = [job EXCEPT ![r] = "done"]
        /\ got' = [got EXCEPT ![r] = Absent] /\ emitted[r] = <<>>
        /\ job \in [Rules -> {"idle", "waiting", "running", "done"}]
        /\ got \in [Rules -> Content \cup {Absent, Broken}]
    BY <1>1, <1>5, PlanSteps DEF EmitDone, Emitting, Typing
  <2>2. \A q \in Codegen : job'[q] = "waiting" /\ q \notin due' => ~OutOfDate(q)'
    BY <1>1, <2>1, SameTime, Kinds DEF Phases
  <2> QED
    BY <1>1, <1>2, <2>1, <2>2, Kinds DEF Phases
<1> QED
  BY <1>3, <1>4, <1>5

LEMMA PhasesStep ==
  ASSUME Typing, Phases, Inputs, States, [Next]_vars
  PROVE  Phases'
<1>1. ASSUME NoJob, make = "off", ok' = FALSE PROVE Phases'
  <2>1. \A r \in Rules : job'[r] = "idle"
    BY <1>1 DEF Phases, NoJob
  <2> QED
    BY <1>1, <2>1, Kinds DEF Phases, NoJob
<1>2. CASE \E f \in Facets : Edit(f)
  BY <1>1, <1>2 DEF Edit
<1>3. CASE \E list \in BackendLists : EditBackends(list)
  BY <1>1, <1>3 DEF EditBackends
<1>4. CASE Start
  BY <1>4, StartPhases
<1>5. CASE Skip
  BY <1>5, SkipPhases
<1>6. CASE \E r \in Rules : RuleStep(r)
  BY <1>6, RunPhases, LaunchPhases, FinishPhases, FailPhases, EmitPhases DEF RuleStep
<1>7. CASE End
  <2>1. \A r \in Rules : job[r] # "running" /\ job'[r] = "idle"
    BY <1>7 DEF End, Running
  <2> QED
    BY <1>7, <2>1, Kinds DEF End, Phases
<1>8. CASE \E all \in BOOLEAN : Clean(all)
  BY <1>1, <1>8 DEF Clean
<1>9. CASE UNCHANGED vars
  BY <1>9, SameTime, ReachedSame DEF vars, Phases
<1> QED
  BY <1>2, <1>3, <1>4, <1>5, <1>6, <1>7, <1>8, <1>9 DEF Next

----------------------------------------------------------------------------
(* The steps of Dated, Inputs and States. *)

LEMMA MergePast ==
  ASSUME NEW cs \in SUBSET Content, \A c \in cs : Past(c)
  PROVE  Past(Merge(cs))
<1>1. ASSUME NEW x \in Facets, NEW v \in Merge(cs)[x]
      PROVE  v <= src[x]
  <2>1. PICK c \in cs : v \in c[x]
    BY <1>1 DEF Merge
  <2> QED
    BY <2>1 DEF Past
<1> QED
  BY <1>1 DEF Past

LEMMA ProductPast ==
  ASSUME Typing, Dated, NEW r \in Rules
  PROVE  Past(Product(r))
<1> DEFINE inputs == {file[f] : f \in Reads(r)}
<1>1. inputs \in SUBSET (Content \cup {Absent, Broken}) /\ \A c \in inputs : Past(c)
  BY ReadFiles, FirstIsBackend DEF Typing, Dated
<1>2. CASE inputs \cap {Absent, Broken} # {}
  <2>1. Product(r) = Broken
    BY <1>2 DEF Product
  <2> QED
    BY <2>1, MarksAssumption DEF Past
<1>3. CASE inputs \cap {Absent, Broken} = {}
  <2>1. Product(r) = Merge(inputs) /\ inputs \in SUBSET Content
    BY <1>1, <1>3 DEF Product
  <2> HIDE DEF inputs
  <2> QED
    BY <1>1, <2>1, MergePast
<1> QED
  BY <1>2, <1>3

LEMMA TextPast ==
  ASSUME Phases, Dated, NEW r \in Codegen, job[r] = "running", NEW f
  PROVE  Past(Text(r, f))
BY Kinds DEF Phases, Dated, Text, Project, Past

\* Contents stay past when the sources only advance.
LEMMA StillPast ==
  ASSUME Typing, Typing', \A x \in Facets : src[x] <= src'[x], NEW c \in Content \cup {Absent, Broken}, Past(c)
  PROVE  \A x \in Facets : c \in Content => \A v \in c[x] : v <= src'[x]
<1> SUFFICES ASSUME NEW x \in Facets, c \in Content, NEW v \in c[x] PROVE v <= src'[x]
  OBVIOUS
<1>1. v \in Nat /\ src[x] \in Nat /\ src'[x] \in Nat
  BY VersionNat DEF Typing, Content
<1>2. v <= src[x]
  BY DEF Past
<1> QED
  BY <1>1, <1>2

LEMMA MarksPast == Past(Absent) /\ Past(Broken)
BY MarksAssumption DEF Past

LEMMA EditDated ==
  ASSUME Typing, Typing', Dated,
         \A x \in Facets : src'[x] \in {src[x], src[x] + 1},
         UNCHANGED got,
         \A f \in Files : file'[f] = file[f] \/ file'[f] \in {SourceContent("input")', SourceContent("json")'}
  PROVE  Dated'
<1>1. ASSUME NEW x \in Facets PROVE src[x] <= src'[x] /\ src'[x] \in Nat
  <2>1. src[x] \in Nat
    BY VersionNat DEF Typing
  <2> QED
    BY <2>1
<1>2. ASSUME NEW s \in {SourceContent("input")', SourceContent("json")'}, NEW x \in Facets, NEW v \in s[x]
      PROVE  v <= src'[x]
  <2>1. v = src'[x]
    BY <1>2 DEF SourceContent, Holding
  <2> QED
    BY <1>1, <2>1
<1>3. ASSUME NEW f \in Files PROVE Past(file[f])'
  BY <1>1, <1>2, StillPast DEF Past, Dated, Typing
<1>4. ASSUME NEW r \in Rules PROVE Past(got[r])'
  BY <1>1, StillPast DEF Past, Dated, Typing
<1> QED
  BY <1>3, <1>4 DEF Dated

LEMMA HoldingPast == ASSUME Typing, NEW fs PROVE Past(Holding(fs))
<1> DEFINE c == Holding(fs)
<1>1. ASSUME NEW x \in Facets, NEW v \in c[x] PROVE v <= src[x]
  <2>1. v = src[x] /\ src[x] \in Nat
    BY <1>1, VersionNat DEF Holding, Typing
  <2> QED
    BY <2>1
<1> HIDE DEF c
<1>2. Past(c)
  BY <1>1 DEF Past
<1> QED
  BY <1>2 DEF c

\* A step that leaves the sources alone and writes nothing but past contents.
LEMMA WriteDated ==
  ASSUME Dated, src' = src,
         \A f \in Files : file'[f] = file[f] \/ Past(file'[f]),
         \A r \in Rules : got'[r] = got[r] \/ Past(got'[r])
  PROVE  Dated'
BY DEF Dated, Past

LEMMA DatedStep ==
  ASSUME Typing, Phases, Dated, [Next]_vars, Typing'
  PROVE  Dated'
<1>1. ASSUME NEW f \in Facets, Edit(f) PROVE Dated'
  <2>1. \A x \in Facets : src'[x] \in {src[x], src[x] + 1}
    BY <1>1 DEF Edit, Typing
  <2>2. \A g \in Files : file'[g] = file[g] \/ file'[g] \in {SourceContent("input")', SourceContent("json")'}
    BY <1>1 DEF Edit, Typing
  <2> QED
    BY <1>1, <2>1, <2>2, EditDated DEF Edit, NoJob
<1>2. ASSUME NEW list \in BackendLists, EditBackends(list) PROVE Dated'
  <2>1. \A x \in Facets : src'[x] \in {src[x], src[x] + 1}
    BY <1>2 DEF EditBackends, Typing
  <2>2. \A g \in Files : file'[g] = file[g] \/ file'[g] \in {SourceContent("input")', SourceContent("json")'}
    BY <1>2 DEF EditBackends, Typing
  <2> QED
    BY <1>2, <2>1, <2>2, EditDated DEF EditBackends, NoJob
<1>3. CASE Start
  <2>1. \A f \in Files : file'[f] = file[f] \/ file'[f] = Holding({"decl"})
    BY <1>3 DEF Start, Typing
  <2> QED
    BY <1>3, <2>1, HoldingPast, WriteDated DEF Start
<1>4. CASE Skip \/ End \/ UNCHANGED vars
  BY <1>4 DEF Skip, End, vars, Dated, Past
<1>5. ASSUME NEW all \in BOOLEAN, Clean(all) PROVE Dated'
  <2>1. \A f \in Files : file'[f] = file[f] \/ file'[f] = Absent
    BY <1>5 DEF Clean
  <2> QED
    BY <1>5, <2>1, MarksPast, WriteDated DEF Clean, NoJob
<1>6. ASSUME NEW r \in Rules, RuleStep(r) PROVE Dated'
  <2> USE ProductPast
  <2>1. CASE Run(r)
    <3>1. \A f \in Files : file'[f] = file[f] \/ file'[f] = Product(r)
      BY <2>1 DEF Run
    <3> QED
      BY <2>1, <3>1, WriteDated DEF Run
  <2>2. CASE Launch(r)
    <3>1. \A q \in Rules : got'[q] = got[q] \/ got'[q] = Product(r)
      BY <2>2 DEF Launch, Typing
    <3> QED
      BY <2>2, <3>1, WriteDated DEF Launch
  <2>3. CASE Finish(r)
    <3>1. /\ \A f \in Files : file'[f] = file[f] \/ file'[f] = got[r]
          /\ \A q \in Rules : got'[q] = got[q] \/ got'[q] = Absent
      BY <2>3 DEF Finish, Typing
    <3>2. Past(got[r])
      BY DEF Dated
    <3> QED
      BY <2>3, <3>1, <3>2, MarksPast, WriteDated DEF Finish
  <2>4. CASE Fail(r)
    <3>1. /\ \A f \in Files : file'[f] = file[f] \/ file'[f] = Product(r)
          /\ \A q \in Rules : got'[q] = got[q] \/ got'[q] = Absent
      BY <2>4 DEF Fail, Typing
    <3> QED
      BY <2>4, <3>1, MarksPast, WriteDated DEF Fail
  <2>5. CASE EmitSame(r) \/ EmitChanged(r)
    BY <2>5 DEF EmitSame, EmitChanged, Dated, Past
  <2>6. CASE EmitOpen(r) \/ EmitWrite(r)
    <3>1. \A f \in Files : file'[f] = file[f] \/ file'[f] \in {Broken, Text(r, emitted[r][2])}
      BY <2>6 DEF EmitOpen, EmitWrite, Typing
    <3>2. Past(Text(r, emitted[r][2]))
      BY <2>6, TextPast DEF EmitOpen, EmitWrite, Emitting
    <3> QED
      BY <2>6, <3>1, <3>2, MarksPast, WriteDated DEF EmitOpen, EmitWrite
  <2>7. CASE EmitDone(r)
    <3>1. \A q \in Rules : got'[q] = got[q] \/ got'[q] = Absent
      BY <2>7 DEF EmitDone, Typing
    <3> QED
      BY <2>7, <3>1, MarksPast, WriteDated DEF EmitDone
  <2> QED
    BY <1>6, <2>1, <2>2, <2>3, <2>4, <2>5, <2>6, <2>7 DEF RuleStep
<1> QED
  BY <1>1, <1>2, <1>3, <1>4, <1>5, <1>6 DEF Next

\* What a step of the make that runs writes: never a source or config.mk; a file
\* of codegen's, or targets of one rule; the sources stay.
Writes(fs) ==
  /\ UNCHANGED <<src, backends>> /\ newer' = Touch(fs)
  /\ \A f \in Files \ fs : file'[f] = file[f]

LEMMA NothingWritten ==
  ASSUME Typing, UNCHANGED <<src, backends, file, newer>>
  PROVE  Writes({})
BY DEF Writes, Touch

LEMMA RuleWrites ==
  ASSUME Typing, Phases, NEW r \in Rules, RuleStep(r)
  PROVE  \E fs \in SUBSET Files :
           /\ Writes(fs) /\ make # "off" /\ make' # "off"
           /\ \/ Run(r) /\ fs = Targets[r] /\ \A f \in fs : file'[f] = Product(r)
              \/ Launch(r) /\ fs = {}
              \/ Finish(r) /\ fs = Targets[r] /\ \A f \in fs : file'[f] = got[r]
              \/ Fail(r) /\ fs \in {{}, Targets[r] \cap {"stateA", "stateV"}} /\ \A f \in fs : file'[f] = Product(r)
              \/ (EmitSame(r) \/ EmitChanged(r) \/ EmitDone(r)) /\ fs = {}
              \/ EmitOpen(r) /\ fs = {emitted[r][2]} /\ fs \subseteq Written /\ file'[emitted[r][2]] = Broken
              \/ EmitWrite(r) /\ fs = {emitted[r][2]} /\ fs \subseteq Written
                 /\ file'[emitted[r][2]] = Text(r, emitted[r][2])
<1>0. job[r] # "idle" => make # "off"
  BY DEF Phases
<1>1. CASE Run(r)
  <2>1. Writes(Targets[r]) /\ make # "off" /\ make' # "off" /\ \A f \in Targets[r] : file'[f] = Product(r)
    BY <1>1, OneMaker DEF Run, Ready, Writes
  <2> QED
    BY <1>1, <2>1, OneMaker
<1>2. CASE Launch(r)
  <2>1. Writes({}) /\ make # "off" /\ make' # "off"
    BY <1>2, NothingWritten DEF Launch, Ready
  <2> QED
    BY <1>2, <2>1
<1>3. CASE Finish(r)
  <2>1. Writes(Targets[r]) /\ make # "off" /\ make' # "off" /\ \A f \in Targets[r] : file'[f] = got[r]
    BY <1>0, <1>3, OneMaker DEF Finish, Writes
  <2> QED
    BY <1>3, <2>1, OneMaker
<1>4. CASE Fail(r)
  <2>1. PICK written \in {{}, Targets[r] \cap {"stateA", "stateV"}} :
           /\ file' = [f \in Files |-> IF f \in written THEN Product(r) ELSE file[f]]
           /\ newer' = Touch(written)
    BY <1>4 DEF Fail
  <2>2. make # "off" /\ make' # "off" /\ UNCHANGED <<src, backends>>
    BY <1>0, <1>4 DEF Fail, Ready
  <2>3. written \subseteq Files
    BY OneMaker
  <2>4. Writes(written) /\ \A f \in written : file'[f] = Product(r)
    BY <2>1, <2>2, <2>3 DEF Writes
  <2> QED
    BY <1>4, <2>2, <2>3, <2>4
<1>5. CASE EmitSame(r) \/ EmitChanged(r) \/ EmitDone(r)
  <2>1. Writes({}) /\ make # "off" /\ make' # "off"
    BY <1>0, <1>5, NothingWritten DEF EmitSame, EmitChanged, EmitDone, Emitting
  <2> QED
    BY <1>5, <2>1
<1>6. CASE EmitOpen(r) \/ EmitWrite(r)
  <2>1. r \in Codegen /\ emitted[r][2] \in Written /\ emitted[r][2] \in Files
    BY <1>6, PlanSteps, WrittenFiles DEF EmitOpen, EmitWrite, Emitting, Typing
  <2>2. make # "off" /\ make' # "off" /\ Writes({emitted[r][2]})
    BY <1>0, <1>6, <2>1 DEF EmitOpen, EmitWrite, Emitting, Writes, Typing
  <2>3. IF EmitOpen(r) THEN file'[emitted[r][2]] = Broken ELSE file'[emitted[r][2]] = Text(r, emitted[r][2])
    BY <1>6, <2>1 DEF EmitOpen, EmitWrite, Typing
  <2> QED
    BY <1>6, <2>1, <2>2, <2>3
<1> QED
  BY <1>1, <1>2, <1>3, <1>4, <1>5, <1>6 DEF RuleStep

LEMMA InputsStep ==
  ASSUME Typing, Phases, Inputs, [Next]_vars
  PROVE  Inputs'
<1>1. /\ {"input", "json", "config"} \subseteq Files /\ Sources = {"input", "json"}
      /\ \A f \in Sources : SourceContent(f) = Goal(f) /\ SourceContent(f)' = Goal(f)'
  BY FileNames DEF Sources, SourceContent, Goal, From
<1>2. CASE \E f \in Facets : Edit(f)
  <2>1. make' = "off" /\ file'["input"] = SourceContent("input")' /\ file'["json"] = SourceContent("json")'
    BY <1>1, <1>2 DEF Edit, NoJob, Typing
  <2> QED
    BY <1>1, <2>1 DEF Inputs, Current
<1>3. CASE \E list \in BackendLists : EditBackends(list)
  <2>1. /\ make' = "off" /\ file'["json"] = SourceContent("json")' /\ file'["input"] = file["input"]
        /\ \A x \in {"logic", "ports"} : src'[x] = src[x]
    BY <1>1, <1>3, FacetNames DEF EditBackends, NoJob, Typing
  <2>2. Goal("input")' = Goal("input")
    BY <2>1 DEF Goal, From, Holding
  <2> QED
    BY <1>1, <2>1, <2>2 DEF Inputs, Current
<1>4. CASE Start
  <2>1. file'["config"] = Goal("config") /\ \A f \in Sources : file'[f] = file[f]
    BY <1>1, <1>4 DEF Start, Typing, Goal, From
  <2>2. src' = src
    BY <1>4 DEF Start
  <2> QED
    BY <1>1, <2>1, <2>2 DEF Inputs, Current, Goal, Holding
<1>5. ASSUME UNCHANGED src, make' # "off" => make # "off",
             \A f \in Sources : file'[f] = file[f],
             make' # "off" => file'["config"] = file["config"]
      PROVE  Inputs'
  BY <1>5 DEF Inputs, Current, Goal, Holding
<1>6. CASE Skip \/ End \/ UNCHANGED vars
  BY <1>5, <1>6 DEF Skip, End, vars
<1>7. ASSUME NEW r \in Rules, RuleStep(r) PROVE Inputs'
  <2>1. PICK fs \in SUBSET Files : Writes(fs) /\ make # "off" /\ fs \cap (Sources \cup {"config"}) = {}
    <3>1. \A fs : \/ fs = {}
                  \/ fs = Targets[r]
                  \/ fs \in {{}, Targets[r] \cap {"stateA", "stateV"}}
                  \/ fs \subseteq Written
                  => fs \cap (Sources \cup {"config"}) = {}
      BY WrittenFiles
    <3> QED
      BY <1>7, <3>1, RuleWrites
  <2> QED
    BY <1>1, <1>5, <2>1 DEF Writes
<1>8. ASSUME NEW all \in BOOLEAN, Clean(all) PROVE Inputs'
  BY <1>1, <1>5, <1>8 DEF Clean, NoJob
<1> QED
  BY <1>2, <1>3, <1>4, <1>6, <1>7, <1>8 DEF Next

LEMMA StatesStep ==
  ASSUME Typing, Phases, States, [Next]_vars
  PROVE  States'
<1>1. {"stateA", "stateV"} \subseteq Files /\ {"stateA", "stateV"} \cap {"input", "json", "config"} = {}
  BY FileNames
<1>2. ASSUME \A f \in {"stateA", "stateV"} : file'[f] = file[f],
             job'["arcilate"] = "done" => job["arcilate"] = "done",
             job'["extractV"] = "done" => job["extractV"] = "done"
      PROVE  States'
  BY <1>2 DEF States
<1>3. ASSUME NEW f \in Facets, Edit(f) PROVE States'
  BY <1>1, <1>2, <1>3 DEF Edit, NoJob, Typing
<1>4. ASSUME NEW list \in BackendLists, EditBackends(list) PROVE States'
  BY <1>1, <1>2, <1>4 DEF EditBackends, NoJob, Typing
<1>5. CASE Start
  BY <1>1, <1>2, <1>5, RuleNames DEF Start, Typing
<1>6. CASE Skip
  BY <1>2, <1>6, RuleNames DEF Skip, Typing
<1>7. CASE End \/ UNCHANGED vars
  BY <1>2, <1>7, RuleNames DEF End, vars
<1>8. ASSUME NEW all \in BOOLEAN, Clean(all) PROVE States'
  <2>1. job["arcilate"] = "idle" /\ job["extractV"] = "idle" /\ job' = job
    BY <1>8, RuleNames DEF Clean, NoJob, Phases
  <2>2. \A f \in {"stateA", "stateV"} : file'[f] \in {file[f], Absent}
    BY <1>1, <1>8 DEF Clean
  <2> QED
    BY <2>1, <2>2, MarksAssumption DEF States
<1>9. ASSUME NEW r \in Rules, RuleStep(r) PROVE States'
  <2>1. /\ job \in [Rules -> {"idle", "waiting", "running", "done"}]
        /\ "arcilate" \in Rules \ (Codegen \cup Compilers) /\ "extractV" \in Rules \ (Codegen \cup Compilers)
    BY RuleNames DEF Typing, Codegen, Compilers
  <2>2. CASE Run(r)
    <3>1. Product(r) # Broken /\ Product(r) # Absent
      BY <2>2, ProductContent, MarksAssumption DEF Run
    <3>2. \A f \in {"stateA", "stateV"} : file'[f] = IF f \in Targets[r] THEN Product(r) ELSE file[f]
      BY <1>1, <2>2 DEF Run
    <3>3. \A q \in Rules : job'[q] = "done" => q = r \/ job[q] = "done"
      BY <2>1, <2>2 DEF Run
    <3> QED
      BY <2>1, <3>1, <3>2, <3>3, TargetTable DEF States
  <2>3. CASE Fail(r)
    <3>1. PICK written \in {{}, Targets[r] \cap {"stateA", "stateV"}} :
             /\ (IF job[r] = "running" THEN got[r] = Broken ELSE Product(r) = Broken) => written = {}
             /\ file' = [f \in Files |-> IF f \in written THEN Product(r) ELSE file[f]]
      BY <2>3 DEF Fail
    <3>2. job[r] = "running" => written = {}
      <4>1. ASSUME r \in Codegen \cup Compilers PROVE Targets[r] \cap {"stateA", "stateV"} = {}
        BY <4>1, Kinds, TargetTable
      <4> QED
        BY <3>1, <4>1 DEF Phases
    <3>3. \A f \in written : file'[f] # Broken /\ file'[f] # Absent
      BY <1>1, <3>1, <3>2, ProductContent, MarksAssumption
    <3>4. \A f \in {"stateA", "stateV"} \ written : file'[f] = file[f]
      BY <1>1, <3>1
    <3>5. \A q \in Rules : job'[q] = "done" => job[q] = "done"
      BY <2>3 DEF Fail
    <3> QED
      BY <2>1, <3>1, <3>3, <3>4, <3>5 DEF States
  <2>4. CASE Launch(r) \/ EmitSame(r) \/ EmitChanged(r) \/ EmitDone(r)
    BY <1>2, <2>1, <2>4 DEF Launch, EmitSame, EmitChanged, EmitDone, Emitting
  <2>5. CASE Finish(r) \/ EmitOpen(r) \/ EmitWrite(r)
    <3>1. PICK f : \E fs \in {{f}, Targets[r]} :
                     /\ fs \cap {"stateA", "stateV"} = {}
                     /\ \A g \in Files \ fs : file'[g] = file[g]
      <4>1. CASE Finish(r)
        BY <4>1, WrittenFiles DEF Finish
      <4>2. CASE EmitOpen(r) \/ EmitWrite(r)
        <5>1. emitted[r][2] \in Written
          BY <4>2, PlanSteps DEF EmitOpen, EmitWrite, Emitting, Typing
        <5>2. {emitted[r][2]} \cap {"stateA", "stateV"} = {}
          BY <5>1, WrittenFiles
        <5> QED
          BY <4>2, <5>2 DEF EmitOpen, EmitWrite, Typing
      <4> QED
        BY <2>5, <4>1, <4>2
    <3>2. \A q \in Rules \ (Codegen \cup Compilers) : job'[q] = job[q]
      BY <2>1, <2>5 DEF Finish, EmitOpen, EmitWrite
    <3> QED
      BY <1>1, <1>2, <2>1, <3>1, <3>2
  <2> QED
    BY <1>9, <2>2, <2>3, <2>4, <2>5 DEF RuleStep
<1> QED
  BY <1>3, <1>4, <1>5, <1>6, <1>7, <1>8, <1>9 DEF Next

----------------------------------------------------------------------------
(* The steps of Extractions. *)

LEMMA GoalSame ==
  ASSUME NEW f, \A x \in From(f) : src'[x] = src[x]
  PROVE  Goal(f)' = Goal(f)
BY DEF Goal, Holding

LEMMA GoalStays == ASSUME src' = src, NEW f PROVE Goal(f)' = Goal(f)
BY DEF Goal, Holding

\* A file that holds a facet which is edited is current no more.
LEMMA LeftBehind ==
  ASSUME Typing, Typing', Dated, NEW f \in Files, NEW x \in From(f), x \in Facets,
         src'[x] = src[x] + 1, file'[f] = file[f]
  PROVE  ~Current(f)'
<1> SUFFICES ASSUME Current(f)' PROVE FALSE
  OBVIOUS
<1>1. file[f] = Holding(From(f))'
  BY DEF Current, Goal
<1>2. file[f][x] = {src'[x]}
  BY <1>1 DEF Holding
<1>3. Holding(From(f))' \in Content
  <2>1. \A fs : [y \in Facets |-> IF y \in fs THEN {src'[y]} ELSE {}] \in [Facets -> SUBSET Versions]
    BY DEF Typing
  <2> QED
    BY <2>1 DEF Holding, Content
<1>4. src'[x] <= src[x]
  BY <1>1, <1>2, <1>3 DEF Dated, Past
<1>5. src[x] \in Nat
  BY VersionNat DEF Typing
<1> QED
  BY <1>4, <1>5

LEMMA ExtractionFiles ==
  /\ {"input", "design", "config", "hwA", "hwV", "stateV"} \subseteq Files
  /\ From("design") = {"logic", "ports"} /\ From("config") = {"decl"}
  /\ \A t \in {"hwA", "hwV", "stateV"} : From(t) = Unit
BY FileNames DEF From

\* A step that writes none of the files concerned.
LEMMA ExtractionsApart ==
  ASSUME Extractions, NEW fs, Writes(fs),
         fs \cap {"input", "design", "config", "hwA", "hwV", "stateV"} = {},
         job'["lower"] = "done" => job["lower"] = "done"
  PROVE  Extractions'
<1>1. \A f \in {"design", "config", "hwA", "hwV", "stateV"} : file'[f] = file[f] /\ Goal(f)' = Goal(f)
  BY ExtractionFiles, GoalStays DEF Writes
<1>2. \A p \in {"input", "design", "config"}, t \in {"design", "hwA", "hwV", "stateV"} :
        <<p, t>> \in newer' <=> <<p, t>> \in newer
  <2> SUFFICES ASSUME NEW p \in {"input", "design", "config"}, NEW t \in {"design", "hwA", "hwV", "stateV"}
               PROVE  <<p, t>> \in newer' <=> <<p, t>> \in newer
    OBVIOUS
  <2>1. p \notin fs /\ t \notin fs
    OBVIOUS
  <2> QED
    BY <2>1, Touched DEF Writes
<1> QED
  BY <1>1, <1>2 DEF Extractions, Lowered, Current

LEMMA EditExtractions ==
  ASSUME Typing, Typing', Phases, Dated, Extractions, NEW f \in Facets, Edit(f)
  PROVE  Extractions'
<1>1. /\ \A t \in {"design", "config", "hwA", "hwV", "stateV"} : file'[t] = file[t]
      /\ job' = job /\ job["lower"] = "idle"
  BY FileNames, RuleNames DEF Edit, NoJob, Typing, Phases
<1>2. src' = [src EXCEPT ![f] = src[f] + 1] /\ src \in [Facets -> Versions]
  BY DEF Edit, Typing
<1>3. CASE f \in {"logic", "ports"}
  <2>1. \A t \in {"hwA", "hwV", "stateV"} : ~Current(t)'
    BY <1>1, <1>2, <1>3, LeftBehind, ExtractionFiles DEF Unit
  <2>2. <<"input", "design">> \in newer'
    <3>1. newer' = Touch({"input"})
      BY <1>3 DEF Edit
    <3> QED
      BY <3>1, Touched, DesignEdges
  <2> QED
    BY <1>1, <2>1, <2>2 DEF Extractions
<1>4. CASE f = "decl"
  <2>1. \A t \in {"hwA", "hwV", "stateV"} : ~Current(t)'
    BY <1>1, <1>2, <1>4, LeftBehind, ExtractionFiles DEF Unit
  <2>2. newer' = newer
    BY <1>4 DEF Edit
  <2>3. Goal("design")' = Goal("design")
    BY <1>2, <1>4, GoalSame, ExtractionFiles, FacetNames
  <2> QED
    BY <1>1, <2>1, <2>2, <2>3 DEF Extractions, Lowered, Current
<1>5. CASE f = "freq"
  <2>1. newer' = newer
    BY <1>5 DEF Edit
  <2>2. \A t \in {"design", "config", "hwA", "hwV", "stateV"} : Goal(t)' = Goal(t)
    BY <1>2, <1>5, GoalSame, ExtractionFiles, FacetNames DEF Unit
  <2> QED
    BY <1>1, <2>1, <2>2 DEF Extractions, Lowered, Current
<1> QED
  BY <1>3, <1>4, <1>5, FacetNames

LEMMA EditBackendsExtractions ==
  ASSUME Typing, Typing', Phases, Dated, Extractions, NEW list \in BackendLists, EditBackends(list)
  PROVE  Extractions'
<1>1. /\ \A t \in {"design", "config", "hwA", "hwV", "stateV"} : file'[t] = file[t]
      /\ job' = job /\ job["lower"] = "idle" /\ newer' = newer
  BY FileNames, RuleNames DEF EditBackends, NoJob, Typing, Phases
<1>2. src' = [src EXCEPT !["decl"] = src["decl"] + 1] /\ src \in [Facets -> Versions] /\ "decl" \in Facets
  BY FacetNames DEF EditBackends, Typing
<1>3. \A t \in {"hwA", "hwV", "stateV"} : ~Current(t)'
  BY <1>1, <1>2, LeftBehind, ExtractionFiles DEF Unit
<1>4. Goal("design")' = Goal("design")
  BY <1>2, GoalSame, ExtractionFiles, FacetNames
<1> QED
  BY <1>1, <1>3, <1>4 DEF Extractions, Lowered, Current

LEMMA StartExtractions ==
  ASSUME Typing, Phases, Extractions, Start
  PROVE  Extractions'
<1>1. /\ \A t \in {"design", "hwA", "hwV", "stateV"} : file'[t] = file[t] /\ Goal(t)' = Goal(t)
      /\ Goal("config")' = Goal("config")
  BY FileNames, GoalStays DEF Start, Typing
<1>2. file'["config"] = Goal("config")
  BY FileNames, ExtractionFiles DEF Start, Typing, Goal
<1>3. job'["lower"] # "done"
  BY RuleNames DEF Start
<1>4. CASE file["config"] = Goal("config")
  <2>1. newer' = newer
    BY <1>4, ExtractionFiles DEF Start, Differs, Goal
  <2> QED
    BY <1>1, <1>2, <1>3, <1>4, <2>1 DEF Extractions, Lowered, Current
<1>5. CASE file["config"] # Goal("config")
  <2>1. \A t \in {"hwA", "hwV", "stateV"} : ~Current(t)'
    BY <1>1, <1>5 DEF Extractions, Current
  <2>2. newer' = Touch({"config"})
    BY <1>5, ExtractionFiles DEF Start, Differs, Goal
  <2>3. <<"input", "design">> \in newer' <=> <<"input", "design">> \in newer
    BY <2>2, Touched
  <2> QED
    BY <1>1, <1>3, <2>1, <2>3 DEF Extractions, Lowered, Current
<1> QED
  BY <1>4, <1>5

LEMMA CleanExtractions ==
  ASSUME Typing, Phases, Extractions, NEW all \in BOOLEAN, Clean(all)
  PROVE  Extractions'
<1>1. \A t \in {"design", "hwA", "hwV", "stateV"} : file'[t] = Absent
  BY FileNames DEF Clean, Sources
<1>2. job'["lower"] = "idle" /\ src' = src
  BY RuleNames DEF Clean, NoJob, Phases
<1>3. \A t : Goal(t)' # Absent
  BY <1>2, GoalStays, GoalContent DEF Typing
<1> QED
  BY <1>1, <1>2, <1>3 DEF Extractions, Current

\* What a rule makes of current files.
LEMMA ProductOfCurrent ==
  ASSUME Typing, NEW r \in Rules \ Codegen, \A f \in Reads(r) : Current(f), NEW t \in Targets[r]
  PROVE  Product(r) = Goal(t)
<1>1. \A f \in Reads(r) : file[f] # Absent /\ file[f] # Broken
  BY GoalContent DEF Current, Typing
<1>2. Product(r) = Merge({file[f] : f \in Reads(r)})
  BY <1>1 DEF Product
<1> QED
  BY <1>2, MergeCurrent, Makes, FirstIsBackend DEF Goal

\* When the extraction of a unit is ready, the design is lowered.
LEMMA ReadyLowered ==
  ASSUME Typing, Phases, Extractions, NEW r \in Rules \ {"lower"}, Ready(r)
  PROVE  Lowered
<1> USE FirstIsBackend
<1>1. Settled("lower")
  BY ReadyFeeds, FeedTable
<1>2. CASE job["lower"] = "done"
  BY <1>2 DEF Extractions
<1>3. CASE job["lower"] # "done"
  <2>1. file["design"] # Absent /\ <<"input", "design">> \notin newer
    BY <1>1, <1>3, SettledTargets, RuleNames, TargetTable, NeedTable
  <2> QED
    BY <2>1 DEF Extractions
<1> QED
  BY <1>2, <1>3

LEMMA LowerExtractions ==
  ASSUME Typing, Phases, Inputs, Extractions, Run("lower")
  PROVE  Extractions'
<1> USE FirstIsBackend, RuleNames, TargetTable
<1>1. /\ file'["design"] = Product("lower") /\ newer' = Touch({"design"}) /\ src' = src
      /\ \A t \in {"hwA", "hwV", "stateV", "config"} : file'[t] = file[t]
  BY FileNames DEF Run, Typing
<1>2. Product("lower") = Goal("design")
  BY ProductOfCurrent, ReadTable DEF Codegen, Inputs, Sources
<1>3. Lowered'
  BY <1>1, <1>2, GoalStays, Touched DEF Lowered, Current
<1>4. ~Lowered
  <2>1. OutOfDate("lower")
    BY DEF Run, Ready, Due, Codegen
  <2>2. Needs("lower") = {"input"}
    BY NeedTable DEF Needs
  <2>3. file["design"] = Absent \/ <<"input", "design">> \in newer
    BY <2>1, <2>2 DEF OutOfDate
  <2> QED
    BY <2>3, GoalContent DEF Lowered, Current, Typing
<1>5. \A t \in {"hwA", "hwV", "stateV"} : ~Current(t)'
  BY <1>1, <1>4, GoalStays DEF Extractions, Current
<1> QED
  BY <1>3, <1>5 DEF Extractions

\* Writing outputs of an extraction that is ready.
LEMMA ExtractExtractions ==
  ASSUME Typing, Phases, Inputs, Extractions, NEW r \in {"extractA", "extractV"}, Ready(r),
         NEW fs \in SUBSET Targets[r], Writes(fs), 
         make' # "off", Inputs', job'["lower"] = "done" => job["lower"] = "done"
  PROVE  Extractions'
<1>1. Lowered
  BY ReadyLowered, RuleNames
<1>2. fs \subseteq {"hwA", "hwV", "stateV"}
  BY TargetTable
<1>3. Lowered' /\ Current("config")'
  <2>1. "input" \notin fs /\ "design" \notin fs
    BY <1>2
  <2> QED
    BY <1>1, <2>1, GoalStays, ExtractionFiles, Touched DEF Writes, Lowered, Current, Inputs
<1>4. ASSUME NEW t \in {"hwA", "hwV", "stateV"}, Current(t)', NEW p \in {"design", "config"}
      PROVE  <<p, t>> \notin newer'
  <2>1. p \notin fs
    BY <1>2
  <2>2. CASE t \in fs
    BY <2>2, Touched DEF Writes
  <2>3. CASE t \notin fs
    <3>1. Current(t)
      BY <1>4, <2>3, GoalStays, ExtractionFiles DEF Writes, Current
    <3> QED
      BY <2>1, <2>3, <3>1, Touched DEF Writes, Extractions
  <2> QED
    BY <2>2, <2>3
<1> QED
  BY <1>3, <1>4 DEF Extractions

\* What each step of a rule writes, in cases that exclude each other.
LEMMA RuleCases ==
  ASSUME Typing, Phases, NEW r \in Rules, RuleStep(r)
  PROVE  \/ Run(r) /\ Writes(Targets[r])
         \/ Fail(r) /\ \E fs \in {{}, Targets[r] \cap {"stateA", "stateV"}} : Writes(fs)
         \/ Launch(r) /\ Writes({})
         \/ Finish(r) /\ Writes(Targets[r])
         \/ (EmitSame(r) \/ EmitChanged(r) \/ EmitDone(r)) /\ Writes({})
         \/ (EmitOpen(r) \/ EmitWrite(r)) /\ Writes({emitted[r][2]}) /\ emitted[r][2] \in Written
BY RuleWrites

LEMMA RuleExtractions ==
  ASSUME Typing, Phases, Inputs, Inputs', Extractions, NEW r \in Rules, RuleStep(r)
  PROVE  Extractions'
<1> DEFINE concerned == {"input", "design", "config", "hwA", "hwV", "stateV"}
<1>1. /\ job \in [Rules -> {"idle", "waiting", "running", "done"}]
      /\ "lower" \in Rules \ (Codegen \cup Compilers) /\ make # "off" /\ make' # "off"
  BY RuleNames, RuleWrites DEF Typing, Codegen, Compilers
<1>2. CASE Run(r) /\ Writes(Targets[r])
  <2>1. CASE r = "lower"
    BY <1>2, <2>1, LowerExtractions
  <2>2. CASE r \in {"extractA", "extractV"}
    <3>1. Ready(r) /\ (job'["lower"] = "done" => job["lower"] = "done")
      BY <1>1, <1>2, <2>2 DEF Run
    <3> QED
      BY <1>1, <1>2, <2>2, <3>1, ExtractExtractions
  <2>3. CASE r \notin {"lower", "extractA", "extractV"}
    <3>1. Targets[r] \cap concerned = {}
      BY <2>3, RuleNames, TargetTable
    <3>2. job'["lower"] = "done" => job["lower"] = "done"
      BY <1>1, <1>2, <2>3 DEF Run
    <3> QED
      BY <1>2, <3>1, <3>2, ExtractionsApart
  <2> QED
    BY <2>1, <2>2, <2>3
<1>3. CASE Fail(r) /\ \E fs \in {{}, Targets[r] \cap {"stateA", "stateV"}} : Writes(fs)
  <2>1. PICK fs \in {{}, Targets[r] \cap {"stateA", "stateV"}} : Writes(fs)
    BY <1>3
  <2>2. job'["lower"] = "done" => job["lower"] = "done"
    BY <1>1, <1>3 DEF Fail
  <2>3. CASE fs \cap concerned = {}
    BY <2>1, <2>2, <2>3, ExtractionsApart
  <2>4. CASE fs \cap concerned # {}
    <3>1. r = "extractV"
      BY <2>1, <2>4, RuleNames, TargetTable
    <3>2. Ready(r)
      BY <1>3, <3>1 DEF Fail, Phases, Codegen, Compilers
    <3>3. fs \in SUBSET Targets[r]
      BY <2>1
    <3> QED
      BY <1>1, <2>1, <2>2, <3>1, <3>2, <3>3, ExtractExtractions
  <2> QED
    BY <2>3, <2>4
<1>4. CASE (Launch(r) \/ EmitSame(r) \/ EmitChanged(r) \/ EmitDone(r)) /\ Writes({})
  <2>1. job'["lower"] = job["lower"]
    BY <1>1, <1>4 DEF Launch, EmitSame, EmitChanged, EmitDone, Emitting
  <2> QED
    BY <1>4, <2>1, ExtractionsApart
<1>5. CASE Finish(r) /\ Writes(Targets[r])
  <2>1. job'["lower"] = job["lower"] /\ Targets[r] \cap concerned = {}
    BY <1>1, <1>5, TargetTable, Kinds DEF Finish
  <2> QED
    BY <1>5, <2>1, ExtractionsApart
<1>6. CASE (EmitOpen(r) \/ EmitWrite(r)) /\ Writes({emitted[r][2]}) /\ emitted[r][2] \in Written
  <2>1. job'["lower"] = job["lower"] /\ {emitted[r][2]} \cap concerned = {}
    BY <1>6 DEF EmitOpen, EmitWrite, Written
  <2> QED
    BY <1>6, <2>1, ExtractionsApart
<1> QED
  BY <1>2, <1>3, <1>4, <1>5, <1>6, RuleCases

LEMMA ExtractionsStep ==
  ASSUME TInv, [Next]_vars, Typing', Inputs'
  PROVE  Extractions'
<1> USE DEF TInv
<1>1. ASSUME UNCHANGED <<src, backends, file, newer>>, job'["lower"] = "done" => job["lower"] = "done"
      PROVE  Extractions'
  BY <1>1, NothingWritten, ExtractionsApart
<1>2. CASE Skip \/ End \/ UNCHANGED vars
  BY <1>1, <1>2, RuleNames DEF Skip, End, vars, Typing
<1> QED
  BY <1>2, EditExtractions, EditBackendsExtractions, StartExtractions, CleanExtractions, RuleExtractions
     DEF Next

----------------------------------------------------------------------------
(* The theorems that hold whatever is edited and whatever fails. *)

LEMMA TInit ==
  ASSUME Init
  PROVE  TInv
<1>1. 0 \in Versions /\ src \in [Facets -> Versions] /\ \A x \in Facets : src[x] = 0
  BY BuildAssumption DEF Init, Versions
<1>2. \A f : SourceContent(f) \in Content /\ SourceContent(f) # Absent /\ SourceContent(f) # Broken
  BY <1>1, HoldingContent DEF SourceContent
<1>3. \A f \in Files : file[f] = IF f \in Sources THEN SourceContent(f) ELSE Absent
  BY DEF Init
<1>4. Typing
  BY <1>1, <1>2 DEF Init, Typing, Plans
<1>5. Phases
  BY Kinds DEF Init, Phases
<1>6. Dated
  BY <1>3, <1>4, HoldingPast, MarksPast DEF Init, Dated, SourceContent
<1>7. Inputs
  BY <1>3, WrittenFiles DEF Init, Inputs, Current, Goal, SourceContent, Sources, From
<1>8. States
  BY <1>3, FileNames, MarksAssumption, RuleNames DEF Init, States, Sources
<1>9. Extractions
  <2>1. \A t \in {"design", "hwA", "hwV", "stateV"} : file[t] = Absent
    BY <1>3, FileNames DEF Sources
  <2> QED
    BY <1>1, <2>1, GoalContent, RuleNames DEF Init, Extractions, Current
<1> QED
  BY <1>4, <1>5, <1>6, <1>7, <1>8, <1>9 DEF TInv

LEMMA TNext ==
  ASSUME TInv, [Next]_vars
  PROVE  TInv'
<1>1. Typing'
  BY TypingStep DEF TInv
<1>2. Inputs'
  BY InputsStep DEF TInv
<1> QED
  BY <1>1, <1>2, PhasesStep, DatedStep, StatesStep, ExtractionsStep DEF TInv

\* In every build, with any number of jobs and of recipes or codegens that fail,
\* make's own state agrees with the files: what is running, waiting and found out
\* of date, and which outputs of an extraction are current.
THEOREM Bookkeeping == Spec => []TInv
<1>1. Init => TInv
  BY TInit
<1>2. TInv /\ [Next]_vars => TInv'
  BY TNext
<1> QED
  BY <1>1, <1>2, PTL DEF Spec

\* What codegen writes for all backends tells nothing of the registers.
NoLayout == \A f \in {"simcpp", "wrapper"} : file[f] \in Content => file[f]["logic"] = {}

LEMMA NoLayoutKept ==
  ASSUME TInv, NoLayout, [Next]_vars
  PROVE  NoLayout'
<1>1. {"simcpp", "wrapper"} \subseteq Files /\ DOMAIN file = Files /\ Absent \notin Content /\ Broken \notin Content
  BY FileNames, MarksAssumption DEF TInv, Typing
<1>2. ASSUME NEW f \in {"simcpp", "wrapper"}, file'[f] \in Content, file'[f] # file[f]
      PROVE  \E r \in Codegen : file'[f] = Text(r, f)
  <2>1. ASSUME NEW r \in Rules, RuleStep(r) PROVE \E q \in Codegen : file'[f] = Text(q, f)
    <3>1. r \notin Codegen => f \notin Targets[r]
      BY TargetTable, RuleNames DEF Codegen
    <3>2. ~Run(r)
      BY <1>1, <1>2, <3>1 DEF Run
    <3>3. ~Finish(r)
      BY <1>1, <1>2, <3>1 DEF Finish, Compilers, Codegen
    <3>4. ~Fail(r)
      BY <1>1, <1>2 DEF Fail
    <3>5. ~EmitOpen(r)
      BY <1>1, <1>2 DEF EmitOpen
    <3>6. CASE EmitWrite(r)
      BY <1>1, <1>2, <3>6 DEF EmitWrite, Emitting
    <3>7. ~Launch(r) /\ ~EmitSame(r) /\ ~EmitChanged(r) /\ ~EmitDone(r)
      BY <1>2 DEF Launch, EmitSame, EmitChanged, EmitDone
    <3> QED
      BY <2>1, <3>2, <3>3, <3>4, <3>5, <3>6, <3>7 DEF RuleStep
  <2>2. (\A g : ~Edit(g)) /\ (\A list : ~EditBackends(list)) /\ ~Start
    BY <1>1, <1>2 DEF Edit, EditBackends, Start
  <2>3. \A all : ~Clean(all)
    BY <1>1, <1>2 DEF Clean
  <2>4. ~Skip /\ ~End /\ ~UNCHANGED vars
    BY <1>2 DEF Skip, End, vars
  <2> QED
    BY <2>1, <2>2, <2>3, <2>4 DEF Next
<1>3. \A r, f : f \in {"simcpp", "wrapper"} => Text(r, f)["logic"] = {}
  BY FacetNames DEF Text, Project, Carries
<1> QED
  BY <1>2, <1>3 DEF NoLayout

\* Every file holds versions the user has written, or nothing, or was cut short;
\* sim.cpp and the wrapper hold no version of the registers.
THEOREM TypeCorrect == Spec => []TypeOK
<1>1. Init => NoLayout
  BY FileNames, MarksAssumption DEF Init, NoLayout, Sources
<1>2. TInv /\ NoLayout => TypeOK
  BY DEF TInv, Typing, TypeOK, NoLayout
<1>3. TInv /\ NoLayout /\ [Next]_vars => NoLayout'
  BY NoLayoutKept
<1> QED
  BY <1>1, <1>2, <1>3, Bookkeeping, PTL DEF Spec

\* A step that has an extraction of a unit done ran it, and found it out of date.
LEMMA ExtractionNeeded ==
  ASSUME TInv, [Next]_vars, NEW r \in {"extractA", "extractV"}, job[r] = "waiting", job'[r] = "done"
  PROVE  \E t \in Targets[r] : file[t] # Holding({"logic", "ports", "decl"})
<1>1. r \in Rules \ (Codegen \cup Compilers) /\ r # "genArc" /\ job \in [Rules -> {"idle", "waiting", "running", "done"}]
  BY RuleNames DEF Codegen, Compilers, TInv, Typing
<1>2. Run(r)
  <2>1. ASSUME NEW q \in Rules, RuleStep(q) PROVE Run(r)
    BY <1>1, <2>1 DEF RuleStep, Run, Launch, Finish, Fail, EmitSame, EmitChanged, EmitOpen,
                      EmitWrite, EmitDone, Emitting
  <2>2. \A f : ~Edit(f)
    BY DEF Edit, NoJob
  <2>3. ~Start /\ ~Skip /\ ~End /\ job' # job
    BY <1>1 DEF Start, Skip, End
  <2>4. (\A list : ~EditBackends(list)) /\ (\A all : ~Clean(all)) /\ ~UNCHANGED vars
    BY DEF EditBackends, Clean, NoJob, vars
  <2> QED
    BY <2>1, <2>2, <2>3, <2>4 DEF Next
<1>3. OutOfDate(r)
  BY <1>1, <1>2 DEF Run, Ready, Due
<1>4. PICK t \in Targets[r] : file[t] = Absent \/ \E p \in {"design", "config"} : <<p, t>> \in newer
  BY <1>3, NeedTable, FirstIsBackend DEF OutOfDate, Needs, TInv
<1>5. t \in {"hwA", "hwV", "stateV"}
  BY TargetTable
<1>6. ~Current(t)
  BY <1>4, <1>5, GoalContent DEF TInv, Typing, Extractions, Current
<1> QED
  BY <1>5, <1>6, ExtractionFiles DEF Current, Goal, Unit

\* The rules of firtool.mk and component.mk extract a unit again only when an
\* output is missing or was made from other sources than the present ones.
THEOREM NeedlessNever == Spec => NoNeedlessWork
<1> DEFINE A == \A r \in {"extractA", "extractV"} :
                 job[r] = "waiting" /\ job'[r] = "done" =>
                   \E t \in Targets[r] : file[t] # Holding({"logic", "ports", "decl"})
<1>1. TInv /\ [Next]_vars => [A]_vars
  BY ExtractionNeeded
<1> HIDE DEF A
<1>2. []TInv /\ [][Next]_vars => [][A]_vars
  BY <1>1, PTL
<1> QED
  BY <1>2, Bookkeeping, PTL DEF Spec, NoNeedlessWork, A

----------------------------------------------------------------------------
(* The second invariant: what make leaves alone is current.  It needs what the    *)
(* code does not ensure by itself: no clock's frequency is edited, which no       *)
(* rule's prerequisite tells, and codegen does not stop between two files.        *)

Told == "freq" \notin Editable /\ ~CodegenFails

\* A target that is there, with sound prerequisites none of which is newer.
Fresh(b, r, t) == /\ file[t] # Absent
                  /\ \A p \in Prerequisites[b][r] : Sound(p) /\ <<p, t>> \notin newer

Trusted == \A b \in Backends, r \in Rules : \A t \in Targets[r] : Fresh(b, r, t) => Sound(t)

Pending(f) == \E r \in Codegen : f \in SetOf(emitted[r])

\* The wrapper, which is nobody's target, comes with gen-arc-<name>.cpp.
Companion ==
  (job["genArc"] \in {"running", "done"} \/ Fresh("arcilator", "genArc", "genA"))
    => (Sound("wrapper") \/ Pending("wrapper"))

\* What rules have made in the make that runs.
Passed == \A r \in Rules : \A t \in Targets[r] :
            (job[r] = "done" \/ (r \in Codegen /\ job[r] = "running" /\ t \notin SetOf(emitted[r])))
              => Sound(t)

\* What recipes that run have read.
ReadWell ==
  /\ \A r \in Codegen : job[r] = "running" => got[r] = Holding(Facets)
  /\ \A r \in Compilers : job[r] = "running" => \A t \in Targets[r] : got[r] \in {Goal(t), Broken}

\* Only objects stay broken; codegen's files are while codegen writes them.
Objects == {"genobj", "simoA", "simoV"}

Whole ==
  /\ \A f \in Files \ (Written \cup Objects) : file[f] # Broken
  /\ \A f \in Written : file[f] = Broken =>
       \E r \in Codegen : Stage(r) = "open" /\ emitted[r][2] = f

CInv == Trusted /\ Companion /\ Passed /\ ReadWell /\ Whole

----------------------------------------------------------------------------
(* What is settled is sound. *)

\* The rules feeding each rule, in full.
LEMMA FeedBounds ==
  ASSUME NEW b \in Backends
  PROVE
  /\ Feeding(b, "lower") = {}
  /\ Feeding(b, "extractA") = {"lower"} /\ Feeding(b, "extractV") = {"lower"}
  /\ Feeding(b, "arcilate") = {"lower", "extractA"} /\ Feeding(b, "genArc") = {"lower", "arcilate"}
  /\ Feeding(b, "compileGen") = {"lower", "genArc"}
  /\ Feeding(b, "compileA") = {"lower", "genArc", "genSim"}
  /\ Feeding(b, "linkA") = {"lower", "compileA", "compileGen", "arcilate"}
  /\ Feeding(b, "split") = {"lower", "extractV"} /\ Feeding(b, "verilate") = {"lower", "split"}
  /\ Feeding(b, "compileV") = {"lower", "genSim", "verilate"}
  /\ Feeding(b, "linkV") = {"lower", "compileV", "verilate"}
  /\ Feeding(b, "genSim") = {"lower", IF b = "arcilator" THEN "arcilate" ELSE "extractV"}
<1> USE RuleNames, TargetTable, NeedTable DEF Feeding, State
<1>1. /\ Feeding(b, "lower") = {}
      /\ Feeding(b, "extractA") = {"lower"} /\ Feeding(b, "extractV") = {"lower"}
      /\ Feeding(b, "arcilate") = {"lower", "extractA"}
  OBVIOUS
<1>2. /\ Feeding(b, "genArc") = {"lower", "arcilate"}
      /\ Feeding(b, "compileGen") = {"lower", "genArc"}
      /\ Feeding(b, "compileA") = {"lower", "genArc", "genSim"}
  OBVIOUS
<1>3. Feeding(b, "linkA") = {"lower", "compileA", "compileGen", "arcilate"}
  OBVIOUS
<1>4. Feeding(b, "split") = {"lower", "extractV"} /\ Feeding(b, "verilate") = {"lower", "split"}
  OBVIOUS
<1>5. /\ Feeding(b, "compileV") = {"lower", "genSim", "verilate"}
      /\ Feeding(b, "linkV") = {"lower", "compileV", "verilate"}
  OBVIOUS
<1>6. Feeding(b, "genSim") = {"lower", IF b = "arcilator" THEN "arcilate" ELSE "extractV"}
  OBVIOUS
<1> QED
  BY <1>1, <1>2, <1>3, <1>4, <1>5, <1>6

LEMMA SettledSound ==
  ASSUME First \in Backends, Phases, Trusted, Passed, NEW r \in Rules, Settled(r),
         \A p \in Prerequisites[First][r] : Sound(p)
  PROVE  \A t \in Targets[r] : Sound(t)
<1>1. CASE job[r] = "done"
  BY <1>1 DEF Passed
<1>2. CASE job[r] # "done"
  BY <1>2, SettledTargets DEF Trusted, Fresh
<1> QED
  BY <1>1, <1>2

\* Settled rules that nothing unsettled feeds have sound targets: along the
\* order of the rules.
LEMMA ChainSound ==
  ASSUME First \in Backends, Phases, Inputs, Trusted, Passed, make = "on",
         NEW R \in SUBSET Rules, \A r \in R : Settled(r) /\ Feeding(First, r) \subseteq R
  PROVE  \A r \in R : \A t \in Targets[r] : Sound(t)
<1> DEFINE C(r) == r \in R => \A t \in Targets[r] : Sound(t)
<1> USE RuleNames, TargetTable, NeedTable, FeedBounds
<1>1. Sound("input") /\ Sound("config")
  BY DEF Inputs, Sources, Sound, Current
<1>2. ASSUME NEW r \in R, \A p \in Prerequisites[First][r] : Sound(p)
      PROVE  C(r)
  BY <1>2, SettledSound
<1>3. C("lower")
  BY <1>1, <1>2
<1>4. C("extractA") /\ C("extractV")
  BY <1>1, <1>2, <1>3
<1>5. C("arcilate") /\ C("split")
  <2>1. C("arcilate")
    BY <1>2, <1>4
  <2>2. C("split")
    BY <1>2, <1>4
  <2> QED
    BY <2>1, <2>2
<1>6. C("genArc") /\ C("verilate")
  <2>1. C("genArc")
    BY <1>2, <1>5
  <2>2. C("verilate")
    BY <1>2, <1>5
  <2> QED
    BY <2>1, <2>2
<1>7. C("genSim")
  <2>1. CASE First = "arcilator"
    BY <1>2, <1>5, <2>1, StateNames
  <2>2. CASE First = "verilator"
    BY <1>2, <1>4, <2>2, StateNames
  <2> QED
    BY <2>1, <2>2 DEF Backends
<1>8. C("compileGen") /\ C("compileA") /\ C("compileV")
  <2>1. C("compileGen")
    BY <1>2, <1>6
  <2>2. C("compileA")
    BY <1>2, <1>6, <1>7
  <2>3. C("compileV")
    BY <1>2, <1>6, <1>7
  <2> QED
    BY <2>1, <2>2, <2>3
<1>9. C("linkA") /\ C("linkV")
  <2>1. C("linkA")
    BY <1>2, <1>5, <1>8
  <2>2. C("linkV")
    BY <1>2, <1>6, <1>8
  <2> QED
    BY <2>1, <2>2
<1> QED
  BY <1>3, <1>4, <1>5, <1>6, <1>7, <1>8, <1>9

\* What a rule that is ready reads is sound.
LEMMA Prepared ==
  ASSUME TInv, CInv, NEW r \in Rules, Ready(r)
  PROVE  \A f \in Reads(r) : Sound(f)
<1> USE DEF TInv, CInv
<1> DEFINE R == Before[First][r]
<1>0. First \in Backends /\ make = "on"
  BY FirstIsBackend DEF Ready
<1>1. R \subseteq Rules /\ Feeding(First, r) \subseteq R /\ \A q \in R : Before[First][q] \subseteq R
  BY <1>0, BeforeClosed
<1>2. \A q \in R : Feeding(First, q) \subseteq R
  BY <1>0, <1>1, BeforeClosed
<1>3. \A q \in R : Settled(q)
  BY DEF Ready
<1> HIDE DEF R
<1>4. \A q \in R : \A t \in Targets[q] : Sound(t)
  BY <1>0, <1>1, <1>2, <1>3, ChainSound
<1>5. Sound("input") /\ Sound("config") /\ Sound("json")
  BY <1>0 DEF Inputs, Sources, Sound, Current
<1>6. ASSUME r = "compileA" PROVE Sound("wrapper")
  <2>1. {"genArc", "genSim"} \subseteq R
    BY <1>0, <1>1, <1>6, FeedBounds
  <2>2. {"lower", "arcilate"} \subseteq R
    BY <1>0, <1>2, <2>1, FeedBounds
  <2>3. ~Pending("wrapper")
    <3>1. \A q \in Codegen : job[q] # "running"
      BY <1>3, <2>1, Kinds DEF Settled
    <3>2. SetOf(<<>>) = {}
      BY DEF SetOf
    <3> QED
      BY <3>1, <3>2 DEF Phases, Pending
  <2>4. job["genArc"] = "done" \/ Fresh("arcilator", "genArc", "genA")
    <3>1. Settled("genArc") /\ "genArc" \in Rules
      BY <1>3, <2>1, RuleNames
    <3>2. Sound("stateA")
      BY <1>4, <2>2, TargetTable
    <3>3. \A b \in Backends : Prerequisites[b]["genArc"] = {"stateA"}
      BY NeedTable
    <3>4. "arcilator" \in Backends
      BY DEF Backends
    <3>5. CASE job["genArc"] # "done"
      <4>1. file["genA"] # Absent /\ <<"stateA", "genA">> \notin newer
        BY <1>0, <3>1, <3>3, <3>5, SettledTargets, TargetTable
      <4> QED
        BY <3>2, <3>3, <3>4, <4>1 DEF Fresh
    <3> QED
      BY <3>5
  <2> QED
    BY <2>3, <2>4 DEF Companion
<1>7. Reads(r) \subseteq {"input", "config", "json"} \cup {f \in {"wrapper"} : r = "compileA"}
                          \cup UNION {Targets[q] : q \in Feeding(First, r)}
  <2>1. CASE r \in {"lower", "extractA", "extractV", "arcilate", "split", "verilate"}
    BY <1>0, <2>1, ReadTable, FeedBounds, TargetTable
  <2>2. CASE r \in {"genArc", "compileGen", "compileA", "linkA"}
    BY <1>0, <2>2, ReadTable, FeedBounds, TargetTable
  <2>3. CASE r \in {"compileV", "linkV"}
    BY <1>0, <2>3, ReadTable, FeedBounds, TargetTable
  <2>4. CASE r = "genSim"
    <3>1. CASE First = "arcilator"
      BY <1>0, <2>4, <3>1, ReadTable, FeedBounds, TargetTable, StateNames
    <3>2. CASE First = "verilator"
      BY <1>0, <2>4, <3>2, ReadTable, FeedBounds, TargetTable, StateNames
    <3> QED
      BY <1>0, <3>1, <3>2 DEF Backends
  <2> QED
    BY <2>1, <2>2, <2>3, <2>4, RuleNames
<1> QED
  BY <1>1, <1>4, <1>5, <1>6, <1>7

----------------------------------------------------------------------------
(* The steps of make. *)

LEMMA SoundSame ==
  ASSUME src' = src, NEW f, file'[f] = file[f]
  PROVE  Sound(f)' <=> Sound(f)
BY GoalStays DEF Sound

\* A running codegen gives a file the text it has to have.
LEMMA RightText ==
  ASSUME CInv, NEW r \in Codegen, job[r] = "running", NEW f \in Written
  PROVE  Text(r, f) = Goal(f)
BY TextGoal DEF CInv, ReadWell, Text

LEMMA RuleWritesSound ==
  ASSUME TInv, CInv, NEW r \in Rules, RuleStep(r)
  PROVE  \E fs \in SUBSET Files : Writes(fs) /\ \A f \in fs : Sound(f)'
<1> USE DEF TInv
<1>1. \A f : Goal(f)' = Goal(f)
  BY RuleWrites, GoalStays DEF Writes
<1>2. ASSUME r \notin Codegen, Ready(r), NEW t \in Targets[r] PROVE Product(r) = Goal(t) \/ Product(r) = Broken
  BY <1>2, Prepared, ProductOfSound
<1>3. PICK fs \in SUBSET Files :
           /\ Writes(fs)
           /\ \/ Run(r) /\ fs = Targets[r] /\ \A f \in fs : file'[f] = Product(r)
              \/ Launch(r) /\ fs = {}
              \/ Finish(r) /\ fs = Targets[r] /\ \A f \in fs : file'[f] = got[r]
              \/ Fail(r) /\ fs \in {{}, Targets[r] \cap {"stateA", "stateV"}} /\ \A f \in fs : file'[f] = Product(r)
              \/ (EmitSame(r) \/ EmitChanged(r) \/ EmitDone(r)) /\ fs = {}
              \/ EmitOpen(r) /\ fs = {emitted[r][2]} /\ fs \subseteq Written /\ file'[emitted[r][2]] = Broken
              \/ EmitWrite(r) /\ fs = {emitted[r][2]} /\ fs \subseteq Written
                 /\ file'[emitted[r][2]] = Text(r, emitted[r][2])
  BY RuleWrites
<1>4. ASSUME NEW f \in fs PROVE Sound(f)'
  <2>1. CASE Run(r) /\ f \in Targets[r] /\ file'[f] = Product(r)
    BY <1>1, <1>2, <2>1 DEF Run, Sound
  <2>2. CASE Finish(r) /\ f \in Targets[r] /\ file'[f] = got[r]
    BY <1>1, <2>2 DEF Finish, CInv, ReadWell, Sound
  <2>3. CASE Fail(r) /\ f \in Targets[r] \cap {"stateA", "stateV"} /\ file'[f] = Product(r)
    <3>1. r \notin Codegen \cup Compilers
      BY <2>3, Kinds, TargetTable
    <3>2. Ready(r)
      BY <2>3, <3>1 DEF Fail, Phases
    <3> QED
      BY <1>1, <1>2, <2>3, <3>1, <3>2 DEF Sound
  <2>4. CASE EmitOpen(r) /\ file'[f] = Broken
    BY <2>4 DEF Sound
  <2>5. CASE EmitWrite(r) /\ f \in Written /\ file'[f] = Text(r, f)
    BY <1>1, <2>5, RightText DEF EmitWrite, Emitting, Sound
  <2> QED
    BY <1>3, <2>1, <2>2, <2>3, <2>4, <2>5
<1> QED
  BY <1>3, <1>4

\* Writing sound files spoils nothing.
LEMMA SoundWrites ==
  ASSUME NEW fs \in SUBSET Files, Writes(fs), \A f \in fs : Sound(f)'
  PROVE  \A f \in Files : Sound(f) => Sound(f)'
BY SoundSame DEF Writes

LEMMA TrustedWrites ==
  ASSUME Trusted, NEW fs \in SUBSET Files, Writes(fs), \A f \in fs : Sound(f)'
  PROVE  Trusted'
<1> SUFFICES ASSUME NEW b \in Backends, NEW r \in Rules, NEW t \in Targets[r], Fresh(b, r, t)'
             PROVE  Sound(t)'
  BY DEF Trusted
<1>1. CASE t \in fs
  BY <1>1
<1>2. CASE t \notin fs
  <2>1. t \in Files /\ Prerequisites[b][r] \subseteq Files
    BY OneMaker
  <2>2. file'[t] = file[t]
    BY <1>2, <2>1 DEF Writes
  <2>3. ASSUME NEW p \in Prerequisites[b][r] PROVE p \notin fs
    <3>1. <<p, t>> \notin newer' /\ <<p, t>> \in Edges
      BY EdgePairs DEF Fresh
    <3> QED
      BY <1>2, <3>1, Touched DEF Writes
  <2>4. ASSUME NEW p \in Prerequisites[b][r] PROVE Sound(p) /\ <<p, t>> \notin newer
    <3>1. p \notin fs
      BY <2>3
    <3>2. Sound(p)' /\ <<p, t>> \notin newer'
      BY DEF Fresh
    <3>3. file'[p] = file[p] /\ src' = src /\ newer' = Touch(fs)
      BY <2>1, <3>1 DEF Writes
    <3> QED
      BY <1>2, <3>1, <3>2, <3>3, SoundSame, Touched
  <2>5. Fresh(b, r, t)
    BY <2>2, <2>4 DEF Fresh
  <2>6. Sound(t)
    BY <2>5 DEF Trusted
  <2> QED
    BY <2>1, <2>6, SoundWrites
<1> QED
  BY <1>1, <1>2

\* What a codegen's step does to the files it still has to write.
LEMMA PendingSteps ==
  ASSUME TInv, CInv, NEW r \in Rules, RuleStep(r), Told, NEW q \in Codegen, NEW f \in Written,
         f \in SetOf(emitted[q])
  PROVE  f \in SetOf(emitted'[q]) \/ Sound(f)'
<1> USE DEF TInv
<1>0. \A g : Goal(g)' = Goal(g)
  BY RuleWrites, GoalStays DEF Writes
<1>1. job[q] = "running" /\ emitted[q] # <<>> /\ emitted[q] \in Plans
  BY DEF Phases, SetOf, Typing
<1>2. CASE emitted'[q] = emitted[q]
  BY <1>2
<1>3. CASE q # r
  BY <1>2, <1>3, Kinds DEF RuleStep, Run, Launch, Finish, Fail, EmitSame, EmitChanged, EmitOpen,
     EmitWrite, EmitDone, Typing
<1>4. CASE q = r
  <2>1. CASE EmitSame(r)
    <3>1. Head(emitted[r]) \in Written /\ emitted'[r] = Tail(emitted[r])
      BY <1>1, <1>4, <2>1, PlanSteps DEF EmitSame, Emitting, Typing
    <3>2. file[Head(emitted[r])] = Goal(Head(emitted[r])) /\ file' = file
      BY <1>1, <1>4, <2>1, <3>1, RightText DEF EmitSame, Differs
    <3>3. Stage(r) = "next"
      BY <2>1 DEF EmitSame, Emitting
    <3>4. f = Head(emitted[r]) \/ f \in SetOf(Tail(emitted[r]))
      BY <1>1, <1>4, <3>3, PlanSteps
    <3> QED
      BY <1>0, <1>4, <3>1, <3>2, <3>4 DEF Sound
  <2>2. CASE EmitChanged(r)
    <3>1. emitted'[r] = <<"changed">> \o emitted[r] /\ Stage(r) = "next"
      BY <1>4, <2>2 DEF EmitChanged, Emitting, Typing
    <3> QED
      BY <1>1, <1>4, <3>1, PlanSteps
  <2>3. CASE EmitOpen(r)
    <3>1. emitted'[r] = [emitted[r] EXCEPT ![1] = "open"] /\ Stage(r) = "changed"
      BY <1>4, <2>3 DEF EmitOpen, Emitting, Typing
    <3> QED
      BY <1>1, <1>4, <3>1, PlanSteps
  <2>4. CASE EmitWrite(r)
    <3>1. emitted'[r] = Tail(Tail(emitted[r])) /\ Stage(r) = "open"
      BY <1>4, <2>4 DEF EmitWrite, Emitting, Typing
    <3>2. emitted[r][2] \in Written
      BY <1>1, <1>4, <3>1, PlanSteps
    <3>3. file'[emitted[r][2]] = Goal(emitted[r][2])
      BY <1>1, <1>4, <2>4, <3>2, RightText, WrittenFiles DEF EmitWrite, Typing
    <3>4. f = emitted[r][2] \/ f \in SetOf(Tail(Tail(emitted[r])))
      BY <1>1, <1>4, <3>1, PlanSteps
    <3> QED
      BY <1>0, <1>4, <3>1, <3>3, <3>4 DEF Sound
  <2>5. CASE EmitDone(r)
    BY <1>1, <1>4, <2>5, PlanSteps DEF EmitDone, Emitting
  <2>6. ~Launch(r) /\ ~Run(r) /\ ~Finish(r)
    BY <1>1, <1>4, Kinds DEF Launch, Run, Finish, Ready
  <2>7. ~Fail(r)
    BY <1>1, <1>4 DEF Fail, Told
  <2> QED
    BY <2>1, <2>2, <2>3, <2>4, <2>5, <2>6, <2>7 DEF RuleStep
<1> QED
  BY <1>3, <1>4

LEMMA PassedRule ==
  ASSUME TInv, CInv, NEW r \in Rules, RuleStep(r), Told
  PROVE  Passed'
<1> USE DEF TInv
<1>0. PICK fs \in SUBSET Files : Writes(fs) /\ \A f \in fs : Sound(f)'
  BY RuleWritesSound
<1>1. \A f \in Files : Sound(f) => Sound(f)'
  BY <1>0, SoundWrites
<1> SUFFICES ASSUME NEW q \in Rules, NEW t \in Targets[q],
                    job'[q] = "done" \/ (q \in Codegen /\ job'[q] = "running" /\ t \notin SetOf(emitted'[q]))
             PROVE  Sound(t)'
  BY DEF Passed
<1>2. t \in Files
  BY OneMaker
<1>3. CASE job[q] = "done"
  BY <1>1, <1>2, <1>3 DEF CInv, Passed
<1>4. CASE q \in Codegen /\ job[q] = "running"
  <2>1. t \in Written
    BY <1>4, Kinds, TargetTable DEF Written
  <2>2. CASE t \notin SetOf(emitted[q])
    BY <1>1, <1>2, <1>4, <2>2 DEF CInv, Passed
  <2>3. CASE t \in SetOf(emitted[q]) /\ t \notin SetOf(emitted'[q])
    BY <1>4, <2>1, <2>3, PendingSteps
  <2>4. CASE t \in SetOf(emitted[q]) /\ t \in SetOf(emitted'[q])
    <3>1. job'[q] = "done"
      BY <2>4
    <3>2. EmitDone(q)
      BY <1>4, <3>1, Kinds DEF RuleStep, Run, Launch, Finish, Fail, EmitSame, EmitChanged, EmitOpen,
         EmitWrite, EmitDone, Typing, Ready
    <3>3. emitted[q] = <<>>
      BY <1>4, <3>2, PlanSteps DEF EmitDone, Emitting, Typing
    <3> QED
      BY <2>4, <3>3 DEF SetOf
  <2> QED
    BY <2>2, <2>3, <2>4
<1>5. CASE job[q] # "done" /\ ~(q \in Codegen /\ job[q] = "running")
  <2>1. q = r /\ (Run(r) \/ Finish(r) \/ (Launch(r) /\ r \in Codegen))
    BY <1>5, Kinds DEF RuleStep, Run, Launch, Finish, Fail, EmitSame, EmitChanged, EmitOpen,
       EmitWrite, EmitDone, Emitting, Typing
  <2>2. CASE Run(r)
    <3>1. file'[t] = Product(r) /\ src' = src /\ Product(r) # Broken
      BY <1>2, <2>1, <2>2 DEF Run
    <3>2. Product(r) = Goal(t)
      BY <2>1, <2>2, <3>1, Prepared, ProductOfSound DEF Run
    <3> QED
      BY <3>1, <3>2, GoalStays DEF Sound
  <2>3. CASE Finish(r)
    <3>1. file'[t] = got[r] /\ src' = src
      BY <1>2, <2>1, <2>3 DEF Finish
    <3> QED
      BY <2>1, <2>3, <3>1, GoalStays DEF Sound, CInv, ReadWell, Finish
  <2>4. CASE Launch(r) /\ r \in Codegen
    <3>1. emitted'[r] = Emits(r) /\ job'[r] # "done"
      BY <2>4 DEF Launch, Typing
    <3>2. t \in SetOf(Emits(r))
      BY <2>1, <2>4, Kinds, TargetTable DEF Emits, SetOf
    <3> QED
      BY <2>1, <3>1, <3>2
  <2> QED
    BY <2>1, <2>2, <2>3, <2>4
<1> QED
  BY <1>3, <1>4, <1>5

LEMMA ReadWellRule ==
  ASSUME TInv, CInv, NEW r \in Rules, RuleStep(r)
  PROVE  ReadWell'
<1> USE DEF TInv
<1>1. \A g : Goal(g)' = Goal(g) /\ Holding(Facets)' = Holding(Facets)
  BY RuleWrites, GoalStays DEF Writes, Holding
<1>2. CASE Launch(r)
  <2>1. got' = [got EXCEPT ![r] = Product(r)] /\ job' = [job EXCEPT ![r] = "running"] /\ Ready(r)
    BY <1>2 DEF Launch
  <2>2. r \in Codegen => Product(r) = Holding(Facets)
    BY <2>1, Prepared, ProductOfSound, ProductCodegen, MarksAssumption
  <2>3. r \in Compilers => \A t \in Targets[r] : Product(r) \in {Goal(t), Broken}
    BY <2>1, Prepared, ProductOfSound, Kinds
  <2> QED
    BY <1>1, <2>1, <2>2, <2>3, Kinds DEF CInv, ReadWell, Typing
<1>3. CASE ~Launch(r)
  <2>1. \A q \in Rules : job'[q] = "running" => job[q] = "running" /\ got'[q] = got[q]
    BY <1>3 DEF RuleStep, Run, Finish, Fail, EmitSame, EmitChanged, EmitOpen,
       EmitWrite, EmitDone, Typing
  <2> QED
    BY <1>1, <2>1, Kinds DEF CInv, ReadWell
<1> QED
  BY <1>2, <1>3

\* Opening a file: the stage that follows; the wrapper comes after gen-arc-<name>.cpp.
LEMMA PlanOpens ==
  ASSUME NEW r \in Codegen, emitted[r] \in Plans
  PROVE  /\ Stage(r) = "changed" =>
              LET w == [emitted[r] EXCEPT ![1] = "open"] IN
              /\ w # <<>> /\ Head(w) = "open" /\ w[2] = emitted[r][2]
              /\ emitted[r][2] = "genA" => "wrapper" \in SetOf(w)
         /\ Stage(r) = "open" =>
              (emitted[r][2] = "genA" => "wrapper" \in SetOf(Tail(Tail(emitted[r]))))
<1>1. CASE emitted[r] = <<>> \/ emitted[r] \in Listings
  <2>1. CASE emitted[r] = <<>>
    BY <2>1 DEF Stage
  <2>2. CASE emitted[r] = <<"genA", "wrapper", "simcpp">>
    BY <2>2 DEF Stage
  <2>3. CASE emitted[r] = <<"wrapper", "simcpp">>
    BY <2>3 DEF Stage
  <2>4. CASE emitted[r] = <<"simcpp">>
    BY <2>4 DEF Stage
  <2> QED
    BY <1>1, <2>1, <2>2, <2>3, <2>4 DEF Listings
<1>2. ASSUME NEW s \in {"changed", "open"}, emitted[r] = <<s, "genA", "wrapper", "simcpp">>
      PROVE  /\ emitted[r][2] = "genA"
             /\ [emitted[r] EXCEPT ![1] = "open"] = <<"open", "genA", "wrapper", "simcpp">>
             /\ Tail(Tail(emitted[r])) = <<"wrapper", "simcpp">>
  BY <1>2
<1>3. ASSUME NEW s \in {"changed", "open"}, emitted[r] = <<s, "wrapper", "simcpp">>
      PROVE  /\ emitted[r][2] = "wrapper"
             /\ [emitted[r] EXCEPT ![1] = "open"] = <<"open", "wrapper", "simcpp">>
  BY <1>3
<1>4. ASSUME NEW s \in {"changed", "open"}, emitted[r] = <<s, "simcpp">>
      PROVE  /\ emitted[r][2] = "simcpp"
             /\ [emitted[r] EXCEPT ![1] = "open"] = <<"open", "simcpp">>
  BY <1>4
<1>5. /\ "wrapper" \in SetOf(<<"open", "genA", "wrapper", "simcpp">>)
      /\ "wrapper" \in SetOf(<<"wrapper", "simcpp">>)
  BY DEF SetOf
<1>6. CASE \E s \in {"changed", "open"} : emitted[r] = <<s, "genA", "wrapper", "simcpp">>
  BY <1>2, <1>5, <1>6
<1>7. CASE \E s \in {"changed", "open"} : emitted[r] = <<s, "wrapper", "simcpp">>
  BY <1>3, <1>7
<1>8. CASE \E s \in {"changed", "open"} : emitted[r] = <<s, "simcpp">>
  BY <1>4, <1>8
<1> QED
  BY <1>1, <1>6, <1>7, <1>8 DEF Plans

LEMMA StageSame ==
  ASSUME NEW q \in Codegen, emitted'[q] = emitted[q]
  PROVE  Stage(q)' = Stage(q)
BY DEF Stage

LEMMA WholeRule ==
  ASSUME TInv, States', CInv, NEW r \in Rules, RuleStep(r), Told
  PROVE  Whole'
<1> USE DEF TInv
<1>1. PICK fs \in SUBSET Files :
           /\ Writes(fs)
           /\ \/ Run(r) /\ fs = Targets[r] /\ \A f \in fs : file'[f] = Product(r)
              \/ Launch(r) /\ fs = {}
              \/ Finish(r) /\ fs = Targets[r] /\ \A f \in fs : file'[f] = got[r]
              \/ Fail(r) /\ fs \in {{}, Targets[r] \cap {"stateA", "stateV"}} /\ \A f \in fs : file'[f] = Product(r)
              \/ (EmitSame(r) \/ EmitChanged(r) \/ EmitDone(r)) /\ fs = {}
              \/ EmitOpen(r) /\ fs = {emitted[r][2]} /\ fs \subseteq Written /\ file'[emitted[r][2]] = Broken
              \/ EmitWrite(r) /\ fs = {emitted[r][2]} /\ fs \subseteq Written
                 /\ file'[emitted[r][2]] = Text(r, emitted[r][2])
  BY RuleWrites
<1>2. ASSUME NEW f \in Files \ (Written \cup Objects), f \in fs
      PROVE  file'[f] # Broken
  <2>1. CASE f \in {"stateA", "stateV"}
    BY <2>1 DEF States
  <2>2. CASE Run(r)
    <3>1. file'[f] = Product(r) \/ f \in {"stateA", "stateV"}
      BY <1>1, <1>2, <2>2 DEF Run, Launch, Finish, EmitSame, EmitChanged, EmitDone, EmitOpen, EmitWrite, Emitting
    <3> QED
      BY <2>1, <2>2, <3>1 DEF Run
  <2>3. CASE Finish(r)
    <3>1. Targets[r] \subseteq Objects
      BY <2>3, TargetTable DEF Finish, Compilers, Objects
    <3> QED
      BY <1>1, <1>2, <2>1, <2>3, <3>1 DEF Finish, Run
  <2> QED
    BY <1>1, <1>2, <2>1, <2>2, <2>3
<1>3. ASSUME NEW f \in Written, file'[f] = Broken
      PROVE  \E q \in Codegen : Stage(q)' = "open" /\ emitted'[q][2] = f
  <2>1. CASE f \notin fs
    <3>1. file[f] = Broken
      BY <1>1, <1>3, <2>1, WrittenFiles DEF Writes
    <3>2. PICK q \in Codegen : Stage(q) = "open" /\ emitted[q][2] = f
      BY <3>1 DEF CInv, Whole
    <3>3. job[q] = "running" /\ emitted[q] # <<>>
      BY <3>2 DEF Phases, Stage
    <3>4. CASE q # r
      <4>1. emitted'[q] = emitted[q]
        BY <3>4, Kinds DEF RuleStep, Run, Launch, Finish, Fail, EmitSame, EmitChanged, EmitOpen,
           EmitWrite, EmitDone, Typing
      <4> QED
        BY <3>2, <4>1, StageSame
    <3>5. CASE q = r
      <4>1. EmitWrite(r)
        BY <3>2, <3>3, <3>5, Kinds DEF RuleStep, Run, Launch, Finish, Fail, EmitSame, EmitChanged, EmitOpen,
           EmitDone, Emitting, Ready, Told
      <4>2. fs = {emitted[r][2]}
        BY <1>1, <3>2, <3>3, <3>5, <4>1, Kinds DEF Run, Launch, Finish, Fail, EmitSame, EmitChanged, EmitOpen,
           EmitDone, Emitting, Ready, Told
      <4> QED
        BY <2>1, <3>2, <3>5, <4>2
    <3> QED
      BY <3>4, <3>5
  <2>2. CASE f \in fs
    <3>1. EmitOpen(r) \/ (EmitWrite(r) /\ file'[f] = Text(r, f))
      <4>1. Run(r) \/ Finish(r) => Targets[r] \cap Written = {}
        BY RuleNames, TargetTable DEF Run, Finish, Codegen, Compilers, Written
      <4>2. {"stateA", "stateV"} \cap Written = {}
        BY DEF Written
      <4> QED
        BY <1>1, <2>2, <4>1, <4>2
    <3>2. ~(EmitWrite(r) /\ file'[f] = Text(r, f))
      BY <1>3, RightText, GoalContent DEF EmitWrite, Emitting, Typing
    <3>3. EmitOpen(r)
      BY <3>1, <3>2
    <3>4. f = emitted[r][2]
      BY <1>1, <2>2, <3>3 DEF EmitOpen, Emitting, Run, Finish, Fail, Launch, EmitSame, EmitChanged, EmitDone, Ready, EmitWrite, Typing
    <3>5. emitted'[r] = [emitted[r] EXCEPT ![1] = "open"] /\ Stage(r) = "changed" /\ r \in Codegen
      BY <3>3 DEF EmitOpen, Emitting, Typing
    <3>6. emitted'[r] # <<>> /\ Head(emitted'[r]) = "open" /\ emitted'[r][2] = f
      BY <3>4, <3>5, PlanOpens DEF Typing
    <3> QED
      BY <3>5, <3>6 DEF Stage
  <2> QED
    BY <2>1, <2>2
<1>4. \A f \in Files \ fs : file'[f] = file[f]
  BY <1>1 DEF Writes
<1> QED
  BY <1>2, <1>3, <1>4 DEF Whole, CInv

LEMMA CompanionRule ==
  ASSUME TInv, CInv, NEW r \in Rules, RuleStep(r), Told
  PROVE  Companion'
<1> USE DEF TInv
<1>0. "arcilator" \in Backends /\ "genArc" \in Codegen /\ "wrapper" \in Written /\ "wrapper" \in Files
  BY FileNames DEF Backends, Codegen, Written
<1>1. PICK fs \in SUBSET Files : Writes(fs) /\ \A f \in fs : Sound(f)'
  BY RuleWritesSound
<1>2. Sound("wrapper") => Sound("wrapper")'
  BY <1>0, <1>1, SoundWrites
<1>3. Pending("wrapper") => Sound("wrapper")' \/ Pending("wrapper")'
  BY <1>0, PendingSteps DEF Pending
<1>4. CASE job["genArc"] \in {"running", "done"} \/ Fresh("arcilator", "genArc", "genA")
  BY <1>2, <1>3, <1>4 DEF CInv, Companion
<1>5. CASE job["genArc"] \notin {"running", "done"} /\ ~Fresh("arcilator", "genArc", "genA")
  <2>1. CASE job'["genArc"] \in {"running", "done"}
    <3>1. Launch("genArc")
      <4>1. job \in [Rules -> {"idle", "waiting", "running", "done"}] /\ "genArc" \in Rules \ Compilers
        BY <1>0, Kinds DEF Typing
      <4>2. ~(EmitSame(r) \/ EmitChanged(r) \/ EmitOpen(r) \/ EmitWrite(r))
        BY <1>5, <2>1 DEF EmitSame, EmitChanged, EmitOpen, EmitWrite
      <4>3. ~(Run(r) \/ Finish(r) \/ EmitDone(r))
        BY <1>0, <1>5, <2>1, <4>1 DEF Run, Finish, EmitDone, Emitting
      <4>4. ~Fail(r)
        BY <1>5, <2>1, <4>1 DEF Fail
      <4>5. Launch(r)
        BY <4>2, <4>3, <4>4 DEF RuleStep
      <4> QED
        BY <1>5, <2>1, <4>1, <4>5 DEF Launch
    <3>2. emitted'["genArc"] = <<"genA", "wrapper", "simcpp">>
      BY <1>0, <3>1 DEF Launch, Emits, Typing
    <3>3. "wrapper" \in SetOf(<<"genA", "wrapper", "simcpp">>)
      BY DEF SetOf
    <3> QED
      BY <1>0, <3>2, <3>3 DEF Companion, Pending
  <2>2. CASE Fresh("arcilator", "genArc", "genA")'
    <3>1. /\ file'["genA"] # Absent /\ Sound("stateA")' /\ <<"stateA", "genA">> \notin newer'
          /\ ~(file["genA"] # Absent /\ Sound("stateA") /\ <<"stateA", "genA">> \notin newer)
      BY <1>0, <1>5, <2>2, NeedTable DEF Fresh
    <3>2. <<"stateA", "genA">> \in Edges /\ "stateA" \in Files /\ "genA" \in Files
      BY <1>0, EdgePairs, NeedTable, TargetTable, Kinds, FileNames
    <3>3. PICK gs \in SUBSET Files :
             /\ Writes(gs)
             /\ \/ (Run(r) \/ Finish(r)) /\ gs = Targets[r]
                \/ gs \subseteq {"stateA", "stateV"}
                \/ (EmitOpen(r) \/ EmitWrite(r)) /\ gs = {emitted[r][2]}
      BY RuleWrites
    <3>4. "genA" \in gs
      <4>1. SUFFICES ASSUME "genA" \notin gs PROVE FALSE
        OBVIOUS
      <4>2. "stateA" \notin gs
        BY <3>1, <3>2, <3>3, <4>1, Touched DEF Writes
      <4>3. file'["genA"] = file["genA"] /\ file'["stateA"] = file["stateA"] /\ src' = src /\ newer' = Touch(gs)
        BY <3>2, <3>3, <4>1, <4>2 DEF Writes
      <4> QED
        BY <3>1, <4>1, <4>2, <4>3, SoundSame, Touched
    <3>5. (EmitOpen(r) \/ EmitWrite(r)) /\ emitted[r][2] = "genA"
      <4>1. Run(r) \/ Finish(r) => "genA" \notin Targets[r]
        BY RuleNames, TargetTable DEF Run, Finish, Codegen, Compilers
      <4> QED
        BY <3>3, <3>4, <4>1
    <3>6. CASE EmitOpen(r)
      <4>1. emitted'[r] = [emitted[r] EXCEPT ![1] = "open"] /\ Stage(r) = "changed" /\ r \in Codegen
        BY <3>6 DEF EmitOpen, Emitting, Typing
      <4>2. "wrapper" \in SetOf(emitted'[r])
        BY <3>5, <4>1, PlanOpens DEF Typing
      <4> QED
        BY <4>1, <4>2 DEF Companion, Pending
    <3>7. CASE EmitWrite(r)
      <4>1. emitted'[r] = Tail(Tail(emitted[r])) /\ Stage(r) = "open" /\ r \in Codegen
        BY <3>7 DEF EmitWrite, Emitting, Typing
      <4>2. "wrapper" \in SetOf(emitted'[r])
        BY <3>5, <4>1, PlanOpens DEF Typing
      <4> QED
        BY <4>1, <4>2 DEF Companion, Pending
    <3> QED
      BY <3>5, <3>6, <3>7
  <2> QED
    BY <2>1, <2>2 DEF Companion
<1> QED
  BY <1>4, <1>5

----------------------------------------------------------------------------
(* The steps of the user, and of make itself. *)

\* Every rule but the first needs a file that carries an edited facet and that
\* is never broken while make is off.
LEMMA Carriers ==
  ASSUME NEW b \in Backends, NEW r \in Rules \ {"lower"}, NEW x \in Unit
  PROVE  \E p \in Prerequisites[b][r] : x \in From(p) /\ p \in Files \ (Objects \cup Sources)
<1> USE FileNames, NeedTable DEF Objects, Sources
<1>1. CASE r \in {"extractA", "extractV"}
  <2>1. x \in From("design") \/ x \in From("config")
    BY DEF From, Unit
  <2> QED
    BY <1>1, <2>1
<1>2. \A p \in {"hwA", "stateA", "genA", "libA", "hwV", "vsrc", "libV", "stateV"} : x \in From(p)
  BY DEF From
<1>3. CASE r \in {"arcilate", "genArc", "compileGen", "compileA", "linkA"}
  BY <1>2, <1>3
<1>4. CASE r \in {"split", "verilate", "compileV", "linkV"}
  BY <1>2, <1>4
<1>5. CASE r = "genSim"
  BY <1>2, <1>5 DEF State
<1> QED
  BY <1>1, <1>3, <1>4, <1>5, RuleNames

LEMMA NothingOpen ==
  ASSUME TInv, CInv, \A r \in Codegen : job[r] # "running"
  PROVE  \A f \in Files \ Objects : file[f] # Broken
<1>1. \A r \in Codegen : Stage(r) = "ended"
  BY DEF TInv, Phases, Stage
<1> QED
  BY <1>1 DEF CInv, Whole

LEMMA Overtaken ==
  ASSUME TInv, CInv, Typing', make = "off", NEW p \in Files \ Objects, NEW x \in From(p), x \in Facets,
         src'[x] = src[x] + 1, file'[p] = file[p]
  PROVE  ~Sound(p)'
<1>1. ~Current(p)'
  BY LeftBehind DEF TInv
<1>2. file[p] # Broken
  BY NothingOpen, Kinds DEF TInv, Phases
<1> QED
  BY <1>1, <1>2 DEF Sound, Current

\* An edit of the design, or of a line of config.mk.
LEMMA EditedC ==
  ASSUME TInv, TInv', CInv, make = "off", NEW x \in Unit, src' = [src EXCEPT ![x] = src[x] + 1],
         \A f \in Files \ Sources : file'[f] = file[f], \A f \in Sources : file'[f] # Broken,
         (x \in {"logic", "ports"} /\ <<"input", "design">> \in newer') \/ (x = "decl" /\ newer' = newer),
         UNCHANGED <<job, got, emitted>>
  PROVE  CInv'
<1> USE DEF TInv
<1>1. x \in Facets /\ src'[x] = src[x] + 1 /\ src \in [Facets -> Versions]
  BY FacetNames DEF Unit, Typing
<1>2. \A r \in Rules : job'[r] = "idle"
  BY DEF Phases
<1>3. ASSUME NEW b \in Backends, NEW r \in Rules \ {"lower"}, NEW t \in Targets[r]
      PROVE  ~Fresh(b, r, t)'
  <2>1. PICK p \in Prerequisites[b][r] : x \in From(p) /\ p \in Files \ (Objects \cup Sources)
    BY Carriers
  <2>2. ~Sound(p)'
    BY <1>1, <2>1, Overtaken
  <2> QED
    BY <2>1, <2>2 DEF Fresh
<1>4. ASSUME NEW b \in Backends, Fresh(b, "lower", "design")'
      PROVE  Sound("design")'
  <2>1. x = "decl" /\ newer' = newer
    BY <1>4, NeedTable DEF Fresh
  <2>2. "design" \in Files \ Sources
    BY FileNames DEF Sources
  <2>3. Fresh(b, "lower", "design")
    BY <1>4, <2>1, <2>2, NeedTable DEF Fresh, Inputs, Sources, Sound, Current
  <2>4. Goal("design")' = Goal("design")
    BY <1>1, <2>1, GoalSame, ExtractionFiles, FacetNames
  <2> QED
    BY <2>2, <2>3, <2>4, RuleNames, TargetTable DEF CInv, Trusted, Sound
<1>5. Trusted'
  BY <1>3, <1>4, TargetTable DEF Trusted
<1>6. Companion'
  <2>1. "arcilator" \in Backends /\ "genArc" \in Rules \ {"lower"} /\ "genA" \in Targets["genArc"]
    BY RuleNames, TargetTable DEF Backends
  <2> QED
    BY <1>2, <1>3, <2>1 DEF Companion
<1>7. Passed' /\ ReadWell'
  BY <1>2, Kinds DEF Passed, ReadWell
<1>8. Whole'
  <2>1. \A f \in Files \ Objects : file'[f] # Broken
    BY NothingOpen, Kinds DEF Phases
  <2> QED
    BY <2>1, WrittenFiles DEF Whole, Objects, Written
<1> QED
  BY <1>5, <1>6, <1>7, <1>8 DEF CInv

LEMMA EditC ==
  ASSUME TInv, TInv', CInv, Told, NEW f \in Facets, Edit(f)
  PROVE  CInv'
<1>1. f \in Unit
  BY FacetNames DEF Edit, Told, Unit
<1>2. src' = [src EXCEPT ![f] = src[f] + 1] /\ make = "off" /\ UNCHANGED <<job, got, emitted>>
  BY DEF Edit, NoJob
<1>3. \A g \in Files \ Sources : file'[g] = file[g]
  BY DEF Edit, TInv, Typing, Sources
<1>4. \A g \in Sources : file'[g] # Broken
  BY WrittenFiles, SourceTyping, MarksAssumption DEF Edit, TInv, Typing, Sources
<1>5. (f \in {"logic", "ports"} /\ <<"input", "design">> \in newer') \/ (f = "decl" /\ newer' = newer)
  BY <1>1, Touched, DesignEdges DEF Edit, Unit
<1> QED
  BY <1>1, <1>2, <1>3, <1>4, <1>5, EditedC

LEMMA EditBackendsC ==
  ASSUME TInv, TInv', CInv, NEW list \in BackendLists, EditBackends(list)
  PROVE  CInv'
<1>1. src' = [src EXCEPT !["decl"] = src["decl"] + 1] /\ make = "off" /\ UNCHANGED <<job, got, emitted, newer>>
  BY DEF EditBackends, NoJob
<1>2. \A g \in Files \ Sources : file'[g] = file[g]
  BY DEF EditBackends, TInv, Typing, Sources
<1>3. \A g \in Sources : file'[g] # Broken
  <2>1. file["input"] # Broken
    BY GoalContent DEF TInv, Typing, Inputs, Sources, Current
  <2> QED
    BY <2>1, WrittenFiles, SourceTyping, MarksAssumption DEF EditBackends, TInv, Typing, Sources
<1> QED
  BY <1>1, <1>2, <1>3, EditedC DEF Unit

\* A step that leaves the files alone.
LEMMA FilesKept ==
  ASSUME Typing, CInv, UNCHANGED <<src, backends, file, newer, emitted>>
  PROVE  /\ Trusted' /\ Whole'
         /\ \A f : Sound(f)' <=> Sound(f)
         /\ Fresh("arcilator", "genArc", "genA")' <=> Fresh("arcilator", "genArc", "genA")
         /\ Pending("wrapper")' <=> Pending("wrapper")
<1>1. Trusted'
  BY NothingWritten, TrustedWrites DEF CInv
<1>2. \A f : Sound(f)' <=> Sound(f)
  BY SoundSame
<1>3. Whole'
  BY StageSame DEF CInv, Whole
<1> QED
  BY <1>1, <1>2, <1>3 DEF Fresh, Pending

LEMMA StartC ==
  ASSUME TInv, CInv, Start
  PROVE  CInv'
<1> USE DEF TInv
<1>1. /\ \A f \in Files \ {"config"} : file'[f] = file[f]
      /\ file'["config"] = Goal("config") /\ src' = src
      /\ UNCHANGED <<backends, emitted>>
  BY FileNames, ExtractionFiles DEF Start, Typing, Goal
<1>2. \A r \in Rules : job'[r] \in {"waiting", "idle"}
  BY DEF Start
<1>3. PICK fs \in SUBSET {"config"} : Writes(fs)
  <2>1. CASE file["config"] = Goal("config")
    <3>1. newer' = newer /\ \A f \in Files : file'[f] = file[f]
      BY <1>1, <2>1, ExtractionFiles DEF Start, Differs, Goal
    <3>2. Writes({})
      BY <1>1, <3>1 DEF Writes, Touch
    <3> QED
      BY <3>2
  <2>2. CASE file["config"] # Goal("config")
    <3>1. newer' = Touch({"config"})
      BY <2>2, ExtractionFiles DEF Start, Differs, Goal
    <3>2. Writes({"config"})
      BY <1>1, <3>1 DEF Writes
    <3> QED
      BY <3>2
  <2> QED
    BY <2>1, <2>2
<1>4. \A f \in fs : Sound(f)'
  BY <1>1, GoalStays DEF Sound
<1>5. Trusted'
  BY <1>3, <1>4, TrustedWrites, WrittenFiles DEF CInv
<1>6. Companion'
  <2>1. "arcilator" \in Backends /\ "genArc" \in Rules
    BY RuleNames DEF Backends
  <2>2. {"stateA", "genA", "wrapper"} \subseteq Files \ {"config"}
    BY FileNames
  <2>3. Fresh("arcilator", "genArc", "genA")' => Fresh("arcilator", "genArc", "genA")
    <3>1. <<"stateA", "genA">> \in newer' <=> <<"stateA", "genA">> \in newer
      BY <1>3, Touched DEF Writes
    <3> QED
      BY <1>1, <2>1, <2>2, <3>1, NeedTable, SoundSame DEF Fresh
  <2>4. Sound("wrapper")' <=> Sound("wrapper")
    BY <1>1, <2>2, SoundSame
  <2>5. Pending("wrapper")' <=> Pending("wrapper")
    BY <1>1 DEF Pending
  <2> QED
    BY <1>2, <2>1, <2>3, <2>4, <2>5 DEF CInv, Companion
<1>7. Passed' /\ ReadWell'
  BY <1>2, Kinds DEF Passed, ReadWell
<1>8. Whole'
  <2>1. file'["config"] # Broken
    BY <1>1, GoalContent DEF Typing
  <2>2. \A q \in Codegen : Stage(q)' = Stage(q)
    BY <1>1, StageSame
  <2> QED
    BY <1>1, <2>1, <2>2, WrittenFiles DEF CInv, Whole
<1> QED
  BY <1>5, <1>6, <1>7, <1>8 DEF CInv

LEMMA CleanC ==
  ASSUME TInv, CInv, NEW all \in BOOLEAN, Clean(all)
  PROVE  CInv'
<1> USE DEF TInv
<1>1. /\ \A f \in Files : file'[f] = file[f] \/ file'[f] = Absent
      /\ \A f \in Files \ (Sources \cup Written) : file'[f] = Absent
      /\ UNCHANGED <<src, job, got, emitted>> /\ make = "off"
  BY DEF Clean, NoJob, Written
<1>2. \A r \in Rules : job'[r] = "idle"
  BY <1>1 DEF Phases
<1>3. \A f \in Files \ (Sources \cup Written) : ~Sound(f)'
  BY <1>1, GoalStays, GoalContent, MarksAssumption DEF Sound, Typing
<1>4. ASSUME NEW b \in Backends, NEW r \in Rules, NEW t \in Targets[r]
      PROVE  ~Fresh(b, r, t)'
  <2>1. CASE t \notin Written
    <3>1. t \in Files \ (Sources \cup Written)
      BY <2>1, OneMaker, WrittenFiles
    <3> QED
      BY <1>1, <3>1 DEF Fresh
  <2>2. CASE t \in Written
    <3>1. r \in Codegen
      BY <2>2, RuleNames, TargetTable DEF Written, Codegen
    <3>2. PICK p \in Prerequisites[b][r] : p \in {"stateA", "stateV"}
      BY <3>1, Kinds, NeedTable DEF State
    <3>3. p \in Files \ (Sources \cup Written)
      BY <3>2, FileNames DEF Sources, Written
    <3> QED
      BY <1>3, <3>2, <3>3 DEF Fresh
  <2> QED
    BY <2>1, <2>2
<1>5. Trusted'
  BY <1>4 DEF Trusted
<1>6. Companion'
  <2>1. "arcilator" \in Backends /\ "genArc" \in Rules /\ "genA" \in Targets["genArc"]
    BY RuleNames, TargetTable DEF Backends
  <2> QED
    BY <1>2, <1>4, <2>1 DEF Companion
<1>7. Passed' /\ ReadWell'
  BY <1>2, Kinds DEF Passed, ReadWell
<1>8. Whole'
  <2>1. \A q \in Codegen : Stage(q)' = Stage(q) /\ emitted'[q] = emitted[q]
    BY <1>1, StageSame
  <2> QED
    BY <1>1, <2>1, MarksAssumption, WrittenFiles DEF CInv, Whole
<1> QED
  BY <1>5, <1>6, <1>7, <1>8 DEF CInv

LEMMA EndC ==
  ASSUME TInv, CInv, End
  PROVE  CInv'
<1>1. UNCHANGED <<src, backends, file, newer, emitted>> /\ \A r \in Rules : job'[r] = "idle"
  BY DEF End
<1>2. Trusted' /\ Whole' /\ Passed' /\ ReadWell'
  BY <1>1, FilesKept, Kinds DEF TInv, Passed, ReadWell
<1>3. Companion'
  BY <1>1, FilesKept, Kinds DEF TInv, CInv, Companion
<1> QED
  BY <1>2, <1>3 DEF CInv

LEMMA SkipC ==
  ASSUME TInv, CInv, Skip
  PROVE  CInv'
<1> USE DEF TInv
<1>1. /\ UNCHANGED <<src, backends, file, newer, got, emitted>> /\ Ready("genArc") /\ ~OutOfDate("genArc")
      /\ job' = [job EXCEPT !["genArc"] = "done"] /\ "genArc" \in Rules
      /\ job \in [Rules -> {"idle", "waiting", "running", "done"}]
      /\ First \in Backends /\ "arcilator" \in Backends
  BY RuleNames, FirstIsBackend DEF Skip, Typing, Backends
<1>2. Sound("stateA")
  BY <1>1, Prepared, ReadTable
<1>3. file["genA"] # Absent /\ <<"stateA", "genA">> \notin newer
  <2>1. Targets["genArc"] = {"genA"} /\ Needs("genArc") = {"stateA"}
    BY <1>1, TargetTable, NeedTable DEF Needs
  <2> QED
    BY <1>1, <2>1 DEF OutOfDate
<1>4. Fresh("arcilator", "genArc", "genA")
  BY <1>1, <1>2, <1>3, NeedTable DEF Fresh
<1>5. Sound("genA")
  BY <1>1, <1>4, TargetTable DEF CInv, Trusted
<1>6. /\ Trusted' /\ Whole'
      /\ \A f : Sound(f)' <=> Sound(f)
      /\ Pending("wrapper")' <=> Pending("wrapper")
  BY <1>1, FilesKept
<1>7. Companion'
  BY <1>4, <1>6 DEF CInv, Companion
<1>8. Passed'
  <2>1. ASSUME NEW r \in Rules, NEW t \in Targets[r],
               job'[r] = "done" \/ (r \in Codegen /\ job'[r] = "running" /\ t \notin SetOf(emitted'[r]))
        PROVE  Sound(t)
    <3>1. CASE r = "genArc"
      BY <1>5, <3>1, TargetTable
    <3>2. CASE r # "genArc"
      BY <1>1, <2>1, <3>2 DEF CInv, Passed
    <3> QED
      BY <3>1, <3>2
  <2> QED
    BY <1>6, <2>1 DEF Passed
<1>9. ReadWell'
  <2>1. \A f : Goal(f)' = Goal(f) /\ Holding(Facets)' = Holding(Facets)
    BY <1>1, GoalStays DEF Holding
  <2> QED
    BY <1>1, <2>1, Kinds DEF CInv, ReadWell
<1> QED
  BY <1>6, <1>7, <1>8, <1>9 DEF CInv

LEMMA StutterC ==
  ASSUME TInv, CInv, UNCHANGED vars
  PROVE  CInv'
<1>1. UNCHANGED <<src, backends, file, newer, job, got, emitted>>
  BY DEF vars
<1>2. \A f : Goal(f)' = Goal(f) /\ Holding(Facets)' = Holding(Facets)
  BY <1>1, GoalStays DEF Holding
<1>3. Trusted' /\ Whole' /\ Companion'
  BY <1>1, FilesKept DEF TInv, CInv, Companion
<1>4. Passed' /\ ReadWell'
  BY <1>1, <1>2, FilesKept DEF TInv, CInv, Passed, ReadWell
<1> QED
  BY <1>3, <1>4 DEF CInv

LEMMA CNext ==
  ASSUME TInv, TInv', CInv, Told, [Next]_vars
  PROVE  CInv'
<1>1. ASSUME NEW r \in Rules, RuleStep(r) PROVE CInv'
  <2>1. PICK fs \in SUBSET Files : Writes(fs) /\ \A f \in fs : Sound(f)'
    BY <1>1, RuleWritesSound
  <2>2. Trusted'
    BY <2>1, TrustedWrites DEF CInv
  <2>3. States'
    BY DEF TInv
  <2> QED
    BY <1>1, <2>2, <2>3, PassedRule, ReadWellRule, WholeRule, CompanionRule DEF CInv
<1> QED
  BY <1>1, EditC, EditBackendsC, StartC, SkipC, EndC, CleanC, StutterC DEF Next

LEMMA CInit ==
  ASSUME Init
  PROVE  CInv
<1>1. TInv
  BY TInit
<1>2. \A f \in Files \ Sources : file[f] = Absent
  BY DEF Init
<1>3. \A r \in Rules : \A t \in Targets[r] : file[t] = Absent
  BY <1>2, OneMaker, WrittenFiles
<1>4. /\ \A r \in Rules : job[r] = "idle"
      /\ \A f \in Files : file[f] # Broken
  <2>1. \A r \in Rules : job[r] = "idle"
    BY DEF Init
  <2>2. \A f \in Sources : file[f] # Broken
    BY <1>1, GoalContent DEF TInv, Typing, Inputs, Current
  <2> QED
    BY <1>2, <2>1, <2>2, MarksAssumption
<1>5. Trusted
  BY <1>3 DEF Trusted, Fresh
<1>6. Companion
  BY <1>3, <1>4, RuleNames, TargetTable DEF Companion, Fresh
<1>7. Passed /\ ReadWell
  BY <1>4, Kinds DEF Passed, ReadWell
<1>8. Whole
  BY <1>4, WrittenFiles DEF Whole
<1> QED
  BY <1>5, <1>6, <1>7, <1>8 DEF CInv

----------------------------------------------------------------------------
(* What the binaries are made from. *)

LEMMA SimFiles ==
  /\ \A b \in Backends : Sim(b) \in {"simA", "simV"}
  /\ {"simA", "simV"} \subseteq Files \ (Sources \cup Written \cup Objects \cup {"config"})
  /\ \A f \in {"simA", "simV"} : From(f) = Facets /\ Goal(f) = Holding(Facets)
BY FileNames DEF Sim, Sources, Written, Objects, From, Goal

\* `make all` reaches all that feeds what it reaches, and every backend's link.
LEMMA ReachedClosed ==
  ASSUME Typing
  PROVE  /\ Reached \subseteq Rules
         /\ \A r \in Reached : Feeding(First, r) \subseteq Reached
         /\ \A b \in SetOf(backends) : b \in Backends /\ \E r \in Reached : Sim(b) \in Targets[r]
<1>1. First \in SetOf(backends) /\ SetOf(backends) \subseteq {"arcilator", "verilator"}
  <2>1. backends \in Seq({"arcilator", "verilator"}) /\ backends # <<>>
    BY BuildAssumption DEF Typing
  <2>2. Len(backends) \in Nat /\ Len(backends) # 0
    BY <2>1
  <2>3. 1 \in 1..Len(backends)
    BY <2>2
  <2> QED
    BY <2>1, <2>3 DEF First, SetOf
<1>2. First \in Backends
  BY FirstIsBackend
<1>3. /\ "lower" \in Reached /\ "genSim" \in Reached
      /\ \A r : r \in Reached <=> r \in {"lower", "genSim"} \/ \E b \in SetOf(backends) : r \in BackendRules(b)
  BY DEF Reached
<1>4. Reached \subseteq Rules
  BY <1>1, <1>3, RuleNames DEF BackendRules
<1>5. ASSUME NEW r \in Reached PROVE Feeding(First, r) \subseteq Reached
  <2>1. CASE r = "lower"
    BY <1>2, <2>1, FeedBounds
  <2>2. CASE r = "genSim"
    <3>1. (IF First = "arcilator" THEN "arcilate" ELSE "extractV") \in BackendRules(First)
      BY DEF BackendRules
    <3> QED
      BY <1>1, <1>2, <1>3, <2>2, <3>1, FeedBounds
  <2>3. CASE \E b \in SetOf(backends) : r \in BackendRules(b)
    <3>1. PICK b \in SetOf(backends) : r \in BackendRules(b)
      BY <2>3
    <3>2. Feeding(First, r) \subseteq {"lower", "genSim"} \cup BackendRules(b)
      <4>1. CASE b = "arcilator"
        <5>1. r \in {"extractA", "arcilate", "genArc", "compileGen", "compileA", "linkA"}
          BY <3>1, <4>1 DEF BackendRules
        <5> QED
          BY <1>2, <4>1, <5>1, FeedBounds DEF BackendRules
      <4>2. CASE b = "verilator"
        <5>1. r \in {"extractV", "split", "verilate", "compileV", "linkV"}
          BY <3>1, <4>2 DEF BackendRules
        <5> QED
          BY <1>2, <4>2, <5>1, FeedBounds DEF BackendRules
      <4> QED
        BY <1>1, <4>1, <4>2
    <3> QED
      BY <1>3, <3>1, <3>2
  <2> QED
    BY <1>3, <2>1, <2>2, <2>3
<1>6. ASSUME NEW b \in SetOf(backends) PROVE b \in Backends /\ \E r \in Reached : Sim(b) \in Targets[r]
  <2>1. b \in Backends
    BY <1>1 DEF Backends
  <2>2. CASE b = "arcilator"
    BY <1>3, <2>1, <2>2, TargetTable DEF Sim, BackendRules
  <2>3. CASE b = "verilator"
    BY <1>3, <2>1, <2>3, TargetTable DEF Sim, BackendRules
  <2> QED
    BY <1>1, <2>1, <2>2, <2>3
<1> QED
  BY <1>4, <1>5, <1>6

\* When make ends with nothing left to do, every binary is current.
LEMMA EndCurrent ==
  ASSUME TInv, CInv, make = "on", \A r \in Reached : Settled(r)
  PROVE  \A b \in SetOf(backends) : file[Sim(b)] = Holding(Facets)
<1> USE DEF TInv
<1>1. \A r \in Reached : \A t \in Targets[r] : Sound(t)
  BY FirstIsBackend, ReachedClosed, ChainSound DEF CInv
<1> SUFFICES ASSUME NEW b \in SetOf(backends) PROVE file[Sim(b)] = Holding(Facets)
  OBVIOUS
<1>2. Sound(Sim(b)) /\ b \in Backends
  BY <1>1, ReachedClosed
<1>3. Sim(b) \in {"simA", "simV"} /\ file[Sim(b)] # Broken
  BY <1>2, SimFiles DEF CInv, Whole
<1> QED
  BY <1>2, <1>3, SimFiles DEF Sound

\* A build that succeeded left make off, and the binaries current.
Succeeded == ok => make = "off" /\ BuildIsCurrent

LEMMA SucceededNext ==
  ASSUME TInv, CInv, Succeeded, [Next]_vars
  PROVE  Succeeded'
<1> USE DEF TInv
<1>1. CASE ok' = FALSE
  BY <1>1 DEF Succeeded
<1>2. CASE End
  <2>1. UNCHANGED <<src, backends, file>> /\ make' = "off"
    BY <1>2 DEF End
  <2>2. ok' => \A b \in SetOf(backends) : file[Sim(b)] = Holding(Facets)
    BY <1>2, EndCurrent DEF End
  <2> QED
    BY <2>1, <2>2 DEF Succeeded, BuildIsCurrent, Holding, SetOf
<1>3. ASSUME NEW r \in Rules, RuleStep(r) PROVE Succeeded'
  <2>1. make # "off" /\ ok' = ok
    BY <1>3, RuleWrites DEF RuleStep, Run, Launch, Finish, Fail, EmitSame, EmitChanged, EmitOpen, EmitWrite, EmitDone
  <2> QED
    BY <2>1 DEF Succeeded
<1>4. CASE Skip
  BY <1>4 DEF Skip, Ready, Succeeded
<1>5. CASE UNCHANGED vars
  BY <1>5 DEF vars, Succeeded, BuildIsCurrent, Holding, SetOf
<1> QED
  BY <1>1, <1>2, <1>3, <1>4, <1>5 DEF Next, Edit, EditBackends, Start, Clean

LEMMA HoldingOne ==
  ASSUME Typing, NEW x \in Facets
  PROVE  Cardinality(Holding(Facets)[x]) = 1
<1>1. Holding(Facets)[x] = {src[x]}
  BY DEF Holding
<1> QED
  BY <1>1, FS_Singleton

\* A step leaves a binary alone, removes it, or links it from sound files.
LEMMA OneDesignNext ==
  ASSUME TInv, CInv, OneDesign, [Next]_vars
  PROVE  OneDesign'
<1> USE DEF TInv
<1>1. ASSUME NEW s \in {"simA", "simV"}
      PROVE  file'[s] \in {file[s], Absent, Holding(Facets)}
  <2>1. s \in Files \ (Sources \cup Written \cup Objects \cup {"config"})
    BY SimFiles
  <2>2. ASSUME NEW r \in Rules, RuleStep(r) PROVE file'[s] \in {file[s], Holding(Facets)}
    <3>1. CASE Run(r) /\ s \in Targets[r]
      <4>1. file'[s] = Product(r) /\ Product(r) # Broken
        BY <2>1, <3>1 DEF Run
      <4>2. Product(r) = Goal(s)
        BY <3>1, <4>1, Prepared, ProductOfSound DEF Run
      <4> QED
        BY <4>1, <4>2, SimFiles
    <3>2. CASE ~(Run(r) /\ s \in Targets[r])
      <4>1. Finish(r) => s \notin Targets[r]
        BY TargetTable DEF Finish, Compilers
      <4>2. s \notin {"stateA", "stateV"} /\ s \notin Written
        BY <2>1
      <4> QED
        BY <2>1, <2>2, <3>2, <4>1, <4>2, RuleCases DEF Writes
    <3> QED
      BY <3>1, <3>2
  <2>3. \A f : Edit(f) => file'[s] = file[s]
    BY <2>1 DEF Edit, Typing, Sources
  <2>4. \A list : EditBackends(list) => file'[s] = file[s]
    BY <2>1 DEF EditBackends, Typing, Sources
  <2>5. (Start \/ Skip \/ End \/ UNCHANGED vars) => file'[s] = file[s]
    BY <2>1 DEF Start, Skip, End, vars, Typing
  <2>6. \A all : Clean(all) => file'[s] \in {file[s], Absent}
    BY <2>1 DEF Clean
  <2> QED
    BY <2>2, <2>3, <2>4, <2>5, <2>6 DEF Next
<1>2. \A x \in Facets : Cardinality(Holding(Facets)[x]) = 1
  BY HoldingOne
<1> SUFFICES ASSUME NEW b \in Backends, file'[Sim(b)] \in Content, NEW x \in Facets
             PROVE  Cardinality(file'[Sim(b)][x]) = 1
  BY DEF OneDesign
<1>3. file'[Sim(b)] \in {file[Sim(b)], Holding(Facets)}
  BY <1>1, SimFiles, MarksAssumption
<1> QED
  BY <1>2, <1>3 DEF OneDesign

BInv == TInv /\ CInv /\ Succeeded /\ OneDesign

LEMMA BInit ==
  ASSUME Init
  PROVE  BInv
<1>1. \A b \in Backends : file[Sim(b)] = Absent
  BY SimFiles DEF Init
<1> QED
  BY <1>1, TInit, CInit, MarksAssumption DEF Init, BInv, Succeeded, OneDesign

LEMMA BNext ==
  ASSUME Told, BInv, [Next]_vars
  PROVE  BInv'
BY TNext, CNext, SucceededNext, OneDesignNext DEF BInv

\* If no clock's frequency is edited and codegen does not fail, what make leaves
\* alone is what it would have made, across failed builds and changes of backends.
THEOREM UpToDate ==
  ASSUME Told
  PROVE  Spec => []BInv
<1>1. Init => BInv
  BY BInit
<1>2. BInv /\ [Next]_vars => BInv'
  BY BNext
<1> QED
  BY <1>1, <1>2, PTL DEF Spec

\* With the same hypotheses: after a build that succeeded, the binary of every
\* backend listed is made from the present design and the present cosim.json.
THEOREM Currency ==
  ASSUME Told
  PROVE  Spec => []BuildIsCurrent
<1>1. BInv => BuildIsCurrent
  BY DEF BInv, Succeeded, BuildIsCurrent
<1> QED
  BY <1>1, UpToDate, PTL

\* With the same hypotheses: whatever builds failed, no sim binary links a
\* wrapper or a header of one version with a model of another.
THEOREM OneDesignEach ==
  ASSUME Told
  PROVE  Spec => []OneDesign
<1>1. BInv => OneDesign
  BY DEF BInv
<1> QED
  BY <1>1, UpToDate, PTL

=============================================================================
